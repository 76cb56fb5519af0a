----------------------------- MODULE BufferQueue -----------------------------
(***************************************************************************)
(* The ring of buffer_queue<T> (log/log_queue.h) as operators on its state,*)
(* a record with the array and the three indices.  Its mutex makes each    *)
(* call one step; waiting in pop is a matter of the thread that calls it   *)
(* (see Logger).  clear, front, back and the timed pop, which the server   *)
(* does not call, are left out.                                            *)
(***************************************************************************)
EXTENDS Integers

CONSTANTS capacity,   \* buffer_queue::capacity
          NoItem      \* what a slot holds that was never written

QueueType(Items) ==
    [b_array : [0..(capacity - 1) -> Items \cup {NoItem}],
     b_first : -1..(capacity - 1), b_last : -1..(capacity - 1),
     b_size : 0..capacity]

NewQueue == [b_array |-> [i \in 0..(capacity - 1) |-> NoItem],
             b_first |-> -1, b_last |-> -1, b_size |-> 0]

FullTooLate(q) == q.b_size > capacity     \* variant: off by one
Full(q)  == q.b_size >= capacity
Empty(q) == q.b_size <= 0

(* push, when it finds room.                                               *)
Push(q, item) ==
    LET last == (q.b_last + 1) % capacity
    IN  [b_array |-> [q.b_array EXCEPT ![last] = item],
         b_first |-> q.b_first, b_last |-> last, b_size |-> q.b_size + 1]

(* pop, when it finds an item: the item, and the queue without it.         *)
NewestItem(q) == q.b_array[q.b_last]      \* variant: a stack
PopItem(q) == q.b_array[(q.b_first + 1) % capacity]
Pop(q) == [b_array |-> q.b_array, b_first |-> (q.b_first + 1) % capacity,
           b_last |-> q.b_last, b_size |-> q.b_size - 1]
=============================================================================
