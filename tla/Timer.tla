-------------------------------- MODULE Timer --------------------------------
(***************************************************************************)
(* The timer of timer/timer.h and the id map of timer/hash_map.h: threads  *)
(* call run_after, run_at, run_repeated and cancel, the tick thread started*)
(* by run() hands the callbacks of due nodes to the thread pool, and one   *)
(* thread runs the destructor.                                             *)
(*                                                                         *)
(* Time is measured in ticks, TicksPerMs of them to a millisecond, and a   *)
(* time point is represented by the ticks that are left until it, 0 once   *)
(* it has passed: clock_tick lowers them all.  What tm_mutex protects is   *)
(* one step.  tm_running and the id map are not protected by it, so the    *)
(* test of tm_running, the locked section that may end in a wait, and the  *)
(* hand-over to the pool after the unlock are three steps of the tick      *)
(* thread.                                                                 *)
(***************************************************************************)
EXTENDS Naturals, Sequences, SequencesExt

CONSTANTS Clients,     \* the threads that arm timers
          MaxTimers,   \* bound: timers armed in a behaviour
          Delays,      \* values of ms_time
          Points,      \* ticks until the time points passed to run_at
          Repeats,     \* values of repeated_num
          TicksPerMs,
          None

Ids == 0..(MaxTimers - 1)

Node == [tn_id : Ids, left : Nat, tn_is_period : BOOLEAN,
         tn_is_repeated : BOOLEAN, tn_repeated_num : Nat, tn_period : Nat]

ASSUME TimerAssumption ==
    /\ MaxTimers \in Nat
    /\ Delays \subseteq Nat /\ Points \subseteq Nat /\ Repeats \subseteq Nat
    /\ TicksPerMs \in Nat \ {0}
    /\ None \notin Nat /\ None \notin Node

VARIABLES
    tm_queue,         \* Timer::tm_queue, in the order of the time points
    tm_running,       \* Timer::tm_running
    tm_id,            \* Timer::tm_id, the next id
    tm_id_state_map,  \* the keys of Timer::tm_id_state_map
    cnode,            \* per client: the node its call is about to push
    tpc,              \* where the tick thread is
    sleep,            \* ticks until its wait_for times out
    popped,           \* the id whose callback it is about to post
    dpc,              \* where the destructor is
    budget,           \* history: repeated_num of each run_repeated timer
    posts,            \* history: callbacks posted for such a timer
    late,             \* history: callbacks posted after the timer's cancel
    missed            \* history: notify_all fell before the tick thread's wait

ids     == <<tm_id, tm_id_state_map>>
tick    == <<tpc, sleep, popped>>
dtor    == <<tm_running, dpc>>
history == <<budget, posts, late, missed>>
vars    == <<tm_queue, ids, cnode, tick, dtor, history>>

TypeOK ==
    /\ tm_queue \in Seq(Node)
    /\ tm_id \in 0..MaxTimers /\ tm_id_state_map \subseteq Ids
    /\ cnode \in [Clients -> Node \cup {None}]
    /\ tpc \in {"new", "top", "locked", "wait", "wait_for", "post", "exit"}
    /\ sleep \in Nat /\ popped \in Ids \cup {None}
    /\ tm_running \in BOOLEAN /\ dpc \in {"idle", "notify", "join", "done"}
    /\ budget \in [Ids -> Nat \cup {None}]
    /\ posts \in [Ids -> Nat] /\ late \in [Ids -> Nat] /\ missed \in BOOLEAN

Init ==
    /\ tm_queue = <<>>
    /\ tm_id = 0 /\ tm_id_state_map = {}
    /\ cnode = [c \in Clients |-> None]
    /\ tpc = "new" /\ sleep = 0 /\ popped = None
    /\ tm_running = TRUE /\ dpc = "idle"
    /\ budget = [i \in Ids |-> None]
    /\ posts = [i \in Ids |-> 0] /\ late = [i \in Ids |-> 0] /\ missed = FALSE

-----------------------------------------------------------------------------
(* The clock.  *)
Sooner(n) == [n EXCEPT !.left = IF @ = 0 THEN 0 ELSE @ - 1]

clock_tick ==
    /\ tm_queue' = [i \in DOMAIN tm_queue |-> Sooner(tm_queue[i])]
    /\ cnode' = [c \in Clients |->
                   IF cnode[c] = None THEN None ELSE Sooner(cnode[c])]
    /\ sleep' = IF sleep = 0 THEN 0 ELSE sleep - 1
    /\ UNCHANGED <<ids, tpc, popped, dtor, history>>

-----------------------------------------------------------------------------
(* hash_map, of which the timer uses the keys only: each operation is one  *)
(* critical section of the map.                                            *)
AnyKey(id) == TRUE        \* variant: the id map is not consulted
is_key_exist(id) == id \in tm_id_state_map
emplace(id) == tm_id_state_map' = tm_id_state_map \cup {id}
erase(id) == tm_id_state_map' = tm_id_state_map \ {id}

-----------------------------------------------------------------------------
(* run_after, run_at and run_repeated: take an id and enter it in the map, *)
(* compute the time point, ...                                             *)
Arm(c, n) ==
    /\ tm_id < MaxTimers
    /\ cnode[c] = None
    /\ dpc = "idle"
    /\ tm_id' = tm_id + 1
    /\ emplace(tm_id)
    /\ cnode' = [cnode EXCEPT ![c] = n]
    /\ UNCHANGED <<tm_queue, tick, dtor, posts, late, missed>>

run_after(c, ms_time, is_period) ==
    /\ Arm(c, [tn_id |-> tm_id, left |-> ms_time * TicksPerMs,
               tn_is_period |-> is_period, tn_is_repeated |-> FALSE,
               tn_repeated_num |-> 0, tn_period |-> ms_time * TicksPerMs])
    /\ UNCHANGED budget

run_at(c, time_point) ==
    /\ Arm(c, [tn_id |-> tm_id, left |-> time_point,
               tn_is_period |-> FALSE, tn_is_repeated |-> FALSE,
               tn_repeated_num |-> 0, tn_period |-> 0])
    /\ UNCHANGED budget

run_repeated(c, ms_time, repeated_num) ==
    /\ Arm(c, [tn_id |-> tm_id, left |-> ms_time * TicksPerMs,
               tn_is_period |-> FALSE, tn_is_repeated |-> TRUE,
               tn_repeated_num |-> repeated_num,
               tn_period |-> ms_time * TicksPerMs])
    /\ budget' = [budget EXCEPT ![tm_id] = repeated_num]

(* tm_queue.push: the queue with n at a place its time point allows.  Nodes*)
(* with the same ticks left may come in either order, as their time points *)
(* may differ by less than a tick.                                         *)
Insertions(q, n) ==
    {InsertAt(q, i, n) :
        i \in {j \in 1..(Len(q) + 1) :
                 /\ \A k \in 1..(j - 1) : q[k].left <= n.left
                 /\ \A k \in j..Len(q) : n.left <= q[k].left}}

(* tm_cond.notify_all().                                                   *)
WakeNobody == UNCHANGED <<tpc, sleep>>   \* variant: no notification
WakeTick ==
    IF tpc \in {"wait", "wait_for"} THEN tpc' = "top" /\ sleep' = 0
                                    ELSE UNCHANGED <<tpc, sleep>>

(* ... then, under tm_mutex, push the node and notify the tick thread.     *)
push(c) ==
    /\ cnode[c] # None
    /\ tm_queue' \in Insertions(tm_queue, cnode[c])
    /\ cnode' = [cnode EXCEPT ![c] = None]
    /\ WakeTick
    /\ UNCHANGED <<ids, popped, dtor, history>>

(* cancel(id), for an id that a call has returned.                         *)
cancel(id) ==
    /\ dpc = "idle"
    /\ is_key_exist(id)
    /\ \A c \in Clients : cnode[c] # None => cnode[c].tn_id # id
    /\ erase(id)
    /\ UNCHANGED <<tm_queue, tm_id, cnode, tick, dtor, history>>

-----------------------------------------------------------------------------
(* run() starts the tick thread, which executes run_local.                 *)
TickGoto(from, to) ==
    /\ tpc = from /\ tpc' = to
    /\ UNCHANGED <<tm_queue, ids, cnode, sleep, popped, dtor, history>>

run == dpc = "idle" /\ TickGoto("new", "top")

tick_check == TickGoto("top", IF tm_running THEN "locked" ELSE "exit")

tick_wait == tm_queue = <<>> /\ TickGoto("locked", "wait")

(* duration_cast truncates, so a node is due when less than 1 ms is left.  *)
IsDue(s) == s.left \div TicksPerMs = 0

tick_wait_for ==
    /\ tpc = "locked"
    /\ tm_queue # <<>> /\ ~IsDue(Head(tm_queue))
    /\ sleep' = Head(tm_queue).left
    /\ tpc' = "wait_for"
    /\ UNCHANGED <<tm_queue, ids, cnode, popped, dtor, history>>

(* A wait ends by time-out or, either kind, without reason.                *)
tick_timeout == sleep = 0 /\ TickGoto("wait_for", "top")

spurious_wakeup ==
    /\ tpc \in {"wait", "wait_for"}
    /\ tpc' = "top" /\ sleep' = 0
    /\ UNCHANGED <<tm_queue, ids, cnode, popped, dtor, history>>

(* Variants of Requeue: repetitions are not tested for, or one too few.    *)
RequeueUntested(q, s) ==
    IF ~s.tn_is_period /\ ~s.tn_is_repeated THEN {q}
    ELSE Insertions(q, [s EXCEPT !.left = s.tn_period,
                                 !.tn_repeated_num = @ - 1])
RequeueOneLess(q, s) ==
    IF s.tn_is_period THEN Insertions(q, [s EXCEPT !.left = s.tn_period])
    ELSE IF s.tn_repeated_num > 1
    THEN Insertions(q, [s EXCEPT !.left = s.tn_period,
                                 !.tn_repeated_num = @ - 1])
    ELSE {q}

(* What goes back into the queue when s has been popped: the next firing of*)
(* a periodic timer, or of a repeated one with repetitions left.           *)
Requeue(q, s) ==
    IF s.tn_is_period
    THEN Insertions(q, [s EXCEPT !.left = s.tn_period])
    ELSE IF s.tn_is_repeated /\ s.tn_repeated_num > 0
    THEN Insertions(q, [s EXCEPT !.left = s.tn_period,
                                 !.tn_repeated_num = @ - 1])
    ELSE {q}

(* Variant: the id map is asked whether to post, not whether to requeue.   *)
PopAndKeep ==
    /\ tpc = "locked"
    /\ tm_queue # <<>> /\ IsDue(Head(tm_queue))
    /\ LET s == Head(tm_queue)
       IN  /\ tm_queue' \in Requeue(Tail(tm_queue), s)
           /\ IF is_key_exist(s.tn_id) THEN tpc' = "post" /\ popped' = s.tn_id
                                       ELSE tpc' = "top" /\ UNCHANGED popped
    /\ UNCHANGED <<ids, cnode, sleep, dtor, history>>

(* The nearest node is due: a cancelled one is dropped, any other is put   *)
(* back if it repeats and its callback taken along to be posted.           *)
tick_pop ==
    /\ tpc = "locked"
    /\ tm_queue # <<>> /\ IsDue(Head(tm_queue))
    /\ LET s == Head(tm_queue)
       IN  \/ /\ ~is_key_exist(s.tn_id)
              /\ tm_queue' = Tail(tm_queue)
              /\ tpc' = "top"
              /\ UNCHANGED popped
           \/ /\ is_key_exist(s.tn_id)
              /\ tm_queue' \in Requeue(Tail(tm_queue), s)
              /\ tpc' = "post"
              /\ popped' = s.tn_id
    /\ UNCHANGED <<ids, cnode, sleep, dtor, history>>

(* tm_mutex is released; the callback goes to the pool.                    *)
tick_post ==
    /\ tpc = "post"
    /\ tpc' = "top"
    /\ popped' = None
    /\ posts' = [posts EXCEPT ![popped] =
                   IF budget[popped] = None THEN @ ELSE @ + 1]
    /\ late' = [late EXCEPT ![popped] =
                   IF popped \in tm_id_state_map THEN @ ELSE @ + 1]
    /\ UNCHANGED <<tm_queue, ids, cnode, sleep, dtor, budget, missed>>

-----------------------------------------------------------------------------
(* ~Timer: clear tm_running, notify, join the tick thread if it was started.*)
dtor_stop ==
    /\ dpc = "idle"
    /\ \A c \in Clients : cnode[c] = None
    /\ dpc' = "notify"
    /\ tm_running' = FALSE
    /\ UNCHANGED <<tm_queue, ids, cnode, tick, history>>

dtor_notify_all ==
    /\ dpc = "notify"
    /\ dpc' = "join"
    /\ WakeTick
    /\ missed' = (tpc = "locked")
    /\ UNCHANGED <<tm_queue, tm_running, ids, cnode, popped, budget, posts,
                   late>>

dtor_joined ==
    /\ dpc = "join"
    /\ tpc \in {"new", "exit"}
    /\ dpc' = "done"
    /\ UNCHANGED <<tm_queue, tm_running, ids, cnode, tick, history>>

-----------------------------------------------------------------------------
TickThread == tick_check \/ tick_wait \/ tick_wait_for \/ tick_timeout
                \/ tick_pop \/ tick_post
DtorStep   == dtor_notify_all \/ dtor_joined

Next ==
    \/ clock_tick
    \/ run
    \/ TickThread \/ spurious_wakeup
    \/ \E c \in Clients, ms \in Delays, p \in BOOLEAN : run_after(c, ms, p)
    \/ \E c \in Clients, at \in Points : run_at(c, at)
    \/ \E c \in Clients, ms \in Delays, n \in Repeats : run_repeated(c, ms, n)
    \/ \E c \in Clients : push(c)
    \/ \E id \in Ids : cancel(id)
    \/ dtor_stop \/ DtorStep

(* Time passes, and every thread that can take its next step eventually    *)
(* does.  Nobody has to arm or cancel a timer or to destroy the object, and*)
(* no spurious wake-up is owed.                                            *)
Fairness ==
    /\ WF_vars(clock_tick)
    /\ WF_vars(TickThread)
    /\ WF_vars(DtorStep)
    /\ \A c \in Clients : WF_vars(push(c))

Spec == Init /\ [][Next]_vars /\ Fairness

-----------------------------------------------------------------------------
Queued == Range(tm_queue)

(* The tick thread never oversleeps: an untimed wait means that nothing is *)
(* queued, and a timed wait ends no later than the nearest time point, also*)
(* when nodes with nearer time points are pushed while it sleeps.          *)
NoOversleep ==
    /\ tpc = "wait" => tm_queue = <<>>
    /\ tpc = "wait_for" => \A n \in Queued : sleep <= n.left

(* A cancelled timer fires at most once more: cancel can fall between the  *)
(* tick thread's look at the id map and its post_task, and no further.     *)
AtMostOnePostAfterCancel == \A i \in Ids : late[i] <= 1

(* The firings of a run_repeated timer that are done, under way or still   *)
(* to come.                                                                *)
Nodes(i) == {n \in Queued \cup Range(cnode) : n # None /\ n.tn_id = i}
Firings(i) ==
    posts[i] + (IF popped = i THEN 1 ELSE 0)
             + (IF Nodes(i) = {} THEN 0
                ELSE 1 + (CHOOSE n \in Nodes(i) : TRUE).tn_repeated_num)
KeepsFirings(i) ==
    budget[i] # None =>
        /\ Firings(i)' <= Firings(i)
        /\ i \in tm_id_state_map => Firings(i)' = Firings(i)

(* No step loses or adds a firing of a run_repeated timer, however its     *)
(* requeueing, the posting of its callback and the cancel of other timers  *)
(* interleave; once the timer itself is cancelled they only become fewer.  *)
(* How many they are from the start is the subject of RepeatedAsAsked.     *)
RepeatAccounting == [][\A i \in Ids : KeepsFirings(i)]_vars

(* A run_repeated timer fires no more often than repeated_num, the number  *)
(* of times timer/README.md says its task is repeated.  The code fires     *)
(* once more: run_local tests tn_repeated_num > 0 when it requeues, and the*)
(* first firing has not been counted down from it.                         *)
RepeatedAsAsked ==
    \A i \in Ids : budget[i] # None => posts[i] <= budget[i]

(* Every queued firing, of a periodic timer too, is eventually taken up:   *)
(* its callback is in the tick thread's hands or its node is gone, unless  *)
(* the timer was never started or is destroyed.                            *)
QueuedFiringDone ==
    \A i \in Ids :
        LET Waiting == \E n \in Queued : n.tn_id = i
        IN  Waiting ~> (popped = i \/ ~Waiting \/ tpc = "new" \/ ~tm_running)

(* cancel gets rid of a timer, a periodic one too: its node leaves the     *)
(* queue for good.                                                         *)
CancelledTimerLeaves ==
    \A i \in Ids :
        (i < tm_id /\ i \notin tm_id_state_map)
            ~> (\/ tpc = "new" \/ ~tm_running
                \/ [](\A n \in Queued : n.tn_id # i))

(* The destructor returns, unless its notify_all fell between the tick     *)
(* thread's look at tm_running and an untimed wait.                        *)
DestructorReturns ==
    (dpc = "notify") ~> (dpc = "done" \/ (missed /\ tpc = "wait"))
=============================================================================
