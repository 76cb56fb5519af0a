------------------------------- MODULE Mempool -------------------------------
(***************************************************************************)
(* The memory pool (memory/mem_pool.h, memory/mem_pool.cpp) and its chunks *)
(* (memory/chunk.h, memory/chunk.cpp) as operators on one record: the free *)
(* lists, the two size counters and the chunks themselves.  mp_mutex makes *)
(* alloc_chunk and retrieve one step each.  A chunk is a number; one that  *)
(* has not been allocated from the system has capacity 0.  Sizes are in    *)
(* units of a byte, which is also what the counters count.  Bytes that a   *)
(* chunk no longer holds become NoByte, so that the use of one would show. *)
(***************************************************************************)
EXTENDS Integers, Sequences, FiniteSets, FiniteSetsExt, Functions

CONSTANTS Caps,           \* the sizes mLow .. mUp
          InitNum,        \* chunks of each size made by the constructor
          MAX_POOL_SIZE,
          Bytes,          \* the values of bytes
          NoByte          \* an uninitialised byte

(* No more chunks can exist, as the smallest size bounds their number.     *)
MaxChunks == MAX_POOL_SIZE \div Min(Caps) + 1
ChunkIds  == 1..MaxChunks
nullptr   == 0

ChunkOf(capacity, length, head, data) ==
    [capacity |-> capacity, length |-> length, head |-> head, data |-> data]
NewChunk(size) == ChunkOf(size, 0, 0, [i \in 0..(size - 1) |-> NoByte])
NoChunk == NewChunk(0)

(* Between calls head is 0, as data_buf.cpp asserts, and a chunk holds no  *)
(* more than it has room for.                                              *)
Chunks == [capacity : Caps \cup {0}, length : Nat, head : Nat,
           data : UNION {[0..(c - 1) -> Bytes \cup {NoByte}] : c \in Caps \cup {0}}]
IsChunk(ch) ==
    /\ ch \in Chunks
    /\ ch.length <= ch.capacity /\ ch.head = 0
    /\ DOMAIN ch.data = 0..(ch.capacity - 1)

IsPool(pool) ==
    /\ pool \in [mp_pool : [Caps -> Seq(ChunkIds)], mp_total_size_kb : Nat,
                 mp_left_size_kb : Nat, chunk : [ChunkIds -> Chunks]]
    /\ \A k \in ChunkIds : IsChunk(pool.chunk[k])

SumCaps(pool, ids) ==
    SumFunctionOnSet([k \in ChunkIds |-> pool.chunk[k].capacity], ids)
Created(pool) == {k \in ChunkIds : pool.chunk[k].capacity > 0}

PoolOf(lists, total, left, chunk) ==
    [mp_pool |-> lists, mp_total_size_kb |-> total, mp_left_size_kb |-> left,
     chunk |-> chunk]

(* The constructor: InitNum chunks of each size, numbered size by size.    *)
FirstIds(size) ==
    LET before == InitNum * Cardinality({c \in Caps : c < size})
    IN  [i \in 1..InitNum |-> before + i]

NewPool ==
    LET total == SumFunctionOnSet([c \in Caps |-> c * InitNum], Caps)
        sizes(k) == {c \in Caps : \E i \in 1..InitNum : FirstIds(c)[i] = k}
    IN  PoolOf([c \in Caps |-> FirstIds(c)], total, total,
               [k \in ChunkIds |-> IF sizes(k) = {} THEN NoChunk
                                   ELSE NewChunk(CHOOSE c \in sizes(k) : TRUE)])

-----------------------------------------------------------------------------
(* alloc_chunk(n): the smallest size that holds n; nullptr if none does, ...*)
Fitting(n) == {c \in Caps : n <= c}
IndexFor(n) == Min(Fitting(n))

(* ... exit(1) if that list is empty and the pool is at its limit, ...     *)
AtLimitLate(pool, index) ==                  \* variant: > in place of >=
    pool.mp_total_size_kb + index > MAX_POOL_SIZE
AtLimit(pool, index) == pool.mp_total_size_kb + index >= MAX_POOL_SIZE

MustExit(pool, n) ==
    pool.mp_pool[IndexFor(n)] = <<>> /\ AtLimit(pool, IndexFor(n))

(* ... otherwise the first chunk of the list or, if it is empty, a new one.*)
AllocId(pool, n) ==
    LET list == pool.mp_pool[IndexFor(n)]
    IN  IF list = <<>> THEN Min(ChunkIds \ Created(pool)) ELSE Head(list)

AfterAlloc(pool, n) ==
    LET index == IndexFor(n)
    IN  IF pool.mp_pool[index] = <<>>
        THEN PoolOf(pool.mp_pool,
                    pool.mp_total_size_kb + index, pool.mp_left_size_kb,
                    [pool.chunk EXCEPT ![AllocId(pool, n)] = NewChunk(index)])
        ELSE PoolOf([pool.mp_pool EXCEPT ![index] = Tail(@)],
                    pool.mp_total_size_kb, pool.mp_left_size_kb - index,
                    pool.chunk)

(* Variant of retrieve: the free size is not counted.                      *)
RetrieveUncounted(pool, k) ==
    [pool EXCEPT !.chunk[k] = NewChunk(@.capacity),
                 !.mp_pool[pool.chunk[k].capacity] = <<k>> \o @]

(* retrieve(k): reset it and hang it in front of its list.                 *)
retrieve(pool, k) ==
    LET index == pool.chunk[k].capacity
    IN  PoolOf([pool.mp_pool EXCEPT ![index] = <<k>> \o @],
               pool.mp_total_size_kb, pool.mp_left_size_kb + index,
               [pool.chunk EXCEPT ![k] = NewChunk(index)])

(* The pool after a write to chunk k.                                      *)
WithChunk(pool, k, ch) == [pool EXCEPT !.chunk[k] = ch]

-----------------------------------------------------------------------------
(* Chunk::pop, Chunk::adjust and Chunk::copy.                              *)
ChunkPop(ch, len) ==
    ChunkOf(ch.capacity, ch.length - len, ch.head + len, ch.data)

AdjustHeadOnly(ch) == ChunkOf(ch.capacity, ch.length, 0, ch.data) \* variant: no memmove
Adjust(ch) ==
    ChunkOf(ch.capacity, ch.length, 0,
            [i \in DOMAIN ch.data |->
               IF i < ch.length THEN ch.data[ch.head + i] ELSE NoByte])

ChunkCopy(ch, other) ==
    ChunkOf(ch.capacity, other.length, 0,
            [i \in DOMAIN ch.data |->
               IF i < other.length THEN other.data[other.head + i] ELSE ch.data[i]])

(* Bytes bs put behind the ones the chunk holds, which start at data[0].   *)
PutBehind(ch, bs) ==
    ChunkOf(ch.capacity, ch.length + Len(bs), ch.head,
            [i \in DOMAIN ch.data |->
               IF i \in ch.length..(ch.length + Len(bs) - 1)
               THEN bs[i - ch.length + 1] ELSE ch.data[i]])

Contents(ch) == [i \in 1..ch.length |-> ch.data[ch.head + i - 1]]
=============================================================================
