---------------------------- MODULE DataBufProofs ----------------------------
(***************************************************************************)
(* Proofs about Mempool and DataBuf, for any connections, sizes and limit: *)
(* what the operations do to a chunk, to the pool's lists and accounts and *)
(* to the slots that hold chunks; then the invariant Inv, one lemma for    *)
(* each action, and the four theorems about every behaviour.               *)
(***************************************************************************)
EXTENDS DataBuf, SumTheorems, SequenceTheorems

-----------------------------------------------------------------------------
(* Numbers.                                                                *)
LEMMA MinIs ==
    ASSUME NEW S, S \subseteq Nat, S # {}
    PROVE  Min(S) \in S /\ \A m \in S : Min(S) <= m
<1>1. \E n \in S : \A m \in S : n <= m
  BY LeastNat
<1>2. QED
  BY <1>1 DEF Min

(* Integer division by a positive number.                                  *)
LEMMA DivBound ==
    ASSUME NEW m \in Nat \ {0}, NEW n \in Nat, NEW x \in Nat, m * x <= n
    PROVE  n \div m \in Nat /\ x <= n \div m
<1> DEFINE q == n \div m
<1>1. q \in Int /\ n < m * q + m /\ m * q <= n
  OBVIOUS
<1> HIDE DEF q
<1>2. ASSUME q < 0
      PROVE  FALSE
  <2>1. m * (0 - q) >= m
    BY <1>1, <1>2
  <2>2. QED
    BY <1>1, <2>1
<1>3. ASSUME x > q
      PROVE  FALSE
  <2>1. m * (x - q) >= m
    BY <1>1, <1>3
  <2>2. m * (x - q) = m * x - m * q
    BY <1>1
  <2>3. QED
    BY <1>1, <2>1, <2>2
<1>4. q \in Nat /\ x <= q
  BY <1>1, <1>2, <1>3
<1>5. QED
  BY <1>4 DEF q

(* What the assumption says of sizes and of the numbers of chunks.         *)
LEMMA CapFacts ==
    /\ IsFiniteSet(Caps) /\ Caps # {} /\ Caps \subseteq Nat \ {0}
    /\ Min(Caps) \in Caps /\ Min(Caps) \in Nat \ {0}
    /\ \A c \in Caps : Min(Caps) <= c
    /\ MaxChunks \in Nat /\ MaxChunks = MAX_POOL_SIZE \div Min(Caps) + 1
    /\ ChunkIds \subseteq Nat \ {0}
    /\ IsFiniteSet(ChunkIds) /\ Cardinality(ChunkIds) = MaxChunks
<1>1. IsFiniteSet(Caps) /\ Caps # {} /\ Caps \subseteq Nat \ {0}
  BY BufAssumption
<1>2. Min(Caps) \in Caps /\ \A c \in Caps : Min(Caps) <= c
  BY <1>1, MinIs
<1>3. Min(Caps) \in Nat \ {0}
  BY <1>1, <1>2
<1>4. MAX_POOL_SIZE \div Min(Caps) \in Nat
  <2> DEFINE m == Min(Caps)
  <2>1. m \in Nat \ {0} /\ MAX_POOL_SIZE \in Nat /\ 0 \in Nat /\ m * 0 <= MAX_POOL_SIZE
    BY <1>3, BufAssumption
  <2> HIDE DEF m
  <2>2. MAX_POOL_SIZE \div m \in Nat
    BY <2>1, DivBound
  <2>3. QED
    BY <2>2 DEF m
<1>5. MaxChunks \in Nat /\ MaxChunks = MAX_POOL_SIZE \div Min(Caps) + 1
  BY <1>4 DEF MaxChunks
<1>6. /\ ChunkIds \subseteq Nat \ {0}
      /\ IsFiniteSet(ChunkIds) /\ Cardinality(ChunkIds) = MaxChunks
  <2>1. IsFiniteSet(1..MaxChunks) /\ Cardinality(1..MaxChunks) = MaxChunks
    BY <1>5, FS_Interval
  <2>2. QED
    BY <1>5, <2>1 DEF ChunkIds
<1>7. QED
  BY <1>1, <1>2, <1>3, <1>5, <1>6

-----------------------------------------------------------------------------
(* Chunks.  The bytes a chunk holds have been put there.                   *)
Good(ch) == IsChunk(ch) /\ \A i \in 0..(ch.length - 1) : ch.data[i] \in Bytes

(* A chunk built from its parts, and the parts of a chunk.                 *)
LEMMA GoodMade ==
    ASSUME NEW capacity \in Caps \cup {0}, NEW length \in Nat, length <= capacity,
           NEW data \in [0..(capacity - 1) -> Bytes \cup {0}],
           \A i \in 0..(length - 1) : data[i] \in Bytes
    PROVE  Good(ChunkOf(capacity, length, 0, data))
  BY DEF Good, IsChunk, Chunks, ChunkOf

LEMMA GoodParts ==
    ASSUME NEW ch, Good(ch)
    PROVE  /\ ch.capacity \in Caps \cup {0} /\ ch.capacity \in Nat
           /\ ch.length \in Nat /\ ch.length <= ch.capacity
           /\ ch.head = 0
           /\ ch.data \in [0..(ch.capacity - 1) -> Bytes \cup {0}]
           /\ \A i \in 0..(ch.length - 1) : ch.data[i] \in Bytes
<1>1. ch \in Chunks /\ ch.length <= ch.capacity /\ ch.head = 0
  BY DEF Good, IsChunk
<1>2. /\ ch.capacity \in Caps \cup {0} /\ ch.length \in Nat
      /\ ch.data \in UNION {[0..(c - 1) -> Bytes \cup {0}] : c \in Caps \cup {0}}
  BY <1>1 DEF Chunks
<1>3. PICK c \in Caps \cup {0} : ch.data \in [0..(c - 1) -> Bytes \cup {0}]
  BY <1>2
<1>4. DOMAIN ch.data = 0..(ch.capacity - 1)
  BY DEF Good, IsChunk
<1>5. ch.data \in [0..(ch.capacity - 1) -> Bytes \cup {0}]
  BY <1>3, <1>4
<1>6. ch.capacity \in Nat
  <2>1. \A d \in Caps \cup {0} : d \in Nat
    BY CapFacts
  <2>2. QED
    BY <1>2, <2>1
<1>7. \A i \in 0..(ch.length - 1) : ch.data[i] \in Bytes
  BY DEF Good
<1>8. QED
  BY <1>1, <1>2, <1>5, <1>6, <1>7

(* The constructor of a chunk.                                             *)
LEMMA NewChunkGood ==
    ASSUME NEW c \in Caps \cup {0}
    PROVE  /\ Good(NewChunk(c))
           /\ NewChunk(c).capacity = c /\ NewChunk(c).length = 0
<1>1. c \in Nat
  BY CapFacts
<1>2. [i \in 0..(c - 1) |-> 0] \in [0..(c - 1) -> Bytes \cup {0}]
  OBVIOUS
<1>3. QED
  BY <1>1, <1>2, GoodMade DEF NewChunk, ChunkOf

(* The bytes a chunk holds, as a sequence.                                 *)
LEMMA ContentsSeq ==
    ASSUME NEW ch, Good(ch)
    PROVE  /\ Contents(ch) \in Seq(Bytes) /\ Len(Contents(ch)) = ch.length
           /\ \A i \in 1..ch.length : Contents(ch)[i] = ch.data[i - 1]
<1>1. ch.length \in Nat /\ ch.head = 0
  BY GoodParts
<1>2. \A i \in 1..ch.length : ch.data[ch.head + i - 1] = ch.data[i - 1] /\ ch.data[i - 1] \in Bytes
  BY <1>1, GoodParts
<1>3. QED
  BY <1>1, <1>2 DEF Contents

(* Taking n bytes leaves the rest, in order and at the start.              *)
LEMMA PopAdjust ==
    ASSUME NEW ch, Good(ch), NEW n \in 1..ch.length
    PROVE  LET r == Adjust(ChunkPop(ch, n))
           IN  /\ Good(r) /\ r.capacity = ch.capacity
               /\ r.length = ch.length - n
               /\ SubSeq(Contents(ch), 1, n) \in Seq(Bytes)
               /\ Contents(ch) = SubSeq(Contents(ch), 1, n) \o Contents(r)
<1> DEFINE d == [i \in 0..(ch.capacity - 1) |->
                   IF i < ch.length - n THEN ch.data[n + i] ELSE 0]
           r == ChunkOf(ch.capacity, ch.length - n, 0, d)
           C == Contents(ch)
           P == SubSeq(C, 1, n)
<1>1. /\ ch.capacity \in Caps \cup {0} /\ ch.capacity \in Nat
      /\ ch.length \in Nat /\ ch.length <= ch.capacity /\ ch.head = 0
      /\ ch.data \in [0..(ch.capacity - 1) -> Bytes \cup {0}]
      /\ \A i \in 0..(ch.length - 1) : ch.data[i] \in Bytes
  BY GoodParts
<1>2. Adjust(ChunkPop(ch, n)) = r
  <2>1. ChunkPop(ch, n) = ChunkOf(ch.capacity, ch.length - n, n, ch.data)
    BY <1>1 DEF ChunkPop
  <2>2. DOMAIN ch.data = 0..(ch.capacity - 1)
    BY <1>1
  <2> DEFINE p == ChunkOf(ch.capacity, ch.length - n, n, ch.data)
  <2>3. /\ p.capacity = ch.capacity /\ p.length = ch.length - n
        /\ p.head = n /\ p.data = ch.data
    BY DEF ChunkOf
  <2> HIDE DEF p
  <2>4. Adjust(p) = r
    BY <2>2, <2>3 DEF Adjust
  <2>5. QED
    BY <2>1, <2>4 DEF p
<1>3. /\ d \in [0..(ch.capacity - 1) -> Bytes \cup {0}]
      /\ ch.length - n \in Nat /\ ch.length - n <= ch.capacity
      /\ \A i \in 0..(ch.length - n - 1) : d[i] = ch.data[n + i] /\ d[i] \in Bytes
  BY <1>1
<1>4. /\ r.capacity = ch.capacity /\ r.length = ch.length - n /\ r.head = 0
      /\ r.data = d
  BY DEF ChunkOf
<1>5. Good(r)
  BY <1>1, <1>3, GoodMade
<1> HIDE DEF d, r
<1>6. /\ C \in Seq(Bytes) /\ Len(C) = ch.length
      /\ \A i \in 1..ch.length : C[i] = ch.data[i - 1]
  BY ContentsSeq
<1>7. /\ Contents(r) \in Seq(Bytes) /\ Len(Contents(r)) = ch.length - n
      /\ \A i \in 1..(ch.length - n) : Contents(r)[i] = d[i - 1]
  BY <1>4, <1>5, ContentsSeq
<1> HIDE DEF C
<1>8. P \in Seq(Bytes) /\ Len(P) = n /\ \A i \in 1..n : P[i] = C[i]
  BY <1>1, <1>6
<1> HIDE DEF P
<1>9. \A i \in 1..(ch.length - n) : Contents(r)[i] = C[n + i]
  <2> TAKE i \in 1..(ch.length - n)
  <2>1. i - 1 \in 0..(ch.length - n - 1) /\ n + i \in 1..ch.length
    BY <1>1
  <2>2. d[i - 1] = ch.data[n + (i - 1)]
    BY <2>1, <1>3
  <2>3. C[n + i] = ch.data[(n + i) - 1] /\ n + (i - 1) = (n + i) - 1
    BY <2>1, <1>6
  <2>4. QED
    BY <1>7, <2>2, <2>3
<1>10. C = P \o Contents(r)
  <2> DEFINE Q == Contents(r)
  <2> HIDE DEF Q
  <2>1. /\ Q \in Seq(Bytes) /\ Len(Q) = ch.length - n
        /\ \A i \in 1..(ch.length - n) : Q[i] = C[n + i]
    BY <1>7, <1>9 DEF Q
  <2>2. P \o Q \in Seq(Bytes) /\ Len(P \o Q) = Len(C)
    <3>1. P \in Seq(Bytes) /\ Q \in Seq(Bytes)
      BY <1>8, <2>1
    <3>2. P \o Q \in Seq(Bytes) /\ Len(P \o Q) = Len(P) + Len(Q)
      BY <3>1, ConcatProperties, Zenon
    <3>3. Len(P) + Len(Q) = Len(C)
      BY <1>1, <1>6, <1>8, <2>1
    <3>4. QED
      BY <3>2, <3>3
  <2>3. ASSUME NEW i \in 1..Len(C)
        PROVE  (P \o Q)[i] = C[i]
    <3>1. CASE i <= n
      BY <3>1, <1>1, <1>6, <1>8, <2>1
    <3>2. CASE i > n
      <4>1. (P \o Q)[i] = Q[i - n]
        BY <3>2, <1>1, <1>6, <1>8, <2>1
      <4>2. i - n \in 1..(ch.length - n) /\ n + (i - n) = i
        BY <3>2, <1>1, <1>6
      <4>3. QED
        BY <4>1, <4>2, <2>1
    <3>3. i <= n \/ i > n
      BY <1>1, <1>6
    <3>4. QED
      BY <3>1, <3>2, <3>3
  <2>4. P \o Q = C
    BY <1>6, <2>2, <2>3, SeqEqual
  <2>5. QED
    BY <2>4 DEF Q
<1>11. QED
  BY <1>2, <1>4, <1>5, <1>8, <1>10 DEF P, C

(* A copy in a larger chunk holds the same bytes.                          *)
LEMMA CopyKeeps ==
    ASSUME NEW ch, Good(ch), NEW new, Good(new), ch.length <= new.capacity
    PROVE  LET r == ChunkCopy(new, ch)
           IN  /\ Good(r) /\ r.capacity = new.capacity
               /\ r.length = ch.length
               /\ Contents(r) = Contents(ch)
<1> DEFINE d == [i \in 0..(new.capacity - 1) |->
                   IF i < ch.length THEN ch.data[i] ELSE new.data[i]]
           r == ChunkOf(new.capacity, ch.length, 0, d)
<1>1. /\ ch.capacity \in Caps \cup {0} /\ ch.capacity \in Nat
      /\ ch.length \in Nat /\ ch.length <= ch.capacity /\ ch.head = 0
      /\ ch.data \in [0..(ch.capacity - 1) -> Bytes \cup {0}]
      /\ \A i \in 0..(ch.length - 1) : ch.data[i] \in Bytes
  BY GoodParts
<1>2. /\ new.capacity \in Caps \cup {0} /\ new.capacity \in Nat
      /\ new.data \in [0..(new.capacity - 1) -> Bytes \cup {0}]
  BY GoodParts
<1>3. ChunkCopy(new, ch) = r
  <2>1. DOMAIN new.data = 0..(new.capacity - 1)
    BY <1>2
  <2>2. \A i : ch.head + i = 0 + i
    BY <1>1
  <2>3. [i \in DOMAIN new.data |->
           IF i < ch.length THEN ch.data[ch.head + i] ELSE new.data[i]] = d
    BY <2>1, <1>1, <1>2
  <2>4. QED
    BY <2>3 DEF ChunkCopy
<1>4. /\ d \in [0..(new.capacity - 1) -> Bytes \cup {0}]
      /\ \A i \in 0..(ch.length - 1) : d[i] = ch.data[i] /\ d[i] \in Bytes
  BY <1>1, <1>2
<1>5. /\ r.capacity = new.capacity /\ r.length = ch.length /\ r.head = 0
      /\ r.data = d
  BY DEF ChunkOf
<1>6. Good(r)
  BY <1>1, <1>2, <1>4, GoodMade
<1> HIDE DEF d, r
<1>7. Contents(r) = Contents(ch)
  <2>1. ASSUME NEW i \in 1..ch.length
        PROVE  r.data[r.head + i - 1] = ch.data[ch.head + i - 1]
    <3>1. i - 1 \in 0..(ch.length - 1)
      BY <1>1
    <3>2. r.head + i - 1 = i - 1 /\ ch.head + i - 1 = i - 1
      BY <1>1, <1>5
    <3>3. d[i - 1] = ch.data[i - 1]
      BY <1>4, <3>1
    <3>4. QED
      BY <1>5, <3>2, <3>3
  <2>2. QED
    BY <1>5, <2>1 DEF Contents
<1>8. QED
  BY <1>3, <1>5, <1>6, <1>7

(* Bytes put behind the ones a chunk holds follow them.                    *)
LEMMA PutFollows ==
    ASSUME NEW ch, Good(ch), NEW bs \in Seq(Bytes),
           Len(bs) <= ch.capacity - ch.length
    PROVE  LET r == PutBehind(ch, bs)
           IN  /\ Good(r) /\ r.capacity = ch.capacity
               /\ r.length = ch.length + Len(bs)
               /\ Contents(r) = Contents(ch) \o bs
<1> DEFINE n == Len(bs)
           l == ch.length
           d == [i \in 0..(ch.capacity - 1) |->
                   IF i \in l..(l + n - 1) THEN bs[i - l + 1] ELSE ch.data[i]]
           r == ChunkOf(ch.capacity, l + n, 0, d)
           C == Contents(ch)
<1>1. /\ ch.capacity \in Caps \cup {0} /\ ch.capacity \in Nat
      /\ l \in Nat /\ l <= ch.capacity /\ ch.head = 0
      /\ ch.data \in [0..(ch.capacity - 1) -> Bytes \cup {0}]
      /\ \A i \in 0..(l - 1) : ch.data[i] \in Bytes
  BY GoodParts
<1>2. n \in Nat /\ l + n \in Nat /\ l + n <= ch.capacity
  BY <1>1
<1>3. PutBehind(ch, bs) = r
  <2>1. DOMAIN ch.data = 0..(ch.capacity - 1)
    BY <1>1
  <2>2. QED
    BY <2>1, <1>1 DEF PutBehind
<1>4. /\ d \in [0..(ch.capacity - 1) -> Bytes \cup {0}]
      /\ \A i \in 0..(l - 1) : d[i] = ch.data[i] /\ d[i] \in Bytes
      /\ \A i \in l..(l + n - 1) : d[i] = bs[i - l + 1] /\ d[i] \in Bytes
  <2>1. \A i \in l..(l + n - 1) : i - l + 1 \in 1..n /\ bs[i - l + 1] \in Bytes
    BY <1>1, <1>2
  <2>2. \A i \in 0..(ch.capacity - 1) : d[i] =
           IF i \in l..(l + n - 1) THEN bs[i - l + 1] ELSE ch.data[i]
    OBVIOUS
  <2>3. d \in [0..(ch.capacity - 1) -> Bytes \cup {0}]
    BY <1>1, <2>1
  <2> HIDE DEF d, n, l
  <2>4. \A i \in 0..(l - 1) : d[i] = ch.data[i] /\ d[i] \in Bytes
    BY <1>1, <1>2, <2>2
  <2>5. \A i \in l..(l + n - 1) : d[i] = bs[i - l + 1] /\ d[i] \in Bytes
    BY <1>1, <1>2, <2>1, <2>2
  <2>6. QED
    BY <2>3, <2>4, <2>5
<1>5. \A i \in 0..(l + n - 1) : d[i] \in Bytes
  <2> HIDE DEF d
  <2>1. QED
    BY <1>1, <1>2, <1>4
<1>6. /\ r.capacity = ch.capacity /\ r.length = l + n /\ r.head = 0
      /\ r.data = d
  BY DEF ChunkOf
<1>7. Good(r)
  <2> HIDE DEF d, n, l
  <2>1. QED
    BY <1>1, <1>2, <1>4, <1>5, GoodMade
<1> HIDE DEF d, r
<1>8. /\ C \in Seq(Bytes) /\ Len(C) = l
      /\ \A i \in 1..l : C[i] = ch.data[i - 1]
  BY ContentsSeq
<1>9. /\ Contents(r) \in Seq(Bytes) /\ Len(Contents(r)) = l + n
      /\ \A i \in 1..(l + n) : Contents(r)[i] = d[i - 1]
  BY <1>6, <1>7, ContentsSeq
<1> HIDE DEF C
<1>10. Contents(r) = C \o bs
  <2> DEFINE Q == Contents(r)
  <2> HIDE DEF Q, l
  <2>1. /\ Q \in Seq(Bytes) /\ Len(Q) = l + n
        /\ \A i \in 1..(l + n) : Q[i] = d[i - 1]
    BY <1>9 DEF Q
  <2>2. C \o bs \in Seq(Bytes) /\ Len(C \o bs) = Len(Q)
    <3>1. C \o bs \in Seq(Bytes) /\ Len(C \o bs) = Len(C) + Len(bs)
      BY <1>8, ConcatProperties
    <3>2. QED
      BY <1>8, <2>1, <3>1
  <2>3. ASSUME NEW i \in 1..Len(Q)
        PROVE  Q[i] = (C \o bs)[i]
    <3>0. i \in 1..(l + n) /\ i \in Nat
      BY <2>1, <1>1, <1>2
    <3>1. CASE i <= l
      <4>1. (C \o bs)[i] = C[i]
        BY <3>0, <3>1, <1>8
      <4>2. i - 1 \in 0..(l - 1) /\ i \in 1..l
        BY <3>0, <3>1, <1>1
      <4>3. QED
        BY <3>0, <4>1, <4>2, <1>4, <1>8, <2>1
    <3>2. CASE i > l
      <4>1. (C \o bs)[i] = bs[i - l]
        BY <3>0, <3>2, <1>1, <1>2, <1>8
      <4>2. i - 1 \in l..(l + n - 1) /\ (i - 1) - l + 1 = i - l
        BY <3>0, <3>2, <1>1, <1>2
      <4>3. QED
        BY <3>0, <4>1, <4>2, <1>4, <2>1
    <3>3. i <= l \/ i > l
      BY <3>0, <1>1
    <3>4. QED
      BY <3>1, <3>2, <3>3
  <2>4. Q = C \o bs
    BY <2>1, <2>2, <2>3, SeqEqual
  <2>5. QED
    BY <2>4 DEF Q
<1>11. QED
  BY <1>3, <1>6, <1>7, <1>10 DEF C

-----------------------------------------------------------------------------
(* The pool, field by field: its lists l, chunks ch and counters, with H   *)
(* the chunks that are held outside of it.                                 *)
Listed(l) == {k \in ChunkIds : \E c \in Caps : \E i \in 1..Len(l[c]) : l[c][i] = k}
Made(ch) == {k \in ChunkIds : ch[k].capacity > 0}
CapOf(ch) == [k \in ChunkIds |-> ch[k].capacity]
Lens(l) == [c \in Caps |-> Len(l[c])]

PoolTypes(l, ch) ==
    /\ l \in [Caps -> Seq(ChunkIds)] /\ ch \in [ChunkIds -> Chunks]
    /\ \A k \in ChunkIds : Good(ch[k])

(* A list holds empty chunks of its size, each once.                       *)
ListsOk(l, ch) ==
    \A c \in Caps : \A i \in 1..Len(l[c]) :
        /\ ch[l[c][i]].capacity = c /\ ch[l[c][i]].length = 0
        /\ \A j \in 1..Len(l[c]) : l[c][i] = l[c][j] => i = j

HeldOk(l, ch, H) == Listed(l) \cup H = Made(ch) /\ Listed(l) \cap H = {}

Counted(l) == Cardinality(Listed(l)) = SumFunctionOnSet(Lens(l), Caps)

Accounts(l, ch, total, left) ==
    /\ left = SumFunctionOnSet(CapOf(ch), Listed(l))
    /\ total = SumFunctionOnSet(CapOf(ch), Made(ch)) /\ total < MAX_POOL_SIZE

PoolInv(l, ch, total, left, H) ==
    /\ PoolTypes(l, ch) /\ ListsOk(l, ch) /\ HeldOk(l, ch, H)
    /\ Counted(l) /\ Accounts(l, ch, total, left)

LEMMA CapOfNat ==
    ASSUME NEW ch, \A k \in ChunkIds : Good(ch[k])
    PROVE  \A k \in ChunkIds : CapOf(ch)[k] \in Nat /\ CapOf(ch)[k] = ch[k].capacity
<1>1. \A k \in ChunkIds : ch[k].capacity \in Nat
  BY GoodParts
<1>2. QED
  BY <1>1 DEF CapOf

LEMMA ListedFinite ==
    ASSUME NEW l
    PROVE  IsFiniteSet(Listed(l)) /\ Listed(l) \subseteq ChunkIds
<1>1. Listed(l) \subseteq ChunkIds
  BY DEF Listed
<1>2. QED
  BY <1>1, CapFacts, FS_Subset

LEMMA MadeFinite ==
    ASSUME NEW ch
    PROVE  IsFiniteSet(Made(ch)) /\ Made(ch) \subseteq ChunkIds
<1>1. Made(ch) \subseteq ChunkIds
  BY DEF Made
<1>2. QED
  BY <1>1, CapFacts, FS_Subset

LEMMA LensNat ==
    ASSUME NEW l \in [Caps -> Seq(ChunkIds)]
    PROVE  \A c \in Caps : Lens(l)[c] \in Nat /\ Lens(l)[c] = Len(l[c])
  BY DEF Lens

(* The counters are natural numbers.                                       *)
LEMMA AccountsNat ==
    ASSUME NEW l, NEW ch, NEW total, NEW left, PoolTypes(l, ch),
           Accounts(l, ch, total, left)
    PROVE  total \in Nat /\ left \in Nat
<1>1. \A k \in ChunkIds : CapOf(ch)[k] \in Nat
  BY CapOfNat DEF PoolTypes
<1>2. SumFunctionOnSet(CapOf(ch), Listed(l)) \in Nat
  BY <1>1, ListedFinite, SumNat
<1>3. SumFunctionOnSet(CapOf(ch), Made(ch)) \in Nat
  BY <1>1, MadeFinite, SumNat
<1>4. QED
  BY <1>2, <1>3 DEF Accounts

(* Writing to a chunk that is held changes nothing of this.                *)
LEMMA PoolPut ==
    ASSUME NEW l, NEW ch, NEW total, NEW left, NEW H,
           PoolInv(l, ch, total, left, H),
           NEW k \in H, NEW new, Good(new), new.capacity = ch[k].capacity
    PROVE  PoolInv(l, [ch EXCEPT ![k] = new], total, left, H)
<1> DEFINE ch2 == [ch EXCEPT ![k] = new]
<1>1. PoolTypes(l, ch) /\ ListsOk(l, ch) /\ HeldOk(l, ch, H)
  BY DEF PoolInv
<1>2. k \in ChunkIds /\ k \notin Listed(l)
  BY <1>1 DEF HeldOk, Made
<1>3. new \in Chunks
  BY DEF Good, IsChunk
<1>4. PoolTypes(l, ch2)
  BY <1>1, <1>2, <1>3 DEF PoolTypes
<1>5. \A j \in ChunkIds : ch2[j].capacity = ch[j].capacity /\ (j # k => ch2[j] = ch[j])
  BY <1>1, <1>2 DEF PoolTypes
<1> HIDE DEF ch2
<1>6. CapOf(ch2) = CapOf(ch) /\ Made(ch2) = Made(ch)
  BY <1>5 DEF CapOf, Made
<1>7. ListsOk(l, ch2)
  <2> SUFFICES ASSUME NEW c \in Caps, NEW i \in 1..Len(l[c])
               PROVE  /\ ch2[l[c][i]].capacity = c /\ ch2[l[c][i]].length = 0
                      /\ \A j \in 1..Len(l[c]) : l[c][i] = l[c][j] => i = j
    BY DEF ListsOk
  <2>1. l[c][i] \in ChunkIds
    BY <1>1 DEF PoolTypes
  <2>2. l[c][i] # k
    BY <1>2 DEF Listed
  <2>3. QED
    BY <1>1, <1>5, <2>1, <2>2 DEF ListsOk
<1>8. QED
  BY <1>1, <1>4, <1>6, <1>7 DEF PoolInv, HeldOk, Accounts, ch2

(* retrieve.                                                               *)
LEMMA PoolGive ==
    ASSUME NEW l, NEW ch, NEW total, NEW left, NEW H,
           PoolInv(l, ch, total, left, H), NEW k \in H
    PROVE  LET c == ch[k].capacity
           IN  PoolInv([l EXCEPT ![c] = <<k>> \o @],
                       [ch EXCEPT ![k] = NewChunk(c)],
                       total, left + c, H \ {k})
<1> DEFINE c  == ch[k].capacity
           l2 == [l EXCEPT ![c] = <<k>> \o @]
           ch2 == [ch EXCEPT ![k] = NewChunk(c)]
<1>1. PoolTypes(l, ch) /\ ListsOk(l, ch) /\ HeldOk(l, ch, H) /\ Counted(l)
      /\ Accounts(l, ch, total, left)
  BY DEF PoolInv
<1>2. k \in ChunkIds /\ k \notin Listed(l)
  BY <1>1 DEF HeldOk, Made
<1>3. c \in Caps
  <2>1. c \in Caps \cup {0}
    BY <1>1, <1>2, GoodParts DEF PoolTypes
  <2>2. c > 0
    BY <1>1 DEF HeldOk, Made
  <2>3. QED
    BY <2>1, <2>2
<1> HIDE DEF c
<1>4. Good(NewChunk(c)) /\ NewChunk(c).capacity = c /\ NewChunk(c).length = 0
  BY <1>3, NewChunkGood
<1>5. NewChunk(c) \in Chunks
  BY <1>4 DEF Good, IsChunk
<1>6. /\ l \in [Caps -> Seq(ChunkIds)] /\ ch \in [ChunkIds -> Chunks]
      /\ \A j \in ChunkIds : Good(ch[j])
  BY <1>1 DEF PoolTypes
<1>7. /\ l2 \in [Caps -> Seq(ChunkIds)]
      /\ \A d \in Caps : d # c => l2[d] = l[d]
      /\ l2[c] = <<k>> \o l[c]
  BY <1>2, <1>3, <1>6
<1>8. /\ ch2 \in [ChunkIds -> Chunks]
      /\ \A j \in ChunkIds : j # k => ch2[j] = ch[j]
      /\ ch2[k] = NewChunk(c)
  BY <1>2, <1>5, <1>6
<1> HIDE DEF l2, ch2
<1>9. /\ Len(l2[c]) = Len(l[c]) + 1 /\ l2[c][1] = k /\ Len(l[c]) \in Nat
      /\ \A i \in 2..(Len(l[c]) + 1) : l2[c][i] = l[c][i - 1]
  <2>1. l[c] \in Seq(ChunkIds) /\ <<k>> \in Seq(ChunkIds)
    BY <1>2, <1>3, <1>6
  <2>2. QED
    BY <2>1, <1>7
<1>10. PoolTypes(l2, ch2)
  BY <1>4, <1>6, <1>7, <1>8 DEF PoolTypes
<1>11. Listed(l2) = Listed(l) \cup {k}
  <2>1. ASSUME NEW j \in Listed(l2)
        PROVE  j \in Listed(l) \cup {k}
    <3>0. PICK d \in Caps : \E i \in 1..Len(l2[d]) : l2[d][i] = j
      BY DEF Listed
    <3>1. PICK i \in 1..Len(l2[d]) : l2[d][i] = j
      BY <3>0
    <3>2. CASE d # c
      BY <3>1, <3>2, <1>7 DEF Listed
    <3>3. CASE d = c /\ i = 1
      BY <3>1, <3>3, <1>9
    <3>4. CASE d = c /\ i # 1
      <4>1. i - 1 \in 1..Len(l[c]) /\ l2[c][i] = l[c][i - 1]
        BY <3>4, <1>9
      <4>2. QED
        BY <3>1, <3>4, <4>1 DEF Listed
    <3>5. QED
      BY <3>2, <3>3, <3>4
  <2>2. ASSUME NEW j \in Listed(l)
        PROVE  j \in Listed(l2)
    <3>0. PICK d \in Caps : \E i \in 1..Len(l[d]) : l[d][i] = j
      BY DEF Listed
    <3>1. PICK i \in 1..Len(l[d]) : l[d][i] = j
      BY <3>0
    <3>2. CASE d # c
      BY <3>1, <3>2, <1>7 DEF Listed
    <3>3. CASE d = c
      <4>1. i + 1 \in 1..Len(l2[c]) /\ l2[c][i + 1] = l[c][i]
        <5>1. i + 1 \in 2..(Len(l[c]) + 1) /\ (i + 1) - 1 = i
          BY <3>3, <1>9
        <5>2. l2[c][i + 1] = l[c][(i + 1) - 1]
          BY <5>1, <1>9
        <5>3. QED
          BY <5>1, <5>2, <1>9
      <4>2. QED
        BY <3>1, <3>3, <4>1 DEF Listed
    <3>4. QED
      BY <3>2, <3>3
  <2>3. k \in Listed(l2)
    <3>1. 1 \in 1..Len(l2[c])
      BY <1>9
    <3>2. QED
      BY <3>1, <1>2, <1>3, <1>9 DEF Listed
  <2>4. QED
    BY <2>1, <2>2, <2>3
<1>12. \A j \in ChunkIds : ch2[j].capacity = ch[j].capacity
  BY <1>4, <1>8 DEF c
<1>13. CapOf(ch2) = CapOf(ch) /\ Made(ch2) = Made(ch)
  BY <1>12 DEF CapOf, Made
<1>14. ListsOk(l2, ch2)
  <2>1. \A d \in Caps : \A i \in 1..Len(l[d]) : l[d][i] \in ChunkIds /\ l[d][i] # k
    BY <1>2, <1>6 DEF Listed
  <2>2. \A d \in Caps : \A i \in 1..Len(l[d]) :
           ch2[l[d][i]].capacity = d /\ ch2[l[d][i]].length = 0
    BY <1>1, <1>8, <2>1 DEF ListsOk
  <2>0. \A d \in Caps : \A i, j \in 1..Len(l[d]) : l[d][i] = l[d][j] => i = j
    BY <1>1 DEF ListsOk
  <2> SUFFICES ASSUME NEW d \in Caps, NEW i \in 1..Len(l2[d])
               PROVE  /\ ch2[l2[d][i]].capacity = d /\ ch2[l2[d][i]].length = 0
                      /\ \A j \in 1..Len(l2[d]) : l2[d][i] = l2[d][j] => i = j
    BY DEF ListsOk
  <2>3. CASE d # c
    <3>1. l2[d] = l[d]
      BY <2>3, <1>7
    <3>2. QED
      BY <3>1, <2>0, <2>2
  <2>4. CASE d = c
    <3>1. \A j \in 1..Len(l2[c]) : j # 1 =>
             j - 1 \in 1..Len(l[c]) /\ l2[c][j] = l[c][j - 1]
      BY <1>9
    <3>2. CASE i = 1
      <4>1. \A j \in 1..Len(l2[c]) : j # 1 => l2[c][j] # k
        BY <2>1, <3>1, <1>3
      <4>2. QED
        BY <2>4, <3>2, <4>1, <1>4, <1>8, <1>9
    <3>3. CASE i # 1
      <4>1. i - 1 \in 1..Len(l[c]) /\ l2[c][i] = l[c][i - 1]
        BY <2>4, <3>1, <3>3
      <4>2. ch2[l2[c][i]].capacity = c /\ ch2[l2[c][i]].length = 0
        BY <2>2, <4>1, <1>3
      <4>3. ASSUME NEW j \in 1..Len(l2[c]), l2[c][i] = l2[c][j]
            PROVE  i = j
        <5>1. j # 1
          BY <4>1, <4>3, <2>1, <1>3, <1>9
        <5>2. j - 1 \in 1..Len(l[c]) /\ l2[c][j] = l[c][j - 1]
          BY <5>1, <3>1
        <5>3. i - 1 = j - 1
          BY <4>1, <4>3, <5>2, <2>0, <1>3
        <5>4. QED
          BY <5>3, <2>4, <1>9
      <4>4. QED
        BY <2>4, <4>2, <4>3
    <3>4. QED
      BY <3>2, <3>3
  <2>5. QED
    BY <2>3, <2>4
<1>15. HeldOk(l2, ch2, H \ {k})
  BY <1>1, <1>2, <1>11, <1>13 DEF HeldOk
<1>16. Counted(l2)
  <2>1. Cardinality(Listed(l2)) = Cardinality(Listed(l)) + 1
    BY <1>2, <1>11, ListedFinite, FS_AddElement
  <2>2. /\ \A d \in Caps : Lens(l)[d] \in Nat
        /\ Lens(l2)[c] \in Nat /\ Lens(l2)[c] = Lens(l)[c] + 1
        /\ \A d \in Caps \ {c} : Lens(l2)[d] = Lens(l)[d]
    BY <1>3, <1>6, <1>7, <1>9, LensNat
  <2>3. SumFunctionOnSet(Lens(l2), Caps)
          = SumFunctionOnSet(Lens(l), Caps) - Lens(l)[c] + Lens(l2)[c]
    <3> DEFINE f == Lens(l)
               e == Lens(l2)
    <3>1. /\ \A d \in Caps : f[d] \in Nat
          /\ e[c] \in Nat /\ \A d \in Caps \ {c} : e[d] = f[d]
      BY <2>2
    <3>2. IsFiniteSet(Caps)
      BY CapFacts
    <3> HIDE DEF e, f
    <3>3. SumFunctionOnSet(e, Caps) = SumFunctionOnSet(f, Caps) - f[c] + e[c]
      BY <1>3, <3>1, <3>2, SumChange
    <3>4. QED
      BY <3>3 DEF e, f
  <2>4. SumFunctionOnSet(Lens(l), Caps) \in Nat
    BY <2>2, CapFacts, SumNat
  <2>5. QED
    BY <1>1, <1>3, <2>1, <2>2, <2>3, <2>4 DEF Counted
<1>17. Accounts(l2, ch2, total, left + c)
  <2>1. \A j \in ChunkIds : CapOf(ch)[j] \in Nat /\ CapOf(ch)[j] = ch[j].capacity
    BY <1>6, CapOfNat
  <2>2. \A j \in Listed(l) \cup {k} : CapOf(ch)[j] \in Nat
    BY <1>2, <2>1, ListedFinite
  <2>3. SumFunctionOnSet(CapOf(ch), Listed(l) \cup {k})
          = CapOf(ch)[k] + SumFunctionOnSet(CapOf(ch), Listed(l))
    BY <1>2, <2>2, ListedFinite, SumInsert
  <2>4. CapOf(ch)[k] = c /\ c \in Nat
    BY <1>2, <2>1 DEF c
  <2>5. SumFunctionOnSet(CapOf(ch), Listed(l)) \in Nat
    BY <2>2, ListedFinite, SumNat
  <2>6. QED
    BY <1>1, <1>11, <1>13, <2>3, <2>4, <2>5 DEF Accounts
<1>18. PoolInv(l2, ch2, total, left + c, H \ {k})
  BY <1>10, <1>14, <1>15, <1>16, <1>17 DEF PoolInv
<1>19. QED
  BY <1>18 DEF c, l2, ch2

(* alloc_chunk, from a list that is not empty.                             *)
LEMMA PoolTake ==
    ASSUME NEW l, NEW ch, NEW total, NEW left, NEW H,
           PoolInv(l, ch, total, left, H), NEW c \in Caps, l[c] # <<>>
    PROVE  /\ Head(l[c]) \in ChunkIds \ H
           /\ ch[Head(l[c])].capacity = c /\ ch[Head(l[c])].length = 0
           /\ PoolInv([l EXCEPT ![c] = Tail(@)], ch, total, left - c,
                      H \cup {Head(l[c])})
<1> DEFINE k  == Head(l[c])
           l2 == [l EXCEPT ![c] = Tail(@)]
<1>1. /\ PoolTypes(l, ch) /\ ListsOk(l, ch) /\ HeldOk(l, ch, H) /\ Counted(l)
      /\ Accounts(l, ch, total, left)
  BY DEF PoolInv
<1>2. /\ l \in [Caps -> Seq(ChunkIds)] /\ ch \in [ChunkIds -> Chunks]
      /\ \A j \in ChunkIds : Good(ch[j])
  BY <1>1 DEF PoolTypes
<1>3. l[c] \in Seq(ChunkIds) /\ l[c] # <<>>
  BY <1>2
<1>4. /\ l2 \in [Caps -> Seq(ChunkIds)]
      /\ \A d \in Caps : d # c => l2[d] = l[d]
      /\ l2[c] = Tail(l[c])
  BY <1>2, <1>3
<1>5. /\ Len(l[c]) \in Nat /\ Len(l[c]) > 0 /\ k \in ChunkIds /\ k = l[c][1]
      /\ Len(l2[c]) = Len(l[c]) - 1
      /\ \A i \in 1..(Len(l[c]) - 1) : l2[c][i] = l[c][i + 1]
  BY <1>3, <1>4
<1> HIDE DEF l2, k
<1>6. /\ \A d \in Caps : \A i \in 1..Len(l[d]) :
            ch[l[d][i]].capacity = d /\ ch[l[d][i]].length = 0
      /\ \A d \in Caps : \A i, j \in 1..Len(l[d]) : l[d][i] = l[d][j] => i = j
  BY <1>1 DEF ListsOk
<1>7. 1 \in 1..Len(l[c])
  BY <1>5
<1>8. k \in Listed(l) /\ ch[k].capacity = c /\ ch[k].length = 0
  <2>1. k \in Listed(l)
    BY <1>5, <1>7 DEF Listed
  <2>2. ch[l[c][1]].capacity = c /\ ch[l[c][1]].length = 0
    BY <1>6, <1>7
  <2>3. QED
    BY <1>5, <2>1, <2>2
<1>9. k \notin H
  BY <1>1, <1>8 DEF HeldOk
<1>10. \A i \in 1..Len(l2[c]) : i + 1 \in 1..Len(l[c]) /\ l2[c][i] = l[c][i + 1]
  BY <1>5
<1>11. Listed(l2) = Listed(l) \ {k}
  <2>1. ASSUME NEW j \in Listed(l2)
        PROVE  j \in Listed(l) \ {k}
    <3>0. PICK d \in Caps : \E i \in 1..Len(l2[d]) : l2[d][i] = j
      BY DEF Listed
    <3>1. PICK i \in 1..Len(l2[d]) : l2[d][i] = j
      BY <3>0
    <3>2. j \in ChunkIds
      BY DEF Listed
    <3>3. CASE d # c
      <4>1. i \in 1..Len(l[d]) /\ l[d][i] = j
        BY <3>1, <3>3, <1>4
      <4>2. ch[j].capacity = d
        BY <4>1, <1>6
      <4>3. QED
        BY <3>2, <3>3, <4>1, <4>2, <1>8 DEF Listed
    <3>4. CASE d = c
      <4>1. i + 1 \in 1..Len(l[c]) /\ l[c][i + 1] = j
        BY <3>1, <3>4, <1>10
      <4>2. i + 1 # 1
        BY <3>4, <1>5
      <4>3. j # k
        BY <4>1, <4>2, <1>5, <1>6, <1>7
      <4>4. QED
        BY <3>2, <4>1, <4>3 DEF Listed
    <3>5. QED
      BY <3>3, <3>4
  <2>2. ASSUME NEW j \in Listed(l), j # k
        PROVE  j \in Listed(l2)
    <3>0. PICK d \in Caps : \E i \in 1..Len(l[d]) : l[d][i] = j
      BY DEF Listed
    <3>1. PICK i \in 1..Len(l[d]) : l[d][i] = j
      BY <3>0
    <3>2. j \in ChunkIds
      BY DEF Listed
    <3>3. CASE d # c
      BY <3>1, <3>2, <3>3, <1>4 DEF Listed
    <3>4. CASE d = c
      <4>1. i # 1
        BY <2>2, <3>1, <3>4, <1>5
      <4>2. i - 1 \in 1..(Len(l[c]) - 1) /\ (i - 1) + 1 = i
        BY <3>4, <4>1, <1>5
      <4>3. l2[c][i - 1] = j
        BY <4>2, <3>1, <3>4, <1>5
      <4>4. QED
        BY <3>2, <4>2, <4>3, <1>5 DEF Listed
    <3>5. QED
      BY <3>3, <3>4
  <2>3. QED
    BY <2>1, <2>2
<1>12. PoolTypes(l2, ch)
  BY <1>2, <1>4 DEF PoolTypes
<1>13. ListsOk(l2, ch)
  <2> SUFFICES ASSUME NEW d \in Caps, NEW i \in 1..Len(l2[d])
               PROVE  /\ ch[l2[d][i]].capacity = d /\ ch[l2[d][i]].length = 0
                      /\ \A j \in 1..Len(l2[d]) : l2[d][i] = l2[d][j] => i = j
    BY DEF ListsOk
  <2>1. CASE d # c
    <3>1. l2[d] = l[d]
      BY <2>1, <1>4
    <3>2. QED
      BY <3>1, <1>6
  <2>2. CASE d = c
    <3>1. i + 1 \in 1..Len(l[c]) /\ l2[c][i] = l[c][i + 1]
      BY <2>2, <1>10
    <3>2. ASSUME NEW j \in 1..Len(l2[c]), l2[c][i] = l2[c][j]
          PROVE  i = j
      <4>1. j + 1 \in 1..Len(l[c]) /\ l2[c][j] = l[c][j + 1]
        BY <1>10
      <4>2. i + 1 = j + 1
        BY <3>1, <3>2, <4>1, <1>6
      <4>3. QED
        BY <4>2, <2>2, <1>5
    <3>3. ch[l2[c][i]].capacity = c /\ ch[l2[c][i]].length = 0
      BY <3>1, <1>6
    <3>4. QED
      BY <2>2, <3>2, <3>3
  <2>3. QED
    BY <2>1, <2>2
<1>14. HeldOk(l2, ch, H \cup {k})
  BY <1>1, <1>8, <1>11 DEF HeldOk
<1>15. Counted(l2)
  <2>1. Cardinality(Listed(l2)) = Cardinality(Listed(l)) - 1
    BY <1>8, <1>11, ListedFinite, FS_RemoveElement
  <2> DEFINE f == Lens(l)
             e == Lens(l2)
  <2>2. /\ \A d \in Caps : f[d] \in Nat
        /\ e[c] \in Nat /\ e[c] = f[c] - 1
        /\ \A d \in Caps \ {c} : e[d] = f[d]
    BY <1>2, <1>4, <1>5, LensNat
  <2>3. IsFiniteSet(Caps)
    BY CapFacts
  <2> HIDE DEF e, f
  <2>4. SumFunctionOnSet(e, Caps) = SumFunctionOnSet(f, Caps) - f[c] + e[c]
    BY <2>2, <2>3, SumChange
  <2>5. SumFunctionOnSet(f, Caps) \in Nat
    BY <2>2, <2>3, SumNat
  <2>6. SumFunctionOnSet(e, Caps) = SumFunctionOnSet(f, Caps) - 1
    BY <2>2, <2>4, <2>5
  <2>7. QED
    BY <1>1, <2>1, <2>6 DEF Counted, e, f
<1>16. Accounts(l2, ch, total, left - c)
  <2>1. \A j \in ChunkIds : CapOf(ch)[j] \in Nat /\ CapOf(ch)[j] = ch[j].capacity
    BY <1>2, CapOfNat
  <2>2. \A j \in Listed(l) : CapOf(ch)[j] \in Nat
    BY <2>1, ListedFinite
  <2>3. SumFunctionOnSet(CapOf(ch), Listed(l))
          = CapOf(ch)[k] + SumFunctionOnSet(CapOf(ch), Listed(l) \ {k})
    BY <1>8, <2>2, ListedFinite, SumRemove
  <2>4. CapOf(ch)[k] = c /\ c \in Nat
    BY <1>5, <1>8, <2>1
  <2>5. \A j \in Listed(l2) : CapOf(ch)[j] \in Nat
    BY <2>1, ListedFinite
  <2>6. SumFunctionOnSet(CapOf(ch), Listed(l2)) \in Nat
    BY <2>5, ListedFinite, SumNat
  <2>7. SumFunctionOnSet(CapOf(ch), Listed(l))
          = c + SumFunctionOnSet(CapOf(ch), Listed(l2))
    BY <1>11, <2>3, <2>4
  <2>8. QED
    BY <1>1, <2>4, <2>6, <2>7 DEF Accounts
<1>17. PoolInv(l2, ch, total, left - c, H \cup {k})
  BY <1>12, <1>13, <1>14, <1>15, <1>16 DEF PoolInv
<1>18. QED
  BY <1>5, <1>8, <1>9, <1>17 DEF k, l2

(* alloc_chunk, from the system.                                           *)
LEMMA PoolMake ==
    ASSUME NEW l, NEW ch, NEW total, NEW left, NEW H,
           PoolInv(l, ch, total, left, H), NEW c \in Caps,
           NEW k \in ChunkIds, k \notin Made(ch), total + c < MAX_POOL_SIZE
    PROVE  /\ k \notin H
           /\ PoolInv(l, [ch EXCEPT ![k] = NewChunk(c)], total + c, left,
                      H \cup {k})
<1> DEFINE ch2 == [ch EXCEPT ![k] = NewChunk(c)]
<1>1. /\ PoolTypes(l, ch) /\ ListsOk(l, ch) /\ HeldOk(l, ch, H) /\ Counted(l)
      /\ Accounts(l, ch, total, left)
  BY DEF PoolInv
<1>2. k \notin Listed(l) /\ k \notin H
  BY <1>1 DEF HeldOk
<1>3. Good(NewChunk(c)) /\ NewChunk(c).capacity = c
  BY NewChunkGood
<1>4. NewChunk(c) \in Chunks
  BY <1>3 DEF Good, IsChunk
<1>5. /\ l \in [Caps -> Seq(ChunkIds)] /\ ch \in [ChunkIds -> Chunks]
      /\ \A j \in ChunkIds : Good(ch[j])
  BY <1>1 DEF PoolTypes
<1>6. /\ ch2 \in [ChunkIds -> Chunks]
      /\ \A j \in ChunkIds : j # k => ch2[j] = ch[j]
      /\ ch2[k] = NewChunk(c)
  BY <1>4, <1>5
<1> HIDE DEF ch2
<1>7. PoolTypes(l, ch2)
  BY <1>3, <1>5, <1>6 DEF PoolTypes
<1>8. ListsOk(l, ch2)
  <2>1. \A d \in Caps : \A i \in 1..Len(l[d]) : l[d][i] \in ChunkIds /\ l[d][i] # k
    BY <1>2, <1>5 DEF Listed
  <2>2. \A d \in Caps : \A i \in 1..Len(l[d]) : ch2[l[d][i]] = ch[l[d][i]]
    BY <2>1, <1>6
  <2>3. QED
    BY <1>1, <2>2 DEF ListsOk
<1>9. c \in Nat /\ c > 0
  BY CapFacts
<1>10. Made(ch2) = Made(ch) \cup {k}
  BY <1>3, <1>6, <1>9 DEF Made
<1>11. HeldOk(l, ch2, H \cup {k})
  BY <1>1, <1>2, <1>10 DEF HeldOk
<1>12. Accounts(l, ch2, total + c, left)
  <2> DEFINE f == CapOf(ch)
             e == CapOf(ch2)
  <2>1. /\ \A j \in ChunkIds : f[j] \in Nat /\ e[j] \in Nat
        /\ \A j \in ChunkIds : j # k => e[j] = f[j]
        /\ e[k] = c
    <3>1. \A j \in ChunkIds : f[j] \in Nat /\ f[j] = ch[j].capacity
      BY <1>5, CapOfNat
    <3>2. \A j \in ChunkIds : e[j] \in Nat /\ e[j] = ch2[j].capacity
      BY <1>7, CapOfNat DEF PoolTypes
    <3>3. QED
      BY <3>1, <3>2, <1>3, <1>6
  <2>2. /\ IsFiniteSet(Listed(l)) /\ Listed(l) \subseteq ChunkIds
        /\ IsFiniteSet(Made(ch)) /\ Made(ch) \subseteq ChunkIds
    BY ListedFinite, MadeFinite
  <2> HIDE DEF e, f
  <2>3. SumFunctionOnSet(e, Listed(l)) = SumFunctionOnSet(f, Listed(l))
    <3>1. \A j \in Listed(l) : f[j] \in Nat /\ e[j] = f[j]
      BY <1>2, <2>1, <2>2
    <3>2. QED
      BY <3>1, <2>2, SumSame
  <2>4. SumFunctionOnSet(e, Made(ch)) = SumFunctionOnSet(f, Made(ch))
    <3>1. \A j \in Made(ch) : f[j] \in Nat /\ e[j] = f[j]
      BY <2>1, <2>2
    <3>2. QED
      BY <3>1, <2>2, SumSame
  <2>5. SumFunctionOnSet(e, Made(ch) \cup {k})
          = e[k] + SumFunctionOnSet(e, Made(ch))
    <3>1. \A j \in Made(ch) \cup {k} : e[j] \in Nat
      BY <2>1, <2>2
    <3>2. QED
      BY <3>1, <2>2, SumInsert
  <2>6. SumFunctionOnSet(f, Made(ch)) \in Nat
    BY <2>1, <2>2, SumNat
  <2>7. /\ left = SumFunctionOnSet(f, Listed(l))
        /\ total = SumFunctionOnSet(f, Made(ch))
    BY <1>1 DEF Accounts, f
  <2>8. /\ left = SumFunctionOnSet(e, Listed(l))
        /\ total + c = SumFunctionOnSet(e, Made(ch2))
    BY <1>9, <1>10, <2>1, <2>3, <2>4, <2>5, <2>6, <2>7
  <2>9. QED
    BY <2>8 DEF Accounts, e
<1>13. PoolInv(l, ch2, total + c, left, H \cup {k})
  BY <1>1, <1>7, <1>8, <1>11, <1>12 DEF PoolInv
<1>14. QED
  BY <1>2, <1>13 DEF ch2

(* There is always a number for a chunk from the system: the limit bounds  *)
(* how many there are.                                                     *)
LEMMA PoolRoom ==
    ASSUME NEW l, NEW ch, NEW total, NEW left, NEW H,
           PoolInv(l, ch, total, left, H)
    PROVE  LET k == Min(ChunkIds \ Made(ch))
           IN  k \in ChunkIds /\ k \notin Made(ch)
<1> DEFINE m == Min(Caps)
           n == Cardinality(Made(ch))
           t == SumFunctionOnSet(CapOf(ch), Made(ch))
<1>1. PoolTypes(l, ch) /\ Accounts(l, ch, total, left)
  BY DEF PoolInv
<1>2. \A j \in Made(ch) : CapOf(ch)[j] \in Nat /\ CapOf(ch)[j] >= m
  <2>1. \A j \in ChunkIds : Good(ch[j])
    BY <1>1 DEF PoolTypes
  <2>2. ASSUME NEW j \in Made(ch)
        PROVE  CapOf(ch)[j] \in Nat /\ CapOf(ch)[j] >= m
    <3>1. j \in ChunkIds /\ ch[j].capacity > 0
      BY DEF Made
    <3>2. ch[j].capacity \in Caps
      <4>1. ch[j].capacity \in Caps \cup {0}
        BY <2>1, <3>1, GoodParts
      <4>2. QED
        BY <3>1, <4>1
    <3>3. CapOf(ch)[j] = ch[j].capacity
      BY <3>1 DEF CapOf
    <3>4. QED
      BY <3>2, <3>3, CapFacts
  <2>3. QED
    BY <2>2
<1>3. m \in Nat \ {0} /\ n \in Nat /\ IsFiniteSet(Made(ch))
  BY CapFacts, MadeFinite, FS_CardinalityType
<1> HIDE DEF m
<1>4. t >= m * n
  BY <1>2, <1>3, SumAtLeast
<1>5. t \in Nat /\ t < MAX_POOL_SIZE
  BY <1>1, <1>2, <1>3, SumNat DEF Accounts
<1> HIDE DEF n, t
<1>6. m * n \in Nat /\ MAX_POOL_SIZE \in Nat
  BY <1>3, BufAssumption
<1>7. m * n <= MAX_POOL_SIZE
  BY <1>4, <1>5, <1>6
<1>8. MAX_POOL_SIZE \div m \in Nat /\ n <= MAX_POOL_SIZE \div m
  BY <1>3, <1>6, <1>7, DivBound
<1>9. n < Cardinality(ChunkIds)
  <2>1. Cardinality(ChunkIds) = MAX_POOL_SIZE \div m + 1
    BY CapFacts DEF m
  <2>2. QED
    BY <1>3, <1>8, <2>1
<1>10. ChunkIds \ Made(ch) # {}
  <2> SUFFICES ASSUME ChunkIds \ Made(ch) = {}
               PROVE  FALSE
    OBVIOUS
  <2>1. ChunkIds = Made(ch)
    BY MadeFinite
  <2>2. QED
    BY <2>1, <1>3, <1>9 DEF n
<1>11. ChunkIds \ Made(ch) \subseteq Nat
  BY CapFacts
<1>12. Min(ChunkIds \ Made(ch)) \in ChunkIds \ Made(ch)
  BY <1>10, <1>11, MinIs
<1>13. QED
  BY <1>12

-----------------------------------------------------------------------------
(* The pool as a record.                                                   *)
PInv(p, H) ==
    /\ IsPool(p)
    /\ PoolInv(p.mp_pool, p.chunk, p.mp_total_size_kb, p.mp_left_size_kb, H)

(* The same for a pool built from its parts.                               *)
LEMMA PInvMade ==
    ASSUME NEW l, NEW ch, NEW total, NEW left, NEW H,
           PoolInv(l, ch, total, left, H)
    PROVE  /\ PInv(PoolOf(l, total, left, ch), H)
           /\ PoolOf(l, total, left, ch).chunk = ch
<1>1. PoolTypes(l, ch) /\ Accounts(l, ch, total, left)
  BY DEF PoolInv
<1>2. total \in Nat /\ left \in Nat
  BY <1>1, AccountsNat
<1> DEFINE p == PoolOf(l, total, left, ch)
<1>3. /\ p.mp_pool = l /\ p.chunk = ch
      /\ p.mp_total_size_kb = total /\ p.mp_left_size_kb = left
  BY DEF PoolOf
<1>4. p \in [mp_pool : [Caps -> Seq(ChunkIds)], mp_total_size_kb : Nat,
             mp_left_size_kb : Nat, chunk : [ChunkIds -> Chunks]]
  BY <1>1, <1>2 DEF PoolOf, PoolTypes
<1> HIDE DEF p
<1>5. \A k \in ChunkIds : IsChunk(p.chunk[k])
  BY <1>1, <1>3 DEF PoolTypes, Good
<1>6. PInv(p, H)
  BY <1>3, <1>4, <1>5 DEF PInv, IsPool
<1>7. QED
  BY <1>3, <1>6 DEF p

(* What is known of a chunk that the pool has made.                        *)
LEMMA PInvGood ==
    ASSUME NEW p, NEW H, PInv(p, H)
    PROVE  /\ \A k \in ChunkIds : Good(p.chunk[k])
           /\ p.chunk \in [ChunkIds -> Chunks]
           /\ H \subseteq ChunkIds
           /\ \A k \in H : p.chunk[k].capacity > 0
  BY DEF PInv, PoolInv, PoolTypes, HeldOk, Made

(* retrieve takes a chunk from its holder.                                 *)
LEMMA RetrieveInv ==
    ASSUME NEW p, NEW H, PInv(p, H), NEW k \in H
    PROVE  /\ PInv(retrieve(p, k), H \ {k})
           /\ \A j \in ChunkIds : j # k => retrieve(p, k).chunk[j] = p.chunk[j]
<1> DEFINE c == p.chunk[k].capacity
           l == [p.mp_pool EXCEPT ![c] = <<k>> \o @]
           ch == [p.chunk EXCEPT ![k] = NewChunk(c)]
           total == p.mp_total_size_kb
           left == p.mp_left_size_kb + c
<1>1. PoolInv(p.mp_pool, p.chunk, p.mp_total_size_kb, p.mp_left_size_kb, H)
  BY DEF PInv
<1>2. PoolInv(l, ch, total, left, H \ {k})
  BY <1>1, PoolGive
<1>3. retrieve(p, k) = PoolOf(l, total, left, ch)
  BY DEF retrieve
<1>4. \A j \in ChunkIds : j # k => ch[j] = p.chunk[j]
  BY PInvGood
<1> HIDE DEF l, ch, total, left
<1>5. PInv(retrieve(p, k), H \ {k}) /\ retrieve(p, k).chunk = ch
  BY <1>2, <1>3, PInvMade
<1>6. QED
  BY <1>4, <1>5

(* A write to a held chunk changes no other chunk.                         *)
LEMMA PutInv ==
    ASSUME NEW p, NEW H, PInv(p, H), NEW k \in H, NEW new, Good(new),
           new.capacity = p.chunk[k].capacity
    PROVE  /\ PInv(WithChunk(p, k, new), H)
           /\ WithChunk(p, k, new).chunk[k] = new
           /\ \A j \in ChunkIds : j # k => WithChunk(p, k, new).chunk[j] = p.chunk[j]
<1> DEFINE l == p.mp_pool
           ch == [p.chunk EXCEPT ![k] = new]
           total == p.mp_total_size_kb
           left == p.mp_left_size_kb
<1>1. PoolInv(l, p.chunk, total, left, H)
  BY DEF PInv
<1>2. PoolInv(l, ch, total, left, H)
  BY <1>1, PoolPut
<1>3. WithChunk(p, k, new) = PoolOf(l, total, left, ch)
  <2>1. p \in [mp_pool : [Caps -> Seq(ChunkIds)], mp_total_size_kb : Nat,
               mp_left_size_kb : Nat, chunk : [ChunkIds -> Chunks]]
    BY DEF PInv, IsPool
  <2>2. p = [mp_pool |-> l, mp_total_size_kb |-> total,
             mp_left_size_kb |-> left, chunk |-> p.chunk]
    BY <2>1
  <2> DEFINE d == p.chunk
  <2>3. p = [mp_pool |-> l, mp_total_size_kb |-> total,
             mp_left_size_kb |-> left, chunk |-> d]
    BY <2>2
  <2> HIDE DEF l, total, left, d
  <2>4. [p EXCEPT !.chunk[k] = new]
          = [mp_pool |-> l, mp_total_size_kb |-> total,
             mp_left_size_kb |-> left, chunk |-> [d EXCEPT ![k] = new]]
    BY <2>3
  <2>5. QED
    BY <2>4 DEF PoolOf, WithChunk, d
<1>4. ch[k] = new /\ \A j \in ChunkIds : j # k => ch[j] = p.chunk[j]
  BY PInvGood
<1> DEFINE q == WithChunk(p, k, new)
<1>5. q = PoolOf(l, total, left, ch)
  BY <1>3
<1> HIDE DEF l, ch, total, left, q
<1>6. PInv(q, H) /\ q.chunk = ch
  BY <1>2, <1>5, PInvMade
<1>7. /\ PInv(q, H) /\ q.chunk[k] = new
      /\ \A j \in ChunkIds : j # k => q.chunk[j] = p.chunk[j]
  BY <1>4, <1>6
<1>8. QED
  BY <1>7 DEF q

(* alloc_chunk gives out a chunk that nobody holds and that is large.      *)
LEMMA AllocInv ==
    ASSUME NEW p, NEW H, PInv(p, H), NEW n \in Nat, Fitting(n) # {},
           ~MustExit(p, n)
    PROVE  LET k == AllocId(p, n)
               q == AfterAlloc(p, n)
           IN  /\ k \in ChunkIds /\ k \notin H
               /\ PInv(q, H \cup {k})
               /\ q.chunk[k].capacity >= n /\ q.chunk[k].length = 0
               /\ \A j \in ChunkIds : j # k => q.chunk[j] = p.chunk[j]
<1> DEFINE c == IndexFor(n)
           l == p.mp_pool
           total == p.mp_total_size_kb
           left == p.mp_left_size_kb
           k == AllocId(p, n)
           q == AfterAlloc(p, n)
<1>1. PoolInv(l, p.chunk, total, left, H)
  BY DEF PInv
<1>2. c \in Caps /\ n <= c
  <2>1. Fitting(n) \subseteq Nat
    BY CapFacts DEF Fitting
  <2>2. Min(Fitting(n)) \in Fitting(n)
    BY <2>1, MinIs
  <2>3. QED
    BY <2>2 DEF IndexFor, Fitting
<1>3. c \in Nat
  BY <1>2, CapFacts
<1>4. CASE l[c] = <<>>
  <2> DEFINE ch == [p.chunk EXCEPT ![k] = NewChunk(c)]
  <2>1. k = Min(ChunkIds \ Made(p.chunk))
    BY <1>4 DEF AllocId, Created, Made
  <2>2. q = PoolOf(l, total + c, left, ch)
    BY <1>4 DEF AfterAlloc
  <2>3. k \in ChunkIds /\ k \notin Made(p.chunk)
    BY <1>1, <2>1, PoolRoom
  <2>4. total + c < MAX_POOL_SIZE
    <3>1. ~(total + c >= MAX_POOL_SIZE)
      BY <1>4 DEF MustExit, AtLimit
    <3>2. total \in Nat
      BY DEF PInv, IsPool
    <3>3. MAX_POOL_SIZE \in Nat
      BY BufAssumption
    <3>4. QED
      BY <1>3, <3>1, <3>2, <3>3
  <2> HIDE DEF c, l, total, left, k, q
  <2>5. k \notin H /\ PoolInv(l, ch, total + c, left, H \cup {k})
    BY <1>1, <1>2, <2>3, <2>4, PoolMake
  <2>6. /\ ch[k] = NewChunk(c)
        /\ \A j \in ChunkIds : j # k => ch[j] = p.chunk[j]
    BY <2>3, PInvGood
  <2>7. NewChunk(c).capacity = c /\ NewChunk(c).length = 0
    BY <1>2, NewChunkGood
  <2> HIDE DEF ch
  <2>8. PInv(q, H \cup {k}) /\ q.chunk = ch
    BY <2>2, <2>5, PInvMade
  <2>9. QED
    BY <1>2, <2>3, <2>5, <2>6, <2>7, <2>8 DEF k, q
<1>5. CASE l[c] # <<>>
  <2> DEFINE l2 == [l EXCEPT ![c] = Tail(@)]
  <2>1. k = Head(l[c])
    BY <1>5 DEF AllocId
  <2>2. q = PoolOf(l2, total, left - c, p.chunk)
    BY <1>5 DEF AfterAlloc
  <2> HIDE DEF c, l, total, left, k, q
  <2> DEFINE d == p.chunk
  <2>3. /\ k \in ChunkIds \ H
        /\ d[k].capacity = c /\ d[k].length = 0
        /\ PoolInv(l2, d, total, left - c, H \cup {k})
    <3>1. PoolInv(l, d, total, left, H)
      BY <1>1
    <3> HIDE DEF d
    <3>2. /\ Head(l[c]) \in ChunkIds \ H
          /\ d[Head(l[c])].capacity = c /\ d[Head(l[c])].length = 0
          /\ PoolInv([l EXCEPT ![c] = Tail(@)], d, total, left - c,
                     H \cup {Head(l[c])})
      BY <1>2, <1>5, <3>1, PoolTake
    <3>3. QED
      BY <2>1, <3>2
  <2> HIDE DEF l2
  <2>4. PInv(q, H \cup {k}) /\ q.chunk = p.chunk
    BY <2>2, <2>3, PInvMade
  <2>5. QED
    BY <1>2, <2>3, <2>4 DEF k, q
<1>6. QED
  BY <1>4, <1>5

-----------------------------------------------------------------------------
(* The constructor.                                                        *)
Below(c) == {d \in Caps : d < c}
Block(c) == {FirstIds(c)[i] : i \in 1..InitNum}
IdsOf(T) == UNION {Block(c) : c \in T}

(* The numbers the constructor gives to the chunks of a size exist, ...    *)
LEMMA FirstIdsAre ==
    ASSUME NEW c \in Caps
    PROVE  /\ Cardinality(Below(c)) \in Nat
           /\ FirstIds(c) = [i \in 1..InitNum |-> InitNum * Cardinality(Below(c)) + i]
           /\ FirstIds(c) \in Seq(ChunkIds) /\ Len(FirstIds(c)) = InitNum
<1> DEFINE b == Cardinality(Below(c))
           n == Cardinality(Caps)
           m == Min(Caps)
           f == [d \in Caps |-> d * InitNum]
<1>0. InitNum \in Nat \ {0} /\ MAX_POOL_SIZE \in Nat
  BY BufAssumption
<1>1. /\ IsFiniteSet(Caps) /\ n \in Nat /\ m \in Nat \ {0}
      /\ \A d \in Caps : d \in Nat /\ m <= d
  BY CapFacts, FS_CardinalityType
<1>2. b \in Nat /\ b + 1 <= n
  <2>1. /\ Below(c) \cup {c} \in SUBSET Caps /\ c \notin Below(c)
        /\ Below(c) \in SUBSET Caps
    BY <1>1 DEF Below
  <2>2. IsFiniteSet(Below(c)) /\ b \in Nat
    BY <1>1, <2>1, FS_Subset, FS_CardinalityType
  <2>3. Cardinality(Below(c) \cup {c}) = b + 1
    BY <2>1, <2>2, FS_AddElement
  <2>4. Cardinality(Below(c) \cup {c}) <= n
    BY <1>1, <2>1, FS_Subset
  <2>5. QED
    BY <2>2, <2>3, <2>4
<1>3. FirstIds(c) = [i \in 1..InitNum |-> InitNum * b + i]
  BY DEF FirstIds, Below
<1>4. InitNum * n < MaxChunks
  <2>1. \A d \in Caps : f[d] \in Nat /\ f[d] >= m * InitNum
    <3>1. \A i, j, k \in Nat : i <= j => i * k <= j * k
      OBVIOUS
    <3>2. QED
      BY <1>0, <1>1, <3>1
  <2>2. SumFunctionOnSet(f, Caps) < MAX_POOL_SIZE
    BY BufAssumption
  <2> HIDE DEF f, m, n
  <2>3. m * InitNum \in Nat
    BY <1>0, <1>1
  <2>4. SumFunctionOnSet(f, Caps) >= (m * InitNum) * n
    BY <1>1, <2>1, <2>3, SumAtLeast DEF n
  <2>5. SumFunctionOnSet(f, Caps) \in Nat
    BY <1>1, <2>1, SumNat
  <2>6. (m * InitNum) * n = m * (InitNum * n) /\ InitNum * n \in Nat
    BY <1>0, <1>1
  <2> DEFINE x == InitNum * n
  <2>7. m * x \in Nat
    BY <1>1, <2>6
  <2>8. m * x <= MAX_POOL_SIZE
    <3> HIDE DEF x
    <3>1. m * x = (m * InitNum) * n
      BY <2>6 DEF x
    <3>2. QED
      BY <1>0, <2>2, <2>4, <2>5, <2>7, <3>1
  <2>9. x \in Nat
    BY <2>6
  <2> HIDE DEF x
  <2>10. x <= MAX_POOL_SIZE \div m /\ MAX_POOL_SIZE \div m \in Nat
    BY <1>0, <1>1, <2>8, <2>9, DivBound
  <2>11. MaxChunks = MAX_POOL_SIZE \div m + 1
    BY CapFacts DEF m
  <2>12. QED
    BY <2>9, <2>10, <2>11 DEF x
<1> HIDE DEF b, n, m, f
<1>5. InitNum * b + InitNum <= InitNum * n /\ InitNum * b \in Nat /\ InitNum * n \in Nat
  <2>1. \A i, j, k \in Nat : j + 1 <= k => i * j + i <= i * k
    <3> TAKE i, j, k \in Nat
    <3> HAVE j + 1 <= k
    <3>1. i * (j + 1) = i * j + i
      OBVIOUS
    <3>2. i * (j + 1) <= i * k
      OBVIOUS
    <3>3. QED
      BY <3>1, <3>2
  <2>2. QED
    BY <1>0, <1>1, <1>2, <2>1
<1>6. \A i \in 1..InitNum : InitNum * b + i \in ChunkIds
  <2>1. MaxChunks \in Nat
    BY CapFacts
  <2>2. QED
    BY <1>0, <1>4, <1>5, <2>1 DEF ChunkIds
<1>7. FirstIds(c) \in Seq(ChunkIds) /\ Len(FirstIds(c)) = InitNum
  BY <1>0, <1>3, <1>6
<1>8. QED
  BY <1>2, <1>3, <1>7 DEF b

LEMMA BlockIs ==
    ASSUME NEW c \in Caps
    PROVE  /\ IsFiniteSet(Block(c)) /\ Cardinality(Block(c)) = InitNum
           /\ Block(c) \subseteq ChunkIds
           /\ Block(c) = (InitNum * Cardinality(Below(c)) + 1)
                            ..(InitNum * Cardinality(Below(c)) + InitNum)
<1> DEFINE b == InitNum * Cardinality(Below(c))
<1>0. InitNum \in Nat \ {0}
  BY BufAssumption
<1>1. /\ Cardinality(Below(c)) \in Nat
      /\ FirstIds(c) = [i \in 1..InitNum |-> b + i]
      /\ FirstIds(c) \in Seq(ChunkIds) /\ Len(FirstIds(c)) = InitNum
  BY FirstIdsAre
<1>2. b \in Nat
  BY <1>0, <1>1
<1> HIDE DEF b
<1>3. Block(c) = (b + 1)..(b + InitNum)
  <2>1. Block(c) = {b + i : i \in 1..InitNum}
    BY <1>1 DEF Block
  <2>2. ASSUME NEW x \in (b + 1)..(b + InitNum)
        PROVE  x \in {b + i : i \in 1..InitNum}
    <3>1. x - b \in 1..InitNum /\ b + (x - b) = x
      BY <1>0, <1>2
    <3>2. QED
      BY <3>1
  <2>3. \A i \in 1..InitNum : b + i \in (b + 1)..(b + InitNum)
    BY <1>0, <1>2
  <2>4. QED
    BY <2>1, <2>2, <2>3
<1>4. /\ IsFiniteSet((b + 1)..(b + InitNum))
      /\ Cardinality((b + 1)..(b + InitNum)) = InitNum
  <2>1. b + 1 \in Int /\ b + InitNum \in Int /\ ~(b + 1 > b + InitNum)
        /\ (b + InitNum) - (b + 1) + 1 = InitNum
    BY <1>0, <1>2
  <2>2. QED
    BY <2>1, FS_Interval
<1>5. Block(c) \subseteq ChunkIds
  <2>1. \A i \in 1..InitNum : FirstIds(c)[i] \in ChunkIds
    <3> DEFINE q == FirstIds(c)
    <3>1. q \in Seq(ChunkIds) /\ Len(q) = InitNum
      BY <1>1
    <3> HIDE DEF q
    <3>2. \A i \in 1..InitNum : q[i] \in ChunkIds
      BY <3>1
    <3>3. QED
      BY <3>2 DEF q
  <2>2. QED
    BY <2>1 DEF Block
<1>6. QED
  BY <1>3, <1>4, <1>5 DEF b

(* ... those of two sizes differ, ...                                      *)
LEMMA BlocksDisjoint ==
    ASSUME NEW c \in Caps, NEW d \in Caps, NEW k, k \in Block(c), k \in Block(d)
    PROVE  c = d
<1>0. InitNum \in Nat \ {0} /\ \A e \in Caps : e \in Nat
  BY BufAssumption
<1>1. ASSUME NEW x \in Caps, NEW y \in Caps, x < y, k \in Block(x), k \in Block(y)
      PROVE  FALSE
  <2> DEFINE a == Cardinality(Below(x))
             b == Cardinality(Below(y))
  <2>1. a \in Nat /\ b \in Nat /\ a + 1 <= b
    <3>1. /\ Below(x) \cup {x} \in SUBSET Below(y) /\ x \notin Below(x)
          /\ Below(x) \in SUBSET Caps /\ Below(y) \in SUBSET Caps
      BY <1>0, <1>1 DEF Below
    <3>2. IsFiniteSet(Below(x)) /\ IsFiniteSet(Below(y)) /\ a \in Nat /\ b \in Nat
      BY <3>1, CapFacts, FS_Subset, FS_CardinalityType
    <3>3. Cardinality(Below(x) \cup {x}) = a + 1
      BY <3>1, <3>2, FS_AddElement
    <3>4. Cardinality(Below(x) \cup {x}) <= b
      BY <3>1, <3>2, FS_Subset
    <3>5. QED
      BY <3>2, <3>3, <3>4
  <2>2. /\ k \in (InitNum * a + 1)..(InitNum * a + InitNum)
        /\ k \in (InitNum * b + 1)..(InitNum * b + InitNum)
    BY <1>1, BlockIs
  <2> HIDE DEF a, b
  <2>3. InitNum * a + InitNum <= InitNum * b
    <3>1. \A i, j, n \in Nat : j + 1 <= n => i * j + i <= i * n
      <4> TAKE i, j, n \in Nat
      <4> HAVE j + 1 <= n
      <4>1. i * (j + 1) = i * j + i
        OBVIOUS
      <4>2. i * (j + 1) <= i * n
        OBVIOUS
      <4>3. QED
        BY <4>1, <4>2
    <3>2. QED
      BY <1>0, <2>1, <3>1
  <2>4. InitNum * a \in Nat /\ InitNum * b \in Nat
    BY <1>0, <2>1
  <2>5. QED
    BY <1>0, <2>2, <2>3, <2>4
<1>2. ~(c < d) /\ ~(d < c)
  BY <1>1
<1>3. c \in Nat /\ d \in Nat
  BY <1>0
<1>4. QED
  BY <1>2, <1>3

(* ... and their number and their sizes add up to what the pool counts.    *)
LEMMA IdsOfSum ==
    ASSUME NEW f, \A c \in Caps : \A k \in Block(c) : f[k] = c
    PROVE  /\ IsFiniteSet(IdsOf(Caps))
           /\ Cardinality(IdsOf(Caps))
                = SumFunctionOnSet([c \in Caps |-> InitNum], Caps)
           /\ SumFunctionOnSet(f, IdsOf(Caps))
                = SumFunctionOnSet([c \in Caps |-> c * InitNum], Caps)
<1> DEFINE u == [c \in Caps |-> InitNum]
           w == [c \in Caps |-> c * InitNum]
           B == {T \in SUBSET Caps :
                   /\ IsFiniteSet(IdsOf(T))
                   /\ Cardinality(IdsOf(T)) = SumFunctionOnSet(u, T)
                   /\ SumFunctionOnSet(f, IdsOf(T)) = SumFunctionOnSet(w, T)}
<1>0. InitNum \in Nat /\ \A c \in Caps : c \in Nat
  BY BufAssumption
<1>1. \A c \in Caps : u[c] = InitNum /\ w[c] = c * InitNum /\ w[c] \in Nat
  BY <1>0
<1> HIDE DEF u, w
<1>2. {} \in B
  <2>1. IdsOf({}) = {}
    BY DEF IdsOf
  <2>2. QED
    BY <2>1, FS_EmptySet, SumEmpty
<1>3. ASSUME NEW T \in SUBSET Caps, T # {}, \A y \in T : T \ {y} \in B
      PROVE  T \in B
  <2>1. PICK c \in T : TRUE
    BY <1>3
  <2> DEFINE R == T \ {c}
             S == IdsOf(R)
             D == Block(c)
  <2>2. /\ IsFiniteSet(S) /\ Cardinality(S) = SumFunctionOnSet(u, R)
        /\ SumFunctionOnSet(f, S) = SumFunctionOnSet(w, R)
    BY <1>3
  <2>3. IdsOf(T) = S \cup D
    BY DEF IdsOf
  <2>4. S \cap D = {}
    <3> SUFFICES ASSUME NEW k \in S, k \in D
                 PROVE  FALSE
      OBVIOUS
    <3>1. PICK d \in R : k \in Block(d)
      BY DEF IdsOf
    <3>2. QED
      BY <3>1, BlocksDisjoint
  <2>5. IsFiniteSet(D) /\ Cardinality(D) = InitNum
    BY BlockIs
  <2>6. \A k \in S : f[k] \in Nat
    <3> TAKE k \in S
    <3>1. PICK d \in R : k \in Block(d)
      BY DEF IdsOf
    <3>2. QED
      BY <3>1, <1>0
  <2>7. IsFiniteSet(T)
    BY CapFacts, FS_Subset
  <2>8. SumFunctionOnSet(u, T) = u[c] + SumFunctionOnSet(u, R)
    <3>1. \A x \in T : u[x] \in Nat
      BY <1>0, <1>1
    <3>2. QED
      BY <2>7, <3>1, SumRemove
  <2>9. SumFunctionOnSet(w, T) = w[c] + SumFunctionOnSet(w, R)
    <3>1. \A x \in T : w[x] \in Nat
      BY <1>0, <1>1
    <3>2. QED
      BY <2>7, <3>1, SumRemove
  <2>10. c \in Nat /\ \A k \in D : f[k] = c
    BY <1>0
  <2> HIDE DEF S, D, R
  <2>11. SumFunctionOnSet(f, S \cup D) = SumFunctionOnSet(f, S) + c * Cardinality(D)
    BY <2>2, <2>4, <2>5, <2>6, <2>10, SumBlock
  <2>12. SumFunctionOnSet(f, S) \in Nat
    BY <2>2, <2>6, SumNat
  <2>13. IsFiniteSet(S \cup D) /\ Cardinality(S \cup D) = Cardinality(S) + InitNum
    <3>1. IsFiniteSet(S \cup D)
      BY <2>2, <2>5, FS_Union
    <3>2. Cardinality(S \cup D) = Cardinality(S) + Cardinality(D) - Cardinality(S \cap D)
      BY <2>2, <2>5, FS_Union
    <3>3. Cardinality(S) \in Nat /\ Cardinality(S \cap D) = 0
      BY <2>2, <2>4, FS_CardinalityType, FS_EmptySet
    <3>4. QED
      BY <1>0, <2>5, <3>1, <3>2, <3>3
  <2>14. Cardinality(IdsOf(T)) = SumFunctionOnSet(u, T)
    <3>1. Cardinality(S) \in Nat
      BY <2>2, FS_CardinalityType
    <3>2. u[c] = InitNum
      BY <1>1
    <3>3. QED
      BY <1>0, <2>2, <2>3, <2>8, <2>13, <3>1, <3>2
  <2>15. SumFunctionOnSet(f, IdsOf(T)) = SumFunctionOnSet(w, T)
    <3>1. w[c] = c * InitNum /\ w[c] \in Nat
      BY <1>1
    <3>2. SumFunctionOnSet(f, IdsOf(T)) = SumFunctionOnSet(f, S) + w[c]
      BY <2>3, <2>5, <2>11, <3>1
    <3>3. QED
      BY <2>2, <2>9, <2>12, <3>1, <3>2
  <2>16. IsFiniteSet(IdsOf(T))
    BY <2>3, <2>13
  <2>17. QED
    BY <2>14, <2>15, <2>16
<1>4. SUBSET Caps \subseteq B
  <2> HIDE DEF B
  <2>1. \A T \in SUBSET Caps :
           T # {} /\ (\A y \in T : T \ {y} \in B) => T \in B
    BY <1>3
  <2>2. QED
    BY <1>2, <2>1, CapFacts, SubsetInduction
<1>5. Caps \in B
  BY <1>4
<1>6. QED
  BY <1>5 DEF u, w

(* The constructor establishes the invariant, with nothing held.           *)
LEMMA NewPoolInv == PInv(NewPool, {})
<1> DEFINE total == SumFunctionOnSet([c \in Caps |-> c * InitNum], Caps)
           sizes(k) == {c \in Caps : \E i \in 1..InitNum : FirstIds(c)[i] = k}
           l == [c \in Caps |-> FirstIds(c)]
           ch == [k \in ChunkIds |-> IF sizes(k) = {} THEN NoChunk
                                     ELSE NewChunk(CHOOSE c \in sizes(k) : TRUE)]
<1>1. NewPool = PoolOf(l, total, total, ch)
  BY DEF NewPool
<1>2. \A k : sizes(k) = {c \in Caps : k \in Block(c)}
  BY DEF Block
<1>3. \A c \in Caps : \A k \in Block(c) : k \in ChunkIds /\ ch[k] = NewChunk(c)
  <2> TAKE c \in Caps
  <2> TAKE k \in Block(c)
  <2>1. sizes(k) = {c}
    BY <1>2, BlocksDisjoint
  <2>2. k \in ChunkIds
    BY BlockIs
  <2> HIDE DEF sizes
  <2>3. (CHOOSE d \in sizes(k) : TRUE) = c
    BY <2>1
  <2>4. QED
    BY <2>1, <2>2, <2>3
<1>4. \A k \in ChunkIds : k \notin IdsOf(Caps) => ch[k] = NewChunk(0)
  <2> TAKE k \in ChunkIds
  <2> HAVE k \notin IdsOf(Caps)
  <2>1. sizes(k) = {}
    BY <1>2 DEF IdsOf
  <2> HIDE DEF sizes
  <2>2. QED
    BY <2>1 DEF NoChunk
<1>5. DOMAIN ch = ChunkIds /\ ch = [k \in ChunkIds |-> ch[k]]
  OBVIOUS
<1>6. l \in [Caps -> Seq(ChunkIds)]
  BY FirstIdsAre
<1>7. \A c \in Caps : l[c] = FirstIds(c)
  OBVIOUS
<1>8. total < MAX_POOL_SIZE
  BY BufAssumption
<1> HIDE DEF ch, l, total
<1>9. InitNum \in Nat \ {0}
  BY BufAssumption
<1>10. \A c \in Caps : /\ Len(l[c]) = InitNum
                       /\ \A i \in 1..InitNum : l[c][i] \in Block(c)
                       /\ \A i, j \in 1..InitNum : l[c][i] = l[c][j] => i = j
  <2> TAKE c \in Caps
  <2> DEFINE b == InitNum * Cardinality(Below(c))
  <2>1. /\ Cardinality(Below(c)) \in Nat
        /\ FirstIds(c) = [i \in 1..InitNum |-> b + i]
        /\ Len(FirstIds(c)) = InitNum
    BY FirstIdsAre
  <2>2. b \in Nat
    BY <1>9, <2>1
  <2> HIDE DEF b
  <2>3. \A i, j \in 1..InitNum : FirstIds(c)[i] = FirstIds(c)[j] => i = j
    BY <1>9, <2>1, <2>2
  <2>4. \A i \in 1..InitNum : FirstIds(c)[i] \in Block(c)
    BY DEF Block
  <2>5. QED
    BY <1>7, <2>1, <2>3, <2>4
<1>11. \A k \in ChunkIds : k \in IdsOf(Caps) => \E c \in Caps : k \in Block(c)
  BY DEF IdsOf
<1>12. \A k \in ChunkIds : Good(ch[k])
  <2> TAKE k \in ChunkIds
  <2>1. PICK c \in Caps \cup {0} : ch[k] = NewChunk(c)
    BY <1>3, <1>4, <1>11
  <2>2. QED
    BY <2>1, NewChunkGood
<1>13. PoolTypes(l, ch)
  <2>1. \A k \in ChunkIds : ch[k] \in Chunks
    BY <1>12 DEF Good, IsChunk
  <2>2. ch \in [ChunkIds -> Chunks]
    BY <1>5, <2>1
  <2>3. QED
    BY <1>6, <1>12, <2>2 DEF PoolTypes
<1>14. \A c \in Caps : \A k \in Block(c) :
          k \in ChunkIds /\ ch[k].capacity = c /\ ch[k].length = 0
  BY <1>3, NewChunkGood
<1>15. ListsOk(l, ch)
  BY <1>10, <1>14 DEF ListsOk
<1>16. Listed(l) = IdsOf(Caps)
  <2>1. ASSUME NEW k \in Listed(l)
        PROVE  k \in IdsOf(Caps)
    <3>1. PICK c \in Caps : \E i \in 1..Len(l[c]) : l[c][i] = k
      BY DEF Listed
    <3>2. k \in Block(c)
      BY <3>1, <1>10
    <3>3. QED
      BY <3>2 DEF IdsOf
  <2>2. ASSUME NEW k \in IdsOf(Caps)
        PROVE  k \in Listed(l)
    <3>1. PICK c \in Caps : k \in Block(c)
      BY DEF IdsOf
    <3>2. PICK i \in 1..InitNum : FirstIds(c)[i] = k
      BY <3>1 DEF Block
    <3>3. k \in ChunkIds
      BY <3>1, <1>14
    <3>4. QED
      BY <3>2, <3>3, <1>7, <1>10 DEF Listed
  <2>3. QED
    BY <2>1, <2>2
<1>17. Made(ch) = IdsOf(Caps)
  <2>1. NewChunk(0).capacity = 0
    BY NewChunkGood
  <2>2. ASSUME NEW k \in Made(ch)
        PROVE  k \in IdsOf(Caps)
    <3>1. k \in ChunkIds /\ ch[k].capacity > 0
      BY DEF Made
    <3>2. QED
      BY <3>1, <2>1, <1>4
  <2>3. ASSUME NEW k \in IdsOf(Caps)
        PROVE  k \in Made(ch)
    <3>1. PICK c \in Caps : k \in Block(c)
      BY DEF IdsOf
    <3>2. c \in Nat /\ c > 0
      BY CapFacts
    <3>3. QED
      BY <3>1, <3>2, <1>14 DEF Made
  <2>4. QED
    BY <2>2, <2>3
<1>18. HeldOk(l, ch, {})
  BY <1>16, <1>17 DEF HeldOk
<1>19. \A c \in Caps : \A k \in Block(c) : CapOf(ch)[k] = c
  BY <1>14 DEF CapOf
<1>20. /\ Cardinality(IdsOf(Caps))
            = SumFunctionOnSet([c \in Caps |-> InitNum], Caps)
       /\ SumFunctionOnSet(CapOf(ch), IdsOf(Caps)) = total
  <2> DEFINE f == CapOf(ch)
  <2>1. \A c \in Caps : \A k \in Block(c) : f[k] = c
    BY <1>19
  <2> HIDE DEF f
  <2>2. /\ Cardinality(IdsOf(Caps))
            = SumFunctionOnSet([c \in Caps |-> InitNum], Caps)
        /\ SumFunctionOnSet(f, IdsOf(Caps))
             = SumFunctionOnSet([c \in Caps |-> c * InitNum], Caps)
    BY <2>1, IdsOfSum
  <2>3. QED
    BY <2>2 DEF f, total
<1>21. Counted(l)
  <2>1. Lens(l) = [c \in Caps |-> InitNum]
    BY <1>10 DEF Lens
  <2>2. QED
    BY <2>1, <1>16, <1>20 DEF Counted
<1>22. Accounts(l, ch, total, total)
  BY <1>8, <1>16, <1>17, <1>20 DEF Accounts
<1>23. PoolInv(l, ch, total, total, {})
  BY <1>13, <1>15, <1>18, <1>21, <1>22 DEF PoolInv
<1>24. QED
  BY <1>1, <1>23, PInvMade

-----------------------------------------------------------------------------
(* Slots: the places X outside of the pool that hold the number of a chunk *)
(* or 0.  a[x] is what x holds.                                            *)
HeldOf(a, X) == {a[x] : x \in X} \ {0}
Upd(a, x, k) == [a EXCEPT ![x] = k]
Single(a, X) == \A x, y \in X : a[x] = a[y] /\ a[x] # 0 => x = y

(* An empty slot gets an allocated chunk.                                  *)
LEMMA SlotAlloc ==
    ASSUME NEW X, NEW a \in [X -> Nat], Single(a, X), NEW x \in X, a[x] = 0,
           NEW p, PInv(p, HeldOf(a, X)),
           NEW n \in Nat, Fitting(n) # {}, ~MustExit(p, n),
           NEW k, k = AllocId(p, n), NEW q, q = AfterAlloc(p, n),
           NEW a2, a2 = Upd(a, x, k)
    PROVE  /\ k \in ChunkIds
           /\ PInv(q, HeldOf(a2, X)) /\ Single(a2, X)
           /\ q.chunk[k].capacity >= n /\ q.chunk[k].length = 0
           /\ \A y \in X : y # x /\ a[y] # 0 => q.chunk[a[y]] = p.chunk[a[y]]
<1> DEFINE H  == HeldOf(a, X)
<1>1. /\ k \in ChunkIds /\ k \notin H /\ PInv(q, H \cup {k})
      /\ q.chunk[k].capacity >= n /\ q.chunk[k].length = 0
      /\ \A j \in ChunkIds : j # k => q.chunk[j] = p.chunk[j]
  <2> HIDE DEF H
  <2>1. PInv(p, H)
    BY DEF H
  <2>2. QED
    BY <2>1, AllocInv
<1>2. k # 0
  BY <1>1, CapFacts
<1>3. a2[x] = k /\ \A y \in X : y # x => a2[y] = a[y]
  BY DEF Upd
<1>4. \A y \in X : a[y] # 0 => a[y] \in H
  BY DEF HeldOf
<1>5. HeldOf(a2, X) = H \cup {k}
  <2>1. ASSUME NEW j \in HeldOf(a2, X)
        PROVE  j \in H \cup {k}
    <3>1. PICK y \in X : j = a2[y] /\ j # 0
      BY DEF HeldOf
    <3>2. QED
      BY <3>1, <1>3, <1>4
  <2>2. ASSUME NEW j \in H
        PROVE  j \in HeldOf(a2, X)
    <3>1. PICK y \in X : j = a[y] /\ j # 0
      BY DEF HeldOf
    <3>2. y # x
      BY <3>1
    <3>3. QED
      BY <3>1, <3>2, <1>3 DEF HeldOf
  <2>3. k \in HeldOf(a2, X)
    BY <1>2, <1>3 DEF HeldOf
  <2>4. QED
    BY <2>1, <2>2, <2>3
<1>6. Single(a2, X)
  <2> SUFFICES ASSUME NEW y \in X, NEW z \in X, a2[y] = a2[z], a2[y] # 0
               PROVE  y = z
    BY DEF Single
  <2>1. CASE y # x /\ z # x
    BY <2>1, <1>3 DEF Single
  <2>2. CASE y = x /\ z # x
    BY <2>2, <1>1, <1>3, <1>4
  <2>3. CASE y # x /\ z = x
    BY <2>3, <1>1, <1>3, <1>4
  <2>4. QED
    BY <2>1, <2>2, <2>3
<1>7. \A y \in X : y # x /\ a[y] # 0 => q.chunk[a[y]] = p.chunk[a[y]]
  <2>1. H \subseteq ChunkIds
    BY PInvGood
  <2>2. QED
    BY <2>1, <1>1, <1>4
<1>8. PInv(q, HeldOf(a2, X))
  BY <1>1, <1>5
<1>9. QED
  BY <1>1, <1>6, <1>7, <1>8

(* A write to the chunk of a slot.                                         *)
LEMMA SlotPut ==
    ASSUME NEW X, NEW a \in [X -> Nat], Single(a, X), NEW x \in X, a[x] # 0,
           NEW p, PInv(p, HeldOf(a, X)),
           NEW new, Good(new), new.capacity = p.chunk[a[x]].capacity,
           NEW q, q = WithChunk(p, a[x], new)
    PROVE  /\ PInv(q, HeldOf(a, X)) /\ q.chunk[a[x]] = new
           /\ \A y \in X : y # x /\ a[y] # 0 => q.chunk[a[y]] = p.chunk[a[y]]
<1> DEFINE H == HeldOf(a, X)
           k == a[x]
           r == WithChunk(p, k, new)
<1>1. \A y \in X : a[y] # 0 => a[y] \in H
  BY DEF HeldOf
<1>2. k \in H
  BY <1>1
<1>3. \A y \in X : y # x /\ a[y] # 0 => a[y] # k
  BY DEF Single
<1>4. PInv(p, H) /\ H \subseteq ChunkIds
  BY PInvGood
<1>5. new.capacity = p.chunk[k].capacity
  OBVIOUS
<1> HIDE DEF k, H
<1>6. /\ PInv(q, H) /\ q.chunk[k] = new
      /\ \A j \in ChunkIds : j # k => q.chunk[j] = p.chunk[j]
  <2>1. /\ PInv(r, H) /\ r.chunk[k] = new
        /\ \A j \in ChunkIds : j # k => r.chunk[j] = p.chunk[j]
    BY <1>2, <1>4, <1>5, PutInv
  <2>2. q = r
    BY DEF k
  <2> HIDE DEF r
  <2>3. QED
    BY <2>1, <2>2
<1>7. \A y \in X : y # x /\ a[y] # 0 => q.chunk[a[y]] = p.chunk[a[y]]
  BY <1>1, <1>3, <1>4, <1>6
<1>8. QED
  BY <1>6, <1>7 DEF k, H

(* The chunk of a slot goes back.                                          *)
LEMMA SlotGive ==
    ASSUME NEW X, NEW a \in [X -> Nat], Single(a, X), NEW x \in X, a[x] # 0,
           NEW p, PInv(p, HeldOf(a, X)), NEW q, q = retrieve(p, a[x]),
           NEW a2, a2 = Upd(a, x, 0)
    PROVE  /\ PInv(q, HeldOf(a2, X)) /\ Single(a2, X)
           /\ \A y \in X : y # x /\ a[y] # 0 => q.chunk[a[y]] = p.chunk[a[y]]
<1> DEFINE H  == HeldOf(a, X)
           k  == a[x]
<1>1. \A y \in X : a[y] # 0 => a[y] \in H
  BY DEF HeldOf
<1>2. k \in H
  BY <1>1
<1>3. \A y \in X : y # x /\ a[y] # 0 => a[y] # k
  BY DEF Single
<1>4. PInv(p, H) /\ H \subseteq ChunkIds
  BY PInvGood
<1>5. a2[x] = 0 /\ \A y \in X : y # x => a2[y] = a[y]
  BY DEF Upd
<1>6. HeldOf(a2, X) = H \ {k}
  <2>1. ASSUME NEW j \in HeldOf(a2, X)
        PROVE  j \in H \ {k}
    <3>1. PICK y \in X : j = a2[y] /\ j # 0
      BY DEF HeldOf
    <3>2. y # x /\ j = a[y]
      BY <3>1, <1>5
    <3>3. QED
      BY <3>1, <3>2, <1>1, <1>3
  <2>2. ASSUME NEW j \in H, j # k
        PROVE  j \in HeldOf(a2, X)
    <3>1. PICK y \in X : j = a[y] /\ j # 0
      BY DEF HeldOf
    <3>2. y # x
      BY <3>1, <2>2
    <3>3. QED
      BY <3>1, <3>2, <1>5 DEF HeldOf
  <2>3. QED
    BY <2>1, <2>2
<1>7. Single(a2, X)
  <2>1. QED
    BY <1>5 DEF Single
<1>0. q = retrieve(p, k)
  OBVIOUS
<1> HIDE DEF k, H
<1>8. /\ PInv(q, H \ {k})
      /\ \A j \in ChunkIds : j # k => q.chunk[j] = p.chunk[j]
  BY <1>0, <1>2, <1>4, RetrieveInv
<1>9. \A y \in X : y # x /\ a[y] # 0 => q.chunk[a[y]] = p.chunk[a[y]]
  BY <1>1, <1>3, <1>4, <1>8
<1>10. PInv(q, HeldOf(a2, X))
  BY <1>6, <1>8
<1>11. QED
  BY <1>7, <1>9, <1>10

(* The contents of slot x move to the chunk of slot y, which x then holds. *)
MovedTo(p, q, old, k) ==
    /\ p.chunk[old].length <= p.chunk[k].capacity
    /\ q = retrieve(WithChunk(p, k, ChunkCopy(p.chunk[k], p.chunk[old])), old)

(* One slot takes over the contents in the chunk of another.               *)
LEMMA SlotMove ==
    ASSUME NEW X, NEW a \in [X -> Nat], Single(a, X),
           NEW x \in X, NEW y \in X, x # y, a[x] # 0, a[y] # 0,
           NEW p, PInv(p, HeldOf(a, X)),
           NEW q, MovedTo(p, q, a[x], a[y]),
           NEW a2, a2 = Upd(Upd(a, x, a[y]), y, 0)
    PROVE  /\ PInv(q, HeldOf(a2, X)) /\ Single(a2, X)
           /\ q.chunk[a[y]].capacity = p.chunk[a[y]].capacity
           /\ q.chunk[a[y]].length = p.chunk[a[x]].length
           /\ Contents(q.chunk[a[y]]) = Contents(p.chunk[a[x]])
           /\ \A z \in X : z # x /\ z # y /\ a[z] # 0 =>
                 q.chunk[a[z]] = p.chunk[a[z]]
<1> DEFINE H  == HeldOf(a, X)
           new == ChunkCopy(p.chunk[a[y]], p.chunk[a[x]])
           p1 == WithChunk(p, a[y], new)
           a1 == Upd(a, x, 0)
<1>1. a[x] \in H /\ a[y] \in H
  BY DEF HeldOf
<1>2. H \subseteq ChunkIds /\ \A k \in ChunkIds : Good(p.chunk[k])
  BY PInvGood
<1>3. /\ Good(new) /\ new.capacity = p.chunk[a[y]].capacity
      /\ new.length = p.chunk[a[x]].length
      /\ Contents(new) = Contents(p.chunk[a[x]])
  <2>1. Good(p.chunk[a[x]]) /\ Good(p.chunk[a[y]])
    BY <1>1, <1>2
  <2>2. QED
    BY <2>1, CopyKeeps DEF MovedTo
<1>0. p1 = WithChunk(p, a[y], new) /\ q = retrieve(p1, a[x])
  BY DEF MovedTo
<1> HIDE DEF new, p1
<1>4. /\ PInv(p1, HeldOf(a, X)) /\ p1.chunk[a[y]] = new
      /\ \A z \in X : z # y /\ a[z] # 0 => p1.chunk[a[z]] = p.chunk[a[z]]
  BY <1>0, <1>3, SlotPut
<1>5. /\ PInv(q, HeldOf(a1, X)) /\ Single(a1, X)
      /\ \A z \in X : z # x /\ a[z] # 0 => q.chunk[a[z]] = p1.chunk[a[z]]
  <2>1. PInv(p1, HeldOf(a, X))
    BY <1>4
  <2>2. a1 = Upd(a, x, 0)
    OBVIOUS
  <2> HIDE DEF a1
  <2>3. QED
    BY <1>0, <2>1, <2>2, SlotGive
<1>6. /\ a1[x] = 0 /\ \A z \in X : z # x => a1[z] = a[z]
      /\ a2[x] = a[y] /\ a2[y] = 0
      /\ \A z \in X : z # x /\ z # y => a2[z] = a[z]
  BY DEF Upd
<1> HIDE DEF a1
<1>7. HeldOf(a2, X) = HeldOf(a1, X)
  <2>1. ASSUME NEW j \in HeldOf(a2, X)
        PROVE  j \in HeldOf(a1, X)
    <3>1. PICK z \in X : j = a2[z] /\ j # 0
      BY DEF HeldOf
    <3>2. z # y
      BY <3>1, <1>6
    <3>3. CASE z = x
      BY <3>1, <3>3, <1>6 DEF HeldOf
    <3>4. CASE z # x
      BY <3>1, <3>2, <3>4, <1>6 DEF HeldOf
    <3>5. QED
      BY <3>3, <3>4
  <2>2. ASSUME NEW j \in HeldOf(a1, X)
        PROVE  j \in HeldOf(a2, X)
    <3>1. PICK z \in X : j = a1[z] /\ j # 0
      BY DEF HeldOf
    <3>2. z # x
      BY <3>1, <1>6
    <3>3. CASE z = y
      BY <3>1, <3>3, <1>6 DEF HeldOf
    <3>4. CASE z # y
      BY <3>1, <3>2, <3>4, <1>6 DEF HeldOf
    <3>5. QED
      BY <3>3, <3>4
  <2>3. QED
    BY <2>1, <2>2
<1>8. Single(a2, X)
  <2> SUFFICES ASSUME NEW u \in X, NEW v \in X, a2[u] = a2[v], a2[u] # 0
               PROVE  u = v
    BY DEF Single
  <2>1. u # y /\ v # y
    BY <1>6
  <2>2. CASE u # x /\ v # x
    BY <2>1, <2>2, <1>6 DEF Single
  <2>3. CASE u = x /\ v # x
    BY <2>1, <2>3, <1>6 DEF Single
  <2>4. CASE u # x /\ v = x
    BY <2>1, <2>4, <1>6 DEF Single
  <2>5. QED
    BY <2>2, <2>3, <2>4
<1>9. \A z \in X : z # x /\ z # y /\ a[z] # 0 => q.chunk[a[z]] = p.chunk[a[z]]
  BY <1>4, <1>5
<1>10. q.chunk[a[y]] = new
  BY <1>4, <1>5
<1>11. PInv(q, HeldOf(a2, X))
  BY <1>5, <1>7
<1>12. QED
  BY <1>3, <1>8, <1>9, <1>10, <1>11

-----------------------------------------------------------------------------
(* The slots of DataBuf: the buffers b and the locals n of the calls that  *)
(* move one.                                                               *)
Slots == {"in", "out", "new"}
Places == Conns \X Slots
AtOf(b, n) == [x \in Places |-> IF x[2] = "new" THEN n[x[1]] ELSE b[x[1]][x[2]]]

SetBuf(b, c, s, k) == [b EXCEPT ![c][s] = k]

SlotTypes(b, n) ==
    /\ b \in [Conns -> [Sides -> ChunkIds \cup {nullptr}]]
    /\ n \in [Conns -> ChunkIds \cup {nullptr}]

MemOk(p, b, n) ==
    /\ SlotTypes(b, n)
    /\ PInv(p, HeldOf(AtOf(b, n), Places)) /\ Single(AtOf(b, n), Places)

(* What a step for buffer s of connection c leaves alone.                  *)
Apart(p, p2, b, b2, n, n2, c, s) ==
    /\ \A d \in Conns : \A r \in Sides : d # c \/ r # s =>
          /\ b2[d][r] = b[d][r]
          /\ b[d][r] # 0 => p2.chunk[b[d][r]] = p.chunk[b[d][r]]
    /\ \A d \in Conns : d # c =>
          /\ n2[d] = n[d]
          /\ n[d] # 0 => p2.chunk[n[d]] = p.chunk[n[d]]

(* The slots of a connection are its buffers and its local.                *)
LEMMA AtIs ==
    ASSUME NEW b, NEW n, SlotTypes(b, n)
    PROVE  /\ AtOf(b, n) \in [Places -> Nat]
           /\ \A c \in Conns : \A s \in Sides :
                 <<c, s>> \in Places /\ AtOf(b, n)[<<c, s>>] = b[c][s]
           /\ \A c \in Conns :
                 <<c, "new">> \in Places /\ AtOf(b, n)[<<c, "new">>] = n[c]
<1>1. \A k \in ChunkIds \cup {nullptr} : k \in Nat
  BY CapFacts DEF nullptr
<1>2. \A x \in Places : x[1] \in Conns /\ x[2] \in Slots /\ x = <<x[1], x[2]>>
  BY DEF Places
<1>3. \A x \in Places : AtOf(b, n)[x] \in Nat
  <2> TAKE x \in Places
  <2>1. CASE x[2] = "new"
    BY <1>1, <1>2, <2>1 DEF AtOf, SlotTypes
  <2>2. CASE x[2] # "new"
    <3>1. x[2] \in Sides /\ x[1] \in Conns
      BY <1>2, <2>2 DEF Slots, Sides
    <3>2. b[x[1]][x[2]] \in ChunkIds \cup {nullptr}
      BY <3>1 DEF SlotTypes
    <3>3. QED
      BY <1>1, <2>2, <3>2 DEF AtOf
  <2>3. QED
    BY <2>1, <2>2
<1>4. AtOf(b, n) \in [Places -> Nat]
  BY <1>3 DEF AtOf
<1>5. \A c \in Conns : \A s \in Sides :
         <<c, s>> \in Places /\ AtOf(b, n)[<<c, s>>] = b[c][s]
  BY DEF AtOf, Places, Slots, Sides
<1>6. \A c \in Conns :
         <<c, "new">> \in Places /\ AtOf(b, n)[<<c, "new">>] = n[c]
  BY DEF AtOf, Places, Slots
<1>7. QED
  BY <1>4, <1>5, <1>6

LEMMA AtBuf ==
    ASSUME NEW b, NEW n, SlotTypes(b, n), NEW c \in Conns, NEW s \in Sides,
           NEW k, NEW b2, b2 = SetBuf(b, c, s, k)
    PROVE  AtOf(b2, n) = Upd(AtOf(b, n), <<c, s>>, k)
<1>1. /\ b2[c][s] = k
      /\ \A d \in Conns : \A r \in Sides : d # c \/ r # s => b2[d][r] = b[d][r]
  BY DEF SlotTypes, SetBuf
<1>2. \A x \in Places : x[1] \in Conns /\ x[2] \in Slots /\ x = <<x[1], x[2]>>
  BY DEF Places
<1>3. s # "new" /\ <<c, s>> \in Places
  BY DEF Sides, Slots, Places
<1>4. ASSUME NEW x \in Places
      PROVE  AtOf(b2, n)[x] = Upd(AtOf(b, n), <<c, s>>, k)[x]
  <2>1. CASE x = <<c, s>>
    BY <1>1, <1>3, <2>1 DEF AtOf, Upd
  <2>2. CASE x # <<c, s>>
    <3>1. Upd(AtOf(b, n), <<c, s>>, k)[x] = AtOf(b, n)[x]
      BY <2>2 DEF AtOf, Upd
    <3>2. CASE x[2] = "new"
      BY <3>1, <3>2 DEF AtOf
    <3>3. CASE x[2] # "new"
      <4>1. x[2] \in Sides /\ x[1] \in Conns /\ (x[1] # c \/ x[2] # s)
        BY <1>2, <2>2, <3>3 DEF Slots, Sides
      <4>2. b2[x[1]][x[2]] = b[x[1]][x[2]]
        BY <1>1, <4>1
      <4>3. QED
        BY <3>1, <3>3, <4>2 DEF AtOf
    <3>4. QED
      BY <3>2, <3>3
  <2>3. QED
    BY <2>1, <2>2
<1>5. AtOf(b2, n) = [x \in Places |-> AtOf(b2, n)[x]]
  BY DEF AtOf
<1>6. Upd(AtOf(b, n), <<c, s>>, k)
        = [x \in Places |-> Upd(AtOf(b, n), <<c, s>>, k)[x]]
  BY DEF AtOf, Upd
<1>7. QED
  BY <1>4, <1>5, <1>6

LEMMA AtNew ==
    ASSUME NEW b, NEW n, SlotTypes(b, n), NEW c \in Conns,
           NEW k, NEW n2, n2 = Upd(n, c, k)
    PROVE  AtOf(b, n2) = Upd(AtOf(b, n), <<c, "new">>, k)
<1>1. n2[c] = k /\ \A d \in Conns : d # c => n2[d] = n[d]
  BY DEF SlotTypes, Upd
<1>2. \A x \in Places : x[1] \in Conns /\ x[2] \in Slots /\ x = <<x[1], x[2]>>
  BY DEF Places
<1>3. <<c, "new">> \in Places
  BY DEF Slots, Places
<1>4. ASSUME NEW x \in Places
      PROVE  AtOf(b, n2)[x] = Upd(AtOf(b, n), <<c, "new">>, k)[x]
  <2>1. CASE x = <<c, "new">>
    BY <1>1, <1>3, <2>1 DEF AtOf, Upd
  <2>2. CASE x # <<c, "new">>
    <3>1. Upd(AtOf(b, n), <<c, "new">>, k)[x] = AtOf(b, n)[x]
      BY <2>2 DEF AtOf, Upd
    <3>2. CASE x[2] = "new"
      <4>1. x[1] \in Conns /\ x[1] # c
        BY <1>2, <2>2, <3>2
      <4>2. QED
        BY <1>1, <3>1, <3>2, <4>1 DEF AtOf
    <3>3. CASE x[2] # "new"
      BY <3>1, <3>3 DEF AtOf
    <3>4. QED
      BY <3>2, <3>3
  <2>3. QED
    BY <2>1, <2>2
<1>5. AtOf(b, n2) = [x \in Places |-> AtOf(b, n2)[x]]
  BY DEF AtOf
<1>6. Upd(AtOf(b, n), <<c, "new">>, k)
        = [x \in Places |-> Upd(AtOf(b, n), <<c, "new">>, k)[x]]
  BY DEF AtOf, Upd
<1>7. QED
  BY <1>4, <1>5, <1>6

(* From slots to buffers.                                                  *)
LEMMA ApartFrom ==
    ASSUME NEW p, NEW p2, NEW b, NEW b2, NEW n, NEW n2, SlotTypes(b, n),
           NEW c \in Conns, NEW s \in Sides,
           \A d \in Conns : \A r \in Sides : d # c \/ r # s => b2[d][r] = b[d][r],
           \A d \in Conns : d # c => n2[d] = n[d],
           \A x \in Places : x # <<c, s>> /\ x # <<c, "new">> /\ AtOf(b, n)[x] # 0 =>
                p2.chunk[AtOf(b, n)[x]] = p.chunk[AtOf(b, n)[x]]
    PROVE  Apart(p, p2, b, b2, n, n2, c, s)
<1>1. /\ \A d \in Conns : \A r \in Sides :
            <<d, r>> \in Places /\ AtOf(b, n)[<<d, r>>] = b[d][r]
      /\ \A d \in Conns :
            <<d, "new">> \in Places /\ AtOf(b, n)[<<d, "new">>] = n[d]
  BY AtIs
<1>2. \A d \in Conns : \A r \in Sides : d # c \/ r # s =>
         <<d, r>> # <<c, s>> /\ <<d, r>> # <<c, "new">>
  BY DEF Sides
<1>3. \A d \in Conns : d # c =>
         <<d, "new">> # <<c, s>> /\ <<d, "new">> # <<c, "new">>
  OBVIOUS
<1>4. ASSUME NEW d \in Conns, NEW r \in Sides, d # c \/ r # s, b[d][r] # 0
      PROVE  p2.chunk[b[d][r]] = p.chunk[b[d][r]]
  <2>1. /\ <<d, r>> \in Places /\ AtOf(b, n)[<<d, r>>] = b[d][r]
        /\ <<d, r>> # <<c, s>> /\ <<d, r>> # <<c, "new">>
    BY <1>1, <1>2, <1>4
  <2>2. QED
    BY <1>4, <2>1
<1>5. ASSUME NEW d \in Conns, d # c, n[d] # 0
      PROVE  p2.chunk[n[d]] = p.chunk[n[d]]
  <2>1. /\ <<d, "new">> \in Places /\ AtOf(b, n)[<<d, "new">>] = n[d]
        /\ <<d, "new">> # <<c, s>> /\ <<d, "new">> # <<c, "new">>
    BY <1>1, <1>3, <1>5
  <2>2. QED
    BY <1>5, <2>1
<1>6. QED
  BY <1>4, <1>5 DEF Apart

(* The steps on the memory, as room_alloc, the writers, clear and move     *)
(* take them.                                                              *)
LEMMA MemAllocBuf ==
    ASSUME NEW p, NEW b, NEW n, MemOk(p, b, n),
           NEW c \in Conns, NEW s \in Sides, b[c][s] = nullptr,
           NEW len \in Nat, Fitting(len) # {}, ~MustExit(p, len),
           NEW k, k = AllocId(p, len), NEW p2, p2 = AfterAlloc(p, len),
           NEW b2, b2 = SetBuf(b, c, s, k)
    PROVE  /\ MemOk(p2, b2, n) /\ Apart(p, p2, b, b2, n, n, c, s)
           /\ b2[c][s] = k /\ k # nullptr
           /\ p2.chunk[k].capacity >= len /\ p2.chunk[k].length = 0
           /\ n[c] # 0 => p2.chunk[n[c]] = p.chunk[n[c]]
<1> DEFINE a == AtOf(b, n)
           a2 == AtOf(b2, n)
           x == <<c, s>>
<1>1. SlotTypes(b, n) /\ PInv(p, HeldOf(a, Places)) /\ Single(a, Places)
  BY DEF MemOk
<1>2. /\ a \in [Places -> Nat] /\ x \in Places /\ a[x] = 0
      /\ <<c, "new">> \in Places /\ a[<<c, "new">>] = n[c] /\ <<c, "new">> # x
  <2>1. /\ a \in [Places -> Nat]
        /\ \A d \in Conns : \A r \in Sides :
              <<d, r>> \in Places /\ a[<<d, r>>] = b[d][r]
        /\ \A d \in Conns :
              <<d, "new">> \in Places /\ a[<<d, "new">>] = n[d]
    BY <1>1, AtIs
  <2> HIDE DEF a
  <2>2. QED
    BY <2>1 DEF nullptr, Sides
<1>3. a2 = Upd(a, x, k)
  BY <1>1, AtBuf
<1>4. /\ b2[c][s] = k
      /\ \A d \in Conns : \A r \in Sides : d # c \/ r # s => b2[d][r] = b[d][r]
  BY <1>1 DEF SlotTypes, SetBuf, Upd
<1> HIDE DEF a, a2, x
<1>5. /\ k \in ChunkIds
      /\ PInv(p2, HeldOf(a2, Places)) /\ Single(a2, Places)
      /\ p2.chunk[k].capacity >= len /\ p2.chunk[k].length = 0
      /\ \A y \in Places : y # x /\ a[y] # 0 => p2.chunk[a[y]] = p.chunk[a[y]]
  BY <1>1, <1>2, <1>3, SlotAlloc
<1>6. Apart(p, p2, b, b2, n, n, c, s)
  BY <1>1, <1>4, <1>5, ApartFrom DEF a, x
<1>7. SlotTypes(b2, n)
  BY <1>1, <1>5 DEF SlotTypes, SetBuf, Upd
<1>8. k # nullptr
  BY <1>5, CapFacts DEF nullptr
<1>9. n[c] # 0 => p2.chunk[n[c]] = p.chunk[n[c]]
  BY <1>2, <1>5
<1>10. QED
  BY <1>4, <1>5, <1>6, <1>7, <1>8, <1>9 DEF MemOk, a2

(* A larger chunk for a buffer that has one, kept in the local.            *)
LEMMA MemAllocNew ==
    ASSUME NEW p, NEW b, NEW n, MemOk(p, b, n),
           NEW c \in Conns, NEW s \in Sides, n[c] = nullptr,
           NEW len \in Nat, Fitting(len) # {}, ~MustExit(p, len),
           NEW k, k = AllocId(p, len), NEW p2, p2 = AfterAlloc(p, len),
           NEW n2, n2 = Upd(n, c, k)
    PROVE  /\ MemOk(p2, b, n2) /\ Apart(p, p2, b, b, n, n2, c, s)
           /\ n2[c] = k /\ k # nullptr
           /\ p2.chunk[k].capacity >= len
           /\ b[c][s] # 0 => p2.chunk[b[c][s]] = p.chunk[b[c][s]]
<1> DEFINE a == AtOf(b, n)
           a2 == AtOf(b, n2)
           x == <<c, "new">>
<1>1. SlotTypes(b, n) /\ PInv(p, HeldOf(a, Places)) /\ Single(a, Places)
  BY DEF MemOk
<1>2. /\ a \in [Places -> Nat] /\ x \in Places /\ a[x] = 0
      /\ <<c, s>> \in Places /\ a[<<c, s>>] = b[c][s] /\ <<c, s>> # x
  <2>1. /\ a \in [Places -> Nat]
        /\ \A d \in Conns : \A r \in Sides :
              <<d, r>> \in Places /\ a[<<d, r>>] = b[d][r]
        /\ \A d \in Conns :
              <<d, "new">> \in Places /\ a[<<d, "new">>] = n[d]
    BY <1>1, AtIs
  <2> HIDE DEF a
  <2>2. QED
    BY <2>1 DEF nullptr, Sides
<1>3. a2 = Upd(a, x, k)
  BY <1>1, AtNew
<1>4. n2[c] = k /\ \A d \in Conns : d # c => n2[d] = n[d]
  BY <1>1 DEF SlotTypes, SetBuf, Upd
<1> HIDE DEF a, a2, x
<1>5. /\ k \in ChunkIds
      /\ PInv(p2, HeldOf(a2, Places)) /\ Single(a2, Places)
      /\ p2.chunk[k].capacity >= len
      /\ \A y \in Places : y # x /\ a[y] # 0 => p2.chunk[a[y]] = p.chunk[a[y]]
  BY <1>1, <1>2, <1>3, SlotAlloc
<1>6. Apart(p, p2, b, b, n, n2, c, s)
  BY <1>1, <1>4, <1>5, ApartFrom DEF a, x
<1>7. SlotTypes(b, n2)
  BY <1>1, <1>5 DEF SlotTypes, SetBuf, Upd
<1>8. k # nullptr
  BY <1>5, CapFacts DEF nullptr
<1>9. b[c][s] # 0 => p2.chunk[b[c][s]] = p.chunk[b[c][s]]
  BY <1>2, <1>5
<1>10. QED
  BY <1>4, <1>5, <1>6, <1>7, <1>8, <1>9 DEF MemOk, a2

(* A write to the chunk of a buffer.                                       *)
LEMMA MemPut ==
    ASSUME NEW p, NEW b, NEW n, MemOk(p, b, n),
           NEW c \in Conns, NEW s \in Sides, b[c][s] # nullptr,
           NEW new, Good(new), new.capacity = p.chunk[b[c][s]].capacity,
           NEW p2, p2 = WithChunk(p, b[c][s], new)
    PROVE  /\ MemOk(p2, b, n) /\ Apart(p, p2, b, b, n, n, c, s)
           /\ p2.chunk[b[c][s]] = new
           /\ n[c] # 0 => p2.chunk[n[c]] = p.chunk[n[c]]
<1> DEFINE a == AtOf(b, n)
           x == <<c, s>>
<1>1. SlotTypes(b, n) /\ PInv(p, HeldOf(a, Places)) /\ Single(a, Places)
  BY DEF MemOk
<1>2. /\ a \in [Places -> Nat] /\ x \in Places /\ a[x] = b[c][s] /\ a[x] # 0
      /\ <<c, "new">> \in Places /\ a[<<c, "new">>] = n[c] /\ <<c, "new">> # x
  <2>1. /\ a \in [Places -> Nat]
        /\ \A d \in Conns : \A r \in Sides :
              <<d, r>> \in Places /\ a[<<d, r>>] = b[d][r]
        /\ \A d \in Conns :
              <<d, "new">> \in Places /\ a[<<d, "new">>] = n[d]
    BY <1>1, AtIs
  <2> HIDE DEF a
  <2>2. QED
    BY <2>1 DEF nullptr, Sides
<1> HIDE DEF a, x
<1>3. /\ PInv(p2, HeldOf(a, Places)) /\ p2.chunk[a[x]] = new
      /\ \A y \in Places : y # x /\ a[y] # 0 => p2.chunk[a[y]] = p.chunk[a[y]]
  <2>1. p2 = WithChunk(p, a[x], new) /\ new.capacity = p.chunk[a[x]].capacity
    BY <1>2
  <2>2. QED
    BY <1>1, <1>2, <2>1, SlotPut
<1>4. Apart(p, p2, b, b, n, n, c, s)
  BY <1>1, <1>3, ApartFrom DEF a, x
<1>5. n[c] # 0 => p2.chunk[n[c]] = p.chunk[n[c]]
  BY <1>2, <1>3
<1>6. QED
  BY <1>1, <1>2, <1>3, <1>4, <1>5 DEF MemOk, a

(* The chunk of a buffer goes back.                                        *)
LEMMA MemGive ==
    ASSUME NEW p, NEW b, NEW n, MemOk(p, b, n),
           NEW c \in Conns, NEW s \in Sides, b[c][s] # nullptr,
           NEW p2, p2 = retrieve(p, b[c][s]),
           NEW b2, b2 = SetBuf(b, c, s, nullptr)
    PROVE  /\ MemOk(p2, b2, n) /\ Apart(p, p2, b, b2, n, n, c, s)
           /\ b2[c][s] = nullptr
           /\ n[c] # 0 => p2.chunk[n[c]] = p.chunk[n[c]]
<1> DEFINE a == AtOf(b, n)
           a2 == AtOf(b2, n)
           x == <<c, s>>
<1>1. SlotTypes(b, n) /\ PInv(p, HeldOf(a, Places)) /\ Single(a, Places)
  BY DEF MemOk
<1>2. /\ a \in [Places -> Nat] /\ x \in Places /\ a[x] = b[c][s] /\ a[x] # 0
      /\ <<c, "new">> \in Places /\ a[<<c, "new">>] = n[c] /\ <<c, "new">> # x
  <2>1. /\ a \in [Places -> Nat]
        /\ \A d \in Conns : \A r \in Sides :
              <<d, r>> \in Places /\ a[<<d, r>>] = b[d][r]
        /\ \A d \in Conns :
              <<d, "new">> \in Places /\ a[<<d, "new">>] = n[d]
    BY <1>1, AtIs
  <2> HIDE DEF a
  <2>2. QED
    BY <2>1 DEF nullptr, Sides
<1>3. a2 = Upd(a, x, 0)
  BY <1>1, AtBuf DEF nullptr
<1>4. /\ b2[c][s] = nullptr
      /\ \A d \in Conns : \A r \in Sides : d # c \/ r # s => b2[d][r] = b[d][r]
  BY <1>1 DEF SlotTypes, SetBuf, Upd
<1> HIDE DEF a, a2, x
<1>5. /\ PInv(p2, HeldOf(a2, Places)) /\ Single(a2, Places)
      /\ \A y \in Places : y # x /\ a[y] # 0 => p2.chunk[a[y]] = p.chunk[a[y]]
  <2>1. p2 = retrieve(p, a[x])
    BY <1>2
  <2>2. QED
    BY <1>1, <1>2, <1>3, <2>1, SlotGive
<1>6. Apart(p, p2, b, b2, n, n, c, s)
  BY <1>1, <1>4, <1>5, ApartFrom DEF a, x
<1>7. SlotTypes(b2, n)
  BY <1>1 DEF SlotTypes, SetBuf, Upd
<1>8. n[c] # 0 => p2.chunk[n[c]] = p.chunk[n[c]]
  BY <1>2, <1>5
<1>9. QED
  BY <1>4, <1>5, <1>6, <1>7, <1>8 DEF MemOk, a2

(* A buffer moves to the chunk in the local.                               *)
LEMMA MemMove ==
    ASSUME NEW p, NEW b, NEW n, MemOk(p, b, n),
           NEW c \in Conns, NEW s \in Sides, b[c][s] # nullptr, n[c] # nullptr,
           NEW p2, MovedTo(p, p2, b[c][s], n[c]),
           NEW b2, b2 = SetBuf(b, c, s, n[c]),
           NEW n2, n2 = Upd(n, c, nullptr)
    PROVE  /\ MemOk(p2, b2, n2) /\ Apart(p, p2, b, b2, n, n2, c, s)
           /\ b2[c][s] = n[c] /\ n2[c] = nullptr
           /\ p2.chunk[n[c]].capacity = p.chunk[n[c]].capacity
           /\ p2.chunk[n[c]].length = p.chunk[b[c][s]].length
           /\ Contents(p2.chunk[n[c]]) = Contents(p.chunk[b[c][s]])
<1> DEFINE a == AtOf(b, n)
           a1 == AtOf(b2, n)
           a2 == AtOf(b2, n2)
           x == <<c, s>>
           y == <<c, "new">>
<1>1. SlotTypes(b, n) /\ PInv(p, HeldOf(a, Places)) /\ Single(a, Places)
  BY DEF MemOk
<1>2. /\ a \in [Places -> Nat] /\ x \in Places /\ a[x] = b[c][s] /\ a[x] # 0
      /\ y \in Places /\ a[y] = n[c] /\ a[y] # 0 /\ x # y
  <2>1. /\ a \in [Places -> Nat]
        /\ \A d \in Conns : \A r \in Sides :
              <<d, r>> \in Places /\ a[<<d, r>>] = b[d][r]
        /\ \A d \in Conns :
              <<d, "new">> \in Places /\ a[<<d, "new">>] = n[d]
    BY <1>1, AtIs
  <2> HIDE DEF a
  <2>2. QED
    BY <2>1 DEF nullptr, Sides
<1>3. SlotTypes(b2, n) /\ SlotTypes(b2, n2)
  BY <1>1 DEF SlotTypes, SetBuf, Upd
<1>4. a2 = Upd(Upd(a, x, a[y]), y, 0)
  <2>1. a1 = Upd(a, x, n[c])
    BY <1>1, AtBuf
  <2>2. a2 = Upd(a1, y, 0)
    BY <1>3, AtNew DEF nullptr
  <2> HIDE DEF a, a1, a2, x, y
  <2>3. QED
    BY <1>2, <2>1, <2>2
<1>5. /\ b2[c][s] = n[c] /\ n2[c] = nullptr
      /\ \A d \in Conns : \A r \in Sides : d # c \/ r # s => b2[d][r] = b[d][r]
      /\ \A d \in Conns : d # c => n2[d] = n[d]
  BY <1>1 DEF SlotTypes, SetBuf, Upd
<1> HIDE DEF a, a1, a2, x, y
<1>6. /\ PInv(p2, HeldOf(a2, Places)) /\ Single(a2, Places)
      /\ p2.chunk[a[y]].capacity = p.chunk[a[y]].capacity
      /\ p2.chunk[a[y]].length = p.chunk[a[x]].length
      /\ Contents(p2.chunk[a[y]]) = Contents(p.chunk[a[x]])
      /\ \A z \in Places : z # x /\ z # y /\ a[z] # 0 =>
            p2.chunk[a[z]] = p.chunk[a[z]]
  <2>1. MovedTo(p, p2, a[x], a[y])
    BY <1>2
  <2>2. QED
    BY <1>1, <1>2, <1>4, <2>1, SlotMove
<1>7. Apart(p, p2, b, b2, n, n2, c, s)
  BY <1>1, <1>5, <1>6, ApartFrom DEF a, x, y
<1>8. QED
  BY <1>2, <1>3, <1>5, <1>6, <1>7 DEF MemOk, a2

-----------------------------------------------------------------------------
(* Streams of bytes.                                                       *)
Ordered(q, g, D) ==
    /\ {q[i] : i \in DOMAIN q} = (1..g) \ D
    /\ \A i, j \in DOMAIN q : i < j => q[i] < q[j]

(* The next n bytes are read.                                              *)
LEMMA OrderedMore ==
    ASSUME NEW q \in Seq(Nat), NEW g \in Nat, NEW D, D \subseteq 1..g,
           Ordered(q, g, D), NEW n \in Nat,
           NEW r, r = q \o [i \in 1..n |-> g + i]
    PROVE  Ordered(r, g + n, D)
<1> DEFINE t == [i \in 1..n |-> g + i]
           l == Len(q)
<1>1. t \in Seq(Nat) /\ Len(t) = n /\ \A i \in 1..n : t[i] = g + i
  OBVIOUS
<1>2. l \in Nat /\ DOMAIN q = 1..l
  OBVIOUS
<1> HIDE DEF t
<1>3. r = q \o t
  BY DEF t
<1>4. r \in Seq(Nat) /\ Len(r) = l + n
  BY <1>1, <1>3, ConcatProperties
<1>5. /\ \A i \in 1..l : r[i] = q[i]
      /\ \A i \in 1..(l + n) : i > l => r[i] = g + (i - l) /\ i - l \in 1..n
  <2>1. \A i \in 1..(l + n) : r[i] = IF i <= l THEN q[i] ELSE t[i - l]
    BY <1>1, <1>3, ConcatProperties
  <2>2. QED
    BY <1>1, <1>2, <2>1
<1> HIDE DEF l
<1>6. DOMAIN r = 1..(l + n)
  BY <1>4
<1>7. \A i \in 1..l : q[i] \in 1..g /\ q[i] \notin D /\ q[i] \in Nat
  BY <1>2 DEF Ordered
<1>8. ASSUME NEW i \in DOMAIN r
      PROVE  r[i] \in (1..(g + n)) \ D
  <2>1. CASE i <= l
    BY <2>1, <1>2, <1>5, <1>6, <1>7
  <2>2. CASE i > l
    BY <2>2, <1>2, <1>5, <1>6
  <2>3. QED
    BY <2>1, <2>2, <1>2, <1>6
<1>9. ASSUME NEW x \in (1..(g + n)) \ D
      PROVE  \E i \in DOMAIN r : r[i] = x
  <2>1. CASE x <= g
    <3>1. x \in (1..g) \ D
      BY <2>1
    <3>2. PICK i \in 1..l : q[i] = x
      BY <3>1, <1>2 DEF Ordered
    <3>3. i \in DOMAIN r /\ r[i] = x
      BY <3>2, <1>2, <1>5, <1>6
    <3>4. QED
      BY <3>3
  <2>2. CASE x > g
    <3>1. l + (x - g) \in 1..(l + n) /\ l + (x - g) > l /\ (l + (x - g)) - l = x - g
      BY <2>2, <1>2
    <3>2. r[l + (x - g)] = g + (x - g)
      BY <3>1, <1>5
    <3> DEFINE k == l + (x - g)
    <3>3. k \in DOMAIN r /\ r[k] = g + (x - g)
      BY <3>1, <3>2, <1>6
    <3>4. x \in Nat /\ g + (x - g) = x
      OBVIOUS
    <3> HIDE DEF k
    <3>5. QED
      BY <3>3, <3>4
  <2>3. x <= g \/ x > g
    OBVIOUS
  <2>4. QED
    BY <2>1, <2>2, <2>3
<1>10. ASSUME NEW i \in DOMAIN r, NEW j \in DOMAIN r, i < j
       PROVE  r[i] < r[j]
  <2>1. CASE j <= l
    BY <1>10, <2>1, <1>2, <1>5, <1>6 DEF Ordered
  <2>2. CASE j > l /\ i <= l
    BY <2>2, <1>2, <1>5, <1>6, <1>7
  <2>3. CASE j > l /\ i > l
    BY <1>10, <2>3, <1>2, <1>5, <1>6
  <2>4. QED
    BY <2>1, <2>2, <2>3, <1>2, <1>6
<1>11. {r[i] : i \in DOMAIN r} = (1..(g + n)) \ D
  BY <1>8, <1>9
<1>12. \A i, j \in DOMAIN r : i < j => r[i] < r[j]
  BY <1>10
<1>13. QED
  BY <1>11, <1>12 DEF Ordered

(* Bytes in the middle are dropped.                                        *)
LEMMA OrderedLess ==
    ASSUME NEW a \in Seq(Nat), NEW m \in Seq(Nat), NEW b \in Seq(Nat),
           NEW g \in Nat, NEW D, Ordered((a \o m) \o b, g, D)
    PROVE  Ordered(a \o b, g, D \cup {m[i] : i \in 1..Len(m)})
<1> DEFINE q == (a \o m) \o b
           r == a \o b
           la == Len(a)
           lm == Len(m)
           lb == Len(b)
           M == {m[i] : i \in 1..lm}
<1>1. la \in Nat /\ lm \in Nat /\ lb \in Nat
  OBVIOUS
<1>2. /\ q \in Seq(Nat) /\ Len(q) = la + lm + lb
      /\ \A i \in 1..la : q[i] = a[i]
      /\ \A i \in 1..lm : q[la + i] = m[i]
      /\ \A i \in 1..lb : q[la + lm + i] = b[i]
  <2> DEFINE u == a \o m
  <2>1. /\ u \in Seq(Nat) /\ Len(u) = la + lm
        /\ \A i \in 1..(la + lm) : u[i] = IF i <= la THEN a[i] ELSE m[i - la]
    BY ConcatProperties
  <2> HIDE DEF u
  <2>2. /\ u \o b \in Seq(Nat) /\ Len(u \o b) = (la + lm) + lb
        /\ \A i \in 1..((la + lm) + lb) :
              (u \o b)[i] = IF i <= la + lm THEN u[i] ELSE b[i - (la + lm)]
    <3>1. /\ u \o b \in Seq(Nat) /\ Len(u \o b) = Len(u) + Len(b)
          /\ \A i \in 1..(Len(u) + Len(b)) :
                (u \o b)[i] = IF i <= Len(u) THEN u[i] ELSE b[i - Len(u)]
      BY <2>1, ConcatProperties
    <3>2. Len(u) = la + lm /\ Len(b) = lb
      BY <2>1
    <3>3. QED
      BY <3>1, <3>2
  <2>3. q = u \o b
    BY DEF u
  <2> HIDE DEF q, la, lm, lb
  <2>4. \A i \in 1..la : q[i] = a[i]
    BY <1>1, <2>1, <2>2, <2>3
  <2>5. \A i \in 1..lm : q[la + i] = m[i]
    <3> TAKE i \in 1..lm
    <3>1. la + i \in 1..(la + lm) /\ ~(la + i <= la) /\ (la + i) - la = i
          /\ la + i \in 1..((la + lm) + lb) /\ la + i <= la + lm
      BY <1>1
    <3>2. QED
      BY <3>1, <2>1, <2>2, <2>3
  <2>6. \A i \in 1..lb : q[la + lm + i] = b[i]
    <3> TAKE i \in 1..lb
    <3>1. /\ (la + lm) + i \in 1..((la + lm) + lb) /\ ~((la + lm) + i <= la + lm)
          /\ ((la + lm) + i) - (la + lm) = i
      BY <1>1
    <3>2. QED
      BY <3>1, <2>1, <2>2, <2>3
  <2>7. QED
    BY <2>2, <2>3, <2>4, <2>5, <2>6
<1>3. /\ r \in Seq(Nat) /\ Len(r) = la + lb
      /\ \A i \in 1..(la + lb) : r[i] = IF i <= la THEN a[i] ELSE b[i - la]
  BY ConcatProperties
<1>4. Ordered(q, g, D)
  OBVIOUS
<1>5. \A i \in 1..lm : m[i] \in M
  OBVIOUS
<1>6. \A x \in M : \E i \in 1..lm : x = m[i]
  OBVIOUS
<1> HIDE DEF q, r, la, lm, lb, M
<1>7. DOMAIN q = 1..(la + lm + lb) /\ DOMAIN r = 1..(la + lb)
  BY <1>2, <1>3
<1> DEFINE e(i) == IF i <= la THEN i ELSE i + lm
<1>8. \A i \in 1..(la + lb) :
         e(i) \in 1..(la + lm + lb) /\ r[i] = q[e(i)] /\ ~(e(i) \in (la + 1)..(la + lm))
  <2> TAKE i \in 1..(la + lb)
  <2>1. CASE i <= la
    <3>1. i \in 1..la /\ e(i) = i
      BY <2>1, <1>1
    <3>2. q[i] = a[i] /\ r[i] = a[i]
      BY <3>1, <2>1, <1>2, <1>3
    <3>3. i \in 1..(la + lm + lb) /\ ~(i \in (la + 1)..(la + lm))
      BY <3>1, <1>1
    <3> HIDE DEF e
    <3>4. QED
      BY <3>1, <3>2, <3>3
  <2>2. CASE i > la
    <3>1. i - la \in 1..lb /\ la + lm + (i - la) = i + lm /\ r[i] = b[i - la]
      BY <2>2, <1>1, <1>3
    <3>2. q[la + lm + (i - la)] = b[i - la]
      BY <3>1, <1>2
    <3>3. e(i) = i + lm /\ i + lm \in 1..(la + lm + lb) /\ i + lm > la + lm
      BY <2>2, <1>1
    <3>4. QED
      BY <3>1, <3>2, <3>3, <1>1
  <2>3. QED
    BY <2>1, <2>2, <1>1
<1>9. \A i, j \in 1..(la + lm + lb) : i < j => q[i] < q[j]
  BY <1>4, <1>7 DEF Ordered
<1>10. \A i \in 1..(la + lm + lb) : q[i] \in Nat /\ q[i] \in (1..g) \ D
  <2> TAKE i \in 1..(la + lm + lb)
  <2>1. q[i] \in {q[j] : j \in DOMAIN q}
    BY <1>7
  <2>2. {q[j] : j \in DOMAIN q} = (1..g) \ D
    BY <1>4 DEF Ordered
  <2>3. q[i] \in (1..g) \ D
    BY <2>1, <2>2
  <2>4. QED
    BY <2>3
<1>11. \A i, j \in 1..(la + lm + lb) : q[i] = q[j] => i = j
  BY <1>1, <1>9, <1>10
<1>12. \A i \in 1..(la + lb), j \in 1..(la + lb) : i < j => r[i] < r[j]
  <2> TAKE i \in 1..(la + lb), j \in 1..(la + lb)
  <2> HAVE i < j
  <2>1. e(i) < e(j)
    BY <1>1
  <2> HIDE DEF e
  <2>2. QED
    BY <2>1, <1>8, <1>9
<1>13. \A i \in 1..(la + lb) : r[i] \in (1..g) \ (D \cup M)
  <2> TAKE i \in 1..(la + lb)
  <2>1. r[i] \in (1..g) \ D
    BY <1>8, <1>10
  <2>2. ASSUME r[i] \in M
        PROVE  FALSE
    <3>1. PICK j \in 1..lm : r[i] = m[j]
      BY <1>6, <2>2
    <3>2. la + j \in 1..(la + lm + lb) /\ la + j \in (la + 1)..(la + lm)
      BY <1>1
    <3>3. q[la + j] = q[e(i)]
      BY <3>1, <1>2, <1>8
    <3> HIDE DEF e
    <3>4. QED
      BY <3>2, <3>3, <1>8, <1>11
  <2>3. QED
    BY <2>1, <2>2
<1>14. ASSUME NEW x \in (1..g) \ (D \cup M)
       PROVE  \E i \in 1..(la + lb) : r[i] = x
  <2>1. PICK k \in 1..(la + lm + lb) : q[k] = x
    BY <1>4, <1>7 DEF Ordered
  <2>2. CASE k <= la
    <3>1. k \in 1..(la + lb) /\ r[k] = a[k] /\ q[k] = a[k]
      <4>1. k \in 1..(la + lb) /\ k \in 1..la
        BY <2>2, <1>1
      <4>2. q[k] = a[k]
        BY <4>1, <1>2
      <4>3. r[k] = a[k]
        BY <2>2, <4>1, <1>3
      <4>4. QED
        BY <4>1, <4>2, <4>3
    <3>2. QED
      BY <3>1, <2>1
  <2>3. CASE k > la /\ k <= la + lm
    <3>1. k - la \in 1..lm /\ la + (k - la) = k
      BY <2>3, <1>1
    <3>2. x = m[k - la]
      BY <3>1, <2>1, <1>2
    <3>3. QED
      BY <3>1, <3>2, <1>5
  <2>4. CASE k > la + lm
    <3>1. k - lm \in 1..(la + lb) /\ ~(k - lm <= la) /\ (k - lm) + lm = k
      BY <2>4, <1>1
    <3>2. e(k - lm) = k
      BY <3>1
    <3>3. r[k - lm] = q[e(k - lm)]
      BY <3>1, <1>8
    <3>4. r[k - lm] = x
      BY <3>2, <3>3, <2>1
    <3>5. QED
      BY <3>1, <3>4
  <2>5. QED
    BY <2>2, <2>3, <2>4, <1>1
<1>15. Ordered(r, g, D \cup M)
  <2>1. {r[i] : i \in DOMAIN r} = (1..g) \ (D \cup M)
    <3> DEFINE E == (1..g) \ (D \cup M)
               R == DOMAIN r
    <3>1. /\ \A i \in R : r[i] \in E
          /\ \A x \in E : \E i \in R : r[i] = x
      BY <1>7, <1>13, <1>14
    <3> HIDE DEF E, R
    <3>2. {r[i] : i \in R} = E
      BY <3>1, Zenon
    <3>3. QED
      BY <3>2 DEF E, R
  <2>2. \A i, j \in DOMAIN r : i < j => r[i] < r[j]
    BY <1>7, <1>12
  <2>3. QED
    BY <2>1, <2>2 DEF Ordered
<1>16. QED
  BY <1>15 DEF r, M, lm

(* The bytes written, waiting, taken and read, seen as one sequence.       *)
LEMMA StreamTake ==
    ASSUME NEW o \in Seq(Bytes), NEW w \in Seq(Bytes), NEW m \in Seq(Bytes),
           NEW i \in Seq(Bytes)
    PROVE  o \o w \o <<>> \o (m \o i) = o \o w \o m \o i
<1> DEFINE u == o \o w
<1>1. u \in Seq(Bytes)
  BY ConcatProperties
<1> HIDE DEF u
<1>2. u \o <<>> = u
  BY <1>1, ConcatEmptySeq
<1>3. (u \o m) \o i = u \o (m \o i)
  BY <1>1, ConcatAssociative, SMTT(30)
<1>4. (u \o <<>>) \o (m \o i) = (u \o m) \o i
  BY <1>2, <1>3
<1>5. QED
  BY <1>4 DEF u

LEMMA StreamAppend ==
    ASSUME NEW o \in Seq(Bytes), NEW w \in Seq(Bytes), NEW m \in Seq(Bytes),
           NEW i \in Seq(Bytes)
    PROVE  o \o (w \o m) \o <<>> \o i = o \o w \o m \o i
<1> DEFINE u == (o \o w) \o m
<1>1. o \o w \in Seq(Bytes)
  BY ConcatProperties
<1>2. u \in Seq(Bytes)
  BY <1>1, ConcatProperties
<1>3. o \o (w \o m) = u
  BY ConcatAssociative, SMTT(30)
<1> HIDE DEF u
<1>4. u \o <<>> = u
  BY <1>2, ConcatEmptySeq
<1>5. (o \o (w \o m)) \o <<>> = u
  BY <1>3, <1>4
<1>6. QED
  BY <1>5 DEF u

LEMMA StreamWrite ==
    ASSUME NEW o \in Seq(Bytes), NEW v \in Seq(Bytes), NEW w \in Seq(Bytes)
    PROVE  (o \o v) \o w = o \o (v \o w)
  BY ConcatAssociative

-----------------------------------------------------------------------------
(* The inductive invariant.  ConnInv: a chunk made ready for a connection  *)
(* has room for what is about to be put in it, whatever other connections  *)
(* have done to the pool since.                                            *)
ConnTypes ==
    /\ pc \in [Conns -> {"idle", "move_in", "read", "message", "send",
                         "move_out", "append", "close", "close_out", "closed"}]
    /\ need_read \in [Conns -> 0..MaxBytes]
    /\ sent \in [Conns -> 0..MaxBytes] /\ got \in [Conns -> 0..MaxBytes]
    /\ msg \in [Conns -> Seq(Bytes)] /\ out \in [Conns -> Seq(Bytes)]
    /\ eof \subseteq Conns
    /\ dropped \in [Conns -> SUBSET Bytes]
    /\ exited \in BOOLEAN

ConnInv(c) ==
    /\ new_buf[c] # nullptr <=> pc[c] \in {"move_in", "move_out"}
    /\ pc[c] \in {"move_in", "read"} => buf[c]["in"] # nullptr
    /\ pc[c] \in {"move_out", "append"} => buf[c]["out"] # nullptr
    /\ pc[c] = "move_in" =>
          Chunk(c, "in").length + need_read[c] <= pool.chunk[new_buf[c]].capacity
    /\ pc[c] = "move_out" =>
          Chunk(c, "out").length + Len(msg[c]) <= pool.chunk[new_buf[c]].capacity
    /\ pc[c] = "read" =>
          Chunk(c, "in").length + need_read[c] <= Chunk(c, "in").capacity
    /\ pc[c] = "append" =>
          Chunk(c, "out").length + Len(msg[c]) <= Chunk(c, "out").capacity
    /\ pc[c] \in {"move_in", "read"} => got[c] + need_read[c] <= sent[c]
    /\ got[c] <= sent[c]

StreamOk(c) ==
    /\ dropped[c] \subseteq 1..got[c]
    /\ pc[c] \notin {"send", "move_out", "append"} => msg[c] = <<>>
    /\ pc[c] \notin {"close", "close_out", "closed"} =>
          Ordered(Stream(c), got[c], dropped[c])

Inv == /\ MemOk(pool, buf, new_buf) /\ ConnTypes
       /\ \A c \in Conns : ConnInv(c) /\ StreamOk(c)

(* What a step of connection c leaves alone of the others.                 *)
ApartStep(c, s) == Apart(pool, pool', buf, buf', new_buf, new_buf', c, s)
SameOthers(c) ==
    \A d \in Conns : d # c =>
        /\ pc'[d] = pc[d] /\ need_read'[d] = need_read[d] /\ msg'[d] = msg[d]
        /\ sent'[d] = sent[d] /\ got'[d] = got[d] /\ out'[d] = out[d]
        /\ dropped'[d] = dropped[d]

(* A step for one buffer leaves the others and their bytes alone.          *)
LEMMA BufferKept ==
    ASSUME NEW c \in Conns, NEW s \in Sides, ApartStep(c, s),
           NEW d \in Conns, NEW r \in Sides, d # c \/ r # s
    PROVE  /\ buf'[d][r] = buf[d][r]
           /\ buf[d][r] # nullptr => Chunk(d, r)' = Chunk(d, r)
           /\ Pending(d, r)' = Pending(d, r)
<1>1. /\ buf'[d][r] = buf[d][r]
      /\ buf[d][r] # 0 => pool'.chunk[buf[d][r]] = pool.chunk[buf[d][r]]
  BY DEF ApartStep, Apart
<1>2. buf[d][r] # nullptr => Chunk(d, r)' = Chunk(d, r)
  BY <1>1 DEF Chunk, nullptr
<1>3. Pending(d, r)' = Pending(d, r)
  <2>1. CASE buf[d][r] = nullptr
    BY <1>1, <2>1 DEF Pending
  <2>2. CASE buf[d][r] # nullptr
    <3>1. Chunk(d, r)' = Chunk(d, r) /\ buf'[d][r] # nullptr
      BY <1>1, <1>2, <2>2
    <3>2. Pending(d, r)' = Contents(Chunk(d, r)')
      BY <3>1 DEF Pending, Contents
    <3>3. QED
      BY <2>2, <3>1, <3>2 DEF Pending
  <2>3. QED
    BY <2>1, <2>2
<1>4. QED
  BY <1>1, <1>2, <1>3

(* It leaves the invariant of other connections alone.                     *)
LEMMA OthersKept ==
    ASSUME Inv, NEW c \in Conns, NEW s \in Sides, ApartStep(c, s), SameOthers(c),
           NEW d \in Conns, d # c
    PROVE  ConnInv(d)' /\ StreamOk(d)'
<1>1. ConnInv(d) /\ StreamOk(d)
  BY DEF Inv
<1>2. /\ pc'[d] = pc[d] /\ need_read'[d] = need_read[d] /\ msg'[d] = msg[d]
      /\ sent'[d] = sent[d] /\ got'[d] = got[d] /\ out'[d] = out[d]
      /\ dropped'[d] = dropped[d]
  BY DEF SameOthers
<1>3. /\ new_buf'[d] = new_buf[d]
      /\ new_buf[d] # nullptr => pool'.chunk[new_buf[d]] = pool.chunk[new_buf[d]]
  BY DEF ApartStep, Apart, nullptr
<1>4. "in" \in Sides /\ "out" \in Sides
  BY DEF Sides
<1>5. /\ buf'[d]["in"] = buf[d]["in"] /\ buf'[d]["out"] = buf[d]["out"]
      /\ buf[d]["in"] # nullptr => Chunk(d, "in")' = Chunk(d, "in")
      /\ buf[d]["out"] # nullptr => Chunk(d, "out")' = Chunk(d, "out")
      /\ Pending(d, "in")' = Pending(d, "in")
      /\ Pending(d, "out")' = Pending(d, "out")
  BY <1>4, BufferKept
<1>6. ConnInv(d)'
  BY <1>1, <1>2, <1>3, <1>5 DEF ConnInv
<1>7. Stream(d)' = Stream(d)
  BY <1>2, <1>5 DEF Stream
<1>8. StreamOk(d)'
  <2>1. pc[d] \notin {"close", "close_out", "closed"} =>
          Ordered(Stream(d)', got'[d], dropped'[d])
    BY <1>1, <1>2, <1>7 DEF StreamOk
  <2>2. pc'[d] \notin {"close", "close_out", "closed"} =>
          Ordered(Stream(d), got[d], dropped[d])'
    BY <1>2, <2>1 DEF Ordered
  <2>3. QED
    BY <1>1, <1>2, <2>2 DEF StreamOk
<1>9. QED
  BY <1>6, <1>8

(* So that only the connection that moves is to be looked at.              *)
LEMMA Conclude ==
    ASSUME Inv, NEW c \in Conns, NEW s \in Sides, ApartStep(c, s), SameOthers(c),
           MemOk(pool', buf', new_buf'), ConnTypes', ConnInv(c)', StreamOk(c)'
    PROVE  Inv'
<1>1. \A d \in Conns : ConnInv(d)' /\ StreamOk(d)'
  BY OthersKept
<1>2. MemOk(pool, buf, new_buf)'
  BY DEF MemOk, SlotTypes, PInv, IsPool, PoolInv, PoolTypes, ListsOk, HeldOk,
         Counted, Accounts, Single, HeldOf, AtOf, Good, IsChunk, Listed, Made,
         CapOf, Lens
<1>3. QED
  BY <1>1, <1>2 DEF Inv

LEMMA SameMem ==
    ASSUME NEW c \in Conns, NEW s \in Sides, UNCHANGED <<pool, buf, new_buf>>,
           MemOk(pool, buf, new_buf)
    PROVE  ApartStep(c, s) /\ MemOk(pool', buf', new_buf')
  BY DEF ApartStep, Apart

(* What the invariant says of one buffer.                                  *)
LEMMA BufferIs ==
    ASSUME MemOk(pool, buf, new_buf), NEW c \in Conns, NEW s \in Sides
    PROVE  /\ Pending(c, s) \in Seq(Bytes)
           /\ Length(c, s) \in Nat /\ Len(Pending(c, s)) = Length(c, s)
           /\ buf[c][s] # nullptr =>
                /\ buf[c][s] \in ChunkIds /\ Good(Chunk(c, s))
                /\ Length(c, s) = Chunk(c, s).length
                /\ Pending(c, s) = Contents(Chunk(c, s))
<1>1. CASE buf[c][s] = nullptr
  BY <1>1 DEF Pending, Length
<1>2. CASE buf[c][s] # nullptr
  <2>1. \A k \in ChunkIds : Good(pool.chunk[k])
    BY PInvGood DEF MemOk
  <2>2. buf[c][s] \in ChunkIds
    BY <1>2 DEF MemOk, SlotTypes
  <2>3. Good(Chunk(c, s))
    BY <2>1, <2>2 DEF Chunk
  <2>4. Contents(Chunk(c, s)) \in Seq(Bytes)
        /\ Len(Contents(Chunk(c, s))) = Chunk(c, s).length
    BY <2>3, ContentsSeq
  <2>5. Chunk(c, s).length \in Nat
    BY <2>3, GoodParts
  <2>6. QED
    BY <1>2, <2>2, <2>3, <2>4, <2>5 DEF Pending, Length
<1>3. QED
  BY <1>1, <1>2

LEMMA NextBuffer ==
    ASSUME NEW c \in Conns, NEW s \in Sides
    PROVE  /\ Chunk(c, s)' = pool'.chunk[buf'[c][s]]
           /\ buf'[c][s] = nullptr => Pending(c, s)' = <<>>
           /\ buf'[c][s] # nullptr =>
                 Pending(c, s)' = Contents(pool'.chunk[buf'[c][s]])
  BY DEF Chunk, Pending, Contents

LEMMA NextStream ==
    ASSUME NEW c \in Conns, dropped'[c] \subseteq 1..got'[c],
           pc'[c] \notin {"send", "move_out", "append"} => msg'[c] = <<>>,
           pc'[c] \notin {"close", "close_out", "closed"} =>
              Ordered(Stream(c)', got'[c], dropped'[c])
    PROVE  StreamOk(c)'
  BY DEF StreamOk, Ordered

LEMMA StreamWas ==
    ASSUME NEW c \in Conns, UNCHANGED <<pool, buf, msg, out>>
    PROVE  Stream(c)' = Stream(c)
<1>1. "in" \in Sides /\ "out" \in Sides
  BY DEF Sides
<1>2. \A s \in Sides : Pending(c, s)' = Pending(c, s)
  BY DEF Pending, Chunk, Contents
<1>3. Pending(c, "in")' = Pending(c, "in") /\ Pending(c, "out")' = Pending(c, "out")
  BY <1>1, <1>2
<1>4. QED
  BY <1>3 DEF Stream

-----------------------------------------------------------------------------
(* One lemma for each action.                                              *)
LEMMA ClientSendInv ==
    ASSUME Inv, NEW c \in Conns, client_send(c)
    PROVE  Inv'
<1>1. /\ MemOk(pool, buf, new_buf) /\ ConnTypes /\ ConnInv(c) /\ StreamOk(c)
      /\ "in" \in Sides
  BY DEF Inv, Sides
<1>2. /\ UNCHANGED <<pool, buf, new_buf, exited, pc, need_read, msg, got, eof, out, dropped>>
      /\ sent[c] < MaxBytes /\ sent' = [sent EXCEPT ![c] = @ + 1]
  BY DEF client_send, mem, conn
<1>3. ApartStep(c, "in") /\ MemOk(pool', buf', new_buf')
  BY <1>1, <1>2, SameMem
<1>4. SameOthers(c)
  BY <1>1, <1>2 DEF SameOthers, ConnTypes
<1>5. sent'[c] = sent[c] + 1 /\ sent' \in [Conns -> 0..MaxBytes]
  BY <1>1, <1>2, BufAssumption DEF ConnTypes
<1>6. ConnTypes'
  BY <1>1, <1>2, <1>5 DEF ConnTypes
<1>7. ConnInv(c)'
  <2>1. got[c] \in Nat /\ need_read[c] \in Nat /\ sent[c] \in Nat
    BY <1>1 DEF ConnTypes
  <2>2. /\ got'[c] <= sent'[c]
        /\ got[c] + need_read[c] <= sent[c] => got'[c] + need_read'[c] <= sent'[c]
    BY <1>1, <1>2, <1>5, <2>1 DEF ConnInv
  <2>3. QED
    BY <1>1, <1>2, <2>2 DEF ConnInv, Chunk
<1>8. Stream(c)' = Stream(c)
  BY <1>2, StreamWas
<1>9. StreamOk(c)'
  BY <1>1, <1>2, <1>8, NextStream DEF StreamOk
<1>10. QED
  BY <1>1, <1>3, <1>4, <1>6, <1>7, <1>9, Conclude

(* A step that moves the connection's thread and touches little else.      *)
LEMMA QuietInv ==
    ASSUME Inv, NEW c \in Conns, NEW to,
           UNCHANGED <<pool, buf, new_buf, msg, sent, got, out, dropped>>,
           need_read' \in [Conns -> 0..MaxBytes],
           \A d \in Conns : d # c \/ pc[d] # "idle" => need_read'[d] = need_read[d],
           eof' \subseteq Conns, exited' \in BOOLEAN,
           pc' = [pc EXCEPT ![c] = to],
           \/ to = pc[c]
           \/ to = "close" /\ pc[c] \in {"idle", "read"}
    PROVE  Inv'
<1>1. /\ MemOk(pool, buf, new_buf) /\ ConnTypes /\ ConnInv(c) /\ StreamOk(c)
      /\ "in" \in Sides
  BY DEF Inv, Sides
<1>2. ApartStep(c, "in") /\ MemOk(pool', buf', new_buf')
  BY <1>1, SameMem
<1>3. pc'[c] = to /\ \A d \in Conns : d # c => pc'[d] = pc[d]
  BY <1>1 DEF ConnTypes
<1>4. SameOthers(c)
  BY <1>3 DEF SameOthers
<1>5. ConnTypes'
  BY <1>1, <1>3 DEF ConnTypes
<1>6. ConnInv(c)'
  BY <1>1, <1>3 DEF ConnInv, Chunk
<1>7. Stream(c)' = Stream(c)
  BY StreamWas
<1>8. StreamOk(c)'
  BY <1>1, <1>3, <1>7, NextStream DEF StreamOk
<1>9. QED
  BY <1>1, <1>2, <1>4, <1>5, <1>6, <1>8, Conclude

LEMMA ClientCloseInv ==
    ASSUME Inv, NEW c \in Conns, client_close(c)
    PROVE  Inv'
<1>1. ConnTypes
  BY DEF Inv
<1>2. /\ UNCHANGED <<pool, buf, new_buf, need_read, msg, sent, got, out, dropped>>
      /\ exited' = exited /\ pc' = pc /\ eof' = eof \cup {c}
  BY DEF client_close, mem, conn
<1>3. /\ eof' \subseteq Conns /\ exited' \in BOOLEAN
      /\ pc' = [pc EXCEPT ![c] = pc[c]] /\ need_read' \in [Conns -> 0..MaxBytes]
  BY <1>1, <1>2 DEF ConnTypes
<1>4. QED
  BY <1>2, <1>3, QuietInv

LEMMA ReadEofInv ==
    ASSUME Inv, NEW c \in Conns, read_eof(c)
    PROVE  Inv'
<1>1. ConnTypes
  BY DEF Inv
<1>2. /\ UNCHANGED <<pool, buf, new_buf, need_read, msg, sent, got, out, dropped>>
      /\ exited' = exited /\ eof' = eof
      /\ pc[c] = "read" /\ pc' = [pc EXCEPT ![c] = "close"]
  BY DEF read_eof, Goto, mem, sock
<1>3. /\ eof' \subseteq Conns /\ exited' \in BOOLEAN
      /\ need_read' \in [Conns -> 0..MaxBytes]
  BY <1>1, <1>2 DEF ConnTypes
<1>4. QED
  BY <1>2, <1>3, QuietInv

LEMMA ReadFailsInv ==
    ASSUME Inv, NEW c \in Conns, read_fails(c)
    PROVE  Inv'
<1>1. ConnTypes
  BY DEF Inv
<1>2. /\ UNCHANGED <<pool, buf, new_buf, need_read, msg, sent, got, out, dropped>>
      /\ exited' = exited /\ eof' = eof
      /\ pc[c] \in {"idle", "read"} /\ pc' = [pc EXCEPT ![c] = "close"]
  BY DEF read_fails, Goto, mem, sock
<1>3. /\ eof' \subseteq Conns /\ exited' \in BOOLEAN
      /\ need_read' \in [Conns -> 0..MaxBytes]
  BY <1>1, <1>2 DEF ConnTypes
<1>4. QED
  BY <1>2, <1>3, QuietInv

LEMMA WriteFailsInv ==
    ASSUME Inv, NEW c \in Conns, write_fails(c)
    PROVE  Inv'
<1>1. ConnTypes
  BY DEF Inv
<1>2. /\ UNCHANGED <<pool, buf, new_buf, need_read, msg, sent, got, out, dropped>>
      /\ exited' = exited /\ eof' = eof
      /\ pc[c] = "idle" /\ pc' = [pc EXCEPT ![c] = "close"]
  BY DEF write_fails, Goto, mem, sock
<1>3. /\ eof' \subseteq Conns /\ exited' \in BOOLEAN
      /\ need_read' \in [Conns -> 0..MaxBytes]
  BY <1>1, <1>2 DEF ConnTypes
<1>4. QED
  BY <1>2, <1>3, QuietInv

(* Room for n more bytes has been made, in the buffer or in a new chunk.   *)
RoomMade(c, s, n, from, via, to) ==
    /\ ApartStep(c, s) /\ MemOk(pool', buf', new_buf')
    /\ Pending(c, s)' = Pending(c, s) /\ buf'[c][s] # nullptr
    /\ exited' = exited /\ pc[c] = from
    /\ \/ /\ pc' = [pc EXCEPT ![c] = to] /\ new_buf'[c] = nullptr
          /\ Chunk(c, s)'.length + n <= Chunk(c, s)'.capacity
       \/ /\ pc' = [pc EXCEPT ![c] = via] /\ new_buf'[c] # nullptr
          /\ Chunk(c, s)'.length + n <= pool'.chunk[new_buf'[c]].capacity

(* room_enough and room_alloc make room.                                   *)
LEMMA RoomEnough ==
    ASSUME MemOk(pool, buf, new_buf), NEW c \in Conns, NEW s \in Sides,
           new_buf[c] = nullptr, NEW n \in Nat, NEW from, NEW via, NEW to,
           room_enough(c, s, n, from, to)
    PROVE  RoomMade(c, s, n, from, via, to)
<1>1. /\ UNCHANGED <<pool, buf, new_buf, exited>>
      /\ pc[c] = from /\ pc' = [pc EXCEPT ![c] = to]
      /\ buf[c][s] # nullptr /\ Chunk(c, s).capacity - Chunk(c, s).length >= n
  BY DEF room_enough, HasRoom, Goto, mem
<1>2. ApartStep(c, s) /\ MemOk(pool', buf', new_buf')
  BY <1>1, SameMem
<1>3. Chunk(c, s)' = Chunk(c, s) /\ Pending(c, s)' = Pending(c, s)
  BY <1>1 DEF Chunk, Pending, Contents
<1>4. Chunk(c, s).capacity \in Nat /\ Chunk(c, s).length \in Nat
  BY <1>1, BufferIs, GoodParts
<1>5. Chunk(c, s)'.length + n <= Chunk(c, s)'.capacity
  BY <1>1, <1>3, <1>4
<1>6. QED
  BY <1>1, <1>2, <1>3, <1>5 DEF RoomMade

LEMMA RoomAlloc ==
    ASSUME MemOk(pool, buf, new_buf), NEW c \in Conns, NEW s \in Sides,
           new_buf[c] = nullptr, NEW n \in Nat, NEW from, NEW via, NEW to,
           room_alloc(c, s, n, from, via, to)
    PROVE  RoomMade(c, s, n, from, via, to)
<1> DEFINE len == Needed(c, s, n)
           k == AllocId(pool, len)
<1>1. len \in Nat /\ len = n + Length(c, s)
  BY BufferIs DEF Needed
<1>2. /\ Fitting(len) # {} /\ ~MustExit(pool, len)
      /\ pool' = AfterAlloc(pool, len) /\ exited' = exited /\ pc[c] = from
      /\ buf[c][s] = nullptr =>
           /\ buf' = SetBuf(buf, c, s, k) /\ new_buf' = new_buf
           /\ pc' = [pc EXCEPT ![c] = to]
      /\ buf[c][s] # nullptr =>
           /\ new_buf' = Upd(new_buf, c, k) /\ buf' = buf
           /\ pc' = [pc EXCEPT ![c] = via]
  BY DEF room_alloc, Goto, SetBuf, Upd
<1> HIDE DEF len
<1>3. CASE buf[c][s] = nullptr
  <2>1. /\ k = AllocId(pool, len) /\ new_buf' = new_buf
        /\ buf' = SetBuf(buf, c, s, k)
    BY <1>2, <1>3
  <2> HIDE DEF k
  <2>2. /\ MemOk(pool', buf', new_buf)
        /\ Apart(pool, pool', buf, buf', new_buf, new_buf, c, s)
        /\ buf'[c][s] = k /\ k # nullptr
        /\ pool'.chunk[k].capacity >= len /\ pool'.chunk[k].length = 0
    BY <1>1, <1>2, <1>3, <2>1, MemAllocBuf
  <2>3. MemOk(pool', buf', new_buf') /\ ApartStep(c, s)
    BY <2>1, <2>2 DEF ApartStep
  <2>4. Chunk(c, s)' = pool'.chunk[k] /\ Pending(c, s)' = Contents(pool'.chunk[k])
    BY <2>2, NextBuffer
  <2>5. Contents(pool'.chunk[k]) = <<>>
    BY <2>2 DEF Contents
  <2>6. Pending(c, s) = <<>> /\ Length(c, s) = 0
    BY <1>3 DEF Pending, Length
  <2>7. k \in ChunkIds
    BY <2>2, <2>3 DEF MemOk, SlotTypes
  <2>8. pool'.chunk[k].capacity \in Nat
    BY <2>3, <2>7, PInvGood, GoodParts DEF MemOk
  <2>9. Chunk(c, s)'.length + n <= Chunk(c, s)'.capacity
    BY <1>1, <2>2, <2>4, <2>6, <2>8
  <2>10. QED
    BY <1>2, <1>3, <2>1, <2>2, <2>3, <2>4, <2>5, <2>6, <2>9 DEF RoomMade
<1>4. CASE buf[c][s] # nullptr
  <2>1. /\ k = AllocId(pool, len) /\ buf' = buf
        /\ new_buf' = Upd(new_buf, c, k)
    BY <1>2, <1>4
  <2> HIDE DEF k
  <2>2. /\ MemOk(pool', buf, new_buf')
        /\ Apart(pool, pool', buf, buf, new_buf, new_buf', c, s)
        /\ new_buf'[c] = k /\ k # nullptr
        /\ pool'.chunk[k].capacity >= len
        /\ buf[c][s] # 0 => pool'.chunk[buf[c][s]] = pool.chunk[buf[c][s]]
    BY <1>1, <1>2, <2>1, MemAllocNew
  <2>3. MemOk(pool', buf', new_buf') /\ ApartStep(c, s)
    BY <2>1, <2>2 DEF ApartStep
  <2>4. pool'.chunk[buf[c][s]] = Chunk(c, s)
    BY <1>4, <2>2 DEF nullptr, Chunk
  <2>5. Chunk(c, s)' = Chunk(c, s) /\ Pending(c, s)' = Contents(Chunk(c, s))
    BY <1>4, <2>1, <2>4, NextBuffer
  <2>6. /\ Pending(c, s) = Contents(Chunk(c, s))
        /\ Length(c, s) = Chunk(c, s).length /\ Length(c, s) \in Nat
    BY <1>4, BufferIs
  <2>7. k \in ChunkIds
    BY <2>2, <2>3 DEF MemOk, SlotTypes
  <2>8. pool'.chunk[k].capacity \in Nat
    BY <2>3, <2>7, PInvGood, GoodParts DEF MemOk
  <2>9. Chunk(c, s)'.length + n <= pool'.chunk[new_buf'[c]].capacity
    BY <1>1, <2>2, <2>5, <2>6, <2>8
  <2>10. QED
    BY <1>2, <1>4, <2>1, <2>2, <2>3, <2>5, <2>6, <2>9 DEF RoomMade
<1>5. QED
  BY <1>3, <1>4

(* read_from_fd, up to the call of read.                                   *)
LEMMA ReadInv ==
    ASSUME Inv, NEW c \in Conns, read_from_fd(c)
    PROVE  Inv'
<1> DEFINE n == sent[c] - got[c]
<1>1. /\ MemOk(pool, buf, new_buf) /\ ConnTypes /\ ConnInv(c) /\ StreamOk(c)
      /\ "in" \in Sides /\ "out" \in Sides
  BY DEF Inv, Sides
<1>2. /\ need_read' = [need_read EXCEPT ![c] = n]
      /\ UNCHANGED <<msg, sent, got, eof, out, dropped>>
      /\ \/ room_enough(c, "in", n, "idle", "read")
         \/ room_alloc(c, "in", n, "idle", "move_in", "read")
         \/ room_exit(c, "in", n, "idle")
         \/ NoFit(c, "in", n) /\ Goto(c, "idle", "close") /\ UNCHANGED mem
  BY DEF read_from_fd, sock
<1>3. /\ n \in 0..MaxBytes /\ n \in Nat /\ got[c] + n = sent[c]
      /\ got[c] \in Nat /\ sent[c] \in Nat
  BY <1>1, BufAssumption DEF ConnTypes, ConnInv
<1> HIDE DEF n
<1>4. pc[c] = "idle"
  BY <1>2 DEF room_enough, room_alloc, room_exit, Goto
<1>5. new_buf[c] = nullptr
  BY <1>1, <1>4 DEF ConnInv
<1>6. /\ need_read' \in [Conns -> 0..MaxBytes] /\ need_read'[c] = n
      /\ \A d \in Conns : d # c => need_read'[d] = need_read[d]
  BY <1>1, <1>2, <1>3 DEF ConnTypes
<1>7. CASE RoomMade(c, "in", n, "idle", "move_in", "read")
  <2>1. /\ ApartStep(c, "in") /\ MemOk(pool', buf', new_buf')
        /\ Pending(c, "in")' = Pending(c, "in") /\ buf'[c]["in"] # nullptr
        /\ exited' = exited
    BY <1>7 DEF RoomMade
  <2>2. PICK to \in {"read", "move_in"} :
          /\ pc' = [pc EXCEPT ![c] = to]
          /\ to = "read" => /\ new_buf'[c] = nullptr
                            /\ Chunk(c, "in")'.length + n <= Chunk(c, "in")'.capacity
          /\ to = "move_in" =>
                /\ new_buf'[c] # nullptr
                /\ Chunk(c, "in")'.length + n <= pool'.chunk[new_buf'[c]].capacity
    BY <1>7 DEF RoomMade
  <2>3. pc'[c] = to /\ \A d \in Conns : d # c => pc'[d] = pc[d]
    BY <1>1, <2>2 DEF ConnTypes
  <2>4. SameOthers(c)
    BY <1>2, <1>6, <2>3 DEF SameOthers
  <2>5. ConnTypes'
    BY <1>1, <1>2, <1>6, <2>1, <2>2 DEF ConnTypes
  <2>6. ConnInv(c)'
    BY <1>2, <1>3, <1>6, <2>1, <2>2, <2>3 DEF ConnInv
  <2>7. Pending(c, "out")' = Pending(c, "out")
    BY <1>1, <2>1, BufferKept
  <2>8. Stream(c)' = Stream(c)
    BY <1>2, <2>1, <2>7 DEF Stream
  <2>9. StreamOk(c)'
    BY <1>1, <1>2, <1>4, <2>3, <2>8, NextStream DEF StreamOk
  <2>10. QED
    BY <1>1, <2>1, <2>4, <2>5, <2>6, <2>9, Conclude
<1>8. CASE room_enough(c, "in", n, "idle", "read")
  BY <1>1, <1>3, <1>5, <1>7, <1>8, RoomEnough
<1>9. CASE room_alloc(c, "in", n, "idle", "move_in", "read")
  BY <1>1, <1>3, <1>5, <1>7, <1>9, RoomAlloc
<1>10. CASE room_exit(c, "in", n, "idle")
  <2>1. /\ UNCHANGED <<pool, buf, new_buf>> /\ exited' = TRUE
        /\ pc' = [pc EXCEPT ![c] = "idle"]
    BY <1>10 DEF room_exit, Goto
  <2>2. eof' \subseteq Conns /\ exited' \in BOOLEAN
    BY <1>1, <1>2, <2>1 DEF ConnTypes
  <2>3. QED
    BY <1>2, <1>4, <1>6, <2>1, <2>2, QuietInv
<1>11. CASE Goto(c, "idle", "close") /\ UNCHANGED mem
  <2>1. /\ UNCHANGED <<pool, buf, new_buf>> /\ exited' = exited
        /\ pc' = [pc EXCEPT ![c] = "close"]
    BY <1>11 DEF mem, Goto
  <2>2. eof' \subseteq Conns /\ exited' \in BOOLEAN
    BY <1>1, <1>2, <2>1 DEF ConnTypes
  <2>3. QED
    BY <1>2, <1>4, <1>6, <2>1, <2>2, QuietInv
<1>12. QED
  BY <1>2, <1>8, <1>9, <1>10, <1>11

(* write2buf, up to the copy of the bytes: made room, ended or dropped.    *)
LEMMA WriteInv ==
    ASSUME Inv, NEW c \in Conns, write2buf(c)
    PROVE  Inv'
<1> DEFINE n == Len(msg[c])
           lost == NoFit(c, "out", n) /\ Goto(c, "send", "idle")
                     /\ msg' = [msg EXCEPT ![c] = <<>>]
                     /\ dropped' = [dropped EXCEPT ![c] = @ \cup {msg[c][i] : i \in 1..n}]
                     /\ UNCHANGED mem
<1>1. /\ MemOk(pool, buf, new_buf) /\ ConnTypes /\ ConnInv(c) /\ StreamOk(c)
      /\ "in" \in Sides /\ "out" \in Sides
  BY DEF Inv, Sides
<1>2. /\ UNCHANGED <<need_read, sent, got, eof, out>>
      /\ \/ /\ \/ room_enough(c, "out", n, "send", "append")
               \/ room_alloc(c, "out", n, "send", "move_out", "append")
               \/ room_exit(c, "out", n, "send")
            /\ UNCHANGED <<msg, dropped>>
         \/ lost
  BY DEF write2buf, sock
<1>3. msg[c] \in Seq(Bytes) /\ n \in Nat
  BY <1>1 DEF ConnTypes
<1>4. pc[c] = "send"
  BY <1>2 DEF room_enough, room_alloc, room_exit, Goto
<1>5. new_buf[c] = nullptr
  BY <1>1, <1>4 DEF ConnInv
<1>6. CASE RoomMade(c, "out", n, "send", "move_out", "append") /\ UNCHANGED <<msg, dropped>>
  <2>1. /\ ApartStep(c, "out") /\ MemOk(pool', buf', new_buf')
        /\ Pending(c, "out")' = Pending(c, "out") /\ buf'[c]["out"] # nullptr
        /\ exited' = exited
    BY <1>6 DEF RoomMade
  <2>2. PICK to \in {"append", "move_out"} :
          /\ pc' = [pc EXCEPT ![c] = to]
          /\ to = "append" => /\ new_buf'[c] = nullptr
                              /\ Chunk(c, "out")'.length + n <= Chunk(c, "out")'.capacity
          /\ to = "move_out" =>
                /\ new_buf'[c] # nullptr
                /\ Chunk(c, "out")'.length + n <= pool'.chunk[new_buf'[c]].capacity
    BY <1>6 DEF RoomMade
  <2>3. pc'[c] = to /\ \A d \in Conns : d # c => pc'[d] = pc[d]
    BY <1>1, <2>2 DEF ConnTypes
  <2>4. SameOthers(c)
    BY <1>2, <1>6, <2>3 DEF SameOthers
  <2>5. ConnTypes'
    BY <1>1, <1>2, <1>6, <2>1, <2>2 DEF ConnTypes
  <2>6. ConnInv(c)'
    BY <1>1, <1>2, <1>6, <2>1, <2>2, <2>3 DEF ConnInv
  <2>7. Pending(c, "in")' = Pending(c, "in")
    BY <1>1, <2>1, BufferKept
  <2>8. Stream(c)' = Stream(c)
    BY <1>2, <1>6, <2>1, <2>7 DEF Stream
  <2>9. StreamOk(c)'
    BY <1>1, <1>2, <1>4, <1>6, <2>3, <2>8, NextStream DEF StreamOk
  <2>10. QED
    BY <1>1, <2>1, <2>4, <2>5, <2>6, <2>9, Conclude
<1>7. CASE room_enough(c, "out", n, "send", "append") /\ UNCHANGED <<msg, dropped>>
  BY <1>1, <1>3, <1>5, <1>6, <1>7, RoomEnough
<1>8. CASE room_alloc(c, "out", n, "send", "move_out", "append") /\ UNCHANGED <<msg, dropped>>
  BY <1>1, <1>3, <1>5, <1>6, <1>8, RoomAlloc
<1>9. CASE room_exit(c, "out", n, "send") /\ UNCHANGED <<msg, dropped>>
  <2>1. /\ UNCHANGED <<pool, buf, new_buf>> /\ exited' = TRUE
        /\ pc' = [pc EXCEPT ![c] = "send"]
    BY <1>9 DEF room_exit, Goto
  <2>2. /\ eof' \subseteq Conns /\ exited' \in BOOLEAN
        /\ need_read' \in [Conns -> 0..MaxBytes]
    BY <1>1, <1>2, <2>1 DEF ConnTypes
  <2>3. QED
    BY <1>2, <1>4, <1>9, <2>1, <2>2, QuietInv
<1>10. CASE lost
  <2> DEFINE M == {msg[c][i] : i \in 1..n}
             w == Pending(c, "out")
             r == Pending(c, "in")
  <2>1. /\ UNCHANGED <<pool, buf, new_buf>> /\ exited' = exited
        /\ pc' = [pc EXCEPT ![c] = "idle"] /\ msg' = [msg EXCEPT ![c] = <<>>]
        /\ dropped' = [dropped EXCEPT ![c] = @ \cup M]
    BY <1>10 DEF mem, Goto
  <2>2. M \subseteq Bytes
    BY <1>3
  <2> HIDE DEF M, n
  <2>3. /\ pc'[c] = "idle" /\ msg'[c] = <<>> /\ dropped'[c] = dropped[c] \cup M
        /\ \A d \in Conns : d # c => /\ pc'[d] = pc[d] /\ msg'[d] = msg[d]
                                     /\ dropped'[d] = dropped[d]
    BY <1>1, <2>1 DEF ConnTypes
  <2>4. ApartStep(c, "in") /\ MemOk(pool', buf', new_buf')
    BY <1>1, <2>1, SameMem
  <2>5. SameOthers(c)
    BY <1>2, <2>3 DEF SameOthers
  <2>6. ConnTypes'
    <3>1. <<>> \in Seq(Bytes) /\ dropped[c] \cup M \in SUBSET Bytes
      BY <1>1, <2>2 DEF ConnTypes
    <3>2. QED
      BY <1>1, <1>2, <2>1, <3>1 DEF ConnTypes
  <2>7. ConnInv(c)'
    BY <1>1, <1>2, <1>5, <2>1, <2>3 DEF ConnInv
  <2>8. w \in Seq(Bytes) /\ r \in Seq(Bytes) /\ out[c] \in Seq(Bytes)
    BY <1>1, BufferIs DEF ConnTypes
  <2>9. Pending(c, "out")' = w /\ Pending(c, "in")' = r
    BY <2>1 DEF Pending, Chunk, Contents
  <2>10. Stream(c)' = out[c] \o w \o <<>> \o r
    BY <1>2, <2>3, <2>9 DEF Stream
  <2>11. Ordered(((out[c] \o w) \o msg[c]) \o r, got[c], dropped[c])
    BY <1>1, <1>4 DEF StreamOk, Stream
  <2> HIDE DEF w, r
  <2>12. Ordered((out[c] \o w) \o r, got[c], dropped[c] \cup M)
    <3>1. Seq(Bytes) \subseteq Seq(Nat)
      BY BufAssumption DEF Bytes
    <3>2. /\ out[c] \o w \in Seq(Nat) /\ msg[c] \in Seq(Nat) /\ r \in Seq(Nat)
          /\ got[c] \in Nat
      <4>1. out[c] \o w \in Seq(Bytes)
        BY <2>8, ConcatProperties
      <4>2. got[c] \in Nat
        BY <1>1 DEF ConnTypes
      <4>3. QED
        BY <1>3, <2>8, <3>1, <4>1, <4>2
    <3>3. QED
      BY <2>11, <3>2, OrderedLess DEF M, n
  <2>13. (out[c] \o w) \o <<>> = out[c] \o w
    <3>1. out[c] \o w \in Seq(Bytes)
      BY <2>8, ConcatProperties
    <3>2. QED
      BY <3>1, ConcatEmptySeq
  <2>14. Ordered(Stream(c)', got'[c], dropped'[c])
    BY <1>2, <2>3, <2>10, <2>12, <2>13
  <2>15. dropped'[c] \subseteq 1..got'[c]
    <3>1. \A i \in DOMAIN Stream(c) : Stream(c)[i] \in 1..got[c]
      BY <1>1, <1>4 DEF StreamOk, Ordered
    <3>2. ASSUME NEW i \in 1..n
          PROVE  msg[c][i] \in 1..got[c]
      <4> DEFINE u == out[c] \o w
                 v == u \o msg[c]
      <4>1. u \in Seq(Bytes)
        BY <2>8, ConcatProperties
      <4> HIDE DEF u
      <4>2. /\ v \in Seq(Bytes) /\ Len(v) = Len(u) + n
            /\ v[Len(u) + i] = msg[c][i]
        BY <1>3, <4>1, ConcatProperties DEF n
      <4> HIDE DEF v
      <4>3. /\ Len(v \o r) = Len(v) + Len(r)
            /\ \A j \in 1..Len(v) : (v \o r)[j] = v[j]
            /\ v \o r \in Seq(Bytes)
        <5>1. v \in Seq(Bytes) /\ r \in Seq(Bytes)
          BY <2>8, <4>2
        <5>2. v \o r \in Seq(Bytes) /\ Len(v \o r) = Len(v) + Len(r)
          BY <5>1, ConcatProperties
        <5>3. \A j \in 1..Len(v) : (v \o r)[j] = v[j]
          BY <5>1
        <5>4. QED
          BY <5>2, <5>3
      <4>4. Stream(c) = v \o r
        BY DEF Stream, v, u, w, r
      <4>5. Len(u) \in Nat /\ Len(r) \in Nat
        BY <2>8, <4>1
      <4>6. n \in Nat
        BY <1>3 DEF n
      <4>7. Len(u) + i \in 1..Len(v) /\ Len(u) + i \in 1..Len(v \o r)
        BY <4>2, <4>3, <4>5, <4>6
      <4>8. Len(u) + i \in DOMAIN Stream(c) /\ Stream(c)[Len(u) + i] = msg[c][i]
        BY <4>2, <4>3, <4>4, <4>7
      <4>9. QED
        BY <3>1, <4>8
    <3>3. M \subseteq 1..got[c]
      BY <3>2 DEF M
    <3>4. QED
      BY <1>1, <1>2, <2>3, <3>3 DEF StreamOk
  <2>16. StreamOk(c)'
    BY <2>3, <2>14, <2>15, NextStream
  <2>17. QED
    BY <1>1, <2>4, <2>5, <2>6, <2>7, <2>16, Conclude
<1>11. QED
  BY <1>2, <1>7, <1>8, <1>9, <1>10

(* The second half of a move to a larger chunk, for both buffers.          *)
LEMMA MoveInv ==
    ASSUME Inv, NEW c \in Conns, NEW s \in Sides, NEW from, NEW to,
           \/ s = "in" /\ from = "move_in" /\ to = "read"
           \/ s = "out" /\ from = "move_out" /\ to = "append",
           move(c, s, from, to)
    PROVE  Inv'
<1> DEFINE old == buf[c][s]
           k == new_buf[c]
           n == IF s = "in" THEN need_read[c] ELSE Len(msg[c])
<1>1. /\ MemOk(pool, buf, new_buf) /\ ConnTypes /\ ConnInv(c) /\ StreamOk(c)
      /\ "in" \in Sides /\ "out" \in Sides
  BY DEF Inv, Sides
<1>2. /\ pool' = retrieve(WithChunk(pool, k, ChunkCopy(pool.chunk[k], Chunk(c, s))), old)
      /\ buf' = SetBuf(buf, c, s, k) /\ new_buf' = Upd(new_buf, c, nullptr)
      /\ pc[c] = from /\ pc' = [pc EXCEPT ![c] = to]
      /\ UNCHANGED <<need_read, msg, sent, got, eof, out, dropped, exited>>
  BY DEF move, Goto, sock, SetBuf, Upd
<1>3. /\ old # nullptr /\ k # nullptr
      /\ Chunk(c, s).length + n <= pool.chunk[k].capacity
      /\ s = "in" => got[c] + need_read[c] <= sent[c]
  BY <1>1, <1>2 DEF ConnInv
<1>4. /\ n \in Nat /\ Chunk(c, s).length \in Nat /\ pool.chunk[k].capacity \in Nat
      /\ Pending(c, s) = Contents(Chunk(c, s))
  <2>1. n \in Nat
    BY <1>1 DEF ConnTypes
  <2>2. k \in ChunkIds
    BY <1>1, <1>3 DEF MemOk, SlotTypes
  <2>3. Good(pool.chunk[k]) /\ Good(Chunk(c, s))
    BY <1>1, <1>3, <2>2, BufferIs, PInvGood DEF MemOk
  <2>4. QED
    BY <1>1, <1>3, <2>1, <2>3, BufferIs, GoodParts
<1>5. MovedTo(pool, pool', old, k)
  <2>1. Chunk(c, s).length <= pool.chunk[k].capacity
    BY <1>3, <1>4
  <2>2. QED
    BY <1>2, <2>1 DEF MovedTo, Chunk
<1>6. /\ MemOk(pool', buf', new_buf')
      /\ Apart(pool, pool', buf, buf', new_buf, new_buf', c, s)
      /\ buf'[c][s] = k /\ new_buf'[c] = nullptr
      /\ pool'.chunk[k].capacity = pool.chunk[k].capacity
      /\ pool'.chunk[k].length = pool.chunk[old].length
      /\ Contents(pool'.chunk[k]) = Contents(pool.chunk[old])
  BY <1>1, <1>2, <1>3, <1>5, MemMove
<1>7. /\ ApartStep(c, s) /\ Chunk(c, s)' = pool'.chunk[k]
      /\ Chunk(c, s)'.length + n <= Chunk(c, s)'.capacity
      /\ Pending(c, s)' = Pending(c, s)
  <2>1. pool.chunk[old] = Chunk(c, s)
    BY DEF Chunk
  <2>2. Chunk(c, s)' = pool'.chunk[k] /\ Pending(c, s)' = Contents(pool'.chunk[k])
    BY <1>3, <1>6, NextBuffer
  <2>3. Chunk(c, s)'.length + n <= Chunk(c, s)'.capacity
    BY <1>3, <1>6, <2>1, <2>2
  <2>4. QED
    BY <1>4, <1>6, <2>1, <2>2, <2>3 DEF ApartStep
<1>8. pc'[c] = to /\ \A d \in Conns : d # c => pc'[d] = pc[d]
  BY <1>1, <1>2 DEF ConnTypes
<1>9. SameOthers(c)
  BY <1>2, <1>8 DEF SameOthers
<1>10. ConnTypes'
  BY <1>1, <1>2 DEF ConnTypes
<1>11. ConnInv(c)'
  <2> HIDE DEF k, old
  <2>1. CASE s = "in"
    <3>1. /\ pc'[c] = "read" /\ buf'[c]["in"] # nullptr /\ new_buf'[c] = nullptr
          /\ Chunk(c, "in")'.length + need_read'[c] <= Chunk(c, "in")'.capacity
          /\ got'[c] + need_read'[c] <= sent'[c] /\ got'[c] <= sent'[c]
      BY <1>1, <1>2, <1>3, <1>6, <1>7, <1>8, <2>1 DEF ConnInv
    <3>2. QED
      BY <3>1 DEF ConnInv
  <2>2. CASE s = "out"
    <3>1. /\ pc'[c] = "append" /\ buf'[c]["out"] # nullptr /\ new_buf'[c] = nullptr
          /\ Chunk(c, "out")'.length + Len(msg'[c]) <= Chunk(c, "out")'.capacity
          /\ got'[c] <= sent'[c]
      BY <1>1, <1>2, <1>3, <1>6, <1>7, <1>8, <2>2 DEF ConnInv
    <3>2. QED
      BY <3>1 DEF ConnInv
  <2>3. QED
    BY <2>1, <2>2
<1>12. \A r \in Sides : Pending(c, r)' = Pending(c, r)
  BY <1>7, BufferKept
<1>13. Stream(c)' = Stream(c)
  <2>1. Pending(c, "in")' = Pending(c, "in") /\ Pending(c, "out")' = Pending(c, "out")
    BY <1>1, <1>12
  <2>2. QED
    BY <1>2, <2>1 DEF Stream
<1>14. StreamOk(c)'
  BY <1>1, <1>2, <1>8, <1>13, NextStream DEF StreamOk
<1>15. QED
  BY <1>1, <1>6, <1>7, <1>9, <1>10, <1>11, <1>14, Conclude

(* The bytes read are the next of the stream.                              *)
LEMMA ReadBytesInv ==
    ASSUME Inv, NEW c \in Conns, read_bytes(c)
    PROVE  Inv'
<1> DEFINE n == need_read[c]
           bs == [i \in 1..n |-> got[c] + i]
           old == Chunk(c, "in")
           new == PutBehind(old, bs)
<1>1. /\ MemOk(pool, buf, new_buf) /\ ConnTypes /\ ConnInv(c) /\ StreamOk(c)
      /\ "in" \in Sides /\ "out" \in Sides
  BY DEF Inv, Sides
<1>2. /\ pool' = WithChunk(pool, buf[c]["in"], new)
      /\ got' = [got EXCEPT ![c] = @ + n]
      /\ pc[c] = "read" /\ pc' = [pc EXCEPT ![c] = "message"]
      /\ UNCHANGED <<buf, new_buf, need_read, msg, sent, eof, out, dropped, exited>>
  BY DEF read_bytes, Goto
<1>3. /\ buf[c]["in"] # nullptr /\ old.length + n <= old.capacity
      /\ got[c] + n <= sent[c] /\ new_buf[c] = nullptr
  BY <1>1, <1>2 DEF ConnInv
<1>4. /\ Good(old) /\ old.length \in Nat /\ old.capacity \in Nat
      /\ Pending(c, "in") = Contents(old)
  BY <1>1, <1>3, BufferIs, GoodParts
<1>5. /\ n \in Nat /\ got[c] \in Nat /\ sent[c] \in Nat /\ sent[c] <= MaxBytes
      /\ got[c] + n \in 0..MaxBytes
  BY <1>1, <1>3, BufAssumption DEF ConnTypes
<1>6. bs \in Seq(Bytes) /\ Len(bs) = n
  BY <1>3, <1>5, BufAssumption DEF Bytes
<1>7. /\ Good(new) /\ new.capacity = old.capacity
      /\ Contents(new) = Contents(old) \o bs
  <2> HIDE DEF bs, old
  <2>1. Len(bs) <= old.capacity - old.length
    BY <1>3, <1>4, <1>5, <1>6
  <2>2. QED
    BY <1>4, <1>6, <2>1, PutFollows
<1> HIDE DEF bs, new
<1>8. /\ MemOk(pool', buf, new_buf)
      /\ Apart(pool, pool', buf, buf, new_buf, new_buf, c, "in")
      /\ pool'.chunk[buf[c]["in"]] = new
  <2>1. new.capacity = pool.chunk[buf[c]["in"]].capacity
    BY <1>7 DEF Chunk
  <2>2. QED
    BY <1>1, <1>2, <1>3, <1>7, <2>1, MemPut
<1>9. ApartStep(c, "in") /\ MemOk(pool', buf', new_buf')
  BY <1>2, <1>8 DEF ApartStep
<1>10. Pending(c, "in")' = Pending(c, "in") \o bs
  BY <1>1, <1>2, <1>3, <1>4, <1>7, <1>8, NextBuffer
<1>11. /\ pc'[c] = "message" /\ got'[c] = got[c] + n
       /\ \A d \in Conns : d # c => pc'[d] = pc[d] /\ got'[d] = got[d]
  BY <1>1, <1>2 DEF ConnTypes
<1>12. SameOthers(c)
  BY <1>2, <1>11 DEF SameOthers
<1>13. ConnTypes'
  BY <1>1, <1>2, <1>5 DEF ConnTypes
<1>14. ConnInv(c)'
  BY <1>2, <1>3, <1>11 DEF ConnInv
<1>15. Ordered(Stream(c)', got'[c], dropped'[c])
  <2> DEFINE u == out[c] \o Pending(c, "out") \o msg[c]
             i == Pending(c, "in")
  <2>1. Pending(c, "out")' = Pending(c, "out")
    BY <1>1, <1>9, BufferKept
  <2>2. Stream(c)' = u \o (i \o bs)
    BY <1>2, <1>10, <2>1 DEF Stream
  <2>3. /\ out[c] \in Seq(Bytes) /\ Pending(c, "out") \in Seq(Bytes)
        /\ msg[c] \in Seq(Bytes) /\ i \in Seq(Bytes)
    BY <1>1, BufferIs DEF ConnTypes
  <2>4. out[c] \o Pending(c, "out") \in Seq(Bytes)
    BY <2>3, ConcatProperties
  <2>5. u \in Seq(Bytes)
    BY <2>3, <2>4, ConcatProperties
  <2>6. Stream(c) = u \o i
    BY DEF Stream
  <2> HIDE DEF u, i
  <2>7. u \o (i \o bs) = (u \o i) \o bs
    <3>1. u \in Seq(Bytes) /\ i \in Seq(Bytes) /\ bs \in Seq(Bytes)
      BY <1>6, <2>3, <2>5
    <3>2. QED
      BY <3>1, StreamWrite
  <2>8. u \o i \in Seq(Bytes)
    BY <2>3, <2>5, ConcatProperties
  <2>9. Stream(c) \in Seq(Nat)
    <3>1. Seq(Bytes) \subseteq Seq(Nat)
      BY BufAssumption DEF Bytes
    <3>2. QED
      BY <2>6, <2>8, <3>1
  <2>10. /\ Ordered(Stream(c), got[c], dropped[c]) /\ dropped[c] \subseteq 1..got[c]
    BY <1>1, <1>2 DEF StreamOk
  <2>11. Stream(c)' = Stream(c) \o [j \in 1..n |-> got[c] + j]
    BY <2>2, <2>6, <2>7 DEF bs
  <2> HIDE DEF n
  <2>12. Ordered(Stream(c)', got[c] + n, dropped[c])
    BY <1>5, <2>9, <2>10, <2>11, OrderedMore
  <2>13. QED
    BY <1>2, <1>11, <2>12
<1>16. dropped'[c] \subseteq 1..got'[c]
  <2>1. dropped[c] \subseteq 1..got[c]
    BY <1>1 DEF StreamOk
  <2>2. 1..got[c] \subseteq 1..(got[c] + n)
    BY <1>5
  <2>3. QED
    BY <1>2, <1>11, <2>1, <2>2
<1>17. StreamOk(c)'
  <2>1. msg'[c] = <<>>
    BY <1>1, <1>2 DEF StreamOk
  <2>2. QED
    BY <1>15, <1>16, <2>1, NextStream
<1>18. QED
  BY <1>1, <1>9, <1>12, <1>13, <1>14, <1>17, Conclude

(* What the callback takes leaves the input buffer at its front.           *)
LEMMA MessageInv ==
    ASSUME Inv, NEW c \in Conns, NEW len, message(c, len)
    PROVE  Inv'
<1> DEFINE old == Chunk(c, "in")
           new == Adjust(ChunkPop(old, len))
           m == SubSeq(Contents(old), 1, len)
<1>1. /\ MemOk(pool, buf, new_buf) /\ ConnTypes /\ ConnInv(c) /\ StreamOk(c)
      /\ "in" \in Sides /\ "out" \in Sides
  BY DEF Inv, Sides
<1>2. /\ len \in 1..Length(c, "in") /\ msg' = [msg EXCEPT ![c] = m]
      /\ pc[c] = "message" /\ pc' = [pc EXCEPT ![c] = "send"]
      /\ UNCHANGED <<new_buf, need_read, sent, got, eof, out, dropped, exited>>
      /\ len = Length(c, "in") =>
            /\ pool' = retrieve(pool, buf[c]["in"])
            /\ buf' = SetBuf(buf, c, "in", nullptr)
      /\ len # Length(c, "in") =>
            pool' = WithChunk(pool, buf[c]["in"], new) /\ buf' = buf
  BY DEF message, Goto, sock, SetBuf
<1>3. buf[c]["in"] # nullptr
  BY <1>2 DEF Length
<1>4. /\ Good(old) /\ Length(c, "in") = old.length /\ old.length \in Nat
      /\ Pending(c, "in") = Contents(old)
      /\ Contents(old) \in Seq(Bytes) /\ Len(Contents(old)) = old.length
  BY <1>1, <1>3, BufferIs, ContentsSeq, GoodParts
<1>5. /\ Good(new) /\ new.capacity = old.capacity
      /\ m \in Seq(Bytes) /\ Contents(old) = m \o Contents(new)
      /\ Contents(new) \in Seq(Bytes)
  <2>1. len \in 1..old.length
    BY <1>2, <1>4
  <2> HIDE DEF old
  <2>2. /\ Good(new) /\ new.capacity = old.capacity
        /\ m \in Seq(Bytes) /\ Contents(old) = m \o Contents(new)
    BY <1>4, <2>1, PopAdjust
  <2> HIDE DEF new
  <2>3. Contents(new) \in Seq(Bytes)
    BY <2>2, ContentsSeq
  <2>4. QED
    BY <2>2, <2>3
<1>6. /\ pc'[c] = "send" /\ msg'[c] = m
      /\ \A d \in Conns : d # c => pc'[d] = pc[d] /\ msg'[d] = msg[d]
  BY <1>1, <1>2 DEF ConnTypes
<1> HIDE DEF new, m
<1>7. /\ ApartStep(c, "in") /\ MemOk(pool', buf', new_buf')
      /\ m \o Pending(c, "in")' = Pending(c, "in")
      /\ Pending(c, "in")' \in Seq(Bytes)
  <2>1. CASE len = Length(c, "in")
    <3>1. /\ MemOk(pool', buf', new_buf)
          /\ Apart(pool, pool', buf, buf', new_buf, new_buf, c, "in")
          /\ buf'[c]["in"] = nullptr
      BY <1>1, <1>2, <1>3, <2>1, MemGive
    <3>2. Pending(c, "in")' = <<>>
      BY <1>1, <3>1, NextBuffer
    <3>3. m = Contents(old)
      <4> DEFINE C == Contents(old)
      <4>1. C \in Seq(Bytes) /\ Len(C) = len
        BY <1>4, <2>1
      <4> HIDE DEF C
      <4>2. SubSeq(C, 1, Len(C)) = C
        BY <4>1
      <4>3. QED
        BY <4>1, <4>2 DEF m, C
    <3>4. m \o <<>> = m
      BY <1>5, ConcatEmptySeq
    <3>5. <<>> \in Seq(Bytes)
      OBVIOUS
    <3>6. m \o Pending(c, "in")' = Pending(c, "in")
      BY <1>4, <3>2, <3>3, <3>4
    <3>7. QED
      BY <1>2, <3>1, <3>2, <3>5, <3>6 DEF ApartStep
  <2>2. CASE len # Length(c, "in")
    <3>1. new.capacity = pool.chunk[buf[c]["in"]].capacity
      BY <1>5 DEF Chunk
    <3>2. /\ MemOk(pool', buf, new_buf)
          /\ Apart(pool, pool', buf, buf, new_buf, new_buf, c, "in")
          /\ pool'.chunk[buf[c]["in"]] = new
      BY <1>1, <1>2, <1>3, <1>5, <2>2, <3>1, MemPut
    <3>3. Pending(c, "in")' = Contents(new)
      BY <1>1, <1>2, <1>3, <2>2, <3>2, NextBuffer
    <3>4. QED
      BY <1>2, <1>4, <1>5, <2>2, <3>2, <3>3 DEF ApartStep
  <2>3. QED
    BY <2>1, <2>2
<1>8. SameOthers(c)
  BY <1>2, <1>6 DEF SameOthers
<1>9. ConnTypes'
  BY <1>1, <1>2, <1>5 DEF ConnTypes
<1>10. ConnInv(c)'
  BY <1>1, <1>2, <1>6 DEF ConnInv
<1>11. Stream(c)' = Stream(c)
  <2> DEFINE w == Pending(c, "out")
             i == Pending(c, "in")'
  <2>1. Pending(c, "out")' = w
    BY <1>1, <1>7, BufferKept
  <2>2. msg[c] = <<>>
    BY <1>1, <1>2 DEF StreamOk
  <2>3. Stream(c)' = out[c] \o w \o m \o i
    BY <1>2, <1>6, <2>1 DEF Stream
  <2>4. Stream(c) = out[c] \o w \o <<>> \o (m \o i)
    BY <1>7, <2>2 DEF Stream
  <2>5. out[c] \in Seq(Bytes) /\ w \in Seq(Bytes) /\ i \in Seq(Bytes)
    BY <1>1, <1>7, BufferIs DEF ConnTypes
  <2> HIDE DEF w, i
  <2>6. out[c] \o w \o <<>> \o (m \o i) = out[c] \o w \o m \o i
    <3> DEFINE o == out[c]
    <3>1. /\ o \in Seq(Bytes) /\ w \in Seq(Bytes) /\ m \in Seq(Bytes)
          /\ i \in Seq(Bytes)
      BY <1>5, <2>5
    <3> HIDE DEF o
    <3>2. o \o w \o <<>> \o (m \o i) = o \o w \o m \o i
      BY ONLY <3>1, StreamTake, SMTT(30)
    <3>3. QED
      BY <3>2 DEF o
  <2>7. QED
    BY <2>3, <2>4, <2>6
<1>12. StreamOk(c)'
  BY <1>1, <1>2, <1>6, <1>11, NextStream DEF StreamOk
<1>13. QED
  BY <1>1, <1>7, <1>8, <1>9, <1>10, <1>12, Conclude

(* What the callback sends goes to the end of the output buffer.           *)
LEMMA AppendInv ==
    ASSUME Inv, NEW c \in Conns, append(c)
    PROVE  Inv'
<1> DEFINE old == Chunk(c, "out")
           new == PutBehind(old, msg[c])
<1>1. /\ MemOk(pool, buf, new_buf) /\ ConnTypes /\ ConnInv(c) /\ StreamOk(c)
      /\ "in" \in Sides /\ "out" \in Sides
  BY DEF Inv, Sides
<1>2. /\ pool' = WithChunk(pool, buf[c]["out"], new)
      /\ msg' = [msg EXCEPT ![c] = <<>>]
      /\ pc[c] = "append" /\ pc' = [pc EXCEPT ![c] = "idle"]
      /\ UNCHANGED <<buf, new_buf, need_read, sent, got, eof, out, dropped, exited>>
  BY DEF append, Goto, sock
<1>3. /\ buf[c]["out"] # nullptr /\ old.length + Len(msg[c]) <= old.capacity
      /\ new_buf[c] = nullptr
  BY <1>1, <1>2 DEF ConnInv
<1>4. /\ Good(old) /\ old.length \in Nat /\ old.capacity \in Nat
      /\ Pending(c, "out") = Contents(old)
  BY <1>1, <1>3, BufferIs, GoodParts
<1>5. msg[c] \in Seq(Bytes) /\ Len(msg[c]) \in Nat
  BY <1>1 DEF ConnTypes
<1>6. /\ Good(new) /\ new.capacity = old.capacity
      /\ Contents(new) = Contents(old) \o msg[c]
  <2> HIDE DEF old
  <2>1. Len(msg[c]) <= old.capacity - old.length
    BY <1>3, <1>4, <1>5
  <2>2. QED
    BY <1>4, <1>5, <2>1, PutFollows
<1> HIDE DEF new
<1>7. /\ MemOk(pool', buf, new_buf)
      /\ Apart(pool, pool', buf, buf, new_buf, new_buf, c, "out")
      /\ pool'.chunk[buf[c]["out"]] = new
  <2>1. new.capacity = pool.chunk[buf[c]["out"]].capacity
    BY <1>6 DEF Chunk
  <2>2. QED
    BY <1>1, <1>2, <1>3, <1>6, <2>1, MemPut
<1>8. ApartStep(c, "out") /\ MemOk(pool', buf', new_buf')
  BY <1>2, <1>7 DEF ApartStep
<1>9. Pending(c, "out")' = Pending(c, "out") \o msg[c]
  BY <1>1, <1>2, <1>3, <1>4, <1>6, <1>7, NextBuffer
<1>10. /\ pc'[c] = "idle" /\ msg'[c] = <<>>
       /\ \A d \in Conns : d # c => pc'[d] = pc[d] /\ msg'[d] = msg[d]
  BY <1>1, <1>2 DEF ConnTypes
<1>11. SameOthers(c)
  BY <1>2, <1>10 DEF SameOthers
<1>12. ConnTypes'
  <2>1. <<>> \in Seq(Bytes)
    OBVIOUS
  <2>2. QED
    BY <1>1, <1>2, <2>1 DEF ConnTypes
<1>13. ConnInv(c)'
  BY <1>1, <1>2, <1>3, <1>10 DEF ConnInv
<1>14. Stream(c)' = Stream(c)
  <2> DEFINE w == Pending(c, "out")
             i == Pending(c, "in")
             m == msg[c]
  <2>1. Pending(c, "in")' = i
    BY <1>1, <1>8, BufferKept
  <2>2. Stream(c)' = out[c] \o (w \o m) \o <<>> \o i
    BY <1>2, <1>9, <1>10, <2>1 DEF Stream
  <2>3. Stream(c) = out[c] \o w \o m \o i
    BY DEF Stream
  <2>4. /\ out[c] \in Seq(Bytes) /\ w \in Seq(Bytes) /\ m \in Seq(Bytes)
        /\ i \in Seq(Bytes)
    BY <1>1, <1>5, BufferIs DEF ConnTypes
  <2> HIDE DEF w, i, m
  <2>5. out[c] \o (w \o m) \o <<>> \o i = out[c] \o w \o m \o i
    <3> DEFINE o == out[c]
    <3>1. /\ o \in Seq(Bytes) /\ w \in Seq(Bytes) /\ m \in Seq(Bytes)
          /\ i \in Seq(Bytes)
      BY <2>4
    <3> HIDE DEF o
    <3>2. o \o (w \o m) \o <<>> \o i = o \o w \o m \o i
      BY ONLY <3>1, StreamAppend, SMTT(30)
    <3>3. QED
      BY <3>2 DEF o
  <2>6. QED
    BY <2>2, <2>3, <2>5
<1>15. StreamOk(c)'
  BY <1>1, <1>2, <1>10, <1>14, NextStream DEF StreamOk
<1>16. QED
  BY <1>1, <1>8, <1>11, <1>12, <1>13, <1>15, Conclude

(* What is written leaves the output buffer at its front.                  *)
LEMMA Write2fdInv ==
    ASSUME Inv, NEW c \in Conns, NEW n, write2fd(c, n)
    PROVE  Inv'
<1> DEFINE old == Chunk(c, "out")
           new == Adjust(ChunkPop(old, n))
           v == SubSeq(Contents(old), 1, n)
<1>1. /\ MemOk(pool, buf, new_buf) /\ ConnTypes /\ ConnInv(c) /\ StreamOk(c)
      /\ "in" \in Sides /\ "out" \in Sides
  BY DEF Inv, Sides
<1>2. /\ n \in 1..Length(c, "out")
      /\ pool' = WithChunk(pool, buf[c]["out"], new)
      /\ out' = [out EXCEPT ![c] = @ \o v]
      /\ pc[c] = "idle" /\ pc' = [pc EXCEPT ![c] = "idle"]
      /\ UNCHANGED <<buf, new_buf, need_read, msg, sent, got, eof, dropped, exited>>
  BY DEF write2fd, Goto
<1>3. buf[c]["out"] # nullptr
  BY <1>2 DEF Length
<1>4. /\ Good(old) /\ Length(c, "out") = old.length
      /\ Pending(c, "out") = Contents(old)
  BY <1>1, <1>3, BufferIs
<1>5. /\ Good(new) /\ new.capacity = old.capacity
      /\ v \in Seq(Bytes) /\ Contents(old) = v \o Contents(new)
      /\ Contents(new) \in Seq(Bytes)
  <2>1. n \in 1..old.length
    BY <1>2, <1>4
  <2> HIDE DEF old
  <2>2. /\ Good(new) /\ new.capacity = old.capacity
        /\ v \in Seq(Bytes) /\ Contents(old) = v \o Contents(new)
    BY <1>4, <2>1, PopAdjust
  <2> HIDE DEF new
  <2>3. Contents(new) \in Seq(Bytes)
    BY <2>2, ContentsSeq
  <2>4. QED
    BY <2>2, <2>3
<1> HIDE DEF new, v
<1>6. /\ MemOk(pool', buf, new_buf)
      /\ Apart(pool, pool', buf, buf, new_buf, new_buf, c, "out")
      /\ pool'.chunk[buf[c]["out"]] = new
  <2>1. new.capacity = pool.chunk[buf[c]["out"]].capacity
    BY <1>5 DEF Chunk
  <2>2. QED
    BY <1>1, <1>2, <1>3, <1>5, <2>1, MemPut
<1>7. ApartStep(c, "out") /\ MemOk(pool', buf', new_buf')
  BY <1>2, <1>6 DEF ApartStep
<1>8. Pending(c, "out")' = Contents(new)
  BY <1>1, <1>2, <1>3, <1>6, NextBuffer
<1>9. /\ pc'[c] = "idle" /\ out'[c] = out[c] \o v
      /\ \A d \in Conns : d # c => pc'[d] = pc[d] /\ out'[d] = out[d]
  BY <1>1, <1>2 DEF ConnTypes
<1>10. SameOthers(c)
  BY <1>2, <1>9 DEF SameOthers
<1>11. ConnTypes'
  <2>1. out[c] \o v \in Seq(Bytes)
    BY <1>1, <1>5, ConcatProperties DEF ConnTypes
  <2>2. QED
    BY <1>1, <1>2, <2>1 DEF ConnTypes
<1>12. ConnInv(c)'
  BY <1>1, <1>2, <1>9 DEF ConnInv
<1>13. Stream(c)' = Stream(c)
  <2> DEFINE w == Contents(new)
             i == Pending(c, "in")
  <2>1. Pending(c, "in")' = i
    BY <1>1, <1>7, BufferKept
  <2>2. Stream(c)' = ((out[c] \o v) \o w) \o msg[c] \o i
    BY <1>2, <1>8, <1>9, <2>1 DEF Stream
  <2>3. Stream(c) = (out[c] \o (v \o w)) \o msg[c] \o i
    BY <1>4, <1>5 DEF Stream
  <2>4. out[c] \in Seq(Bytes) /\ v \in Seq(Bytes) /\ w \in Seq(Bytes)
    BY <1>1, <1>5 DEF ConnTypes
  <2> HIDE DEF w, i
  <2>5. (out[c] \o v) \o w = out[c] \o (v \o w)
    BY <2>4, StreamWrite
  <2>6. QED
    BY <2>2, <2>3, <2>5
<1>14. StreamOk(c)'
  BY <1>1, <1>2, <1>9, <1>13, NextStream DEF StreamOk
<1>15. QED
  BY <1>1, <1>7, <1>10, <1>11, <1>12, <1>14, Conclude

(* clear of either buffer.                                                 *)
LEMMA ClearInv ==
    ASSUME Inv, NEW c \in Conns, NEW s \in Sides, NEW from, NEW to,
           \/ from = "close" /\ to = "close_out"
           \/ from = "close_out" /\ to = "closed",
           clear(c, s, from, to)
    PROVE  Inv'
<1>1. MemOk(pool, buf, new_buf) /\ ConnTypes /\ ConnInv(c) /\ StreamOk(c)
  BY DEF Inv
<1>2. /\ pc[c] = from /\ pc' = [pc EXCEPT ![c] = to]
      /\ UNCHANGED <<new_buf, need_read, msg, sent, got, eof, out, dropped, exited>>
      /\ \/ pool' = pool /\ buf' = buf
         \/ /\ buf[c][s] # nullptr /\ pool' = retrieve(pool, buf[c][s])
            /\ buf' = SetBuf(buf, c, s, nullptr)
  BY DEF clear, Goto, sock, SetBuf
<1>3. ApartStep(c, s) /\ MemOk(pool', buf', new_buf')
  <2>1. CASE pool' = pool /\ buf' = buf
    BY <1>1, <1>2, <2>1, SameMem
  <2>2. CASE /\ buf[c][s] # nullptr /\ pool' = retrieve(pool, buf[c][s])
             /\ buf' = SetBuf(buf, c, s, nullptr)
    <3>1. /\ MemOk(pool', buf', new_buf)
          /\ Apart(pool, pool', buf, buf', new_buf, new_buf, c, s)
      BY <1>1, <2>2, MemGive
    <3>2. QED
      BY <1>2, <3>1 DEF ApartStep
  <2>3. QED
    BY <1>2, <2>1, <2>2
<1>4. pc'[c] = to /\ \A d \in Conns : d # c => pc'[d] = pc[d]
  BY <1>1, <1>2 DEF ConnTypes
<1>5. SameOthers(c)
  BY <1>2, <1>4 DEF SameOthers
<1>6. ConnTypes'
  BY <1>1, <1>2 DEF ConnTypes
<1>7. ConnInv(c)'
  BY <1>1, <1>2, <1>4 DEF ConnInv
<1>8. StreamOk(c)'
  BY <1>1, <1>2, <1>4, NextStream DEF StreamOk
<1>9. QED
  BY <1>1, <1>3, <1>5, <1>6, <1>7, <1>8, Conclude

-----------------------------------------------------------------------------
(* The invariant holds at the start and is kept by every step.             *)
LEMMA InitInv ==
    ASSUME Init
    PROVE  Inv
<1> DEFINE a == AtOf(buf, new_buf)
<1>1. SlotTypes(buf, new_buf)
  BY DEF Init, SlotTypes
<1>2. \A x \in Places : a[x] = 0
  <2>1. /\ \A c \in Conns : \A s \in Sides : buf[c][s] = 0
        /\ \A c \in Conns : new_buf[c] = 0
    BY DEF Init, nullptr
  <2>2. \A x \in Places : x[1] \in Conns /\ x[2] \in Slots
    BY DEF Places
  <2>3. \A x \in Places : x[2] = "new" \/ x[2] \in Sides
    BY <2>2 DEF Slots, Sides
  <2>4. QED
    BY <2>1, <2>2, <2>3 DEF AtOf
<1> HIDE DEF a
<1>3. HeldOf(a, Places) = {} /\ Single(a, Places)
  BY <1>2 DEF HeldOf, Single
<1>4. PInv(pool, HeldOf(a, Places))
  BY <1>3, NewPoolInv DEF Init
<1>5. MemOk(pool, buf, new_buf)
  BY <1>1, <1>3, <1>4 DEF MemOk, a
<1>6. ConnTypes
  <2>1. <<>> \in Seq(Bytes) /\ 0 \in 0..MaxBytes
    BY BufAssumption
  <2>2. QED
    BY <2>1 DEF Init, ConnTypes
<1>7. ASSUME NEW c \in Conns
      PROVE  ConnInv(c) /\ StreamOk(c)
  <2>1. /\ pc[c] = "idle" /\ buf[c]["in"] = nullptr /\ buf[c]["out"] = nullptr
        /\ new_buf[c] = nullptr /\ need_read[c] = 0 /\ msg[c] = <<>>
        /\ sent[c] = 0 /\ got[c] = 0 /\ out[c] = <<>> /\ dropped[c] = {}
    BY DEF Init, Sides
  <2>2. ConnInv(c)
    BY <2>1 DEF ConnInv
  <2>3. Stream(c) = <<>> \o <<>> \o <<>> \o <<>>
    BY <2>1 DEF Stream, Pending
  <2>4. Stream(c) = <<>>
    BY <2>3
  <2>5. Ordered(<<>>, 0, {})
    BY DEF Ordered
  <2>6. QED
    BY <2>1, <2>2, <2>4, <2>5 DEF StreamOk
<1>8. QED
  BY <1>5, <1>6, <1>7 DEF Inv

LEMMA StutterInv ==
    ASSUME Inv, UNCHANGED vars
    PROVE  Inv'
<1>1. UNCHANGED <<pool, buf, new_buf, exited, pc, need_read, msg, sent, got, eof,
                  out, dropped>>
  BY DEF vars, mem, conn, sock
<1>2. MemOk(pool, buf, new_buf) /\ ConnTypes
  BY DEF Inv
<1>3. CASE Conns = {}
  <2>1. MemOk(pool', buf', new_buf')
    BY <1>1, <1>2
  <2>2. MemOk(pool, buf, new_buf)'
    BY <2>1 DEF MemOk, SlotTypes, PInv, IsPool, PoolInv, PoolTypes, ListsOk, HeldOk,
         Counted, Accounts, Single, HeldOf, AtOf, Good, IsChunk, Listed, Made,
         CapOf, Lens
  <2>3. ConnTypes'
    BY <1>1, <1>2 DEF ConnTypes
  <2>4. QED
    BY <1>3, <2>2, <2>3 DEF Inv
<1>4. CASE Conns # {}
  <2>1. PICK c : c \in Conns
    BY <1>4
  <2>2. /\ need_read' \in [Conns -> 0..MaxBytes] /\ eof' \subseteq Conns
        /\ exited' \in BOOLEAN /\ pc' = [pc EXCEPT ![c] = pc[c]]
    BY <1>1, <1>2, <2>1 DEF ConnTypes
  <2>3. QED
    BY <1>1, <2>1, <2>2, QuietInv
<1>5. QED
  BY <1>3, <1>4

LEMMA NextInv ==
    ASSUME Inv, [Next]_vars
    PROVE  Inv'
<1>1. CASE UNCHANGED vars
  BY <1>1, StutterInv
<1>2. ASSUME NEW c \in Conns, client_send(c) \/ client_close(c)
      PROVE  Inv'
  BY <1>2, ClientSendInv, ClientCloseInv
<1>3. ASSUME NEW c \in Conns,
             read_from_fd(c) \/ read_bytes(c) \/ read_eof(c) \/ read_fails(c)
      PROVE  Inv'
  BY <1>3, ReadInv, ReadBytesInv, ReadEofInv, ReadFailsInv
<1>4. ASSUME NEW c \in Conns,
             \/ move(c, "in", "move_in", "read")
             \/ move(c, "out", "move_out", "append")
      PROVE  Inv'
  <2>1. "in" \in Sides /\ "out" \in Sides
    BY DEF Sides
  <2>2. QED
    BY <1>4, <2>1, MoveInv
<1>5. ASSUME NEW c \in Conns, \E len \in 1..MaxBytes : message(c, len)
      PROVE  Inv'
  BY <1>5, MessageInv
<1>6. ASSUME NEW c \in Conns, write2buf(c) \/ append(c) \/ write_fails(c)
      PROVE  Inv'
  BY <1>6, WriteInv, AppendInv, WriteFailsInv
<1>7. ASSUME NEW c \in Conns, \E n \in 1..MaxBytes : write2fd(c, n)
      PROVE  Inv'
  BY <1>7, Write2fdInv
<1>8. ASSUME NEW c \in Conns,
             \/ clear(c, "in", "close", "close_out")
             \/ clear(c, "out", "close_out", "closed")
      PROVE  Inv'
  <2>1. "in" \in Sides /\ "out" \in Sides
    BY DEF Sides
  <2>2. QED
    BY <1>8, <2>1, ClearInv
<1>9. QED
  BY <1>1, <1>2, <1>3, <1>4, <1>5, <1>6, <1>7, <1>8 DEF Next

(* Every step of any interleaving of the connections keeps the invariant.  *)
THEOREM InvAlways == Spec => []Inv
<1>1. Init => Inv
  BY InitInv
<1>2. Inv /\ [Next]_vars => Inv'
  BY NextInv
<1>3. QED
  BY <1>1, <1>2, PTL DEF Spec

-----------------------------------------------------------------------------
(* What the invariant implies in every state.                              *)
LEMMA TypesHold ==
    ASSUME Inv
    PROVE  TypeOK
<1>1. IsPool(pool)
  BY DEF Inv, MemOk, PInv
<1>2. QED
  BY <1>1 DEF Inv, MemOk, SlotTypes, ConnTypes, TypeOK

LEMMA ListedIsFree ==
    ASSUME Inv
    PROVE  Free = Listed(pool.mp_pool)
<1>1. pool.mp_pool \in [Caps -> Seq(ChunkIds)]
  BY DEF Inv, MemOk, PInv, PoolInv, PoolTypes
<1>2. \A c \in Caps : \A i \in 1..Len(pool.mp_pool[c]) : pool.mp_pool[c][i] \in ChunkIds
  BY <1>1
<1>3. QED
  BY <1>2 DEF Free, Listed

LEMMA AccountingHolds ==
    ASSUME Inv
    PROVE  PoolAccounting
<1>1. Accounts(pool.mp_pool, pool.chunk, pool.mp_total_size_kb, pool.mp_left_size_kb)
  BY DEF Inv, MemOk, PInv, PoolInv
<1>2. Created(pool) = Made(pool.chunk)
  BY DEF Created, Made
<1>3. \A S : SumCaps(pool, S) = SumFunctionOnSet(CapOf(pool.chunk), S)
  BY DEF SumCaps, CapOf
<1>4. QED
  BY <1>1, <1>2, <1>3, ListedIsFree DEF Accounts, PoolAccounting

(* The slots are Held, and a slot is the only one with its chunk.          *)
LEMMA HolderHolds ==
    ASSUME Inv
    PROVE  OneHolder
<1> DEFINE l == pool.mp_pool
           a == AtOf(buf, new_buf)
           H == HeldOf(a, Places)
<1>1. /\ SlotTypes(buf, new_buf) /\ Single(a, Places)
      /\ HeldOk(l, pool.chunk, H) /\ Counted(l)
  BY DEF Inv, MemOk, PInv, PoolInv
<1>2. /\ \A c \in Conns : \A s \in Sides :
            <<c, s>> \in Places /\ a[<<c, s>>] = buf[c][s]
      /\ \A c \in Conns : <<c, "new">> \in Places /\ a[<<c, "new">>] = new_buf[c]
  BY <1>1, AtIs
<1>3. \A x \in Places : a[x] \in Held
  <2>1. \A x \in Places : x[1] \in Conns /\ x[2] \in Slots
    BY DEF Places
  <2>2. \A x \in Places : x[2] = "new" \/ x[2] \in Sides
    BY <2>1 DEF Slots, Sides
  <2>3. QED
    BY <2>1, <2>2 DEF AtOf, Held
<1>4. Created(pool) = Made(pool.chunk) /\ Free = Listed(l)
  BY ListedIsFree DEF Created, Made
<1> HIDE DEF a
<1>5. Held \ {nullptr} = H
  <2>1. ASSUME NEW k \in Held
        PROVE  \E x \in Places : a[x] = k
    <3>1. CASE \E c \in Conns : \E s \in Sides : k = buf[c][s]
      <4>1. PICK c \in Conns : \E s \in Sides : k = buf[c][s]
        BY <3>1
      <4>2. PICK s \in Sides : k = buf[c][s]
        BY <4>1
      <4>3. <<c, s>> \in Places /\ a[<<c, s>>] = k
        BY <1>2, <4>2
      <4>4. QED
        BY <4>3
    <3>2. CASE \E c \in Conns : k = new_buf[c]
      <4>1. PICK c \in Conns : k = new_buf[c]
        BY <3>2
      <4>2. <<c, "new">> \in Places /\ a[<<c, "new">>] = k
        BY <1>2, <4>1
      <4>3. QED
        BY <4>2
    <3>3. QED
      BY <3>1, <3>2 DEF Held
  <2>2. QED
    BY <1>3, <2>1 DEF HeldOf, nullptr
<1>6. nullptr \notin Free
  BY <1>4, ListedFinite, CapFacts DEF nullptr
<1>7. /\ Free \cup (Held \ {nullptr}) = Created(pool)
      /\ Free \cap Held = {}
  BY <1>1, <1>4, <1>5, <1>6 DEF HeldOk
<1>8. Cardinality(Free) = SumFunctionOnSet([c \in Caps |-> Len(l[c])], Caps)
  BY <1>1, <1>4 DEF Counted, Lens
<1>9. ASSUME NEW c \in Conns, NEW d \in Conns, NEW s \in Sides, NEW r \in Sides,
             buf[c][s] = buf[d][r], buf[c][s] # nullptr
      PROVE  c = d /\ s = r
  <2> DEFINE x == <<c, s>>
             y == <<d, r>>
  <2>1. x \in Places /\ y \in Places /\ a[x] = buf[c][s] /\ a[y] = buf[d][r]
    BY <1>2
  <2> HIDE DEF x, y
  <2>2. x = y
    BY <1>1, <1>9, <2>1 DEF Single, nullptr
  <2>3. QED
    BY <2>2 DEF x, y
<1>10. ASSUME NEW c \in Conns, NEW d \in Conns, NEW s \in Sides,
              new_buf[c] # nullptr
       PROVE  buf[d][s] # new_buf[c] /\ (c # d => new_buf[d] # new_buf[c])
  <2> DEFINE x == <<c, "new">>
             y == <<d, s>>
             z == <<d, "new">>
  <2>1. y # x /\ (c # d => z # x)
    BY DEF Sides
  <2>2. /\ x \in Places /\ y \in Places /\ z \in Places
        /\ a[x] = new_buf[c] /\ a[y] = buf[d][s] /\ a[z] = new_buf[d]
    BY <1>2
  <2> HIDE DEF x, y, z
  <2>3. buf[d][s] # new_buf[c]
    BY <1>1, <1>10, <2>1, <2>2 DEF Single, nullptr
  <2>4. c # d => new_buf[d] # new_buf[c]
    BY <1>1, <1>10, <2>1, <2>2 DEF Single, nullptr
  <2>5. QED
    BY <2>3, <2>4
<1>11. QED
  BY <1>7, <1>8, <1>9, <1>10 DEF OneHolder

LEMMA StreamHolds ==
    ASSUME Inv
    PROVE  StreamIntact
<1>1. \A c \in Conns : pc[c] \notin {"close", "close_out", "closed"} =>
         Ordered(Stream(c), got[c], dropped[c])
  BY DEF Inv, StreamOk
<1>2. QED
  BY <1>1 DEF StreamIntact, Ordered

(* The pool, the buffers and the connections keep their types: in           *)
(* particular no chunk ever holds more than its capacity, and no byte is    *)
(* put behind the end of a chunk's memory, which read_from_fd and write2buf *)
(* rely on after other threads have used the pool.                          *)
THEOREM TypeCorrect == Spec => []TypeOK
<1>1. Inv => TypeOK
  BY TypesHold
<1>2. QED
  BY <1>1, InvAlways, PTL

(* Whatever the interleaving of alloc_chunk and retrieve, mp_left_size_kb   *)
(* is the size of the chunks in the free lists, mp_total_size_kb that of    *)
(* all chunks, and the total stays below MAX_POOL_SIZE.                     *)
THEOREM AccountingAlways == Spec => []PoolAccounting
<1>1. Inv => PoolAccounting
  BY AccountingHolds
<1>2. QED
  BY <1>1, InvAlways, PTL

(* No chunk is lost, none is in the free lists twice, or there and in a     *)
(* buffer, and no two buffers or calls share one: the calls that move a     *)
(* buffer to a larger chunk and clear give every chunk back once.           *)
THEOREM OneHolderAlways == Spec => []OneHolder
<1>1. Inv => OneHolder
  BY HolderHolds
<1>2. QED
  BY <1>1, InvAlways, PTL

(* The bytes written, waiting and taken are the bytes read, in order, less  *)
(* those whose send failed: pop, adjust, copy and the two writers neither   *)
(* lose, repeat nor swap a byte, whatever the sizes of chunks and messages. *)
THEOREM StreamAlways == Spec => []StreamIntact
<1>1. Inv => StreamIntact
  BY StreamHolds
<1>2. QED
  BY <1>1, InvAlways, PTL
=============================================================================
