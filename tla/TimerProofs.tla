----------------------------- MODULE TimerProofs -----------------------------
(***************************************************************************)
(* Theorems about Timer, for any clients, delays, time points, repetitions *)
(* and any number of timers.                                               *)
(***************************************************************************)
EXTENDS Timer, SequenceTheorems, TLAPS

-----------------------------------------------------------------------------
(* Nodes: the clock and a requeueing change what is left and the count of  *)
(* repetitions, and nothing else.                                          *)
LEMMA SoonerNode ==
    ASSUME NEW n \in Node
    PROVE  /\ Sooner(n) \in Node
           /\ Sooner(n).left = IF n.left = 0 THEN 0 ELSE n.left - 1
           /\ Sooner(n).tn_id = n.tn_id
           /\ Sooner(n).tn_is_period = n.tn_is_period
           /\ Sooner(n).tn_is_repeated = n.tn_is_repeated
           /\ Sooner(n).tn_repeated_num = n.tn_repeated_num
  BY DEF Sooner, Node

LEMMA NextFiring ==
    ASSUME NEW n \in Node
    PROVE  /\ [n EXCEPT !.left = n.tn_period] \in Node
           /\ [n EXCEPT !.left = n.tn_period].tn_id = n.tn_id
           /\ [n EXCEPT !.left = n.tn_period].tn_is_period = n.tn_is_period
           /\ [n EXCEPT !.left = n.tn_period].tn_is_repeated = n.tn_is_repeated
  BY DEF Node

LEMMA NextRepetition ==
    ASSUME NEW n \in Node, n.tn_repeated_num > 0,
           NEW m, m = [n EXCEPT !.left = n.tn_period, !.tn_repeated_num = @ - 1]
    PROVE  /\ m \in Node /\ m.tn_id = n.tn_id
           /\ m.tn_is_period = n.tn_is_period
           /\ m.tn_is_repeated = n.tn_is_repeated
           /\ m.tn_repeated_num = n.tn_repeated_num - 1
<1> DEFINE u == [n EXCEPT !.left = n.tn_period]
           d == n.tn_repeated_num - 1
<1>1. u \in Node /\ u.tn_repeated_num = n.tn_repeated_num /\ d \in Nat
  BY DEF Node
<1>2. m = [u EXCEPT !.tn_repeated_num = d]
  BY DEF Node
<1>3. u.tn_id = n.tn_id /\ u.tn_is_period = n.tn_is_period
      /\ u.tn_is_repeated = n.tn_is_repeated
  BY DEF Node
<1> HIDE DEF u, d
<1>4. m \in Node
  BY <1>1, <1>2 DEF Node
<1>5. m.tn_id = u.tn_id /\ m.tn_is_period = u.tn_is_period
      /\ m.tn_is_repeated = u.tn_is_repeated /\ m.tn_repeated_num = d
  BY <1>1, <1>2 DEF Node
<1>6. QED
  BY <1>3, <1>4, <1>5 DEF d

-----------------------------------------------------------------------------
(* The priority queue: r is q with n at place j.                           *)
Inserted(r, q, n, j) ==
    /\ j \in 1..(Len(q) + 1)
    /\ r \in Seq(Node) /\ Len(r) = Len(q) + 1 /\ r[j] = n
    /\ \A k \in 1..(j - 1) : r[k] = q[k]
    /\ \A k \in (j + 1)..Len(r) : r[k] = q[k - 1]

LEMMA InsertAtPlace ==
    ASSUME NEW q \in Seq(Node), NEW n \in Node, NEW j \in 1..(Len(q) + 1)
    PROVE  Inserted(InsertAt(q, j, n), q, n, j)
<1> DEFINE a == SubSeq(q, 1, j - 1)
           b == SubSeq(q, j, Len(q))
           r == InsertAt(q, j, n)
<1>0. Len(q) \in Nat /\ \A k \in 1..Len(q) : q[k] \in Node
  OBVIOUS
<1>1. /\ a \in Seq(Node) /\ Len(a) = j - 1
      /\ \A k \in 1..(j - 1) : a[k] = q[k]
  BY <1>0, SubSeqProperties
<1>2. /\ b \in Seq(Node) /\ Len(b) = Len(q) - j + 1
      /\ \A k \in 1..(Len(q) - j + 1) : b[k] = q[j + k - 1]
  BY <1>0, SubSeqProperties
<1> HIDE DEF a, b
<1>3. <<n>> \in Seq(Node) /\ Len(<<n>>) = 1 /\ <<n>>[1] = n
  OBVIOUS
<1>4. /\ a \o <<n>> \in Seq(Node) /\ Len(a \o <<n>>) = j
      /\ \A k \in 1..j : (a \o <<n>>)[k] = IF k <= j - 1 THEN q[k] ELSE n
  BY <1>1, <1>3
<1>5. /\ r \in Seq(Node) /\ Len(r) = Len(q) + 1
      /\ \A k \in 1..(Len(q) + 1) :
            r[k] = IF k <= j THEN (a \o <<n>>)[k] ELSE b[k - j]
  <2>1. r = (a \o <<n>>) \o b
    BY DEF InsertAt, a, b
  <2>2. QED
    <3> DEFINE e == a \o <<n>>
    <3>1. e \in Seq(Node) /\ Len(e) = j
      BY <1>4
    <3>2. r = e \o b
      BY <2>1
    <3> HIDE DEF e, r
    <3>3. /\ r \in Seq(Node) /\ Len(r) = Len(e) + Len(b)
          /\ \A k \in 1..(Len(e) + Len(b)) :
                r[k] = IF k <= Len(e) THEN e[k] ELSE b[k - Len(e)]
      BY <1>2, <3>1, <3>2, ConcatProperties
    <3>4. Len(e) + Len(b) = Len(q) + 1
      BY <1>0, <1>2, <3>1
    <3>5. QED
      BY <3>1, <3>3, <3>4 DEF e
<1> HIDE DEF r
<1>6. r[j] = n /\ \A k \in 1..(j - 1) : r[k] = q[k]
  <2>1. ASSUME NEW k \in 1..j
        PROVE  r[k] = IF k <= j - 1 THEN q[k] ELSE n
    <3>1. k \in 1..(Len(q) + 1) /\ k <= j
      BY <1>0
    <3>2. r[k] = (a \o <<n>>)[k]
      BY <1>5, <3>1
    <3>3. QED
      BY <1>4, <3>2
  <2> HIDE DEF r
  <2>2. /\ j \in 1..j /\ ~(j <= j - 1)
        /\ \A k \in 1..(j - 1) : k \in 1..j /\ k <= j - 1
    BY <1>0
  <2>3. QED
    BY <2>1, <2>2
<1>7. \A k \in (j + 1)..Len(r) : r[k] = q[k - 1]
  BY <1>0, <1>2, <1>5
<1>8. QED
  BY <1>5, <1>6, <1>7 DEF Inserted, r

LEMMA RangeIs ==
    ASSUME NEW q \in Seq(Node)
    PROVE  /\ \A k \in 1..Len(q) : q[k] \in Range(q)
           /\ \A n \in Range(q) : n \in Node /\ \E k \in 1..Len(q) : n = q[k]
  BY RangeEquality

Sorted(q) == \A i, j \in 1..Len(q) : i <= j => q[i].left <= q[j].left
Distinct(q) == \A i, j \in 1..Len(q) : q[i].tn_id = q[j].tn_id => i = j

LEMMA InsertionsKeep ==
    ASSUME NEW q \in Seq(Node), NEW n \in Node, Sorted(q), Distinct(q),
           \A m \in Range(q) : m.tn_id # n.tn_id,
           NEW r \in Insertions(q, n)
    PROVE  /\ r \in Seq(Node) /\ Sorted(r) /\ Distinct(r)
           /\ Range(r) = Range(q) \cup {n}
<1>0. Len(q) \in Nat /\ \A k \in 1..Len(q) : q[k] \in Node
  OBVIOUS
<1>d. \A k \in 1..Len(q) : q[k].tn_id # n.tn_id
  BY RangeIs
<1>1. PICK j \in 1..(Len(q) + 1) :
             /\ r = InsertAt(q, j, n)
             /\ \A k \in 1..(j - 1) : q[k].left <= n.left
             /\ \A k \in j..Len(q) : n.left <= q[k].left
  BY DEF Insertions
<1>2. Inserted(r, q, n, j)
  BY <1>1, InsertAtPlace
<1>3. /\ r \in Seq(Node) /\ Len(r) = Len(q) + 1 /\ r[j] = n
      /\ \A k \in 1..(j - 1) : r[k] = q[k] /\ k \in 1..Len(q)
      /\ \A k \in (j + 1)..Len(r) : r[k] = q[k - 1] /\ k - 1 \in 1..Len(q)
  <2>1. /\ r \in Seq(Node) /\ Len(r) = Len(q) + 1 /\ r[j] = n
        /\ \A k \in 1..(j - 1) : r[k] = q[k]
        /\ \A k \in (j + 1)..Len(r) : r[k] = q[k - 1]
    BY <1>2 DEF Inserted
  <2>2. /\ \A k \in 1..(j - 1) : k \in 1..Len(q)
        /\ \A k \in (j + 1)..(Len(q) + 1) : k - 1 \in 1..Len(q)
    BY <1>0
  <2>3. QED
    BY <2>1, <2>2
<1>n. n.left \in Nat /\ \A k \in 1..Len(q) : q[k].left \in Nat
  BY <1>0 DEF Node
<1>4. ASSUME NEW i \in 1..Len(r), NEW k \in 1..Len(r)
      PROVE  /\ i <= k => r[i].left <= r[k].left
             /\ r[i].tn_id = r[k].tn_id => i = k
  <2>1. i < j \/ i = j \/ i > j
    BY <1>0
  <2>2. k < j \/ k = j \/ k > j
    BY <1>0
  <2>3. CASE i = j
    <3>1. CASE k = j
      BY <1>3, <1>n, <2>3, <3>1
    <3>2. CASE k < j
      <4>1. r[k] = q[k] /\ k \in 1..Len(q) /\ ~(i <= k) /\ r[i] = n
        BY <1>0, <1>3, <2>3, <3>2
      <4>2. QED
        BY <1>d, <4>1
    <3>3. CASE k > j
      <4>1. /\ r[k] = q[k - 1] /\ k - 1 \in 1..Len(q) /\ k - 1 \in j..Len(q)
            /\ r[i] = n
        BY <1>0, <1>3, <2>3, <3>3
      <4>2. QED
        BY <1>1, <1>d, <4>1
    <3>4. QED
      BY <2>2, <3>1, <3>2, <3>3
  <2>4. CASE k = j
    <3>1. CASE i = j
      BY <1>3, <1>n, <2>4, <3>1
    <3>2. CASE i < j
      <4>1. /\ r[i] = q[i] /\ i \in 1..Len(q) /\ i \in 1..(j - 1)
            /\ r[k] = n
        BY <1>0, <1>3, <2>4, <3>2
      <4>2. QED
        BY <1>1, <1>d, <4>1
    <3>3. CASE i > j
      <4>1. /\ r[i] = q[i - 1] /\ i - 1 \in 1..Len(q) /\ ~(i <= k)
            /\ r[k] = n
        BY <1>0, <1>3, <2>4, <3>3
      <4>2. QED
        BY <1>d, <4>1
    <3>4. QED
      BY <2>1, <3>1, <3>2, <3>3
  <2>5. CASE i < j /\ k < j
    <3>1. /\ r[i] = q[i] /\ i \in 1..Len(q) /\ r[k] = q[k]
          /\ k \in 1..Len(q)
      BY <1>0, <1>3, <2>5
    <3>2. QED
      BY <3>1 DEF Sorted, Distinct
  <2>6. CASE i < j /\ k > j
    <3>1. /\ r[i] = q[i] /\ i \in 1..Len(q) /\ r[k] = q[k - 1]
          /\ k - 1 \in 1..Len(q) /\ i <= k - 1 /\ i # k - 1
      BY <1>0, <1>3, <2>6
    <3>2. QED
      BY <3>1 DEF Sorted, Distinct
  <2>7. CASE i > j /\ k < j
    <3>1. /\ r[k] = q[k] /\ k \in 1..Len(q) /\ r[i] = q[i - 1]
          /\ i - 1 \in 1..Len(q) /\ ~(i <= k) /\ i - 1 # k
      BY <1>0, <1>3, <2>7
    <3>2. QED
      BY <3>1 DEF Sorted, Distinct
  <2>8. CASE i > j /\ k > j
    <3>1. /\ r[k] = q[k - 1] /\ k - 1 \in 1..Len(q)
          /\ r[i] = q[i - 1] /\ i - 1 \in 1..Len(q)
      BY <1>0, <1>3, <2>8
    <3>2. QED
      BY <3>1 DEF Sorted, Distinct
  <2>9. QED
    BY <2>1, <2>2, <2>3, <2>4, <2>5, <2>6, <2>7, <2>8
<1>5. Range(r) = Range(q) \cup {n}
  <2>1. /\ Range(r) = {r[k] : k \in 1..Len(r)}
        /\ Range(q) = {q[k] : k \in 1..Len(q)}
    BY <1>3, RangeEquality
  <2>2. ASSUME NEW k \in 1..Len(r)
        PROVE  r[k] \in {q[l] : l \in 1..Len(q)} \cup {n}
    <3>1. k \in 1..(j - 1) \/ k = j \/ k \in (j + 1)..Len(r)
      BY <1>0
    <3>2. QED
      BY <1>3, <3>1
  <2>3. ASSUME NEW l \in 1..Len(q)
        PROVE  \E k \in 1..Len(r) : r[k] = q[l]
    <3>1. CASE l < j
      BY <1>0, <1>3, <3>1
    <3>2. CASE l >= j
      <4>1. l + 1 \in (j + 1)..Len(r) /\ l + 1 \in 1..Len(r) /\ (l + 1) - 1 = l
        BY <1>0, <1>3, <3>2
      <4>2. QED
        BY <1>3, <4>1
    <3>3. QED
      BY <1>0, <3>1, <3>2
  <2>4. j \in 1..Len(r)
    BY <1>0, <1>3
  <2>5. QED
    <3>1. Range(r) \subseteq Range(q) \cup {n}
      BY <2>1, <2>2
    <3>2. Range(q) \subseteq Range(r)
      BY <2>1, <2>3
    <3>3. n \in Range(r)
      BY <1>3, <2>1, <2>4
    <3>4. QED
      BY <3>1, <3>2, <3>3
<1>6. QED
  BY <1>3, <1>4, <1>5 DEF Sorted, Distinct

LEMMA ClockKeeps ==
    ASSUME NEW q \in Seq(Node), Sorted(q), Distinct(q),
           NEW r, r = [i \in DOMAIN q |-> Sooner(q[i])]
    PROVE  /\ r \in Seq(Node) /\ Sorted(r) /\ Distinct(r)
           /\ Range(r) = {Sooner(n) : n \in Range(q)}
<1>1. /\ Len(q) \in Nat /\ DOMAIN q = 1..Len(q)
      /\ \A k \in 1..Len(q) : q[k] \in Node
  OBVIOUS
<1>2. /\ \A k \in 1..Len(q) : Sooner(q[k]) \in Node /\ r[k] = Sooner(q[k])
      /\ r \in [1..Len(q) -> Node]
  BY <1>1, SoonerNode
<1>3. r \in Seq(Node) /\ Len(r) = Len(q)
  <2>1. r \in Seq(Node)
    BY <1>1, <1>2, SeqDef
  <2>2. QED
    BY <1>1, <1>2, <2>1
<1>4. ASSUME NEW i \in 1..Len(r), NEW k \in 1..Len(r)
      PROVE  /\ i <= k => r[i].left <= r[k].left
             /\ r[i].tn_id = r[k].tn_id => i = k
  <2>1. i \in 1..Len(q) /\ k \in 1..Len(q)
    BY <1>3
  <2>2. /\ q[i].left \in Nat /\ q[k].left \in Nat
        /\ i <= k => q[i].left <= q[k].left
        /\ q[i].tn_id = q[k].tn_id => i = k
    BY <1>1, <2>1 DEF Node, Sorted, Distinct
  <2>3. /\ r[i].left = IF q[i].left = 0 THEN 0 ELSE q[i].left - 1
        /\ r[k].left = IF q[k].left = 0 THEN 0 ELSE q[k].left - 1
        /\ r[i].tn_id = q[i].tn_id /\ r[k].tn_id = q[k].tn_id
    BY <1>1, <1>2, <2>1, SoonerNode
  <2>4. QED
    BY <2>2, <2>3
<1>5. Range(r) = {Sooner(n) : n \in Range(q)}
  <2>1. Range(r) = {r[k] : k \in 1..Len(r)}
    BY <1>2, <1>3 DEF Range
  <2>2. Range(q) = {q[k] : k \in 1..Len(q)}
    BY RangeEquality
  <2>3. QED
    BY <1>2, <1>3, <2>1, <2>2
<1>6. QED
  BY <1>3, <1>4, <1>5 DEF Sorted, Distinct

LEMMA PopKeeps ==
    ASSUME NEW q \in Seq(Node), q # <<>>, Sorted(q), Distinct(q)
    PROVE  /\ Head(q) \in Node /\ Tail(q) \in Seq(Node)
           /\ Sorted(Tail(q)) /\ Distinct(Tail(q))
           /\ Range(q) = Range(Tail(q)) \cup {Head(q)}
           /\ \A n \in Range(Tail(q)) : n.tn_id # Head(q).tn_id
           /\ \A n \in Range(q) : Head(q).left <= n.left
<1> DEFINE h == Head(q)
           r == Tail(q)
<1>1. /\ Len(q) \in Nat \ {0} /\ h = q[1] /\ r \in Seq(Node) /\ h \in Node
      /\ Len(r) = Len(q) - 1 /\ \A k \in 1..Len(r) : r[k] = q[k + 1]
  BY HeadTailProperties
<1> HIDE DEF h, r
<1>2. \A k \in 1..Len(r) : k + 1 \in 1..Len(q)
  BY <1>1
<1>3. Sorted(r)
  BY <1>1, <1>2 DEF Sorted
<1>4. Distinct(r)
  BY <1>1, <1>2 DEF Distinct
<1>5. /\ Range(r) = {r[k] : k \in 1..Len(r)}
      /\ Range(q) = {q[k] : k \in 1..Len(q)}
  BY <1>1, RangeEquality
<1>6. Range(q) = Range(r) \cup {h}
  <2>1. ASSUME NEW k \in 1..Len(q)
        PROVE  q[k] = h \/ \E l \in 1..Len(r) : q[k] = r[l]
    <3>1. CASE k = 1
      BY <1>1, <3>1
    <3>2. CASE k # 1
      <4>1. k - 1 \in 1..Len(r) /\ (k - 1) + 1 = k
        BY <1>1, <3>2
      <4>2. QED
        BY <1>1, <4>1
    <3>3. QED
      BY <3>1, <3>2
  <2>2. h \in Range(q)
    BY <1>1, <1>5
  <2>3. \A l \in 1..Len(r) : r[l] \in Range(q)
    BY <1>1, <1>2, <1>5
  <2>4. QED
    BY <1>5, <2>1, <2>2, <2>3
<1>7. ASSUME NEW k \in 1..Len(r)
      PROVE  r[k].tn_id # h.tn_id
  <2>1. k + 1 \in 1..Len(q) /\ 1 \in 1..Len(q) /\ k + 1 # 1
    BY <1>1, <1>2
  <2>2. QED
    BY <1>1, <2>1 DEF Distinct
<1>8. ASSUME NEW k \in 1..Len(q)
      PROVE  h.left <= q[k].left
  BY <1>1 DEF Sorted
<1>9. QED
  BY <1>1, <1>3, <1>4, <1>5, <1>6, <1>7, <1>8 DEF h, r

(* What Requeue puts back of s is one node, its next firing, or nothing.   *)
Again(m, s) ==
    /\ m \in Node /\ m.tn_id = s.tn_id
    /\ m.tn_is_period = s.tn_is_period /\ m.tn_is_repeated = s.tn_is_repeated
    /\ ~s.tn_is_period => /\ s.tn_is_repeated /\ s.tn_repeated_num > 0
                          /\ m.tn_repeated_num = s.tn_repeated_num - 1

LEMMA RequeueKeeps ==
    ASSUME NEW q \in Seq(Node), Sorted(q), Distinct(q), NEW s \in Node,
           \A m \in Range(q) : m.tn_id # s.tn_id,
           NEW r \in Requeue(q, s)
    PROVE  /\ r \in Seq(Node) /\ Sorted(r) /\ Distinct(r)
           /\ \/ \E m \in Node : Again(m, s) /\ Range(r) = Range(q) \cup {m}
              \/ /\ Range(r) = Range(q) /\ ~s.tn_is_period
                 /\ s.tn_is_repeated => s.tn_repeated_num = 0
<1>0. s.tn_repeated_num \in Nat
  BY DEF Node
<1>1. CASE s.tn_is_period
  <2> DEFINE m == [s EXCEPT !.left = s.tn_period]
  <2>1. r \in Insertions(q, m)
    BY <1>1 DEF Requeue
  <2>2. /\ m \in Node /\ m.tn_id = s.tn_id
        /\ m.tn_is_period = s.tn_is_period
        /\ m.tn_is_repeated = s.tn_is_repeated
    BY NextFiring
  <2> HIDE DEF m
  <2>3. Again(m, s)
    BY <1>1, <2>2 DEF Again
  <2>4. \A k \in Range(q) : k.tn_id # m.tn_id
    BY <2>2
  <2>5. QED
    BY <2>1, <2>2, <2>3, <2>4, InsertionsKeep
<1>2. CASE ~s.tn_is_period /\ s.tn_is_repeated /\ s.tn_repeated_num > 0
  <2> DEFINE m == [s EXCEPT !.left = s.tn_period, !.tn_repeated_num = @ - 1]
  <2>1. r \in Insertions(q, m)
    BY <1>2 DEF Requeue
  <2>2. /\ m \in Node /\ m.tn_id = s.tn_id
        /\ m.tn_is_period = s.tn_is_period
        /\ m.tn_is_repeated = s.tn_is_repeated
        /\ m.tn_repeated_num = s.tn_repeated_num - 1
    BY <1>2, NextRepetition
  <2> HIDE DEF m
  <2>3. Again(m, s)
    BY <1>2, <2>2 DEF Again
  <2>4. \A k \in Range(q) : k.tn_id # m.tn_id
    BY <2>2
  <2>5. QED
    BY <2>1, <2>2, <2>3, <2>4, InsertionsKeep
<1>3. CASE ~s.tn_is_period /\ ~(s.tn_is_repeated /\ s.tn_repeated_num > 0)
  <2>1. r = q
    BY <1>3 DEF Requeue
  <2>2. QED
    BY <1>0, <1>3, <2>1
<1>4. QED
  BY <1>1, <1>2, <1>3

-----------------------------------------------------------------------------
(* At any time an id has at most one node, in the queue or in the call that*)
(* is about to push it; ids are given out once; and the tick thread has an *)
(* id to post exactly when it is about to.                                 *)
Owned ==
    /\ Distinct(tm_queue)
    /\ \A c, d \in Clients :
          cnode[c] # None /\ cnode[d] # None /\ cnode[c].tn_id = cnode[d].tn_id
             => c = d
    /\ \A c \in Clients, n \in Queued :
          cnode[c] # None => cnode[c].tn_id # n.tn_id
    /\ \A c \in Clients : cnode[c] # None => cnode[c].tn_id < tm_id
    /\ \A n \in Queued : n.tn_id < tm_id
    /\ \A i \in tm_id_state_map : i < tm_id
    /\ popped # None => popped < tm_id
    /\ (popped = None) = (tpc # "post")

TypeInv == TypeOK /\ Sorted(tm_queue) /\ Owned

LEMMA InitTypeInv == Init => TypeInv
<1> SUFFICES ASSUME Init
             PROVE  TypeInv
  OBVIOUS
<1> USE TimerAssumption DEF Init
<1>1. TypeOK
  <2>1. tm_queue \in Seq(Node)
    OBVIOUS
  <2>2. tm_id \in 0..MaxTimers /\ tm_id_state_map \subseteq Ids
    OBVIOUS
  <2>3. cnode \in [Clients -> Node \cup {None}] /\ popped \in Ids \cup {None}
    OBVIOUS
  <2>4. /\ budget \in [Ids -> Nat \cup {None}]
        /\ posts \in [Ids -> Nat] /\ late \in [Ids -> Nat]
    OBVIOUS
  <2>5. /\ tm_running \in BOOLEAN /\ missed \in BOOLEAN /\ sleep \in Nat
        /\ tpc = "new" /\ dpc = "idle"
    OBVIOUS
  <2>6. QED
    BY <2>1, <2>2, <2>3, <2>4, <2>5 DEF TypeOK
<1>2. Queued = {}
  BY DEF Queued, Range
<1>3. Sorted(tm_queue) /\ Distinct(tm_queue)
  BY DEF Sorted, Distinct
<1>4. QED
  BY <1>1, <1>2, <1>3 DEF TypeInv, Owned

LEMMA ClockStep == ASSUME TypeInv, clock_tick PROVE TypeInv'
<1> USE TimerAssumption
<1>1. /\ tm_queue' \in Seq(Node) /\ Sorted(tm_queue') /\ Distinct(tm_queue')
      /\ Queued' = {Sooner(n) : n \in Queued}
  BY ClockKeeps DEF TypeInv, TypeOK, Owned, clock_tick, Queued
<1>2. \A n \in Queued : n \in Node
  BY RangeIs DEF TypeInv, TypeOK, Queued
<1>3. ASSUME NEW c \in Clients
      PROVE  /\ cnode'[c] \in Node \cup {None}
             /\ cnode'[c] # None => /\ cnode[c] # None /\ cnode[c] \in Node
                                    /\ cnode'[c].tn_id = cnode[c].tn_id
  <2>1. cnode[c] \in Node \cup {None}
    BY DEF TypeInv, TypeOK
  <2>2. cnode'[c] = IF cnode[c] = None THEN None ELSE Sooner(cnode[c])
    BY DEF clock_tick
  <2>3. QED
    BY <2>1, <2>2, SoonerNode
<1>4. \A n \in Queued : Sooner(n).tn_id = n.tn_id
  BY <1>2, SoonerNode
<1>5. cnode' \in [Clients -> Node \cup {None}]
  BY <1>3 DEF clock_tick
<1>6. TypeOK'
  BY <1>1, <1>5 DEF TypeInv, TypeOK, clock_tick, ids, dtor, history
<1>7. UNCHANGED <<tm_id, tm_id_state_map, popped, tpc>>
  BY DEF clock_tick, ids
<1>8. Owned'
  BY <1>1, <1>3, <1>4, <1>7 DEF TypeInv, Owned
<1>9. QED
  BY <1>1, <1>6, <1>8 DEF TypeInv

LEMMA ArmStep ==
    ASSUME TypeInv, NEW c \in Clients, NEW n \in Node, n.tn_id = tm_id,
           Arm(c, n), budget' \in [Ids -> Nat \cup {None}]
    PROVE  TypeInv'
<1> USE TimerAssumption
<1>1. /\ tm_id' = tm_id + 1 /\ tm_id < MaxTimers /\ cnode[c] = None
      /\ tm_id_state_map' = tm_id_state_map \cup {tm_id}
      /\ cnode' = [cnode EXCEPT ![c] = n]
      /\ UNCHANGED <<tm_queue, tpc, sleep, popped, tm_running, dpc, posts,
                     late, missed>>
  BY DEF Arm, emplace, tick, dtor
<1>2. TypeOK'
  BY <1>1 DEF TypeInv, TypeOK, Ids
<1>3. /\ cnode \in [Clients -> Node \cup {None}] /\ tm_id \in Nat
      /\ Queued' = Queued /\ popped \in Nat \cup {None}
      /\ tm_id_state_map \subseteq Nat
  BY <1>1 DEF TypeInv, TypeOK, Queued, Ids
<1>4. \A m \in Queued : m.tn_id \in Nat
  <2>1. \A m \in Queued : m \in Node
    BY RangeIs DEF TypeInv, TypeOK, Queued
  <2>2. QED
    BY <2>1 DEF Node, Ids
<1>5. \A d \in Clients : cnode[d] # None => cnode[d].tn_id \in Nat
  BY <1>3 DEF Node, Ids
<1>6. /\ cnode'[c] = n
      /\ \A d \in Clients : d # c => cnode'[d] = cnode[d]
  BY <1>1, <1>3
<1>7. Owned
  BY DEF TypeInv
<1>8. Owned'
  <2>1. Distinct(tm_queue')
    BY <1>1, <1>7 DEF Owned
  <2>2. ASSUME NEW d \in Clients, NEW e \in Clients, cnode'[d] # None,
               cnode'[e] # None, cnode'[d].tn_id = cnode'[e].tn_id
        PROVE  d = e
    BY <1>3, <1>5, <1>6, <1>7, <2>2 DEF Owned
  <2>3. ASSUME NEW d \in Clients, NEW m \in Queued', cnode'[d] # None
        PROVE  cnode'[d].tn_id # m.tn_id
    BY <1>3, <1>4, <1>6, <1>7, <2>3 DEF Owned
  <2>4. \A d \in Clients : cnode'[d] # None => cnode'[d].tn_id < tm_id'
    BY <1>1, <1>3, <1>5, <1>6, <1>7 DEF Owned
  <2>5. \A m \in Queued' : m.tn_id < tm_id'
    BY <1>1, <1>3, <1>4, <1>7 DEF Owned
  <2>6. /\ \A i \in tm_id_state_map' : i < tm_id'
        /\ popped' # None => popped' < tm_id'
    BY <1>1, <1>3, <1>7 DEF Owned
  <2>7. QED
    BY <1>1, <1>7, <2>1, <2>2, <2>3, <2>4, <2>5, <2>6 DEF Owned
<1>9. QED
  BY <1>1, <1>2, <1>8 DEF TypeInv

LEMMA PushStep == ASSUME TypeInv, NEW c \in Clients, push(c) PROVE TypeInv'
<1> USE TimerAssumption
<1> DEFINE n == cnode[c]
<1>1. /\ n # None /\ tm_queue' \in Insertions(tm_queue, n)
      /\ cnode' = [cnode EXCEPT ![c] = None]
      /\ UNCHANGED <<tm_id, tm_id_state_map, popped, tm_running, dpc, budget,
                     posts, late, missed>>
  BY DEF push, ids, dtor, history
<1>2. /\ cnode \in [Clients -> Node \cup {None}] /\ tm_queue \in Seq(Node)
      /\ n \in Node /\ Sorted(tm_queue) /\ Owned
  BY <1>1 DEF TypeInv, TypeOK
<1>3. Distinct(tm_queue) /\ \A m \in Range(tm_queue) : m.tn_id # n.tn_id
  BY <1>1, <1>2 DEF Owned, Queued
<1>4. /\ tm_queue' \in Seq(Node) /\ Sorted(tm_queue') /\ Distinct(tm_queue')
      /\ Queued' = Queued \cup {n}
  BY <1>1, <1>2, <1>3, InsertionsKeep DEF Queued
<1>5. /\ cnode'[c] = None
      /\ \A d \in Clients : d # c => cnode'[d] = cnode[d]
  BY <1>1, <1>2
<1>6. /\ tpc' \in {"new", "top", "locked", "wait", "wait_for", "post", "exit"}
      /\ sleep' \in Nat /\ (tpc' = "post") = (tpc = "post")
  BY DEF push, WakeTick, TypeInv, TypeOK
<1>7. TypeOK'
  BY <1>1, <1>4, <1>6 DEF TypeInv, TypeOK
<1>8. Owned'
  <2>1. ASSUME NEW d \in Clients, NEW e \in Clients, cnode'[d] # None,
               cnode'[e] # None, cnode'[d].tn_id = cnode'[e].tn_id
        PROVE  d = e
    BY <1>2, <1>5, <2>1 DEF Owned
  <2>2. ASSUME NEW d \in Clients, NEW m \in Queued', cnode'[d] # None
        PROVE  cnode'[d].tn_id # m.tn_id
    BY <1>1, <1>2, <1>4, <1>5, <2>2 DEF Owned
  <2>3. \A d \in Clients : cnode'[d] # None => cnode'[d].tn_id < tm_id'
    BY <1>1, <1>2, <1>5 DEF Owned
  <2>4. \A m \in Queued' : m.tn_id < tm_id'
    BY <1>1, <1>2, <1>4 DEF Owned
  <2>5. (popped' = None) = (tpc' # "post")
    BY <1>1, <1>2, <1>6 DEF Owned
  <2>6. QED
    BY <1>1, <1>2, <1>4, <2>1, <2>2, <2>3, <2>4, <2>5 DEF Owned
<1>9. QED
  BY <1>4, <1>7, <1>8 DEF TypeInv

(* tick_pop, whatever it does with the node it has popped: no node appears *)
(* but a next firing of that one.                                          *)
LEMMA PopStep ==
    ASSUME TypeInv, tick_pop
    PROVE  /\ tm_queue' \in Seq(Node)
           /\ Sorted(tm_queue') /\ Distinct(tm_queue')
           /\ Head(tm_queue) \in Node /\ Head(tm_queue) \in Queued
           /\ \A n \in Queued :
                 n = Head(tm_queue) \/ n.tn_id # Head(tm_queue).tn_id
           /\ \/ /\ Head(tm_queue).tn_id \in tm_id_state_map
                 /\ \E m \in Node : /\ Again(m, Head(tm_queue))
                                    /\ Queued' = (Queued \ {Head(tm_queue)})
                                                    \cup {m}
              \/ /\ Queued' = Queued \ {Head(tm_queue)}
                 /\ Head(tm_queue).tn_id \in tm_id_state_map
                       => /\ ~Head(tm_queue).tn_is_period
                          /\ Head(tm_queue).tn_is_repeated
                               => Head(tm_queue).tn_repeated_num = 0
<1> DEFINE s == Head(tm_queue)
           q == Tail(tm_queue)
<1>1. /\ tm_queue \in Seq(Node) /\ tm_queue # <<>>
      /\ Sorted(tm_queue) /\ Distinct(tm_queue)
  BY DEF TypeInv, TypeOK, Owned, tick_pop
<1>2. /\ s \in Node /\ q \in Seq(Node) /\ Sorted(q) /\ Distinct(q)
      /\ Queued = Range(q) \cup {s} /\ \A n \in Range(q) : n.tn_id # s.tn_id
  BY <1>1, PopKeeps DEF Queued
<1>3. \/ s.tn_id \notin tm_id_state_map /\ tm_queue' = q
      \/ s.tn_id \in tm_id_state_map /\ tm_queue' \in Requeue(q, s)
  BY DEF tick_pop, is_key_exist
<1> HIDE DEF s, q
<1>4. Range(q) = Queued \ {s}
  BY <1>2
<1>5. CASE s.tn_id \notin tm_id_state_map /\ tm_queue' = q
  BY <1>2, <1>4, <1>5 DEF Queued, s
<1>6. CASE s.tn_id \in tm_id_state_map /\ tm_queue' \in Requeue(q, s)
  <2>1. /\ tm_queue' \in Seq(Node) /\ Sorted(tm_queue') /\ Distinct(tm_queue')
        /\ \/ \E m \in Node : Again(m, s) /\ Queued' = Range(q) \cup {m}
           \/ /\ Queued' = Range(q) /\ ~s.tn_is_period
              /\ s.tn_is_repeated => s.tn_repeated_num = 0
    BY <1>2, <1>6, RequeueKeeps DEF Queued
  <2>2. QED
    BY <1>2, <1>4, <1>6, <2>1 DEF s
<1>7. QED
  BY <1>3, <1>5, <1>6

LEMMA PopTypeStep == ASSUME TypeInv, tick_pop PROVE TypeInv'
<1> USE TimerAssumption
<1> DEFINE s == Head(tm_queue)
<1>1. /\ tm_queue' \in Seq(Node)
      /\ Sorted(tm_queue') /\ Distinct(tm_queue') /\ s \in Node /\ s \in Queued
      /\ \/ \E m \in Node : /\ m.tn_id = s.tn_id
                            /\ Queued' = (Queued \ {s}) \cup {m}
         \/ Queued' = Queued \ {s}
  BY PopStep DEF Again
<1>2. /\ UNCHANGED <<tm_id, tm_id_state_map, cnode, sleep, tm_running, dpc,
                     budget, posts, late, missed>>
      /\ tpc = "locked"
      /\ \/ tpc' = "top" /\ UNCHANGED popped
         \/ tpc' = "post" /\ popped' = s.tn_id /\ s.tn_id \in tm_id_state_map
  BY DEF tick_pop, is_key_exist, ids, dtor, history
<1> HIDE DEF s
<1>3. s.tn_id \in Ids /\ s.tn_id # None
  BY <1>1 DEF Node, Ids
<1>4. TypeOK'
  BY <1>1, <1>2, <1>3 DEF TypeInv, TypeOK
<1>5. \A m \in Queued' : \E n \in Queued : m.tn_id = n.tn_id
  BY <1>1
<1>6. Owned
  BY DEF TypeInv
<1>7. (popped' = None) = (tpc' # "post") /\ (popped' # None => popped' < tm_id')
  BY <1>2, <1>3, <1>6 DEF Owned
<1>8. Owned'
  BY <1>1, <1>2, <1>5, <1>6, <1>7 DEF Owned
<1>9. QED
  BY <1>1, <1>4, <1>8 DEF TypeInv

LEMMA PostStep == ASSUME TypeInv, tick_post PROVE TypeInv'
<1> USE TimerAssumption
<1>1. popped \in Ids /\ tpc' = "top" /\ popped' = None
  BY DEF TypeInv, TypeOK, Owned, tick_post
<1>2. /\ UNCHANGED <<tm_queue, tm_id, tm_id_state_map, cnode, sleep,
                     tm_running, dpc, budget, missed>>
      /\ posts' \in [Ids -> Nat] /\ late' \in [Ids -> Nat]
  BY <1>1 DEF TypeInv, TypeOK, tick_post, ids, dtor
<1>3. TypeOK'
  BY <1>1, <1>2 DEF TypeInv, TypeOK
<1>4. Owned'
  BY <1>1, <1>2 DEF TypeInv, Owned, Queued
<1>5. QED
  BY <1>2, <1>3, <1>4 DEF TypeInv

(* Steps that leave the nodes alone.                                       *)
LEMMA OtherStep ==
    ASSUME TypeInv, UNCHANGED <<tm_queue, tm_id, cnode, popped, budget, posts,
                                late>>,
           tm_id_state_map' \subseteq tm_id_state_map,
           tpc' \in {"new", "top", "locked", "wait", "wait_for", "post", "exit"},
           (tpc' = "post") = (tpc = "post"),
           sleep' \in Nat, tm_running' \in BOOLEAN, missed' \in BOOLEAN,
           dpc' \in {"idle", "notify", "join", "done"}
    PROVE  TypeInv'
<1>1. TypeOK'
  BY DEF TypeInv, TypeOK
<1>2. Owned'
  BY DEF TypeInv, Owned, Queued
<1>3. QED
  BY <1>1, <1>2 DEF TypeInv

LEMMA ArmedNode ==
    ASSUME TypeInv, NEW c \in Clients
    PROVE  /\ \A ms \in Delays, p \in BOOLEAN : run_after(c, ms, p) =>
                \E n \in Node : /\ n.tn_id = tm_id /\ ~n.tn_is_repeated
                                /\ Arm(c, n) /\ budget' = budget
           /\ \A at \in Points : run_at(c, at) =>
                \E n \in Node : /\ n.tn_id = tm_id /\ ~n.tn_is_repeated
                                /\ Arm(c, n) /\ budget' = budget
           /\ \A ms \in Delays, num \in Repeats : run_repeated(c, ms, num) =>
                \E n \in Node : /\ n.tn_id = tm_id /\ n.tn_is_repeated
                                /\ ~n.tn_is_period /\ n.tn_repeated_num = num
                                /\ Arm(c, n)
                                /\ budget' = [budget EXCEPT ![tm_id] = num]
<1> USE TimerAssumption
<1>0. tm_id < MaxTimers => tm_id \in Ids
  BY DEF TypeInv, TypeOK, Ids
<1>1. ASSUME NEW ms \in Delays, NEW p \in BOOLEAN, run_after(c, ms, p)
      PROVE  \E n \in Node : /\ n.tn_id = tm_id /\ ~n.tn_is_repeated
                             /\ Arm(c, n) /\ budget' = budget
  <2> DEFINE n == [tn_id |-> tm_id, left |-> ms * TicksPerMs,
                   tn_is_period |-> p, tn_is_repeated |-> FALSE,
                   tn_repeated_num |-> 0, tn_period |-> ms * TicksPerMs]
  <2>1. ms * TicksPerMs \in Nat
    OBVIOUS
  <2>2. Arm(c, n) /\ budget' = budget
    BY <1>1 DEF run_after
  <2>3. tm_id \in Ids
    BY <1>0, <2>2 DEF Arm
  <2>4. n \in Node /\ n.tn_id = tm_id /\ ~n.tn_is_repeated
    BY <2>1, <2>3 DEF Node
  <2>5. QED
    BY <2>2, <2>4
<1>2. ASSUME NEW at \in Points, run_at(c, at)
      PROVE  \E n \in Node : /\ n.tn_id = tm_id /\ ~n.tn_is_repeated
                             /\ Arm(c, n) /\ budget' = budget
  <2> DEFINE n == [tn_id |-> tm_id, left |-> at,
                   tn_is_period |-> FALSE, tn_is_repeated |-> FALSE,
                   tn_repeated_num |-> 0, tn_period |-> 0]
  <2>1. Arm(c, n) /\ budget' = budget
    BY <1>2 DEF run_at
  <2>2. tm_id \in Ids
    BY <1>0, <2>1 DEF Arm
  <2>3. n \in Node /\ n.tn_id = tm_id /\ ~n.tn_is_repeated
    BY <2>2 DEF Node
  <2>4. QED
    BY <2>1, <2>3
<1>3. ASSUME NEW ms \in Delays, NEW num \in Repeats, run_repeated(c, ms, num)
      PROVE  \E n \in Node : /\ n.tn_id = tm_id /\ n.tn_is_repeated
                             /\ ~n.tn_is_period /\ n.tn_repeated_num = num
                             /\ Arm(c, n)
                             /\ budget' = [budget EXCEPT ![tm_id] = num]
  <2> DEFINE n == [tn_id |-> tm_id, left |-> ms * TicksPerMs,
                   tn_is_period |-> FALSE, tn_is_repeated |-> TRUE,
                   tn_repeated_num |-> num, tn_period |-> ms * TicksPerMs]
  <2>1. ms * TicksPerMs \in Nat
    OBVIOUS
  <2>2. Arm(c, n) /\ budget' = [budget EXCEPT ![tm_id] = num]
    BY <1>3 DEF run_repeated
  <2>3. tm_id \in Ids
    BY <1>0, <2>2 DEF Arm
  <2>4. /\ n \in Node /\ n.tn_id = tm_id /\ n.tn_is_repeated
        /\ ~n.tn_is_period /\ n.tn_repeated_num = num
    BY <2>1, <2>3 DEF Node
  <2>5. QED
    BY <2>2, <2>4
<1>4. QED
  BY <1>1, <1>2, <1>3

LEMMA NextTypeInv == TypeInv /\ [Next]_vars => TypeInv'
<1> SUFFICES ASSUME TypeInv, [Next]_vars
             PROVE  TypeInv'
  OBVIOUS
<1>0. /\ tm_queue \in Seq(Node) /\ sleep \in Nat
      /\ tpc \in {"new", "top", "locked", "wait", "wait_for", "post", "exit"}
      /\ tm_running \in BOOLEAN /\ missed \in BOOLEAN
      /\ dpc \in {"idle", "notify", "join", "done"}
      /\ budget \in [Ids -> Nat \cup {None}]
  BY DEF TypeInv, TypeOK
<1> USE DEF ids, tick, dtor, history
<1>1. CASE clock_tick
  BY <1>1, ClockStep
<1>2. CASE run \/ tick_check \/ tick_wait \/ tick_timeout
  BY <1>0, <1>2, OtherStep
     DEF run, tick_check, tick_wait, tick_timeout, TickGoto
<1>3. CASE tick_wait_for
  <2>1. Head(tm_queue).left \in Nat
    <3>1. Head(tm_queue) \in Node
      BY <1>0, <1>3, HeadTailProperties DEF tick_wait_for
    <3>2. QED
      BY <3>1 DEF Node
  <2>2. QED
    BY <1>0, <1>3, <2>1, OtherStep DEF tick_wait_for
<1>4. CASE spurious_wakeup
  BY <1>0, <1>4, OtherStep DEF spurious_wakeup
<1>5. CASE tick_pop
  BY <1>5, PopTypeStep
<1>6. CASE tick_post
  BY <1>6, PostStep
<1>7. ASSUME NEW c \in Clients, NEW ms \in Delays, NEW p \in BOOLEAN,
             run_after(c, ms, p)
      PROVE  TypeInv'
  BY <1>0, <1>7, ArmedNode, ArmStep
<1>8. ASSUME NEW c \in Clients, NEW at \in Points, run_at(c, at)
      PROVE  TypeInv'
  BY <1>0, <1>8, ArmedNode, ArmStep
<1>9. ASSUME NEW c \in Clients, NEW ms \in Delays, NEW num \in Repeats,
             run_repeated(c, ms, num)
      PROVE  TypeInv'
  <2>1. PICK n \in Node : /\ n.tn_id = tm_id /\ Arm(c, n)
                          /\ budget' = [budget EXCEPT ![tm_id] = num]
    BY <1>9, ArmedNode
  <2>2. budget' \in [Ids -> Nat \cup {None}]
    BY <1>0, <2>1, TimerAssumption
  <2>3. QED
    BY <2>1, <2>2, ArmStep
<1>10. ASSUME NEW c \in Clients, push(c)
       PROVE  TypeInv'
  BY <1>10, PushStep
<1>11. ASSUME NEW id \in Ids, cancel(id)
       PROVE  TypeInv'
  BY <1>0, <1>11, OtherStep DEF cancel, erase
<1>12. CASE dtor_stop \/ dtor_joined
  BY <1>0, <1>12, OtherStep DEF dtor_stop, dtor_joined
<1>13. CASE dtor_notify_all
  BY <1>0, <1>13, OtherStep DEF dtor_notify_all, WakeTick
<1>14. CASE UNCHANGED vars
  BY <1>0, <1>14, OtherStep DEF vars
<1>15. QED
  BY <1>1, <1>2, <1>3, <1>4, <1>5, <1>6, <1>7, <1>8, <1>9, <1>10, <1>11,
     <1>12, <1>13, <1>14 DEF Next, TickThread, DtorStep

LEMMA TypeInvHolds == Spec => []TypeInv
  BY InitTypeInv, NextTypeInv, PTL DEF Spec

(* The timer's state stays well formed: the queue holds nodes of ids given *)
(* out, and what the tick thread posts is the callback of one of them.     *)
THEOREM TypeCorrect == Spec => []TypeOK
<1>1. TypeInv => TypeOK
  BY DEF TypeInv
<1>2. QED
  BY <1>1, TypeInvHolds, PTL

-----------------------------------------------------------------------------
LEMMA NextNoOversleep ==
    TypeInv /\ NoOversleep /\ [Next]_vars => NoOversleep'
<1> SUFFICES ASSUME TypeInv, NoOversleep, [Next]_vars
             PROVE  NoOversleep'
  OBVIOUS
<1> USE DEF NoOversleep
<1>1. CASE clock_tick
  <2>1. /\ tm_queue' = [i \in DOMAIN tm_queue |-> Sooner(tm_queue[i])]
        /\ sleep' = (IF sleep = 0 THEN 0 ELSE sleep - 1) /\ tpc' = tpc
        /\ sleep \in Nat /\ tm_queue \in Seq(Node)
    BY <1>1 DEF clock_tick, TypeInv, TypeOK
  <2>2. Queued' = {Sooner(n) : n \in Queued}
    BY <2>1, ClockKeeps DEF TypeInv, Owned, Queued
  <2>3. tm_queue = <<>> => tm_queue' = <<>>
    BY <2>1
  <2>4. ASSUME tpc = "wait_for", NEW n \in Queued
        PROVE  sleep' <= Sooner(n).left
    <3>1. n \in Node
      BY <2>1, RangeIs DEF Queued
    <3>2. sleep <= n.left /\ n.left \in Nat
      BY <2>4, <3>1 DEF Node
    <3>3. Sooner(n).left = IF n.left = 0 THEN 0 ELSE n.left - 1
      BY <3>1, SoonerNode
    <3>4. QED
      BY <2>1, <3>2, <3>3
  <2>5. QED
    BY <2>1, <2>2, <2>3, <2>4
<1>2. CASE tick_wait_for
  <2>1. \A n \in Queued : Head(tm_queue).left <= n.left
    BY <1>2, PopKeeps DEF tick_wait_for, TypeInv, TypeOK, Owned, Queued
  <2>2. QED
    BY <1>2, <2>1 DEF tick_wait_for, Queued
<1>3. CASE tick_wait \/ UNCHANGED vars
  BY <1>3 DEF tick_wait, TickGoto, vars, tick, Queued
<1>4. CASE \/ run \/ tick_check \/ tick_timeout \/ tick_pop \/ tick_post
           \/ spurious_wakeup
  BY <1>4 DEF run, tick_check, tick_timeout, tick_pop, tick_post,
              spurious_wakeup, TickGoto
<1>5. ASSUME NEW c \in Clients, NEW n, Arm(c, n)
      PROVE  NoOversleep'
  BY <1>5 DEF Arm, tick, Queued
<1>6. ASSUME NEW c \in Clients, push(c)
      PROVE  NoOversleep'
  <2>1. tpc' \notin {"wait", "wait_for"}
    BY <1>6 DEF push, WakeTick
  <2>2. QED
    BY <2>1
<1>7. ASSUME NEW id \in Ids, cancel(id)
      PROVE  NoOversleep'
  BY <1>7 DEF cancel, tick, Queued
<1>8. CASE dtor_stop \/ dtor_notify_all \/ dtor_joined
  BY <1>8 DEF dtor_stop, dtor_notify_all, dtor_joined, WakeTick, tick, Queued
<1>9. QED
  BY <1>1, <1>2, <1>3, <1>4, <1>5, <1>6, <1>7, <1>8
     DEF Next, TickThread, DtorStep, run_after, run_at, run_repeated

(* The tick thread never sleeps past a queued time point, whichever threads*)
(* push which time points while it sleeps.                                 *)
THEOREM NeverOversleeps == Spec => []NoOversleep
<1>1. Init => NoOversleep
  BY DEF Init, NoOversleep
<1>2. QED
  BY <1>1, TypeInvHolds, NextNoOversleep, PTL DEF Spec

-----------------------------------------------------------------------------
(* A late callback was the timer's last: its id is not in the map, will not*)
(* be entered again, and is not about to be posted.                        *)
LateInv ==
    \A i \in Ids : /\ late[i] <= 1
                   /\ late[i] > 0 => /\ i < tm_id /\ popped # i
                                     /\ i \notin tm_id_state_map

LEMMA NextLate == TypeInv /\ LateInv /\ [Next]_vars => LateInv'
<1> SUFFICES ASSUME TypeInv, LateInv, [Next]_vars
             PROVE  LateInv'
  OBVIOUS
<1>0. late \in [Ids -> Nat] /\ tm_id \in Nat /\ Ids \subseteq Nat
  BY TimerAssumption DEF TypeInv, TypeOK, Ids
<1> USE DEF ids, tick, dtor, history
<1>1. ASSUME UNCHANGED <<late, tm_id, popped>>,
             tm_id_state_map' \subseteq tm_id_state_map
      PROVE  LateInv'
  BY <1>1 DEF LateInv
<1>2. CASE clock_tick \/ UNCHANGED vars
  BY <1>1, <1>2 DEF clock_tick, vars
<1>3. CASE run \/ tick_check \/ tick_wait \/ tick_timeout
  BY <1>1, <1>3 DEF run, tick_check, tick_wait, tick_timeout, TickGoto
<1>4. CASE tick_wait_for \/ spurious_wakeup
  BY <1>1, <1>4 DEF tick_wait_for, spurious_wakeup
<1>5. CASE tick_pop
  <2>1. /\ UNCHANGED <<late, tm_id, tm_id_state_map>>
        /\ popped' = popped \/ popped' \in tm_id_state_map
    BY <1>5 DEF tick_pop, is_key_exist
  <2>2. QED
    BY <2>1 DEF LateInv
<1>6. CASE tick_post
  <2>1. popped \in Ids /\ popped < tm_id /\ popped' = None
    BY <1>6 DEF tick_post, TypeInv, TypeOK, Owned
  <2>2. /\ UNCHANGED <<tm_id, tm_id_state_map>>
        /\ late' = [late EXCEPT ![popped] =
                      IF popped \in tm_id_state_map THEN @ ELSE @ + 1]
    BY <1>6 DEF tick_post
  <2>3. late[popped] = 0
    BY <1>0, <2>1 DEF LateInv
  <2>4. late'[popped] = IF popped \in tm_id_state_map THEN 0 ELSE 1
    BY <1>0, <2>1, <2>2, <2>3
  <2>5. \A i \in Ids : i # popped => late'[i] = late[i]
    BY <1>0, <2>2
  <2>6. None \notin Ids
    BY <1>0, TimerAssumption
  <2>7. ASSUME NEW i \in Ids
        PROVE  /\ late'[i] <= 1
               /\ late'[i] > 0 => /\ i < tm_id' /\ popped' # i
                                  /\ i \notin tm_id_state_map'
    <3>1. CASE i = popped
      BY <2>1, <2>2, <2>4, <2>6, <3>1
    <3>2. CASE i # popped
      BY <2>1, <2>2, <2>5, <2>6, <3>2 DEF LateInv
    <3>3. QED
      BY <3>1, <3>2
  <2>8. QED
    BY <2>7 DEF LateInv
<1>7. ASSUME NEW c \in Clients, NEW n, Arm(c, n)
      PROVE  LateInv'
  <2>1. /\ UNCHANGED <<late, popped>> /\ tm_id' = tm_id + 1
        /\ tm_id_state_map' = tm_id_state_map \cup {tm_id}
    BY <1>7 DEF Arm, emplace
  <2>2. QED
    BY <1>0, <2>1 DEF LateInv
<1>8. ASSUME NEW c \in Clients, push(c)
      PROVE  LateInv'
  BY <1>1, <1>8 DEF push
<1>9. ASSUME NEW id \in Ids, cancel(id)
      PROVE  LateInv'
  BY <1>1, <1>9 DEF cancel, erase
<1>10. CASE dtor_stop \/ dtor_notify_all \/ dtor_joined
  BY <1>1, <1>10 DEF dtor_stop, dtor_notify_all, dtor_joined
<1>11. QED
  BY <1>2, <1>3, <1>4, <1>5, <1>6, <1>7, <1>8, <1>9, <1>10
     DEF Next, TickThread, DtorStep, run_after, run_at, run_repeated

(* cancel can be overtaken by one callback that is already on its way to   *)
(* the pool, and by no second one, whenever it is called.                  *)
THEOREM CancelStops == Spec => []AtMostOnePostAfterCancel
<1>1. Init => LateInv
  BY DEF Init, LateInv
<1>2. LateInv => AtMostOnePostAfterCancel
  BY DEF LateInv, AtMostOnePostAfterCancel
<1>3. QED
  BY <1>1, <1>2, TypeInvHolds, NextLate, PTL DEF Spec

-----------------------------------------------------------------------------
(* The nodes there are, queued or about to be; the repetitions the nodes of*)
(* an id stand for; and whether a callback of it is under way.             *)
AllNodes == {n \in Queued \cup Range(cnode) : n # None}
Left(S) == IF S = {} THEN 0 ELSE 1 + (CHOOSE n \in S : TRUE).tn_repeated_num
UnderWay(i) == IF popped = i THEN 1 ELSE 0

LEMMA LeftIs ==
    ASSUME NEW n
    PROVE  Left({}) = 0 /\ Left({n}) = 1 + n.tn_repeated_num
<1>1. (CHOOSE m \in {n} : TRUE) = n
  OBVIOUS
<1>2. QED
  BY <1>1 DEF Left

LEMMA AllNodesIs ==
    ASSUME TypeInv
    PROVE  /\ \A n : n \in AllNodes <=>
                 n \in Node /\ (n \in Queued \/ \E c \in Clients : n = cnode[c])
           /\ \A n, m \in AllNodes : n.tn_id = m.tn_id => n = m
           /\ \A n \in AllNodes : n.tn_id \in Ids /\ n.tn_id < tm_id
<1>1. /\ \A n \in Queued : n \in Node
      /\ cnode \in [Clients -> Node \cup {None}] /\ None \notin Node
  BY TimerAssumption, RangeIs DEF TypeInv, TypeOK, Queued
<1>2. Range(cnode) = {cnode[c] : c \in Clients}
  BY <1>1 DEF Range
<1>3. \A n : n \in AllNodes <=>
           n \in Node /\ (n \in Queued \/ \E c \in Clients : n = cnode[c])
  BY <1>1, <1>2 DEF AllNodes
<1>4. ASSUME NEW n \in AllNodes, NEW m \in AllNodes, n.tn_id = m.tn_id
      PROVE  n = m
  <2>1. CASE n \in Queued /\ m \in Queued
    <3>1. PICK k \in 1..Len(tm_queue) : n = tm_queue[k]
      BY <2>1, RangeIs DEF TypeInv, TypeOK, Queued
    <3>2. PICK l \in 1..Len(tm_queue) : m = tm_queue[l]
      BY <2>1, RangeIs DEF TypeInv, TypeOK, Queued
    <3>3. k = l
      BY <1>4, <3>1, <3>2 DEF TypeInv, Owned, Distinct
    <3>4. QED
      BY <3>1, <3>2, <3>3
  <2>2. CASE ~(n \in Queued /\ m \in Queued)
    BY <1>1, <1>3, <1>4, <2>2 DEF TypeInv, Owned
  <2>3. QED
    BY <2>1, <2>2
<1>5. ASSUME NEW n \in AllNodes
      PROVE  n.tn_id \in Ids /\ n.tn_id < tm_id
  <2>1. n.tn_id \in Ids
    BY <1>3 DEF Node
  <2>2. QED
    BY <1>1, <1>3, <2>1 DEF TypeInv, Owned
<1>6. QED
  BY <1>3, <1>4, <1>5

(* An id has no node, or one.                                              *)
LEMMA NodesIs ==
    ASSUME TypeInv, NEW i
    PROVE  /\ Nodes(i) = {n \in AllNodes : n.tn_id = i}
           /\ \A n \in AllNodes : n.tn_id = i => Nodes(i) = {n}
           /\ (\A n \in AllNodes : n.tn_id # i) => Nodes(i) = {}
<1>1. Nodes(i) = {n \in AllNodes : n.tn_id = i}
  BY DEF Nodes, AllNodes
<1>2. QED
  BY <1>1, AllNodesIs

(* How the steps change the set of nodes.                                  *)
LEMMA ClockNodes ==
    ASSUME TypeInv, clock_tick
    PROVE  AllNodes' = {Sooner(n) : n \in AllNodes}
<1>1. Queued' = {Sooner(n) : n \in Queued}
  BY ClockKeeps DEF clock_tick, TypeInv, TypeOK, Owned, Queued
<1>2. /\ cnode' = [c \in Clients |->
                     IF cnode[c] = None THEN None ELSE Sooner(cnode[c])]
      /\ cnode \in [Clients -> Node \cup {None}] /\ None \notin Node
      /\ \A n \in Queued : n \in Node
  BY TimerAssumption, RangeIs DEF clock_tick, TypeInv, TypeOK, Queued
<1>3. /\ Range(cnode) = {cnode[c] : c \in Clients}
      /\ Range(cnode') = {cnode'[c] : c \in Clients}
  BY <1>2 DEF Range
<1>4. \A n \in Node : Sooner(n) \in Node
  BY SoonerNode
<1>5. AllNodes' = {n \in Queued' \cup Range(cnode') : n # None}
  BY DEF AllNodes
<1>6. ASSUME NEW n \in AllNodes'
      PROVE  \E m \in AllNodes : n = Sooner(m)
  <2>1. CASE n \in Queued'
    BY <1>1, <1>2, <2>1 DEF AllNodes
  <2>2. CASE n \in Range(cnode')
    <3>1. PICK c \in Clients : n = cnode'[c] /\ n # None
      BY <1>3, <1>5, <2>2
    <3>2. cnode[c] # None /\ n = Sooner(cnode[c])
      BY <1>2, <3>1
    <3>3. cnode[c] \in AllNodes
      BY <1>3, <3>2 DEF AllNodes
    <3>4. QED
      BY <3>2, <3>3
  <2>3. QED
    BY <1>5, <2>1, <2>2
<1>7. ASSUME NEW m \in AllNodes
      PROVE  Sooner(m) \in AllNodes'
  <2>1. CASE m \in Queued
    <3>1. Sooner(m) \in Queued' /\ Sooner(m) # None
      BY <1>1, <1>2, <1>4, <2>1
    <3>2. QED
      BY <1>5, <3>1
  <2>2. CASE m \in Range(cnode)
    <3>1. PICK c \in Clients : m = cnode[c] /\ m # None
      BY <1>3, <2>2 DEF AllNodes
    <3>2. cnode'[c] = Sooner(m) /\ Sooner(m) # None
      BY <1>2, <1>4, <3>1
    <3>3. QED
      BY <1>3, <1>5, <3>2
  <2>3. QED
    BY <2>1, <2>2 DEF AllNodes
<1>8. QED
  BY <1>6, <1>7

LEMMA ArmNodes ==
    ASSUME TypeInv, NEW c \in Clients, NEW n \in Node, Arm(c, n)
    PROVE  AllNodes' = AllNodes \cup {n}
<1>1. /\ cnode' = [cnode EXCEPT ![c] = n] /\ tm_queue' = tm_queue
      /\ cnode[c] = None /\ cnode \in [Clients -> Node \cup {None}]
      /\ None \notin Node
  BY TimerAssumption DEF Arm, TypeInv, TypeOK
<1>2. /\ Range(cnode) = {cnode[d] : d \in Clients}
      /\ Range(cnode') = {cnode'[d] : d \in Clients}
  BY <1>1 DEF Range
<1>3. cnode'[c] = n /\ \A d \in Clients : d # c => cnode'[d] = cnode[d]
  BY <1>1
<1>4. Queued' = Queued
  BY <1>1 DEF Queued
<1>5. QED
  BY <1>1, <1>2, <1>3, <1>4 DEF AllNodes

LEMMA PushNodes ==
    ASSUME TypeInv, NEW c \in Clients, push(c)
    PROVE  AllNodes' = AllNodes
<1>1. /\ cnode' = [cnode EXCEPT ![c] = None] /\ cnode[c] # None
      /\ cnode \in [Clients -> Node \cup {None}] /\ cnode[c] \in Node
      /\ tm_queue' \in Insertions(tm_queue, cnode[c])
  BY DEF push, TypeInv, TypeOK
<1>2. Queued' = Queued \cup {cnode[c]}
  <2>1. \A m \in Range(tm_queue) : m.tn_id # cnode[c].tn_id
    BY <1>1 DEF TypeInv, Owned, Queued
  <2>2. tm_queue \in Seq(Node) /\ Sorted(tm_queue) /\ Distinct(tm_queue)
    BY DEF TypeInv, TypeOK, Owned
  <2>3. QED
    BY <1>1, <2>1, <2>2, InsertionsKeep DEF Queued
<1>3. /\ Range(cnode) = {cnode[d] : d \in Clients}
      /\ Range(cnode') = {cnode'[d] : d \in Clients}
  BY <1>1 DEF Range
<1>4. cnode'[c] = None /\ \A d \in Clients : d # c => cnode'[d] = cnode[d]
  BY <1>1
<1>5. QED
  BY <1>1, <1>2, <1>3, <1>4 DEF AllNodes

LEMMA PopNodes ==
    ASSUME TypeInv, tick_pop, NEW s, s = Head(tm_queue)
    PROVE  /\ s \in AllNodes
           /\ \/ /\ s.tn_id \in tm_id_state_map
                 /\ \E m \in Node : /\ Again(m, s)
                                    /\ AllNodes' = (AllNodes \ {s}) \cup {m}
              \/ /\ AllNodes' = AllNodes \ {s}
                 /\ s.tn_id \in tm_id_state_map =>
                      /\ ~s.tn_is_period
                      /\ s.tn_is_repeated => s.tn_repeated_num = 0
<1>1. /\ s \in Node /\ s \in Queued
      /\ \/ /\ s.tn_id \in tm_id_state_map
            /\ \E m \in Node : Again(m, s) /\ Queued' = (Queued \ {s}) \cup {m}
         \/ /\ Queued' = Queued \ {s}
            /\ s.tn_id \in tm_id_state_map =>
                 ~s.tn_is_period /\ (s.tn_is_repeated => s.tn_repeated_num = 0)
  BY PopStep
<1>2. /\ cnode' = cnode /\ cnode \in [Clients -> Node \cup {None}]
      /\ None \notin Node
  BY TimerAssumption DEF tick_pop, TypeInv, TypeOK
<1>3. Range(cnode) = {cnode[d] : d \in Clients}
  BY <1>2 DEF Range
<1>4. s \notin Range(cnode)
  BY <1>1, <1>2, <1>3 DEF TypeInv, Owned
<1>5. AllNodes' = {n \in Queued' \cup Range(cnode) : n # None}
  BY <1>2 DEF AllNodes
<1>6. s \in AllNodes
  BY <1>1, <1>2 DEF AllNodes
<1>7. ASSUME Queued' = Queued \ {s}
      PROVE  AllNodes' = AllNodes \ {s}
  BY <1>4, <1>5, <1>7 DEF AllNodes
<1>8. ASSUME NEW m \in Node, Queued' = (Queued \ {s}) \cup {m}
      PROVE  AllNodes' = (AllNodes \ {s}) \cup {m}
  BY <1>2, <1>4, <1>5, <1>8 DEF AllNodes
<1>9. QED
  BY <1>1, <1>6, <1>7, <1>8

(* Only the nodes of run_repeated timers count repetitions, and nothing is *)
(* known of an id before it is given out.                                  *)
Fits(n) == /\ (budget[n.tn_id] # None) = n.tn_is_repeated
           /\ n.tn_is_repeated => ~n.tn_is_period
AccountInv ==
    /\ \A n \in AllNodes : Fits(n)
    /\ \A i \in Ids : i >= tm_id => budget[i] = None /\ posts[i] = 0

LEMMA FiringsIs ==
    ASSUME NEW i \in Ids
    PROVE  /\ Firings(i) = posts[i] + UnderWay(i) + Left(Nodes(i))
           /\ Firings(i)' = posts'[i] + UnderWay(i)' + Left(Nodes(i)')
           /\ Nodes(i)' = {n \in AllNodes' : n.tn_id = i}
  BY DEF Firings, UnderWay, Left, Nodes, AllNodes

LEMMA NumbersAre ==
    ASSUME TypeInv, NEW i \in Ids
    PROVE  /\ posts[i] \in Nat /\ UnderWay(i) \in Nat
           /\ Left(Nodes(i)) \in Nat /\ budget[i] \in Nat \cup {None}
           /\ Firings(i) \in Nat
<1>1. CASE Nodes(i) = {}
  <2>1. Left(Nodes(i)) = 0
    BY <1>1, LeftIs
  <2>2. QED
    BY <2>1, FiringsIs DEF TypeInv, TypeOK, UnderWay
<1>2. CASE Nodes(i) # {}
  <2>1. PICK n \in AllNodes : n.tn_id = i /\ Nodes(i) = {n} /\ n \in Node
    BY <1>2, NodesIs, AllNodesIs
  <2>2. Left(Nodes(i)) \in Nat
    BY <2>1, LeftIs DEF Node
  <2>3. posts[i] \in Nat /\ budget[i] \in Nat \cup {None}
    BY DEF TypeInv, TypeOK
  <2>4. UnderWay(i) \in Nat
    BY DEF UnderWay
  <2>5. QED
    BY <2>2, <2>3, <2>4, FiringsIs
<1>3. QED
  BY <1>1, <1>2

(* A step keeps the firings of an id when they stay as many, or become     *)
(* fewer after its cancel.                                                 *)
LEMMA AccountsStay ==
    ASSUME TypeInv, NEW i \in Ids,
           budget[i] # None =>
              \/ Firings(i)' = Firings(i)
              \/ /\ i \notin tm_id_state_map
                 /\ \E k \in Nat : Firings(i) = Firings(i)' + k
                 /\ Firings(i)' \in Nat
    PROVE  KeepsFirings(i)
<1>1. Firings(i) \in Nat
  BY NumbersAre
<1>2. CASE budget[i] = None
  BY <1>2 DEF KeepsFirings
<1>3. CASE Firings(i)' = Firings(i)
  BY <1>1, <1>3 DEF KeepsFirings
<1>4. CASE budget[i] # None /\ Firings(i)' # Firings(i)
  <2>1. PICK k \in Nat : Firings(i) = Firings(i)' + k
    BY <1>4
  <2>2. Firings(i)' \in Nat
    BY <1>4
  <2>3. Firings(i)' <= Firings(i)
    BY <2>1, <2>2
  <2>4. QED
    BY <1>4, <2>3 DEF KeepsFirings
<1>5. QED
  BY <1>2, <1>3, <1>4

LEMMA NextAccount ==
    TypeInv /\ AccountInv /\ [Next]_vars =>
        AccountInv' /\ \A i \in Ids : KeepsFirings(i)
<1> SUFFICES ASSUME TypeInv, AccountInv, [Next]_vars
             PROVE  AccountInv' /\ \A i \in Ids : KeepsFirings(i)
  OBVIOUS
<1>0. /\ tm_id \in Nat /\ Ids \subseteq Nat /\ None \notin Ids
      /\ None \notin Nat /\ posts \in [Ids -> Nat]
      /\ budget \in [Ids -> Nat \cup {None}]
  BY TimerAssumption DEF TypeInv, TypeOK, Ids
<1> USE DEF ids, tick, dtor, history
<1>1. ASSUME AllNodes' = AllNodes,
             UNCHANGED <<tm_id, budget, posts, popped>>,
             tm_id_state_map' \subseteq tm_id_state_map
      PROVE  AccountInv' /\ \A i \in Ids : KeepsFirings(i)
  <2>1. \A n \in AllNodes' : Fits(n)'
    BY <1>1 DEF AccountInv, Fits
  <2>2. ASSUME NEW i \in Ids
        PROVE  KeepsFirings(i)
    <3>1. Nodes(i)' = Nodes(i)
      BY <1>1, FiringsIs, NodesIs
    <3>2. Firings(i)' = Firings(i)
      BY <1>1, <3>1, FiringsIs DEF UnderWay
    <3>3. QED
      BY <1>1, <3>2, AccountsStay DEF AccountInv
  <2>3. QED
    BY <1>1, <2>1, <2>2 DEF AccountInv
<1>2. ASSUME UNCHANGED <<tm_queue, cnode>>
      PROVE  AllNodes' = AllNodes
  BY <1>2 DEF AllNodes, Queued
<1>3. CASE clock_tick
  <2>1. /\ UNCHANGED <<tm_id, tm_id_state_map, budget, posts, popped>>
        /\ AllNodes' = {Sooner(n) : n \in AllNodes}
    BY <1>3, ClockNodes DEF clock_tick
  <2>2. ASSUME NEW n \in AllNodes
        PROVE  /\ Sooner(n).tn_id = n.tn_id
               /\ Sooner(n).tn_is_period = n.tn_is_period
               /\ Sooner(n).tn_is_repeated = n.tn_is_repeated
               /\ Sooner(n).tn_repeated_num = n.tn_repeated_num
    BY AllNodesIs, SoonerNode
  <2>3. \A n \in AllNodes' : Fits(n)'
    BY <2>1, <2>2 DEF AccountInv, Fits
  <2>4. ASSUME NEW i \in Ids
        PROVE  KeepsFirings(i)
    <3>1. CASE \E n \in AllNodes : n.tn_id = i
      <4>1. PICK n \in AllNodes : n.tn_id = i
        BY <3>1
      <4>2. Nodes(i) = {n} /\ \A m \in AllNodes : m.tn_id = i => m = n
        BY <4>1, NodesIs, AllNodesIs
      <4>3. Nodes(i)' = {Sooner(n)}
        BY <2>1, <2>2, <4>1, <4>2, FiringsIs
      <4>4. Left(Nodes(i)') = Left(Nodes(i))
        BY <2>2, <4>2, <4>3, LeftIs
      <4>5. Firings(i)' = Firings(i)
        BY <2>1, <4>4, FiringsIs DEF UnderWay
      <4>6. QED
        BY <2>1, <4>5, AccountsStay DEF AccountInv
    <3>2. CASE \A n \in AllNodes : n.tn_id # i
      <4>1. Nodes(i) = {}
        BY <3>2, NodesIs
      <4>2. Nodes(i)' = {}
        BY <2>1, <2>2, <3>2, FiringsIs
      <4>3. Firings(i)' = Firings(i)
        BY <2>1, <4>1, <4>2, FiringsIs DEF UnderWay
      <4>4. QED
        BY <2>1, <4>3, AccountsStay DEF AccountInv
    <3>3. QED
      BY <3>1, <3>2
  <2>5. QED
    BY <2>1, <2>3, <2>4 DEF AccountInv
<1>4. CASE \/ run \/ tick_check \/ tick_wait \/ tick_timeout \/ tick_wait_for
           \/ spurious_wakeup
  BY <1>1, <1>2, <1>4 DEF run, tick_check, tick_wait, tick_timeout, TickGoto,
                          tick_wait_for, spurious_wakeup
<1>5. CASE dtor_stop \/ dtor_notify_all \/ dtor_joined \/ UNCHANGED vars
  BY <1>1, <1>2, <1>5 DEF dtor_stop, dtor_notify_all, dtor_joined, vars
<1>6. ASSUME NEW id \in Ids, cancel(id)
      PROVE  AccountInv' /\ \A i \in Ids : KeepsFirings(i)
  BY <1>1, <1>2, <1>6 DEF cancel, erase
<1>7. ASSUME NEW c \in Clients, push(c)
      PROVE  AccountInv' /\ \A i \in Ids : KeepsFirings(i)
  BY <1>1, <1>7, PushNodes DEF push
<1>8. ASSUME NEW c \in Clients, NEW n \in Node, n.tn_id = tm_id, Arm(c, n),
             \/ budget' = budget /\ ~n.tn_is_repeated
             \/ /\ n.tn_is_repeated /\ ~n.tn_is_period
                /\ budget' = [budget EXCEPT ![tm_id] = n.tn_repeated_num]
      PROVE  AccountInv' /\ \A i \in Ids : KeepsFirings(i)
  <2>1. /\ tm_id \in Ids /\ tm_id' = tm_id + 1 /\ UNCHANGED <<posts, popped>>
        /\ tm_id_state_map' = tm_id_state_map \cup {tm_id}
        /\ AllNodes' = AllNodes \cup {n}
    BY <1>0, <1>8, ArmNodes DEF Arm, emplace, Node
  <2>2. /\ budget[tm_id] = None /\ posts[tm_id] = 0
        /\ n.tn_repeated_num \in Nat
        /\ \A i \in Ids : i # tm_id => budget'[i] = budget[i]
    BY <1>0, <1>8, <2>1 DEF AccountInv, Node
  <2>3. (budget'[tm_id] # None) = n.tn_is_repeated
    BY <1>0, <1>8, <2>1, <2>2 DEF Node
  <2>4. \A m \in AllNodes : m.tn_id \in Ids /\ m.tn_id < tm_id
    BY AllNodesIs
  <2>5. \A m \in AllNodes : m.tn_id # tm_id
    BY <1>0, <2>4
  <2>6. ASSUME NEW m \in AllNodes'
        PROVE  Fits(m)'
    <3>1. CASE m = n
      BY <1>8, <2>2, <2>3, <3>1 DEF Fits
    <3>2. CASE m # n
      <4>1. m \in AllNodes /\ m.tn_id \in Ids /\ m.tn_id # tm_id
        BY <2>1, <2>4, <2>5, <2>6, <3>2
      <4>2. QED
        BY <2>2, <4>1 DEF AccountInv, Fits
    <3>3. QED
      BY <3>1, <3>2
  <2>7. ASSUME NEW i \in Ids, i >= tm_id'
        PROVE  budget'[i] = None /\ posts'[i] = 0
    <3>1. i >= tm_id /\ i # tm_id
      BY <1>0, <2>1, <2>7
    <3>2. QED
      BY <2>1, <2>2, <3>1 DEF AccountInv
  <2>8. ASSUME NEW i \in Ids
        PROVE  KeepsFirings(i)
    <3>1. CASE i # tm_id
      <4>1. Nodes(i)' = Nodes(i)
        BY <1>8, <2>1, <3>1, FiringsIs, NodesIs
      <4>2. Firings(i)' = Firings(i)
        BY <2>1, <4>1, FiringsIs DEF UnderWay
      <4>3. QED
        BY <2>1, <2>2, <3>1, <4>2, AccountsStay DEF AccountInv
    <3>2. CASE i = tm_id
      BY <2>2, <3>2 DEF KeepsFirings
    <3>3. QED
      BY <3>1, <3>2
  <2>9. QED
    BY <2>6, <2>7, <2>8 DEF AccountInv
<1>9. CASE tick_pop
  <2>0. PICK s : s = Head(tm_queue)
    OBVIOUS
  <2>1. /\ UNCHANGED <<tm_id, tm_id_state_map, budget, posts>>
        /\ tpc = "locked"
        /\ \/ s.tn_id \notin tm_id_state_map /\ popped' = popped
           \/ s.tn_id \in tm_id_state_map /\ popped' = s.tn_id
    BY <1>9, <2>0 DEF tick_pop, is_key_exist
  <2>2. popped = None
    BY <2>1 DEF TypeInv, Owned
  <2>3. /\ s \in AllNodes
        /\ \/ /\ s.tn_id \in tm_id_state_map
              /\ \E m \in Node : /\ Again(m, s)
                                 /\ AllNodes' = (AllNodes \ {s}) \cup {m}
           \/ /\ AllNodes' = AllNodes \ {s}
              /\ s.tn_id \in tm_id_state_map =>
                   /\ ~s.tn_is_period
                   /\ s.tn_is_repeated => s.tn_repeated_num = 0
    BY <1>9, <2>0, PopNodes
  <2>4. /\ s \in Node /\ s.tn_id \in Ids /\ s.tn_repeated_num \in Nat
        /\ Nodes(s.tn_id) = {s} /\ Fits(s)
        /\ \A n \in AllNodes : n.tn_id = s.tn_id => n = s
    <3>1. s \in Node /\ \A n \in AllNodes : n.tn_id = s.tn_id => n = s
      BY <2>3, AllNodesIs
    <3>2. QED
      BY <2>3, <3>1, NodesIs DEF Node, AccountInv
  <2>5. ASSUME NEW i \in Ids, i # s.tn_id,
               \A n \in AllNodes' : n \in AllNodes \/ n.tn_id = s.tn_id,
               \A n \in AllNodes : n \in AllNodes' \/ n = s
        PROVE  KeepsFirings(i)
    <3>1. Nodes(i)' = Nodes(i)
      BY <2>5, FiringsIs, NodesIs
    <3>2. UnderWay(i)' = UnderWay(i)
      BY <1>0, <2>1, <2>2, <2>5 DEF UnderWay
    <3>3. Firings(i)' = Firings(i)
      BY <2>1, <3>1, <3>2, FiringsIs
    <3>4. QED
      BY <2>1, <3>3, AccountsStay DEF AccountInv
  <2>6. /\ posts'[s.tn_id] = posts[s.tn_id] /\ posts[s.tn_id] \in Nat
        /\ Firings(s.tn_id) = posts[s.tn_id] + 1 + s.tn_repeated_num
    <3>1. UnderWay(s.tn_id) = 0
      BY <1>0, <2>2, <2>4 DEF UnderWay
    <3>2. posts[s.tn_id] \in Nat
      BY <1>0, <2>4
    <3>3. Firings(s.tn_id) = posts[s.tn_id] + 0 + (1 + s.tn_repeated_num)
      BY <2>4, <3>1, FiringsIs, LeftIs
    <3>4. QED
      BY <2>1, <2>4, <3>2, <3>3
  <2>7. CASE /\ s.tn_id \in tm_id_state_map
             /\ \E m \in Node : /\ Again(m, s)
                                /\ AllNodes' = (AllNodes \ {s}) \cup {m}
    <3>1. PICK m \in Node : /\ Again(m, s)
                            /\ AllNodes' = (AllNodes \ {s}) \cup {m}
      BY <2>7
    <3>2. Fits(m)'
      BY <2>1, <2>4, <3>1 DEF Fits, Again
    <3>3. \A n \in AllNodes' : Fits(n)'
      <4>1. \A n \in AllNodes : Fits(n)'
        BY <2>1 DEF Fits, AccountInv
      <4>2. QED
        BY <3>1, <3>2, <4>1
    <3>4. ASSUME budget[s.tn_id] # None
          PROVE  Firings(s.tn_id)' = Firings(s.tn_id)
      <4>1. /\ s.tn_repeated_num > 0
            /\ m.tn_repeated_num = s.tn_repeated_num - 1
        BY <2>4, <3>1, <3>4 DEF Fits, Again
      <4>2. Nodes(s.tn_id)' = {m}
        BY <2>4, <3>1, FiringsIs DEF Again
      <4>3. UnderWay(s.tn_id)' = 1
        BY <2>1, <2>7 DEF UnderWay
      <4>4. Firings(s.tn_id)' =
              posts[s.tn_id] + 1 + (1 + (s.tn_repeated_num - 1))
        BY <2>4, <2>6, <4>1, <4>2, <4>3, FiringsIs, LeftIs
      <4>5. QED
        BY <2>4, <2>6, <4>4
    <3>5. KeepsFirings(s.tn_id)
      BY <2>1, <2>4, <2>6, <3>4, AccountsStay
    <3>6. \A i \in Ids : KeepsFirings(i)
      BY <2>5, <3>1, <3>5 DEF Again
    <3>7. QED
      BY <2>1, <3>3, <3>6 DEF AccountInv
  <2>8. CASE /\ AllNodes' = AllNodes \ {s}
             /\ s.tn_id \in tm_id_state_map =>
                  /\ ~s.tn_is_period
                  /\ s.tn_is_repeated => s.tn_repeated_num = 0
    <3>1. \A n \in AllNodes' : Fits(n)'
      BY <2>1, <2>8 DEF Fits, AccountInv
    <3>2. Nodes(s.tn_id)' = {}
      BY <2>4, <2>8, FiringsIs
    <3>3. ASSUME s.tn_id \in tm_id_state_map
          PROVE  KeepsFirings(s.tn_id)
      <4>1. ASSUME budget[s.tn_id] # None
            PROVE  Firings(s.tn_id)' = Firings(s.tn_id)
        <5>1. s.tn_repeated_num = 0
          BY <2>4, <2>8, <3>3, <4>1 DEF Fits
        <5>2. UnderWay(s.tn_id)' = 1
          BY <2>1, <3>3 DEF UnderWay
        <5>3. Firings(s.tn_id)' = posts[s.tn_id] + 1 + 0
          BY <2>4, <2>6, <3>2, <5>2, FiringsIs, LeftIs
        <5>4. QED
          BY <2>6, <5>1, <5>3
      <4>2. QED
        BY <2>1, <2>4, <2>6, <4>1, AccountsStay
    <3>4. ASSUME s.tn_id \notin tm_id_state_map
          PROVE  KeepsFirings(s.tn_id)
      <4>1. UnderWay(s.tn_id)' = 0
        BY <1>0, <2>1, <2>2, <2>4, <3>4 DEF UnderWay
      <4>2. Firings(s.tn_id)' = posts[s.tn_id] + 0 + 0
        BY <2>4, <2>6, <3>2, <4>1, FiringsIs, LeftIs
      <4>3. /\ Firings(s.tn_id)' \in Nat /\ 1 + s.tn_repeated_num \in Nat
            /\ Firings(s.tn_id) = Firings(s.tn_id)' + (1 + s.tn_repeated_num)
        BY <2>4, <2>6, <4>2
      <4>4. QED
        BY <2>1, <2>4, <2>6, <3>4, <4>3, AccountsStay
    <3>5. KeepsFirings(s.tn_id)
      BY <3>3, <3>4
    <3>6. \A i \in Ids : KeepsFirings(i)
      BY <2>5, <2>8, <3>5
    <3>7. QED
      BY <2>1, <3>1, <3>6 DEF AccountInv
  <2>9. QED
    BY <2>3, <2>7, <2>8
<1>10. CASE tick_post
  <2>1. /\ UNCHANGED <<tm_queue, cnode, tm_id, tm_id_state_map, budget>>
        /\ popped' = None
        /\ posts' = [posts EXCEPT ![popped] =
                       IF budget[popped] = None THEN @ ELSE @ + 1]
    BY <1>10 DEF tick_post
  <2>2. popped \in Ids /\ popped < tm_id
    BY <1>10 DEF tick_post, TypeInv, TypeOK, Owned
  <2>3. AllNodes' = AllNodes
    BY <1>2, <2>1
  <2>4. \A n \in AllNodes' : Fits(n)'
    BY <2>1, <2>3 DEF AccountInv, Fits
  <2>5. /\ \A i \in Ids : i # popped => posts'[i] = posts[i]
        /\ budget[popped] # None => posts'[popped] = posts[popped] + 1
    BY <1>0, <2>1, <2>2
  <2>6. ASSUME NEW i \in Ids, i >= tm_id'
        PROVE  budget'[i] = None /\ posts'[i] = 0
    <3>1. i >= tm_id /\ i # popped
      BY <1>0, <2>1, <2>2, <2>6
    <3>2. QED
      BY <2>1, <2>5, <3>1 DEF AccountInv
  <2>7. ASSUME NEW i \in Ids
        PROVE  KeepsFirings(i)
    <3>1. Nodes(i)' = Nodes(i) /\ UnderWay(i)' = 0
      BY <1>0, <2>1, <2>3, FiringsIs, NodesIs DEF UnderWay
    <3>2. /\ posts[i] \in Nat /\ Left(Nodes(i)) \in Nat
          /\ UnderWay(i) = IF i = popped THEN 1 ELSE 0
      BY NumbersAre DEF UnderWay
    <3>3. ASSUME budget[i] # None
          PROVE  Firings(i)' = Firings(i)
      <4>1. CASE i = popped
        BY <2>5, <3>1, <3>2, <3>3, <4>1, FiringsIs
      <4>2. CASE i # popped
        BY <2>5, <3>1, <3>2, <3>3, <4>2, FiringsIs
      <4>3. QED
        BY <4>1, <4>2
    <3>4. QED
      BY <2>1, <3>3, AccountsStay DEF AccountInv
  <2>8. QED
    BY <2>4, <2>6, <2>7 DEF AccountInv
<1>11. ASSUME NEW c \in Clients, NEW ms \in Delays, NEW p \in BOOLEAN,
              run_after(c, ms, p)
       PROVE  AccountInv' /\ \A i \in Ids : KeepsFirings(i)
  BY <1>8, <1>11, ArmedNode
<1>12. ASSUME NEW c \in Clients, NEW at \in Points, run_at(c, at)
       PROVE  AccountInv' /\ \A i \in Ids : KeepsFirings(i)
  BY <1>8, <1>12, ArmedNode
<1>13. ASSUME NEW c \in Clients, NEW ms \in Delays, NEW num \in Repeats,
              run_repeated(c, ms, num)
       PROVE  AccountInv' /\ \A i \in Ids : KeepsFirings(i)
  BY <1>8, <1>13, ArmedNode
<1>14. QED
  BY <1>3, <1>4, <1>5, <1>6, <1>7, <1>9, <1>10, <1>11, <1>12, <1>13
     DEF Next, TickThread, DtorStep

(* No step loses or adds a firing of a repeated timer, however its         *)
(* requeueing, the posting of its callback and its cancel interleave.      *)
THEOREM RepetitionsAccounted == Spec => RepeatAccounting
<1>1. Init => AccountInv
  <2> SUFFICES ASSUME Init
               PROVE  AccountInv
    OBVIOUS
  <2>1. AllNodes = {}
    BY DEF Init, AllNodes, Queued, Range
  <2>2. QED
    BY <2>1 DEF Init, AccountInv
<1>2. QED
  BY <1>1, TypeInvHolds, NextAccount, PTL DEF Spec, RepeatAccounting
=============================================================================
