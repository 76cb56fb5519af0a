---------------------------- MODULE LoggerProofs ----------------------------
(***************************************************************************)
(* Theorems about Logger, for any set of logging threads, any number of    *)
(* lines, any size of the queue and any split_lines.                       *)
(***************************************************************************)
EXTENDS Logger, FiniteSetTheorems, TLAPS

-----------------------------------------------------------------------------
LEMMA AppendIs ==
    ASSUME NEW S, NEW s \in Seq(S), NEW e \in S
    PROVE  /\ Len(s) \in Nat /\ Len(Append(s, e)) = Len(s) + 1
           /\ Append(s, e)[Len(s) + 1] = e
           /\ \A i \in 1..Len(s) : Append(s, e)[i] = s[i]
  OBVIOUS

(* The indices of the ring go round: arithmetic modulo the capacity.       *)
LEMMA MulGrows ==
    ASSUME NEW c \in Nat \ {0}, NEW k \in Nat \ {0}
    PROVE  c * k >= c
  OBVIOUS

LEMMA ModDef ==
    ASSUME NEW c \in Nat \ {0}, NEW q \in Nat, NEW r \in 0..(c - 1),
           NEW n \in Nat, n = c * q + r
    PROVE  n % c = r
<1> DEFINE p == n \div c
           s == n % c
<1>1. n = c * p + s /\ s \in 0..(c - 1) /\ p \in Nat
  OBVIOUS
<1> HIDE DEF p, s
<1>2. CASE p = q
  BY <1>1, <1>2 DEF s
<1>3. CASE p > q
  <2>1. c * (p - q) >= c
    BY <1>1, <1>3, MulGrows
  <2>2. c * (p - q) = c * p - c * q
    BY <1>1
  <2>3. QED
    BY <1>1, <2>1, <2>2
<1>4. CASE p < q
  <2>1. c * (q - p) >= c
    BY <1>1, <1>4, MulGrows
  <2>2. c * (q - p) = c * q - c * p
    BY <1>1
  <2>3. QED
    BY <1>1, <2>1, <2>2
<1>5. QED
  BY <1>1, <1>2, <1>3, <1>4

(* The remainder of the next number is one more, or wraps to 0.            *)
LEMMA ModStep ==
    ASSUME NEW c \in Nat \ {0}, NEW n \in Nat
    PROVE  /\ n % c \in 0..(c - 1)
           /\ (n + 1) % c = IF n % c = c - 1 THEN 0 ELSE (n % c) + 1
<1> DEFINE q == n \div c
           s == n % c
<1>1. n = c * q + s /\ s \in 0..(c - 1) /\ q \in Nat
  OBVIOUS
<1> HIDE DEF q, s
<1>2. CASE s = c - 1
  <2>1. n + 1 = c * (q + 1) + 0
    BY <1>1, <1>2
  <2>2. (n + 1) % c = 0
    BY <1>1, <2>1, ModDef
  <2>3. QED
    BY <1>1, <1>2, <2>2 DEF s
<1>3. CASE s # c - 1
  <2>1. n + 1 = c * q + (s + 1) /\ s + 1 \in 0..(c - 1)
    BY <1>1, <1>3
  <2>2. (n + 1) % c = s + 1
    BY <1>1, <2>1, ModDef
  <2>3. QED
    BY <1>1, <1>3, <2>2 DEF s
<1>4. QED
  BY <1>2, <1>3

LEMMA ModOfMod ==
    ASSUME NEW c \in Nat \ {0}, NEW n \in Nat
    PROVE  ((n % c) + 1) % c = (n + 1) % c
<1>1. n % c \in Nat /\ (n % c) % c = n % c
  OBVIOUS
<1>2. QED
  BY <1>1, ModStep

(* Numbers less than the capacity apart have different slots.              *)
LEMMA ModApart ==
    ASSUME NEW c \in Nat \ {0}, NEW a \in Nat, NEW b \in Nat, a < b, b < a + c
    PROVE  a % c # b % c
<1> SUFFICES ASSUME a % c = b % c
             PROVE  FALSE
  OBVIOUS
<1> DEFINE p == a \div c
           q == b \div c
           r == a % c
<1>1. /\ a = c * p + r /\ b = c * q + r
      /\ p \in Nat /\ q \in Nat /\ r \in Nat
  OBVIOUS
<1> HIDE DEF p, q, r
<1>2. CASE p < q
  <2>1. c * (q - p) >= c
    BY <1>1, <1>2, MulGrows
  <2>2. c * (q - p) = c * q - c * p
    BY <1>1
  <2>3. QED
    BY <1>1, <2>1, <2>2
<1>3. CASE q <= p
  <2>1. c * (p - q) >= 0
    BY <1>1, <1>3
  <2>2. c * (p - q) = c * p - c * q
    BY <1>1
  <2>3. QED
    BY <1>1, <2>1, <2>2
<1>4. QED
  BY <1>1, <1>2, <1>3

-----------------------------------------------------------------------------
(* What the ring q holds when in has been pushed and out popped: item i    *)
(* (from 0) is in slot i modulo the capacity, and the next push and the    *)
(* next pop go to the slots of the next items.                             *)
Ring(q, in, out) ==
    /\ Len(out) <= Len(in)
    /\ q.b_size = Len(in) - Len(out)
    /\ (q.b_last + 1) % QueueSize = Len(in) % QueueSize
    /\ (q.b_first + 1) % QueueSize = Len(out) % QueueSize
    /\ \A i \in Len(out)..(Len(in) - 1) :
          q.b_array[i % QueueSize] = in[i + 1]

LEMMA NewRing == NewQueue \in QueueType(Lines) /\ Ring(NewQueue, <<>>, <<>>)
<1>1. NewQueue \in QueueType(Lines)
  BY LoggerAssumption DEF NewQueue, QueueType
<1>2. Ring(NewQueue, <<>>, <<>>)
  BY LoggerAssumption DEF NewQueue, Ring
<1>3. QED
  BY <1>1, <1>2

LEMMA PushRing ==
    ASSUME NEW q \in QueueType(Lines), NEW in \in Seq(Lines),
           NEW out \in Seq(Lines), NEW l \in Lines,
           Ring(q, in, out), ~Full(q)
    PROVE  /\ Push(q, l) \in QueueType(Lines)
           /\ Ring(Push(q, l), Append(in, l), out)
<1> DEFINE c == QueueSize
           p == Len(in)
           r == Push(q, l)
           in2 == Append(in, l)
<1> USE LoggerAssumption
<1>0. p \in Nat /\ Len(out) \in Nat /\ c \in Nat \ {0} /\ q.b_size \in 0..c
  BY DEF QueueType
<1>1. /\ p - Len(out) < c /\ q.b_size < c /\ p % c \in 0..(c - 1)
      /\ (q.b_last + 1) % c = p % c
  BY <1>0 DEF Ring, Full
<1>2. /\ r.b_array = [q.b_array EXCEPT ![p % c] = l]
      /\ r.b_last = p % c /\ r.b_size = q.b_size + 1 /\ r.b_first = q.b_first
  BY <1>1 DEF Push, QueueType
<1>3. r \in QueueType(Lines)
  <2>1. q.b_array \in [0..(c - 1) -> Lines \cup {None}]
    BY DEF QueueType
  <2>2. [q.b_array EXCEPT ![p % c] = l] \in [0..(c - 1) -> Lines \cup {None}]
    BY <2>1
  <2>3. q.b_size + 1 \in 0..c
    BY <1>0, <1>1
  <2>4. r = [b_array |-> [q.b_array EXCEPT ![p % c] = l], b_first |-> q.b_first,
             b_last |-> p % c, b_size |-> q.b_size + 1]
    BY <1>1 DEF Push
  <2>5. q.b_first \in -1..(c - 1) /\ p % c \in -1..(c - 1)
    BY <1>0, <1>1 DEF QueueType
  <2>6. QED
    BY <2>2, <2>3, <2>4, <2>5 DEF QueueType
<1>4. Len(in2) = p + 1 /\ in2[p + 1] = l /\ \A i \in 1..p : in2[i] = in[i]
  OBVIOUS
<1>5. (r.b_last + 1) % c = (p + 1) % c
  BY <1>0, <1>2, ModOfMod
<1>6. ASSUME NEW i \in Len(out)..p
      PROVE  r.b_array[i % c] = in2[i + 1]
  <2>1. q.b_array \in [0..(c - 1) -> Lines \cup {None}] /\ i \in Nat
        /\ i % c \in 0..(c - 1)
    BY <1>0 DEF QueueType
  <2>2. CASE i = p
    BY <1>1, <1>2, <1>4, <2>1, <2>2
  <2>3. CASE i # p
    <3>1. i < p /\ p < i + c /\ i + 1 \in 1..p /\ i \in Len(out)..(p - 1)
      BY <1>0, <1>1, <2>3
    <3>2. i % c # p % c
      BY <1>0, <2>1, <3>1, ModApart
    <3>3. q.b_array[i % c] = in[i + 1]
      BY <3>1 DEF Ring
    <3>4. QED
      BY <1>1, <1>2, <1>4, <2>1, <3>1, <3>2, <3>3
  <2>4. QED
    BY <2>2, <2>3
<1> HIDE DEF r, in2
<1>7. Ring(r, in2, out)
  <2>1. Len(in2) - 1 = p /\ Len(out) <= p
    BY <1>0, <1>4 DEF Ring
  <2>2. \A i \in Len(out)..(Len(in2) - 1) : r.b_array[i % c] = in2[i + 1]
    BY <1>6, <2>1
  <2>3. Len(out) <= Len(in2) /\ r.b_size = Len(in2) - Len(out)
    BY <1>0, <1>2, <1>4 DEF Ring
  <2>4. (r.b_first + 1) % c = Len(out) % c
    BY <1>2 DEF Ring
  <2>5. QED
    BY <1>4, <1>5, <2>2, <2>3, <2>4 DEF Ring
<1>8. QED
  BY <1>3, <1>7 DEF r, in2

LEMMA PopRing ==
    ASSUME NEW q \in QueueType(Lines), NEW in \in Seq(Lines),
           NEW out \in Seq(Lines), Ring(q, in, out), ~Empty(q)
    PROVE  /\ Len(out) < Len(in)
           /\ PopItem(q) = in[Len(out) + 1] /\ PopItem(q) \in Lines
           /\ Pop(q) \in QueueType(Lines)
           /\ Ring(Pop(q), in, Append(out, PopItem(q)))
<1> DEFINE c == QueueSize
           k == Len(out)
           r == Pop(q)
           out2 == Append(out, PopItem(q))
<1> USE LoggerAssumption
<1>0. k \in Nat /\ Len(in) \in Nat /\ c \in Nat \ {0} /\ q.b_size \in 0..c
  BY DEF QueueType
<1>1. k < Len(in) /\ (q.b_first + 1) % c = k % c /\ k % c \in 0..(c - 1)
  BY <1>0 DEF Ring, Empty
<1>2. PopItem(q) = in[k + 1]
  <2>1. k \in k..(Len(in) - 1)
    BY <1>0, <1>1
  <2>2. \A i \in k..(Len(in) - 1) : q.b_array[i % c] = in[i + 1]
    BY DEF Ring
  <2>3. q.b_array[k % c] = in[k + 1]
    BY <2>1, <2>2
  <2>4. PopItem(q) = q.b_array[k % c]
    BY <1>1 DEF PopItem
  <2>5. QED
    BY <2>3, <2>4
<1>3. PopItem(q) \in Lines
  BY <1>0, <1>1, <1>2
<1>4. /\ r.b_array = q.b_array /\ r.b_last = q.b_last
      /\ r.b_size = q.b_size - 1 /\ r.b_first = k % c
  BY <1>1 DEF Pop, QueueType
<1>5. r \in QueueType(Lines)
  <2>1. q.b_size - 1 \in 0..c
    BY <1>0 DEF Empty
  <2>2. r = [b_array |-> q.b_array, b_first |-> k % c,
             b_last |-> q.b_last, b_size |-> q.b_size - 1]
    BY <1>1 DEF Pop
  <2>3. /\ q.b_array \in [0..(c - 1) -> Lines \cup {None}]
        /\ q.b_last \in -1..(c - 1) /\ k % c \in -1..(c - 1)
    BY <1>0, <1>1 DEF QueueType
  <2>4. QED
    BY <2>1, <2>2, <2>3 DEF QueueType
<1>6. Len(out2) = k + 1
  BY <1>3
<1>7. (r.b_first + 1) % c = (k + 1) % c
  BY <1>0, <1>4, ModOfMod
<1> HIDE DEF r, out2
<1>8. Ring(r, in, out2)
  <2>1. Len(out2) <= Len(in) /\ r.b_size = Len(in) - Len(out2)
    BY <1>0, <1>1, <1>4, <1>6 DEF Ring
  <2>2. (r.b_last + 1) % c = Len(in) % c
    BY <1>4 DEF Ring
  <2>3. (r.b_first + 1) % c = Len(out2) % c
    BY <1>6, <1>7
  <2>4. ASSUME NEW i \in Len(out2)..(Len(in) - 1)
        PROVE  r.b_array[i % c] = in[i + 1]
    <3>1. i \in k..(Len(in) - 1)
      BY <1>0, <1>6
    <3>2. QED
      BY <1>4, <3>1 DEF Ring
  <2>5. QED
    BY <2>1, <2>2, <2>3, <2>4 DEF Ring
<1>9. QED
  BY <1>1, <1>2, <1>3, <1>5, <1>8 DEF r, out2

-----------------------------------------------------------------------------
(* A call of write_log has a line to put until it returns, the writer has  *)
(* one from pop to fputs, and the queue is a ring of the lines pushed and  *)
(* not popped.                                                             *)
Holding ==
    /\ \A t \in Threads : lpc[t] # "idle" => line[t] > 0
    /\ wpc \in {"test", "write"} => single_line \in Lines

TypeInv == TypeOK /\ Holding /\ Ring(queue, pushed, popped)

LEMMA InitTypeInv == Init => TypeInv
<1> SUFFICES ASSUME Init
             PROVE  TypeInv
  OBVIOUS
<1> USE LoggerAssumption DEF Init
<1>1. queue \in QueueType(Lines) /\ Ring(queue, pushed, popped)
  BY NewRing
<1>2. TypeOK
  <2>1. {l_is_async, is_thread_stop, missed, crashed, stale} \subseteq BOOLEAN
    OBVIOUS
  <2>2. written \in Seq(Lines) /\ pushed \in Seq(Lines) /\ popped \in Seq(Lines)
    OBVIOUS
  <2>3. wpc \in {"none", "pop", "block", "wait", "woken", "test", "write", "exit"}
    OBVIOUS
  <2>4. /\ name \in Names /\ DOMAIN files \subseteq Names
        /\ files \in [DOMAIN files -> Nat]
    BY DEF Names
  <2>5. QED
    BY <1>1, <2>1, <2>2, <2>3, <2>4 DEF TypeOK
<1>3. Holding
  BY DEF Holding
<1>4. QED
  BY <1>1, <1>2, <1>3 DEF TypeInv

(* A call under way has a line.                                            *)
LEMMA LineOf ==
    ASSUME TypeInv, NEW t \in Threads, lpc[t] # "idle"
    PROVE  <<t, line[t]>> \in Lines
  BY LoggerAssumption DEF TypeInv, TypeOK, Holding, Lines

LEMMA PutAsyncStep ==
    ASSUME TypeInv, NEW t \in Threads, put_async(t)
    PROVE  /\ Ring(queue, pushed, popped)'
           /\ queue' \in QueueType(Lines) /\ pushed' \in Seq(Lines)
           /\ <<t, line[t]>> \in Lines
<1>1. <<t, line[t]>> \in Lines
  BY LineOf DEF put_async, Goto
<1>2. /\ queue \in QueueType(Lines) /\ pushed \in Seq(Lines)
      /\ popped \in Seq(Lines)
  BY DEF TypeInv, TypeOK
<1>3. /\ queue' = Push(queue, <<t, line[t]>>) /\ ~Full(queue)
      /\ pushed' = Append(pushed, <<t, line[t]>>) /\ popped' = popped
  BY DEF put_async
<1>4. Ring(queue, pushed, popped)
  BY DEF TypeInv
<1>5. /\ Push(queue, <<t, line[t]>>) \in QueueType(Lines)
      /\ Ring(Push(queue, <<t, line[t]>>), Append(pushed, <<t, line[t]>>),
              popped)
  BY <1>1, <1>2, <1>3, <1>4, PushRing
<1>6. pushed' \in Seq(Lines)
  BY <1>1, <1>2, <1>3
<1>7. QED
  BY <1>1, <1>3, <1>5, <1>6

LEMMA WriterPopStep ==
    ASSUME TypeInv, writer_pop
    PROVE  /\ Ring(queue, pushed, popped)'
           /\ queue' \in QueueType(Lines) /\ popped' \in Seq(Lines)
           /\ single_line' \in Lines
           /\ Len(popped) < Len(pushed)
           /\ single_line' = pushed[Len(popped) + 1]
<1>1. /\ queue \in QueueType(Lines) /\ pushed \in Seq(Lines)
      /\ popped \in Seq(Lines) /\ Ring(queue, pushed, popped)
  BY DEF TypeInv, TypeOK
<1>2. /\ queue' = Pop(queue) /\ ~Empty(queue) /\ pushed' = pushed
      /\ popped' = Append(popped, PopItem(queue))
      /\ single_line' = PopItem(queue)
  BY DEF writer_pop, Take
<1>3. /\ Len(popped) < Len(pushed) /\ PopItem(queue) = pushed[Len(popped) + 1]
      /\ PopItem(queue) \in Lines /\ Pop(queue) \in QueueType(Lines)
      /\ Ring(Pop(queue), pushed, Append(popped, PopItem(queue)))
  BY <1>1, <1>2, PopRing
<1>4. QED
  BY <1>1, <1>2, <1>3 DEF Ring

LEMMA DivNat ==
    ASSUME NEW c \in Nat \ {0}, NEW n \in Nat
    PROVE  n \div c \in Nat
  OBVIOUS

(* The name of another file, and the files once it has been opened.        *)
LEMMA NewNameType ==
    ASSUME TypeInv, NEW t \in Threads
    PROVE  NewName(t) \in Names
<1>1. l_count + 1 \in Nat /\ SplitLines \in Nat \ {0}
  BY LoggerAssumption DEF TypeInv, TypeOK
<1>2. (l_count + 1) \div SplitLines \in Nat
  BY <1>1, DivNat
<1>3. QED
  BY <1>2 DEF NewName, Names, TypeInv, TypeOK

LEMMA AppendableType ==
    ASSUME TypeInv, NEW f \in Names
    PROVE  /\ DOMAIN Appendable(f) \subseteq Names
           /\ Appendable(f) \in [DOMAIN Appendable(f) -> Nat]
  BY DEF Appendable, TypeInv, TypeOK

LEMMA FputsType ==
    ASSUME TypeInv, NEW l \in Lines, Fputs(l)
    PROVE  /\ crashed' \in BOOLEAN /\ in_file' \in Nat
           /\ written' \in Seq(Lines)
           /\ DOMAIN files' \subseteq Names /\ files' \in [DOMAIN files' -> Nat]
<1>1. crashed' \in BOOLEAN /\ in_file' \in Nat /\ written' \in Seq(Lines)
  BY DEF Fputs, TypeInv, TypeOK
<1>2. DOMAIN files' = DOMAIN files /\ files' \in [DOMAIN files -> Nat]
  <2> DEFINE D == DOMAIN files
  <2>1. files \in [D -> Nat] /\ (files' = files \/
                                 files' = [files EXCEPT ![name] = @ + 1])
    BY DEF Fputs, TypeInv, TypeOK
  <2> HIDE DEF D
  <2>2. DOMAIN files' = D /\ files' \in [D -> Nat]
    BY <2>1
  <2>3. QED
    BY <2>2 DEF D
<1>3. QED
  BY <1>1, <1>2 DEF TypeInv, TypeOK

LEMMA NextTypeInv == TypeInv /\ [Next]_vars => TypeInv'
<1> SUFFICES ASSUME TypeInv, [Next]_vars
             PROVE  TypeInv'
  OBVIOUS
<1> USE LoggerAssumption
    DEF TypeInv, TypeOK, Holding, sink, loggers, writer, dtor, file, ring,
        Goto, WriterGoto
<1>0. ASSUME UNCHANGED ring
      PROVE  Ring(queue, pushed, popped)'
  BY <1>0 DEF Ring
<1>1. CASE midnight
  BY <1>0, <1>1 DEF midnight
<1>2. ASSUME NEW t \in Threads, write_log(t)
      PROVE  TypeInv'
  BY <1>0, <1>2 DEF write_log
<1>3. ASSUME NEW t \in Threads, count_line(t)
      PROVE  TypeInv'
  <2>1. l_count' \in Nat /\ stale' \in BOOLEAN
    BY <1>3 DEF count_line
  <2>2. /\ l_fp' \in {"stdout", "file", "NULL"} /\ in_file' \in Nat
        /\ name' \in Names /\ crashed' \in BOOLEAN
        /\ DOMAIN files' \subseteq Names /\ files' \in [DOMAIN files' -> Nat]
    <3>1. CASE SplitNow(t) /\ l_fp # "NULL"
      <4>1. NewName(t) \in Names
        BY NewNameType
      <4>2. /\ in_file' = 0 /\ name' = NewName(t) /\ crashed' = crashed
            /\ \/ l_fp' = "file" /\ files' = Appendable(NewName(t))
               \/ l_fp' = "NULL" /\ files' = files
        BY <1>3, <3>1 DEF count_line, fopen
      <4>3. QED
        BY <4>1, <4>2, AppendableType
    <3>2. CASE ~(SplitNow(t) /\ l_fp # "NULL")
      BY <1>3, <3>2 DEF count_line, fopen
    <3>3. QED
      BY <3>1, <3>2
  <2>3. QED
    BY <1>0, <1>3, <2>1, <2>2 DEF count_line
<1>4. ASSUME NEW t \in Threads, put_sync(t)
      PROVE  TypeInv'
  <2>1. <<t, line[t]>> \in Lines
    BY <1>4, LineOf DEF put_sync
  <2>2. /\ crashed' \in BOOLEAN /\ in_file' \in Nat
        /\ written' \in Seq(Lines)
        /\ DOMAIN files' \subseteq Names /\ files' \in [DOMAIN files' -> Nat]
    BY <1>4, <2>1, FputsType DEF put_sync
  <2>3. UNCHANGED <<l_fp, name>>
    BY <1>4 DEF put_sync, Fputs
  <2>4. QED
    BY <1>0, <1>4, <2>2, <2>3 DEF put_sync
<1>5. ASSUME NEW t \in Threads, put_async(t)
      PROVE  TypeInv'
  BY <1>5, PutAsyncStep DEF put_async, WakeWriter
<1>6. ASSUME NEW t \in Threads, give_up(t)
      PROVE  TypeInv'
  BY <1>0, <1>6 DEF give_up, WakeWriter
<1>7. CASE writer_pop
  BY <1>7, WriterPopStep DEF writer_pop
<1>8. CASE \/ writer_block \/ writer_wait \/ spurious_wakeup \/ writer_ends
           \/ writer_test
  BY <1>0, <1>8 DEF writer_block, writer_wait, spurious_wakeup, writer_ends,
                    writer_test
<1>9. CASE writer_write
  <2>1. /\ crashed' \in BOOLEAN /\ in_file' \in Nat
        /\ written' \in Seq(Lines)
        /\ DOMAIN files' \subseteq Names /\ files' \in [DOMAIN files' -> Nat]
    BY <1>9, FputsType DEF writer_write
  <2>2. UNCHANGED <<l_fp, name>>
    BY <1>9 DEF writer_write, Fputs
  <2>3. QED
    BY <1>0, <1>9, <2>1, <2>2 DEF writer_write
<1>10. CASE dtor_stop \/ dtor_joined
  BY <1>0, <1>10 DEF dtor_stop, dtor_joined
<1>11. CASE dtor_notify
  BY <1>0, <1>11 DEF dtor_notify, WakeWriter
<1>12. CASE UNCHANGED vars
  BY <1>0, <1>12 DEF vars
<1>13. QED
  BY <1>1, <1>2, <1>3, <1>4, <1>5, <1>6, <1>7, <1>8, <1>9, <1>10, <1>11,
     <1>12 DEF Next, LogStep, WriterStep, DtorStep

LEMMA TypeInvHolds == Spec => []TypeInv
  BY InitTypeInv, NextTypeInv, PTL DEF Spec

(* The state of the logger stays well formed: every index stays inside the *)
(* ring, and what is popped, carried and written is always a line.         *)
THEOREM TypeCorrect == Spec => []TypeOK
<1>1. TypeInv => TypeOK
  BY DEF TypeInv
<1>2. QED
  BY <1>1, TypeInvHolds, PTL

-----------------------------------------------------------------------------
LEMMA NextNoSleep ==
    TypeInv /\ NoSleepBesideLine /\ [Next]_vars => NoSleepBesideLine'
<1> SUFFICES ASSUME TypeInv, NoSleepBesideLine, [Next]_vars
             PROVE  NoSleepBesideLine'
  OBVIOUS
<1> USE DEF NoSleepBesideLine, Empty, writer, ring, WriterGoto, WakeWriter
<1>1. CASE midnight \/ UNCHANGED vars
  BY <1>1 DEF midnight, vars
<1>2. ASSUME NEW t \in Threads,
             write_log(t) \/ count_line(t) \/ put_sync(t) \/ give_up(t)
      PROVE  NoSleepBesideLine'
  BY <1>2 DEF write_log, count_line, put_sync, give_up
<1>3. ASSUME NEW t \in Threads, put_async(t)
      PROVE  NoSleepBesideLine'
  BY <1>3 DEF put_async
<1>4. CASE writer_pop \/ writer_write
  BY <1>4 DEF writer_pop, writer_write
<1>5. CASE \/ writer_block \/ writer_wait \/ spurious_wakeup \/ writer_ends
           \/ writer_test
  BY <1>5 DEF writer_block, writer_wait, spurious_wakeup, writer_ends,
              writer_test
<1>6. CASE dtor_stop \/ dtor_notify \/ dtor_joined
  BY <1>6 DEF dtor_stop, dtor_notify, dtor_joined
<1>7. QED
  BY <1>1, <1>2, <1>3, <1>4, <1>5, <1>6
     DEF Next, LogStep, WriterStep, DtorStep

(* pop waits only on an empty queue and every push that ends that wakes it,*)
(* also when the push falls between pop's look at the size and its wait.   *)
THEOREM NoSleep == Spec => []NoSleepBesideLine
<1>1. Init => NoSleepBesideLine
  BY DEF Init, NoSleepBesideLine, NewQueue, Empty
<1>2. QED
  BY <1>1, TypeInvHolds, NextNoSleep, PTL DEF Spec

-----------------------------------------------------------------------------
LEMMA NextBox == TypeInv /\ [Next]_vars => [Box!Next]_(Box!vars)
<1> SUFFICES ASSUME TypeInv, [Next]_vars
             PROVE  [Box!Next]_(Box!vars)
  OBVIOUS
<1> USE DEF ring, Box!vars
<1>1. ASSUME NEW t \in Threads, put_async(t)
      PROVE  Box!Next
  BY <1>1, PutAsyncStep DEF put_async, Box!Next, Box!Accept
<1>2. CASE writer_pop
  <2>1. Len(popped) < Len(pushed) /\ single_line' = pushed[Len(popped) + 1]
    BY <1>2, WriterPopStep
  <2>2. popped' = Append(popped, single_line') /\ pushed' = pushed
    BY <1>2 DEF writer_pop, Take
  <2>3. QED
    BY <2>1, <2>2 DEF Box!Next, Box!Deliver
<1>3. ASSUME NEW t \in Threads,
             write_log(t) \/ count_line(t) \/ put_sync(t) \/ give_up(t)
      PROVE  UNCHANGED <<pushed, popped>>
  BY <1>3 DEF write_log, count_line, put_sync, give_up
<1>4. CASE \/ writer_block \/ writer_wait \/ spurious_wakeup \/ writer_ends
           \/ writer_test \/ writer_write \/ midnight \/ UNCHANGED vars
           \/ dtor_stop \/ dtor_notify \/ dtor_joined
  BY <1>4 DEF writer_block, writer_wait, spurious_wakeup, writer_ends,
              writer_test, writer_write, WriterGoto, midnight, vars,
              dtor_stop, dtor_notify, dtor_joined
<1>5. QED
  BY <1>1, <1>2, <1>3, <1>4 DEF Next, LogStep, WriterStep, DtorStep

(* buffer_queue implements Mailbox: through wrap-around, with the queue    *)
(* full and empty, lines are popped once each and in the order of pushing. *)
THEOREM RingRefinesMailbox == Spec => InOrderOnce
<1>1. Init => Box!Init
  BY DEF Init, Box!Init
<1>2. QED
  BY <1>1, TypeInvHolds, NextBox, PTL DEF Spec, InOrderOnce, Box!Spec

-----------------------------------------------------------------------------
(* What the calls have handed over, to the queue or to the file.           *)
Given == IF l_is_async THEN pushed ELSE written
Done(t) == IF lpc[t] = "idle" THEN line[t] ELSE line[t] - 1

(* Until the logger is stopped, the lines handed over are in order and are *)
(* exactly those whose calls have got so far.                              *)
HandedOver ==
    ~is_thread_stop /\ ~crashed =>
        /\ InOrder(Given)
        /\ \A t \in Threads, n \in 1..MaxLines :
              (\E i \in 1..Len(Given) : Given[i] = <<t, n>>) <=> n <= Done(t)

(* The file gets what is popped, except for the line the writer carries;   *)
(* one that it is going to write belongs behind what is written.           *)
Carried ==
    /\ (wpc = "none") = ~l_is_async
    /\ is_thread_stop => l_is_async
    /\ \A i \in 1..Len(popped) : popped[i] = pushed[i]
    /\ ~crashed /\ wpc \in {"test", "write"} =>
          popped = Append(written, single_line)
    /\ ~crashed /\ wpc \in {"pop", "block", "wait", "woken"} => popped = written
    /\ ~crashed /\ wpc = "write" => InOrder(Append(written, single_line))

OrderInv == ThreadOrderKept /\ HandedOver /\ Carried

LEMMA InOrderAppend ==
    ASSUME NEW s \in Seq(Lines), NEW t \in Threads, NEW n \in 1..MaxLines,
           InOrder(s), \A i \in 1..Len(s) : s[i] # <<t, n>>,
           n > 1 => \E i \in 1..Len(s) : s[i] = <<t, n - 1>>
    PROVE  InOrder(Append(s, <<t, n>>))
<1> DEFINE l == <<t, n>>
           u == Append(s, l)
<1>0. l \in Lines /\ l[1] = t /\ l[2] = n
  BY DEF Lines
<1> HIDE DEF l
<1>1. /\ Len(s) \in Nat /\ Len(u) = Len(s) + 1 /\ u[Len(s) + 1] = l
      /\ \A i \in 1..Len(s) : u[i] = s[i]
  BY <1>0
<1> HIDE DEF u
<1> SUFFICES ASSUME NEW i \in 1..Len(u)
             PROVE  /\ \A j \in 1..(i - 1) : u[j] # u[i]
                    /\ u[i][2] > 1 =>
                         \E j \in 1..(i - 1) : u[j] = <<u[i][1], u[i][2] - 1>>
  BY DEF InOrder, u, l
<1>2. CASE i \in 1..Len(s)
  <2>1. u[i] = s[i] /\ \A j \in 1..(i - 1) : u[j] = s[j]
    BY <1>1, <1>2
  <2>2. QED
    BY <1>2, <2>1 DEF InOrder
<1>3. CASE i = Len(s) + 1
  <2>1. u[i] = l /\ i - 1 = Len(s)
    BY <1>1, <1>3
  <2>2. QED
    BY <1>0, <1>1, <2>1 DEF l
<1>4. i \in 1..Len(s) \/ i = Len(s) + 1
  BY <1>1
<1>5. QED
  BY <1>2, <1>3, <1>4

LEMMA InOrderPrefix ==
    ASSUME NEW s \in Seq(Lines), NEW u \in Seq(Lines), InOrder(u),
           Len(s) <= Len(u), \A i \in 1..Len(s) : s[i] = u[i]
    PROVE  InOrder(s)
<1>1. ASSUME NEW i \in 1..Len(s)
      PROVE  /\ \A j \in 1..(i - 1) : s[j] # s[i]
             /\ s[i][2] > 1 =>
                  \E j \in 1..(i - 1) : s[j] = <<s[i][1], s[i][2] - 1>>
  <2>1. i \in 1..Len(u) /\ s[i] = u[i] /\ \A j \in 1..(i - 1) : s[j] = u[j]
    OBVIOUS
  <2>2. QED
    BY <2>1 DEF InOrder
<1>2. QED
  BY <1>1 DEF InOrder

(* A call that hands its line over to the end of what has been given.      *)
LEMMA HandOver ==
    ASSUME TypeInv, HandedOver, ~is_thread_stop, ~crashed,
           NEW t \in Threads, lpc[t] = "put", Given \in Seq(Lines),
           Given' = Append(Given, <<t, line[t]>>),
           lpc' = [lpc EXCEPT ![t] = "idle"], line' = line
    PROVE  /\ InOrder(Given')
           /\ \A v \in Threads, n \in 1..MaxLines :
                (\E i \in 1..Len(Given') : Given'[i] = <<v, n>>)
                   <=> n <= Done(v)'
<1> DEFINE g == Given
           m == line[t]
<1>0. /\ <<t, m>> \in Lines /\ m \in 1..MaxLines /\ Done(t) = m - 1
      /\ Done(t)' = m
      /\ \A v \in Threads : v # t => Done(v)' = Done(v)
  <2>1. /\ lpc \in [Threads -> {"idle", "count", "put"}]
        /\ line \in [Threads -> 0..MaxLines] /\ MaxLines \in Nat
    BY LoggerAssumption DEF TypeInv, TypeOK
  <2>2. <<t, m>> \in Lines
    BY LineOf
  <2>3. m \in 1..MaxLines
    BY <2>2 DEF Lines
  <2>4. lpc'[t] = "idle" /\ \A v \in Threads : v # t => lpc'[v] = lpc[v]
    BY <2>1
  <2>5. Done(t) = m - 1 /\ Done(t)' = m
    BY <2>1, <2>3, <2>4 DEF Done
  <2>6. \A v \in Threads : v # t => Done(v)' = Done(v)
    BY <2>4 DEF Done
  <2>7. QED
    BY <2>2, <2>3, <2>5, <2>6
<1>1. /\ InOrder(g)
      /\ \A v \in Threads, n \in 1..MaxLines :
           (\E i \in 1..Len(g) : g[i] = <<v, n>>) <=> n <= Done(v)
  BY DEF HandedOver
<1>2. Given' = Append(g, <<t, m>>) /\ g \in Seq(Lines)
  OBVIOUS
<1> HIDE DEF g, m
<1>3. /\ Len(g) \in Nat /\ Len(Given') = Len(g) + 1
      /\ Given'[Len(g) + 1] = <<t, m>>
      /\ \A i \in 1..Len(g) : Given'[i] = g[i]
  <2> DEFINE l == <<t, m>>
  <2>1. l \in Lines /\ Given' = Append(g, l)
    BY <1>0, <1>2
  <2> HIDE DEF l
  <2>2. /\ Len(g) \in Nat /\ Len(Append(g, l)) = Len(g) + 1
        /\ Append(g, l)[Len(g) + 1] = l
        /\ \A i \in 1..Len(g) : Append(g, l)[i] = g[i]
    BY <1>2, <2>1, AppendIs, Zenon
  <2>3. QED
    BY <2>1, <2>2, Zenon DEF l
<1>4. \A i \in 1..Len(g) : g[i] # <<t, m>>
  <2>1. ~(m <= Done(t))
    BY <1>0, LoggerAssumption
  <2>2. QED
    BY <1>0, <1>1, <2>1
<1>5. ASSUME m > 1
      PROVE  \E i \in 1..Len(g) : g[i] = <<t, m - 1>>
  <2>1. m - 1 \in 1..MaxLines /\ m - 1 <= Done(t)
    BY <1>0, <1>5, LoggerAssumption
  <2>2. QED
    BY <1>1, <2>1
<1>6. InOrder(Given')
  BY <1>0, <1>1, <1>2, <1>4, <1>5, InOrderAppend
<1>7. ASSUME NEW v \in Threads, NEW n \in 1..MaxLines
      PROVE  (\E i \in 1..Len(Given') : Given'[i] = <<v, n>>) <=> n <= Done(v)'
  <2>1. (\E i \in 1..Len(Given') : Given'[i] = <<v, n>>)
          <=> (\E i \in 1..Len(g) : g[i] = <<v, n>>) \/ <<v, n>> = <<t, m>>
    <3>1. ASSUME NEW i \in 1..Len(Given'), Given'[i] = <<v, n>>
          PROVE  (\E j \in 1..Len(g) : g[j] = <<v, n>>) \/ <<v, n>> = <<t, m>>
      <4>1. i \in 1..Len(g) \/ i = Len(g) + 1
        BY <1>3
      <4>2. QED
        BY <1>3, <3>1, <4>1
    <3>2. ASSUME NEW i \in 1..Len(g), g[i] = <<v, n>>
          PROVE  \E j \in 1..Len(Given') : Given'[j] = <<v, n>>
      <4>1. i \in 1..Len(Given') /\ Given'[i] = <<v, n>>
        BY <1>3, <3>2
      <4>2. QED
        BY <4>1
    <3>3. Len(g) + 1 \in 1..Len(Given')
      BY <1>3
    <3>4. QED
      BY <1>3, <3>1, <3>2, <3>3
  <2>2. (\E i \in 1..Len(g) : g[i] = <<v, n>>) <=> n <= Done(v)
    BY <1>1
  <2>3. CASE v = t
    <3>1. <<v, n>> = <<t, m>> <=> n = m
      BY <2>3
    <3>2. n <= Done(t)' <=> n <= Done(t) \/ n = m
      BY <1>0, LoggerAssumption
    <3>3. QED
      BY <2>1, <2>2, <2>3, <3>1, <3>2
  <2>4. CASE v # t
    BY <1>0, <2>1, <2>2, <2>4
  <2>5. QED
    BY <2>3, <2>4
<1>8. QED
  BY <1>6, <1>7

LEMMA NextOrder == TypeInv /\ OrderInv /\ [Next]_vars => OrderInv'
<1> SUFFICES ASSUME TypeInv, OrderInv, [Next]_vars
             PROVE  OrderInv'
  OBVIOUS
<1> USE DEF OrderInv, ThreadOrderKept
<1>0. /\ pushed \in Seq(Lines) /\ popped \in Seq(Lines)
      /\ written \in Seq(Lines) /\ Len(popped) <= Len(pushed)
      /\ crashed \in BOOLEAN /\ is_thread_stop \in BOOLEAN
      /\ l_is_async \in BOOLEAN
      /\ wpc \in {"none", "pop", "block", "wait", "woken", "test", "write",
                  "exit"}
  BY DEF TypeInv, TypeOK, Ring
<1>1. ASSUME UNCHANGED <<l_is_async, is_thread_stop, pushed, popped, written,
                         wpc, single_line>>,
             crashed' \in {crashed, TRUE},
             \A t \in Threads : Done(t)' = Done(t)
      PROVE  OrderInv'
  <2>1. ~crashed' => ~crashed
    BY <1>1
  <2>2. Carried'
    BY <1>1, <2>1 DEF Carried
  <2>3. Given' = Given
    BY <1>1 DEF Given
  <2>4. HandedOver'
    BY <1>1, <2>1, <2>3, Zenon DEF HandedOver
  <2>5. QED
    BY <1>1, <2>2, <2>4
<1>2. CASE midnight \/ UNCHANGED vars
  BY <1>1, <1>2 DEF midnight, vars, ring, loggers, writer, dtor, file, Done
<1>3. ASSUME NEW t \in Threads, write_log(t)
      PROVE  OrderInv'
  <2>1. \A v \in Threads : Done(v)' = Done(v)
    BY <1>3 DEF write_log, Goto, Done, TypeInv, TypeOK
  <2>2. QED
    BY <1>1, <1>3, <2>1 DEF write_log, ring, writer, dtor, file
<1>4. ASSUME NEW t \in Threads, count_line(t)
      PROVE  OrderInv'
  <2>1. \A v \in Threads : Done(v)' = Done(v)
    BY <1>4 DEF count_line, Goto, Done, TypeInv, TypeOK
  <2>2. crashed' \in {crashed, TRUE}
    BY <1>4 DEF count_line, fopen
  <2>3. QED
    BY <1>1, <1>4, <2>1, <2>2 DEF count_line, ring, writer, dtor
<1>5. ASSUME NEW t \in Threads, put_sync(t)
      PROVE  OrderInv'
  <2>1. /\ ~l_is_async /\ ~crashed /\ lpc[t] = "put" /\ line' = line
        /\ lpc' = [lpc EXCEPT ![t] = "idle"]
        /\ UNCHANGED <<l_is_async, is_thread_stop, wpc, single_line, pushed,
                       popped>>
    BY <1>5 DEF put_sync, Goto, ring, writer, dtor
  <2>2. wpc = "none" /\ ~is_thread_stop
    BY <2>1 DEF Carried
  <2>3. CASE l_fp = "NULL"
    <3>1. crashed' /\ written' = written
      BY <1>5, <2>3 DEF put_sync, Fputs
    <3>2. QED
      BY <2>1, <3>1 DEF Carried, HandedOver
  <2>4. CASE l_fp # "NULL"
    <3>1. written' = Append(written, <<t, line[t]>>)
      BY <1>5, <2>4 DEF put_sync, Fputs
    <3>2. Given = written /\ Given' = written'
      BY <2>1 DEF Given
    <3>3. /\ InOrder(Given')
          /\ \A v \in Threads, n \in 1..MaxLines :
               (\E i \in 1..Len(Given') : Given'[i] = <<v, n>>)
                  <=> n <= Done(v)'
      BY <1>0, <2>1, <2>2, <3>1, <3>2, HandOver
    <3>4. HandedOver' /\ InOrder(written')
      BY <3>2, <3>3 DEF HandedOver
    <3>5. Carried'
      BY <2>1, <2>2 DEF Carried
    <3>6. QED
      BY <3>4, <3>5
  <2>5. QED
    BY <2>3, <2>4
<1>6. ASSUME NEW t \in Threads, put_async(t)
      PROVE  OrderInv'
  <2>1. /\ l_is_async /\ ~crashed /\ lpc[t] = "put" /\ line' = line
        /\ lpc' = [lpc EXCEPT ![t] = "idle"]
        /\ pushed' = Append(pushed, <<t, line[t]>>)
        /\ UNCHANGED <<l_is_async, is_thread_stop, single_line, popped,
                       written, crashed>>
        /\ wpc' = IF wpc = "wait" THEN "woken" ELSE wpc
    BY <1>6 DEF put_async, Goto, dtor, file, WakeWriter
  <2>2. <<t, line[t]>> \in Lines
    BY <1>6, PutAsyncStep
  <2>3. \A i \in 1..Len(pushed) : pushed'[i] = pushed[i]
    BY <1>0, <2>1, <2>2
  <2>4. Carried'
    <3>1. \A i \in 1..Len(popped) : popped[i] = pushed'[i]
      <4>1. \A i \in 1..Len(popped) : popped[i] = pushed[i]
        BY DEF Carried
      <4>2. \A i \in 1..Len(popped) : i \in 1..Len(pushed)
        BY <1>0
      <4>3. QED
        BY <2>3, <4>1, <4>2
    <3>2. QED
      BY <1>0, <2>1, <3>1 DEF Carried
  <2>5. HandedOver'
    <3>1. SUFFICES ASSUME ~is_thread_stop
                   PROVE  HandedOver'
      BY <2>1 DEF HandedOver
    <3>2. Given = pushed /\ Given' = pushed'
      BY <2>1 DEF Given
    <3>3. QED
      BY <1>0, <2>1, <3>1, <3>2, HandOver DEF HandedOver
  <2>6. QED
    BY <2>1, <2>4, <2>5
<1>7. ASSUME NEW t \in Threads, give_up(t)
      PROVE  OrderInv'
  <2>1. /\ is_thread_stop /\ UNCHANGED <<l_is_async, is_thread_stop, pushed,
             popped, written, single_line, crashed>>
        /\ wpc' = IF wpc = "wait" THEN "woken" ELSE wpc
    BY <1>7 DEF give_up, ring, dtor, file, WakeWriter
  <2>2. Carried'
    BY <1>0, <2>1 DEF Carried
  <2>3. QED
    BY <2>1, <2>2 DEF HandedOver
<1>8. CASE writer_pop
  <2>1. /\ ~crashed /\ wpc \in {"pop", "woken"} /\ wpc' = "test"
        /\ popped' = Append(popped, single_line')
        /\ UNCHANGED <<l_is_async, is_thread_stop, pushed, written, crashed,
                       lpc, line>>
    BY <1>8 DEF writer_pop, Take, loggers, dtor, file
  <2>2. /\ Len(popped) < Len(pushed) /\ single_line' = pushed[Len(popped) + 1]
        /\ single_line' \in Lines
    BY <1>8, WriterPopStep
  <2>3. \A i \in 1..Len(popped') : popped'[i] = pushed[i]
    <3>1. /\ Len(popped') = Len(popped) + 1
          /\ popped'[Len(popped) + 1] = single_line'
          /\ \A i \in 1..Len(popped) : popped'[i] = popped[i]
      BY <1>0, <2>1, <2>2
    <3>2. \A i \in 1..Len(popped) : popped[i] = pushed[i]
      BY DEF Carried
    <3>3. QED
      BY <1>0, <2>2, <3>1, <3>2
  <2>4. popped = written /\ l_is_async
    BY <2>1 DEF Carried
  <2>5. Carried'
    BY <2>1, <2>3, <2>4 DEF Carried
  <2>6. HandedOver'
    BY <2>1 DEF HandedOver, Given, Done
  <2>7. QED
    BY <2>1, <2>5, <2>6
<1>9. CASE writer_block \/ writer_wait \/ spurious_wakeup \/ writer_ends
  <2>1. /\ UNCHANGED <<l_is_async, is_thread_stop, pushed, popped, written,
                       single_line, crashed, lpc, line>>
        /\ wpc \in {"pop", "block", "wait", "woken"}
        /\ wpc' \in {"block", "wait", "woken", "exit"}
    BY <1>9 DEF writer_block, writer_wait, spurious_wakeup, writer_ends,
                WriterGoto, ring, loggers, dtor, file
  <2>2. Carried'
    BY <2>1 DEF Carried
  <2>3. HandedOver'
    BY <2>1 DEF HandedOver, Given, Done
  <2>4. QED
    BY <2>1, <2>2, <2>3
<1>10. CASE writer_test
  <2>1. /\ UNCHANGED <<l_is_async, is_thread_stop, pushed, popped, written,
                       single_line, crashed, lpc, line>>
        /\ ~crashed /\ wpc = "test"
        /\ wpc' = IF is_thread_stop THEN "exit" ELSE "write"
    BY <1>10 DEF writer_test, WriterGoto, ring, loggers, dtor, file
  <2>2. HandedOver'
    BY <2>1 DEF HandedOver, Given, Done
  <2>3. ~is_thread_stop => InOrder(Append(written, single_line))
    <3>1. popped = Append(written, single_line) /\ l_is_async
      BY <2>1 DEF Carried
    <3>2. ~is_thread_stop => InOrder(pushed)
      BY <2>1, <3>1 DEF HandedOver, Given
    <3>3. \A i \in 1..Len(popped) : popped[i] = pushed[i]
      BY DEF Carried
    <3>4. QED
      BY <1>0, <3>1, <3>2, <3>3, InOrderPrefix
  <2>4. Carried'
    BY <2>1, <2>3 DEF Carried
  <2>5. QED
    BY <2>1, <2>2, <2>4
<1>11. CASE writer_write
  <2>1. /\ UNCHANGED <<l_is_async, is_thread_stop, pushed, popped, lpc, line>>
        /\ ~crashed /\ wpc = "write" /\ wpc' = "pop"
        /\ crashed' = (l_fp = "NULL")
        /\ written' = IF l_fp = "NULL" THEN written
                      ELSE Append(written, single_line)
    BY <1>11 DEF writer_write, Fputs, ring, loggers, dtor
  <2>2. /\ l_is_async /\ popped = Append(written, single_line)
        /\ InOrder(Append(written, single_line))
    BY <2>1 DEF Carried
  <2>3. Carried'
    BY <2>1, <2>2 DEF Carried
  <2>4. HandedOver'
    BY <2>1, <2>2 DEF HandedOver, Given, Done
  <2>5. InOrder(written')
    BY <2>1, <2>2
  <2>6. QED
    BY <2>3, <2>4, <2>5
<1>12. CASE dtor_stop
  <2>1. /\ UNCHANGED <<l_is_async, pushed, popped, written, single_line, wpc,
                       crashed, lpc, line>>
        /\ is_thread_stop' = l_is_async
    BY <1>12 DEF dtor_stop, ring, loggers, writer, file
  <2>2. ~is_thread_stop' => ~is_thread_stop
    BY <1>0, <2>1 DEF Carried
  <2>3. HandedOver'
    BY <2>1, <2>2 DEF HandedOver, Given, Done
  <2>4. Carried'
    BY <2>1 DEF Carried
  <2>5. QED
    BY <2>1, <2>3, <2>4
<1>13. CASE dtor_notify \/ dtor_joined
  <2>1. /\ UNCHANGED <<l_is_async, is_thread_stop, pushed, popped, written,
                       single_line, crashed, lpc, line>>
        /\ wpc' \in {wpc, IF wpc = "wait" THEN "woken" ELSE wpc}
    BY <1>13 DEF dtor_notify, dtor_joined, WakeWriter, ring, loggers, writer,
                 file
  <2>2. Carried'
    BY <1>0, <2>1 DEF Carried
  <2>3. HandedOver'
    BY <2>1 DEF HandedOver, Given, Done
  <2>4. QED
    BY <2>1, <2>2, <2>3
<1>14. QED
  BY <1>2, <1>3, <1>4, <1>5, <1>6, <1>7, <1>8, <1>9, <1>10, <1>11, <1>12,
     <1>13 DEF Next, LogStep, WriterStep, DtorStep

LEMMA OrderInvHolds == Spec => []OrderInv
<1>1. Init => OrderInv
  <2> SUFFICES ASSUME Init
               PROVE  OrderInv
    OBVIOUS
  <2>1. written = <<>> /\ pushed = <<>> /\ popped = <<>> /\ Given = <<>>
    BY DEF Init, Given
  <2>2. InOrder(<<>>)
    BY DEF InOrder
  <2>3. HandedOver
    BY <2>1, <2>2 DEF HandedOver, Init, Done
  <2>4. Carried
    BY <2>1 DEF Carried, Init
  <2>5. QED
    BY <2>1, <2>2, <2>3, <2>4 DEF OrderInv, ThreadOrderKept
<1>2. QED
  BY <1>1, TypeInvHolds, NextOrder, PTL DEF Spec

(* Each thread's lines are in the log in the order it logged them, none    *)
(* twice and none left out before another, synchronous or not, whichever   *)
(* threads log beside it and whenever the logger is destroyed.             *)
THEOREM OrderKept == Spec => []ThreadOrderKept
<1>1. OrderInv => ThreadOrderKept
  BY DEF OrderInv
<1>2. QED
  BY <1>1, OrderInvHolds, PTL

-----------------------------------------------------------------------------
(* Lines counted and not yet written: those between count_line and their   *)
(* hand-over, and those in the queue and in the writer's hands.            *)
Putting  == {t \in Threads : lpc[t] = "put"}
Carrying == IF wpc \in {"test", "write"} THEN 1 ELSE 0
Behind   == IF l_is_async THEN queue.b_size + Carrying ELSE 0
InFlight == Cardinality(Putting) + Behind

(* l_count modulo SplitLines is the number of lines counted since the file *)
(* was opened, less the one that opened it.                                *)
Counted == l_count % SplitLines
RotationInv ==
    /\ in_file <= SplitLines + OnTheirWay
    /\ ~crashed => in_file + InFlight <= Counted + 1 + OnTheirWay

(* How many lines can be on their way at once.                             *)
Sizes ==
    /\ IsFiniteSet(Putting) /\ Cardinality(Putting) \in Nat
    /\ Cardinality(Threads) \in Nat
    /\ Cardinality(Putting) <= Cardinality(Threads)
    /\ queue.b_size \in 0..QueueSize /\ Behind \in Nat
    /\ Behind <= IF l_is_async THEN QueueSize + 1 ELSE 0

LEMMA SizesHold == TypeInv => Sizes
<1> SUFFICES ASSUME TypeInv
             PROVE  Sizes
  OBVIOUS
<1>1. Putting \subseteq Threads /\ IsFiniteSet(Threads)
  BY LoggerAssumption DEF Putting
<1>2. queue.b_size \in 0..QueueSize
  BY DEF TypeInv, TypeOK, QueueType
<1>3. Behind \in Nat /\ Behind <= IF l_is_async THEN QueueSize + 1 ELSE 0
  BY <1>2, LoggerAssumption DEF Behind, Carrying
<1>4. QED
  BY <1>1, <1>2, <1>3, FS_Subset, FS_CardinalityType DEF Sizes

LEMMA SizesHoldNext == TypeInv' => Sizes'
  BY SizesHold, PTL

LEMMA PuttingGrows ==
    ASSUME TypeInv, NEW t \in Threads, Goto(t, "count", "put")
    PROVE  Cardinality(Putting') = Cardinality(Putting) + 1
<1>1. lpc \in [Threads -> {"idle", "count", "put"}]
  BY DEF TypeInv, TypeOK
<1>2. Putting' = Putting \cup {t} /\ t \notin Putting
  BY <1>1 DEF Putting, Goto
<1>3. QED
  BY <1>2, SizesHold, FS_AddElement DEF Sizes

LEMMA PuttingShrinks ==
    ASSUME TypeInv, NEW t \in Threads, Goto(t, "put", "idle")
    PROVE  Cardinality(Putting') = Cardinality(Putting) - 1
<1>1. lpc \in [Threads -> {"idle", "count", "put"}]
  BY DEF TypeInv, TypeOK
<1>2. Putting' = Putting \ {t} /\ t \in Putting
  BY <1>1 DEF Putting, Goto
<1>3. QED
  BY <1>2, SizesHold, FS_RemoveElement DEF Sizes

(* Room for lines: what fits goes on to fit when no more are on their way. *)
LEMMA StillFits ==
    ASSUME NEW S \in Nat \ {0}, NEW c \in 0..(S - 1), NEW w \in Int,
           NEW f \in Nat, NEW p \in Nat, NEW b \in Nat,
           NEW f2 \in Nat, NEW p2 \in Nat, NEW b2 \in Nat,
           f + p + b <= c + 1 + w, f2 + p2 + b2 <= f + p + b
    PROVE  f2 + p2 + b2 <= c + 1 + w /\ f2 <= S + w
  OBVIOUS

LEMMA Fewer ==
    ASSUME NEW f \in Nat, NEW p \in Nat, NEW b \in Nat, NEW b2 \in Nat,
           b2 <= b
    PROVE  f + p + b2 <= f + p + b
  OBVIOUS

LEMMA NextRotation ==
    /\ TypeInv /\ TypeInv' /\ Carried /\ RotationInv /\ [Next]_vars
    => RotationInv'
<1> SUFFICES ASSUME TypeInv, TypeInv', Carried, RotationInv, [Next]_vars
             PROVE  RotationInv'
  OBVIOUS
<1> DEFINE P == Cardinality(Putting)
<1>0. /\ in_file \in Nat /\ l_count \in Nat /\ Counted \in 0..(SplitLines - 1)
      /\ SplitLines \in Nat \ {0}
  BY LoggerAssumption, ModStep DEF TypeInv, TypeOK, Counted
<1>1. /\ in_file' \in Nat /\ Counted' \in 0..(SplitLines - 1)
      /\ l_count' \in Nat
  BY LoggerAssumption, ModStep DEF TypeInv, TypeOK, Counted
<1>2. /\ P \in Nat /\ Behind \in Nat /\ P' \in Nat /\ Behind' \in Nat
  BY SizesHold, SizesHoldNext DEF Sizes
<1>q. queue.b_size \in 0..QueueSize /\ QueueSize \in Nat
  BY SizesHold, LoggerAssumption DEF Sizes
<1>3. OnTheirWay \in Int
  BY SizesHold, LoggerAssumption DEF Sizes, OnTheirWay
<1>4. ~crashed => in_file + P + Behind <= Counted + 1 + OnTheirWay
  BY <1>0, <1>2, <1>3 DEF RotationInv, InFlight
<1>5. in_file <= SplitLines + OnTheirWay
  BY DEF RotationInv
<1>6. /\ (l_is_async' = l_is_async => OnTheirWay' = OnTheirWay)
      /\ (lpc' = lpc => P' = P) /\ (l_count' = l_count => Counted' = Counted)
  <2>1. l_is_async' = l_is_async => OnTheirWay' = OnTheirWay
    BY DEF OnTheirWay
  <2>2. lpc' = lpc => Putting' = Putting
    BY DEF Putting
  <2>3. QED
    BY <2>1, <2>2 DEF Counted
<1>7. ASSUME OnTheirWay' = OnTheirWay, in_file' <= SplitLines + OnTheirWay,
             ~crashed' => in_file' + P' + Behind' <= Counted' + 1 + OnTheirWay
      PROVE  RotationInv'
  <2>1. in_file' + InFlight' = in_file' + P' + Behind'
    BY <1>1, <1>2 DEF InFlight
  <2>2. QED
    BY <1>7, <2>1 DEF RotationInv
<1> HIDE DEF P
(* Nothing gets counted, and of the lines on their way as many leave as are*)
(* written.                                                                *)
<1>8. ASSUME l_is_async' = l_is_async, l_count' = l_count, ~crashed,
             ~crashed' => in_file' + P' + Behind' <= in_file + P + Behind,
             crashed' => in_file' = in_file
      PROVE  RotationInv'
  <2>1. OnTheirWay' = OnTheirWay /\ Counted' = Counted
    BY <1>6, <1>8
  <2>2. CASE crashed'
    BY <1>5, <1>7, <1>8, <2>1, <2>2
  <2>3. CASE ~crashed'
    <3>1. in_file' + P' + Behind' <= in_file + P + Behind
      BY <1>8, <2>3
    <3>2. in_file + P + Behind <= Counted + 1 + OnTheirWay
      BY <1>4, <1>8
    <3>3. /\ in_file' + P' + Behind' <= Counted + 1 + OnTheirWay
          /\ in_file' <= SplitLines + OnTheirWay
      BY <1>0, <1>1, <1>2, <1>3, <3>1, <3>2, StillFits, Zenon
    <3>4. QED
      BY <1>7, <2>1, <3>3
  <2>4. QED
    BY <2>2, <2>3
<1>9. CASE UNCHANGED vars
  BY <1>0, <1>4, <1>5, <1>6, <1>7, <1>9
     DEF vars, sink, ring, loggers, writer, file, Behind, Carrying
<1>10. CASE midnight \/ dtor_stop \/ dtor_joined
  <2>1. /\ UNCHANGED <<l_is_async, l_count, lpc, queue, wpc, in_file, crashed>>
        /\ ~crashed
    BY <1>10 DEF midnight, dtor_stop, dtor_joined, sink, ring, loggers, writer,
                 file
  <2>2. P' = P /\ Behind' = Behind
    BY <1>6, <2>1 DEF Behind, Carrying
  <2>3. QED
    BY <1>0, <1>2, <1>8, <2>1, <2>2
<1>11. ASSUME NEW t \in Threads, write_log(t)
       PROVE  RotationInv'
  <2>1. /\ UNCHANGED <<l_is_async, l_count, queue, wpc, in_file, crashed>>
        /\ ~crashed /\ Goto(t, "idle", "count")
    BY <1>11 DEF write_log, Goto, sink, ring, writer, file
  <2>2. Putting' = Putting
    BY <2>1 DEF Goto, Putting, TypeInv, TypeOK
  <2>3. P' = P /\ Behind' = Behind
    BY <2>1, <2>2 DEF Behind, Carrying, P
  <2>4. QED
    BY <1>0, <1>2, <1>8, <2>1, <2>3
<1>12. ASSUME NEW t \in Threads, count_line(t)
       PROVE  RotationInv'
  <2>1. /\ UNCHANGED <<l_is_async, queue, wpc>> /\ ~crashed
        /\ Goto(t, "count", "put")
    BY <1>12 DEF count_line, Goto, ring, writer
  <2>2. P' = P + 1 /\ Behind' = Behind /\ OnTheirWay' = OnTheirWay
    BY <1>6, <2>1, PuttingGrows DEF Behind, Carrying, P
  <2>3. CASE ~SplitNow(t)
    <3>1. /\ UNCHANGED <<in_file, crashed>> /\ l_count' = l_count + 1
          /\ (l_count + 1) % SplitLines # 0
      BY <1>12, <2>3 DEF count_line, SplitNow
    <3>2. Counted' = Counted + 1
      BY <1>0, <3>1, ModStep DEF Counted
    <3>3. QED
      BY <1>0, <1>1, <1>2, <1>3, <1>4, <1>5, <1>7, <2>1, <2>2, <3>1, <3>2
  <2>4. CASE SplitNow(t) /\ l_fp = "NULL"
    <3>1. crashed' /\ in_file' = in_file
      BY <1>12, <2>4 DEF count_line, fopen
    <3>2. QED
      BY <1>5, <1>7, <2>2, <3>1
  <2>5. CASE SplitNow(t) /\ l_fp # "NULL"
    <3>1. in_file' = 0
      BY <1>12, <2>5 DEF count_line, fopen
    <3>2. P' + Behind' <= 1 + OnTheirWay
      <4>1. /\ Cardinality(Threads) \in Nat /\ P' <= Cardinality(Threads)
            /\ Behind' <= IF l_is_async THEN QueueSize + 1 ELSE 0
        BY <2>1, SizesHoldNext DEF Sizes, P
      <4>2. QED
        BY <1>2, <1>q, <4>1 DEF OnTheirWay
    <3>3. OnTheirWay >= -1
      BY <1>q, SizesHold DEF OnTheirWay, Sizes
    <3>4. /\ in_file' + P' + Behind' <= Counted' + 1 + OnTheirWay
          /\ in_file' <= SplitLines + OnTheirWay
      <4>1. in_file' + P' + Behind' = P' + Behind' /\ P' + Behind' \in Int
        BY <1>2, <3>1
      <4>2. in_file' + P' + Behind' <= Counted' + 1 + OnTheirWay
        BY <1>1, <1>3, <3>2, <4>1
      <4>3. QED
        BY <1>0, <1>3, <3>1, <3>3, <4>2
    <3>5. QED
      BY <1>7, <2>2, <3>4
  <2>6. QED
    BY <2>3, <2>4, <2>5
<1>13. ASSUME NEW t \in Threads, put_sync(t)
       PROVE  RotationInv'
  <2>1. /\ UNCHANGED <<l_is_async, l_count>> /\ ~crashed /\ ~l_is_async
        /\ Goto(t, "put", "idle")
        /\ crashed' = (l_fp = "NULL")
        /\ in_file' = IF l_fp = "NULL" THEN in_file ELSE in_file + 1
    BY <1>13 DEF put_sync, Fputs, Goto, sink
  <2>2. P' = P - 1 /\ Behind' = Behind
    BY <2>1, PuttingShrinks DEF Behind, P
  <2>3. ASSUME ~crashed'
        PROVE  in_file' + P' + Behind' <= in_file + P + Behind
    <3>1. in_file' = in_file + 1
      BY <2>1, <2>3
    <3>2. QED
      BY <1>0, <1>2, <2>2, <3>1
  <2>4. QED
    BY <1>8, <2>1, <2>3
<1>14. ASSUME NEW t \in Threads, put_async(t)
       PROVE  RotationInv'
  <2>1. /\ UNCHANGED <<l_is_async, l_count, in_file, crashed>>
        /\ ~crashed /\ l_is_async /\ Goto(t, "put", "idle")
        /\ queue' = Push(queue, <<t, line[t]>>)
        /\ wpc' = IF wpc = "wait" THEN "woken" ELSE wpc
    BY <1>14 DEF put_async, WakeWriter, Goto, sink, file
  <2>2. queue'.b_size = queue.b_size + 1
    BY <2>1 DEF Push
  <2>3. P' = P - 1 /\ Behind' = Behind + 1
    BY <1>2, <1>q, <2>1, <2>2, PuttingShrinks DEF Behind, Carrying, P
  <2>4. QED
    BY <1>0, <1>2, <1>8, <2>1, <2>3
<1>15. ASSUME NEW t \in Threads, give_up(t)
       PROVE  RotationInv'
  <2>1. /\ UNCHANGED <<l_is_async, l_count, queue, in_file, crashed>>
        /\ ~crashed /\ Goto(t, "put", "idle")
        /\ wpc' = IF wpc = "wait" THEN "woken" ELSE wpc
    BY <1>15 DEF give_up, WakeWriter, Goto, sink, ring, file
  <2>2. P' = P - 1 /\ Behind' = Behind
    BY <2>1, PuttingShrinks DEF Behind, Carrying, P
  <2>3. in_file' + P' + Behind' <= in_file + P + Behind
    <3>1. in_file' = in_file
      BY <2>1
    <3>2. QED
      BY <1>0, <1>2, <2>2, <3>1
  <2>4. QED
    BY <1>8, <2>1, <2>3
<1>16. CASE writer_pop
  <2>1. /\ UNCHANGED <<l_is_async, l_count, in_file, crashed, lpc>>
        /\ ~crashed /\ queue' = Pop(queue)
        /\ wpc \in {"pop", "woken"} /\ wpc' = "test"
    BY <1>16 DEF writer_pop, Take, sink, file, loggers
  <2>2. queue'.b_size = queue.b_size - 1
    BY <2>1 DEF Pop
  <2>3. P' = P /\ Behind' = Behind
    BY <1>q, <1>6, <2>1, <2>2 DEF Behind, Carrying
  <2>4. QED
    BY <1>0, <1>2, <1>8, <2>1, <2>3
<1>17. CASE \/ writer_block \/ writer_wait \/ spurious_wakeup \/ writer_ends
            \/ writer_test
  <2>1. /\ UNCHANGED <<l_is_async, l_count, in_file, crashed, lpc, queue>>
        /\ ~crashed
        /\ wpc' \in {"test", "write"} => wpc \in {"test", "write"}
    BY <1>17 DEF writer_block, writer_wait, spurious_wakeup, writer_ends,
                 writer_test, WriterGoto, sink, file, loggers, ring
  <2>2. P' = P /\ Behind' <= Behind
    BY <1>q, <1>6, <2>1 DEF Behind, Carrying
  <2>3. in_file' + P' + Behind' <= in_file + P + Behind
    BY <1>0, <1>2, <2>1, <2>2, Fewer, Zenon
  <2>4. QED
    BY <1>8, <2>1, <2>3
<1>18. CASE writer_write
  <2>1. /\ UNCHANGED <<l_is_async, l_count, lpc, queue>>
        /\ ~crashed /\ wpc = "write" /\ wpc' = "pop"
        /\ crashed' = (l_fp = "NULL")
        /\ in_file' = IF l_fp = "NULL" THEN in_file ELSE in_file + 1
    BY <1>18 DEF writer_write, Fputs, sink, loggers, ring
  <2>2. l_is_async
    BY <2>1 DEF Carried
  <2>3. P' = P /\ Behind' = Behind - 1
    BY <1>q, <1>6, <2>1, <2>2 DEF Behind, Carrying
  <2>4. ASSUME ~crashed'
        PROVE  in_file' + P' + Behind' <= in_file + P + Behind
    <3>1. in_file' = in_file + 1
      BY <2>1, <2>4
    <3>2. QED
      BY <1>0, <1>2, <2>3, <3>1
  <2>5. QED
    BY <1>8, <2>1, <2>4
<1>19. CASE dtor_notify
  <2>1. /\ UNCHANGED <<l_is_async, l_count, in_file, crashed, lpc, queue>>
        /\ ~crashed /\ wpc' = IF wpc = "wait" THEN "woken" ELSE wpc
    BY <1>19 DEF dtor_notify, WakeWriter, sink, file, loggers, ring
  <2>2. P' = P /\ Behind' = Behind
    BY <1>6, <2>1 DEF Behind, Carrying
  <2>3. QED
    BY <1>0, <1>2, <1>8, <2>1, <2>2
<1>20. QED
  BY <1>9, <1>10, <1>11, <1>12, <1>13, <1>14, <1>15, <1>16, <1>17, <1>18,
     <1>19 DEF Next, LogStep, WriterStep, DtorStep

LEMMA RotationInvHolds == Spec => []RotationInv
<1>1. Init => RotationInv
  <2> SUFFICES ASSUME Init
               PROVE  RotationInv
    OBVIOUS
  <2>1. Putting = {} /\ Cardinality(Putting) = 0
    BY FS_EmptySet DEF Init, Putting
  <2>2. Behind = 0 /\ in_file = 0 /\ l_count = 0
    BY DEF Init, Behind, Carrying, NewQueue
  <2>3. Counted = 0
    BY <2>2, LoggerAssumption DEF Counted
  <2>4. OnTheirWay \in Int /\ OnTheirWay >= -1
    BY LoggerAssumption, FS_CardinalityType DEF OnTheirWay
  <2>5. QED
    BY <2>1, <2>2, <2>3, <2>4, LoggerAssumption DEF RotationInv, InFlight
<1>2. OrderInv => Carried
  BY DEF OrderInv
<1>3. QED
  BY <1>1, <1>2, TypeInvHolds, OrderInvHolds, NextRotation, PTL DEF Spec

-----------------------------------------------------------------------------
(* As long as no line of an older day is counted, no file of a name still  *)
(* to come is there, so opening one to append starts an empty file: the    *)
(* open file holds no more than has been written since it was opened, and  *)
(* the others were as short when they were closed.                         *)
Later(f, d, c) == f[1] > d \/ (f[1] = d /\ f[2] * SplitLines > c)

FilesGood ==
    \A f \in DOMAIN files :
        /\ ~Later(f, l_today, l_count)
        /\ files[f] <= IF f = name THEN in_file ELSE SplitLines + OnTheirWay
FilesInv == ~stale => FilesGood

(* A split file's name is a later one, since its number is the number of   *)
(* lines counted by SplitLines.                                            *)
LEMMA SplitIsLater ==
    ASSUME NEW c \in Nat \ {0}, NEW n \in Nat, n % c = 0
    PROVE  (n \div c) * c = n
<1>1. n = c * (n \div c) + (n % c) /\ n \div c \in Nat
  OBVIOUS
<1>2. QED
  BY <1>1

(* Counting a line makes no file a later one.                              *)
LEMMA CountLater ==
    ASSUME NEW f, f[1] \in Nat, f[2] \in Nat, NEW d \in Nat, NEW c \in Nat,
           NEW d2 \in Nat, d2 >= d, ~Later(f, d, c)
    PROVE  ~Later(f, d2, IF d # d2 THEN 0 ELSE c + 1)
<1>1. f[2] * SplitLines \in Nat
  BY LoggerAssumption
<1>2. QED
  BY <1>1 DEF Later

LEMMA CountFiles ==
    ASSUME TypeInv, RotationInv, FilesGood, OnTheirWay' = OnTheirWay,
           NEW t \in Threads, count_line(t), ~(day[t] < l_today)
    PROVE  FilesGood'
<1>0. /\ l_count \in Nat /\ l_today \in Nat /\ in_file \in Nat
      /\ SplitLines \in Nat \ {0} /\ day[t] \in Nat
  BY LoggerAssumption DEF TypeInv, TypeOK
<1>1. DOMAIN files \subseteq Names /\ files \in [DOMAIN files -> Nat]
  BY DEF TypeInv, TypeOK
<1>2. in_file <= SplitLines + OnTheirWay /\ OnTheirWay \in Int
  BY LoggerAssumption, SizesHold DEF RotationInv, OnTheirWay, Sizes
<1>3. /\ l_today' = day[t] /\ day[t] >= l_today
      /\ l_count' = IF l_today # day[t] THEN 0 ELSE l_count + 1
  BY <1>0 DEF count_line
<1>4. ASSUME NEW f \in DOMAIN files
      PROVE  /\ ~Later(f, l_today', l_count')
             /\ files[f] \in Nat /\ files[f] <= SplitLines + OnTheirWay
  <2>1. f[1] \in Nat /\ f[2] \in Nat
    BY <1>1, <1>4 DEF Names
  <2>2. ~Later(f, l_today, l_count)
    BY <1>4 DEF FilesGood
  <2>3. ~Later(f, l_today', l_count')
    BY <1>0, <1>3, <2>1, <2>2, CountLater
  <2>4. files[f] \in Nat
    BY <1>1, <1>4
  <2>5. files[f] <= IF f = name THEN in_file ELSE SplitLines + OnTheirWay
    BY <1>4 DEF FilesGood
  <2>6. QED
    BY <1>0, <1>2, <2>3, <2>4, <2>5
<1>5. CASE ~SplitNow(t) \/ l_fp = "NULL"
  <2>1. UNCHANGED <<name, files, in_file>>
    BY <1>5 DEF count_line, fopen
  <2>2. QED
    BY <1>4, <2>1 DEF FilesGood
<1>6. CASE SplitNow(t) /\ l_fp # "NULL"
  <2> DEFINE n == IF l_today # day[t] THEN 0 ELSE (l_count + 1) \div SplitLines
             g == <<day[t], n>>
  <2>1. /\ name' = g /\ in_file' = 0
        /\ files' = Appendable(g) \/ files' = files
    BY <1>6 DEF count_line, fopen, NewName
  <2>2. /\ n \in Nat
        /\ l_today = day[t] => n * SplitLines = l_count + 1
        /\ l_today # day[t] => n * SplitLines = 0
    <3>1. CASE l_today # day[t]
      BY <1>0, <3>1
    <3>2. CASE l_today = day[t]
      BY <1>0, <1>6, <3>2, SplitIsLater, DivNat DEF SplitNow
    <3>3. QED
      BY <3>1, <3>2
  <2> HIDE DEF n
  <2>3. Later(g, l_today, l_count) /\ ~Later(g, l_today', l_count')
    <3>1. g[1] = day[t] /\ g[2] = n
      OBVIOUS
    <3> HIDE DEF g
    <3>2. CASE l_today # day[t]
      <4>1. g[1] > l_today
        BY <1>0, <1>3, <3>1, <3>2
      <4>2. l_today' = g[1] /\ l_count' = 0 /\ g[2] * SplitLines = 0
        BY <1>3, <2>2, <3>1, <3>2
      <4>3. QED
        BY <1>0, <3>1, <4>1, <4>2 DEF Later
    <3>3. CASE l_today = day[t]
      <4>1. /\ l_today = g[1] /\ l_today' = g[1] /\ l_count' = l_count + 1
            /\ g[2] * SplitLines = l_count + 1
        BY <1>3, <2>2, <3>1, <3>3
      <4>2. QED
        BY <1>0, <3>1, <4>1 DEF Later
    <3>4. QED
      BY <3>2, <3>3
  <2> HIDE DEF g
  <2>4. g \notin DOMAIN files
    BY <2>3 DEF FilesGood
  <2>5. /\ DOMAIN files' \subseteq DOMAIN files \cup {g}
        /\ \A f \in DOMAIN files' :
              files'[f] = IF f = g THEN 0 ELSE files[f]
    BY <2>1, <2>4 DEF Appendable
  <2>6. ASSUME NEW f \in DOMAIN files'
        PROVE  /\ ~Later(f, l_today', l_count')
               /\ files'[f] <= IF f = g THEN 0 ELSE SplitLines + OnTheirWay
    <3>1. CASE f = g
      BY <2>3, <2>5, <2>6, <3>1
    <3>2. CASE f # g
      BY <1>4, <2>5, <2>6, <3>2
    <3>3. QED
      BY <3>1, <3>2
  <2>7. QED
    BY <2>1, <2>6 DEF FilesGood
<1>7. QED
  BY <1>5, <1>6

LEMMA FputsFiles ==
    ASSUME TypeInv, FilesGood, OnTheirWay' = OnTheirWay,
           UNCHANGED <<l_today, l_count>>, NEW l, Fputs(l)
    PROVE  FilesGood'
<1>0. in_file \in Nat /\ files \in [DOMAIN files -> Nat]
  BY DEF TypeInv, TypeOK
<1>1. in_file' \in Nat /\ in_file <= in_file' /\ name' = name
  BY <1>0 DEF Fputs
<1>2. /\ DOMAIN files' = DOMAIN files
      /\ \A f \in DOMAIN files :
            files'[f] = IF l_fp = "file" /\ f = name THEN files[f] + 1
                                                     ELSE files[f]
  BY DEF Fputs
<1>3. l_fp = "file" => in_file' = in_file + 1
  BY DEF Fputs
<1>4. ASSUME NEW f \in DOMAIN files
      PROVE  /\ ~Later(f, l_today', l_count')
             /\ files'[f] <= IF f = name THEN in_file'
                                         ELSE SplitLines + OnTheirWay
  <2>1. /\ ~Later(f, l_today, l_count) /\ files[f] \in Nat
        /\ files[f] <= IF f = name THEN in_file ELSE SplitLines + OnTheirWay
    BY <1>0, <1>4 DEF FilesGood
  <2>2. QED
    BY <1>0, <1>1, <1>2, <1>3, <1>4, <2>1
<1>5. QED
  BY <1>1, <1>2, <1>4 DEF FilesGood

LEMMA NextFiles ==
    TypeInv /\ RotationInv /\ FilesInv /\ [Next]_vars => FilesInv'
<1> SUFFICES ASSUME TypeInv, RotationInv, FilesInv, [Next]_vars, ~stale'
             PROVE  FilesGood'
  BY DEF FilesInv
<1>1. /\ l_is_async' = l_is_async
      /\ UNCHANGED stale \/ \E t \in Threads : count_line(t)
  <2> USE DEF sink, WriterGoto
  <2>1. CASE \/ midnight \/ dtor_stop \/ DtorStep \/ UNCHANGED vars
    BY <2>1 DEF DtorStep, vars, midnight, dtor_stop, dtor_notify, dtor_joined
  <2>2. CASE \E t \in Threads : write_log(t) \/ LogStep(t)
    BY <2>2 DEF LogStep, write_log, count_line, put_sync, put_async, give_up
  <2>3. CASE WriterStep \/ spurious_wakeup
    BY <2>3 DEF WriterStep, writer_pop, writer_block, writer_wait, writer_ends,
                writer_test, writer_write, spurious_wakeup
  <2>4. QED
    BY <2>1, <2>2, <2>3 DEF Next
<1>s. ~stale
  BY <1>1, Zenon DEF count_line
<1>2. OnTheirWay' = OnTheirWay /\ FilesGood
  BY <1>1, <1>s DEF OnTheirWay, FilesInv
<1>3. CASE \/ midnight \/ dtor_stop \/ DtorStep \/ UNCHANGED vars
           \/ \E t \in Threads : write_log(t) \/ put_async(t) \/ give_up(t)
           \/ writer_pop \/ writer_block \/ writer_wait \/ writer_ends
           \/ writer_test \/ spurious_wakeup
  <2>1. UNCHANGED <<l_count, l_today, name, files, in_file>>
    BY <1>3 DEF DtorStep, vars, sink, file, midnight, write_log, put_async,
                give_up, writer_pop, writer_block, writer_wait,
                spurious_wakeup, writer_ends, writer_test, WriterGoto,
                dtor_stop, dtor_notify, dtor_joined
  <2>2. QED
    BY <1>2, <2>1 DEF FilesGood
<1>4. ASSUME NEW t \in Threads, put_sync(t)
      PROVE  FilesGood'
  BY <1>2, <1>4, FputsFiles DEF put_sync, sink
<1>5. CASE writer_write
  BY <1>2, <1>5, FputsFiles DEF writer_write, sink
<1>6. ASSUME NEW t \in Threads, count_line(t)
      PROVE  FilesGood'
  <2>1. ~(day[t] < l_today)
    BY <1>6, Zenon DEF count_line
  <2>2. QED
    BY <1>2, <1>6, <2>1, CountFiles
<1>7. QED
  BY <1>3, <1>4, <1>5, <1>6 DEF Next, LogStep, WriterStep

(* Files are split in time although lines are counted in one critical      *)
(* section and written in another: unless a line of an older day was       *)
(* counted, no file grows beyond SplitLines and the lines that can be on   *)
(* their way at once, although every file is opened to append.             *)
THEOREM RotationBounded == Spec => []RotationKeepsUp
<1>1. Init => FilesInv
  <2> SUFFICES ASSUME Init
               PROVE  FilesGood
    BY DEF FilesInv
  <2>1. /\ l_count = 0 /\ l_today = 0 /\ in_file = 0 /\ name = <<0, 0>>
        /\ DOMAIN files \subseteq {name}
        /\ \A f \in DOMAIN files : files[f] = 0
    BY DEF Init
  <2>2. ~Later(name, 0, 0)
    BY <2>1, LoggerAssumption DEF Later
  <2>3. QED
    BY <2>1, <2>2 DEF FilesGood
<1>2. TypeInv /\ RotationInv /\ FilesInv => RotationKeepsUp
  <2> SUFFICES ASSUME TypeInv, RotationInv, FilesInv, ~stale,
                      NEW f \in DOMAIN files
               PROVE  files[f] <= SplitLines + OnTheirWay
    BY DEF RotationKeepsUp, FilesLimited
  <2>1. /\ files[f] \in Nat /\ in_file \in Nat /\ SplitLines \in Nat
        /\ OnTheirWay \in Int
    BY LoggerAssumption, SizesHold DEF TypeInv, TypeOK, OnTheirWay, Sizes
  <2>2. in_file <= SplitLines + OnTheirWay
    BY DEF RotationInv
  <2>3. files[f] <= IF f = name THEN in_file ELSE SplitLines + OnTheirWay
    BY DEF FilesInv, FilesGood
  <2>4. QED
    BY <2>1, <2>2, <2>3
<1>3. QED
  BY <1>1, <1>2, TypeInvHolds, RotationInvHolds, NextFiles, PTL DEF Spec
=============================================================================
