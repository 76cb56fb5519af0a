-------------------------- MODULE ServerStartProofs --------------------------
(***************************************************************************)
(* Theorems about ServerStart, for any number of sub-loops, pool threads   *)
(* and calls of start().                                                   *)
(***************************************************************************)
EXTENDS ServerStart, FiniteSetTheorems, TLAPS

-----------------------------------------------------------------------------
(* The tasks posted so far come from the iterations before Posted.         *)
Posted == IF caller = "post" THEN ts_conn_loops - 1 ELSE ts_conn_loops

(* ev, while it is ev, points to the newest loop; a call of start() asks   *)
(* for at most one listen(), before it returns.                            *)
Progress ==
    /\ caller = "post" => ts_conn_loops > 0
    /\ ev # Garbage => ev = ts_conn_loops - 1
    /\ el_task_funcs <= IF caller \in {"return", "done"} THEN starts
                        ELSE starts - 1

TypeInv == TypeOK /\ Progress

LEMMA LoopsNat == MaxLoops \in Nat
  BY StartAssumption, FS_CardinalityType DEF MaxLoops

LEMMA InitTypeInv == Init => TypeInv
<1> SUFFICES ASSUME Init
             PROVE  TypeInv
  OBVIOUS
<1> USE StartAssumption, LoopsNat DEF Init, Acceptor
<1>1. {in_loop_thread, uninit, ts_started, ts_timer, ac_listening, accepting}
         \subseteq BOOLEAN
  OBVIOUS
<1>2. tp_tasks \in Seq(Loops)
  OBVIOUS
<1>3. TypeOK
  BY <1>1, <1>2 DEF TypeOK
<1>4. Progress
  BY DEF Progress
<1>5. QED
  BY <1>3, <1>4 DEF TypeInv

LEMMA NextTypeInv == TypeInv /\ [Next]_vars => TypeInv'
<1> SUFFICES ASSUME TypeInv, [Next]_vars
             PROVE  TypeInv'
  OBVIOUS
<1> USE StartAssumption, LoopsNat
    DEF TypeInv, TypeOK, Progress, config, server, pool, base, Goto
<1>1. CASE start
  BY <1>1 DEF start
<1>2. CASE emplace_loop
  BY <1>2 DEF emplace_loop, Loops
<1>3. CASE post_loop
  <2>1. ts_conn_loops - 1 \in Loops
    BY <1>3 DEF post_loop, Loops
  <2>2. QED
    BY <1>3, <2>1 DEF post_loop
<1>4. CASE loops_done
  BY <1>4 DEF loops_done
<1>5. CASE start_listen
  <2>1. process' \in {"up", "exit"} /\ ac_listening' \in BOOLEAN
    BY <1>5 DEF start_listen, listen
  <2>2. el_task_funcs' \in {el_task_funcs, el_task_funcs + 1}
    BY <1>5 DEF start_listen, listen
  <2>3. el_task_funcs' \in 0..MaxStarts /\ el_task_funcs' <= starts
    BY <1>5, <2>2 DEF start_listen
  <2>4. /\ caller = "listen" /\ caller' = "return"
        /\ UNCHANGED <<in_loop_thread, uninit, ts_thread_num, starts,
                       ts_started, ts_timer, ts_conn_loops, ev, tp_tasks, ran,
                       accepting>>
    BY <1>5 DEF start_listen
  <2>5. TypeOK'
    BY <2>1, <2>3, <2>4
  <2>6. Progress'
    BY <2>3, <2>4
  <2>7. QED
    BY <2>5, <2>6
<1>6. CASE start_again
  BY <1>6 DEF start_again
<1>7. CASE start_done
  BY <1>7 DEF start_done
<1>8. CASE reuse_stack
  BY <1>8 DEF reuse_stack
<1>9. CASE run_listen
  <2>1. process' \in {"up", "exit"} /\ ac_listening' \in BOOLEAN
    BY <1>9 DEF run_listen, listen
  <2>2. /\ el_task_funcs' = 0
        /\ UNCHANGED <<in_loop_thread, uninit, ts_thread_num, caller, starts,
                       ts_started, ts_timer, ts_conn_loops, ev, tp_tasks, ran,
                       accepting>>
    BY <1>9 DEF run_listen
  <2>3. TypeOK'
    BY <2>1, <2>2
  <2>4. Progress'
    BY <2>2
  <2>5. QED
    BY <2>3, <2>4
<1>10. CASE do_accept
  BY <1>10 DEF do_accept
<1>11. ASSUME NEW w \in Workers, run_loop(w)
       PROVE  TypeInv'
  <2>1. Head(tp_tasks) \in Loops /\ Tail(tp_tasks) \in Seq(Loops)
    BY <1>11 DEF run_loop
  <2>2. CASE ev = Garbage
    BY <1>11, <2>1, <2>2 DEF run_loop
  <2>3. CASE ev # Garbage
    BY <1>11, <2>1, <2>3 DEF run_loop
  <2>4. QED
    BY <2>2, <2>3
<1>12. CASE UNCHANGED vars
  BY <1>12 DEF vars
<1>13. QED
  BY <1>1, <1>2, <1>3, <1>4, <1>5, <1>6, <1>7, <1>8, <1>9, <1>10, <1>11,
     <1>12 DEF Next, CallerStep

LEMMA TypeInvHolds == Spec => []TypeInv
  BY InitTypeInv, NextTypeInv, PTL DEF Spec

(* The state of a starting server stays well formed: no more loops than    *)
(* asked for, and no more queued calls of listen() than calls of start().  *)
THEOREM TypeCorrect == Spec => []TypeOK
<1>1. TypeInv => TypeOK
  BY DEF TypeInv
<1>2. QED
  BY <1>1, TypeInvHolds, PTL

-----------------------------------------------------------------------------
(* Each task is from an iteration of its own, the queued ones from later   *)
(* iterations than those taken, and a thread finds in ev the loop of its   *)
(* task's iteration or of a later one.                                     *)
QueueInOrder ==
    /\ \A i \in 1..Len(tp_tasks) : tp_tasks[i] < Posted
    /\ \A i, j \in 1..Len(tp_tasks) : i < j => tp_tasks[i] < tp_tasks[j]
TakenInOrder ==
    /\ \A w \in Busy : ran[w][1] < Posted /\ ran[w][1] <= ran[w][2]
    /\ \A w \in Busy, i \in 1..Len(tp_tasks) : ran[w][1] < tp_tasks[i]
    /\ \A v, w \in Busy : ran[v][1] = ran[w][1] => v = w
TasksInv == QueueInOrder /\ TakenInOrder

LEMMA BusyPair ==
    ASSUME TypeInv, NEW w \in Busy
    PROVE  w \in Workers /\ ran[w][1] \in Nat /\ ran[w][2] \in Nat
<1>1. w \in Workers /\ ran[w] \in Loops \X Loops
  BY DEF Busy, TypeInv, TypeOK
<1>2. QED
  BY <1>1, LoopsNat DEF Loops

LEMMA NextTasks == TypeInv /\ TasksInv /\ [Next]_vars => TasksInv'
<1> SUFFICES ASSUME TypeInv, TasksInv, [Next]_vars
             PROVE  TasksInv'
  OBVIOUS
<1>0. /\ tp_tasks \in Seq(Loops) /\ Loops \subseteq Nat
      /\ ts_conn_loops \in Nat /\ Posted \in Int
      /\ \A i \in 1..Len(tp_tasks) : tp_tasks[i] \in Nat
      /\ Len(tp_tasks) \in Nat
  BY LoopsNat DEF TypeInv, TypeOK, Loops, Posted
<1> USE DEF config, server, pool, base
<1>1. ASSUME UNCHANGED <<tp_tasks, ran>>, Posted' = Posted
      PROVE  TasksInv'
  <2>1. Busy' = Busy
    BY <1>1 DEF Busy
  <2>2. QED
    BY <1>1, <2>1 DEF TasksInv, QueueInOrder, TakenInOrder
<1>2. CASE \/ start \/ loops_done \/ start_listen \/ start_again \/ start_done
           \/ reuse_stack \/ run_listen \/ do_accept \/ UNCHANGED vars
  <2>1. /\ UNCHANGED <<tp_tasks, ran, ts_conn_loops>>
        /\ caller' = "post" <=> caller = "post"
    BY <1>2 DEF start, loops_done, start_listen, start_again, start_done,
                reuse_stack, run_listen, do_accept, vars, Goto
  <2>2. Posted' = Posted
    BY <2>1 DEF Posted
  <2>3. QED
    BY <1>1, <2>1, <2>2
<1>3. CASE emplace_loop
  <2>1. /\ UNCHANGED <<tp_tasks, ran>> /\ caller = "emplace"
        /\ caller' = "post" /\ ts_conn_loops' = ts_conn_loops + 1
    BY <1>3 DEF emplace_loop, Goto
  <2>2. Posted' = Posted
    BY <1>0, <2>1 DEF Posted
  <2>3. QED
    BY <1>1, <2>1, <2>2
<1>4. CASE post_loop
  <2>1. /\ caller = "post" /\ caller' = "emplace"
        /\ UNCHANGED <<ts_conn_loops, ran>>
        /\ tp_tasks' = Append(tp_tasks, Posted)
    BY <1>4 DEF post_loop, Goto, Posted
  <2>2. Posted \in Loops /\ Posted' = Posted + 1
    BY <1>0, <2>1, LoopsNat DEF Posted, Loops, TypeInv, TypeOK, Progress
  <2>3. /\ Len(tp_tasks') = Len(tp_tasks) + 1
        /\ tp_tasks'[Len(tp_tasks) + 1] = Posted
        /\ \A i \in 1..Len(tp_tasks) : tp_tasks'[i] = tp_tasks[i]
    BY <1>0, <2>1, <2>2
  <2>4. Busy' = Busy
    BY <2>1 DEF Busy
  <2>5. \A i \in 1..Len(tp_tasks') :
           i \in 1..Len(tp_tasks) \/ i = Len(tp_tasks) + 1
    BY <1>0, <2>3
  <2>6. QueueInOrder'
    <3>1. ASSUME NEW i \in 1..Len(tp_tasks')
          PROVE  tp_tasks'[i] < Posted'
      BY <1>0, <2>2, <2>3, <2>5 DEF TasksInv, QueueInOrder
    <3>2. ASSUME NEW i \in 1..Len(tp_tasks'), NEW j \in 1..Len(tp_tasks'),
                 i < j
          PROVE  tp_tasks'[i] < tp_tasks'[j]
      <4>1. i \in 1..Len(tp_tasks)
        BY <1>0, <2>3, <3>2
      <4>2. QED
        BY <2>3, <2>5, <3>2, <4>1 DEF TasksInv, QueueInOrder
    <3>3. QED
      BY <3>1, <3>2 DEF QueueInOrder
  <2>7. TakenInOrder'
    <3>1. ASSUME NEW w \in Busy'
          PROVE  ran'[w][1] < Posted' /\ ran'[w][1] <= ran'[w][2]
      BY <1>0, <2>1, <2>2, <2>4, BusyPair DEF TasksInv, TakenInOrder
    <3>2. ASSUME NEW w \in Busy', NEW i \in 1..Len(tp_tasks')
          PROVE  ran'[w][1] < tp_tasks'[i]
      BY <2>1, <2>3, <2>4, <2>5, <3>2 DEF TasksInv, TakenInOrder
    <3>3. QED
      BY <2>1, <2>4, <3>1, <3>2 DEF TasksInv, TakenInOrder
  <2>8. QED
    BY <2>6, <2>7 DEF TasksInv
<1>5. ASSUME NEW w \in Workers, run_loop(w)
      PROVE  TasksInv'
  <2>1. /\ tp_tasks # <<>> /\ tp_tasks' = Tail(tp_tasks) /\ ran[w] = Idle
        /\ UNCHANGED <<ts_conn_loops, caller, ev>>
    BY <1>5 DEF run_loop
  <2>2. Posted' = Posted
    BY <2>1 DEF Posted
  <2>3. /\ Len(tp_tasks') = Len(tp_tasks) - 1 /\ Head(tp_tasks) = tp_tasks[1]
        /\ 1 \in 1..Len(tp_tasks)
        /\ \A i \in 1..Len(tp_tasks') : /\ tp_tasks'[i] = tp_tasks[i + 1]
                                        /\ i + 1 \in 1..Len(tp_tasks)
                                        /\ 1 < i + 1
    BY <1>0, <2>1
  <2>4. QueueInOrder'
    <3>1. ASSUME NEW i \in 1..Len(tp_tasks')
          PROVE  /\ tp_tasks'[i] < Posted'
                 /\ \A j \in 1..Len(tp_tasks') :
                       i < j => tp_tasks'[i] < tp_tasks'[j]
      <4>1. \A j \in 1..Len(tp_tasks') : i < j => i + 1 < j + 1
        BY <1>0
      <4>2. QED
        BY <2>2, <2>3, <4>1 DEF TasksInv, QueueInOrder
    <3>2. QED
      BY <3>1 DEF QueueInOrder
  <2>5. CASE ev = Garbage
    <3>1. ran' = ran /\ Busy' = Busy
      BY <1>5, <2>5 DEF run_loop, Busy
    <3>2. QED
      BY <2>2, <2>3, <2>4, <3>1 DEF TasksInv, TakenInOrder
  <2>6. CASE ev # Garbage
    <3> DEFINE h == tp_tasks[1]
    <3>1. /\ ran' = [ran EXCEPT ![w] = <<h, ev>>]
          /\ ran \in [Workers -> {Idle} \cup (Loops \X Loops)]
      BY <1>5, <2>3, <2>6 DEF run_loop, TypeInv, TypeOK
    <3>2. /\ ran'[w] = <<h, ev>> /\ w \notin Busy
          /\ \A v \in Workers : v # w => ran'[v] = ran[v]
      BY <2>1, <3>1 DEF Busy
    <3>3. \A v \in Busy' : v = w \/ (v # w /\ v \in Busy /\ ran'[v] = ran[v])
      BY <3>2 DEF Busy
    <3>4. h \in Nat /\ h < Posted /\ h <= ev
      BY <1>0, <2>3, <2>6
         DEF TasksInv, QueueInOrder, TypeInv, Progress, Posted
    <3>5. \A i \in 1..Len(tp_tasks') : h < tp_tasks'[i]
      BY <2>3 DEF TasksInv, QueueInOrder
    <3>6. \A v \in Busy : /\ ran[v][1] < h
                          /\ \A i \in 1..Len(tp_tasks') : ran[v][1] < tp_tasks'[i]
      BY <2>3 DEF TasksInv, TakenInOrder
    <3>7. \A v \in Busy : ran[v][1] # h
      BY <3>4, <3>6, BusyPair
    <3> HIDE DEF h
    <3>8. TakenInOrder'
      <4>1. \A v \in Busy' : ran'[v][1] < Posted' /\ ran'[v][1] <= ran'[v][2]
        BY <2>2, <3>2, <3>3, <3>4 DEF TasksInv, TakenInOrder
      <4>2. \A v \in Busy', i \in 1..Len(tp_tasks') : ran'[v][1] < tp_tasks'[i]
        BY <3>2, <3>3, <3>5, <3>6
      <4>3. \A u, v \in Busy' : ran'[u][1] = ran'[v][1] => u = v
        BY <3>2, <3>3, <3>7 DEF TasksInv, TakenInOrder
      <4>4. QED
        BY <4>1, <4>2, <4>3 DEF TakenInOrder
    <3>9. QED
      BY <2>4, <3>8 DEF TasksInv
  <2>7. QED
    BY <2>5, <2>6
<1>6. QED
  BY <1>2, <1>3, <1>4, <1>5 DEF Next, CallerStep

(* The threads in loops before loop l took their tasks from different      *)
(* iterations before l, so there are at most l of them.                    *)
LEMMA TasksMoveOn == TypeInv /\ TasksInv => MovedToLaterLoops
<1> SUFFICES ASSUME TypeInv, TasksInv, NEW l \in Loops
             PROVE  Cardinality(UNION {Runners(k) : k \in 0..(l - 1)}) <= l
  BY DEF MovedToLaterLoops
<1> DEFINE S == UNION {Runners(k) : k \in 0..(l - 1)}
           f == [w \in S |-> ran[w][1]]
<1>1. l \in Nat
  BY LoopsNat DEF Loops
<1>2. ASSUME NEW w \in S
      PROVE  w \in Busy /\ ran[w][1] \in 0..(l - 1)
  <2>1. PICK k \in 0..(l - 1) : w \in Busy /\ ran[w][2] = k
    BY DEF Runners
  <2>2. ran[w][1] <= k /\ ran[w][1] \in Nat
    BY <2>1, BusyPair DEF TasksInv, TakenInOrder
  <2>3. QED
    BY <1>1, <2>1, <2>2
<1> HIDE DEF S
<1>3. f \in Injection(S, 0..(l - 1))
  <2>1. f \in [S -> 0..(l - 1)]
    BY <1>2
  <2>2. \A v, w \in S : f[v] = f[w] => v = w
    BY <1>2 DEF TasksInv, TakenInOrder
  <2>3. QED
    BY <2>1, <2>2 DEF Injection, IsInjective
<1> HIDE DEF f
<1>4. IsFiniteSet(0..(l - 1)) /\ Cardinality(0..(l - 1)) = l
  BY <1>1, FS_Interval
<1>5. Cardinality(S) <= l
  BY <1>3, <1>4, FS_Injection
<1>6. QED
  BY <1>5 DEF S

(* However late the pool's threads come to read ev, and however many loops *)
(* there are, a thread's loop is its task's or a later one, so that no loop*)
(* is preceded by more threads than by loops.                              *)
THEOREM LateReadMovesOn == Spec => []MovedToLaterLoops
<1>1. Init => TasksInv
  BY DEF Init, TasksInv, QueueInOrder, TakenInOrder, Busy
<1>2. QED
  BY <1>1, TypeInvHolds, NextTasks, TasksMoveOn, PTL DEF Spec
=============================================================================
