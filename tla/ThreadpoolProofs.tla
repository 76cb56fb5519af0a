--------------------------- MODULE ThreadpoolProofs ---------------------------
(***************************************************************************)
(* Theorems about Threadpool, for any finite set of workers and posting    *)
(* threads and any tasks.                                                  *)
(***************************************************************************)
EXTENDS Threadpool, FiniteSetTheorems, TLAPS

(* A call of post_task holds a task until it has queued it, and a worker   *)
(* holds one from taking it to its end.                                    *)
Holding ==
    /\ \A p \in Posters : ppc[p] # "idle" => ptask[p] \in Tasks
    /\ \A w \in Workers : wpc[w] \in {"begin", "task"} => wtask[w] \in Tasks

TypeInv == TypeOK /\ Holding

LEMMA InitTypeInv == Init => TypeInv
<1> SUFFICES ASSUME Init
             PROVE  TypeInv
  OBVIOUS
<1> USE PoolAssumption DEF Init
<1>1. /\ tp_tasks \in Seq(Tasks) /\ accepted \in Seq(Tasks)
      /\ started \in Seq(Tasks)
  OBVIOUS
<1>2. tp_idl_tnum \in Int
  BY FS_CardinalityType
<1>3. QED
  BY <1>1, <1>2 DEF TypeInv, TypeOK, Holding

LEMMA NextTypeInv == TypeInv /\ [Next]_vars => TypeInv'
<1> SUFFICES ASSUME TypeInv, [Next]_vars
             PROVE  TypeInv'
  OBVIOUS
<1> USE PoolAssumption
    DEF TypeInv, TypeOK, Holding, workers, posters, taken, Goto
<1>1. ASSUME NEW w \in Workers, worker_check(w) \/ worker_wait(w)
      PROVE  TypeInv'
  BY <1>1 DEF worker_check, worker_wait
<1>2. ASSUME NEW w \in Workers, worker_lock(w)
      PROVE  TypeInv'
  BY <1>2 DEF worker_lock
<1>3. ASSUME NEW w \in Workers, worker_sleep(w) \/ worker_leave(w)
      PROVE  TypeInv'
  BY <1>3 DEF worker_sleep, worker_leave
<1>4. ASSUME NEW w \in Workers, spurious_wakeup(w)
      PROVE  TypeInv'
  BY <1>4 DEF spurious_wakeup
<1>5. ASSUME NEW w \in Workers, worker_take(w)
      PROVE  TypeInv'
  <2>1. Front \in Tasks /\ tp_tasks' \in Seq(Tasks)
    BY <1>5 DEF worker_take, Front
  <2>2. late' \in [Workers -> Nat]
    BY <1>5 DEF worker_take
  <2>3. QED
    BY <1>5, <2>1, <2>2 DEF worker_take
<1>6. ASSUME NEW w \in Workers, task_begin(w)
      PROVE  TypeInv'
  BY <1>6 DEF task_begin
<1>7. ASSUME NEW w \in Workers, task_end(w)
      PROVE  TypeInv'
  BY <1>7 DEF task_end
<1>8. ASSUME NEW p \in Posters, NEW k \in Tasks, post_check(p, k)
      PROVE  TypeInv'
  BY <1>8 DEF post_check
<1>9. ASSUME NEW p \in Posters, post_push(p)
      PROVE  TypeInv'
  BY <1>9 DEF post_push, Packaged
<1>10. ASSUME NEW p \in Posters, post_notify_one(p)
       PROVE  TypeInv'
  BY <1>10 DEF post_notify_one
<1>11. CASE dtor_stop \/ dtor_joined
  BY <1>11 DEF dtor_stop, dtor_joined
<1>12. CASE dtor_notify_all
  BY <1>12 DEF dtor_notify_all
<1>13. CASE UNCHANGED vars
  BY <1>13 DEF vars
<1>14. QED
  BY <1>1, <1>2, <1>3, <1>4, <1>5, <1>6, <1>7, <1>8, <1>9, <1>10, <1>11,
     <1>12, <1>13 DEF Next, WorkerStep, PosterStep, DtorStep, Unposted

LEMMA TypeInvHolds == Spec => []TypeInv
  BY InitTypeInv, NextTypeInv, PTL DEF Spec

(* The state of a Threadpool stays well formed: what post_task queues and  *)
(* what a worker runs is always a task.  TypeOK alone is not inductive; it *)
(* needs to know who holds a task.                                         *)
THEOREM TypeCorrect == Spec => []TypeOK
<1>1. TypeInv => TypeOK
  BY DEF TypeInv
<1>2. QED
  BY <1>1, TypeInvHolds, PTL

-----------------------------------------------------------------------------
(* The queue holds what has been accepted and not started, in order.       *)
Backlog ==
    /\ Len(accepted) = Len(started) + Len(tp_tasks)
    /\ \A i \in 1..Len(tp_tasks) : accepted[Len(started) + i] = tp_tasks[i]

queues == <<tp_tasks, accepted, started>>

LEMMA PushStep ==
    ASSUME TypeInv, Backlog, NEW p \in Posters, post_push(p)
    PROVE  Backlog' /\ Box!Accept(ptask[p]) /\ ptask[p] \in Tasks
<1> DEFINE k == ptask[p]
<1>0. /\ k \in Tasks
      /\ tp_tasks' = Append(tp_tasks, k)
      /\ accepted' = Append(accepted, k)
      /\ started' = started
      /\ tp_tasks \in Seq(Tasks) /\ accepted \in Seq(Tasks)
      /\ started \in Seq(Tasks)
  BY DEF TypeInv, TypeOK, Holding, post_push, Packaged, taken
<1> HIDE DEF k
<1>1. /\ Len(accepted) \in Nat /\ Len(started) \in Nat /\ Len(tp_tasks) \in Nat
  BY <1>0
<1>2. /\ Len(accepted') = Len(accepted) + 1
      /\ accepted'[Len(accepted) + 1] = k
      /\ \A i \in 1..Len(accepted) : accepted'[i] = accepted[i]
  BY <1>0
<1>3. /\ Len(tp_tasks') = Len(tp_tasks) + 1
      /\ tp_tasks'[Len(tp_tasks) + 1] = k
      /\ \A i \in 1..Len(tp_tasks) : tp_tasks'[i] = tp_tasks[i]
  BY <1>0
<1>4. Len(accepted') = Len(started') + Len(tp_tasks')
  BY <1>0, <1>1, <1>2, <1>3 DEF Backlog
<1>5. ASSUME NEW i \in 1..Len(tp_tasks')
      PROVE  accepted'[Len(started') + i] = tp_tasks'[i]
  <2>1. CASE i = Len(tp_tasks) + 1
    <3>1. Len(started) + i = Len(accepted) + 1
      BY <1>1, <2>1 DEF Backlog
    <3>2. QED
      BY <1>0, <1>2, <1>3, <2>1, <3>1
  <2>2. CASE i \in 1..Len(tp_tasks)
    <3>1. Len(started) + i \in 1..Len(accepted)
      BY <1>1, <2>2 DEF Backlog
    <3>2. accepted[Len(started) + i] = tp_tasks[i]
      BY <2>2 DEF Backlog
    <3>3. QED
      BY <1>0, <1>2, <1>3, <2>2, <3>1, <3>2
  <2>3. i = Len(tp_tasks) + 1 \/ i \in 1..Len(tp_tasks)
    BY <1>1, <1>3, <1>5
  <2>4. QED
    BY <2>1, <2>2, <2>3
<1>6. QED
  BY <1>0, <1>4, <1>5 DEF Backlog, Box!Accept, k

LEMMA TakeStep ==
    ASSUME TypeInv, Backlog, NEW w \in Workers, worker_take(w)
    PROVE  Backlog' /\ Box!Deliver
<1>0. /\ tp_tasks \in Seq(Tasks) /\ tp_tasks # <<>>
      /\ accepted \in Seq(Tasks) /\ started \in Seq(Tasks)
      /\ tp_tasks' = Tail(tp_tasks)
      /\ started' = Append(started, Head(tp_tasks))
      /\ accepted' = accepted
  BY DEF TypeInv, TypeOK, worker_take, Front
<1>1. /\ Len(tp_tasks) \in Nat \ {0}
      /\ Len(tp_tasks') = Len(tp_tasks) - 1
      /\ \A i \in 1..Len(tp_tasks') : tp_tasks'[i] = tp_tasks[i + 1]
      /\ Head(tp_tasks) = tp_tasks[1]
  BY <1>0
<1>2. Len(started') = Len(started) + 1 /\ Len(started) \in Nat
  BY <1>0
<1>3. Len(accepted') = Len(started') + Len(tp_tasks')
  <2>1. Len(accepted) = Len(started) + Len(tp_tasks)
    BY DEF Backlog
  <2>2. QED
    BY <1>0, <1>1, <1>2, <2>1
<1>4. ASSUME NEW i \in 1..Len(tp_tasks')
      PROVE  accepted'[Len(started') + i] = tp_tasks'[i]
  <2>1. i + 1 \in 1..Len(tp_tasks)
    BY <1>1, <1>4
  <2>2. Len(started') + i = Len(started) + (i + 1)
    BY <1>2, <1>4
  <2>3. QED
    BY <1>0, <1>1, <2>1, <2>2 DEF Backlog
<1>5. Box!Deliver
  BY <1>0, <1>1, <1>2 DEF Backlog, Box!Deliver
<1>6. QED
  BY <1>3, <1>4, <1>5 DEF Backlog

LEMMA NextBacklog ==
    TypeInv /\ Backlog /\ [Next]_vars => Backlog' /\ [Box!Next]_(Box!vars)
<1> SUFFICES ASSUME TypeInv, Backlog, [Next]_vars
             PROVE  Backlog' /\ [Box!Next]_(Box!vars)
  OBVIOUS
<1>1. ASSUME NEW p \in Posters, post_push(p)
      PROVE  Backlog' /\ [Box!Next]_(Box!vars)
  BY <1>1, PushStep DEF Box!Next
<1>2. ASSUME NEW w \in Workers, worker_take(w)
      PROVE  Backlog' /\ [Box!Next]_(Box!vars)
  BY <1>2, TakeStep DEF Box!Next
<1>3. CASE UNCHANGED queues
  BY <1>3 DEF queues, Backlog, Box!vars
<1>4. QED
  BY <1>1, <1>2, <1>3
     DEF Next, vars, queues, taken, WorkerStep, PosterStep, DtorStep,
         worker_check, worker_lock, worker_wait, worker_sleep, worker_leave,
         spurious_wakeup, task_begin, task_end, post_check, post_notify_one,
         dtor_stop, dtor_notify_all, dtor_joined

(* The pool implements Mailbox: tasks are started once each, in the order  *)
(* post_task queued them, however many workers and posters compete.        *)
THEOREM PoolRefinesMailbox == Spec => InOrderOnce
<1>1. Init => Backlog /\ Box!Init
  BY DEF Init, Backlog, Box!Init
<1>2. QED
  BY <1>1, TypeInvHolds, NextBacklog, PTL DEF Spec, InOrderOnce, Box!Spec

-----------------------------------------------------------------------------
(* A worker that has taken a task after the stop does not come back to the *)
(* queue: it is in the task, or behind it, where it will see tp_run.       *)
PromptStop ==
    \A w \in Workers :
        /\ late[w] <= 1
        /\ late[w] = 1 => ~tp_run /\ wpc[w] \in {"begin", "task", "top", "exit"}

LEMMA NextPromptStop == TypeInv /\ PromptStop /\ [Next]_vars => PromptStop'
<1> SUFFICES ASSUME TypeInv, PromptStop, [Next]_vars
             PROVE  PromptStop'
  OBVIOUS
<1> USE DEF TypeInv, TypeOK, PromptStop, workers, posters, taken, Goto
<1>1. ASSUME NEW w \in Workers, worker_take(w)
      PROVE  PromptStop'
  <2>1. late[w] = 0
    <3>1. late[w] \in Nat /\ late[w] <= 1
      OBVIOUS
    <3>2. late[w] # 1
      BY <1>1 DEF worker_take
    <3>3. QED
      BY <3>1, <3>2
  <2>2. late'[w] = (IF tp_run THEN 0 ELSE 1) /\ wpc'[w] = "begin"
    BY <1>1, <2>1 DEF worker_take
  <2>3. \A v \in Workers \ {w} : late'[v] = late[v] /\ wpc'[v] = wpc[v]
    BY <1>1 DEF worker_take
  <2>4. tp_run' = tp_run
    BY <1>1 DEF worker_take
  <2>5. QED
    BY <2>2, <2>3, <2>4
<1>2. ASSUME NEW w \in Workers,
             \/ worker_check(w) \/ worker_lock(w) \/ worker_wait(w)
             \/ worker_sleep(w) \/ worker_leave(w) \/ spurious_wakeup(w)
             \/ task_begin(w) \/ task_end(w)
      PROVE  PromptStop'
  BY <1>2 DEF worker_check, worker_lock, worker_wait, worker_sleep,
              worker_leave, spurious_wakeup, task_begin, task_end
<1>3. ASSUME NEW p \in Posters, NEW k \in Tasks,
             post_check(p, k)
      PROVE  PromptStop'
  BY <1>3 DEF post_check
<1>4. CASE dtor_stop \/ dtor_notify_all \/ dtor_joined
  BY <1>4 DEF dtor_stop, dtor_notify_all, dtor_joined
<1>5. CASE UNCHANGED vars
  BY <1>5 DEF vars
<1>6. ASSUME NEW p \in Posters, post_push(p) \/ post_notify_one(p)
      PROVE  PromptStop'
  BY <1>6 DEF post_push, post_notify_one
<1>7. QED
  BY <1>1, <1>2, <1>3, <1>4, <1>5, <1>6
     DEF Next, WorkerStep, PosterStep, DtorStep, Unposted

(* However long the backlog, a worker takes at most one task after the     *)
(* destructor has cleared tp_run.                                          *)
THEOREM StopIsPrompt == Spec => []AtMostOneTaskAfterStop
<1>1. Init => PromptStop
  BY DEF Init, PromptStop
<1>2. PromptStop => AtMostOneTaskAfterStop
  BY DEF PromptStop, AtMostOneTaskAfterStop
<1>3. QED
  BY <1>1, <1>2, TypeInvHolds, NextPromptStop, PTL DEF Spec

-----------------------------------------------------------------------------
LEMMA NextIdleCount ==
    TypeInv /\ IdleCountExact /\ [Next]_vars => IdleCountExact'
<1> SUFFICES ASSUME TypeInv, IdleCountExact, [Next]_vars
             PROVE  IdleCountExact'
  OBVIOUS
<1> DEFINE Idle == {w \in Workers : wpc[w] # "task"}
<1> USE PoolAssumption DEF TypeInv, TypeOK, workers, Goto
<1>0. IsFiniteSet(Idle) /\ tp_idl_tnum = Cardinality(Idle)
  BY FS_Subset DEF IdleCountExact
<1>1. ASSUME NEW w \in Workers, task_begin(w)
      PROVE  IdleCountExact'
  <2>1. w \in Idle /\ Idle' = Idle \ {w}
    BY <1>1 DEF task_begin
  <2>2. Cardinality(Idle') = Cardinality(Idle) - 1
    <3> HIDE DEF Idle
    <3>1. Cardinality(Idle \ {w}) = Cardinality(Idle) - 1
      BY <1>0, <2>1, FS_RemoveElement
    <3>2. QED
      BY <2>1, <3>1
  <2>3. QED
    BY <1>0, <1>1, <2>2 DEF task_begin, IdleCountExact
<1>2. ASSUME NEW w \in Workers, task_end(w)
      PROVE  IdleCountExact'
  <2>1. w \notin Idle /\ Idle' = Idle \cup {w}
    BY <1>2 DEF task_end
  <2>2. Cardinality(Idle') = Cardinality(Idle) + 1
    BY <1>0, <2>1, FS_AddElement
  <2>3. QED
    BY <1>0, <1>2, <2>2 DEF task_end, IdleCountExact
<1>3. CASE tp_idl_tnum' = tp_idl_tnum /\ Idle' = Idle
  BY <1>3 DEF IdleCountExact
<1>4. ASSUME NEW w \in Workers,
             \/ worker_check(w) \/ worker_lock(w) \/ worker_wait(w)
             \/ worker_sleep(w) \/ worker_leave(w) \/ spurious_wakeup(w)
             \/ worker_take(w)
      PROVE  tp_idl_tnum' = tp_idl_tnum /\ Idle' = Idle
  BY <1>4 DEF worker_check, worker_lock, worker_wait, worker_sleep,
              worker_leave, spurious_wakeup, worker_take
<1>5. ASSUME NEW p \in Posters, post_push(p) \/ post_notify_one(p)
      PROVE  tp_idl_tnum' = tp_idl_tnum /\ Idle' = Idle
  BY <1>5 DEF post_push, post_notify_one
<1>6. ASSUME NEW p \in Posters, NEW k \in Tasks, post_check(p, k)
      PROVE  tp_idl_tnum' = tp_idl_tnum /\ Idle' = Idle
  BY <1>6 DEF post_check
<1>7. CASE dtor_stop \/ dtor_notify_all \/ dtor_joined \/ UNCHANGED vars
  BY <1>3, <1>7 DEF dtor_stop, dtor_notify_all, dtor_joined, vars
<1>8. QED
  BY <1>1, <1>2, <1>3, <1>4, <1>5, <1>6, <1>7
     DEF Next, WorkerStep, PosterStep, DtorStep, Unposted

(* tp_idl_tnum is exact at every step, not only when the pool is at rest.  *)
THEOREM IdleCountCorrect == Spec => []IdleCountExact
<1>1. Init => IdleCountExact
  <2> SUFFICES ASSUME Init
               PROVE  IdleCountExact
    OBVIOUS
  <2>1. {w \in Workers : wpc[w] # "task"} = Workers
    BY DEF Init
  <2>2. QED
    BY <2>1 DEF Init, IdleCountExact
<1>2. QED
  BY <1>1, TypeInvHolds, NextIdleCount, PTL DEF Spec

-----------------------------------------------------------------------------
(* tp_lock is held exactly while the wait's predicate is evaluated and     *)
(* acted upon, so nothing is queued between a false predicate and the sleep.*)
LockHeld ==
    \A w \in Workers :
        /\ wpc[w] \in {"pred", "block"} <=> tp_lock = w
        /\ wpc[w] = "block" => tp_tasks = <<>>

LEMMA NextLockHeld == TypeInv /\ LockHeld /\ [Next]_vars => LockHeld'
<1> SUFFICES ASSUME TypeInv, LockHeld, [Next]_vars
             PROVE  LockHeld'
  OBVIOUS
<1> USE PoolAssumption DEF TypeInv, TypeOK, LockHeld, workers, Goto
<1>1. ASSUME NEW w \in Workers, worker_check(w) \/ spurious_wakeup(w)
      PROVE  LockHeld'
  BY <1>1 DEF worker_check, spurious_wakeup
<1>2. ASSUME NEW w \in Workers, worker_lock(w)
      PROVE  LockHeld'
  BY <1>2 DEF worker_lock
<1>3. ASSUME NEW w \in Workers, worker_wait(w)
      PROVE  LockHeld'
  BY <1>3 DEF worker_wait
<1>4. ASSUME NEW w \in Workers, worker_sleep(w) \/ worker_leave(w)
      PROVE  LockHeld'
  <2>1. tp_lock = w /\ tp_lock' = None
    BY <1>4 DEF worker_sleep, worker_leave
  <2>2. /\ wpc'[w] \notin {"pred", "block"}
        /\ \A v \in Workers \ {w} : wpc'[v] = wpc[v]
    BY <1>4 DEF worker_sleep, worker_leave
  <2>3. \A v \in Workers \ {w} : wpc[v] \notin {"pred", "block"}
    BY <2>1
  <2>4. QED
    BY <2>1, <2>2, <2>3
<1>5. ASSUME NEW w \in Workers, worker_take(w)
      PROVE  LockHeld'
  BY <1>5 DEF worker_take
<1>6. ASSUME NEW w \in Workers, task_begin(w) \/ task_end(w)
      PROVE  LockHeld'
  BY <1>6 DEF task_begin, task_end
<1>7. ASSUME NEW p \in Posters, NEW k \in Tasks, post_check(p, k)
      PROVE  LockHeld'
  BY <1>7 DEF post_check
<1>8. ASSUME NEW p \in Posters, post_push(p)
      PROVE  LockHeld'
  BY <1>8 DEF post_push
<1>9. ASSUME NEW p \in Posters, post_notify_one(p)
      PROVE  LockHeld'
  <2>1. tp_lock' = tp_lock /\ tp_tasks' = tp_tasks
    BY <1>9 DEF post_notify_one
  <2>2. \A w \in Workers : \/ wpc'[w] = wpc[w]
                           \/ wpc[w] = "asleep" /\ wpc'[w] = "lock"
    BY <1>9 DEF post_notify_one
  <2>3. QED
    BY <2>1, <2>2
<1>10. CASE dtor_stop \/ dtor_notify_all \/ dtor_joined \/ UNCHANGED vars
  BY <1>10 DEF dtor_stop, dtor_notify_all, dtor_joined, vars
<1>11. QED
  BY <1>1, <1>2, <1>3, <1>4, <1>5, <1>6, <1>7, <1>8, <1>9, <1>10
     DEF Next, WorkerStep, PosterStep, DtorStep, Unposted

LEMMA NextNoSleeper ==
    TypeInv /\ LockHeld /\ NoSleeperBesideTask /\ [Next]_vars
        => NoSleeperBesideTask'
<1> SUFFICES ASSUME TypeInv, LockHeld, NoSleeperBesideTask, [Next]_vars,
                    tp_run', Asleep' # {}
             PROVE  Len(tp_tasks') <=
                      Cardinality(Looking') + Cardinality(Notifying')
  BY DEF NoSleeperBesideTask
<1> DEFINE Goal == Len(tp_tasks') <=
                     Cardinality(Looking') + Cardinality(Notifying')
<1>0. /\ IsFiniteSet(Looking) /\ Cardinality(Looking) \in Nat
      /\ IsFiniteSet(Notifying) /\ Cardinality(Notifying) \in Nat
      /\ IsFiniteSet(Looking') /\ Cardinality(Looking') \in Nat
      /\ IsFiniteSet(Notifying') /\ Cardinality(Notifying') \in Nat
      /\ Len(tp_tasks) \in Nat
  <2>1. /\ IsFiniteSet(Looking) /\ IsFiniteSet(Looking')
        /\ IsFiniteSet(Notifying) /\ IsFiniteSet(Notifying')
    BY PoolAssumption, FS_Subset DEF Looking, Notifying
  <2>2. Len(tp_tasks) \in Nat
    BY DEF TypeInv, TypeOK
  <2>3. QED
    BY <2>1, <2>2, FS_CardinalityType
<1>1. CASE Len(tp_tasks') = 0
  BY <1>0, <1>1
<1>c. tp_run /\ Asleep # {} =>
         Len(tp_tasks) <= Cardinality(Looking) + Cardinality(Notifying)
  BY DEF NoSleeperBesideTask
<1>2. CASE /\ tp_run /\ Asleep # {}
           /\ tp_tasks' = tp_tasks /\ Notifying' = Notifying
           /\ Looking \subseteq Looking'
  <2>1. Cardinality(Looking) <= Cardinality(Looking')
    BY <1>0, <1>2, FS_Subset
  <2>2. QED
    BY <1>0, <1>2, <2>1 DEF NoSleeperBesideTask
<1> USE PoolAssumption
    DEF TypeInv, TypeOK, LockHeld, workers, posters, Goto, Asleep
<1>3. ASSUME NEW w \in Workers,
             \/ worker_check(w) \/ worker_lock(w) \/ spurious_wakeup(w)
             \/ task_begin(w) \/ task_end(w)
      PROVE  Goal
  <2>1. tp_run /\ Asleep # {} /\ tp_tasks' = tp_tasks /\ ppc' = ppc
    <3>1. tp_run /\ tp_tasks' = tp_tasks /\ ppc' = ppc
      BY <1>3 DEF worker_check, worker_lock, spurious_wakeup, task_begin,
                  task_end
    <3>2. \A v \in Workers : wpc'[v] = "asleep" => wpc[v] = "asleep"
      BY <1>3 DEF worker_check, worker_lock, spurious_wakeup, task_begin,
                  task_end
    <3>3. QED
      BY <3>1, <3>2
  <2>2. Looking \subseteq Looking'
    BY <1>3, <2>1 DEF worker_check, worker_lock, spurious_wakeup, task_begin,
                      task_end, Looking
  <2>3. QED
    BY <1>2, <2>1, <2>2 DEF Notifying
<1>4. ASSUME NEW w \in Workers, worker_wait(w) \/ worker_sleep(w)
      PROVE  Goal
  <2>1. tp_tasks' = <<>>
    BY <1>4 DEF worker_wait, worker_sleep
  <2>2. QED
    BY <1>1, <2>1
<1>5. ASSUME NEW w \in Workers, worker_leave(w)
      PROVE  Goal
  BY <1>5 DEF worker_leave
<1>6. ASSUME NEW w \in Workers, worker_take(w)
      PROVE  Goal
  <2>1. tp_run /\ Asleep # {} /\ Notifying' = Notifying
    BY <1>6 DEF worker_take, Notifying
  <2>2. w \in Looking /\ Looking' = Looking \ {w}
    BY <1>6 DEF worker_take, Looking
  <2>3. Cardinality(Looking') = Cardinality(Looking) - 1
    BY <1>0, <2>2, FS_RemoveElement
  <2>4. Len(tp_tasks') = Len(tp_tasks) - 1
    BY <1>6 DEF worker_take
  <2>5. QED
    BY <1>0, <1>c, <2>1, <2>3, <2>4
<1>7. ASSUME NEW p \in Posters, NEW k \in Tasks, post_check(p, k)
      PROVE  Goal
  <2>1. tp_run /\ Asleep # {} /\ tp_tasks' = tp_tasks
    BY <1>7 DEF post_check
  <2>2. Looking' = Looking /\ Notifying' = Notifying
    BY <1>7 DEF post_check, Looking, Notifying
  <2>3. QED
    BY <1>2, <2>1, <2>2
<1>8. ASSUME NEW p \in Posters, post_push(p)
      PROVE  Goal
  <2>1. tp_run /\ Asleep # {} /\ Looking' = Looking
    BY <1>8 DEF post_push, Looking
  <2>2. p \notin Notifying /\ Notifying' = Notifying \cup {p}
    BY <1>8 DEF post_push, Notifying
  <2>3. Cardinality(Notifying') = Cardinality(Notifying) + 1
    BY <1>0, <2>2, FS_AddElement
  <2>4. Len(tp_tasks') = Len(tp_tasks) + 1
    BY <1>8 DEF post_push, Packaged, Holding
  <2>5. QED
    BY <1>0, <1>c, <2>1, <2>3, <2>4
<1>9. ASSUME NEW p \in Posters, post_notify_one(p)
      PROVE  Goal
  <2>1. PICK w \in Workers : /\ wpc[w] = "asleep"
                             /\ wpc' = [wpc EXCEPT ![w] = "lock"]
    BY <1>9 DEF post_notify_one
  <2>2. tp_run /\ Asleep # {} /\ tp_tasks' = tp_tasks
    BY <1>9, <2>1 DEF post_notify_one
  <2>3. w \notin Looking /\ Looking' = Looking \cup {w}
    BY <2>1 DEF Looking
  <2>4. p \in Notifying /\ Notifying' = Notifying \ {p}
    BY <1>9 DEF post_notify_one, Notifying
  <2>5. Cardinality(Looking') = Cardinality(Looking) + 1
    BY <1>0, <2>3, FS_AddElement
  <2>6. Cardinality(Notifying') = Cardinality(Notifying) - 1
    BY <1>0, <2>4, FS_RemoveElement
  <2>7. QED
    BY <1>0, <1>c, <2>2, <2>5, <2>6
<1>10. CASE dtor_stop
  BY <1>10 DEF dtor_stop
<1>11. CASE dtor_notify_all \/ dtor_joined \/ UNCHANGED vars
  <2>1. tp_run /\ tp_tasks' = tp_tasks /\ ppc' = ppc
    BY <1>11 DEF dtor_notify_all, dtor_joined, vars
  <2>2. \A w \in Workers : wpc'[w] = "asleep" => wpc[w] = "asleep"
    BY <1>11 DEF dtor_notify_all, dtor_joined, vars
  <2>3. Asleep # {}
    BY <2>2
  <2>4. Looking \subseteq Looking'
    BY <1>11 DEF dtor_notify_all, dtor_joined, vars, Looking
  <2>5. QED
    BY <1>2, <2>1, <2>3, <2>4 DEF Notifying
<1>12. QED
  BY <1>3, <1>4, <1>5, <1>6, <1>7, <1>8, <1>9, <1>10, <1>11
     DEF Next, WorkerStep, PosterStep, DtorStep, Unposted

(* notify_one is enough: while the pool runs, a worker sleeps next to a    *)
(* queued task only if as many others are on their way to the queue or     *)
(* about to be woken.                                                      *)
THEOREM NoSleeper == Spec => []NoSleeperBesideTask
<1>1. Init => LockHeld /\ NoSleeperBesideTask
  BY PoolAssumption DEF Init, LockHeld, NoSleeperBesideTask, Asleep
<1>2. QED
  BY <1>1, TypeInvHolds, NextLockHeld, NextNoSleeper, PTL DEF Spec
=============================================================================
