--------------------------- MODULE EventLoopProofs ---------------------------
(***************************************************************************)
(* Theorems about EventLoop, for any number of threads and tasks and       *)
(* whichever thread constructed the loop.                                  *)
(***************************************************************************)
EXTENDS EventLoop, TLAPS

LEMMA InitTypeOK == Init => TypeOK
<1> SUFFICES ASSUME Init
             PROVE  TypeOK
  OBVIOUS
<1> USE ThreadAssumption DEF Init, CreatorTid
<1>1. /\ el_task_funcs \in Seq(Tasks) /\ functors \in Seq(Tasks)
      /\ queued \in Seq(Tasks) /\ ran \in Seq(Tasks)
  OBVIOUS
<1>2. /\ pc \in [Threads -> LoopPcs \cup {"idle", "wakeup"}]
      /\ pc[LoopThread] \in LoopPcs
      /\ \A t \in Callers : pc[t] \in {"idle", "wakeup"}
  BY DEF LoopPcs, Callers
<1>3. /\ el_tid \in Threads
      /\ ran_by \in [Tasks -> Threads \cup {NoThread}]
      /\ added \in SUBSET Tasks
  OBVIOUS
<1>4. QED
  BY <1>1, <1>2, <1>3 DEF TypeOK

LEMMA NextTypeOK == TypeOK /\ [Next]_vars => TypeOK'
<1> SUFFICES ASSUME TypeOK, [Next]_vars
             PROVE  TypeOK'
  OBVIOUS
<1> USE ThreadAssumption DEF TypeOK, LoopPcs, Callers, tasks, history, Goto
<1>1. CASE loop_enter
  BY <1>1 DEF loop_enter
<1>2. CASE loop_check
  BY <1>2 DEF loop_check
<1>3. CASE poll_evfd
  BY <1>3 DEF poll_evfd
<1>4. CASE evfd_read
  BY <1>4 DEF evfd_read
<1>5. CASE callbacks_done
  BY <1>5 DEF callbacks_done
<1>6. CASE swap_task_funcs
  BY <1>6 DEF swap_task_funcs
<1>7. CASE run_task
  BY <1>7 DEF run_task
<1>8. CASE task_returns
  BY <1>8 DEF task_returns
<1>9. CASE tasks_done
  BY <1>9 DEF tasks_done
<1>10. CASE poll_other
  BY <1>10 DEF poll_other
<1>11. CASE quit_from_loop
  BY <1>11 DEF quit_from_loop, is_in_loop_thread
<1>12. ASSUME NEW k \in Tasks, add_task_from_loop(k)
       PROVE  TypeOK'
  <2>1. CASE is_in_loop_thread(LoopThread) /\ RunNow(LoopThread, k)
    <3>1. evfd' \in BOOLEAN
      BY <2>1 DEF RunNow
    <3>2. QED
      BY <1>12, <2>1, <3>1 DEF add_task_from_loop, RunNow
  <2>2. CASE Enqueue(k) /\ evfd' = TRUE
    BY <1>12, <2>2 DEF add_task_from_loop, Enqueue
  <2>3. QED
    BY <1>12, <2>1, <2>2 DEF add_task_from_loop
<1>13. ASSUME NEW t \in Callers, NEW k \in Tasks, add_task(t, k)
       PROVE  TypeOK'
  <2>1. CASE RunNow(t, k) /\ UNCHANGED pc
    <3>1. evfd' \in BOOLEAN
      BY <2>1 DEF RunNow
    <3>2. QED
      BY <1>13, <2>1, <3>1 DEF add_task, RunNow
  <2>2. CASE Enqueue(k) /\ Goto(t, "idle", "wakeup") /\ UNCHANGED evfd
    BY <1>13, <2>2 DEF add_task, Enqueue
  <2>3. QED
    BY <1>13, <2>1, <2>2 DEF add_task
<1>14. ASSUME NEW t \in Callers, evfd_wakeup(t)
       PROVE  TypeOK'
  BY <1>14 DEF evfd_wakeup
<1>15. ASSUME NEW t \in Callers, quit(t)
       PROVE  TypeOK'
  BY <1>15 DEF quit
<1>16. CASE UNCHANGED vars
  BY <1>16 DEF vars
<1>17. QED
  BY <1>1, <1>2, <1>3, <1>4, <1>5, <1>6, <1>7, <1>8, <1>9, <1>10, <1>11,
     <1>12, <1>13, <1>14, <1>15, <1>16 DEF Next, LoopStep

(* The state of an EventLoop stays well formed: in particular each thread  *)
(* is where its role allows, which the other theorems build on.            *)
THEOREM TypeCorrect == Spec => []TypeOK
  BY InitTypeOK, NextTypeOK, PTL DEF Spec

-----------------------------------------------------------------------------
LEMMA NextNoLostTask ==
    TypeOK /\ NoLostTask /\ [Next]_vars => NoLostTask'
<1> SUFFICES ASSUME TypeOK, NoLostTask, [Next]_vars
             PROVE  NoLostTask'
  OBVIOUS
<1> USE ThreadAssumption DEF TypeOK, NoLostTask, LoopPcs, Callers, tasks, Goto
<1>1. CASE loop_enter \/ loop_check
  BY <1>1 DEF loop_enter, loop_check
<1>2. CASE poll_evfd \/ poll_other
  BY <1>2 DEF poll_evfd, poll_other
<1>3. CASE evfd_read \/ callbacks_done
  BY <1>3 DEF evfd_read, callbacks_done
<1>4. CASE swap_task_funcs
  BY <1>4 DEF swap_task_funcs
<1>5. CASE run_task \/ task_returns \/ tasks_done
  BY <1>5 DEF run_task, task_returns, tasks_done
<1>6. CASE quit_from_loop
  BY <1>6 DEF quit_from_loop
<1>7. ASSUME NEW k \in Tasks, add_task_from_loop(k)
      PROVE  NoLostTask'
  <2>1. CASE RunNow(LoopThread, k)
    BY <1>7, <2>1 DEF add_task_from_loop, RunNow
  <2>2. CASE evfd' = TRUE
    BY <2>2
  <2>3. QED
    BY <1>7, <2>1, <2>2 DEF add_task_from_loop
<1>8. ASSUME NEW t \in Callers, NEW k \in Tasks, add_task(t, k)
      PROVE  NoLostTask'
  <2>1. CASE RunNow(t, k) /\ UNCHANGED pc
    BY <1>8, <2>1 DEF add_task, RunNow
  <2>2. CASE Goto(t, "idle", "wakeup")
    BY <2>2
  <2>3. QED
    BY <1>8, <2>1, <2>2 DEF add_task
<1>9. ASSUME NEW t \in Callers, evfd_wakeup(t)
      PROVE  NoLostTask'
  BY <1>9 DEF evfd_wakeup
<1>10. ASSUME NEW t \in Callers, quit(t)
       PROVE  NoLostTask'
  BY <1>10 DEF quit
<1>11. CASE UNCHANGED vars
  BY <1>11 DEF vars
<1>12. QED
  BY <1>1, <1>2, <1>3, <1>4, <1>5, <1>6, <1>7, <1>8, <1>9, <1>10, <1>11
     DEF Next, LoopStep

(* add_task and loop() cannot lose a task: whenever one is queued, the     *)
(* eventfd is readable, about to be written, or the loop is on its way to  *)
(* take the queue.  With TypeOK the property is inductive.                 *)
THEOREM TaskNeverLost == Spec => []NoLostTask
<1>1. Init => NoLostTask
  BY DEF Init, NoLostTask
<1>2. QED
  BY <1>1, TypeCorrect, NextNoLostTask, PTL DEF Spec

-----------------------------------------------------------------------------
LEMMA NextOwnLoop ==
    TypeOK /\ OwnLoopRunsTasks /\ [Next]_vars => OwnLoopRunsTasks'
<1> SUFFICES ASSUME TypeOK, OwnLoopRunsTasks, [Next]_vars,
                    el_tid' = LoopThread
             PROVE  TasksRunInLoopThread'
  BY DEF OwnLoopRunsTasks
<1> USE ThreadAssumption DEF TypeOK, OwnLoopRunsTasks, TasksRunInLoopThread,
                             history
<1>1. CASE run_task
  BY <1>1 DEF run_task
<1>2. ASSUME NEW k \in Tasks, add_task_from_loop(k)
      PROVE  TasksRunInLoopThread'
  BY <1>2 DEF add_task_from_loop, RunNow, Enqueue
<1>3. ASSUME NEW t \in Callers, NEW k \in Tasks, add_task(t, k)
      PROVE  TasksRunInLoopThread'
  <2>1. ~is_in_loop_thread(t)
    BY <1>3 DEF add_task, is_in_loop_thread, Callers
  <2>2. QED
    BY <1>3, <2>1 DEF add_task, Enqueue
<1>4. CASE UNCHANGED <<el_tid, ran_by>>
  BY <1>4
<1>5. QED
  BY <1>1, <1>2, <1>3, <1>4
     DEF Next, LoopStep, vars, loop_enter, loop_check, poll_evfd, evfd_read,
         callbacks_done, swap_task_funcs, task_returns, tasks_done, poll_other,
         quit_from_loop, evfd_wakeup, quit

(* A loop that is run by the thread that constructed it runs every task on *)
(* that thread, whoever calls add_task.                                    *)
THEOREM OwnLoop == Spec => []OwnLoopRunsTasks
<1>1. Init => OwnLoopRunsTasks
  BY DEF Init, OwnLoopRunsTasks, TasksRunInLoopThread
<1>2. QED
  BY <1>1, TypeCorrect, NextOwnLoop, PTL DEF Spec

-----------------------------------------------------------------------------
(* Where the queued tasks are: behind the ones that have run come those in *)
(* functors, then those in el_task_funcs; functors is only in use between  *)
(* the swap and the end of execute_task_funcs.                             *)
Backlog ==
    /\ Len(queued) = Len(ran) + Len(functors) + Len(el_task_funcs)
    /\ \A i \in 1..Len(functors) : queued[Len(ran) + i] = functors[i]
    /\ \A i \in 1..Len(el_task_funcs) :
         queued[Len(ran) + Len(functors) + i] = el_task_funcs[i]
    /\ pc[LoopThread] \notin {"run", "task"} => functors = <<>>

queues == <<el_task_funcs, functors, queued, ran>>

LEMMA EnqueueStep ==
    ASSUME TypeOK, Backlog, NEW k \in Tasks, Enqueue(k),
           UNCHANGED <<functors, ran>>,
           pc'[LoopThread] = pc[LoopThread]
    PROVE  Backlog' /\ Box!Accept(k)
<1> USE DEF TypeOK, Enqueue
<1>1. /\ Len(queued) \in Nat /\ Len(ran) \in Nat /\ Len(functors) \in Nat
      /\ Len(el_task_funcs) \in Nat
  OBVIOUS
<1>2. /\ Len(queued') = Len(queued) + 1
      /\ queued'[Len(queued) + 1] = k
      /\ \A i \in 1..Len(queued) : queued'[i] = queued[i]
  OBVIOUS
<1>3. /\ Len(el_task_funcs') = Len(el_task_funcs) + 1
      /\ el_task_funcs'[Len(el_task_funcs) + 1] = k
      /\ \A i \in 1..Len(el_task_funcs) : el_task_funcs'[i] = el_task_funcs[i]
  OBVIOUS
<1>4. Len(queued') = Len(ran') + Len(functors') + Len(el_task_funcs')
  BY <1>1, <1>2, <1>3 DEF Backlog
<1>5. ASSUME NEW i \in 1..Len(functors')
      PROVE  queued'[Len(ran') + i] = functors'[i]
  <2>1. i \in 1..Len(functors) /\ Len(ran) + i \in 1..Len(queued)
    BY <1>1, <1>5 DEF Backlog
  <2>2. QED
    BY <1>2, <2>1 DEF Backlog
<1>6. ASSUME NEW i \in 1..Len(el_task_funcs')
      PROVE  queued'[Len(ran') + Len(functors') + i] = el_task_funcs'[i]
  <2>1. CASE i = Len(el_task_funcs) + 1
    <3>1. Len(ran) + Len(functors) + i = Len(queued) + 1
      BY <1>1, <2>1 DEF Backlog
    <3>2. QED
      BY <1>2, <1>3, <2>1, <3>1
  <2>2. CASE i \in 1..Len(el_task_funcs)
    <3>1. Len(ran) + Len(functors) + i \in 1..Len(queued)
      BY <1>1, <2>2 DEF Backlog
    <3>2. queued[Len(ran) + Len(functors) + i] = el_task_funcs[i]
      BY <2>2 DEF Backlog
    <3>3. QED
      BY <1>2, <1>3, <2>2, <3>1, <3>2
  <2>3. i = Len(el_task_funcs) + 1 \/ i \in 1..Len(el_task_funcs)
    BY <1>1, <1>3, <1>6
  <2>4. QED
    BY <2>1, <2>2, <2>3
<1>7. QED
  BY <1>4, <1>5, <1>6 DEF Backlog, Box!Accept

LEMMA SwapStep == TypeOK /\ Backlog /\ swap_task_funcs => Backlog'
  BY ThreadAssumption
  DEF TypeOK, Backlog, swap_task_funcs, history, Goto

LEMMA RunStep == TypeOK /\ Backlog /\ run_task => Backlog' /\ Box!Deliver
<1> SUFFICES ASSUME TypeOK, Backlog, run_task
             PROVE  Backlog' /\ Box!Deliver
  OBVIOUS
<1> USE ThreadAssumption DEF TypeOK, run_task, Goto
<1>1. /\ Len(functors) \in Nat \ {0}
      /\ Len(functors') = Len(functors) - 1
      /\ \A i \in 1..Len(functors') : functors'[i] = functors[i + 1]
      /\ Head(functors) = functors[1]
  OBVIOUS
<1>2. /\ Len(ran') = Len(ran) + 1
      /\ Len(ran) \in Nat /\ Len(el_task_funcs) \in Nat
      /\ el_task_funcs' = el_task_funcs /\ queued' = queued
  OBVIOUS
<1>3. Backlog'
  <2>1. Len(queued') = Len(ran') + Len(functors') + Len(el_task_funcs')
    <3>1. Len(queued) = Len(ran) + Len(functors) + Len(el_task_funcs)
      BY DEF Backlog
    <3>2. QED
      BY <1>1, <1>2, <3>1
  <2>2. ASSUME NEW i \in 1..Len(functors')
        PROVE  queued'[Len(ran') + i] = functors'[i]
    <3>1. i + 1 \in 1..Len(functors)
      BY <1>1, <2>2
    <3>2. Len(ran') + i = Len(ran) + (i + 1)
      BY <1>2, <2>2
    <3>3. QED
      BY <1>1, <1>2, <3>1, <3>2 DEF Backlog
  <2>3. ASSUME NEW i \in 1..Len(el_task_funcs')
        PROVE  queued'[Len(ran') + Len(functors') + i] = el_task_funcs'[i]
    <3>1. Len(ran') + Len(functors') + i = Len(ran) + Len(functors) + i
      BY <1>1, <1>2
    <3>2. QED
      BY <1>2, <3>1 DEF Backlog
  <2>4. pc'[LoopThread] = "task"
    OBVIOUS
  <2>5. QED
    BY <2>1, <2>2, <2>3, <2>4 DEF Backlog
<1>4. Box!Deliver
  BY <1>1, <1>2 DEF Backlog, Box!Deliver
<1>5. QED
  BY <1>3, <1>4

LEMMA NextBacklog ==
    TypeOK /\ Backlog /\ [Next]_vars => Backlog' /\ [Box!Next]_(Box!vars)
<1> SUFFICES ASSUME TypeOK, Backlog, [Next]_vars
             PROVE  Backlog' /\ [Box!Next]_(Box!vars)
  OBVIOUS
<1> USE ThreadAssumption DEF tasks, history, Goto
<1>0. ASSUME UNCHANGED queues,
             pc'[LoopThread] \notin {"run", "task"} => functors = <<>>
      PROVE  Backlog' /\ [Box!Next]_(Box!vars)
  BY <1>0 DEF Backlog, queues, Box!vars
<1>1. CASE swap_task_funcs
  BY <1>1, SwapStep DEF swap_task_funcs, Box!vars
<1>2. CASE run_task
  BY <1>2, RunStep DEF Box!Next
<1>3. CASE \/ loop_enter \/ loop_check \/ poll_evfd \/ poll_other
           \/ evfd_read \/ callbacks_done \/ task_returns
  <2>1. UNCHANGED queues
    BY <1>3 DEF loop_enter, loop_check, poll_evfd, poll_other, evfd_read,
                callbacks_done, task_returns, queues
  <2>2. pc'[LoopThread] \notin {"run", "task"} => functors = <<>>
    BY <1>3 DEF loop_enter, loop_check, poll_evfd, poll_other, evfd_read,
                callbacks_done, task_returns, Backlog, TypeOK
  <2>3. QED
    BY <1>0, <2>1, <2>2
<1>4. CASE tasks_done
  BY <1>0, <1>4 DEF tasks_done, queues
<1>5. CASE quit_from_loop \/ UNCHANGED vars
  BY <1>0, <1>5 DEF quit_from_loop, vars, queues, Backlog
<1>6. ASSUME NEW k \in Tasks, add_task_from_loop(k)
      PROVE  Backlog' /\ [Box!Next]_(Box!vars)
  <2>1. CASE RunNow(LoopThread, k)
    BY <1>0, <1>6, <2>1 DEF add_task_from_loop, RunNow, queues, Backlog
  <2>2. CASE Enqueue(k)
    BY <1>6, <2>2, EnqueueStep DEF add_task_from_loop, Box!Next
  <2>3. QED
    BY <1>6, <2>1, <2>2 DEF add_task_from_loop
<1>7. ASSUME NEW t \in Callers, NEW k \in Tasks, add_task(t, k)
      PROVE  Backlog' /\ [Box!Next]_(Box!vars)
  <2>1. pc'[LoopThread] = pc[LoopThread]
    BY <1>7 DEF add_task, Callers, TypeOK
  <2>2. CASE RunNow(t, k)
    BY <1>0, <1>7, <2>1, <2>2 DEF add_task, RunNow, queues, Backlog
  <2>3. CASE Enqueue(k)
    BY <1>7, <2>1, <2>3, EnqueueStep DEF add_task, Box!Next
  <2>4. QED
    BY <1>7, <2>2, <2>3 DEF add_task
<1>8. ASSUME NEW t \in Callers, evfd_wakeup(t) \/ quit(t)
      PROVE  Backlog' /\ [Box!Next]_(Box!vars)
  <2>1. UNCHANGED queues /\ pc'[LoopThread] = pc[LoopThread]
    BY <1>8 DEF evfd_wakeup, quit, queues, Callers, TypeOK
  <2>2. QED
    BY <1>0, <2>1 DEF Backlog
<1>9. QED
  BY <1>1, <1>2, <1>3, <1>4, <1>5, <1>6, <1>7, <1>8 DEF Next, LoopStep

(* The loop implements Mailbox: the tasks that other threads queue are run *)
(* once each and in the order of queueing, across the swap of the queue.   *)
THEOREM LoopRefinesMailbox == Spec => InOrderOnce
<1>1. Init => Backlog /\ Box!Init
  BY ThreadAssumption DEF Init, Backlog, Box!Init
<1>2. QED
  BY <1>1, TypeCorrect, NextBacklog, PTL DEF Spec, InOrderOnce, Box!Spec
=============================================================================
