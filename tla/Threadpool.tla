------------------------------ MODULE Threadpool ------------------------------
(***************************************************************************)
(* The thread pool of threadpool/threadpool.h (non-growing build:          *)
(* THREADPOOL_AUTO_GROW is not defined), after its constructor has started *)
(* the workers.  Threads call post_task; one thread runs the destructor.   *)
(* post_task's own check of tp_run (line 41) provides for calls that race  *)
(* with the destructor, so the model lets them.                            *)
(*                                                                         *)
(* What tp_lock protects is one step, except in tp_task_cv.wait: its       *)
(* predicate is evaluated with the lock held and the worker goes to sleep  *)
(* in a later step, because the destructor's store to tp_run and its       *)
(* notify_all take no lock and can fall in between.                        *)
(***************************************************************************)
EXTENDS Integers, Sequences, FiniteSets

CONSTANTS Workers,   \* the threads of tp_pool
          Posters,   \* the threads that call post_task
          Tasks,     \* tasks; each is posted at most once
          None

ASSUME PoolAssumption ==
    /\ IsFiniteSet(Workers) /\ Workers # {}
    /\ IsFiniteSet(Posters)
    /\ None \notin Workers \cup Tasks

VARIABLES
    tp_tasks,     \* Threadpool::tp_tasks
    tp_lock,      \* the worker that holds Threadpool::tp_lock, or None
    tp_run,       \* Threadpool::tp_run
    tp_idl_tnum,  \* Threadpool::tp_idl_tnum
    wpc,          \* where each worker is
    wtask,        \* the local `task` of each worker
    ppc,          \* where each caller of post_task is
    ptask,        \* the task it posts
    dpc,          \* where the destructor is
    accepted,     \* history: tasks put into tp_tasks, in order
    started,      \* history: tasks taken from tp_tasks, in order
    finished,     \* history: tasks that have run to their end
    late,         \* history: tasks each worker took after tp_run was cleared
    missed        \* history: workers about to sleep when notify_all was called

workers == <<tp_lock, tp_idl_tnum, wpc, wtask>>
posters == <<ppc, ptask>>
taken   == <<started, late>>
vars    == <<tp_tasks, tp_run, workers, posters, dpc, accepted, taken,
             finished, missed>>

TypeOK ==
    /\ tp_tasks \in Seq(Tasks)
    /\ tp_lock \in Workers \cup {None}
    /\ tp_run \in BOOLEAN
    /\ tp_idl_tnum \in Int
    /\ wpc \in [Workers -> {"top", "lock", "pred", "block", "asleep", "begin",
                            "task", "exit"}]
    /\ wtask \in [Workers -> Tasks \cup {None}]
    /\ ppc \in [Posters -> {"idle", "push", "notify"}]
    /\ ptask \in [Posters -> Tasks \cup {None}]
    /\ dpc \in {"idle", "notify", "join", "done"}
    /\ accepted \in Seq(Tasks)
    /\ started \in Seq(Tasks)
    /\ finished \in SUBSET Tasks
    /\ late \in [Workers -> Nat]
    /\ missed \in SUBSET Workers

(* The constructor: add_thread(size) has started every worker and counted  *)
(* it as idle.                                                             *)
Init ==
    /\ tp_tasks = <<>>
    /\ tp_lock = None
    /\ tp_run = TRUE
    /\ tp_idl_tnum = Cardinality(Workers)
    /\ wpc = [w \in Workers |-> "top"]
    /\ wtask = [w \in Workers |-> None]
    /\ ppc = [p \in Posters |-> "idle"]
    /\ ptask = [p \in Posters |-> None]
    /\ dpc = "idle"
    /\ accepted = <<>> /\ started = <<>> /\ finished = {}
    /\ late = [w \in Workers |-> 0]
    /\ missed = {}

Goto(w, from, to) == wpc[w] = from /\ wpc' = [wpc EXCEPT ![w] = to]

-----------------------------------------------------------------------------
(* post_task: throw if the pool is stopped, ...                            *)
post_check(p, k) ==
    /\ dpc # "done"
    /\ ppc[p] = "idle"
    /\ tp_run
    /\ ppc' = [ppc EXCEPT ![p] = "push"]
    /\ ptask' = [ptask EXCEPT ![p] = k]
    /\ UNCHANGED <<tp_tasks, tp_run, workers, dpc, accepted, taken, finished,
                   missed>>

MovedFrom(p) == None      \* variant: the task has been moved away before
Packaged(p) == ptask[p]

(* ... queue the packaged task under tp_lock, ...                          *)
post_push(p) ==
    /\ ppc[p] = "push"
    /\ tp_lock = None
    /\ tp_tasks' = Append(tp_tasks, Packaged(p))
    /\ accepted' = Append(accepted, Packaged(p))
    /\ ppc' = [ppc EXCEPT ![p] = "notify"]
    /\ UNCHANGED <<tp_run, workers, ptask, dpc, taken, finished, missed>>

(* Variant: nobody is woken.                                               *)
NotifyNobody(p) ==
    /\ ppc[p] = "notify"
    /\ ppc' = [ppc EXCEPT ![p] = "idle"]
    /\ ptask' = [ptask EXCEPT ![p] = None]
    /\ UNCHANGED <<tp_tasks, tp_run, workers, dpc, accepted, taken, finished,
                   missed>>

(* ... and, the lock released, wake one sleeping worker if there is one.   *)
post_notify_one(p) ==
    /\ ppc[p] = "notify"
    /\ ppc' = [ppc EXCEPT ![p] = "idle"]
    /\ ptask' = [ptask EXCEPT ![p] = None]
    /\ \/ \E w \in Workers : Goto(w, "asleep", "lock")
       \/ (\A w \in Workers : wpc[w] # "asleep") /\ UNCHANGED wpc
    /\ UNCHANGED <<tp_tasks, tp_run, tp_lock, tp_idl_tnum, wtask, dpc,
                   accepted, taken, finished, missed>>

-----------------------------------------------------------------------------
(* Variant of the worker's loop: tp_run is not looked at.                  *)
CheckNothing(w) ==
    /\ Goto(w, "top", "lock")
    /\ UNCHANGED <<tp_tasks, tp_run, tp_lock, tp_idl_tnum, wtask, posters,
                   dpc, accepted, taken, finished, missed>>

(* The thread function of add_thread.                                      *)
worker_check(w) ==
    /\ Goto(w, "top", IF tp_run THEN "lock" ELSE "exit")
    /\ UNCHANGED <<tp_tasks, tp_run, tp_lock, tp_idl_tnum, wtask, posters,
                   dpc, accepted, taken, finished, missed>>

worker_lock(w) ==
    /\ tp_lock = None
    /\ Goto(w, "lock", "pred")
    /\ tp_lock' = w
    /\ UNCHANGED <<tp_tasks, tp_run, tp_idl_tnum, wtask, posters, dpc,
                   accepted, taken, finished, missed>>

(* The wait's predicate is false: the worker is going to sleep.            *)
worker_wait(w) ==
    /\ tp_run /\ tp_tasks = <<>>
    /\ Goto(w, "pred", "block")
    /\ UNCHANGED <<tp_tasks, tp_run, tp_lock, tp_idl_tnum, wtask, posters,
                   dpc, accepted, taken, finished, missed>>

worker_sleep(w) ==
    /\ Goto(w, "block", "asleep")
    /\ tp_lock' = None
    /\ UNCHANGED <<tp_tasks, tp_run, tp_idl_tnum, wtask, posters, dpc,
                   accepted, taken, finished, missed>>

(* condition_variable::wait may return without a notification.             *)
spurious_wakeup(w) ==
    /\ Goto(w, "asleep", "lock")
    /\ UNCHANGED <<tp_tasks, tp_run, tp_lock, tp_idl_tnum, wtask, posters,
                   dpc, accepted, taken, finished, missed>>

(* The predicate is true: leave when stopped with nothing queued, ...      *)
worker_leave(w) ==
    /\ ~tp_run /\ tp_tasks = <<>>
    /\ Goto(w, "pred", "exit")
    /\ tp_lock' = None
    /\ UNCHANGED <<tp_tasks, tp_run, tp_idl_tnum, wtask, posters, dpc,
                   accepted, taken, finished, missed>>

Back  == tp_tasks[Len(tp_tasks)]   \* variant: the last task
Front == Head(tp_tasks)

(* ... otherwise take the first task, even when stopped.                   *)
worker_take(w) ==
    /\ tp_tasks # <<>>
    /\ Goto(w, "pred", "begin")
    /\ wtask' = [wtask EXCEPT ![w] = Front]
    /\ started' = Append(started, Front)
    /\ late' = [late EXCEPT ![w] = IF tp_run THEN @ ELSE @ + 1]
    /\ tp_tasks' = Tail(tp_tasks)
    /\ tp_lock' = None
    /\ UNCHANGED <<tp_run, tp_idl_tnum, posters, dpc, accepted, finished,
                   missed>>

task_begin(w) ==
    /\ Goto(w, "begin", "task")
    /\ tp_idl_tnum' = tp_idl_tnum - 1
    /\ UNCHANGED <<tp_tasks, tp_run, tp_lock, wtask, posters, dpc, accepted,
                   taken, finished, missed>>

(* Variant: the worker is not counted as idle again.                       *)
EndUncounted(w) ==
    /\ Goto(w, "task", "top")
    /\ finished' = finished \cup {wtask[w]}
    /\ wtask' = [wtask EXCEPT ![w] = None]
    /\ UNCHANGED <<tp_tasks, tp_run, tp_lock, tp_idl_tnum, posters, dpc,
                   accepted, taken, missed>>

(* task() returns (packaged_task keeps an exception for the future).       *)
task_end(w) ==
    /\ Goto(w, "task", "top")
    /\ tp_idl_tnum' = tp_idl_tnum + 1
    /\ finished' = finished \cup {wtask[w]}
    /\ wtask' = [wtask EXCEPT ![w] = None]
    /\ UNCHANGED <<tp_tasks, tp_run, tp_lock, posters, dpc, accepted, taken,
                   missed>>

-----------------------------------------------------------------------------
(* ~Threadpool: clear tp_run, notify_all, join every worker.               *)
dtor_stop ==
    /\ dpc = "idle"
    /\ dpc' = "notify"
    /\ tp_run' = FALSE
    /\ UNCHANGED <<tp_tasks, workers, posters, accepted, taken, finished,
                   missed>>

(* Variant: notify_one in place of notify_all.                             *)
DtorNotifyOne ==
    /\ dpc = "notify"
    /\ dpc' = "join"
    /\ \/ \E w \in Workers : Goto(w, "asleep", "lock")
       \/ (\A w \in Workers : wpc[w] # "asleep") /\ UNCHANGED wpc
    /\ missed' = {w \in Workers : wpc[w] = "block"}
    /\ UNCHANGED <<tp_tasks, tp_run, tp_lock, tp_idl_tnum, wtask, posters,
                   accepted, taken, finished>>

dtor_notify_all ==
    /\ dpc = "notify"
    /\ dpc' = "join"
    /\ wpc' = [w \in Workers |-> IF wpc[w] = "asleep" THEN "lock" ELSE wpc[w]]
    /\ missed' = {w \in Workers : wpc[w] = "block"}
    /\ UNCHANGED <<tp_tasks, tp_run, tp_lock, tp_idl_tnum, wtask, posters,
                   accepted, taken, finished>>

dtor_joined ==
    /\ dpc = "join"
    /\ \A w \in Workers : wpc[w] = "exit"
    /\ dpc' = "done"
    /\ UNCHANGED <<tp_tasks, tp_run, workers, posters, accepted, taken,
                   finished, missed>>

-----------------------------------------------------------------------------
Unposted == {k \in Tasks : /\ \A i \in 1..Len(accepted) : accepted[i] # k
                           /\ \A p \in Posters : ptask[p] # k}

WorkerStep(w) ==
    \/ worker_check(w) \/ worker_lock(w) \/ worker_wait(w) \/ worker_sleep(w)
    \/ worker_leave(w) \/ worker_take(w) \/ task_begin(w) \/ task_end(w)

PosterStep(p) == post_push(p) \/ post_notify_one(p)

DtorStep == dtor_notify_all \/ dtor_joined

Next ==
    \/ \E w \in Workers : WorkerStep(w) \/ spurious_wakeup(w)
    \/ \E p \in Posters : PosterStep(p)
    \/ \E p \in Posters : \E k \in Unposted : post_check(p, k)
    \/ dtor_stop
    \/ DtorStep

(* Every thread that can take its next step eventually does; a mutex that  *)
(* is free again and again is eventually granted to each thread that wants *)
(* it; the tasks themselves terminate.  Nobody has to call post_task or    *)
(* the destructor, and no spurious wake-up is owed.                        *)
Fairness ==
    /\ \A w \in Workers : WF_vars(WorkerStep(w)) /\ SF_vars(worker_lock(w))
    /\ \A p \in Posters : WF_vars(PosterStep(p)) /\ SF_vars(post_push(p))
    /\ WF_vars(DtorStep)

Spec == Init /\ [][Next]_vars /\ Fairness

-----------------------------------------------------------------------------
(* Posted tasks are started once each, in the order post_task queued them, *)
(* by whichever workers compete for them.                                  *)
Box == INSTANCE Mailbox
         WITH Items <- Tasks, accepted <- accepted, delivered <- started
InOrderOnce == Box!Spec

Asleep    == {w \in Workers : wpc[w] = "asleep"}
Looking   == {w \in Workers : wpc[w] \in {"top", "lock", "pred"}}
Notifying == {p \in Posters : ppc[p] = "notify"}

(* notify_one is never wasted: while the pool runs, no worker sleeps next  *)
(* to a queued task unless that many others are on their way to the queue  *)
(* or are about to be woken.                                               *)
NoSleeperBesideTask ==
    tp_run /\ Asleep # {} =>
        Len(tp_tasks) <= Cardinality(Looking) + Cardinality(Notifying)

(* tp_idl_tnum, which idl_thread_cnt reports, counts the workers that are  *)
(* not inside a task, whatever the interleaving of its -- and ++.          *)
IdleCountExact ==
    tp_idl_tnum = Cardinality({w \in Workers : wpc[w] # "task"})

(* Destruction is prompt: a worker takes at most one more task once tp_run *)
(* is cleared, however long the backlog is; the rest is dropped.           *)
AtMostOneTaskAfterStop == \A w \in Workers : late[w] <= 1

(* A posted task runs to its end unless the pool is being destroyed.       *)
PostedTaskFinishes ==
    \A k \in Tasks :
        (\E i \in 1..Len(tp_tasks) : tp_tasks[i] = k)
            ~> (k \in finished \/ ~tp_run)

(* The destructor returns, unless notify_all fell between a worker's look  *)
(* at tp_run and its going to sleep: the one wake-up that can be lost.     *)
DestructorReturns ==
    (dpc = "notify") ~> (dpc = "done" \/ \E w \in missed : wpc[w] = "asleep")
=============================================================================
