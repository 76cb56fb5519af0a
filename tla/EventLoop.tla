------------------------------ MODULE EventLoop ------------------------------
(***************************************************************************)
(* One EventLoop object (net/event_loop.h, net/event_loop.cpp) with the    *)
(* part of Epoll::poll (net/epoll.cpp) that its loop blocks in.  One       *)
(* thread executes loop(); any thread calls add_task() and quit().         *)
(*                                                                         *)
(* is_in_loop_thread() compares the caller with el_tid, which is the       *)
(* thread that ran the CONSTRUCTOR.  The acceptor's loop of the example    *)
(* servers is constructed and run by the same thread; the loops that       *)
(* TcpServer::start creates are constructed by its caller and run by a     *)
(* thread of its pool, so there el_tid is not the thread of the loop.      *)
(*                                                                         *)
(* A task is a name; each is added at most once.  The eventfd counter is   *)
(* abstracted to "nonzero", which is all epoll and the code look at.       *)
(***************************************************************************)
EXTENDS Naturals, Sequences

CONSTANTS Threads,     \* the threads that use the loop
          LoopThread,  \* the one that executes loop()
          Creators,    \* the ones that may have constructed the object
          Tasks,       \* tasks that may be added
          NoThread     \* "not run yet"

ASSUME ThreadAssumption ==
    /\ LoopThread \in Threads
    /\ Creators \subseteq Threads
    /\ NoThread \notin Threads

VARIABLES
    el_tid,                 \* EventLoop::el_tid, fixed by the constructor
    el_quit,                \* EventLoop::el_quit
    el_task_funcs,          \* EventLoop::el_task_funcs
    el_dealing_task_funcs,  \* EventLoop::el_dealing_task_funcs
    functors,               \* local of execute_task_funcs: tasks left to run
    evfd,                   \* the counter of el_evfd is nonzero
    pc,                     \* where each thread is
    added,                  \* history: tasks passed to add_task
    queued,                 \* history: tasks put into el_task_funcs, in order
    ran,                    \* history: queued tasks run by the loop, in order
    ran_by,                 \* history: the thread that ran each task
    quit_by                 \* history: who called quit() since loop() began

tasks   == <<el_task_funcs, el_dealing_task_funcs, functors>>
history == <<added, queued, ran, ran_by>>
vars    == <<el_tid, el_quit, tasks, evfd, pc, history, quit_by>>

LoopPcs == {"start", "check", "poll", "evfd_read", "callbacks", "swap",
            "run", "task", "exit"}
Callers == Threads \ {LoopThread}

TypeOK ==
    /\ el_tid \in Threads
    /\ el_quit \in BOOLEAN
    /\ el_task_funcs \in Seq(Tasks)
    /\ el_dealing_task_funcs \in BOOLEAN
    /\ functors \in Seq(Tasks)
    /\ evfd \in BOOLEAN
    /\ pc \in [Threads -> LoopPcs \cup {"idle", "wakeup"}]
    /\ pc[LoopThread] \in LoopPcs
    /\ \A t \in Callers : pc[t] \in {"idle", "wakeup"}
    /\ added \in SUBSET Tasks
    /\ queued \in Seq(Tasks)
    /\ ran \in Seq(Tasks)
    /\ ran_by \in [Tasks -> Threads \cup {NoThread}]
    /\ quit_by \in SUBSET Threads

(* el_tid is initialised with the id of the thread that constructs it.     *)
TidUnset  == {NoThread}   \* variant: the id of no thread
CreatorTid == Creators

(* The constructor registers el_evfd for EPOLLIN and initialises the rest. *)
Init ==
    /\ el_tid \in CreatorTid
    /\ el_quit = FALSE
    /\ el_task_funcs = <<>>
    /\ el_dealing_task_funcs = FALSE
    /\ functors = <<>>
    /\ evfd = FALSE
    /\ pc = [t \in Threads |-> IF t = LoopThread THEN "start" ELSE "idle"]
    /\ added = {}
    /\ queued = <<>>
    /\ ran = <<>>
    /\ ran_by = [k \in Tasks |-> NoThread]
    /\ quit_by = {}

Goto(t, from, to) == pc[t] = from /\ pc' = [pc EXCEPT ![t] = to]

AlwaysInLoop(t) == TRUE   \* variant: every caller runs its task on the spot
is_in_loop_thread(t) == t = el_tid

-----------------------------------------------------------------------------
(* add_task.  A caller that is_in_loop_thread runs the task on the spot;   *)
(* any other takes el_mutex, queues it, and only after releasing the mutex *)
(* writes the eventfd, as a step of its own.                               *)

RunNow(t, k) ==
    /\ ran_by' = [ran_by EXCEPT ![k] = t]
    /\ evfd' = (evfd \/ el_dealing_task_funcs)
    /\ UNCHANGED <<el_task_funcs, queued>>

Enqueue(k) ==
    /\ el_task_funcs' = Append(el_task_funcs, k)
    /\ queued' = Append(queued, k)
    /\ UNCHANGED ran_by

add_task(t, k) ==
    /\ pc[t] = "idle"
    /\ added' = added \cup {k}
    /\ \/ /\ is_in_loop_thread(t)
          /\ RunNow(t, k)
          /\ UNCHANGED pc
       \/ /\ ~is_in_loop_thread(t)
          /\ Enqueue(k)
          /\ Goto(t, "idle", "wakeup")
          /\ UNCHANGED evfd
    /\ UNCHANGED <<el_tid, el_quit, el_dealing_task_funcs, functors, ran,
                   quit_by>>

(* Where code of the user runs on the thread of the loop: before it calls  *)
(* loop(), in a descriptor's callback and in a running task.               *)
InUserCode == pc[LoopThread] \in {"start", "evfd_read", "callbacks", "task"}

(* The same call made there: it cannot be interrupted by its own loop, so  *)
(* queueing and the write are one step.                                    *)
add_task_from_loop(k) ==
    /\ InUserCode
    /\ added' = added \cup {k}
    /\ \/ is_in_loop_thread(LoopThread) /\ RunNow(LoopThread, k)
       \/ ~is_in_loop_thread(LoopThread) /\ Enqueue(k) /\ evfd' = TRUE
    /\ UNCHANGED <<el_tid, el_quit, el_dealing_task_funcs, functors, pc, ran,
                   quit_by>>

(* Variant: written only when the loop is busy with tasks.                 *)
WakeupIfDealing(t) ==
    /\ Goto(t, "wakeup", "idle")
    /\ evfd' = (evfd \/ el_dealing_task_funcs)
    /\ UNCHANGED <<el_tid, el_quit, tasks, history, quit_by>>

evfd_wakeup(t) ==
    /\ Goto(t, "wakeup", "idle")
    /\ evfd' = TRUE
    /\ UNCHANGED <<el_tid, el_quit, tasks, history, quit_by>>

(* Variant of quit: no wake-up.                                            *)
QuitQuietly(t) ==
    /\ pc[t] = "idle"
    /\ el_quit' = TRUE
    /\ quit_by' = quit_by \cup {t}
    /\ UNCHANGED <<el_tid, tasks, evfd, pc, history>>

(* quit() by another thread: it wakes the loop unless is_in_loop_thread.   *)
quit(t) ==
    /\ pc[t] = "idle"
    /\ el_quit' = TRUE
    /\ quit_by' = quit_by \cup {t}
    /\ pc' = [pc EXCEPT ![t] = IF is_in_loop_thread(t) THEN @ ELSE "wakeup"]
    /\ UNCHANGED <<el_tid, tasks, evfd, history>>

(* quit() on the thread of the loop.                                       *)
quit_from_loop ==
    /\ InUserCode
    /\ el_quit' = TRUE
    /\ quit_by' = quit_by \cup {LoopThread}
    /\ evfd' = (evfd \/ ~is_in_loop_thread(LoopThread))
    /\ UNCHANGED <<el_tid, tasks, pc, history>>

-----------------------------------------------------------------------------
(* loop(): it resets el_quit on entry, then polls and runs queued tasks    *)
(* until it sees el_quit.                                                  *)

loop_enter ==
    /\ Goto(LoopThread, "start", "check")
    /\ el_quit' = FALSE
    /\ quit_by' = {}
    /\ UNCHANGED <<el_tid, tasks, evfd, history>>

loop_check ==
    /\ Goto(LoopThread, "check", IF el_quit THEN "exit" ELSE "poll")
    /\ UNCHANGED <<el_tid, el_quit, tasks, evfd, history, quit_by>>

(* epoll_wait returns because el_evfd is readable (level triggered), ...   *)
poll_evfd ==
    /\ evfd
    /\ Goto(LoopThread, "poll", "evfd_read")
    /\ UNCHANGED <<el_tid, el_quit, tasks, evfd, history, quit_by>>

(* ... because only other descriptors are ready, or after EPOLLWAIT_TIME.  *)
poll_other ==
    /\ ~evfd
    /\ Goto(LoopThread, "poll", "callbacks")
    /\ UNCHANGED <<el_tid, el_quit, tasks, evfd, history, quit_by>>

(* execute_cbs reaches el_evfd: evfd_read resets the counter.              *)
evfd_read ==
    /\ Goto(LoopThread, "evfd_read", "callbacks")
    /\ evfd' = FALSE
    /\ UNCHANGED <<el_tid, el_quit, tasks, history, quit_by>>

callbacks_done ==
    /\ Goto(LoopThread, "callbacks", "swap")
    /\ UNCHANGED <<el_tid, el_quit, tasks, evfd, history, quit_by>>

(* Variant: the queue is copied, not swapped with an empty one.            *)
CopyTaskFuncs ==
    /\ Goto(LoopThread, "swap", "run")
    /\ el_dealing_task_funcs' = TRUE
    /\ functors' = el_task_funcs
    /\ UNCHANGED <<el_tid, el_quit, el_task_funcs, evfd, history, quit_by>>

(* execute_task_funcs: take the whole queue under el_mutex, ...            *)
swap_task_funcs ==
    /\ Goto(LoopThread, "swap", "run")
    /\ el_dealing_task_funcs' = TRUE
    /\ functors' = el_task_funcs
    /\ el_task_funcs' = <<>>
    /\ UNCHANGED <<el_tid, el_quit, evfd, history, quit_by>>

(* ... call the tasks one after the other; while a task's body runs ("task")*)
(* it may itself call add_task or quit, ...                                *)
run_task ==
    /\ functors # <<>>
    /\ Goto(LoopThread, "run", "task")
    /\ ran_by' = [ran_by EXCEPT ![Head(functors)] = LoopThread]
    /\ ran' = Append(ran, Head(functors))
    /\ functors' = Tail(functors)
    /\ UNCHANGED <<el_tid, el_quit, el_task_funcs, el_dealing_task_funcs, evfd,
                   added, queued, quit_by>>

task_returns ==
    /\ Goto(LoopThread, "task", "run")
    /\ UNCHANGED <<el_tid, el_quit, tasks, evfd, history, quit_by>>

(* ... and go round.                                                       *)
tasks_done ==
    /\ functors = <<>>
    /\ Goto(LoopThread, "run", "check")
    /\ el_dealing_task_funcs' = FALSE
    /\ UNCHANGED <<el_tid, el_quit, el_task_funcs, functors, evfd, history,
                   quit_by>>

-----------------------------------------------------------------------------
LoopStep ==
    \/ loop_enter \/ loop_check \/ poll_evfd \/ evfd_read \/ callbacks_done
    \/ swap_task_funcs \/ run_task \/ task_returns \/ tasks_done

Next ==
    \/ LoopStep
    \/ poll_other
    \/ quit_from_loop
    \/ \E k \in Tasks \ added : add_task_from_loop(k)
    \/ \E t \in Callers, k \in Tasks \ added : add_task(t, k)
    \/ \E t \in Callers : evfd_wakeup(t) \/ quit(t)

(* The scheduler lets every thread that can take its next step take it.    *)
(* poll_other is left without fairness: nothing below may depend on other  *)
(* traffic or on the 20 s poll timeout to wake the loop.                   *)
Fairness ==
    /\ WF_vars(LoopStep)
    /\ \A t \in Callers : WF_vars(evfd_wakeup(t))

Spec == Init /\ [][Next]_vars /\ Fairness

-----------------------------------------------------------------------------
(* A task that sits in el_task_funcs is never forgotten by a sleeping      *)
(* loop: the eventfd is already readable, or the thread that queued it is  *)
(* about to write it, or the loop is awake and will still swap the queue   *)
(* before it polls again (add_task queues before it writes; the loop reads *)
(* the eventfd before it swaps).                                           *)
NoLostTask ==
    el_task_funcs # <<>> =>
        \/ evfd
        \/ \E t \in Callers : pc[t] = "wakeup"
        \/ pc[LoopThread] \in {"evfd_read", "callbacks", "swap"}

(* Every task, whoever adds it and from wherever, runs on the thread that  *)
(* executes loop().                                                        *)
TasksRunInLoopThread == \A k \in Tasks : ran_by[k] \in {NoThread, LoopThread}

(* It does when the object was constructed by the thread that runs it.     *)
OwnLoopRunsTasks == el_tid = LoopThread => TasksRunInLoopThread

(* Tasks queued from other threads run once each, in the order they were   *)
(* queued, across the swap of el_task_funcs and functors.                  *)
Box == INSTANCE Mailbox
         WITH Items <- Tasks, accepted <- queued, delivered <- ran
InOrderOnce == Box!Spec

(* A queued task is eventually run, by the wake-up alone, unless the loop  *)
(* is told to quit.                                                        *)
QueuedTaskRuns ==
    \A k \in Tasks :
        (\E i \in 1..Len(el_task_funcs) : el_task_funcs[i] = k)
            ~> (ran_by[k] = LoopThread \/ el_quit)

(* The callers whose quit() writes no eventfd although they are not the    *)
(* thread that loop() blocks: the constructor of a loop another thread     *)
(* runs.                                                                   *)
QuietCallers == {el_tid} \ {LoopThread}

(* quit() stops a loop that has been entered, again by the wake-up alone,  *)
(* whichever thread runs the loop, if at least one caller is the loop's    *)
(* own thread or a thread that did not construct it.  The other two cases  *)
(* the code does not stop, and are left out by name: a quit() before       *)
(* loop() starts is erased by its first line (quit_by is emptied with      *)
(* el_quit); and the constructor of a loop that another thread runs passes *)
(* is_in_loop_thread, writes no eventfd, and its request is slept through  *)
(* until other traffic or the poll timeout.                                *)
QuitStopsLoop ==
    (pc[LoopThread] # "start" /\ ~(quit_by \subseteq QuietCallers))
        ~> (pc[LoopThread] = "exit")
=============================================================================
