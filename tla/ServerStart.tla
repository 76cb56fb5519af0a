----------------------------- MODULE ServerStart -----------------------------
(***************************************************************************)
(* TcpServer::start (net/tcp_server.cpp) with the acceptor's listen, up to *)
(* the first accepted connection: one thread calls start(), once or more;  *)
(* the threads of ts_thread_pool pick up the tasks it posts, one for each  *)
(* sub-loop; the thread of the acceptor's loop listens and accepts.        *)
(*                                                                         *)
(* Two values are not what the code means them to be.  ts_started is read  *)
(* before anything has initialised it: it may hold either value.  Each task*)
(* refers to ev, a local of the iteration that posted it, and reads it only*)
(* when a pool thread gets to it: by then the stack slot may hold the ev of*)
(* a later iteration, or, after the iterations, anything (Garbage).        *)
(*                                                                         *)
(* Abstractions.  The pool is its contract (see Threadpool): tasks are     *)
(* taken in order, each by one idle thread.  Taking a task and reading ev  *)
(* are one step.  Nothing calls quit() on a sub-loop, so loop() does not   *)
(* return.  A thread that follows Garbage crashes the process.             *)
(***************************************************************************)
EXTENDS Integers, Sequences, FiniteSets

CONSTANTS Workers,     \* threads that ts_thread_pool may start
          MaxStarts,   \* bound: calls of start()
          Garbage,     \* what a reused stack slot holds
          Idle         \* a pool thread that waits for a task

MaxLoops == Cardinality(Workers)
Loops    == 0..(MaxLoops - 1)

ASSUME StartAssumption ==
    /\ IsFiniteSet(Workers)
    /\ MaxStarts \in Nat \ {0}
    /\ Garbage \notin Int

VARIABLES
    process,         \* "up"; "exit" and "crash" end it
    in_loop_thread,  \* start() is called by the acceptor loop's own thread
    uninit,          \* what ts_started held before it was assigned
    caller, starts,  \* where the caller of start() is, and calls made
    ts_thread_num,   \* TcpServer::ts_thread_num, see set_thread_num
    ts_started,      \* TcpServer::ts_started
    ts_timer,        \* ts_timer runs
    ts_conn_loops,   \* the number of loops in TcpServer::ts_conn_loops
    ev,              \* the stack slot of start()'s local ev
    tp_tasks,        \* the pool's queue; a task is the iteration it is from
    ran,             \* per pool thread: its task and the loop it found in ev
    el_task_funcs,   \* acceptor's loop: queued calls of listen()
    ac_listening,    \* Acceptor::ac_listening
    accepting        \* the acceptor's loop is in do_accept, for good

config == <<in_loop_thread, uninit, ts_thread_num>>
server == <<ts_started, ts_timer, ts_conn_loops>>
pool   == <<tp_tasks, ran>>
base   == <<el_task_funcs, ac_listening, accepting>>
vars   == <<process, config, caller, starts, server, ev, pool, base>>

TypeOK ==
    /\ process \in {"up", "exit", "crash"}
    /\ {in_loop_thread, uninit, ts_started, ts_timer, ac_listening, accepting}
         \subseteq BOOLEAN
    /\ caller \in {"start", "emplace", "post", "listen", "return", "done"}
    /\ starts \in 1..MaxStarts
    /\ ts_thread_num \in 0..MaxLoops /\ ts_conn_loops \in 0..ts_thread_num
    /\ ev \in Loops \cup {Garbage}
    /\ tp_tasks \in Seq(Loops)
    /\ ran \in [Workers -> {Idle} \cup (Loops \X Loops)]
    /\ el_task_funcs \in 0..MaxStarts

(* Acceptor::Acceptor binds the port, or exit(1).                          *)
Acceptor ==
    /\ process \in {"up", "exit"}
    /\ ac_listening = FALSE /\ accepting = FALSE

(* TcpServer::TcpServer, on either kind of thread, and set_thread_num.     *)
Init ==
    /\ Acceptor /\ el_task_funcs = 0
    /\ in_loop_thread \in BOOLEAN
    /\ uninit \in BOOLEAN /\ ts_started = uninit
    /\ caller = "start" /\ starts = 1
    /\ ts_thread_num \in 0..MaxLoops
    /\ ts_timer = FALSE /\ ts_conn_loops = 0
    /\ ev = Garbage
    /\ tp_tasks = <<>> /\ ran = [w \in Workers |-> Idle]

Busy == {w \in Workers : ran[w] # Idle}
Goto(from, to) == process = "up" /\ caller = from /\ caller' = to

-----------------------------------------------------------------------------
(* start(): if ts_started is false, run the timer and make the pool, ...   *)
start ==
    /\ Goto("start", IF ts_started THEN "listen" ELSE "emplace")
    /\ ts_started' = TRUE
    /\ ts_timer' = (ts_timer \/ ~ts_started)
    /\ UNCHANGED <<process, config, starts, ts_conn_loops, ev, pool, base>>

(* Variants: i <= ts_thread_num; ev is the loop before the new one.        *)
OneTooMany ==
    /\ ts_conn_loops <= ts_thread_num
    /\ Goto("emplace", "post")
    /\ ts_conn_loops' = ts_conn_loops + 1
    /\ ev' = ts_conn_loops
    /\ UNCHANGED <<process, config, starts, ts_started, ts_timer, pool, base>>

LoopBefore ==
    /\ ts_conn_loops < ts_thread_num
    /\ Goto("emplace", "post")
    /\ ts_conn_loops' = ts_conn_loops + 1
    /\ ev' = IF ts_conn_loops = 0 THEN 0 ELSE ts_conn_loops - 1
    /\ UNCHANGED <<process, config, starts, ts_started, ts_timer, pool, base>>

(* ... then for each i < ts_thread_num a new loop, which ev points to, ... *)
emplace_loop ==
    /\ ts_conn_loops < ts_thread_num
    /\ Goto("emplace", "post")
    /\ ts_conn_loops' = ts_conn_loops + 1
    /\ ev' = ts_conn_loops
    /\ UNCHANGED <<process, config, starts, ts_started, ts_timer, pool, base>>

(* ... and a task that refers to ev.                                       *)
post_loop ==
    /\ Goto("post", "emplace")
    /\ tp_tasks' = Append(tp_tasks, ts_conn_loops - 1)
    /\ UNCHANGED <<process, config, starts, server, ev, ran, base>>

loops_done ==
    /\ ts_conn_loops = ts_thread_num
    /\ Goto("emplace", "listen")
    /\ UNCHANGED <<process, config, starts, server, ev, pool, base>>

(* Acceptor::listen: the socket listens and the loop watches it, or exit.  *)
listen ==
    \/ ac_listening' = TRUE /\ UNCHANGED process
    \/ process' = "exit" /\ UNCHANGED ac_listening

(* Variant: the acceptor is asked whether it listens the wrong way round.  *)
ListenAgain ==
    /\ Goto("listen", "return")
    /\ IF ~ac_listening THEN UNCHANGED <<process, ac_listening, el_task_funcs>>
       ELSE IF in_loop_thread THEN listen /\ UNCHANGED el_task_funcs
       ELSE /\ el_task_funcs' = el_task_funcs + 1
            /\ UNCHANGED <<process, ac_listening>>
    /\ UNCHANGED <<config, starts, server, ev, pool, accepting>>

(* Unless it listens already, add_task: listen() is called at once by the  *)
(* acceptor loop's own thread and queued by any other.                     *)
start_listen ==
    /\ Goto("listen", "return")
    /\ IF ac_listening THEN UNCHANGED <<process, ac_listening, el_task_funcs>>
       ELSE IF in_loop_thread THEN listen /\ UNCHANGED el_task_funcs
       ELSE /\ el_task_funcs' = el_task_funcs + 1
            /\ UNCHANGED <<process, ac_listening>>
    /\ UNCHANGED <<config, starts, server, ev, pool, accepting>>

start_again ==
    /\ starts < MaxStarts
    /\ Goto("return", "start")
    /\ starts' = starts + 1
    /\ UNCHANGED <<process, config, server, ev, pool, base>>

(* The caller goes on, to EventLoop::loop() if it is the loop's thread.    *)
start_done ==
    /\ Goto("return", "done")
    /\ UNCHANGED <<process, config, starts, server, ev, pool, base>>

(* Once the iterations are over the stack slot of ev is reused.            *)
reuse_stack ==
    /\ process = "up" /\ caller \notin {"emplace", "post"}
    /\ ev' = Garbage
    /\ UNCHANGED <<process, config, caller, starts, server, pool, base>>

-----------------------------------------------------------------------------
(* One of the pool's ts_thread_num threads runs the task                   *)
(* [&ev]() { ev->loop(); }.                                                *)
run_loop(w) ==
    /\ process = "up" /\ tp_tasks # <<>>
    /\ ran[w] = Idle /\ Cardinality(Busy) < ts_thread_num
    /\ tp_tasks' = Tail(tp_tasks)
    /\ IF ev = Garbage
       THEN process' = "crash" /\ UNCHANGED ran
       ELSE /\ ran' = [ran EXCEPT ![w] = <<Head(tp_tasks), ev>>]
            /\ UNCHANGED process
    /\ UNCHANGED <<config, caller, starts, server, ev, base>>

(* The acceptor's loop runs the queued calls of listen(), ...              *)
run_listen ==
    /\ process = "up" /\ el_task_funcs > 0 /\ ~accepting
    /\ el_task_funcs' = 0
    /\ listen
    /\ UNCHANGED <<config, caller, starts, server, ev, pool, accepting>>

(* ... and accepts: get_next_loop returns nullptr when there is no loop,   *)
(* which TcpConnection::add_task follows.  The accepting loop of do_accept *)
(* is left only when accept fails with EAGAIN, and the socket blocks.      *)
NoNextLoop == ts_conn_loops = 0

do_accept ==
    /\ process = "up" /\ ac_listening /\ ~accepting
    /\ in_loop_thread => caller = "done"
    /\ accepting' = TRUE
    /\ process' = IF NoNextLoop THEN "crash" ELSE process
    /\ UNCHANGED <<config, caller, starts, server, ev, pool, el_task_funcs,
                   ac_listening>>

-----------------------------------------------------------------------------
CallerStep == start \/ emplace_loop \/ post_loop \/ loops_done
              \/ start_listen \/ start_again \/ start_done

Next == CallerStep \/ reuse_stack \/ run_listen \/ do_accept
        \/ \E w \in Workers : run_loop(w)

(* Every thread keeps running; the clients, and what the stack is used for *)
(* next, owe nothing.                                                      *)
Fairness == /\ WF_vars(CallerStep) /\ WF_vars(run_listen)
            /\ \A w \in Workers : WF_vars(run_loop(w))

Spec == Init /\ [][Next]_vars /\ Fairness

-----------------------------------------------------------------------------
Runners(l) == {w \in Busy : ran[w][2] = l}
Late == \E w \in Busy : ran[w][1] # ran[w][2]

(* Each thread of the pool executes an event loop, and no two the same.    *)
EachLoopItsThread == \A l \in Loops : Cardinality(Runners(l)) <= 1

(* A late read of ev only moves a thread to a later loop: however the pool *)
(* and start() interleave, at most l threads run loops before loop l, so a *)
(* loop that stays without a thread is never the last one.                 *)
MovedToLaterLoops ==
    \A l \in Loops : Cardinality(UNION {Runners(k) : k \in 0..(l - 1)}) <= l

(* start() comes to good order: unless the process ends or ts_started held *)
(* TRUE by chance, eventually the server listens, the timer runs, and as   *)
(* many pool threads as were asked for are in a loop, one in the last; if  *)
(* none of them read ev late, every loop has exactly one.                  *)
StartSettles ==
    <>[]( \/ process # "up"
          \/ /\ ac_listening
             /\ \/ uninit
                \/ /\ ts_timer
                   /\ Cardinality(Busy) = ts_thread_num
                   /\ ts_thread_num > 0 => Runners(ts_thread_num - 1) # {}
                   /\ ~Late => \A l \in 0..(ts_thread_num - 1) :
                                 Cardinality(Runners(l)) = 1 )
=============================================================================
