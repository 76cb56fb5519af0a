# A TLA+ model of the concurrent server

TLA+ specifications, TLC configurations and TLAPS proofs for the C++ server of
this repository: a main reactor that accepts connections and deals them to
sub-reactors, a timer that evicts idle connections, a thread pool, a memory
pool and a logger. Paths below are relative to the repository (`net/...`,
`timer/...`); definitions keep the names of the code.

## 1. The system

| part | state it keeps | operations | talks to |
|---|---|---|---|
| `EventLoop` (`net/event_loop.*`) | `el_task_funcs`, `el_dealing_task_funcs`, `el_quit`, `el_tid`, the eventfd | `add_task`, `quit`, `loop` | its `Epoll`; any thread, through the queue and the eventfd |
| `Epoll` (`net/epoll.*`) | `ep_event_map`, the kernel's interest list, `ep_events` | `epoll_add`, `epoll_del`, `poll`, `execute_cbs` | the kernel; callbacks of connections |
| `TcpConnection` (`net/tcp_conn.*`) | `tc_fd`, buffers, `tc_timer_id` | `add_task`, `do_read`, `send`, `do_write`, `do_close`, `active_close` | its loop's `Epoll`, `TcpServer`, `Timer` |
| `Acceptor` (`net/acceptor.*`) | the listening descriptor, `ac_listening`, `ac_idle_fd` | constructor, `listen`, `do_accept` | `TcpServer`, `TcpConnection` |
| `TcpServer` (`net/tcp_server.*`) | the sub-loops, `ts_next_loop`, `ts_tcp_connections` | `start`, `get_next_loop`, `add_new_tcp_conn`, `update_conn_timeout_time`, `do_clean` | all of the above, called from three kinds of threads |
| `Timer`, `hash_map` (`timer/*.h`) | `tm_queue`, `tm_id`, `tm_id_state_map`, `tm_running` | `run_after`, `run_at`, `run_repeated`, `cancel`, the tick thread, the destructor | posts callbacks to a `Threadpool` |
| `Threadpool` (`threadpool/threadpool.h`) | `tp_tasks`, `tp_run`, `tp_idl_tnum` | `post_task`, the workers, the destructor | runs tasks of `TcpServer` and `Timer` |
| `Logger`, `buffer_queue` (`log/*`) | the ring, `l_fp` (screen or file), line counters | `init`, `write_log`, the writer thread, rotation, the destructor | a writer thread; all threads that log |
| `Mempool`, `DataBuf` (`memory/*`) | free lists, sizes; head and length of buffers | `alloc_chunk`, `retrieve`; `read_from_fd`, `write2fd`, `pop`, ... | buffers of connections, on every loop's thread |

### What is hard

* **Wake-ups without the lock.** `EventLoop::add_task` writes the eventfd after
  the mutex is released; `Threadpool::post_task` notifies after the unlock; both
  destructors clear a flag and notify with no lock at all.
* **Two threads close one connection.** The idle timeout runs `do_close` on a
  thread of the timer's pool, while the loop may be reading the connection or
  may already hold an event for it.
* **Two maps that must agree.** `ep_event_map` decides whether the kernel is
  asked to ADD or to MOD, and is not restored when `epoll_ctl` fails.
* **A start-up that hands out references.** The tasks `TcpServer::start` posts refer
  to a local of the iteration that posted them; `ts_started` is read before it is
  initialised.
* **Reuse of descriptors** while another thread still holds the old number.
* **Timers**: nearer time points pushed while the tick thread sleeps, cancel
  racing the hand-over to the pool, truncation to milliseconds, counts at zero.
* **Time outs and messages**: a message cancels and re-arms a timer in two steps
  while the timer expires or the acceptor is arming the first one.

### What makes each part correct

* EventLoop: no queued task is slept through, and no `quit` except that of a thread
  that constructed a loop it does not run, which the code does not wake up for;
  tasks run once, in order, on the loop's thread if that thread constructed it.
* Threadpool: no task waits beside a sleeping worker; tasks start once, in
  order; the idle count is exact; destruction is prompt and ends.
* Timer: no oversleeping; no firing lost or added; cancel is final. (The number of
  firings is one more than asked for, finding 3.)
* TcpServer, starting: every sub-loop gets a thread, the timer runs, the acceptor
  listens.
* TcpServer with Epoll: map, kernel and descriptors agree; a buffered reply is
  watched and in the end sent; no connection escapes eviction.
* Logger: lines reach the file once and in order; files stay limited in length, but
  for lines counted behind a midnight; calls return and shutdown ends, but for a
  writer that has ended early (finding 4) or has missed its notification.
* Mempool: chunks in use and free account for the total; a buffer never hands
  out a byte twice or in another order.

## 2. Modules

| module | models | composed with |
|---|---|---|
| `Mailbox` | abstract: items are handed out once each, in the order accepted | implemented by `EventLoop`, `Threadpool` and `Logger` |
| `EventLoop` | one loop, its thread and the threads that call in | |
| `Threadpool` | workers, posting threads, destructor | |
| `Timer` | arming threads, tick thread, destructor, clock | |
| `ServerStart` | `TcpServer::start` up to the first accepted connection: the caller, the pool threads, the acceptor's loop | the pool's contract |
| `Epoll` | operators on one map and one interest list | instantiated by `TcpServer` |
| `TcpServer` | acceptor, loops, connections, eviction | `Epoll`, and the timer's contract |
| `BufferQueue` | operators on the ring of `buffer_queue` | instantiated by `Logger` |
| `Logger` | logging threads, writer thread, destructor, midnights | `BufferQueue` |
| `Mempool` | operators on the pool and on a chunk | instantiated by `DataBuf` |
| `DataBuf`, `MCDataBuf` | the buffers of connections that share a pool, echoing | `Mempool` |
| `EventLoopProofs`, `ThreadpoolProofs`, `LoggerProofs`, `TimerProofs`, `ServerStartProofs`, `TcpServerProofs`, `DataBufProofs` | theorems | extend their modules |
| `SumTheorems` | lemmas on the sums of a function over a finite set | extended by `DataBufProofs` |

Definitions whose comment starts with "Variant" are plausible mistakes in the
code, kept next to the definition they would replace; nothing uses them. Putting
one in the place of its definition breaks the property `PROJECT.json` lists
under `mutants`, which shows that the property depends on that code.

**EventLoop.** `pc` holds where each thread is. `add_task` has two steps for a
caller on another thread (queue under `el_mutex`; write the eventfd,
`evfd_wakeup`) and one on the loop's own thread. The loop's steps are: reset of
`el_quit`, the test of it, `epoll_wait` (by the eventfd or by anything else),
`evfd_read`, the end of the callbacks, the swap of the queue, each task, the
reset of `el_dealing_task_funcs`. The thread that constructed the object is
chosen in `Init` among `Creators`: `is_in_loop_thread` compares with that thread
and not with the one in `loop()`. The loop's thread may call in wherever code of
the user runs on it (`InUserCode`), before `loop()` too. `quit_by` records who has
called `quit` since `loop()` began. Restarting a loop after `loop()` has returned
is not modelled.

**Threadpool.** Everything under `tp_lock` is one step except the wait:
evaluating its predicate (`worker_wait`) and going to sleep (`worker_sleep`) are
separate, because the destructor stores `tp_run` and notifies without the lock.
Spurious wake-ups are allowed at any time. `post_task` checks `tp_run` before it
takes the lock, so posting may overlap the destructor; calls made after it has
returned are excluded. A poster keeps a task until it has notified; history
variables record what was accepted, started, finished, taken late, and which
workers `notify_all` missed.

**Timer.** A time point is the number of ticks left until it, and `clock_tick`
lowers all of them, so that the state space stays finite. The `hash_map` of ids is
its operators `emplace`, `erase` and `is_key_exist`. A due node is one with
less than a millisecond left, as `duration_cast` truncates. Arming takes an id
(atomic counter) and enters it in the map, then pushes under `tm_mutex`;
`cancel` only erases from the map; the tick thread pops, requeues and, after the
unlock, posts. Nodes with equal ticks may be ordered either way.

**ServerStart.** The constructor and `set_thread_num` are `Init`: the port is bound
or the process exits, `ts_started` holds either value, and `start()` is called by
the thread of the acceptor's loop or by another. `start`, `emplace_loop`,
`post_loop`, `loops_done` and `start_listen` are its steps; `start()` may be called
again. `ev` is the stack slot of the local the tasks refer to: it holds the loop of
the current iteration, and `Garbage` once the slot has been reused after the
iterations. A pool thread takes a task and reads `ev` in `run_loop`; reading
`Garbage` crashes the process. `listen` is called at once or queued, as
`EventLoop::add_task` decides, and may fail, which exits.

**Epoll and TcpServer.** The kernel is modelled by what the code can tell:
descriptors (the lowest free one is given out), unread messages, end of file,
the interest list of each epoll instance and level-triggered readiness. `accept`
says EMFILE when no descriptor is left, whether or not a client waits; the next
client is then accepted on the spare descriptor and closed (`accept_idle`). Steps of
`do_close` are separate (forget in the poller; read `tc_fd`; set it to -1 and
close; `do_clean`), since a loop's thread and threads of the timer's pool can be
in it for the same connection. The timer is its contract, checked in
`Timer`: equal timeouts expire in the order they were armed, a cancelled one is
not handed over. It may expire at any moment, which covers every ratio of the
timeout to the speed of the threads. A failing `assert` sets `aborted`, after
which no thread moves. A write of the output buffer takes all of it (`do_write`) or
part (`do_write_part`, which leaves the descriptor watched).

**BufferQueue and Logger.** The ring is kept as the code keeps it: an array and
the indices `b_first`, `b_last`, `b_size`. A call of `write_log` has three steps,
as the code takes `l_mutex` twice: read the clock, count the line and perhaps
open another file, hand the line over (to the file or to the queue). The day a
thread read may be over when it counts the line. `pop` looks at the size and goes
to sleep in two steps, between which it holds the queue's mutex; the destructor's
`notify()` takes no lock and can fall between them. After a wait that finds
nothing `pop` returns false and the writer ends, also when nobody stopped it, so
a spurious wake-up is modelled as ending it. `files` has the number of lines of each
log file by its name, the day and the number of the split; every `fopen` is to
append, so a name that comes back finds its old lines, and `in_file` counts those
written since. `stale` records that a line was counted after one of a later day. `l_fp` is the screen, a file or `NULL`: `init` and each
rotation may fail to open a file, and the next use of `l_fp` then crashes, as the
macros do not look at what `init` returned.

**Mempool and DataBuf.** A chunk keeps its capacity, `head`, `length` and bytes;
bytes no longer held become `NoByte`, so that reading one would show. Each
connection is served by a thread of its own and only the pool is shared: a call
that needs a larger chunk allocates it, and copies and gives the old one back in
a later step. The bytes a client sends are numbered, and the callback echoes
them, which makes loss, repetition and reordering visible. `ioctl` and `read` may
fail (`read_fails`), which closes the connection with whatever room was made.

## 3. What TLC checks

`tlc -config X.cfg M` in this directory. Distinct states in brackets.

| run | configuration | shows |
|---|---|---|
| `event_loop` [63 k] | `EventLoop.cfg` | `NoLostTask`, `OwnLoopRunsTasks`, refinement `InOrderOnce`, and the liveness of `QueuedTaskRuns` and `QuitStopsLoop` |
| `threadpool` [20 k] | `Threadpool.cfg` | `NoSleeperBesideTask`, `AtMostOneTaskAfterStop`, refinement `InOrderOnce`, `PostedTaskFinishes`, `DestructorReturns` |
| `timer` [46 k] | `Timer.cfg` | `NoOversleep`, `AtMostOnePostAfterCancel`, `RepeatAccounting`, `QueuedFiringDone`, `CancelledTimerLeaves`, `DestructorReturns` |
| `timer_repeats` | `TimerRepeats.cfg` | **violation** of `RepeatedAsAsked`, finding 3 |
| `server_start` [8 k] | `ServerStart.cfg` | `MovedToLaterLoops` (a late read of `ev` only moves a thread to a later loop), `StartSettles` |
| `server_start_loops` | `ServerStartLoops.cfg` | **violation** of `EachLoopItsThread`, finding 1 |
| `tcp_server` [449 k] | `TcpServer.cfg` | without timeouts: `DispatchFindsEntry`, `OwnSocket`, `ReplyWatched`, and the liveness of `ReplySent` |
| `tcp_server_idle` [183 k] | `TcpServerIdle.cfg` | with timeouts: `EvictionArmed`, `IdleConnectionClosed` |
| `tcp_server_assert` | `TcpServerAssert.cfg` | **violation** of `DispatchFindsEntry`, finding 2 |
| `logger` [343 k] | `Logger.cfg` | `NoSleepBesideLine`, `ThreadOrderKept`, `RotationKeepsUp`, refinement `InOrderOnce`, `WriteLogReturns`, `DestructorReturns` |
| `logger_writer` | `LoggerWriter.cfg` | **violation** of `WriterEndsWhenStopped`, finding 4 |
| `data_buf` [231 k] | `MCDataBuf.cfg` | `PoolAccounting`, `OneHolder`, `StreamIntact`; `TypeOK` holds each chunk's `head` and `length` within its capacity |

Some properties state what holds in spite of a known window. The three
`DestructorReturns` say that the destructor returns unless its notification fell
at a moment when the other thread was not yet waiting; the history variable
`missed` is set in exactly that case. That window is real (hazards at
`threadpool/threadpool.h:30`, `timer/timer.h:44` and in the logger): the model
reaches states in which `join` waits for ever, and only there. `WriteLogReturns`
excepts a writer that a spurious wake-up has ended, which is what
`WriterEndsWhenStopped` forbids (finding 4): with it gone, a full queue makes
`write_log` try for ever. `StartSettles` excepts a process that has ended
and a `ts_started` that happened to hold `TRUE`, with which `start()` only listens.
`QuitStopsLoop` leaves out a `quit` before `loop()`, which `loop()` erases, and
the `quit` of a thread that constructed a loop it does not run: `is_in_loop_thread`
is true for it, no eventfd is written (`net/event_loop.cpp:82`), and the loop
sleeps on until other traffic or the poll timeout wakes it. `RotationKeepsUp` leaves out
behaviours in which a line was counted after one of a later day (section 4).
`OwnLoopRunsTasks` says that all tasks run on the loop's thread if that thread
constructed the loop; sub-loops are constructed by the caller of
`TcpServer::start`, whose own tasks then run on the caller's thread beside the loop.
In `tcp_server` no timer expires, so two closers of one descriptor and an `epoll_ctl`
that fails do not occur there.

### Bounds

* EventLoop: three threads, so that one caller can queue between the queueing
  and the eventfd write of another; three tasks, so that a batch holds two while
  a third arrives. Each task is added once, which also ends the behaviours.
* Threadpool: two workers and two posters are what a wasted `notify_one` needs
  (one poster's wake-up taken by the worker that the other's was meant for); two
  tasks can wait one behind the other, and one worker can come back for the
  second after the stop. What matters beyond that (more tasks than workers) is
  covered by the theorems, which have no bound.
* Timer: two clients and two timers of different distance (2 and 3 ticks, with
  2 ticks to the millisecond): either order of pushing, both kinds of
  truncation, and one repetition, so that the count passes through 1 and 0.
  `MaxTimers` bounds the ids.
* ServerStart: up to three sub-loops, so that a task can be overtaken by one or two
  iterations and a middle loop can be left out; no sub-loop at all, for the
  acceptor's `nullptr`; two calls of `start()`.
* TcpServer without expiry: two connections on two loops, with one or two
  descriptors left for them, one message each. One descriptor gives EMFILE and
  reuse, two give independent service.
* TcpServer with expiry: one connection, as properties of eviction concern one
  connection at a time; two messages and three timers, of which all may expire
  (`MaxExpired`), and two pool threads, so that two evictions and the loop's own
  close can overlap.
* Logger: two threads with two lines each, a queue of two (full with a line still
  to come, and wrapping), a split after two lines, one midnight, and a file that may not
  open at any of the rotations. Four lines fill a file to the limit of `RotationKeepsUp`
  in synchronous mode, where it is 3; the limit of the asynchronous mode, 6, is out of
  their reach, and there the theorem carries the property.
* DataBuf: two connections, chunk sizes 2 and 3 with one chunk of each made at the
  start, and a pool limit of 9, so that buffers grow, new chunks are made and the
  limit is met; at most 4 bytes from one client, which is more than the largest
  chunk holds, and 5 from both.

Symmetry is used only in `MCDataBuf`, where connections are interchangeable and
only safety is checked.
`CHECK_DEADLOCK FALSE` is given where the system may come to rest: a destroyed
pool, or a server whose clients are silent.

### Fairness

Weak fairness on the steps of each thread: the operating system schedules every
thread that can run, and callbacks and tasks terminate. Threads that compete for
`tp_lock` get strong fairness on taking it: a mutex that is free again and again
is granted in the end. Clients, callers of `add_task`, `post_task`, `quit` and
destructors owe nothing, spurious wake-ups are not owed, and in `EventLoop` the
return of `epoll_wait` for other reasons than the eventfd is not owed either, so
that the wake-up alone must do. `Timer` adds that time passes, `TcpServer` that
armed timers expire. `TcpServer` has strong fairness on `do_write`: the buffer is
finite and each write takes at least a byte of it, so if a loop writes again and
again it empties the buffer; that the socket becomes writable supposes a client that
reads or leaves. `ServerStart` has weak fairness on the steps of its threads, and
none on the reuse of the stack or on clients. In `Logger` a full queue is tried again by `put_async`, whose
fairness says that the thread finds the room once it stays.

## 4. Findings

1. **Two pool threads can enter the same sub-loop, and another stays without a
   thread**: the posted task captures the local `ev` by reference and reads it when
   the iteration is over (`net/tcp_server.cpp:49`; `net/README.md:24` says that each
   thread of the pool executes one event loop). Connections dealt to the loop left
   out are never served. `MovedToLaterLoops` bounds the damage: the last loop has a
   thread.
2. **The assertion of `execute_cbs` can fail** (`net/epoll.cpp:104`) when the idle
   timeout of a connection runs between `epoll_wait` and the dispatch.
3. **A repeated timer fires once more than asked**: `run_local` requeues the node
   while `tn_repeated_num > 0` and counts down only then (`timer/timer.h:148`), so
   `run_repeated(ms, n)` fires n + 1 times (`timer/README.md:3` says a given number
   of times; `timer/tests/test_timer.cpp:59` asks for 5 and counts nothing).
   `RepeatAccounting` shows that no other firing is added or lost.
4. **A spurious wake-up ends the writer thread**: `pop` returns false and the loop of
   `async_write` ends whatever `is_thread_stop` says (`log/log.h:73`), although the
   comment above it says that the variable was introduced against this
   (`log/log.h:69`). From then on a full queue stays full and `write_log` spins.

Further disagreements that the models show and no run of its own reports:

* A log file can outgrow its limit (`log/README.md:9` limits the lines of a file). A
  thread that read the clock before midnight and counts its line after one of the
  new day switches the log back to the old day's first file and resets the count
  (`log/log.cpp:171`), the next line switches forward to the new day's first file,
  and both are opened to append (`log/log.cpp:181`). `FilesLimited` without the
  condition of `RotationKeepsUp` is false on two threads and a dozen steps.
* The logger's destructor can hang: the comment at `log/log.h:66` has `notify` let the
  writer stop, but a writer that is not yet waiting misses it (`DestructorReturns`
  names the case).
* A logger on the screen leaves it: `write_log` rotates without looking at
  `l_is_stdout`, so at the `split_lines`-th line, or after midnight, `count_line`
  closes `stdout` and opens a file (`log/log.cpp:161`; `log/README.md:2` offers the
  choice between file and screen).
* A connection can keep a timer that no message moves: it is in its loop's poller
  before its timer is armed, so the first message and the acceptor both arm one and
  one id overwrites the other (`net/acceptor.cpp:99`, `net/README.md:17`).

## 5. What is proved

TLAPS proves these for all values of the constants that satisfy the assumption of
the module:

* `ThreadAssumption`: the loop's thread and the creators are threads, `NoThread` is
  not one.
* `PoolAssumption`: finitely many workers, at least one, and posters; `None` is
  neither a worker nor a task.
* `LoggerAssumption`: finitely many threads, a queue of at least one line and a
  `split_lines` of at least 1 (the code takes remainders by both); `None` is not a line.
* `TimerAssumption`: times and counts are naturals, a millisecond has at least one
  tick, `None` is neither a number nor a node.
* `StartAssumption`: finitely many pool threads, `start()` called at least once,
  `Garbage` is not a loop's number.
* `ServerAssumption`: at least one sub-loop, at least one descriptor for connections;
  the main thread, the loops' and the pool's are different threads.
* `BufAssumption`: finitely many chunk sizes, all positive and at least one, at least
  one chunk of each size made at the start, and these fit below `MAX_POOL_SIZE`.

The bounds (`MaxLines`, `MaxTimers`, `MaxMsgs`, ...) are arbitrary naturals in these
proofs.

| theorem | states | argument |
|---|---|---|
| `EventLoopProofs!TypeCorrect` | `[]TypeOK` | inductive as it is |
| `EventLoopProofs!TaskNeverLost` | `[]NoLostTask` | inductive with `TypeOK`: whoever empties the eventfd is on the way to the swap, and whoever fills the queue still has the eventfd to write |
| `EventLoopProofs!OwnLoop` | `[]OwnLoopRunsTasks` | every step that runs a task does so on `LoopThread` or on `el_tid` |
| `EventLoopProofs!LoopRefinesMailbox` | `Spec => Box!Spec` | `Backlog`: `queued` is `ran`, then `functors`, then `el_task_funcs`; it makes each `run_task` a `Deliver` of the right item |
| `ThreadpoolProofs!TypeCorrect` | `[]TypeOK` | needs `Holding`: a poster past its check holds a task, so that what it queues is one |
| `ThreadpoolProofs!PoolRefinesMailbox` | `Spec => Box!Spec` | `Backlog`: `accepted` is `started`, then `tp_tasks` |
| `ThreadpoolProofs!StopIsPrompt` | `[]AtMostOneTaskAfterStop` | `PromptStop`: before the stop nobody is late, and a worker that has been late is past the queue and can only come back to the test of `tp_run` |
| `ThreadpoolProofs!IdleCountCorrect` | `[]IdleCountExact` | cardinality of a set that loses or gains one worker |
| `ThreadpoolProofs!NoSleeper` | `[]NoSleeperBesideTask` | needs `LockHeld`: a worker that is about to sleep holds `tp_lock`, so no task can be queued between its test and its sleep. Each push adds a notifier; a notifier either turns a sleeper into a looking worker or finds no sleeper; a looking worker leaves only with a task or when there is none |
| `LoggerProofs!TypeCorrect` | `[]TypeOK` | with `Holding` (a call has a line to put, the writer one from `pop` to `fputs`) and `Ring` |
| `LoggerProofs!RingRefinesMailbox` | `Spec => Box!Spec` | `Ring`: item i is in slot i modulo the capacity, `b_size` is what is pushed and not popped, and `b_first` and `b_last` stand before the slots of the next pop and push; so a slot is never overwritten before it is popped |
| `LoggerProofs!NoSleep` | `[]NoSleepBesideLine` | the writer holds the queue's mutex from its look at the size until it waits, and each push notifies |
| `LoggerProofs!OrderKept` | `[]ThreadOrderKept` | `HandedOver` (what is handed over is in order, and is exactly the lines whose calls have got so far) and `Carried` (what is popped is what is written, but for the line in the writer's hands) |
| `LoggerProofs!RotationBounded` | `[]RotationKeepsUp` | `RotationInv`: lines written since the file was opened and in flight are at most those counted since, and the lines that can be on their way when it is opened are at most the threads and what the queue and the writer hold. `FilesInv`: as long as no line of an older day is counted, a new name is later than all names on the disk, so opening to append starts an empty file, and a closed file keeps the length it had |
| `TimerProofs!TypeCorrect` | `[]TypeOK` | with `Sorted` (the queue is ordered) and `Owned` (an id has at most one node, in the queue or in the call about to push it) |
| `TimerProofs!NeverOversleeps` | `[]NoOversleep` | from `Sorted`: the head is the nearest time point, and a push that changes it notifies |
| `TimerProofs!CancelStops` | `[]AtMostOnePostAfterCancel` | `LateInv`: an id posted late is out of the map, will not be entered again and is not about to be posted |
| `TimerProofs!RepetitionsAccounted` | `RepeatAccounting`, an action property | `AccountInv` and `Owned`, which makes an id's node unique: a step that posts, pops or requeues moves a firing between done, under way and to come |
| `ServerStartProofs!TypeCorrect` | `[]TypeOK` | with `Progress`: while `ev` is not `Garbage` it is the newest loop |
| `ServerStartProofs!LateReadMovesOn` | `[]MovedToLaterLoops` | `TasksInv`: tasks come from different iterations, are taken in order, and read `ev` at their own loop or a later one; the threads below a loop then inject into the iterations below it, which bounds their number |
| `TcpServerProofs!TypeCorrect` | `[]TypeOK` | with: a thread in a call has a connection, and no more is unread than was sent |
| `TcpServerProofs!NoneEscapes` | `[]EvictionArmed` | `IdsOwned`: the id a connection or a call holds is that of a timer of the same connection, so that `cancel` takes no other connection's timer away; timers expiring included |
| `TcpServerProofs!SocketsOwned`, `EntriesFound`, `RepliesWatched` | `[]OwnSocket`, `[]DispatchFindsEntry`, `[]ReplyWatched`, if `MaxExpired = 0` | `CalmInv`, below |
| `DataBufProofs!InvAlways` | `[]Inv` | the inductive invariant of the buffers, below |
| `DataBufProofs!TypeCorrect`, `AccountingAlways`, `OneHolderAlways`, `StreamAlways` | `[]TypeOK`, `[]PoolAccounting`, `[]OneHolder`, `[]StreamIntact` | implied by `Inv` |

`CalmInv` is the inductive invariant of a server in which no timeout has expired
(`MaxExpired = 0`, the condition of run `tcp_server`, on whose instance TLC finds it
to hold). The three properties are not inductive and hold only together: `MapsAgree` (what the map
of a loop has for a descriptor are the callbacks of the connection that holds it, and
the kernel watches what the map says), `LoopOK` (a loop works on a connection of its
own, which is in its map until `close_del`; the events it has still to serve are of
descriptors in the map, one for each, and none is of the connection in work),
`Accepting` (a connection not yet handed over is in no loop's hands), `Replies`,
`Waiting` and `NobodyEvicts`. The condition is needed: with an expired timer a thread
of the pool closes a connection beside its loop, and `tcp_server_assert` is the
counterexample to `DispatchFindsEntry` (finding 2). `TypeCorrect` and `NoneEscapes`
are without it.

`Inv` of `DataBufProofs` is needed as a whole, since none of the four properties is
inductive: that a chunk holds no more than its capacity rests on the room that was
made for it before other threads came in, that room on nobody else holding the
chunk, and this on the free lists and the accounts. TLC finds `Inv` to hold on the
instance of run `data_buf`. Its parts are

* `PInv(pool, H)`, where `H` is the set of chunks that buffers and calls hold: each
  free list has empty chunks of its size, each once; listed and held chunks are
  disjoint and together the chunks made; the counters are the sums of capacities, and
  the sum of the lists' lengths is the number of listed chunks. One lemma each shows
  that `alloc_chunk` (with a listed chunk, or with a new one, for which a number is
  always left as the total is below the limit), `retrieve`, a write to a held chunk
  and the constructor keep it;
* `Single`: the slots of all connections (two buffers and the local of a moving call)
  hold different chunks, so that a step for one slot leaves the chunks of all others
  as they are (`Apart`);
* `ConnInv`: between making room and using it, the chunk has room for `need_read`, or
  for the message, behind what it or the old chunk holds; no more is read than
  was sent;
* `StreamOk`: the stream is in order and complete. It uses what the operations on a
  chunk do to its contents: `pop` and `adjust` take a prefix away (`PopAdjust`), a copy
  has the same contents (`CopyKeeps`), what is put behind follows (`PutFollows`).

The sums need an induction on finite sets, which cannot be cited from the library.
`SumTheorems` replaces it: the cardinalities of the sets for which a statement fails
are a set of naturals, which has a least element if it has any
(`SubsetInduction` for statements given as a set of sets). From this follow
the value of a sum when an element is added, removed or changed.

Only model-checked:

* Liveness (`QueuedTaskRuns`, `QuitStopsLoop`, `PostedTaskFinishes`, the three
  `DestructorReturns`, `QueuedFiringDone`, `CancelledTimerLeaves`, `StartSettles`,
  `ReplySent`, `IdleConnectionClosed`, `WriteLogReturns`), which this prover does not
  handle.

`IdleCountExact` is proved and no run checks it.

## 6. What is not modelled

* Data races proper: unsynchronised access to `ep_event_map`,
  `ts_tcp_connections` (whose `lock_guard` in `do_clean` is a function
  declaration) and `tc_obuf` is modelled as atomic operations in any order.
* `ep_listen_fds` (never read), the EPOLLHUP/EPOLLERR branch of `execute_cbs`,
  the error retries of `accept`, signal handling.
* `~TcpServer`, which never returns: it joins pool threads whose loops nobody quits.
  The lifetime of connection objects (`shared_ptr` counts).
* In the queue `front`, `back`, `clear` and the timed `pop`, which the server does
  not call; in the logger the level filter (the choice to log or not) and the
  formatting into `l_buf`.
* Clearing a connection's buffers on a thread of the timer's pool while the loop's
  thread uses them; `TcpServer` shows when that happens.
* `pr` (formatting), futures' results, the growing build of the pool,
  `webbench-1.5` (third-party).

## 7. Plan

Done: the reactor, the pool, the timer, the start of the server, the life of a
connection, the logger and the buffers; proofs of all their safety invariants and
action properties that the runs check, and of the three queues that implement
`Mailbox`. What could follow:

1. `TcpServer` with timeouts: which parts of `CalmInv` survive an eviction that does
   not overlap its loop.
2. `DataBuf` with a thread that clears a connection's buffers beside its loop, to show
   on the pool what `TcpServer` shows on the connection.
