------------------------------- MODULE Logger -------------------------------
(***************************************************************************)
(* The Logger (log/log.h, log/log.cpp), synchronous or asynchronous, after *)
(* init: threads call write_log, the writer thread of the asynchronous     *)
(* logger moves lines from the queue to the file, and the destructor of the*)
(* singleton runs when the process exits, maybe while threads still log:   *)
(* the test of is_thread_stop in write_log (log.cpp:207) provides for it.  *)
(*                                                                         *)
(* A line is <<thread, number>>.  What l_mutex or the queue's mutex        *)
(* protects is one step, except that pop's look at the size and its going  *)
(* to sleep are two, between which it holds the queue's mutex: notify()    *)
(* takes no lock and can fall in between.  Of a log file its name and its  *)
(* number of lines are kept: <<d, 0>> is the first file of day d and       *)
(* <<d, n>> the one with the suffix .n.  No file of an earlier run of the  *)
(* program is there.  flush() changes nothing here.                        *)
(***************************************************************************)
EXTENDS Integers, Sequences, FiniteSets

CONSTANTS Threads,      \* the threads that log
          Modes,        \* values of l_is_async that init may choose
          MaxLines,     \* bound: lines per thread
          MaxDay,       \* bound: midnights
          QueueSize,    \* buffer_queue_size of init
          SplitLines,   \* split_lines of init
          None

ASSUME LoggerAssumption ==
    /\ IsFiniteSet(Threads) /\ Modes \subseteq BOOLEAN
    /\ MaxLines \in Nat /\ MaxDay \in Nat
    /\ QueueSize \in Nat \ {0} /\ SplitLines \in Nat \ {0}
    /\ None \notin Threads \X (1..MaxLines)

Lines == Threads \X (1..MaxLines)
Names == (0..MaxDay) \X Nat

INSTANCE BufferQueue WITH capacity <- QueueSize, NoItem <- None

VARIABLES
    l_is_async,      \* Logger::l_is_async
    l_count,         \* Logger::l_count
    l_today,         \* Logger::l_today
    l_fp,            \* Logger::l_fp: the screen, a file, or NULL
    is_thread_stop,  \* Logger::is_thread_stop
    queue,           \* Logger::l_buffer_queue
    now,             \* the day of the system clock
    lpc,             \* where each logging thread is
    line,            \* the number of its last line
    day,             \* my_tm.day of its call
    wpc,             \* where the writer thread is
    single_line,     \* the writer's local
    dpc,             \* where the destructor is
    name,            \* the name l_fp was last opened with
    files,           \* the log files on the disk: lines in each
    in_file,         \* history: lines written since l_fp was opened
    crashed,         \* the process has used a FILE* that is NULL
    written,         \* history: lines written, in order
    pushed,          \* history: lines put into the queue, in order
    popped,          \* history: lines taken from it, in order
    missed,          \* history: notify() found the writer not waiting
    stale            \* history: a line was counted after one of a later day

sink    == <<l_count, l_today, stale>>
loggers == <<lpc, line, day>>
writer  == <<wpc, single_line>>
dtor    == <<is_thread_stop, dpc, missed>>
file    == <<l_fp, name, files, in_file, written, crashed>>
ring    == <<queue, pushed, popped>>
vars    == <<l_is_async, sink, ring, now, loggers, writer, dtor, file>>

TypeOK ==
    /\ {l_is_async, is_thread_stop, missed, crashed, stale} \subseteq BOOLEAN
    /\ l_fp \in {"stdout", "file", "NULL"}
    /\ l_count \in Nat /\ in_file \in Nat /\ name \in Names
    /\ DOMAIN files \subseteq Names /\ files \in [DOMAIN files -> Nat]
    /\ l_today \in 0..MaxDay /\ now \in 0..MaxDay
    /\ queue \in QueueType(Lines)
    /\ lpc \in [Threads -> {"idle", "count", "put"}]
    /\ line \in [Threads -> 0..MaxLines] /\ day \in [Threads -> 0..MaxDay]
    /\ wpc \in {"none", "pop", "block", "wait", "woken", "test", "write", "exit"}
    /\ single_line \in Lines \cup {None}
    /\ dpc \in {"idle", "notify", "join", "done"}
    /\ written \in Seq(Lines) /\ pushed \in Seq(Lines) /\ popped \in Seq(Lines)

(* init: the screen, or a file, which may not open (the macros log all the *)
(* same); and the writer thread, if it is given a queue size.              *)
Init ==
    /\ l_is_async \in Modes /\ is_thread_stop = FALSE
    /\ l_count = 0 /\ l_today = 0 /\ now = 0 /\ stale = FALSE
    /\ queue = NewQueue /\ pushed = <<>> /\ popped = <<>>
    /\ lpc = [t \in Threads |-> "idle"]
    /\ line = [t \in Threads |-> 0] /\ day = [t \in Threads |-> 0]
    /\ wpc = (IF l_is_async THEN "pop" ELSE "none") /\ single_line = None
    /\ dpc = "idle" /\ missed = FALSE
    /\ l_fp \in {"stdout", "file", "NULL"} /\ name = <<0, 0>>
    /\ files = [f \in (IF l_fp = "file" THEN {name} ELSE {}) |-> 0]
    /\ in_file = 0 /\ written = <<>> /\ crashed = FALSE

midnight ==
    /\ ~crashed /\ now < MaxDay
    /\ now' = now + 1
    /\ UNCHANGED <<l_is_async, sink, ring, loggers, writer, dtor, file>>

-----------------------------------------------------------------------------
(* write_log: read the clock, ...                                          *)
Goto(t, from, to) ==
    /\ ~crashed /\ dpc # "done"
    /\ lpc[t] = from
    /\ lpc' = [lpc EXCEPT ![t] = to]

write_log(t) ==
    /\ line[t] < MaxLines
    /\ Goto(t, "idle", "count")
    /\ line' = [line EXCEPT ![t] = @ + 1]
    /\ day' = [day EXCEPT ![t] = now]
    /\ UNCHANGED <<l_is_async, sink, ring, now, writer, dtor, file>>

(* ... under l_mutex count the line and open another file when the day is  *)
(* not the one it was opened on, or after every SplitLines lines, ...      *)
NewDayOnly(t) == l_today # day[t]   \* variant: files are not split by length
SplitNow(t) == l_today # day[t] \/ (l_count + 1) % SplitLines = 0

NewName(t) ==
    <<day[t], IF l_today # day[t] THEN 0 ELSE (l_count + 1) \div SplitLines>>

(* fopen(f, "a"), after fclose(l_fp): a file that is there keeps its lines.*)
Appendable(f) == [g \in DOMAIN files \cup {f} |->
                    IF g \in DOMAIN files THEN files[g] ELSE 0]

fopen(f) ==
    IF l_fp = "NULL"
    THEN crashed' = TRUE /\ UNCHANGED <<l_fp, name, files, in_file>>
    ELSE /\ \/ l_fp' = "file" /\ files' = Appendable(f)
            \/ l_fp' = "NULL" /\ UNCHANGED files
         /\ name' = f
         /\ in_file' = 0
         /\ UNCHANGED crashed

count_line(t) ==
    /\ Goto(t, "count", "put")
    /\ l_today' = day[t]
    /\ l_count' = IF l_today # day[t] THEN 0 ELSE l_count + 1
    /\ stale' = (stale \/ day[t] < l_today)
    /\ IF SplitNow(t) THEN fopen(NewName(t))
                      ELSE UNCHANGED <<l_fp, name, files, in_file, crashed>>
    /\ UNCHANGED <<l_is_async, ring, now, line, day, writer, dtor, written>>

(* ... format the line and, synchronous, write it under l_mutex, ...       *)
Fputs(l) ==
    /\ crashed' = (l_fp = "NULL")
    /\ written' = IF l_fp = "NULL" THEN written ELSE Append(written, l)
    /\ in_file' = IF l_fp = "NULL" THEN in_file ELSE in_file + 1
    /\ files' = IF l_fp = "file" THEN [files EXCEPT ![name] = @ + 1] ELSE files
    /\ UNCHANGED <<l_fp, name>>

put_sync(t) ==
    /\ ~l_is_async
    /\ Goto(t, "put", "idle")
    /\ Fputs(<<t, line[t]>>)
    /\ UNCHANGED <<l_is_async, sink, ring, now, line, day, writer, dtor>>

(* ... or push it and notify the writer.  A push that finds the queue full *)
(* is tried again and again, ...                                           *)
WakeNobody == UNCHANGED wpc         \* variant: no notification
WakeWriter == wpc' = IF wpc = "wait" THEN "woken" ELSE wpc

put_async(t) ==
    /\ wpc # "block" /\ l_is_async /\ ~Full(queue)
    /\ Goto(t, "put", "idle")
    /\ queue' = Push(queue, <<t, line[t]>>)
    /\ pushed' = Append(pushed, <<t, line[t]>>)
    /\ WakeWriter
    /\ UNCHANGED <<l_is_async, sink, popped, now, line, day, single_line, dtor,
                   file>>

(* ... until the logger is being destroyed: then the line is given up.     *)
give_up(t) ==
    /\ wpc # "block" /\ l_is_async /\ Full(queue) /\ is_thread_stop
    /\ Goto(t, "put", "idle")
    /\ WakeWriter
    /\ UNCHANGED <<l_is_async, sink, ring, now, line, day, single_line, dtor,
                   file>>

-----------------------------------------------------------------------------
WriterGoto(from, to) ==
    /\ ~crashed /\ wpc = from /\ wpc' = to
    /\ UNCHANGED <<l_is_async, sink, ring, now, loggers, single_line, dtor,
                   file>>

(* async_write: pop, then the test of is_thread_stop, then fputs.          *)
Take ==
    /\ single_line' = PopItem(queue)
    /\ popped' = Append(popped, PopItem(queue))
    /\ queue' = Pop(queue)

(* pop finds an item at once, or after a wait, ...                         *)
writer_pop ==
    /\ ~crashed /\ wpc \in {"pop", "woken"} /\ ~Empty(queue)
    /\ wpc' = "test"
    /\ Take
    /\ UNCHANGED <<l_is_async, sink, pushed, now, loggers, dtor, file>>

(* ... or finds none and is about to wait, ...                             *)
writer_block == Empty(queue) /\ WriterGoto("pop", "block")

writer_wait == WriterGoto("block", "wait")

(* condition_variable::wait may return without a notification.             *)
spurious_wakeup == WriterGoto("wait", "woken")

(* ... or still finds none after its wait: pop returns false and the loop  *)
(* of async_write ends, whatever is_thread_stop says.                      *)
writer_ends == Empty(queue) /\ WriterGoto("woken", "exit")

writer_test == WriterGoto("test", IF is_thread_stop THEN "exit" ELSE "write")

writer_write ==
    /\ ~crashed /\ wpc = "write"
    /\ wpc' = "pop"
    /\ Fputs(single_line)
    /\ single_line' = None
    /\ UNCHANGED <<l_is_async, sink, ring, now, loggers, dtor>>

-----------------------------------------------------------------------------
(* ~Logger: with a writer thread, set is_thread_stop, notify and join it.  *)
dtor_stop ==
    /\ ~crashed /\ dpc = "idle"
    /\ dpc' = IF l_is_async THEN "notify" ELSE "done"
    /\ is_thread_stop' = l_is_async
    /\ UNCHANGED <<l_is_async, sink, ring, now, loggers, writer, missed, file>>

(* Variant: the writer is joined without a notification.                   *)
JoinQuietly ==
    /\ ~crashed /\ dpc = "notify" /\ dpc' = "join"
    /\ missed' = (wpc \notin {"wait", "woken", "exit"})
    /\ UNCHANGED <<l_is_async, sink, ring, now, loggers, writer,
                   is_thread_stop, file>>

dtor_notify ==
    /\ ~crashed /\ dpc = "notify" /\ dpc' = "join"
    /\ WakeWriter
    /\ missed' = (wpc \notin {"wait", "woken", "exit"})
    /\ UNCHANGED <<l_is_async, sink, ring, now, loggers, single_line,
                   is_thread_stop, file>>

dtor_joined ==
    /\ ~crashed /\ dpc = "join" /\ wpc = "exit"
    /\ dpc' = "done"
    /\ UNCHANGED <<l_is_async, sink, ring, now, loggers, writer,
                   is_thread_stop, missed, file>>

-----------------------------------------------------------------------------
LogStep(t) == count_line(t) \/ put_sync(t) \/ put_async(t) \/ give_up(t)

WriterStep == writer_pop \/ writer_block \/ writer_wait \/ writer_ends
                \/ writer_test \/ writer_write

DtorStep == dtor_notify \/ dtor_joined

Next ==
    \/ midnight
    \/ \E t \in Threads : write_log(t) \/ LogStep(t)
    \/ WriterStep \/ spurious_wakeup
    \/ dtor_stop \/ DtorStep

(* Every thread that can take its next step eventually does.  Nobody has to*)
(* log or to end the process, and no spurious wake-up is owed.             *)
Fairness ==
    /\ \A t \in Threads : WF_vars(LogStep(t))
    /\ WF_vars(WriterStep)
    /\ WF_vars(DtorStep)

Spec == Init /\ [][Next]_vars /\ Fairness

-----------------------------------------------------------------------------
(* The writer never sleeps beside a queued line: pop waits only on an empty*)
(* queue, and every push that ends that wakes it.                          *)
NoSleepBesideLine == wpc \in {"block", "wait"} => Empty(queue)

(* The ring hands the lines out once each, in the order of the pushes,     *)
(* through wrap-around and with the queue full.                            *)
Box == INSTANCE Mailbox
         WITH Items <- Lines, accepted <- pushed, delivered <- popped
InOrderOnce == Box!Spec

(* A reader of the log sees each thread's lines in the order the thread    *)
(* logged them, none twice and none left out before another, in both modes *)
(* and also when the logger is stopped in the middle: each line in it comes*)
(* there for the first time, after the line its thread logged before it.   *)
InOrder(lines) ==
    \A i \in 1..Len(lines) :
        /\ \A j \in 1..(i - 1) : lines[j] # lines[i]
        /\ lines[i][2] > 1 =>
              \E j \in 1..(i - 1) : lines[j] = <<lines[i][1], lines[i][2] - 1>>
ThreadOrderKept == InOrder(written)

(* Log files are limited in length although lines are counted and written  *)
(* in different critical sections: a file gets at most SplitLines lines and*)
(* those that were on their way when it was opened, one for each other     *)
(* thread and, asynchronous, a full queue and the writer's one.  Left out  *)
(* by name: a thread that read the clock before midnight and counts its    *)
(* line after one of the new day turns the log back to the old day's first *)
(* file, and the next line turns it forward to the new day's first file    *)
(* again; both are opened to append, with l_count reset, so from then on   *)
(* files outgrow the limit, though log/README.md claims it of all.         *)
OnTheirWay == Cardinality(Threads) - 1 + IF l_is_async THEN QueueSize + 1 ELSE 0
FilesLimited == \A f \in DOMAIN files : files[f] <= SplitLines + OnTheirWay
RotationKeepsUp == ~stale => FilesLimited

(* The writer thread ends only when the logger is stopped: a comment on    *)
(* async_write says that is_thread_stop was introduced because the thread  *)
(* should not be over when pop returns false under a spurious wake-up.     *)
(* The loop ends on a false pop all the same.                              *)
WriterEndsWhenStopped == wpc = "exit" => is_thread_stop

(* A call of write_log returns, unless a file did not open and the process *)
(* has crashed on it, or the writer has ended although the logger was not  *)
(* stopped.  That second case contradicts the comment on async_write: it is*)
(* WriterEndsWhenStopped that fails, and then a full queue is never emptied*)
(* and write_log tries to push for ever.                                   *)
WriteLogReturns ==
    \A t \in Threads :
        (lpc[t] # "idle") ~>
            (\/ lpc[t] = "idle" \/ crashed \/ dpc = "done"
             \/ ~WriterEndsWhenStopped)

(* The destructor returns, unless notify() came while the writer was not   *)
(* waiting and the writer then went to wait: the writer misses it, finds   *)
(* the queue empty and is joined for ever, though a comment on async_write *)
(* has notify let it stop.                                                 *)
DestructorReturns ==
    (dpc = "notify") ~> (dpc = "done" \/ crashed \/ (missed /\ wpc = "wait"))
=============================================================================
