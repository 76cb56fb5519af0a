------------------------------ MODULE TcpServer ------------------------------
(***************************************************************************)
(* The life of connections in a running TcpServer (tcp_server, tcp_conn,   *)
(* acceptor and epoll of net/): the main thread accepts them, the thread   *)
(* of each sub-loop serves those it was dealt, and the threads of the      *)
(* timer's pool evict those that were idle too long.                       *)
(* TcpServer::start has returned and each of its loops is run by one       *)
(* thread (ServerStart says when it is so).                                *)
(*                                                                         *)
(* Abstractions.  A message is one readiness of the socket; an output      *)
(* buffer is empty or not.  EventLoop::add_task calls connected() on the   *)
(* main thread (see EventLoop), where the callbacks of the example servers *)
(* only print.  The timer is its contract (see Timer): all timeouts are    *)
(* equal, so timers expire in the order they were armed, and a timer may   *)
(* expire at any time; an expired one is handed to the pool unless it has  *)
(* been cancelled.  Operations on one epoll map or on ts_tcp_connections   *)
(* are atomic, although the code takes no lock around them.                *)
(***************************************************************************)
EXTENDS Integers, Sequences, FiniteSets, SequencesExt

CONSTANTS Conns,      \* clients, one connection each
          NumLoops,   \* ts_thread_num, the number of sub-loops
          Pool,       \* the threads of the timer's pool
          Limits,     \* numbers of descriptors that may be left for connections
          MaxMsgs,    \* bound: messages per client
          MaxExpired, \* bound: timers that expire in a behaviour
          Main,       \* the thread of the acceptor's loop
          None

Loops   == 0..(NumLoops - 1)          \* a sub-loop and its thread
Fds     == UNION {0..(n - 1) : n \in Limits}
Closed  == -1
Threads == Loops \cup Pool \cup {Main}

ASSUME ServerAssumption ==
    /\ NumLoops \in Nat \ {0}
    /\ Limits \subseteq Nat \ {0}
    /\ MaxMsgs \in Nat /\ MaxExpired \in Nat
    /\ Main \notin Loops \cup Pool /\ Loops \cap Pool = {}
    /\ None \notin Conns \cup Loops

INSTANCE Epoll WITH NoCb <- None

VARIABLES
    nofile,              \* kernel: descriptors left for connections, constant
    backlog,             \* kernel: connections not yet accepted
    sock,                \* kernel: the connection each descriptor is open on
    inbox,               \* kernel: unread messages of each connection
    sent,                \* messages each client has sent
    eof,                 \* clients that have closed their end
    tc_fd,               \* TcpConnection::tc_fd
    tc_loop,             \* TcpConnection::tc_loop
    tc_timer_id,         \* TcpConnection::tc_timer_id
    tc_obuf,             \* connections whose tc_obuf is not empty
    poller,              \* the Epoll of each sub-loop
    ep_events,           \* the events of its last epoll_wait not yet served
    ts_next_loop,        \* TcpServer::ts_next_loop
    ts_tcp_connections,  \* TcpServer::ts_tcp_connections
    timers,              \* ts_timer's queue: <<id, connection>>, oldest first
    running,             \* ts_timer's id map: ids not cancelled
    next_id,             \* ts_timer's next id
    due,                 \* connections whose callback is in the timer's pool
    pc, conn, fd, id,    \* per thread: place, connection and locals
    aborted              \* an assertion has failed

kernel == <<nofile, backlog, sock, inbox, sent, eof>>
conns  == <<tc_fd, tc_loop, tc_timer_id, tc_obuf>>
epoll  == <<poller, ep_events>>
server == <<ts_next_loop, ts_tcp_connections>>
timer  == <<timers, running, next_id, due>>
locals == <<conn, fd, id>>
vars   == <<kernel, conns, epoll, server, timer, pc, locals, aborted>>

Ids == 0..(next_id - 1)   \* the timers armed so far

TypeOK ==
    /\ nofile \in Limits /\ backlog \in Seq(Conns)
    /\ sock \in [Fds -> Conns \cup {None}]
    /\ inbox \in [Conns -> 0..MaxMsgs] /\ sent \in [Conns -> 0..MaxMsgs]
    /\ eof \subseteq Conns /\ tc_obuf \subseteq Conns
    /\ tc_fd \in [Conns -> Fds \cup {Closed}]
    /\ tc_loop \in [Conns -> Loops \cup {None}]
    /\ tc_timer_id \in [Conns -> Ids \cup {-1}]
    /\ poller \in [Loops -> PollerType(Conns)]
    /\ ep_events \in [Loops -> SUBSET (Fds \X SUBSET {EPOLLIN, EPOLLOUT})]
    /\ ts_next_loop \in Loops \cup {-1} /\ ts_tcp_connections \in Seq(Conns)
    /\ timers \in Seq(Ids \X Conns) /\ running \subseteq Ids
    /\ next_id \in Nat /\ due \in Seq(Conns)
    /\ pc \in [Threads -> {"accept", "emfile", "add_poller", "poll", "dispatch",
                "read", "write", "cancel", "arm", "set_id", "send", "close_del",
                "close_read", "close_fd", "clean", "idle"}]
    /\ conn \in [Threads -> Conns \cup {None}]
    /\ fd \in [Threads -> Fds \cup {Closed}] /\ id \in [Threads -> Ids \cup {-1}]
    /\ aborted \in BOOLEAN

Init ==
    /\ nofile \in Limits /\ backlog = <<>>
    /\ sock = [f \in Fds |-> None]
    /\ inbox = [c \in Conns |-> 0] /\ sent = [c \in Conns |-> 0]
    /\ eof = {} /\ tc_obuf = {}
    /\ tc_fd = [c \in Conns |-> Closed] /\ tc_loop = [c \in Conns |-> None]
    /\ tc_timer_id = [c \in Conns |-> -1]
    /\ poller = [l \in Loops |-> NewPoller] /\ ep_events = [l \in Loops |-> {}]
    /\ ts_next_loop = -1 /\ ts_tcp_connections = <<>>
    /\ timers = <<>> /\ running = {} /\ next_id = 0 /\ due = <<>>
    /\ pc = [t \in Threads |-> IF t = Main THEN "accept"
                               ELSE IF t \in Loops THEN "poll" ELSE "idle"]
    /\ conn = [t \in Threads |-> None] /\ fd = [t \in Threads |-> Closed]
    /\ id = [t \in Threads |-> -1]
    /\ aborted = FALSE

Running == ~aborted /\ UNCHANGED aborted

Goto(t, from, to) ==
    /\ Running
    /\ pc[t] = from
    /\ pc' = [pc EXCEPT ![t] = to]

Jump(t, from, to) ==
    /\ Goto(t, from, to)
    /\ UNCHANGED <<kernel, conns, epoll, server, timer, locals>>

Open == {f \in Fds : sock[f] # None}
Free == 0..(nofile - 1) \ Open
Arrived == Range(backlog) \cup {c \in Conns : tc_loop[c] # None}

-----------------------------------------------------------------------------
(* The clients.                                                            *)
connect(c) ==
    /\ Running
    /\ c \notin Arrived \cup eof
    /\ backlog' = Append(backlog, c)
    /\ UNCHANGED <<nofile, sock, inbox, sent, eof, conns, epoll, server, timer,
                   pc, locals>>

client_send(c) ==
    /\ Running
    /\ c \in (Range(backlog) \cup Range(sock)) \ eof
    /\ sent[c] < MaxMsgs
    /\ sent' = [sent EXCEPT ![c] = @ + 1]
    /\ inbox' = [inbox EXCEPT ![c] = @ + 1]
    /\ UNCHANGED <<nofile, backlog, sock, eof, conns, epoll, server, timer, pc,
                   locals>>

client_close(c) ==
    /\ Running
    /\ c \in (Range(backlog) \cup Range(sock)) \ eof
    /\ eof' = eof \cup {c}
    /\ UNCHANGED <<nofile, backlog, sock, inbox, sent, conns, epoll, server,
                   timer, pc, locals>>

-----------------------------------------------------------------------------
(* Acceptor::do_accept on the main thread: accept gives the lowest free    *)
(* descriptor, get_next_loop deals the connection to a loop, ...           *)
ModuloFirst   == (ts_next_loop % NumLoops) + 1   \* variant: off by one
get_next_loop == (ts_next_loop + 1) % NumLoops

accept ==
    /\ backlog # <<>> /\ Free # {}
    /\ Goto(Main, "accept", "add_poller")
    /\ LET c == Head(backlog)
           connfd == Min(Free)
       IN  /\ sock' = [sock EXCEPT ![connfd] = c]
           /\ tc_fd' = [tc_fd EXCEPT ![c] = connfd]
           /\ tc_loop' = [tc_loop EXCEPT ![c] = get_next_loop]
           /\ conn' = [conn EXCEPT ![Main] = c]
    /\ ts_next_loop' = get_next_loop
    /\ backlog' = Tail(backlog)
    /\ UNCHANGED <<nofile, inbox, sent, eof, tc_timer_id, tc_obuf, epoll,
                   ts_tcp_connections, timer, fd, id>>

(* ... or says EMFILE when none is free, whether or not a client waits:    *)
(* ac_idle_fd is closed, ...                                               *)
accept_emfile ==
    /\ Free = {}
    /\ Goto(Main, "accept", "emfile")
    /\ UNCHANGED <<kernel, conns, epoll, server, timer, locals>>

(* ... and the next client, when there is one, is accepted in its place and*)
(* closed at once, even if a descriptor has become free by then; ...       *)
accept_idle ==
    /\ backlog # <<>>
    /\ Goto(Main, "emfile", "accept")
    /\ eof' = eof \cup {Head(backlog)}
    /\ backlog' = Tail(backlog)
    /\ UNCHANGED <<nofile, sock, inbox, sent, conns, epoll, server, timer,
                   locals>>

(* ... TcpConnection::add_task registers it with the loop's poller, from   *)
(* the main thread; then add_new_tcp_conn arms its timer (arm, set_id).    *)
add_task ==
    /\ Goto(Main, "add_poller", "arm")
    /\ LET c == conn[Main]
       IN  poller' = [poller EXCEPT ![tc_loop[c]] =
                        epoll_add(@, Open, tc_fd[c], EPOLLIN, c)]
    /\ UNCHANGED <<kernel, conns, ep_events, server, timer, locals>>

-----------------------------------------------------------------------------
(* add_new_tcp_conn, called by the acceptor on the main thread and by      *)
(* update_conn_timeout_time on a loop's: run_after, ...                    *)
arm(t) ==
    /\ Goto(t, "arm", "set_id")
    /\ timers' = Append(timers, <<next_id, conn[t]>>)
    /\ running' = running \cup {next_id}
    /\ id' = [id EXCEPT ![t] = next_id]
    /\ next_id' = next_id + 1
    /\ UNCHANGED <<kernel, conns, epoll, server, due, conn, fd>>

(* ... set_timer_id and emplace_back.                                      *)
set_id(t) ==
    /\ Goto(t, "set_id", IF t = Main THEN "accept" ELSE "send")
    /\ tc_timer_id' = [tc_timer_id EXCEPT ![conn[t]] = id[t]]
    /\ ts_tcp_connections' = Append(ts_tcp_connections, conn[t])
    /\ id' = [id EXCEPT ![t] = -1]
    /\ conn' = [conn EXCEPT ![t] = IF t = Main THEN None ELSE @]
    /\ UNCHANGED <<kernel, tc_fd, tc_loop, tc_obuf, epoll, ts_next_loop, timer,
                   fd>>

-----------------------------------------------------------------------------
(* Epoll::poll on the thread of loop l: what epoll_wait reports (level     *)
(* triggered), ...                                                         *)
Readable(f) == inbox[sock[f]] > 0 \/ sock[f] \in eof
ReadyEvents(l, f) ==
    {e \in poller[l].interest[f] : e = EPOLLIN => Readable(f)}

poll(l) ==
    /\ Goto(l, "poll", "dispatch")
    /\ LET ready == {f \in Fds : ReadyEvents(l, f) # {}}
       IN  /\ ready # {}
           /\ ep_events' = [ep_events EXCEPT ![l] =
                              {<<f, ReadyEvents(l, f)>> : f \in ready}]
    /\ UNCHANGED <<kernel, conns, poller, server, timer, locals>>

(* ... and execute_cbs, one event after the other: the assertion that the  *)
(* descriptor is in the map, then the read callback or else the write one. *)
Callback(entry, events) ==
    IF EPOLLIN \in events THEN <<"read", entry.read_callback>>
                          ELSE <<"write", entry.write_callback>>

execute_cb(l) ==
    /\ ~aborted /\ pc[l] = "dispatch"
    /\ \E ev \in ep_events[l] :
         LET cb == Callback(poller[l].ep_event_map[ev[1]], ev[2])
         IN  /\ ep_events' = [ep_events EXCEPT ![l] = @ \ {ev}]
             /\ aborted' = ~Known(poller[l], ev[1])
             /\ IF aborted' \/ cb[2] = None
                THEN UNCHANGED <<pc, conn>>
                ELSE /\ pc' = [pc EXCEPT ![l] = cb[1]]
                     /\ conn' = [conn EXCEPT ![l] = cb[2]]
    /\ UNCHANGED <<kernel, conns, poller, server, timer, fd, id>>

execute_cbs_done(l) ==
    ep_events[l] = {} /\ Jump(l, "dispatch", "poll")

-----------------------------------------------------------------------------
(* TcpConnection::do_read: a message, or else (end of file, EAGAIN or any  *)
(* other error) do_close.                                                  *)
OpenFd(c) == tc_fd[c] \in Open

do_read_message(l) ==
    /\ Goto(l, "read", "cancel")
    /\ OpenFd(conn[l])
    /\ LET s == sock[tc_fd[conn[l]]]
       IN  inbox[s] > 0 /\ inbox' = [inbox EXCEPT ![s] = @ - 1]
    /\ UNCHANGED <<nofile, backlog, sock, sent, eof, conns, epoll, server,
                   timer, locals>>

do_read_close(l) ==
    /\ Jump(l, "read", "close_del")
    /\ OpenFd(conn[l]) => inbox[sock[tc_fd[conn[l]]]] = 0

(* Variant: the timer is cancelled and not armed again.                    *)
CancelOnly(l) ==
    /\ Goto(l, "cancel", "send")
    /\ running' = running \ {tc_timer_id[conn[l]]}
    /\ UNCHANGED <<kernel, conns, epoll, server, timers, next_id, due, locals>>

(* The message callback starts with update_conn_timeout_time: cancel the   *)
(* timer whose id the connection holds, then arm a new one (arm, set_id).  *)
cancel(l) ==
    /\ Goto(l, "cancel", "arm")
    /\ running' = running \ {tc_timer_id[conn[l]]}
    /\ UNCHANGED <<kernel, conns, epoll, server, timers, next_id, due, locals>>

(* The user's callback may then send a reply: EPOLLOUT is asked for when   *)
(* the output buffer was empty.                                            *)
send(l) ==
    /\ Goto(l, "send", "dispatch")
    /\ LET c == conn[l]
       IN  \/ UNCHANGED <<tc_obuf, poller>>
           \/ /\ tc_obuf' = tc_obuf \cup {c}
              /\ poller' = [poller EXCEPT ![l] =
                              IF c \in tc_obuf THEN @
                              ELSE epoll_add(@, Open, tc_fd[c], EPOLLOUT, c)]
    /\ conn' = [conn EXCEPT ![l] = None]
    /\ UNCHANGED <<kernel, tc_fd, tc_loop, tc_timer_id, ep_events, server,
                   timer, fd, id>>

(* Variant of a partial write: EPOLLOUT is given up all the same.          *)
PartIsAll(l) ==
    /\ Goto(l, "write", "dispatch")
    /\ conn[l] \in tc_obuf /\ OpenFd(conn[l])
    /\ poller' = [poller EXCEPT ![l] =
                    epoll_del_event(@, Open, tc_fd[conn[l]], EPOLLOUT)]
    /\ conn' = [conn EXCEPT ![l] = None]
    /\ UNCHANGED <<kernel, conns, ep_events, server, timer, fd, id>>

(* do_write: the socket takes a part of the buffer, ...                    *)
do_write_part(l) ==
    /\ Goto(l, "write", "dispatch")
    /\ conn[l] \in tc_obuf /\ OpenFd(conn[l])
    /\ conn' = [conn EXCEPT ![l] = None]
    /\ UNCHANGED <<kernel, conns, epoll, server, timer, fd, id>>

(* ... or all of it (or there is nothing to write): EPOLLOUT is given up,  *)
do_write(l) ==
    /\ Goto(l, "write", "dispatch")
    /\ LET c == conn[l]
       IN  /\ c \in tc_obuf => OpenFd(c)
           /\ tc_obuf' = tc_obuf \ {c}
           /\ poller' = [poller EXCEPT ![l] =
                           epoll_del_event(@, Open, tc_fd[c], EPOLLOUT)]
    /\ conn' = [conn EXCEPT ![l] = None]
    /\ UNCHANGED <<kernel, tc_fd, tc_loop, tc_timer_id, ep_events, server,
                   timer, fd, id>>

(* ... or writing fails, as it may on a connection the client has closed.  *)
do_write_close(l) ==
    /\ Jump(l, "write", "close_del")
    /\ conn[l] \in tc_obuf
    /\ OpenFd(conn[l]) => sock[tc_fd[conn[l]]] \in eof

-----------------------------------------------------------------------------
(* do_close, on a loop's thread or, as active_close, on a thread of the    *)
(* timer's pool: close callback and del_from_poller, ...                   *)
close_del(t) ==
    /\ Goto(t, "close_del", "close_read")
    /\ LET c == conn[t]
       IN  poller' = [poller EXCEPT ![tc_loop[c]] = epoll_del(@, tc_fd[c])]
    /\ UNCHANGED <<kernel, conns, ep_events, server, timer, locals>>

(* Variant: tc_fd is read after it has been set to -1.                     *)
ReadTooLate(t) ==
    /\ Goto(t, "close_read", "close_fd")
    /\ tc_obuf' = tc_obuf \ {conn[t]}
    /\ UNCHANGED <<kernel, tc_fd, tc_loop, tc_timer_id, epoll, server, timer,
                   locals>>

(* ... clear the buffers and read tc_fd, ...                               *)
close_read(t) ==
    /\ Goto(t, "close_read", "close_fd")
    /\ tc_obuf' = tc_obuf \ {conn[t]}
    /\ fd' = [fd EXCEPT ![t] = tc_fd[conn[t]]]
    /\ UNCHANGED <<kernel, tc_fd, tc_loop, tc_timer_id, epoll, server, timer,
                   conn, id>>

(* ... set it to -1 and close what was read, ...                           *)
close_fd(t) ==
    /\ Goto(t, "close_fd", "clean")
    /\ tc_fd' = [tc_fd EXCEPT ![conn[t]] = Closed]
    /\ IF fd[t] \in Fds
       THEN /\ sock' = [sock EXCEPT ![fd[t]] = None]
            /\ poller' = [l \in Loops |-> CloseInKernel(poller[l], fd[t])]
       ELSE UNCHANGED <<sock, poller>>
    /\ fd' = [fd EXCEPT ![t] = Closed]
    /\ UNCHANGED <<nofile, backlog, inbox, sent, eof, tc_loop, tc_timer_id,
                   tc_obuf, ep_events, server, timer, conn, id>>

(* ... and do_clean: erase the first entry for the connection, if any.     *)
do_clean(t) ==
    /\ Goto(t, "clean", IF t \in Pool THEN "idle" ELSE "dispatch")
    /\ ts_tcp_connections' = RemoveFirst(ts_tcp_connections, conn[t])
    /\ conn' = [conn EXCEPT ![t] = None]
    /\ UNCHANGED <<kernel, conns, epoll, ts_next_loop, timer, fd, id>>

-----------------------------------------------------------------------------
(* The timer: its oldest node is due and goes to the pool unless cancelled;*)
(* a thread of the pool runs the callback, active_close.                   *)
expire ==
    /\ Running
    /\ timers # <<>> /\ next_id - Len(timers) < MaxExpired
    /\ timers' = Tail(timers)
    /\ due' = IF Head(timers)[1] \in running
              THEN Append(due, Head(timers)[2]) ELSE due
    /\ UNCHANGED <<kernel, conns, epoll, server, running, next_id, pc, locals>>

active_close(p) ==
    /\ due # <<>>
    /\ Goto(p, "idle", "close_del")
    /\ conn' = [conn EXCEPT ![p] = Head(due)]
    /\ due' = Tail(due)
    /\ UNCHANGED <<kernel, conns, epoll, server, timers, running, next_id, fd,
                   id>>

-----------------------------------------------------------------------------
do_close(t) == close_del(t) \/ close_read(t) \/ close_fd(t) \/ do_clean(t)

MainStep == accept \/ accept_emfile \/ accept_idle
              \/ add_task \/ arm(Main) \/ set_id(Main)

LoopStep(l) ==
    \/ poll(l) \/ execute_cb(l) \/ execute_cbs_done(l)
    \/ do_read_message(l) \/ do_read_close(l)
    \/ cancel(l) \/ arm(l) \/ set_id(l) \/ send(l)
    \/ do_write_part(l) \/ do_write(l) \/ do_write_close(l)
    \/ do_close(l)

PoolStep(p) == active_close(p) \/ do_close(p)

Next ==
    \/ \E c \in Conns : connect(c) \/ client_send(c) \/ client_close(c)
    \/ MainStep
    \/ \E l \in Loops : LoopStep(l)
    \/ expire
    \/ \E p \in Pool : PoolStep(p)

(* Every thread keeps running and armed timers eventually expire; a buffer *)
(* that is written part by part is written in the end, as it is finite and *)
(* each write takes at least a byte.  Clients owe nothing, except that one *)
(* that stays connected reads what it is sent.                             *)
Fairness ==
    /\ WF_vars(MainStep)
    /\ \A l \in Loops : WF_vars(LoopStep(l))
    /\ \A l \in Loops : SF_vars(do_write(l))
    /\ WF_vars(expire)
    /\ \A p \in Pool : WF_vars(PoolStep(p))

Spec == Init /\ [][Next]_vars /\ Fairness

-----------------------------------------------------------------------------
IsOpen(c) == tc_fd[c] # Closed
Armed(c)  == {i \in running : \E k \in 1..Len(timers) : timers[k] = <<i, c>>}

(* No open connection escapes the idle timeout: it has a timer that is not *)
(* cancelled, or its eviction is under way, or a thread is about to arm its*)
(* timer, however the acceptor and the message callback interleave.        *)
EvictionArmed ==
    \A c \in Conns : IsOpen(c) =>
        \/ Armed(c) # {}
        \/ c \in Range(due)
        \/ \E t \in Threads :
             conn[t] = c /\ pc[t] \in {"add_poller", "arm", "close_del",
                                       "close_read", "close_fd"}

(* The assertion of execute_cbs: an event that epoll_wait reported still   *)
(* has its entry in ep_event_map when its turn comes.                      *)
DispatchFindsEntry == ~aborted

(* Descriptors are not mixed up although they are reused: what an open     *)
(* connection has in tc_fd is its own socket, and no socket is left open   *)
(* without its connection.                                                 *)
OwnSocket == \A c \in Conns, f \in Fds : tc_fd[c] = f <=> sock[f] = c

(* A reply cannot get stuck: while bytes are buffered the kernel watches   *)
(* the connection's socket for EPOLLOUT, unless it is being closed.        *)
ReplyWatched ==
    \A c \in tc_obuf :
        \/ /\ OpenFd(c)
           /\ EPOLLOUT \in poller[tc_loop[c]].interest[tc_fd[c]]
        \/ conn[tc_loop[c]] = c /\ pc[tc_loop[c]] = "close_read"

(* Whatever is buffered is sent in the end, or its connection closed,      *)
(* although a readable descriptor is only read and writes may be partial:  *)
(* the server never rests on an unsent reply.                              *)
ReplySent == []<>(tc_obuf = {})

(* Every connection is eventually closed once its client falls silent (the *)
(* number of messages is bounded), unless an assertion stops the server.   *)
IdleConnectionClosed == \A c \in Conns : IsOpen(c) ~> (~IsOpen(c) \/ aborted)
=============================================================================
