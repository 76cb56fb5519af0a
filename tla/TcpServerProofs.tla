--------------------------- MODULE TcpServerProofs ---------------------------
(***************************************************************************)
(* Theorems about TcpServer, for any number of clients, loops, pool threads*)
(* and descriptors.                                                        *)
(***************************************************************************)
EXTENDS TcpServer, SequenceTheorems, WellFoundedInduction, TLAPS

-----------------------------------------------------------------------------
LEMMA MinIn ==
    ASSUME NEW S, S \subseteq Nat, S # {}
    PROVE  Min(S) \in S
<1> DEFINE R == OpToRel(<, Nat)
<1>1. PICK x \in S : \A y \in S : ~ (<<y, x>> \in R)
  <2>1. IsWellFoundedOn(R, Nat)
    BY NatLessThanWellFounded
  <2> HIDE DEF R
  <2>2. QED
    BY <2>1, WFMin
<1>2. \A y \in S : ~(y < x)
  BY <1>1 DEF OpToRel
<1>3. \A y \in S : x =< y
  BY <1>2
<1>4. QED
  BY <1>3 DEF Min

LEMMA RangeAppend ==
    ASSUME NEW S, NEW q \in Seq(S), NEW e \in S
    PROVE  Range(Append(q, e)) = Range(q) \cup {e}
<1>1. /\ Len(q) \in Nat /\ Append(q, e) \in Seq(S)
      /\ Len(Append(q, e)) = Len(q) + 1 /\ Append(q, e)[Len(q) + 1] = e
      /\ \A i \in 1..Len(q) : Append(q, e)[i] = q[i]
  OBVIOUS
<1>2. /\ Range(q) = {q[i] : i \in 1..Len(q)}
      /\ Range(Append(q, e)) = {Append(q, e)[i] : i \in 1..(Len(q) + 1)}
  BY <1>1 DEF Range
<1>3. \A i \in 1..(Len(q) + 1) : i \in 1..Len(q) \/ i = Len(q) + 1
  BY <1>1
<1>4. 1..Len(q) \subseteq 1..(Len(q) + 1) /\ Len(q) + 1 \in 1..(Len(q) + 1)
  BY <1>1
<1>5. QED
  BY <1>1, <1>2, <1>3, <1>4

LEMMA RangeTail ==
    ASSUME NEW S, NEW q \in Seq(S), q # <<>>
    PROVE  \A e \in Range(q) : e = Head(q) \/ e \in Range(Tail(q))
<1>1. /\ Len(q) \in Nat /\ Tail(q) \in Seq(S) /\ Len(Tail(q)) = Len(q) - 1
      /\ Head(q) = q[1] /\ \A i \in 1..(Len(q) - 1) : Tail(q)[i] = q[i + 1]
  BY HeadTailProperties
<1>2. /\ Range(q) = {q[i] : i \in 1..Len(q)}
      /\ Range(Tail(q)) = {Tail(q)[i] : i \in 1..(Len(q) - 1)}
  <2> DEFINE r == Tail(q)
  <2>1. r \in Seq(S) /\ Len(r) = Len(q) - 1
    BY <1>1
  <2> HIDE DEF r
  <2>2. Range(r) = {r[i] : i \in 1..(Len(q) - 1)}
    BY <2>1 DEF Range
  <2>3. Range(q) = {q[i] : i \in 1..Len(q)}
    BY DEF Range
  <2>4. QED
    BY <2>2, <2>3, Zenon DEF r
<1>3. ASSUME NEW i \in 1..Len(q), i # 1
      PROVE  q[i] \in Range(Tail(q))
  <2>1. i - 1 \in 1..(Len(q) - 1) /\ (i - 1) + 1 = i
    BY <1>1, <1>3
  <2>2. Tail(q)[i - 1] = q[i]
    BY <1>1, <2>1
  <2>3. QED
    BY <1>2, <2>1, <2>2
<1>4. QED
  BY <1>1, <1>2, <1>3

LEMMA RemoveFirstSeq ==
    ASSUME NEW S, NEW s \in Seq(S), NEW e
    PROVE  RemoveFirst(s, e) \in Seq(S)
<1>1. CASE \E i \in 1..Len(s) : s[i] = e
  <2> DEFINE I == {i \in 1..Len(s) : s[i] = e}
             m == Min(I)
  <2>1. I \subseteq Nat /\ I # {}
    BY <1>1
  <2>2. m \in 1..Len(s)
    BY <2>1, MinIn
  <2>3. RemoveFirst(s, e) = SubSeq(s, 1, m - 1) \o SubSeq(s, m + 1, Len(s))
    BY <1>1, <2>1 DEF RemoveFirst, RemoveAt, SelectInSeq
  <2> HIDE DEF m
  <2>4. SubSeq(s, 1, m - 1) \in Seq(S) /\ SubSeq(s, m + 1, Len(s)) \in Seq(S)
    BY <2>2, SubSeqProperties
  <2>5. QED
    BY <2>3, <2>4, ConcatProperties
<1>2. CASE ~ \E i \in 1..Len(s) : s[i] = e
  BY <1>2 DEF RemoveFirst
<1>3. QED
  BY <1>1, <1>2

-----------------------------------------------------------------------------
(* Epoll's operations keep the type of a poller.                           *)
Watchable == Fds \cup {Closed}

LEMMA Constants ==
    /\ Fds \subseteq Nat /\ Closed \notin Fds /\ Closed \in Watchable
    /\ \A n \in Limits : 0..(n - 1) \subseteq Fds
    /\ None \notin Conns /\ None \notin Loops
    /\ Main \notin Loops /\ Main \notin Pool /\ Loops \cap Pool = {}
    /\ Main \in Threads /\ Loops \subseteq Threads /\ Pool \subseteq Threads
<1>1. Fds \subseteq Nat /\ \A n \in Limits : 0..(n - 1) \subseteq Fds
  BY ServerAssumption DEF Fds
<1>2. Closed \notin Fds
  BY <1>1 DEF Closed
<1>3. QED
  BY <1>1, <1>2, ServerAssumption DEF Watchable, Threads

LEMMA NewPollerType == NewPoller \in PollerType(Conns)
  BY DEF NewPoller, PollerType, io_event, NoEvent

LEMMA AddType ==
    ASSUME NEW ep \in PollerType(Conns), NEW f \in Watchable,
           NEW open \in SUBSET Fds, NEW e \in {EPOLLIN, EPOLLOUT},
           NEW c \in Conns
    PROVE  epoll_add(ep, open, f, e, c) \in PollerType(Conns)
<1> DEFINE old == ep.ep_event_map[f]
           final == old.event \cup {e}
           entry == [event |-> final,
                     read_callback |-> IF e = EPOLLIN THEN c
                                       ELSE old.read_callback,
                     write_callback |-> IF e = EPOLLOUT THEN c
                                        ELSE old.write_callback]
           map == [ep.ep_event_map EXCEPT ![f] = entry]
           interest == epoll_ctl(ep.interest, open, OpFor(ep, f), f, final)
<1>1. /\ ep.ep_event_map \in [Watchable -> io_event(Conns)]
      /\ ep.interest \in [Fds -> SUBSET {EPOLLIN, EPOLLOUT}]
  BY DEF PollerType, Watchable
<1>2. old \in io_event(Conns)
  BY <1>1
<1>3. final \in SUBSET {EPOLLIN, EPOLLOUT}
  BY <1>2 DEF io_event
<1>4. entry \in io_event(Conns)
  BY <1>2, <1>3 DEF io_event
<1>5. epoll_add(ep, open, f, e, c)
        = [ep_event_map |-> map, interest |-> interest]
  BY DEF epoll_add
<1> HIDE DEF entry, final
<1>6. map \in [Watchable -> io_event(Conns)]
  BY <1>1, <1>4
<1>7. interest \in [Fds -> SUBSET {EPOLLIN, EPOLLOUT}]
  BY <1>1, <1>3 DEF epoll_ctl
<1> HIDE DEF map, interest
<1>8. QED
  BY <1>5, <1>6, <1>7 DEF PollerType, Watchable

LEMMA DelType ==
    ASSUME NEW ep \in PollerType(Conns), NEW f \in Watchable
    PROVE  epoll_del(ep, f) \in PollerType(Conns)
<1>1. NoEvent \in io_event(Conns)
  BY DEF NoEvent, io_event
<1>2. QED
  BY <1>1 DEF epoll_del, PollerType, Watchable

LEMMA DelEventType ==
    ASSUME NEW ep \in PollerType(Conns), NEW f \in Watchable,
           NEW open \in SUBSET Fds, NEW e \in {EPOLLIN, EPOLLOUT}
    PROVE  epoll_del_event(ep, open, f, e) \in PollerType(Conns)
<1> DEFINE old == ep.ep_event_map[f]
           target == old.event \ {e}
           entry == [old EXCEPT !.event = target]
           map == [ep.ep_event_map EXCEPT ![f] = entry]
           interest == epoll_ctl(ep.interest, open, "MOD", f, target)
<1>1. /\ ep.ep_event_map \in [Watchable -> io_event(Conns)]
      /\ ep.interest \in [Fds -> SUBSET {EPOLLIN, EPOLLOUT}]
  BY DEF PollerType, Watchable
<1>2. old \in io_event(Conns)
  BY <1>1
<1>3. target \in SUBSET {EPOLLIN, EPOLLOUT}
  BY <1>2 DEF io_event
<1>4. entry \in io_event(Conns)
  BY <1>2, <1>3 DEF io_event
<1>5. CASE Known(ep, f) /\ target # {}
  <2>1. epoll_del_event(ep, open, f, e)
          = [ep_event_map |-> map, interest |-> interest]
    BY <1>5 DEF epoll_del_event
  <2> HIDE DEF entry, target
  <2>2. map \in [Watchable -> io_event(Conns)]
    BY <1>1, <1>4
  <2>3. interest \in [Fds -> SUBSET {EPOLLIN, EPOLLOUT}]
    BY <1>1, <1>3 DEF epoll_ctl
  <2> HIDE DEF map, interest
  <2>4. QED
    BY <2>1, <2>2, <2>3 DEF PollerType, Watchable
<1>6. CASE ~Known(ep, f) \/ target = {}
  BY <1>6, DelType DEF epoll_del_event
<1>7. QED
  BY <1>5, <1>6

LEMMA CloseType ==
    ASSUME NEW ep \in PollerType(Conns), NEW f \in Fds
    PROVE  CloseInKernel(ep, f) \in PollerType(Conns)
  BY DEF CloseInKernel, PollerType

-----------------------------------------------------------------------------
(* The parts of the type invariant, and what else it takes: a thread in a  *)
(* callback or in the acceptor's handling of a connection has a connection,*)
(* and nothing is read that was not sent.                                  *)
KernelType ==
    /\ nofile \in Limits /\ backlog \in Seq(Conns)
    /\ sock \in [Fds -> Conns \cup {None}]
    /\ inbox \in [Conns -> 0..MaxMsgs] /\ sent \in [Conns -> 0..MaxMsgs]
    /\ eof \subseteq Conns
    /\ \A c \in Conns : inbox[c] <= sent[c]
ConnsType ==
    /\ tc_obuf \subseteq Conns
    /\ tc_fd \in [Conns -> Watchable] /\ tc_loop \in [Conns -> Loops \cup {None}]
PollersType == poller \in [Loops -> PollerType(Conns)]
EventsType ==
    ep_events \in [Loops -> SUBSET (Fds \X SUBSET {EPOLLIN, EPOLLOUT})]
ServerType ==
    /\ ts_next_loop \in Loops \cup {-1} /\ ts_tcp_connections \in Seq(Conns)
TimersType ==
    /\ timers \in Seq(Ids \X Conns) /\ running \subseteq Ids /\ next_id \in Nat
    /\ due \in Seq(Conns)
    /\ tc_timer_id \in [Conns -> Ids \cup {-1}]
    /\ id \in [Threads -> Ids \cup {-1}]

Resting == {"accept", "emfile", "poll", "dispatch", "idle"}
Places  == {"accept", "emfile", "add_poller", "poll", "dispatch", "read",
            "write", "cancel", "arm", "set_id", "send", "close_del",
            "close_read", "close_fd", "clean", "idle"}
ThreadsType ==
    /\ pc \in [Threads -> Places]
    /\ conn \in [Threads -> Conns \cup {None}]
    /\ fd \in [Threads -> Watchable]
    /\ \A t \in Threads : pc[t] \notin Resting => conn[t] \in Conns
AbortedType == aborted \in BOOLEAN

TypeInv ==
    /\ KernelType /\ ConnsType /\ PollersType /\ EventsType
    /\ ServerType /\ TimersType /\ ThreadsType /\ AbortedType

LEMMA TypeInvTypeOK == TypeInv => TypeOK
  BY DEF TypeInv, TypeOK, KernelType, ConnsType, PollersType, EventsType,
         ServerType, TimersType, ThreadsType, AbortedType, Places, Watchable

LEMMA InitTypeInv == Init => TypeInv
<1> SUFFICES ASSUME Init
             PROVE  TypeInv
  OBVIOUS
<1> USE ServerAssumption, Constants DEF Init
<1>1. KernelType /\ ConnsType
  BY DEF KernelType, ConnsType
<1>2. PollersType /\ EventsType
  BY NewPollerType DEF PollersType, EventsType
<1>3. ServerType /\ TimersType
  BY DEF ServerType, TimersType
<1>4. ThreadsType /\ AbortedType
  BY DEF ThreadsType, AbortedType, Places, Resting
<1>5. QED
  BY <1>1, <1>2, <1>3, <1>4 DEF TypeInv

(* What an action leaves alone keeps its type.                             *)
LEMMA SameTypes ==
    ASSUME TypeInv
    PROVE  /\ UNCHANGED kernel => KernelType'
           /\ UNCHANGED <<tc_fd, tc_loop, tc_obuf>> => ConnsType'
           /\ UNCHANGED poller => PollersType'
           /\ UNCHANGED ep_events => EventsType'
           /\ UNCHANGED server => ServerType'
           /\ UNCHANGED <<timer, tc_timer_id, id>> => TimersType'
           /\ UNCHANGED <<pc, conn, fd>> => ThreadsType'
           /\ UNCHANGED aborted => AbortedType'
<1>1. UNCHANGED kernel => KernelType'
  BY DEF TypeInv, KernelType, kernel
<1>2. UNCHANGED <<tc_fd, tc_loop, tc_obuf>> => ConnsType'
  BY DEF TypeInv, ConnsType
<1>3. /\ UNCHANGED poller => PollersType'
      /\ UNCHANGED ep_events => EventsType'
      /\ UNCHANGED server => ServerType'
  BY DEF TypeInv, PollersType, EventsType, ServerType, server
<1>4. UNCHANGED <<timer, tc_timer_id, id>> => TimersType'
  BY DEF TypeInv, TimersType, timer, Ids
<1>5. UNCHANGED <<pc, conn, fd>> => ThreadsType'
  BY DEF TypeInv, ThreadsType
<1>6. UNCHANGED aborted => AbortedType'
  BY DEF TypeInv, AbortedType
<1>7. QED
  BY <1>1, <1>2, <1>3, <1>4, <1>5, <1>6

LEMMA OpenFds == Open \in SUBSET Fds
  BY DEF Open

LEMMA NextTypeInv == TypeInv /\ [Next]_vars => TypeInv'
<1> SUFFICES ASSUME TypeInv, [Next]_vars
             PROVE  TypeInv'
  OBVIOUS
<1> USE SameTypes DEF TypeInv
<1>1. ASSUME NEW c \in Conns, connect(c)
      PROVE  TypeInv'
  <2>1. KernelType'
    BY <1>1 DEF connect, KernelType
  <2>2. QED
    BY <1>1, <2>1 DEF connect, conns, epoll, timer, locals, Running
<1>2. ASSUME NEW c \in Conns, client_send(c)
      PROVE  TypeInv'
  <2>1. KernelType'
    BY <1>2, ServerAssumption DEF client_send, KernelType
  <2>2. QED
    BY <1>2, <2>1 DEF client_send, conns, epoll, timer, locals, Running
<1>3. ASSUME NEW c \in Conns, client_close(c)
      PROVE  TypeInv'
  <2>1. KernelType'
    BY <1>3 DEF client_close, KernelType
  <2>2. QED
    BY <1>3, <2>1 DEF client_close, conns, epoll, timer, locals, Running
<1>4. CASE accept
  <2> DEFINE c == Head(backlog)
             f == Min(Free)
  <2>1. c \in Conns /\ Tail(backlog) \in Seq(Conns)
    BY <1>4 DEF accept, KernelType
  <2>2. f \in Fds /\ f \in Watchable
    <3>1. Free \subseteq Fds
      BY Constants DEF Free, KernelType
    <3>2. QED
      BY <1>4, <3>1, Constants, MinIn DEF accept, Watchable
  <2>3. get_next_loop \in Loops
    BY ServerAssumption DEF get_next_loop, ServerType, Loops
  <2>4. /\ backlog' = Tail(backlog) /\ sock' = [sock EXCEPT ![f] = c]
        /\ tc_fd' = [tc_fd EXCEPT ![c] = f]
        /\ tc_loop' = [tc_loop EXCEPT ![c] = get_next_loop]
        /\ conn' = [conn EXCEPT ![Main] = c]
        /\ pc' = [pc EXCEPT ![Main] = "add_poller"]
        /\ ts_next_loop' = get_next_loop
        /\ UNCHANGED <<nofile, inbox, sent, eof, tc_timer_id, tc_obuf, epoll,
                       ts_tcp_connections, timer, fd, id, aborted>>
    BY <1>4 DEF accept, Goto, Running
  <2> HIDE DEF c, f
  <2>5. KernelType'
    BY <2>1, <2>2, <2>4 DEF KernelType
  <2>6. ConnsType' /\ ServerType'
    BY <2>1, <2>2, <2>3, <2>4 DEF ConnsType, ServerType
  <2>7. ThreadsType'
    BY <2>1, <2>4 DEF ThreadsType, Places
  <2>8. QED
    BY <2>4, <2>5, <2>6, <2>7 DEF epoll
<1>5. CASE accept_emfile \/ accept_idle
  <2>1. KernelType'
    <3>1. CASE accept_emfile
      BY <3>1 DEF accept_emfile, kernel, KernelType
    <3>2. CASE accept_idle
      BY <3>2 DEF accept_idle, KernelType
    <3>3. QED
      BY <1>5, <3>1, <3>2
  <2>2. ThreadsType'
    BY <1>5 DEF accept_emfile, accept_idle, locals, Goto, ThreadsType, Places,
                Resting
  <2>3. QED
    BY <1>5, <2>1, <2>2
       DEF accept_emfile, accept_idle, conns, epoll, timer, locals, Goto,
           Running
<1>6. CASE add_task
  <2>1. ThreadsType'
    BY <1>6, Constants DEF add_task, locals, Goto, ThreadsType, Places, Resting
  <2>2. conn[Main] \in Conns /\ tc_fd[conn[Main]] \in Watchable
    BY <1>6, Constants DEF add_task, Goto, ThreadsType, Resting, ConnsType
  <2>3. PollersType'
    BY <1>6, <2>2, AddType, OpenFds DEF add_task, PollersType
  <2>4. QED
    BY <1>6, <2>1, <2>3 DEF add_task, conns, timer, locals, Goto, Running
<1>7. ASSUME NEW t \in Threads, arm(t)
      PROVE  TypeInv'
  <2>1. ThreadsType'
    BY <1>7 DEF arm, Goto, ThreadsType, Places, Resting
  <2>2. conn[t] \in Conns
    BY <1>7 DEF arm, Goto, ThreadsType, Resting
  <2>3. TimersType'
    <3>1. next_id \in Ids' /\ Ids \subseteq Ids' /\ next_id' \in Nat
      BY <1>7 DEF arm, TimersType, Ids
    <3>2. Ids \X Conns \subseteq Ids' \X Conns
      BY <3>1
    <3>3. timers \in Seq(Ids' \X Conns)
      BY <3>2, SeqMonotonic DEF TimersType
    <3>4. <<next_id, conn[t]>> \in Ids' \X Conns
      BY <2>2, <3>1
    <3>5. timers' \in Seq(Ids' \X Conns)
      BY <1>7, <3>3, <3>4, AppendProperties DEF arm
    <3>6. QED
      BY <1>7, <3>1, <3>5 DEF arm, conns, TimersType
  <2>4. QED
    BY <1>7, <2>1, <2>3 DEF arm, conns, epoll, Goto, Running
<1>8. ASSUME NEW t \in Threads, set_id(t)
      PROVE  TypeInv'
  <2>1. conn[t] \in Conns
    BY <1>8 DEF set_id, Goto, ThreadsType, Resting
  <2>2. ThreadsType'
    BY <1>8, <2>1 DEF set_id, Goto, ThreadsType, Places, Resting
  <2>3. TimersType'
    BY <1>8, <2>1 DEF set_id, timer, TimersType, Ids
  <2>4. ServerType'
    BY <1>8, <2>1 DEF set_id, ServerType
  <2>5. QED
    BY <1>8, <2>2, <2>3, <2>4 DEF set_id, epoll, Goto, Running
<1>9. ASSUME NEW l \in Loops, poll(l)
      PROVE  TypeInv'
  <2>1. ThreadsType'
    BY <1>9, Constants DEF poll, locals, Goto, ThreadsType, Places, Resting
  <2>2. \A f \in Fds : ReadyEvents(l, f) \in SUBSET {EPOLLIN, EPOLLOUT}
    BY DEF ReadyEvents, PollersType, PollerType
  <2>3. EventsType'
    BY <1>9, <2>2 DEF poll, EventsType
  <2>4. QED
    BY <1>9, <2>1, <2>3 DEF poll, conns, timer, locals, Goto, Running
<1>10. ASSUME NEW l \in Loops, execute_cb(l)
       PROVE  TypeInv'
  <2>1. PICK ev \in ep_events[l] :
          LET cb == Callback(poller[l].ep_event_map[ev[1]], ev[2])
          IN  /\ ep_events' = [ep_events EXCEPT ![l] = @ \ {ev}]
              /\ aborted' = ~Known(poller[l], ev[1])
              /\ IF aborted' \/ cb[2] = None
                 THEN UNCHANGED <<pc, conn>>
                 ELSE /\ pc' = [pc EXCEPT ![l] = cb[1]]
                      /\ conn' = [conn EXCEPT ![l] = cb[2]]
    BY <1>10 DEF execute_cb
  <2> DEFINE cb == Callback(poller[l].ep_event_map[ev[1]], ev[2])
  <2>2. EventsType'
    BY <2>1 DEF EventsType
  <2>3. AbortedType'
    BY <2>1 DEF AbortedType
  <2>4. cb[1] \in Places /\ cb[2] \in Conns \cup {None}
    <3>1. ev[1] \in Watchable
      BY DEF EventsType, Watchable
    <3>2. poller[l].ep_event_map[ev[1]] \in io_event(Conns)
      BY <3>1 DEF PollersType, PollerType, Watchable
    <3>3. QED
      BY <3>2 DEF Callback, io_event, Places
  <2> HIDE DEF cb
  <2>5. ThreadsType'
    <3>1. CASE UNCHANGED <<pc, conn>>
      BY <1>10, <3>1 DEF execute_cb
    <3>2. CASE /\ cb[2] \in Conns
               /\ pc' = [pc EXCEPT ![l] = cb[1]]
               /\ conn' = [conn EXCEPT ![l] = cb[2]]
      BY <1>10, <2>4, <3>2, Constants DEF execute_cb, ThreadsType
    <3>3. QED
      BY <2>1, <2>4, <3>1, <3>2 DEF cb
  <2>6. QED
    BY <1>10, <2>2, <2>3, <2>5 DEF execute_cb, conns, timer
<1>11. ASSUME NEW l \in Loops, execute_cbs_done(l)
       PROVE  TypeInv'
  <2>1. ThreadsType'
    BY <1>11, Constants
       DEF execute_cbs_done, Jump, locals, Goto, ThreadsType, Places, Resting
  <2>2. QED
    BY <1>11, <2>1
       DEF execute_cbs_done, Jump, conns, epoll, timer, locals, Goto, Running
<1>12. ASSUME NEW l \in Loops, do_read_message(l)
       PROVE  TypeInv'
  <2>1. ThreadsType'
    BY <1>12, Constants
       DEF do_read_message, locals, Goto, ThreadsType, Places, Resting
  <2>2. PICK c \in Conns : inbox[c] > 0 /\ inbox' = [inbox EXCEPT ![c] = @ - 1]
    <3>1. sock[tc_fd[conn[l]]] \in Conns
      BY <1>12 DEF do_read_message, OpenFd, Open, KernelType
    <3>2. QED
      BY <1>12, <3>1 DEF do_read_message
  <2>3. KernelType'
    <3>1. UNCHANGED <<nofile, backlog, sock, sent, eof>>
      BY <1>12 DEF do_read_message
    <3>2. inbox' \in [Conns -> Int]
            /\ \A d \in Conns : inbox'[d] = IF d = c THEN inbox[d] - 1 ELSE inbox[d]
      BY <2>2 DEF KernelType
    <3>3. \A d \in Conns : /\ inbox[d] \in 0..MaxMsgs /\ sent[d] \in 0..MaxMsgs
                           /\ inbox[d] <= sent[d]
      BY DEF KernelType
    <3>4. \A d \in Conns : inbox'[d] \in 0..MaxMsgs /\ inbox'[d] <= sent[d]
      BY <2>2, <3>2, <3>3, ServerAssumption
    <3>5. inbox' \in [Conns -> 0..MaxMsgs]
      BY <3>2, <3>4
    <3>6. QED
      BY <3>1, <3>4, <3>5 DEF KernelType
  <2>4. QED
    BY <1>12, <2>1, <2>3
       DEF do_read_message, conns, epoll, timer, locals, Goto, Running
<1>13. ASSUME NEW l \in Loops, do_read_close(l) \/ do_write_close(l)
       PROVE  TypeInv'
  <2>1. ThreadsType'
    BY <1>13, Constants DEF do_read_close, do_write_close, Jump, locals, Goto,
                            ThreadsType, Places, Resting
  <2>2. QED
    BY <1>13, <2>1 DEF do_read_close, do_write_close, Jump, conns, epoll, timer,
                       locals, Goto, Running
<1>14. ASSUME NEW l \in Loops, cancel(l)
       PROVE  TypeInv'
  <2>1. ThreadsType'
    BY <1>14, Constants DEF cancel, locals, Goto, ThreadsType, Places, Resting
  <2>2. TimersType'
    BY <1>14 DEF cancel, conns, locals, TimersType, Ids
  <2>3. QED
    BY <1>14, <2>1, <2>2 DEF cancel, conns, epoll, locals, Goto, Running
<1>15. ASSUME NEW l \in Loops, send(l)
       PROVE  TypeInv'
  <2>1. ThreadsType'
    BY <1>15, Constants DEF send, Goto, ThreadsType, Places, Resting
  <2>2. conn[l] \in Conns /\ tc_fd[conn[l]] \in Watchable
    BY <1>15, Constants DEF send, Goto, ThreadsType, Resting, ConnsType
  <2>3. ConnsType'
    BY <1>15, <2>2 DEF send, ConnsType
  <2>4. PollersType'
    <3>1. epoll_add(poller[l], Open, tc_fd[conn[l]], EPOLLOUT, conn[l])
            \in PollerType(Conns)
      BY <2>2, AddType, OpenFds DEF PollersType
    <3>2. QED
      BY <1>15, <3>1 DEF send, PollersType
  <2>5. QED
    BY <1>15, <2>1, <2>3, <2>4 DEF send, timer, Goto, Running
<1>16. ASSUME NEW l \in Loops, do_write(l)
       PROVE  TypeInv'
  <2>1. ThreadsType'
    BY <1>16, Constants DEF do_write, Goto, ThreadsType, Places, Resting
  <2>2. conn[l] \in Conns /\ tc_fd[conn[l]] \in Watchable
    BY <1>16, Constants DEF do_write, Goto, ThreadsType, Resting, ConnsType
  <2>3. ConnsType'
    BY <1>16 DEF do_write, ConnsType
  <2>4. PollersType'
    <3>1. epoll_del_event(poller[l], Open, tc_fd[conn[l]], EPOLLOUT)
            \in PollerType(Conns)
      BY <2>2, DelEventType, OpenFds DEF PollersType
    <3>2. QED
      BY <1>16, <3>1 DEF do_write, PollersType
  <2>5. QED
    BY <1>16, <2>1, <2>3, <2>4 DEF do_write, timer, Goto, Running
<1>17. ASSUME NEW l \in Loops, do_write_part(l)
       PROVE  TypeInv'
  <2>1. ThreadsType'
    BY <1>17, Constants DEF do_write_part, Goto, ThreadsType, Places, Resting
  <2>2. QED
    BY <1>17, <2>1 DEF do_write_part, conns, epoll, timer, Goto, Running
<1>18. ASSUME NEW t \in Threads, close_del(t)
       PROVE  TypeInv'
  <2>1. ThreadsType'
    BY <1>18 DEF close_del, locals, Goto, ThreadsType, Places, Resting
  <2>2. tc_fd[conn[t]] \in Watchable
    BY <1>18 DEF close_del, Goto, ThreadsType, Resting, ConnsType
  <2>3. PollersType'
    BY <1>18, <2>2, DelType DEF close_del, PollersType
  <2>4. QED
    BY <1>18, <2>1, <2>3 DEF close_del, conns, timer, locals, Goto, Running
<1>19. ASSUME NEW t \in Threads, close_read(t)
       PROVE  TypeInv'
  <2>1. tc_fd[conn[t]] \in Watchable
    BY <1>19 DEF close_read, Goto, ThreadsType, Resting, ConnsType
  <2>2. ThreadsType'
    BY <1>19, <2>1 DEF close_read, Goto, ThreadsType, Places, Resting
  <2>3. ConnsType'
    BY <1>19 DEF close_read, ConnsType
  <2>4. QED
    BY <1>19, <2>2, <2>3 DEF close_read, epoll, timer, Goto, Running
<1>20. ASSUME NEW t \in Threads, close_fd(t)
       PROVE  TypeInv'
  <2>1. ThreadsType'
    BY <1>20, Constants DEF close_fd, Goto, ThreadsType, Places, Resting
  <2>2. ConnsType'
    BY <1>20, Constants DEF close_fd, ConnsType
  <2>3. KernelType'
    BY <1>20 DEF close_fd, KernelType
  <2>4. PollersType'
    <3>1. CASE fd[t] \in Fds
      BY <1>20, <3>1, CloseType DEF close_fd, PollersType
    <3>2. CASE fd[t] \notin Fds
      BY <1>20, <3>2 DEF close_fd
    <3>3. QED
      BY <3>1, <3>2
  <2>5. QED
    BY <1>20, <2>1, <2>2, <2>3, <2>4 DEF close_fd, timer, Goto, Running
<1>21. ASSUME NEW t \in Threads, do_clean(t)
       PROVE  TypeInv'
  <2>1. ThreadsType'
    BY <1>21 DEF do_clean, Goto, ThreadsType, Places, Resting
  <2>2. ServerType'
    BY <1>21, RemoveFirstSeq DEF do_clean, ServerType
  <2>3. QED
    BY <1>21, <2>1, <2>2 DEF do_clean, conns, epoll, timer, Goto, Running
<1>22. CASE expire
  <2>1. /\ Head(timers) \in Ids \X Conns /\ timers' \in Seq(Ids \X Conns)
        /\ Head(timers)[2] \in Conns
    BY <1>22, HeadTailProperties DEF expire, TimersType
  <2>2. due' \in Seq(Conns)
    BY <1>22, <2>1 DEF expire, TimersType
  <2>3. TimersType'
    BY <1>22, <2>1, <2>2 DEF expire, conns, locals, TimersType, Ids
  <2>4. QED
    BY <1>22, <2>3 DEF expire, conns, epoll, locals, Running
<1>23. ASSUME NEW p \in Pool, active_close(p)
       PROVE  TypeInv'
  <2>1. Head(due) \in Conns /\ due' \in Seq(Conns)
    BY <1>23 DEF active_close, TimersType
  <2>2. ThreadsType'
    BY <1>23, <2>1, Constants DEF active_close, Goto, ThreadsType, Places, Resting
  <2>3. TimersType'
    BY <1>23, <2>1 DEF active_close, conns, TimersType, Ids
  <2>4. QED
    BY <1>23, <2>2, <2>3 DEF active_close, conns, epoll, Goto, Running
<1>24. CASE UNCHANGED vars
  BY <1>24 DEF vars, conns, epoll, locals
<1>25. QED
  BY <1>1, <1>2, <1>3, <1>4, <1>5, <1>6, <1>7, <1>8, <1>9, <1>10, <1>11,
     <1>12, <1>13, <1>14, <1>15, <1>16, <1>17, <1>18, <1>19, <1>20, <1>21,
     <1>22, <1>23, <1>24, Constants
     DEF Next, MainStep, LoopStep, PoolStep, do_close

LEMMA TypeInvHolds == Spec => []TypeInv
  BY InitTypeInv, NextTypeInv, PTL DEF Spec

(* The state of a server stays well formed; what a callback works on is    *)
(* always a connection, and a descriptor variable holds one or -1.         *)
THEOREM TypeCorrect == Spec => []TypeOK
  BY TypeInvHolds, TypeInvTypeOK, PTL


-----------------------------------------------------------------------------
(* An id stands for one connection: the timer that a connection's id, or an*)
(* id about to be stored in it, names is that connection's own.            *)
IdsOwned ==
    \A k \in 1..Len(timers) :
        /\ \A c \in Conns : timers[k][1] = tc_timer_id[c] => timers[k][2] = c
        /\ \A t \in Threads :
             pc[t] = "set_id" /\ timers[k][1] = id[t] => timers[k][2] = conn[t]

EvictInv == IdsOwned /\ EvictionArmed

OnItsWay == {"add_poller", "arm", "close_del", "close_read", "close_fd"}
Handled(c) == \E t \in Threads : conn[t] = c /\ pc[t] \in OnItsWay
Covered(c) == Armed(c) # {} \/ c \in Range(due) \/ Handled(c)

LEMMA ArmedIs ==
    TypeInv => \A c : Armed(c) # {} <=> \E k \in 1..Len(timers) :
                          timers[k][2] = c /\ timers[k][1] \in running
<1> SUFFICES ASSUME TypeInv, NEW c
             PROVE  Armed(c) # {} <=> \E k \in 1..Len(timers) :
                        timers[k][2] = c /\ timers[k][1] \in running
  OBVIOUS
<1>1. \A k \in 1..Len(timers) : timers[k] \in Ids \X Conns
  BY DEF TypeInv, TimersType
<1>2. QED
  BY <1>1 DEF Armed

(* Most steps touch neither timers nor their ids, and leave a thread that  *)
(* is about to arm or to close where it is or take it one step further.    *)
LEMMA EvictFrame ==
    ASSUME TypeInv, EvictInv, TypeInv',
           UNCHANGED <<timers, running, due, tc_timer_id>>,
           \A c \in Conns : tc_fd'[c] # Closed => tc_fd[c] # Closed \/ Handled(c)',
           \A t \in Threads :
             pc[t] \in OnItsWay /\ tc_fd'[conn[t]] # Closed =>
                 pc'[t] \in OnItsWay /\ conn'[t] = conn[t],
           \A t \in Threads :
             pc'[t] = "set_id" => pc[t] = "set_id" /\ id'[t] = id[t]
                                    /\ conn'[t] = conn[t]
    PROVE  EvictInv'
<1>1. IdsOwned'
  BY DEF EvictInv, IdsOwned
<1>2. ASSUME NEW c \in Conns, tc_fd'[c] # Closed
      PROVE  Covered(c)'
  <2>1. CASE Handled(c)'
    BY <2>1 DEF Covered
  <2>2. CASE tc_fd[c] # Closed
    <3>1. Covered(c)
      BY <2>2 DEF EvictInv, EvictionArmed, IsOpen, Covered, Handled, OnItsWay
    <3>2. Armed(c) # {} => Armed(c)' # {}
      BY DEF Armed
    <3>3. c \in Range(due) => c \in Range(due)'
      OBVIOUS
    <3>4. Handled(c) => Handled(c)'
      BY <1>2 DEF Handled
    <3>5. QED
      BY <3>1, <3>2, <3>3, <3>4 DEF Covered
  <2>3. QED
    BY <1>2, <2>1, <2>2
<1>3. EvictionArmed'
  BY <1>2 DEF EvictionArmed, IsOpen, Covered, Handled, OnItsWay
<1>4. QED
  BY <1>1, <1>3 DEF EvictInv

LEMMA NextEvict ==
    TypeInv /\ TypeInv' /\ EvictInv /\ [Next]_vars => EvictInv'
<1> SUFFICES ASSUME TypeInv, TypeInv', EvictInv, [Next]_vars
             PROVE  EvictInv'
  OBVIOUS
<1>0. /\ pc \in [Threads -> Places] /\ conn \in [Threads -> Conns \cup {None}]
      /\ tc_fd \in [Conns -> Watchable] /\ id \in [Threads -> Ids \cup {-1}]
      /\ \A t \in Threads : pc[t] \in OnItsWay \cup {"set_id", "cancel"}
                              => conn[t] \in Conns
  BY DEF TypeInv, ThreadsType, ConnsType, TimersType, OnItsWay, Resting, Watchable
<1>c. Loops \subseteq Threads /\ Pool \subseteq Threads /\ Main \in Threads
  BY Constants
<1>a. (\A c : Armed(c) # {} <=> \E k \in 1..Len(timers) :
                  timers[k][2] = c /\ timers[k][1] \in running)'
  BY ArmedIs, PTL
<1> USE DEF OnItsWay
<1>1. ASSUME NEW c \in Conns, connect(c) \/ client_send(c) \/ client_close(c)
      PROVE  EvictInv'
  BY <1>1, EvictFrame DEF connect, client_send, client_close, conns, timer, locals
<1>2. CASE accept
  <2>1. PICK d, f :
           /\ tc_fd' = [tc_fd EXCEPT ![d] = f]
           /\ conn' = [conn EXCEPT ![Main] = d]
           /\ pc' = [pc EXCEPT ![Main] = "add_poller"] /\ pc[Main] = "accept"
           /\ UNCHANGED <<tc_timer_id, timers, running, due, id>>
    BY <1>2 DEF accept, Goto, timer
  <2>2. Handled(d)'
    BY <1>0, <1>c, <2>1 DEF Handled
  <2>3. QED
    BY <1>0, <1>c, <2>1, <2>2, EvictFrame
<1>3. CASE accept_emfile \/ accept_idle
  BY <1>0, <1>c, <1>3, EvictFrame
     DEF accept_emfile, accept_idle, Goto, conns, timer, locals
<1>4. CASE add_task
  BY <1>0, <1>c, <1>4, EvictFrame DEF add_task, Goto, conns, timer, locals
<1>5. ASSUME NEW t \in Threads, arm(t)
      PROVE  EvictInv'
  <2>1. /\ pc[t] = "arm" /\ pc' = [pc EXCEPT ![t] = "set_id"]
        /\ timers' = Append(timers, <<next_id, conn[t]>>)
        /\ running' = running \cup {next_id}
        /\ id' = [id EXCEPT ![t] = next_id]
        /\ UNCHANGED <<tc_fd, tc_timer_id, due, conn>>
    BY <1>5 DEF arm, Goto, conns
  <2>2. /\ Len(timers) \in Nat /\ Len(timers') = Len(timers) + 1
        /\ \A k \in 1..Len(timers) : timers'[k] = timers[k]
        /\ timers'[Len(timers) + 1] = <<next_id, conn[t]>>
        /\ Len(timers) + 1 \in 1..Len(timers')
    BY <2>1 DEF TypeInv, TimersType
  <2>3. /\ \A k \in 1..Len(timers) : timers[k][1] # next_id
        /\ \A c \in Conns : tc_timer_id[c] # next_id
        /\ \A v \in Threads : id[v] # next_id
    <3>1. next_id \in Nat /\ next_id \notin Ids /\ next_id # -1
      BY DEF TypeInv, TimersType, Ids
    <3>2. \A k \in 1..Len(timers) : timers[k] \in Ids \X Conns
      BY DEF TypeInv, TimersType
    <3>3. \A k \in 1..Len(timers) : timers[k][1] # next_id
      BY <3>1, <3>2
    <3>4. /\ \A c \in Conns : tc_timer_id[c] # next_id
          /\ \A v \in Threads : id[v] # next_id
      BY <3>1 DEF TypeInv, TimersType
    <3>5. QED
      BY <3>3, <3>4
  <2>4. ASSUME NEW k \in 1..Len(timers')
        PROVE  /\ \A c \in Conns :
                    timers'[k][1] = tc_timer_id'[c] => timers'[k][2] = c
               /\ \A v \in Threads :
                    pc'[v] = "set_id" /\ timers'[k][1] = id'[v] =>
                        timers'[k][2] = conn'[v]
    <3>1. CASE k \in 1..Len(timers)
      BY <1>0, <2>1, <2>2, <2>3, <3>1 DEF EvictInv, IdsOwned
    <3>2. CASE k = Len(timers) + 1
      BY <1>0, <2>1, <2>2, <2>3, <3>2
    <3>3. QED
      BY <2>2, <3>1, <3>2
  <2>5. IdsOwned'
    BY <2>4 DEF IdsOwned
  <2>6. ASSUME NEW c \in Conns, tc_fd'[c] # Closed
        PROVE  Covered(c)'
    <3>1. CASE conn[t] = c
      <4>1. timers'[Len(timers) + 1][2] = c
             /\ timers'[Len(timers) + 1][1] \in running'
        BY <2>1, <2>2, <3>1
      <4>2. (Armed(c) # {})'
        BY <2>2, <4>1, <1>a
      <4>3. QED
        BY <4>2 DEF Covered
    <3>2. CASE conn[t] # c
      <4>1. Covered(c)
        BY <2>1, <2>6 DEF EvictInv, EvictionArmed, IsOpen, Covered, Handled
      <4>2. Armed(c) # {} => (Armed(c) # {})'
        BY <2>1, <2>2 DEF Armed
      <4>3. Handled(c) => Handled(c)'
        BY <1>0, <2>1, <3>2 DEF Handled
      <4>4. QED
        BY <2>1, <4>1, <4>2, <4>3 DEF Covered
    <3>3. QED
      BY <3>1, <3>2
  <2>7. QED
    BY <2>5, <2>6 DEF EvictInv, EvictionArmed, IsOpen, Covered, Handled
<1>6. ASSUME NEW t \in Threads, set_id(t)
      PROVE  EvictInv'
  <2>1. /\ pc[t] = "set_id" /\ pc'[t] \in {"accept", "send"}
        /\ \A v \in Threads \ {t} : pc'[v] = pc[v] /\ conn'[v] = conn[v]
                                      /\ id'[v] = id[v]
        /\ tc_timer_id' = [tc_timer_id EXCEPT ![conn[t]] = id[t]]
        /\ UNCHANGED <<tc_fd, timers, running, due>>
    BY <1>0, <1>6 DEF set_id, Goto, timer
  <2>2. tc_timer_id \in [Conns -> Ids \cup {-1}]
    BY DEF TypeInv, TimersType
  <2>3. IdsOwned'
    BY <1>0, <2>1, <2>2 DEF EvictInv, IdsOwned
  <2>4. ASSUME NEW c \in Conns, tc_fd'[c] # Closed
        PROVE  Covered(c)'
    <3>1. Covered(c)
      BY <2>1, <2>4 DEF EvictInv, EvictionArmed, IsOpen, Covered, Handled
    <3>2. Armed(c) # {} => Armed(c)' # {}
      BY <2>1 DEF Armed
    <3>3. Handled(c) => Handled(c)'
      BY <2>1 DEF Handled
    <3>4. QED
      BY <2>1, <3>1, <3>2, <3>3 DEF Covered
  <2>5. QED
    BY <2>3, <2>4 DEF EvictInv, EvictionArmed, IsOpen, Covered, Handled
<1>7. ASSUME NEW l \in Loops, poll(l) \/ execute_cbs_done(l) \/ do_read_message(l)
                                \/ do_read_close(l) \/ do_write_close(l)
      PROVE  EvictInv'
  BY <1>0, <1>c, <1>7, EvictFrame
     DEF poll, execute_cbs_done, do_read_message, do_read_close, do_write_close,
         Jump, Goto, conns, timer, locals
<1>8. ASSUME NEW l \in Loops, execute_cb(l)
      PROVE  EvictInv'
  <2>1. /\ pc[l] = "dispatch"
        /\ \A t \in Threads \ {l} : pc'[t] = pc[t] /\ conn'[t] = conn[t]
        /\ pc'[l] # "set_id"
        /\ UNCHANGED <<tc_fd, tc_timer_id, timers, running, due, id>>
    BY <1>0, <1>c, <1>8 DEF execute_cb, Callback, conns, timer
  <2>2. QED
    BY <2>1, <1>0, <1>c, EvictFrame
<1>9. ASSUME NEW l \in Loops, send(l) \/ do_write_part(l) \/ do_write(l)
      PROVE  EvictInv'
  <2>1. /\ pc[l] \in {"send", "write"} /\ pc'[l] = "dispatch"
        /\ \A t \in Threads \ {l} : pc'[t] = pc[t] /\ conn'[t] = conn[t]
        /\ UNCHANGED <<tc_fd, tc_timer_id, timers, running, due, id>>
    BY <1>0, <1>c, <1>9 DEF send, do_write_part, do_write, Goto, conns, timer
  <2>2. QED
    BY <2>1, <1>0, <1>c, EvictFrame
<1>10. ASSUME NEW l \in Loops, cancel(l)
       PROVE  EvictInv'
  <2>1. /\ pc[l] = "cancel" /\ pc' = [pc EXCEPT ![l] = "arm"]
        /\ running' = running \ {tc_timer_id[conn[l]]}
        /\ UNCHANGED <<tc_fd, tc_timer_id, timers, due, conn, id>>
    BY <1>10 DEF cancel, Goto, conns, locals
  <2>2. IdsOwned'
    BY <1>0, <1>c, <2>1 DEF EvictInv, IdsOwned
  <2>3. ASSUME NEW c \in Conns, tc_fd'[c] # Closed
        PROVE  Covered(c)'
    <3>1. Covered(c)
      BY <2>1, <2>3 DEF EvictInv, EvictionArmed, IsOpen, Covered, Handled
    <3>2. CASE conn[l] = c
      <4>1. Handled(c)'
        BY <1>0, <1>c, <2>1, <3>2 DEF Handled
      <4>2. QED
        BY <4>1 DEF Covered
    <3>3. CASE conn[l] # c
      <4>1. ASSUME NEW k \in 1..Len(timers), timers[k][2] = c
            PROVE  timers[k][1] # tc_timer_id[conn[l]]
        <5>1. conn[l] \in Conns
          BY <1>0, <1>c, <2>1
        <5>2. QED
          BY <3>3, <4>1, <5>1 DEF EvictInv, IdsOwned
      <4>2. Armed(c) # {} => (Armed(c) # {})'
        BY <2>1, <4>1, ArmedIs, <1>a
      <4>3. Handled(c) => Handled(c)'
        BY <1>0, <2>1 DEF Handled
      <4>4. QED
        BY <2>1, <3>1, <4>2, <4>3 DEF Covered
    <3>4. QED
      BY <3>2, <3>3
  <2>4. QED
    BY <2>2, <2>3 DEF EvictInv, EvictionArmed, IsOpen, Covered, Handled
<1>11. ASSUME NEW t \in Threads, close_del(t) \/ close_read(t)
       PROVE  EvictInv'
  BY <1>0, <1>11, EvictFrame
     DEF close_del, close_read, Goto, conns, timer, locals
<1>12. ASSUME NEW t \in Threads, close_fd(t)
       PROVE  EvictInv'
  <2>1. /\ pc[t] = "close_fd" /\ pc' = [pc EXCEPT ![t] = "clean"]
        /\ tc_fd' = [tc_fd EXCEPT ![conn[t]] = Closed]
        /\ UNCHANGED <<tc_timer_id, timers, running, due, conn, id>>
    BY <1>12 DEF close_fd, Goto, timer
  <2>2. QED
    BY <1>0, <2>1, EvictFrame
<1>13. ASSUME NEW t \in Threads, do_clean(t)
       PROVE  EvictInv'
  <2>1. /\ pc[t] = "clean" /\ pc'[t] \in {"idle", "dispatch"}
        /\ \A v \in Threads \ {t} : pc'[v] = pc[v] /\ conn'[v] = conn[v]
        /\ UNCHANGED <<tc_fd, tc_timer_id, timers, running, due, id>>
    BY <1>0, <1>13 DEF do_clean, Goto, conns, timer
  <2>2. QED
    BY <1>0, <2>1, EvictFrame
<1>14. CASE expire
  <2>1. /\ timers # <<>> /\ timers' = Tail(timers)
        /\ due' = IF Head(timers)[1] \in running
                  THEN Append(due, Head(timers)[2]) ELSE due
        /\ UNCHANGED <<tc_fd, tc_timer_id, running, pc, conn, id>>
    BY <1>14 DEF expire, conns, locals
  <2>2. /\ Len(timers) \in Nat /\ Len(timers') = Len(timers) - 1
        /\ Head(timers) = timers[1] /\ timers[1] \in Ids \X Conns
        /\ \A k \in 1..Len(timers') :
             timers'[k] = timers[k + 1] /\ k + 1 \in 1..Len(timers)
        /\ \A k \in 1..Len(timers) :
             k # 1 => k - 1 \in 1..Len(timers') /\ timers'[k - 1] = timers[k]
    BY <2>1, HeadTailProperties DEF TypeInv, TimersType
  <2>3. IdsOwned'
    BY <2>1, <2>2 DEF EvictInv, IdsOwned
  <2>4. /\ Range(due) \subseteq Range(due')
        /\ timers[1][1] \in running => timers[1][2] \in Range(due')
    <3>1. due \in Seq(Conns) /\ timers[1][2] \in Conns
      BY <2>2 DEF TypeInv, TimersType
    <3>2. QED
      BY <2>1, <2>2, <3>1, RangeAppend
  <2>5. ASSUME NEW c \in Conns, tc_fd'[c] # Closed
        PROVE  Covered(c)'
    <3>1. Covered(c)
      BY <2>1, <2>5 DEF EvictInv, EvictionArmed, IsOpen, Covered, Handled
    <3>2. Armed(c) # {} => (Armed(c) # {})' \/ c \in Range(due')
      <4>1. SUFFICES ASSUME NEW k \in 1..Len(timers), timers[k][2] = c,
                            timers[k][1] \in running
                     PROVE  (Armed(c) # {})' \/ c \in Range(due')
        BY ArmedIs
      <4>2. CASE k = 1
        BY <2>4, <4>1, <4>2
      <4>3. CASE k # 1
        <5>1. k - 1 \in 1..Len(timers') /\ timers'[k - 1] = timers[k]
          BY <2>2, <4>3
        <5>2. timers'[k - 1][2] = c /\ timers'[k - 1][1] \in running'
          BY <2>1, <4>1, <5>1
        <5>3. QED
          BY <1>a, <5>1, <5>2
      <4>4. QED
        BY <4>2, <4>3
    <3>3. Handled(c) => Handled(c)'
      BY <2>1 DEF Handled
    <3>4. QED
      BY <2>4, <3>1, <3>2, <3>3 DEF Covered
  <2>6. QED
    BY <2>3, <2>5 DEF EvictInv, EvictionArmed, IsOpen, Covered, Handled
<1>15. ASSUME NEW p \in Pool, active_close(p)
       PROVE  EvictInv'
  <2>1. /\ due # <<>> /\ due' = Tail(due) /\ pc[p] = "idle"
        /\ pc' = [pc EXCEPT ![p] = "close_del"]
        /\ conn' = [conn EXCEPT ![p] = Head(due)]
        /\ UNCHANGED <<tc_fd, tc_timer_id, timers, running, id>>
    BY <1>15 DEF active_close, Goto, conns
  <2>2. IdsOwned'
    BY <1>0, <1>c, <2>1 DEF EvictInv, IdsOwned
  <2>3. \A c \in Range(due) : c = Head(due) \/ c \in Range(due')
    BY <2>1, RangeTail DEF TypeInv, TimersType
  <2>4. ASSUME NEW c \in Conns, tc_fd'[c] # Closed
        PROVE  Covered(c)'
    <3>1. Covered(c)
      BY <2>1, <2>4 DEF EvictInv, EvictionArmed, IsOpen, Covered, Handled
    <3>2. Armed(c) # {} => Armed(c)' # {}
      BY <2>1 DEF Armed
    <3>3. c \in Range(due) => Handled(c)' \/ c \in Range(due')
      BY <1>0, <1>c, <2>1, <2>3 DEF Handled
    <3>4. Handled(c) => Handled(c)'
      BY <1>0, <1>c, <2>1 DEF Handled
    <3>5. QED
      BY <3>1, <3>2, <3>3, <3>4 DEF Covered
  <2>5. QED
    BY <2>2, <2>4 DEF EvictInv, EvictionArmed, IsOpen, Covered, Handled
<1>16. CASE UNCHANGED vars
  BY <1>16, EvictFrame DEF vars, conns, timer, locals
<1>17. QED
  BY <1>1, <1>2, <1>3, <1>4, <1>5, <1>6, <1>7, <1>8, <1>9, <1>10, <1>11,
     <1>12, <1>13, <1>14, <1>15, <1>16, <1>c
     DEF Next, MainStep, LoopStep, PoolStep, do_close

(* However messages, the acceptor, expiring timers and evictions interleave*)
(* - two evictions of one connection and a close by its loop included - no *)
(* connection stays open without a timer, an eviction or a thread about to *)
(* provide for it.                                                         *)
THEOREM NoneEscapes == Spec => []EvictionArmed
<1>1. Init => EvictInv
  BY DEF Init, EvictInv, IdsOwned, EvictionArmed, IsOpen
<1>2. EvictInv => EvictionArmed
  BY DEF EvictInv
<1>3. QED
  BY <1>1, <1>2, TypeInvHolds, NextEvict, PTL DEF Spec

-----------------------------------------------------------------------------
(* The life of connections while no timeout expires.  What loop l believes *)
(* of descriptor f, and what the kernel watches for it:                    *)
Event(l, f)    == poller[l].ep_event_map[f].event
ReadCb(l, f)   == poller[l].ep_event_map[f].read_callback
WriteCb(l, f)  == poller[l].ep_event_map[f].write_callback
Interest(l, f) == poller[l].interest[f]

NobodyEvicts ==
    /\ Len(timers) <= next_id
    /\ due = <<>>
    /\ \A p \in Pool : pc[p] = "idle"

(* A waiting connection is new and waits once.                             *)
Waiting ==
    /\ \A i, j \in 1..Len(backlog) : backlog[i] = backlog[j] => i = j
    /\ \A i \in 1..Len(backlog) : tc_loop[backlog[i]] = None
    /\ \A c \in Conns : tc_loop[c] = None => tc_fd[c] = Closed /\ c \notin tc_obuf

(* ep_event_map has, for a descriptor, the callbacks of the connection that*)
(* holds it; what it has no event for it has not at all; and the kernel    *)
(* watches what the map says.                                              *)
Agrees(l, f) ==
    /\ Interest(l, f) = Event(l, f)
    /\ Event(l, f) = {} => ReadCb(l, f) = None /\ WriteCb(l, f) = None
    /\ Event(l, f) # {} =>
         /\ EPOLLIN \in Event(l, f)
         /\ ReadCb(l, f) \in Conns
         /\ tc_loop[ReadCb(l, f)] = l /\ tc_fd[ReadCb(l, f)] = f
         /\ WriteCb(l, f) \in {None, ReadCb(l, f)}
MapsAgree == \A l \in Loops, f \in Fds : Agrees(l, f)

(* A loop serves its own connections.  The one it works on is in its poller*)
(* until it is taken out to be closed, and its descriptor is closed once.  *)
(* Reported events are of watched descriptors, one for each, and none is   *)
(* left for the connection being served.                                   *)
Between == {"poll", "dispatch"}
Serving == {"read", "write", "cancel", "arm", "set_id", "send", "close_del"}
Stage(l) ==
    /\ pc[l] \in Between \cup Serving \cup {"close_read", "close_fd", "clean"}
    /\ pc[l] \in Between => conn[l] = None
    /\ pc[l] \notin Between => tc_loop[conn[l]] = l
    /\ pc[l] \in Serving =>
         tc_fd[conn[l]] \in Fds /\ Event(l, tc_fd[conn[l]]) # {}
    /\ pc[l] \in {"close_read", "close_fd"} =>
         tc_fd[conn[l]] \in Fds /\ Event(l, tc_fd[conn[l]]) = {}
    /\ pc[l] = "close_fd" => fd[l] = tc_fd[conn[l]]
    /\ pc[l] = "clean" => tc_fd[conn[l]] = Closed
Reported(l) ==
    /\ pc[l] = "poll" => ep_events[l] = {}
    /\ \A ev \in ep_events[l] :
         /\ Event(l, ev[1]) # {}
         /\ pc[l] \notin Between => ev[1] # tc_fd[conn[l]]
         /\ \A other \in ep_events[l] : other[1] = ev[1] => other = ev
LoopOK(l) == Stage(l) /\ Reported(l)

(* A connection the acceptor has not yet handed over is in no other hands. *)
Accepting ==
    /\ pc[Main] \in {"accept", "emfile", "add_poller", "arm", "set_id"}
    /\ pc[Main] = "add_poller" =>
         /\ tc_loop[conn[Main]] \in Loops /\ tc_fd[conn[Main]] \in Fds
         /\ Event(tc_loop[conn[Main]], tc_fd[conn[Main]]) = {}
         /\ \A l \in Loops : conn[l] # conn[Main]

(* A reply is watched for, in the map and so in the kernel.                *)
Replies ==
    \A c \in tc_obuf :
        /\ tc_loop[c] \in Loops
        /\ \/ tc_fd[c] \in Fds /\ EPOLLOUT \in Event(tc_loop[c], tc_fd[c])
           \/ conn[tc_loop[c]] = c /\ pc[tc_loop[c]] = "close_read"

CalmInv ==
    /\ NobodyEvicts /\ Waiting /\ OwnSocket /\ MapsAgree
    /\ \A l \in Loops : LoopOK(l)
    /\ Accepting /\ Replies /\ DispatchFindsEntry

-----------------------------------------------------------------------------
(* What Epoll's operations do when the kernel watches what the map says.   *)
LEMMA AddIs ==
    ASSUME NEW ep \in PollerType(Conns), NEW f \in Fds,
           NEW open \in SUBSET Fds, NEW e \in {EPOLLIN, EPOLLOUT},
           NEW c \in Conns, f \in open, ep.interest[f] = ep.ep_event_map[f].event
    PROVE  LET new == epoll_add(ep, open, f, e, c)
               all == ep.ep_event_map[f].event \cup {e}
           IN  /\ \A g \in Fds \ {f} :
                    /\ new.ep_event_map[g] = ep.ep_event_map[g]
                    /\ new.interest[g] = ep.interest[g]
               /\ new.ep_event_map[f].event = all /\ new.interest[f] = all
               /\ new.ep_event_map[f].read_callback =
                    IF e = EPOLLIN THEN c ELSE ep.ep_event_map[f].read_callback
               /\ new.ep_event_map[f].write_callback =
                    IF e = EPOLLOUT THEN c ELSE ep.ep_event_map[f].write_callback
<1> DEFINE old == ep.ep_event_map[f]
           all == old.event \cup {e}
           entry == [event |-> all,
                     read_callback |-> IF e = EPOLLIN THEN c
                                       ELSE old.read_callback,
                     write_callback |-> IF e = EPOLLOUT THEN c
                                        ELSE old.write_callback]
           map == [ep.ep_event_map EXCEPT ![f] = entry]
           interest == [ep.interest EXCEPT ![f] = all]
<1>1. /\ ep.ep_event_map \in [Watchable -> io_event(Conns)]
      /\ ep.interest \in [Fds -> SUBSET {EPOLLIN, EPOLLOUT}]
      /\ Fds \subseteq Watchable
  BY DEF PollerType, Watchable
<1>2. epoll_ctl(ep.interest, open, OpFor(ep, f), f, all) = interest
  BY DEF epoll_ctl, OpFor, Known
<1>3. epoll_add(ep, open, f, e, c)
        = [ep_event_map |-> map, interest |-> interest]
  BY <1>2 DEF epoll_add
<1>4. map[f] = entry /\ \A g \in Fds \ {f} : map[g] = ep.ep_event_map[g]
  BY <1>1
<1>5. interest[f] = all /\ \A g \in Fds \ {f} : interest[g] = ep.interest[g]
  BY <1>1
<1> HIDE DEF map, interest
<1>6. QED
  BY <1>3, <1>4, <1>5

LEMMA DelIs ==
    ASSUME NEW ep \in PollerType(Conns), NEW f \in Fds
    PROVE  LET new == epoll_del(ep, f)
           IN  /\ \A g \in Fds \ {f} :
                    /\ new.ep_event_map[g] = ep.ep_event_map[g]
                    /\ new.interest[g] = ep.interest[g]
               /\ new.ep_event_map[f].event = {} /\ new.interest[f] = {}
               /\ new.ep_event_map[f].read_callback = None
               /\ new.ep_event_map[f].write_callback = None
<1> DEFINE map == [ep.ep_event_map EXCEPT ![f] = NoEvent]
           interest == [ep.interest EXCEPT ![f] = {}]
<1>1. /\ ep.ep_event_map \in [Watchable -> io_event(Conns)]
      /\ ep.interest \in [Fds -> SUBSET {EPOLLIN, EPOLLOUT}]
      /\ Fds \subseteq Watchable
  BY DEF PollerType, Watchable
<1>2. epoll_del(ep, f) = [ep_event_map |-> map, interest |-> interest]
  BY DEF epoll_del
<1>3. map[f] = NoEvent /\ \A g \in Fds \ {f} : map[g] = ep.ep_event_map[g]
  BY <1>1
<1>4. interest[f] = {} /\ \A g \in Fds \ {f} : interest[g] = ep.interest[g]
  BY <1>1
<1> HIDE DEF map, interest
<1>5. QED
  BY <1>2, <1>3, <1>4 DEF NoEvent

LEMMA DelOutIs ==
    ASSUME NEW ep \in PollerType(Conns), NEW f \in Fds,
           NEW open \in SUBSET Fds, f \in open,
           ep.interest[f] = ep.ep_event_map[f].event,
           EPOLLIN \in ep.ep_event_map[f].event
    PROVE  LET new == epoll_del_event(ep, open, f, EPOLLOUT)
               rest == ep.ep_event_map[f].event \ {EPOLLOUT}
           IN  /\ \A g \in Fds \ {f} :
                    /\ new.ep_event_map[g] = ep.ep_event_map[g]
                    /\ new.interest[g] = ep.interest[g]
               /\ new.ep_event_map[f].event = rest /\ new.interest[f] = rest
               /\ new.ep_event_map[f].read_callback =
                    ep.ep_event_map[f].read_callback
               /\ new.ep_event_map[f].write_callback =
                    ep.ep_event_map[f].write_callback
<1> DEFINE old == ep.ep_event_map[f]
           rest == old.event \ {EPOLLOUT}
           entry == [old EXCEPT !.event = rest]
           map == [ep.ep_event_map EXCEPT ![f] = entry]
           interest == [ep.interest EXCEPT ![f] = rest]
<1>1. /\ ep.ep_event_map \in [Watchable -> io_event(Conns)]
      /\ ep.interest \in [Fds -> SUBSET {EPOLLIN, EPOLLOUT}]
      /\ Fds \subseteq Watchable
  BY DEF PollerType, Watchable
<1>2. rest # {} /\ old.event # {}
  BY DEF EPOLLIN, EPOLLOUT
<1>3. epoll_ctl(ep.interest, open, "MOD", f, rest) = interest
  BY <1>2 DEF epoll_ctl
<1>4. epoll_del_event(ep, open, f, EPOLLOUT)
        = [ep_event_map |-> map, interest |-> interest]
  BY <1>2, <1>3 DEF epoll_del_event, Known
<1>5. map[f] = entry /\ \A g \in Fds \ {f} : map[g] = ep.ep_event_map[g]
  BY <1>1
<1>6. interest[f] = rest /\ \A g \in Fds \ {f} : interest[g] = ep.interest[g]
  BY <1>1
<1>7. /\ entry.event = rest /\ entry.read_callback = old.read_callback
      /\ entry.write_callback = old.write_callback
  <2>1. old \in io_event(Conns)
    BY <1>1
  <2>2. QED
    BY <2>1 DEF io_event
<1> HIDE DEF map, interest, entry
<1>8. QED
  BY <1>4, <1>5, <1>6, <1>7

LEMMA CloseIs ==
    ASSUME NEW ep \in PollerType(Conns), NEW f \in Fds
    PROVE  LET new == CloseInKernel(ep, f)
           IN  /\ new.ep_event_map = ep.ep_event_map
               /\ new.interest[f] = {}
               /\ \A g \in Fds \ {f} : new.interest[g] = ep.interest[g]
  BY DEF CloseInKernel, PollerType
-----------------------------------------------------------------------------
(* What a step leaves alone.                                               *)
Untouched(l, f) ==
    /\ Event(l, f)' = Event(l, f) /\ Interest(l, f)' = Interest(l, f)
    /\ ReadCb(l, f)' = ReadCb(l, f) /\ WriteCb(l, f)' = WriteCb(l, f)

OnlyAt(l0, f0) ==
    \A l \in Loops, f \in Fds : l # l0 \/ f # f0 => Untouched(l, f)

LEMMA AllUntouched ==
    poller' = poller => \A l \in Loops, f \in Fds : Untouched(l, f)
  BY DEF Untouched, Event, Interest, ReadCb, WriteCb

(* The loop is where it was, or further on with the same connection, and   *)
(* its descriptors are as they were or, while it is not at them, added.    *)
StaysPut(l) ==
    /\ pc'[l] = pc[l] \/ {pc[l], pc'[l]} \subseteq Serving
    /\ conn'[l] = conn[l] /\ fd'[l] = fd[l] /\ ep_events'[l] = ep_events[l]
    /\ pc[l] \notin Between =>
         /\ tc_fd'[conn[l]] = tc_fd[conn[l]]
         /\ tc_loop'[conn[l]] = tc_loop[conn[l]]
    /\ \A f \in Fds :
         \/ Event(l, f)' = Event(l, f)
         \/ Event(l, f) = {} /\ (pc[l] \notin Between => tc_fd[conn[l]] # f)

LEMMA LoopFrame ==
    ASSUME TypeInv, NEW l \in Loops, LoopOK(l), StaysPut(l)
    PROVE  LoopOK(l)'
<1>1. \A ev \in ep_events[l] : ev[1] \in Fds
  BY DEF TypeInv, EventsType
<1>e. \A f \in Fds : Event(l, f) # {} => Event(l, f)' = Event(l, f)
  BY DEF StaysPut
<1>2. Reported(l)'
  <2>1. /\ Reported(l) /\ ep_events'[l] = ep_events[l] /\ conn'[l] = conn[l]
        /\ pc'[l] = "poll" <=> pc[l] = "poll"
        /\ pc'[l] \in Between <=> pc[l] \in Between
        /\ pc[l] \notin Between => tc_fd'[conn[l]] = tc_fd[conn[l]]
    BY DEF LoopOK, StaysPut, Between, Serving
  <2>2. \A ev \in ep_events'[l] : Event(l, ev[1])' # {}
    BY <1>1, <1>e, <2>1 DEF Reported
  <2>3. QED
    BY <2>1, <2>2 DEF Reported, Event
<1>3. Stage(l)'
  <2>1. Stage(l) /\ conn'[l] = conn[l] /\ fd'[l] = fd[l]
    BY DEF LoopOK, StaysPut
  <2>2. CASE pc[l] \in Between
    <3>1. pc'[l] = pc[l]
      BY <2>2 DEF StaysPut, Between, Serving
    <3>2. QED
      BY <2>1, <2>2, <3>1 DEF Stage, Between, Serving
  <2>3. CASE pc[l] \notin Between
    <3>1. /\ tc_fd'[conn[l]] = tc_fd[conn[l]] /\ tc_loop'[conn[l]] = l
          /\ pc'[l] = pc[l] \/ {pc[l], pc'[l]} \subseteq Serving
      BY <2>1, <2>3 DEF StaysPut, Stage
    <3>2. tc_fd[conn[l]] \in Fds =>
            Event(l, tc_fd[conn[l]])' = Event(l, tc_fd[conn[l]])
      <4>1. tc_fd[conn[l]] \in Fds =>
              poller'[l].ep_event_map[tc_fd[conn[l]]].event
                = Event(l, tc_fd[conn[l]])
        BY <2>3 DEF StaysPut, Event
      <4>2. QED
        BY <2>1, <3>1, <4>1 DEF Event
    <3>3. CASE pc[l] \in Serving
      <4>1. pc'[l] \in Serving
        BY <3>1, <3>3
      <4>2. tc_fd[conn[l]] \in Fds /\ Event(l, tc_fd[conn[l]])' # {}
        BY <2>1, <3>2, <3>3 DEF Stage
      <4>3. QED
        BY <2>1, <3>1, <4>1, <4>2 DEF Stage, Event, Between, Serving
    <3>4. CASE pc[l] \notin Serving
      <4>1. pc'[l] = pc[l]
        BY <3>1, <3>4
      <4>2. QED
        BY <2>1, <2>3, <3>1, <3>2, <3>4, <4>1 DEF Stage, Event
    <3>5. QED
      BY <3>3, <3>4
  <2>4. QED
    BY <2>2, <2>3
<1>4. QED
  BY <1>2, <1>3 DEF LoopOK

(* The loop has finished with a connection and goes on with its events.    *)
LEMMA LoopBack ==
    ASSUME TypeInv, NEW l \in Loops, LoopOK(l),
           pc'[l] = "dispatch", conn'[l] = None, ep_events'[l] = ep_events[l],
           \A f \in Fds : Event(l, f) # {} => Event(l, f)' # {}
    PROVE  LoopOK(l)'
<1>1. \A ev \in ep_events[l] : ev[1] \in Fds
  BY DEF TypeInv, EventsType
<1>2. QED
  BY <1>1 DEF LoopOK, Stage, Reported, Event, Between, Serving

LEMMA AcceptingFrame ==
    ASSUME TypeInv, Accepting, pc'[Main] = pc[Main], conn'[Main] = conn[Main],
           pc[Main] = "add_poller" =>
               /\ tc_fd'[conn[Main]] = tc_fd[conn[Main]]
               /\ tc_loop'[conn[Main]] = tc_loop[conn[Main]]
               /\ \A l \in Loops : conn'[l] # conn[Main],
           \A l \in Loops, f \in Fds : Event(l, f) = {} => Event(l, f)' = {}
    PROVE  Accepting'
  BY DEF Accepting, Event

LEMMA RepliesFrame ==
    ASSUME TypeInv, Replies,
           \A c \in tc_obuf' : /\ c \in tc_obuf
                               /\ tc_loop'[c] = tc_loop[c] /\ tc_fd'[c] = tc_fd[c],
           \A l \in Loops : pc[l] = "close_read" =>
                              pc'[l] = "close_read" /\ conn'[l] = conn[l],
           \A l \in Loops, f \in Fds :
             EPOLLOUT \in Event(l, f) => EPOLLOUT \in Event(l, f)'
    PROVE  Replies'
  BY DEF Replies, Event

LEMMA MapsFrame ==
    ASSUME TypeInv, MapsAgree, NEW l \in Loops, NEW f \in Fds, Untouched(l, f),
           \A c \in Conns : tc_loop[c] = l /\ tc_fd[c] = f =>
                              tc_loop'[c] = l /\ tc_fd'[c] = f
    PROVE  Agrees(l, f)'
  BY DEF MapsAgree, Agrees, Untouched

LEMMA EvictsFrame ==
    ASSUME NobodyEvicts, UNCHANGED <<timers, next_id, due>>,
           \A p \in Pool : pc'[p] = pc[p]
    PROVE  NobodyEvicts'
  BY DEF NobodyEvicts

(* A step of loop l that touches nothing but its own place.                *)
LEMMA QuietStep ==
    ASSUME TypeInv, CalmInv, NEW l \in Loops,
           UNCHANGED <<poller, tc_fd, tc_loop, sock, backlog, tc_obuf>>,
           NobodyEvicts', DispatchFindsEntry', LoopOK(l)',
           \A t \in Threads \ {l} :
             pc'[t] = pc[t] /\ conn'[t] = conn[t] /\ fd'[t] = fd[t],
           \A k \in Loops \ {l} : ep_events'[k] = ep_events[k],
           pc[l] # "close_read",
           pc[Main] = "add_poller" => conn'[l] # conn[Main]
    PROVE  CalmInv'
<1>1. Waiting' /\ OwnSocket'
  BY DEF CalmInv, Waiting, OwnSocket
<1>2. MapsAgree'
  BY DEF CalmInv, MapsAgree, Agrees, Event, Interest, ReadCb, WriteCb
<1>3. \A k \in Loops, f \in Fds : Event(k, f)' = Event(k, f)
  BY DEF Event
<1>4. ASSUME NEW k \in Loops
      PROVE  LoopOK(k)'
  <2>1. CASE k = l
    BY <2>1
  <2>2. CASE k # l
    <3>1. /\ pc'[k] = pc[k] /\ conn'[k] = conn[k] /\ fd'[k] = fd[k]
          /\ ep_events'[k] = ep_events[k]
      BY <2>2, Constants
    <3>2. LoopOK(k)
      BY DEF CalmInv
    <3>3. StaysPut(k)
      BY <1>3, <3>1 DEF StaysPut
    <3>4. QED
      BY <3>2, <3>3, LoopFrame
  <2>3. QED
    BY <2>1, <2>2
<1>5. Main # l /\ Main \in Threads /\ Loops \subseteq Threads
  BY Constants
<1>6. Accepting'
  <2>1. pc[Main] = "add_poller" => \A k \in Loops : conn'[k] # conn[Main]
    BY <1>5 DEF CalmInv, Accepting
  <2>2. QED
    BY <1>3, <1>5, <2>1, AcceptingFrame DEF CalmInv
<1>7. Replies'
  BY <1>3, <1>5, RepliesFrame DEF CalmInv
<1>8. QED
  BY <1>1, <1>2, <1>4, <1>6, <1>7 DEF CalmInv

(* A step of loop l that works on its connection c0: it touches no more    *)
(* than the buffer of c0 and the entry of its descriptor.                  *)
LEMMA WorkStep ==
    ASSUME TypeInv, CalmInv, NEW l \in Loops, NEW f0 \in Fds, NEW c0 \in Conns,
           c0 = conn[l], tc_loop[c0] = l, tc_fd[c0] = f0,
           UNCHANGED <<tc_fd, tc_loop, sock, backlog, ep_events, timers, next_id,
                       due, aborted>>,
           \A t \in Threads \ {l} :
             pc'[t] = pc[t] /\ conn'[t] = conn[t] /\ fd'[t] = fd[t],
           conn'[l] \in {None, c0}, LoopOK(l)',
           OnlyAt(l, f0), Agrees(l, f0)', Event(l, f0) = {} => Event(l, f0)' = {},
           tc_obuf' \subseteq tc_obuf \cup {c0},
           c0 \in tc_obuf' => \/ EPOLLOUT \in Event(l, f0)'
                              \/ conn'[l] = c0 /\ pc'[l] = "close_read"
    PROVE  CalmInv'
<1>c. /\ Main \in Threads /\ Loops \subseteq Threads /\ Pool \subseteq Threads
      /\ Main \notin Loops /\ Main \notin Pool /\ Loops \cap Pool = {}
      /\ None \notin Conns /\ None \notin Loops
  BY Constants
<1>p. /\ NobodyEvicts /\ Waiting /\ OwnSocket /\ MapsAgree
      /\ \A k \in Loops : LoopOK(k)
      /\ Accepting /\ Replies /\ DispatchFindsEntry
  BY DEF CalmInv
<1>e. \A k \in Loops, f \in Fds : k # l \/ f # f0 =>
        Untouched(k, f) /\ Event(k, f)' = Event(k, f)
  BY DEF OnlyAt, Untouched
<1>1. Waiting'
  BY <1>c, <1>p DEF Waiting
<1>2. OwnSocket' /\ DispatchFindsEntry'
  BY <1>p DEF OwnSocket, DispatchFindsEntry
<1>3. NobodyEvicts'
  BY <1>c, <1>p, EvictsFrame
<1>4. MapsAgree'
  <2>1. ASSUME NEW k \in Loops, NEW f \in Fds
        PROVE  Agrees(k, f)'
    <3>1. CASE k = l /\ f = f0
      BY <3>1
    <3>2. CASE k # l \/ f # f0
      BY <1>e, <1>p, <3>2, MapsFrame DEF Agrees
    <3>3. QED
      BY <3>1, <3>2
  <2>2. QED
    BY <2>1 DEF MapsAgree, Agrees
<1>5. ASSUME NEW k \in Loops
      PROVE  LoopOK(k)'
  <2>1. CASE k = l
    BY <2>1
  <2>2. CASE k # l
    <3>1. /\ pc'[k] = pc[k] /\ conn'[k] = conn[k] /\ fd'[k] = fd[k]
          /\ ep_events'[k] = ep_events[k]
          /\ \A f \in Fds : Event(k, f)' = Event(k, f)
      BY <1>c, <1>e, <2>2
    <3>2. StaysPut(k)
      BY <3>1 DEF StaysPut
    <3>3. QED
      BY <1>p, <3>2, LoopFrame
  <2>3. QED
    BY <2>1, <2>2
<1>6. Accepting'
  <2>1. pc[Main] = "add_poller" => conn[Main] \in Conns /\ conn[Main] # c0
    BY <1>c, <1>p DEF Accepting, TypeInv, ThreadsType, Resting
  <2>2. pc[Main] = "add_poller" => \A k \in Loops : conn'[k] # conn[Main]
    BY <1>c, <1>p, <2>1 DEF Accepting
  <2>3. \A k \in Loops, f \in Fds : Event(k, f) = {} => Event(k, f)' = {}
    BY <1>e
  <2>4. QED
    BY <1>c, <1>p, <2>2, <2>3, AcceptingFrame
<1>7. Replies'
  <2>1. ASSUME NEW c \in tc_obuf'
        PROVE  /\ tc_loop[c] \in Loops
               /\ \/ tc_fd[c] \in Fds /\ EPOLLOUT \in Event(tc_loop[c], tc_fd[c])'
                  \/ conn'[tc_loop[c]] = c /\ pc'[tc_loop[c]] = "close_read"
    <3>1. CASE c = c0
      <4>1. tc_loop'[c] = l /\ tc_fd'[c] = f0
        BY <3>1
      <4>2. QED
        BY <2>1, <3>1, <4>1 DEF Event
    <3>2. CASE c # c0
      <4>1. c \in tc_obuf /\ c \in Conns
        BY <2>1, <3>2 DEF TypeInv, ConnsType
      <4>2. PICK k \in Loops : k = tc_loop[c]
        BY <1>p, <4>1 DEF Replies
      <4>3. CASE conn[k] = c /\ pc[k] = "close_read"
        <5>1. k # l
          BY <3>2, <4>3
        <5>2. QED
          BY <1>c, <4>2, <4>3, <5>1
      <4>4. CASE tc_fd[c] \in Fds /\ EPOLLOUT \in Event(k, tc_fd[c])
        <5>1. PICK f \in Fds : f = tc_fd[c]
          BY <4>4
        <5>2. f # f0
          BY <1>p, <3>2, <4>1, <5>1 DEF OwnSocket
        <5>3. EPOLLOUT \in Event(k, f)'
          BY <1>e, <4>4, <5>1, <5>2
        <5>4. QED
          BY <4>2, <5>1, <5>3 DEF Event
      <4>5. QED
        BY <1>p, <4>1, <4>2, <4>3, <4>4 DEF Replies
    <3>3. QED
      BY <3>1, <3>2
  <2>2. QED
    BY <2>1 DEF Replies, Event
<1>8. QED
  BY <1>1, <1>2, <1>3, <1>4, <1>5, <1>6, <1>7 DEF CalmInv

LEMMA AddEffect ==
    ASSUME PollersType, NEW l0 \in Loops, NEW f0 \in Fds, NEW c \in Conns,
           NEW e \in {EPOLLIN, EPOLLOUT},
           f0 \in Open, Interest(l0, f0) = Event(l0, f0),
           poller' = [poller EXCEPT ![l0] = epoll_add(@, Open, f0, e, c)]
    PROVE  /\ OnlyAt(l0, f0)
           /\ Event(l0, f0)' = Event(l0, f0) \cup {e}
           /\ Interest(l0, f0)' = Event(l0, f0) \cup {e}
           /\ ReadCb(l0, f0)' = IF e = EPOLLIN THEN c ELSE ReadCb(l0, f0)
           /\ WriteCb(l0, f0)' = IF e = EPOLLOUT THEN c ELSE WriteCb(l0, f0)
<1> DEFINE new == epoll_add(poller[l0], Open, f0, e, c)
<1>1. poller[l0] \in PollerType(Conns) /\ Open \in SUBSET Fds
  BY OpenFds DEF PollersType
<1>2. poller'[l0] = new /\ \A l \in Loops \ {l0} : poller'[l] = poller[l]
  BY DEF PollersType
<1>3. /\ \A g \in Fds \ {f0} :
           /\ new.ep_event_map[g] = poller[l0].ep_event_map[g]
           /\ new.interest[g] = poller[l0].interest[g]
      /\ new.ep_event_map[f0].event = Event(l0, f0) \cup {e}
      /\ new.interest[f0] = Event(l0, f0) \cup {e}
      /\ new.ep_event_map[f0].read_callback =
           IF e = EPOLLIN THEN c ELSE ReadCb(l0, f0)
      /\ new.ep_event_map[f0].write_callback =
           IF e = EPOLLOUT THEN c ELSE WriteCb(l0, f0)
  <2>1. poller[l0].interest[f0] = poller[l0].ep_event_map[f0].event
    BY DEF Event, Interest
  <2>2. /\ \A g \in Fds \ {f0} :
             /\ new.ep_event_map[g] = poller[l0].ep_event_map[g]
             /\ new.interest[g] = poller[l0].interest[g]
        /\ new.ep_event_map[f0].event = poller[l0].ep_event_map[f0].event \cup {e}
        /\ new.interest[f0] = poller[l0].ep_event_map[f0].event \cup {e}
        /\ new.ep_event_map[f0].read_callback =
             IF e = EPOLLIN THEN c
             ELSE poller[l0].ep_event_map[f0].read_callback
        /\ new.ep_event_map[f0].write_callback =
             IF e = EPOLLOUT THEN c
             ELSE poller[l0].ep_event_map[f0].write_callback
    BY <1>1, <2>1, AddIs
  <2> HIDE DEF new
  <2>3. QED
    BY <2>2 DEF Event, ReadCb, WriteCb
<1> HIDE DEF new
<1>4. OnlyAt(l0, f0)
  BY <1>2, <1>3 DEF OnlyAt, Untouched, Event, Interest, ReadCb, WriteCb
<1>5. QED
  BY <1>2, <1>3, <1>4 DEF Event, Interest, ReadCb, WriteCb

LEMMA DelEffect ==
    ASSUME PollersType, NEW l0 \in Loops, NEW f0 \in Fds,
           poller' = [poller EXCEPT ![l0] = epoll_del(@, f0)]
    PROVE  /\ OnlyAt(l0, f0)
           /\ Event(l0, f0)' = {} /\ Interest(l0, f0)' = {}
           /\ ReadCb(l0, f0)' = None /\ WriteCb(l0, f0)' = None
<1> DEFINE new == epoll_del(poller[l0], f0)
<1>1. poller[l0] \in PollerType(Conns)
  BY DEF PollersType
<1>2. poller'[l0] = new /\ \A l \in Loops \ {l0} : poller'[l] = poller[l]
  BY DEF PollersType
<1>3. /\ \A g \in Fds \ {f0} :
           /\ new.ep_event_map[g] = poller[l0].ep_event_map[g]
           /\ new.interest[g] = poller[l0].interest[g]
      /\ new.ep_event_map[f0].event = {} /\ new.interest[f0] = {}
      /\ new.ep_event_map[f0].read_callback = None
      /\ new.ep_event_map[f0].write_callback = None
  BY <1>1, DelIs
<1> HIDE DEF new
<1>4. OnlyAt(l0, f0)
  BY <1>2, <1>3 DEF OnlyAt, Untouched, Event, Interest, ReadCb, WriteCb
<1>5. QED
  BY <1>2, <1>3, <1>4 DEF Event, Interest, ReadCb, WriteCb

LEMMA DelOutEffect ==
    ASSUME PollersType, NEW l0 \in Loops, NEW f0 \in Fds,
           f0 \in Open, Interest(l0, f0) = Event(l0, f0),
           EPOLLIN \in Event(l0, f0),
           poller' = [poller EXCEPT ![l0] =
                        epoll_del_event(@, Open, f0, EPOLLOUT)]
    PROVE  /\ OnlyAt(l0, f0)
           /\ Event(l0, f0)' = Event(l0, f0) \ {EPOLLOUT}
           /\ Interest(l0, f0)' = Event(l0, f0) \ {EPOLLOUT}
           /\ ReadCb(l0, f0)' = ReadCb(l0, f0)
           /\ WriteCb(l0, f0)' = WriteCb(l0, f0)
<1> DEFINE new == epoll_del_event(poller[l0], Open, f0, EPOLLOUT)
<1>1. poller[l0] \in PollerType(Conns) /\ Open \in SUBSET Fds
  BY OpenFds DEF PollersType
<1>2. poller'[l0] = new /\ \A l \in Loops \ {l0} : poller'[l] = poller[l]
  BY DEF PollersType
<1>3. /\ \A g \in Fds \ {f0} :
           /\ new.ep_event_map[g] = poller[l0].ep_event_map[g]
           /\ new.interest[g] = poller[l0].interest[g]
      /\ new.ep_event_map[f0].event = Event(l0, f0) \ {EPOLLOUT}
      /\ new.interest[f0] = Event(l0, f0) \ {EPOLLOUT}
      /\ new.ep_event_map[f0].read_callback = ReadCb(l0, f0)
      /\ new.ep_event_map[f0].write_callback = WriteCb(l0, f0)
  BY <1>1, DelOutIs DEF Event, Interest, ReadCb, WriteCb
<1> HIDE DEF new
<1>4. OnlyAt(l0, f0)
  BY <1>2, <1>3 DEF OnlyAt, Untouched, Event, Interest, ReadCb, WriteCb
<1>5. QED
  BY <1>2, <1>3, <1>4 DEF Event, Interest, ReadCb, WriteCb

(* The connection a loop works on, and its descriptor.                     *)
LEMMA Worked ==
    ASSUME TypeInv, CalmInv, NEW l \in Loops,
           pc[l] \in Serving \cup {"close_read", "close_fd"}
    PROVE  \E c0 \in Conns, f0 \in Fds :
             /\ c0 = conn[l] /\ tc_loop[c0] = l /\ tc_fd[c0] = f0
             /\ f0 \in Open /\ sock[f0] = c0 /\ Agrees(l, f0)
             /\ pc[l] \in Serving => Event(l, f0) # {} /\ ReadCb(l, f0) = c0
             /\ pc[l] \notin Serving => Event(l, f0) = {}
             /\ pc[Main] = "add_poller" => conn[Main] # c0
             /\ \A ev \in ep_events[l] :
                  ev[1] \in Fds \ {f0} /\ Event(l, ev[1]) # {}
<1>1. /\ LoopOK(l) /\ OwnSocket /\ MapsAgree /\ Accepting
      /\ None \notin Conns /\ Loops \subseteq Threads
  BY Constants DEF CalmInv
<1>2. /\ conn[l] \in Conns /\ pc[l] \notin Between
      /\ sock \in [Fds -> Conns \cup {None}]
  BY <1>1 DEF TypeInv, ThreadsType, KernelType, Resting, Between, Serving
<1>3. PICK c0 \in Conns, f0 \in Fds :
        /\ c0 = conn[l] /\ tc_loop[c0] = l /\ tc_fd[c0] = f0
        /\ pc[l] \in Serving => Event(l, f0) # {}
        /\ pc[l] \notin Serving => Event(l, f0) = {}
  BY <1>1, <1>2 DEF LoopOK, Stage, Serving
<1>4. sock[f0] = c0 /\ f0 \in Open
  BY <1>1, <1>3 DEF OwnSocket, Open
<1>5. Agrees(l, f0)
  BY <1>1 DEF MapsAgree, Agrees
<1>6. pc[l] \in Serving => ReadCb(l, f0) = c0
  BY <1>1, <1>3, <1>4, <1>5 DEF Agrees, OwnSocket
<1>7. pc[Main] = "add_poller" => conn[Main] # c0
  BY <1>1, <1>3 DEF Accepting
<1>8. \A ev \in ep_events[l] : ev[1] \in Fds \ {f0} /\ Event(l, ev[1]) # {}
  BY <1>1, <1>2, <1>3 DEF LoopOK, Reported, TypeInv, EventsType
<1>9. QED
  BY <1>3, <1>4, <1>5, <1>6, <1>7, <1>8

(* Arming a timer takes one id.                                            *)
LEMMA ArmCounts ==
    ASSUME TypeInv, NobodyEvicts, NEW t \in Threads, arm(t) \/ set_id(t)
    PROVE  Len(timers') <= next_id'
<1>1. timers \in Seq(Ids \X Conns) /\ next_id \in Nat
  BY DEF TypeInv, TimersType
<1>2. CASE arm(t)
  <2>1. /\ timers' = Append(timers, <<next_id, conn[t]>>)
        /\ next_id' = next_id + 1
    BY <1>2 DEF arm
  <2>2. Len(timers') = Len(timers) + 1 /\ Len(timers) \in Nat
    BY <1>1, <2>1
  <2>3. QED
    BY <1>1, <2>1, <2>2 DEF NobodyEvicts
<1>3. CASE set_id(t)
  BY <1>3 DEF set_id, timer, NobodyEvicts
<1>4. QED
  BY <1>2, <1>3

LEMMA NextCalm ==
    ASSUME MaxExpired = 0
    PROVE  TypeInv /\ TypeInv' /\ CalmInv /\ [Next]_vars => CalmInv'
<1> SUFFICES ASSUME TypeInv, TypeInv', CalmInv, [Next]_vars
             PROVE  CalmInv'
  OBVIOUS
<1>0. /\ pc \in [Threads -> Places] /\ conn \in [Threads -> Conns \cup {None}]
      /\ fd \in [Threads -> Watchable]
      /\ \A t \in Threads : pc[t] \notin Resting => conn[t] \in Conns
      /\ tc_fd \in [Conns -> Watchable] /\ tc_loop \in [Conns -> Loops \cup {None}]
      /\ sock \in [Fds -> Conns \cup {None}]
      /\ poller \in [Loops -> PollerType(Conns)]
      /\ ep_events \in [Loops -> SUBSET (Fds \X SUBSET {EPOLLIN, EPOLLOUT})]
      /\ backlog \in Seq(Conns) /\ tc_obuf \subseteq Conns
  BY DEF TypeInv, ThreadsType, ConnsType, KernelType, PollersType, EventsType
<1>c. /\ Main \in Threads /\ Loops \subseteq Threads /\ Pool \subseteq Threads
      /\ Main \notin Loops /\ Main \notin Pool /\ Loops \cap Pool = {}
      /\ None \notin Conns /\ None \notin Loops /\ Closed \notin Fds
  BY Constants
<1>p. /\ NobodyEvicts /\ Waiting /\ OwnSocket /\ MapsAgree
      /\ \A l \in Loops : LoopOK(l)
      /\ Accepting /\ Replies /\ DispatchFindsEntry
  BY DEF CalmInv
<1>k. \A l \in Loops, f \in Fds : poller' = poller => Event(l, f)' = Event(l, f)
  BY DEF Event
<1>1. ASSUME NEW c \in Conns, connect(c) \/ client_send(c) \/ client_close(c)
      PROVE  CalmInv'
  <2>1. UNCHANGED <<poller, ep_events, tc_fd, tc_loop, sock, tc_obuf, timers,
                    next_id, due, pc, conn, fd, aborted>>
    BY <1>1 DEF connect, client_send, client_close, conns, epoll, timer, locals,
                Running
  <2>2. Waiting'
    <3>1. CASE backlog' = backlog
      BY <1>p, <2>1, <3>1 DEF Waiting
    <3>2. CASE connect(c)
      <4>1. /\ tc_loop[c] = None /\ \A i \in 1..Len(backlog) : backlog[i] # c
            /\ backlog' = Append(backlog, c)
        BY <1>0, <3>2 DEF connect, Arrived, Range
      <4>2. /\ Len(backlog) \in Nat /\ Len(backlog') = Len(backlog) + 1
            /\ backlog'[Len(backlog) + 1] = c
            /\ \A i \in 1..Len(backlog) : backlog'[i] = backlog[i]
        BY <1>0, <4>1
      <4>3. \A i \in 1..Len(backlog') : i \in 1..Len(backlog) \/ i = Len(backlog) + 1
        BY <4>2
      <4>4. QED
        BY <1>p, <2>1, <4>1, <4>2, <4>3 DEF Waiting
    <3>3. QED
      BY <1>1, <3>1, <3>2 DEF client_send, client_close
  <2>3. NobodyEvicts' /\ OwnSocket' /\ DispatchFindsEntry'
    BY <1>p, <2>1 DEF NobodyEvicts, OwnSocket, DispatchFindsEntry
  <2>4. MapsAgree' /\ Accepting' /\ Replies'
    BY <1>p, <2>1 DEF MapsAgree, Agrees, Accepting, Replies, Event, Interest,
                      ReadCb, WriteCb
  <2>5. \A l \in Loops : LoopOK(l)'
    <3>1. \A l \in Loops : StaysPut(l)
      BY <1>k, <2>1 DEF StaysPut
    <3>2. QED
      BY <1>p, <3>1, LoopFrame
  <2>6. QED
    BY <2>2, <2>3, <2>4, <2>5 DEF CalmInv
<1>2. CASE accept
  <2>1. PICK c \in Conns, f \in Fds, l0 \in Loops :
           /\ backlog # <<>> /\ c = Head(backlog) /\ sock[f] = None
           /\ backlog' = Tail(backlog)
           /\ sock' = [sock EXCEPT ![f] = c] /\ tc_fd' = [tc_fd EXCEPT ![c] = f]
           /\ tc_loop' = [tc_loop EXCEPT ![c] = l0]
           /\ conn' = [conn EXCEPT ![Main] = c]
           /\ pc[Main] = "accept" /\ pc' = [pc EXCEPT ![Main] = "add_poller"]
           /\ UNCHANGED <<tc_obuf, poller, ep_events, timers, next_id, due, fd,
                          aborted>>
    <3>1. Head(backlog) \in Conns
      BY <1>2 DEF accept, TypeInv, KernelType
    <3>2. Min(Free) \in Fds /\ sock[Min(Free)] = None
      <4>1. Free \subseteq Fds
        BY Constants DEF Free, TypeInv, KernelType
      <4>2. Min(Free) \in Free
        BY <1>2, <4>1, Constants, MinIn DEF accept
      <4>3. QED
        BY <4>1, <4>2 DEF Free, Open
    <3>3. get_next_loop \in Loops
      BY ServerAssumption DEF get_next_loop, TypeInv, ServerType, Loops
    <3>4. QED
      BY <1>2, <3>1, <3>2, <3>3 DEF accept, Goto, Running, epoll, timer
  <2>2. /\ Len(backlog) \in Nat /\ Len(backlog') = Len(backlog) - 1
        /\ c = backlog[1] /\ 1 \in 1..Len(backlog)
        /\ \A i \in 1..Len(backlog') :
             /\ backlog'[i] = backlog[i + 1] /\ i + 1 \in 1..Len(backlog)
             /\ i + 1 # 1 /\ backlog'[i] \in Conns
    BY <1>0, <2>1, HeadTailProperties
  <2>3. tc_loop[c] = None /\ tc_fd[c] = Closed /\ c \notin tc_obuf
    BY <1>p, <2>2 DEF Waiting
  <2>4. \A l \in Loops : conn[l] # c
    BY <1>0, <1>c, <1>p, <2>1, <2>3 DEF LoopOK, Stage, Between
  <2>5. Waiting'
    <3>1. \A i \in 1..Len(backlog') : backlog'[i] # c /\ tc_loop'[backlog'[i]] = None
      BY <1>0, <1>p, <2>1, <2>2 DEF Waiting
    <3>2. \A i, j \in 1..Len(backlog') : backlog'[i] = backlog'[j] => i = j
      <4>1. ASSUME NEW i \in 1..Len(backlog'), NEW j \in 1..Len(backlog'),
                   backlog'[i] = backlog'[j]
            PROVE  i = j
        <5>1. i + 1 = j + 1
          BY <1>p, <2>2, <4>1 DEF Waiting
        <5>2. QED
          BY <2>2, <5>1
      <4>2. QED
        BY <4>1
    <3>3. \A d \in Conns : tc_loop'[d] = None => tc_fd'[d] = Closed /\ d \notin tc_obuf'
      BY <1>0, <1>c, <1>p, <2>1 DEF Waiting
    <3>4. QED
      BY <3>1, <3>2, <3>3 DEF Waiting
  <2>6. OwnSocket'
    BY <1>0, <1>c, <1>p, <2>1, <2>3 DEF OwnSocket
  <2>7. \A l \in Loops, g \in Fds : Untouched(l, g) /\ Event(l, g)' = Event(l, g)
    BY <1>k, <2>1, AllUntouched
  <2>8. MapsAgree'
    <3>1. \A d \in Conns, l \in Loops, g \in Fds :
            tc_loop[d] = l /\ tc_fd[d] = g => tc_loop'[d] = l /\ tc_fd'[d] = g
      BY <1>0, <1>c, <2>1, <2>3
    <3>2. QED
      BY <1>p, <2>7, <3>1, MapsFrame DEF MapsAgree, Agrees
  <2>9. ASSUME NEW l \in Loops
        PROVE  LoopOK(l)'
    <3>1. /\ pc'[l] = pc[l] /\ conn'[l] = conn[l] /\ fd'[l] = fd[l]
          /\ ep_events'[l] = ep_events[l]
      BY <1>0, <1>c, <2>1
    <3>2. pc[l] \notin Between => tc_fd'[conn[l]] = tc_fd[conn[l]]
                                    /\ tc_loop'[conn[l]] = tc_loop[conn[l]]
      BY <1>0, <1>c, <2>1, <2>4
    <3>3. StaysPut(l)
      BY <2>7, <3>1, <3>2 DEF StaysPut
    <3>4. QED
      BY <1>p, <3>3, LoopFrame
  <2>10. Accepting'
    <3>1. /\ pc'[Main] = "add_poller" /\ conn'[Main] = c
          /\ tc_loop'[c] = l0 /\ tc_fd'[c] = f
          /\ \A l \in Loops : conn'[l] = conn[l]
      BY <1>0, <1>c, <2>1
    <3>2. Event(l0, f) = {}
      BY <1>c, <1>p, <2>1 DEF MapsAgree, Agrees, OwnSocket
    <3>3. Event(l0, f)' = {}
      BY <2>7, <3>2
    <3>4. QED
      BY <2>4, <3>1, <3>3 DEF Accepting, Event
  <2>11. Replies'
    <3>1. \A d \in tc_obuf' : /\ d \in tc_obuf
                              /\ tc_loop'[d] = tc_loop[d] /\ tc_fd'[d] = tc_fd[d]
      BY <1>0, <2>1, <2>3
    <3>2. \A l \in Loops : pc'[l] = pc[l] /\ conn'[l] = conn[l]
      BY <1>0, <1>c, <2>1
    <3>3. QED
      BY <1>p, <2>7, <3>1, <3>2, RepliesFrame
  <2>12. NobodyEvicts' /\ DispatchFindsEntry'
    BY <1>0, <1>c, <1>p, <2>1 DEF NobodyEvicts, DispatchFindsEntry
  <2>13. QED
    BY <2>5, <2>6, <2>8, <2>9, <2>10, <2>11, <2>12 DEF CalmInv
<1>e. CASE accept_emfile
  <2>1. /\ pc'[Main] = "emfile" /\ \A t \in Threads : t # Main => pc'[t] = pc[t]
        /\ UNCHANGED <<backlog, poller, ep_events, tc_fd, tc_loop, sock, tc_obuf,
                       timers, next_id, due, conn, fd, aborted>>
    BY <1>0, <1>c, <1>e
       DEF accept_emfile, Goto, Running, kernel, conns, epoll, timer, locals
  <2>2. Waiting' /\ NobodyEvicts' /\ OwnSocket' /\ DispatchFindsEntry'
    BY <1>0, <1>c, <1>p, <2>1
       DEF Waiting, NobodyEvicts, OwnSocket, DispatchFindsEntry
  <2>3. \A l \in Loops : pc'[l] = pc[l] /\ conn'[l] = conn[l]
    BY <1>0, <1>c, <2>1
  <2>4. MapsAgree' /\ Accepting' /\ Replies'
    BY <1>p, <2>1, <2>3 DEF MapsAgree, Agrees, Accepting, Replies, Event,
                            Interest, ReadCb, WriteCb
  <2>5. \A l \in Loops : LoopOK(l)'
    <3>1. \A l \in Loops : StaysPut(l)
      BY <1>k, <2>1, <2>3 DEF StaysPut
    <3>2. QED
      BY <1>p, <3>1, LoopFrame
  <2>6. QED
    BY <2>2, <2>4, <2>5 DEF CalmInv
<1>3. CASE accept_idle
  <2>1. /\ backlog # <<>> /\ backlog' = Tail(backlog)
        /\ pc'[Main] = "accept" /\ \A t \in Threads : t # Main => pc'[t] = pc[t]
        /\ UNCHANGED <<poller, ep_events, tc_fd, tc_loop, sock, tc_obuf, timers,
                       next_id, due, conn, fd, aborted>>
    BY <1>0, <1>c, <1>3
       DEF accept_idle, Goto, Running, conns, epoll, timer, locals
  <2>p. \A l \in Loops : pc'[l] = pc[l] /\ conn'[l] = conn[l]
    BY <1>0, <1>c, <2>1
  <2>2. /\ Len(backlog) \in Nat
        /\ \A i \in 1..Len(backlog') :
             backlog'[i] = backlog[i + 1] /\ i + 1 \in 1..Len(backlog)
    BY <1>0, <2>1, HeadTailProperties
  <2>3. Waiting'
    <3>1. ASSUME NEW i \in 1..Len(backlog'), NEW j \in 1..Len(backlog'),
                 backlog'[i] = backlog'[j]
          PROVE  i = j
      <4>1. i + 1 = j + 1
        BY <1>p, <2>2, <3>1 DEF Waiting
      <4>2. QED
        BY <2>2, <4>1
    <3>2. QED
      BY <1>p, <2>1, <2>2, <3>1 DEF Waiting
  <2>4. NobodyEvicts' /\ OwnSocket' /\ DispatchFindsEntry'
    BY <1>0, <1>c, <1>p, <2>1 DEF NobodyEvicts, OwnSocket, DispatchFindsEntry
  <2>5. MapsAgree' /\ Accepting' /\ Replies'
    BY <1>p, <2>1, <2>p DEF MapsAgree, Agrees, Accepting, Replies, Event,
                            Interest, ReadCb, WriteCb
  <2>6. \A l \in Loops : LoopOK(l)'
    <3>1. \A l \in Loops : StaysPut(l)
      BY <1>k, <2>1, <2>p DEF StaysPut
    <3>2. QED
      BY <1>p, <3>1, LoopFrame
  <2>7. QED
    BY <2>3, <2>4, <2>5, <2>6 DEF CalmInv
<1>4. CASE add_task
  <2>1. conn[Main] \in Conns /\ pc[Main] = "add_poller"
    BY <1>0, <1>c, <1>4 DEF add_task, Goto, Resting
  <2>2. PICK c \in Conns, l0 \in Loops, f0 \in Fds :
           /\ c = conn[Main] /\ l0 = tc_loop[c] /\ f0 = tc_fd[c]
           /\ Event(l0, f0) = {} /\ \A l \in Loops : conn[l] # c
    BY <1>p, <2>1 DEF Accepting
  <2>3. /\ poller' = [poller EXCEPT ![l0] =
                        epoll_add(@, Open, f0, EPOLLIN, c)]
        /\ pc' = [pc EXCEPT ![Main] = "arm"]
        /\ UNCHANGED <<sock, backlog, tc_fd, tc_loop, tc_obuf, ep_events,
                       timers, next_id, due, conn, fd, aborted>>
    BY <1>4, <2>2
       DEF add_task, Goto, Running, kernel, conns, timer, locals
  <2>4. sock[f0] = c
    BY <1>p, <2>2 DEF OwnSocket
  <2>5. /\ OnlyAt(l0, f0)
        /\ Event(l0, f0)' = {EPOLLIN} /\ Interest(l0, f0)' = {EPOLLIN}
        /\ ReadCb(l0, f0)' = c /\ WriteCb(l0, f0)' = None
    <3>1. f0 \in Open /\ Open \in SUBSET Fds
      BY <1>c, <2>4 DEF Open
    <3>2. Interest(l0, f0) = {} /\ WriteCb(l0, f0) = None
      BY <1>p, <2>2 DEF MapsAgree, Agrees
    <3>3. PollersType /\ Interest(l0, f0) = Event(l0, f0)
      BY <2>2, <3>2 DEF TypeInv
    <3>4. /\ OnlyAt(l0, f0)
          /\ Event(l0, f0)' = Event(l0, f0) \cup {EPOLLIN}
          /\ Interest(l0, f0)' = Event(l0, f0) \cup {EPOLLIN}
          /\ ReadCb(l0, f0)' = IF EPOLLIN = EPOLLIN THEN c ELSE ReadCb(l0, f0)
          /\ WriteCb(l0, f0)' = IF EPOLLIN = EPOLLOUT THEN c ELSE WriteCb(l0, f0)
      BY <2>3, <3>1, <3>3, AddEffect
    <3>5. QED
      BY <2>2, <3>2, <3>4 DEF EPOLLIN, EPOLLOUT
  <2>6. MapsAgree'
    <3>1. ASSUME NEW l \in Loops, NEW f \in Fds, l # l0 \/ f # f0
          PROVE  Untouched(l, f)
      BY <2>5, <3>1 DEF OnlyAt
    <3>2. QED
      BY <1>p, <2>2, <2>3, <2>5, <3>1, MapsFrame DEF MapsAgree, Agrees
  <2>7. ASSUME NEW l \in Loops
        PROVE  LoopOK(l)'
    <3>1. pc'[l] = pc[l]
      BY <1>0, <1>c, <2>3
    <3>2. pc[l] \notin Between => l # l0 \/ tc_fd[conn[l]] # f0
      <4>1. pc[l] \notin Between => pc[l] \notin Resting
        BY <1>p DEF LoopOK, Stage, Between, Serving, Resting
      <4>2. pc[l] \notin Between => conn[l] \in Conns \ {c}
        BY <1>0, <1>c, <2>2, <4>1
      <4>3. QED
        BY <1>p, <2>4, <4>2 DEF OwnSocket
    <3>3. \A f \in Fds : l # l0 \/ f # f0 => Event(l, f)' = Event(l, f)
      BY <2>5 DEF OnlyAt, Untouched
    <3>4. StaysPut(l)
      BY <2>2, <2>3, <3>1, <3>2, <3>3 DEF StaysPut
    <3>5. QED
      BY <1>p, <3>4, LoopFrame
  <2>8. Accepting'
    BY <1>0, <1>c, <2>3 DEF Accepting
  <2>9. Replies'
    <3>1. \A l \in Loops : pc'[l] = pc[l]
      BY <1>0, <1>c, <2>3
    <3>2. \A l \in Loops, f \in Fds :
             EPOLLOUT \in Event(l, f) => EPOLLOUT \in Event(l, f)'
      BY <2>2, <2>5 DEF OnlyAt, Untouched
    <3>3. QED
      BY <1>p, <2>3, <3>1, <3>2, RepliesFrame
  <2>10. Waiting' /\ OwnSocket' /\ NobodyEvicts' /\ DispatchFindsEntry'
    <3>1. \A p \in Pool : pc'[p] = pc[p]
      BY <1>0, <1>c, <2>3
    <3>2. NobodyEvicts'
      BY <1>p, <2>3, <3>1, EvictsFrame
    <3>3. Waiting' /\ OwnSocket'
      BY <1>p, <2>3 DEF Waiting, OwnSocket
    <3>4. QED
      BY <1>p, <2>3, <3>2, <3>3 DEF DispatchFindsEntry
  <2>11. QED
    BY <2>6, <2>7, <2>8, <2>9, <2>10 DEF CalmInv
<1>5. CASE arm(Main) \/ set_id(Main)
  <2>1. /\ pc[Main] \in {"arm", "set_id"}
        /\ pc'[Main] \in {"set_id", "accept"}
        /\ \A t \in Threads \ {Main} : pc'[t] = pc[t] /\ conn'[t] = conn[t]
        /\ UNCHANGED <<poller, ep_events, tc_fd, tc_loop, sock, backlog, tc_obuf,
                       due, fd, aborted>>
    BY <1>0, <1>c, <1>5
       DEF arm, set_id, Goto, Running, kernel, conns, epoll, timer
  <2>2. Len(timers') <= next_id'
    BY <1>5, <1>c, <1>p, ArmCounts
  <2>3. NobodyEvicts'
    BY <1>c, <1>p, <2>1, <2>2 DEF NobodyEvicts
  <2>4. Waiting' /\ OwnSocket' /\ DispatchFindsEntry'
    BY <1>p, <2>1 DEF Waiting, OwnSocket, DispatchFindsEntry
  <2>5. MapsAgree'
    BY <1>p, <2>1 DEF MapsAgree, Agrees, Event, Interest, ReadCb, WriteCb
  <2>6. Accepting'
    BY <1>c, <2>1 DEF Accepting
  <2>7. \A l \in Loops : pc'[l] = pc[l] /\ conn'[l] = conn[l]
    BY <1>c, <2>1
  <2>8. \A l \in Loops : LoopOK(l)'
    <3>1. \A l \in Loops : StaysPut(l)
      BY <1>k, <2>1, <2>7 DEF StaysPut
    <3>2. QED
      BY <1>p, <3>1, LoopFrame
  <2>9. Replies'
    BY <1>k, <1>p, <2>1, <2>7, RepliesFrame
  <2>10. QED
    BY <2>3, <2>4, <2>5, <2>6, <2>8, <2>9 DEF CalmInv
<1>6. ASSUME NEW l \in Loops, arm(l) \/ set_id(l)
      PROVE  CalmInv'
  <2>1. /\ pc[l] \in Serving /\ pc'[l] \in Serving /\ conn'[l] = conn[l]
        /\ \A t \in Threads \ {l} : pc'[t] = pc[t] /\ conn'[t] = conn[t]
        /\ UNCHANGED <<poller, ep_events, tc_fd, tc_loop, sock, backlog, tc_obuf,
                       due, fd, aborted>>
    BY <1>0, <1>c, <1>6
       DEF arm, set_id, Goto, Running, kernel, conns, epoll, timer, Serving
  <2>2. Len(timers') <= next_id'
    BY <1>6, <1>c, <1>p, ArmCounts
  <2>3. NobodyEvicts'
    BY <1>c, <1>p, <2>1, <2>2 DEF NobodyEvicts
  <2>4. DispatchFindsEntry'
    BY <1>p, <2>1 DEF DispatchFindsEntry
  <2>5. LoopOK(l)'
    <3>1. StaysPut(l)
      BY <1>k, <2>1 DEF StaysPut
    <3>2. QED
      BY <1>p, <3>1, LoopFrame
  <2>6. pc[l] # "close_read" /\ (pc[Main] = "add_poller" => conn'[l] # conn[Main])
    BY <1>p, <2>1 DEF Accepting, Serving
  <2>7. QED
    BY <2>1, <2>3, <2>4, <2>5, <2>6, QuietStep
<1>7. ASSUME NEW l \in Loops, do_read_message(l) \/ do_read_close(l)
                                \/ cancel(l) \/ do_write_close(l)
      PROVE  CalmInv'
  <2>1. /\ pc[l] \in Serving /\ pc'[l] \in Serving /\ conn' = conn
        /\ \A t \in Threads \ {l} : pc'[t] = pc[t]
        /\ UNCHANGED <<poller, ep_events, tc_fd, tc_loop, sock, backlog, tc_obuf,
                       timers, next_id, due, fd, aborted>>
    BY <1>0, <1>c, <1>7
       DEF do_read_message, do_read_close, cancel, do_write_close, Jump, Goto,
           Running, kernel, conns, epoll, timer, locals, Serving
  <2>2. NobodyEvicts' /\ DispatchFindsEntry'
    BY <1>c, <1>p, <2>1 DEF NobodyEvicts, DispatchFindsEntry
  <2>3. LoopOK(l)'
    <3>1. StaysPut(l)
      BY <1>k, <2>1 DEF StaysPut
    <3>2. QED
      BY <1>p, <3>1, LoopFrame
  <2>4. pc[l] # "close_read" /\ (pc[Main] = "add_poller" => conn'[l] # conn[Main])
    BY <1>p, <2>1 DEF Accepting, Serving
  <2>5. QED
    BY <2>1, <2>2, <2>3, <2>4, QuietStep
<1>8. ASSUME NEW l \in Loops, poll(l)
      PROVE  CalmInv'
  <2>1. /\ pc[l] = "poll" /\ pc'[l] = "dispatch" /\ conn' = conn
        /\ \A t \in Threads \ {l} : pc'[t] = pc[t]
        /\ \A k \in Loops \ {l} : ep_events'[k] = ep_events[k]
        /\ ep_events'[l] = {<<f, ReadyEvents(l, f)>> :
                              f \in {g \in Fds : ReadyEvents(l, g) # {}}}
        /\ UNCHANGED <<poller, tc_fd, tc_loop, sock, backlog, tc_obuf,
                       timers, next_id, due, fd, aborted>>
    BY <1>0, <1>c, <1>8 DEF poll, Goto, Running, kernel, conns, timer, locals
  <2>2. \A f \in Fds : ReadyEvents(l, f) # {} => Event(l, f) # {}
    BY <1>p DEF MapsAgree, Agrees, ReadyEvents, Interest
  <2>3. NobodyEvicts' /\ DispatchFindsEntry'
    BY <1>c, <1>p, <2>1 DEF NobodyEvicts, DispatchFindsEntry
  <2>4. \A f \in Fds : Event(l, f)' = Event(l, f)
    BY <1>k, <2>1
  <2>5. \A ev \in ep_events'[l] :
          /\ ev[1] \in Fds /\ Event(l, ev[1]) # {}
          /\ \A other \in ep_events'[l] : other[1] = ev[1] => other = ev
    BY <2>1, <2>2
  <2>6. Stage(l)' /\ Reported(l)'
    BY <1>p, <2>1, <2>4, <2>5 DEF LoopOK, Stage, Reported, Event, Between, Serving
  <2>7. LoopOK(l)'
    BY <2>6 DEF LoopOK
  <2>8. pc[Main] = "add_poller" => conn'[l] # conn[Main]
    BY <1>p, <2>1 DEF Accepting
  <2>9. QED
    BY <2>1, <2>3, <2>7, <2>8, QuietStep
<1>9. ASSUME NEW l \in Loops, execute_cb(l)
      PROVE  CalmInv'
  <2>1. PICK ev \in ep_events[l] :
          LET cb == Callback(poller[l].ep_event_map[ev[1]], ev[2])
          IN  /\ ep_events' = [ep_events EXCEPT ![l] = @ \ {ev}]
              /\ aborted' = ~Known(poller[l], ev[1])
              /\ IF aborted' \/ cb[2] = None
                 THEN UNCHANGED <<pc, conn>>
                 ELSE /\ pc' = [pc EXCEPT ![l] = cb[1]]
                      /\ conn' = [conn EXCEPT ![l] = cb[2]]
    BY <1>9 DEF execute_cb
  <2>2. /\ pc[l] = "dispatch"
        /\ UNCHANGED <<poller, tc_fd, tc_loop, sock, backlog, tc_obuf, timers,
                       next_id, due, fd>>
    BY <1>9 DEF execute_cb, kernel, conns, timer
  <2>3. ev[1] \in Fds /\ Event(l, ev[1]) # {}
    BY <1>0, <1>p DEF LoopOK, Reported
  <2>4. DispatchFindsEntry'
    BY <2>1, <2>3 DEF DispatchFindsEntry, Known, Event
  <2>5. PICK f \in Fds, c \in Conns :
           /\ f = ev[1] /\ c = ReadCb(l, f) /\ Event(l, f) # {}
           /\ tc_loop[c] = l /\ tc_fd[c] = f /\ WriteCb(l, f) \in {None, c}
    BY <1>p, <2>3 DEF MapsAgree, Agrees
  <2>6. \/ UNCHANGED <<pc, conn>>
        \/ \E place \in {"read", "write"} :
             pc' = [pc EXCEPT ![l] = place] /\ conn' = [conn EXCEPT ![l] = c]
    BY <2>1, <2>4, <2>5 DEF DispatchFindsEntry, Callback, ReadCb, WriteCb
  <2>7. /\ \A t \in Threads \ {l} : pc'[t] = pc[t] /\ conn'[t] = conn[t]
        /\ \A k \in Loops \ {l} : ep_events'[k] = ep_events[k]
        /\ \/ pc'[l] = "dispatch" /\ conn'[l] = conn[l]
           \/ pc'[l] \in {"read", "write"} /\ conn'[l] = c
    BY <1>0, <1>c, <2>1, <2>2, <2>6
  <2>8. NobodyEvicts'
    BY <1>c, <1>p, <2>2, <2>7 DEF NobodyEvicts
  <2>9. ep_events'[l] = ep_events[l] \ {ev}
    BY <1>0, <2>1
  <2>10. \A g \in Fds : Event(l, g)' = Event(l, g)
    BY <1>k, <2>2
  <2>11. LoopOK(l)'
    <3>1. \A e \in ep_events'[l] : /\ e[1] \in Fds /\ e[1] # f
                                   /\ Event(l, e[1]) # {}
                                   /\ \A other \in ep_events'[l] :
                                        other[1] = e[1] => other = e
      BY <1>0, <1>p, <2>5, <2>9 DEF LoopOK, Reported
    <3>2. conn[l] = None
      BY <1>p, <2>2 DEF LoopOK, Stage, Between
    <3>3. Stage(l)'
      BY <2>2, <2>5, <2>7, <2>10, <3>2 DEF Stage, Event, Between, Serving
    <3>4. Reported(l)'
      BY <2>2, <2>5, <2>7, <2>10, <3>1 DEF Reported, Event, Between
    <3>5. QED
      BY <3>3, <3>4 DEF LoopOK
  <2>12. pc[Main] = "add_poller" => conn'[l] # conn[Main]
    BY <1>p, <2>5, <2>7 DEF Accepting
  <2>13. QED
    BY <2>2, <2>4, <2>7, <2>8, <2>11, <2>12, QuietStep
<1>10. ASSUME NEW l \in Loops, execute_cbs_done(l)
       PROVE  CalmInv'
  <2>1. /\ pc[l] = "dispatch" /\ pc'[l] = "poll" /\ ep_events[l] = {}
        /\ \A t \in Threads \ {l} : pc'[t] = pc[t]
        /\ UNCHANGED <<poller, ep_events, tc_fd, tc_loop, sock, backlog, tc_obuf,
                       timers, next_id, due, conn, fd, aborted>>
    BY <1>0, <1>c, <1>10 DEF execute_cbs_done, Jump, Goto, Running, kernel,
                             conns, epoll, timer, locals
  <2>2. NobodyEvicts' /\ DispatchFindsEntry'
    BY <1>c, <1>p, <2>1 DEF NobodyEvicts, DispatchFindsEntry
  <2>3. LoopOK(l)'
    BY <1>p, <2>1 DEF LoopOK, Stage, Reported, Between, Serving
  <2>4. pc[Main] = "add_poller" => conn'[l] # conn[Main]
    BY <1>p, <2>1 DEF Accepting
  <2>5. QED
    BY <2>1, <2>2, <2>3, <2>4, QuietStep
<1>11. ASSUME NEW l \in Loops, do_write_part(l) \/ do_clean(l)
       PROVE  CalmInv'
  <2>1. /\ pc[l] \in {"write", "clean"} /\ pc'[l] = "dispatch" /\ conn'[l] = None
        /\ \A t \in Threads \ {l} : pc'[t] = pc[t] /\ conn'[t] = conn[t]
        /\ UNCHANGED <<poller, ep_events, tc_fd, tc_loop, sock, backlog, tc_obuf,
                       timers, next_id, due, fd, aborted>>
    BY <1>0, <1>c, <1>11
       DEF do_write_part, do_clean, Goto, Running, kernel, conns, epoll, timer
  <2>2. NobodyEvicts' /\ DispatchFindsEntry'
    BY <1>c, <1>p, <2>1 DEF NobodyEvicts, DispatchFindsEntry
  <2>3. LoopOK(l)'
    BY <1>k, <1>p, <2>1, LoopBack
  <2>4. pc[Main] = "add_poller" => conn'[l] # conn[Main]
    BY <1>0, <1>c, <2>1 DEF Resting
  <2>5. QED
    BY <2>1, <2>2, <2>3, <2>4, QuietStep
<1>12. ASSUME NEW l \in Loops, send(l)
       PROVE  CalmInv'
  <2>0. /\ pc[l] = "send" /\ pc'[l] = "dispatch" /\ conn'[l] = None
        /\ \A t \in Threads \ {l} : pc'[t] = pc[t] /\ conn'[t] = conn[t]
        /\ UNCHANGED <<tc_fd, tc_loop, sock, backlog, ep_events, timers, next_id,
                       due, fd, aborted>>
    BY <1>0, <1>c, <1>12 DEF send, Goto, Running, kernel, timer
  <2>1. PICK c0 \in Conns, f0 \in Fds :
          /\ c0 = conn[l] /\ tc_loop[c0] = l /\ tc_fd[c0] = f0
          /\ f0 \in Open /\ Agrees(l, f0)
          /\ Event(l, f0) # {} /\ ReadCb(l, f0) = c0
    BY <2>0, Worked DEF Serving
  <2>2. \/ tc_obuf' = tc_obuf /\ poller' = poller
        \/ /\ tc_obuf' = tc_obuf \cup {c0}
           /\ poller' = [poller EXCEPT ![l] =
                            epoll_add(@, Open, f0, EPOLLOUT, c0)]
    <3>1. \/ UNCHANGED <<tc_obuf, poller>>
          \/ /\ tc_obuf' = tc_obuf \cup {c0}
             /\ poller' = [poller EXCEPT ![l] =
                             IF c0 \in tc_obuf THEN @
                             ELSE epoll_add(@, Open, f0, EPOLLOUT, c0)]
      BY <1>12, <2>1 DEF send
    <3>2. [poller EXCEPT ![l] = @] = poller
      BY <1>0
    <3>3. CASE c0 \in tc_obuf
      BY <3>1, <3>2, <3>3
    <3>4. CASE c0 \notin tc_obuf
      BY <3>1, <3>4
    <3>5. QED
      BY <3>3, <3>4
  <2>3. CASE poller' = poller /\ tc_obuf' = tc_obuf
    <3>1. NobodyEvicts' /\ DispatchFindsEntry'
      BY <1>c, <1>p, <2>0 DEF NobodyEvicts, DispatchFindsEntry
    <3>2. LoopOK(l)'
      BY <1>k, <1>p, <2>0, <2>3, LoopBack
    <3>3. pc[Main] = "add_poller" => conn'[l] # conn[Main]
      BY <1>0, <1>c, <2>0 DEF Resting
    <3>4. QED
      BY <2>0, <2>3, <3>1, <3>2, <3>3, QuietStep
  <2>4. CASE /\ tc_obuf' = tc_obuf \cup {c0}
             /\ poller' = [poller EXCEPT ![l] =
                              epoll_add(@, Open, f0, EPOLLOUT, c0)]
    <3>1. PollersType /\ Interest(l, f0) = Event(l, f0)
      BY <2>1 DEF TypeInv, Agrees
    <3>2. /\ OnlyAt(l, f0)
          /\ Event(l, f0)' = Event(l, f0) \cup {EPOLLOUT}
          /\ Interest(l, f0)' = Event(l, f0) \cup {EPOLLOUT}
          /\ ReadCb(l, f0)' = IF EPOLLOUT = EPOLLIN THEN c0 ELSE ReadCb(l, f0)
          /\ WriteCb(l, f0)' = IF EPOLLOUT = EPOLLOUT THEN c0 ELSE WriteCb(l, f0)
      BY <2>1, <2>4, <3>1, AddEffect
    <3>3. ReadCb(l, f0)' = c0 /\ WriteCb(l, f0)' = c0
      BY <2>1, <3>2 DEF EPOLLIN, EPOLLOUT
    <3>4. tc_loop'[c0] = l /\ tc_fd'[c0] = f0
      BY <2>0, <2>1
    <3>5. EPOLLIN \in Event(l, f0)
      BY <2>1 DEF Agrees
    <3>6. Agrees(l, f0)'
      <4>1. /\ Interest(l, f0)' = Event(l, f0)' /\ Event(l, f0)' # {}
            /\ EPOLLIN \in Event(l, f0)'
        BY <3>2, <3>5
      <4>2. QED
        BY <3>3, <3>4, <4>1 DEF Agrees
    <3>7. \A f \in Fds : Event(l, f) # {} => Event(l, f)' # {}
      BY <3>2 DEF OnlyAt, Untouched
    <3>8. LoopOK(l)'
      BY <1>p, <2>0, <3>7, LoopBack
    <3>9. /\ Event(l, f0) = {} => Event(l, f0)' = {}
          /\ EPOLLOUT \in Event(l, f0)'
      BY <2>1, <3>2
    <3>10. tc_obuf' \subseteq tc_obuf \cup {c0} /\ conn'[l] \in {None, c0}
      BY <2>0, <2>4
    <3>11. \A t \in Threads \ {l} :
             pc'[t] = pc[t] /\ conn'[t] = conn[t] /\ fd'[t] = fd[t]
      BY <2>0
    <3>12. c0 \in tc_obuf' => \/ EPOLLOUT \in Event(l, f0)'
                              \/ conn'[l] = c0 /\ pc'[l] = "close_read"
      BY <3>9
    <3>13. c0 = conn[l] /\ tc_loop[c0] = l /\ tc_fd[c0] = f0 /\ OnlyAt(l, f0)
      BY <2>1, <3>2
    <3>14. QED
      BY <2>0, <3>6, <3>8, <3>9, <3>10, <3>11, <3>12, <3>13, WorkStep
  <2>5. QED
    BY <2>2, <2>3, <2>4
<1>13. ASSUME NEW l \in Loops, do_write(l)
       PROVE  CalmInv'
  <2>0. /\ pc[l] = "write" /\ pc'[l] = "dispatch" /\ conn'[l] = None
        /\ \A t \in Threads \ {l} : pc'[t] = pc[t] /\ conn'[t] = conn[t]
        /\ UNCHANGED <<tc_fd, tc_loop, sock, backlog, ep_events, timers, next_id,
                       due, fd, aborted>>
    BY <1>0, <1>c, <1>13 DEF do_write, Goto, Running, kernel, timer
  <2>1. PICK c0 \in Conns, f0 \in Fds :
          /\ c0 = conn[l] /\ tc_loop[c0] = l /\ tc_fd[c0] = f0
          /\ f0 \in Open /\ Agrees(l, f0)
          /\ Event(l, f0) # {} /\ ReadCb(l, f0) = c0
    BY <2>0, Worked DEF Serving
  <2>2. /\ tc_obuf' = tc_obuf \ {c0}
        /\ poller' = [poller EXCEPT ![l] =
                        epoll_del_event(@, Open, f0, EPOLLOUT)]
    BY <1>13, <2>1 DEF do_write
  <2>3. /\ PollersType /\ Interest(l, f0) = Event(l, f0)
        /\ EPOLLIN \in Event(l, f0) /\ WriteCb(l, f0) \in {None, c0}
    BY <2>1 DEF TypeInv, Agrees
  <2>4. /\ OnlyAt(l, f0)
        /\ Event(l, f0)' = Event(l, f0) \ {EPOLLOUT}
        /\ Interest(l, f0)' = Event(l, f0) \ {EPOLLOUT}
        /\ ReadCb(l, f0)' = ReadCb(l, f0)
        /\ WriteCb(l, f0)' = WriteCb(l, f0)
    BY <2>1, <2>2, <2>3, DelOutEffect
  <2>5. EPOLLIN \in Event(l, f0)' /\ Interest(l, f0)' = Event(l, f0)'
    BY <2>3, <2>4 DEF EPOLLIN, EPOLLOUT
  <2>6. tc_loop'[c0] = l /\ tc_fd'[c0] = f0
    BY <2>0, <2>1
  <2>7. Agrees(l, f0)'
    BY <2>1, <2>3, <2>4, <2>5, <2>6 DEF Agrees
  <2>8. \A f \in Fds : Event(l, f) # {} => Event(l, f)' # {}
    BY <2>4, <2>5 DEF OnlyAt, Untouched
  <2>9. LoopOK(l)'
    BY <1>p, <2>0, <2>8, LoopBack
  <2>10. QED
    BY <2>0, <2>1, <2>2, <2>4, <2>7, <2>9, WorkStep
<1>14. ASSUME NEW l \in Loops, close_del(l)
       PROVE  CalmInv'
  <2>0. /\ pc[l] = "close_del" /\ pc'[l] = "close_read" /\ conn' = conn
        /\ \A t \in Threads \ {l} : pc'[t] = pc[t]
        /\ UNCHANGED <<tc_fd, tc_loop, tc_obuf, sock, backlog, ep_events, timers,
                       next_id, due, fd, aborted>>
    BY <1>0, <1>c, <1>14 DEF close_del, Goto, Running, kernel, conns, timer, locals
  <2>1. PICK c0 \in Conns, f0 \in Fds :
          /\ c0 = conn[l] /\ tc_loop[c0] = l /\ tc_fd[c0] = f0
          /\ Event(l, f0) # {}
          /\ \A ev \in ep_events[l] :
               ev[1] \in Fds \ {f0} /\ Event(l, ev[1]) # {}
    BY <2>0, Worked DEF Serving
  <2>2. poller' = [poller EXCEPT ![l] = epoll_del(@, f0)] /\ PollersType
    BY <1>14, <2>1 DEF close_del, TypeInv
  <2>3. /\ OnlyAt(l, f0)
        /\ Event(l, f0)' = {} /\ Interest(l, f0)' = {}
        /\ ReadCb(l, f0)' = None /\ WriteCb(l, f0)' = None
    BY <2>2, DelEffect
  <2>4. Agrees(l, f0)'
    BY <2>3 DEF Agrees
  <2>5. LoopOK(l)'
    <3>1. \A ev \in ep_events'[l] :
            ev[1] \in Fds /\ ev[1] # f0 /\ Event(l, ev[1])' # {}
      BY <2>0, <2>1, <2>3 DEF OnlyAt, Untouched
    <3>2. \A ev, other \in ep_events'[l] : other[1] = ev[1] => other = ev
      BY <1>p, <2>0 DEF LoopOK, Reported
    <3>3. conn'[l] = c0 /\ tc_loop'[c0] = l /\ tc_fd'[c0] = f0
      BY <2>0, <2>1
    <3>4. Stage(l)'
      BY <2>0, <2>3, <3>3 DEF Stage, Event, Between, Serving
    <3>5. Reported(l)'
      BY <2>0, <3>1, <3>2, <3>3 DEF Reported, Event, Between
    <3>6. QED
      BY <3>4, <3>5 DEF LoopOK
  <2>6. QED
    BY <2>0, <2>1, <2>3, <2>4, <2>5, WorkStep
<1>15. ASSUME NEW l \in Loops, close_read(l)
       PROVE  CalmInv'
  <2>0. /\ pc[l] = "close_read" /\ pc'[l] = "close_fd" /\ conn' = conn
        /\ \A t \in Threads \ {l} : pc'[t] = pc[t] /\ fd'[t] = fd[t]
        /\ fd'[l] = tc_fd[conn[l]] /\ tc_obuf' = tc_obuf \ {conn[l]}
        /\ UNCHANGED <<tc_fd, tc_loop, sock, backlog, poller, ep_events, timers,
                       next_id, due, aborted>>
    BY <1>0, <1>c, <1>15 DEF close_read, Goto, Running, kernel, epoll, timer
  <2>1. PICK c0 \in Conns, f0 \in Fds :
          /\ c0 = conn[l] /\ tc_loop[c0] = l /\ tc_fd[c0] = f0
          /\ Agrees(l, f0) /\ Event(l, f0) = {}
          /\ \A ev \in ep_events[l] :
               ev[1] \in Fds \ {f0} /\ Event(l, ev[1]) # {}
    BY <2>0, Worked DEF Serving
  <2>2. \A k \in Loops, f \in Fds : Untouched(k, f)
    BY <2>0, AllUntouched
  <2>3. /\ OnlyAt(l, f0) /\ Event(l, f0)' = {} /\ Interest(l, f0)' = {}
        /\ ReadCb(l, f0)' = None /\ WriteCb(l, f0)' = None
    BY <2>1, <2>2 DEF OnlyAt, Untouched, Agrees
  <2>4. Agrees(l, f0)'
    BY <2>3 DEF Agrees
  <2>5. LoopOK(l)'
    <3>1. \A ev \in ep_events'[l] :
            ev[1] \in Fds /\ ev[1] # f0 /\ Event(l, ev[1])' # {}
      BY <2>0, <2>1, <2>2 DEF Untouched
    <3>2. \A ev, other \in ep_events'[l] : other[1] = ev[1] => other = ev
      BY <1>p, <2>0 DEF LoopOK, Reported
    <3>3. conn'[l] = c0 /\ tc_loop'[c0] = l /\ tc_fd'[c0] = f0 /\ fd'[l] = f0
      BY <2>0, <2>1
    <3>4. Stage(l)'
      BY <2>0, <2>3, <3>3 DEF Stage, Event, Between, Serving
    <3>5. Reported(l)'
      BY <2>0, <3>1, <3>2, <3>3 DEF Reported, Event, Between
    <3>6. QED
      BY <3>4, <3>5 DEF LoopOK
  <2>6. tc_obuf' \subseteq tc_obuf \cup {c0} /\ c0 \notin tc_obuf'
    BY <2>0, <2>1
  <2>7. QED
    BY <2>0, <2>1, <2>3, <2>4, <2>5, <2>6, WorkStep
<1>16. ASSUME NEW l \in Loops, close_fd(l)
       PROVE  CalmInv'
  <2>0. pc[l] = "close_fd"
    BY <1>16 DEF close_fd, Goto
  <2>1. PICK c0 \in Conns, f0 \in Fds :
          /\ c0 = conn[l] /\ tc_loop[c0] = l /\ tc_fd[c0] = f0
          /\ sock[f0] = c0 /\ Event(l, f0) = {}
          /\ pc[Main] = "add_poller" => conn[Main] # c0
          /\ \A ev \in ep_events[l] :
               ev[1] \in Fds \ {f0} /\ Event(l, ev[1]) # {}
    BY <2>0, Worked DEF Serving
  <2>2. fd[l] = f0
    BY <1>p, <2>0, <2>1 DEF LoopOK, Stage
  <2>3. /\ pc'[l] = "clean" /\ conn' = conn
        /\ \A t \in Threads \ {l} : pc'[t] = pc[t] /\ fd'[t] = fd[t]
        /\ tc_fd' = [tc_fd EXCEPT ![c0] = Closed]
        /\ sock' = [sock EXCEPT ![f0] = None]
        /\ poller' = [k \in Loops |-> CloseInKernel(poller[k], f0)]
        /\ UNCHANGED <<tc_loop, tc_obuf, backlog, ep_events, timers, next_id,
                       due, aborted>>
    BY <1>0, <1>c, <1>16, <2>1, <2>2 DEF close_fd, Goto, Running, timer
  <2>4. \A k \in Loops, f \in Fds :
          /\ Event(k, f)' = Event(k, f)
          /\ ReadCb(k, f)' = ReadCb(k, f) /\ WriteCb(k, f)' = WriteCb(k, f)
          /\ Interest(k, f)' = IF f = f0 THEN {} ELSE Interest(k, f)
    <3>1. ASSUME NEW k \in Loops
          PROVE  /\ poller'[k].ep_event_map = poller[k].ep_event_map
                 /\ poller'[k].interest[f0] = {}
                 /\ \A g \in Fds \ {f0} :
                      poller'[k].interest[g] = poller[k].interest[g]
      <4>1. poller'[k] = CloseInKernel(poller[k], f0)
        BY <2>3
      <4>2. poller[k] \in PollerType(Conns)
        BY <1>0
      <4>3. QED
        BY <4>1, <4>2, CloseIs
    <3>2. QED
      BY <3>1 DEF Event, ReadCb, WriteCb, Interest
  <2>5. \A k \in Loops : Event(k, f0) = {}
    BY <1>p, <2>1 DEF MapsAgree, Agrees, OwnSocket
  <2>6. \A d \in Conns : /\ d # c0 => tc_fd'[d] = tc_fd[d] /\ tc_fd[d] # f0
                         /\ d = c0 => tc_fd'[d] = Closed
    BY <1>0, <1>p, <2>1, <2>3 DEF OwnSocket
  <2>7. OwnSocket'
    <3>1. \A f \in Fds : sock'[f] = IF f = f0 THEN None ELSE sock[f]
      BY <1>0, <2>3
    <3>2. QED
      BY <1>c, <1>p, <2>1, <2>6, <3>1 DEF OwnSocket
  <2>8. Waiting'
    BY <1>p, <2>3, <2>6 DEF Waiting
  <2>9. NobodyEvicts' /\ DispatchFindsEntry'
    <3>1. NobodyEvicts'
      BY <1>c, <1>p, <2>3, EvictsFrame
    <3>2. QED
      BY <1>p, <2>3, <3>1 DEF DispatchFindsEntry
  <2>10. MapsAgree'
    <3>1. ASSUME NEW k \in Loops, NEW f \in Fds
          PROVE  Agrees(k, f)'
      <4>1. CASE f = f0
        <5>1. /\ Event(k, f)' = {} /\ Interest(k, f)' = {}
              /\ ReadCb(k, f)' = None /\ WriteCb(k, f)' = None
          BY <1>p, <2>4, <2>5, <4>1 DEF MapsAgree, Agrees
        <5>2. QED
          BY <5>1 DEF Agrees
      <4>2. CASE f # f0
        <5>1. Untouched(k, f)
          BY <2>4, <4>2 DEF Untouched
        <5>2. \A d \in Conns : tc_loop[d] = k /\ tc_fd[d] = f =>
                                  tc_loop'[d] = k /\ tc_fd'[d] = f
          BY <2>1, <2>3, <2>6, <4>2
        <5>3. QED
          BY <1>p, <5>1, <5>2, MapsFrame DEF Agrees
      <4>3. QED
        BY <4>1, <4>2
    <3>2. QED
      BY <3>1 DEF MapsAgree, Agrees
  <2>11. LoopOK(l)'
    <3>1. \A ev \in ep_events'[l] : ev[1] \in Fds /\ Event(l, ev[1])' # {}
      BY <2>1, <2>3, <2>4
    <3>2. \A ev, other \in ep_events'[l] : other[1] = ev[1] => other = ev
      BY <1>p, <2>3 DEF LoopOK, Reported
    <3>3. conn'[l] = c0 /\ tc_loop'[c0] = l /\ tc_fd'[c0] = Closed
      BY <2>1, <2>3, <2>6
    <3>4. Stage(l)'
      BY <2>3, <3>3 DEF Stage, Between, Serving
    <3>5. Reported(l)'
      BY <1>c, <2>3, <3>1, <3>2, <3>3 DEF Reported, Event
    <3>6. QED
      BY <3>4, <3>5 DEF LoopOK
  <2>12. ASSUME NEW k \in Loops \ {l}
         PROVE  LoopOK(k)'
    <3>1. pc'[k] = pc[k] /\ fd'[k] = fd[k]
      BY <1>c, <2>3
    <3>2. pc[k] \notin Between => conn[k] \in Conns \ {c0}
      <4>1. pc[k] \notin Between => pc[k] \notin Resting
        BY <1>p DEF LoopOK, Stage, Between, Serving, Resting
      <4>2. pc[k] \notin Between => tc_loop[conn[k]] = k
        BY <1>p DEF LoopOK, Stage
      <4>3. QED
        BY <1>0, <1>c, <2>1, <4>1, <4>2
    <3>3. StaysPut(k)
      BY <2>3, <2>4, <2>6, <3>1, <3>2 DEF StaysPut
    <3>4. QED
      BY <1>p, <3>3, LoopFrame
  <2>13. Accepting'
    <3>1. pc[Main] = "add_poller" => conn[Main] \in Conns \ {c0}
      BY <1>0, <1>c, <2>1 DEF Resting
    <3>2. pc'[Main] = pc[Main]
      BY <1>c, <2>3
    <3>3. pc[Main] = "add_poller" => \A k \in Loops : conn'[k] # conn[Main]
      BY <1>p, <2>3 DEF Accepting
    <3>4. QED
      BY <1>p, <2>3, <2>4, <2>6, <3>1, <3>2, <3>3, AcceptingFrame
  <2>14. Replies'
    <3>1. c0 \notin tc_obuf
      BY <1>p, <2>0, <2>1 DEF Replies
    <3>2. \A d \in tc_obuf' : /\ d \in tc_obuf
                              /\ tc_loop'[d] = tc_loop[d] /\ tc_fd'[d] = tc_fd[d]
      BY <1>0, <2>3, <2>6, <3>1
    <3>3. \A k \in Loops : pc[k] = "close_read" =>
                              pc'[k] = "close_read" /\ conn'[k] = conn[k]
      BY <1>c, <2>0, <2>3
    <3>4. QED
      BY <1>p, <2>4, <3>2, <3>3, RepliesFrame
  <2>15. QED
    BY <2>7, <2>8, <2>9, <2>10, <2>11, <2>12, <2>13, <2>14 DEF CalmInv
<1>17. ~expire
  <2>1. Len(timers) \in Nat /\ next_id \in Nat /\ Len(timers) <= next_id
    BY <1>p DEF TypeInv, TimersType, NobodyEvicts
  <2>2. ~(next_id - Len(timers) < MaxExpired)
    BY <2>1
  <2>3. QED
    BY <2>2 DEF expire
<1>18. \A p \in Pool : ~PoolStep(p)
  BY <1>p DEF NobodyEvicts, PoolStep, active_close, do_close, close_del,
              close_read, close_fd, do_clean, Goto
<1>19. CASE UNCHANGED vars
  <2>1. UNCHANGED <<poller, ep_events, tc_fd, tc_loop, sock, backlog, tc_obuf,
                    timers, next_id, due, pc, conn, fd, aborted>>
    BY <1>19 DEF vars, kernel, conns, epoll, timer, locals
  <2>2. NobodyEvicts' /\ OwnSocket' /\ DispatchFindsEntry' /\ Waiting'
    BY <1>p, <2>1 DEF NobodyEvicts, OwnSocket, DispatchFindsEntry, Waiting
  <2>3. MapsAgree' /\ Accepting' /\ Replies'
    BY <1>p, <2>1 DEF MapsAgree, Agrees, Accepting, Replies, Event, Interest,
                      ReadCb, WriteCb
  <2>4. \A l \in Loops : LoopOK(l)'
    <3>1. \A l \in Loops : StaysPut(l)
      BY <1>k, <2>1 DEF StaysPut
    <3>2. QED
      BY <1>p, <3>1, LoopFrame
  <2>5. QED
    BY <2>2, <2>3, <2>4 DEF CalmInv
<1>20. CASE Next
  <2>1. ASSUME NEW l \in Loops, LoopStep(l)
        PROVE  CalmInv'
    BY <1>6, <1>7, <1>8, <1>9, <1>10, <1>11, <1>12, <1>13, <1>14, <1>15, <1>16,
       <2>1 DEF LoopStep, do_close
  <2>2. CASE MainStep
    BY <1>2, <1>3, <1>e, <1>4, <1>5, <2>2 DEF MainStep
  <2>3. QED
    BY <1>1, <1>17, <1>18, <1>20, <2>1, <2>2 DEF Next
<1>21. QED
  BY <1>19, <1>20

LEMMA InitCalm == Init => CalmInv
<1> SUFFICES ASSUME Init
             PROVE  CalmInv
  OBVIOUS
<1>1. /\ Main \in Threads /\ Loops \subseteq Threads /\ Pool \subseteq Threads
      /\ Main \notin Loops /\ Main \notin Pool /\ Loops \cap Pool = {}
      /\ None \notin Conns /\ Closed \notin Fds
  BY Constants
<1>2. /\ pc[Main] = "accept" /\ \A p \in Pool : pc[p] = "idle"
      /\ \A l \in Loops : pc[l] = "poll" /\ conn[l] = None /\ ep_events[l] = {}
  BY <1>1 DEF Init
<1>3. NobodyEvicts /\ DispatchFindsEntry
  BY <1>2 DEF Init, NobodyEvicts, DispatchFindsEntry
<1>4. Waiting /\ OwnSocket
  BY <1>1 DEF Init, Waiting, OwnSocket
<1>5. MapsAgree
  BY DEF Init, MapsAgree, Agrees, NewPoller, NoEvent, Event, Interest, ReadCb, WriteCb
<1>6. \A l \in Loops : LoopOK(l)
  BY <1>2 DEF LoopOK, Stage, Reported, Between, Serving
<1>7. Accepting /\ Replies
  BY <1>2 DEF Accepting, Replies, Init
<1>8. QED
  BY <1>3, <1>4, <1>5, <1>6, <1>7 DEF CalmInv

LEMMA CalmInvHolds ==
    ASSUME MaxExpired = 0
    PROVE  Spec => []CalmInv
  BY TypeInvHolds, InitCalm, NextCalm, PTL DEF Spec

(* While no timeout expires, descriptors are never mixed up although they  *)
(* are reused: tc_fd of an open connection is its own socket, and no socket*)
(* is left open without its connection (accept4 and close of tcp_conn.cpp  *)
(* and acceptor.cpp), for any number of loops and connections.             *)
THEOREM SocketsOwned ==
    ASSUME MaxExpired = 0
    PROVE  Spec => []OwnSocket
  BY CalmInvHolds, PTL DEF CalmInv

(* While no timeout expires, the assertion of Epoll::execute_cbs holds: an *)
(* event that was reported still has its entry when its turn comes.        *)
THEOREM EntriesFound ==
    ASSUME MaxExpired = 0
    PROVE  Spec => []DispatchFindsEntry
  BY CalmInvHolds, PTL DEF CalmInv

(* While no timeout expires, a buffered reply is watched for: send asks for*)
(* EPOLLOUT when the buffer was empty, and only do_write that has emptied  *)
(* it, or a close, gives the event up.                                     *)
THEOREM RepliesWatched ==
    ASSUME MaxExpired = 0
    PROVE  Spec => []ReplyWatched
<1>1. TypeInv /\ CalmInv => ReplyWatched
  <2> SUFFICES ASSUME TypeInv, CalmInv, NEW c \in tc_obuf,
                      ~(conn[tc_loop[c]] = c /\ pc[tc_loop[c]] = "close_read")
               PROVE  /\ OpenFd(c)
                      /\ EPOLLOUT \in poller[tc_loop[c]].interest[tc_fd[c]]
    BY DEF ReplyWatched
  <2>1. /\ c \in Conns /\ tc_loop[c] \in Loops /\ tc_fd[c] \in Fds
        /\ EPOLLOUT \in Event(tc_loop[c], tc_fd[c])
    BY DEF CalmInv, Replies, TypeInv, ConnsType
  <2>2. EPOLLOUT \in Interest(tc_loop[c], tc_fd[c])
    BY <2>1 DEF CalmInv, MapsAgree, Agrees
  <2>3. sock[tc_fd[c]] = c /\ c # None
    BY <2>1, Constants DEF CalmInv, OwnSocket
  <2>4. OpenFd(c)
    BY <2>1, <2>3 DEF OpenFd, Open
  <2>5. QED
    BY <2>2, <2>4 DEF Interest
<1>2. QED
  BY <1>1, CalmInvHolds, TypeInvHolds, PTL
=============================================================================
