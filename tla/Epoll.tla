-------------------------------- MODULE Epoll --------------------------------
(***************************************************************************)
(* The class Epoll (net/epoll.h, net/epoll.cpp) as operators on its state, *)
(* a record with                                                           *)
(*   ep_event_map   what the object believes: fd -> io_event, or NoEvent;  *)
(*   interest       what the kernel watches: fd -> events, {} if not added.*)
(* The two are changed by different calls, can fail separately, and are    *)
(* compared by nobody.  ep_listen_fds is written and never read by the     *)
(* server, and is left out.                                                *)
(***************************************************************************)
CONSTANTS Fds,      \* descriptors
          Closed,   \* the value -1 of a descriptor variable
          NoCb      \* an empty callback

EPOLLIN  == "in"
EPOLLOUT == "out"
NoEvent  == [event |-> {}, read_callback |-> NoCb, write_callback |-> NoCb]

io_event(Cbs) == [event : SUBSET {EPOLLIN, EPOLLOUT},
                  read_callback : Cbs \cup {NoCb},
                  write_callback : Cbs \cup {NoCb}]
PollerType(Cbs) == [ep_event_map : [Fds \cup {Closed} -> io_event(Cbs)],
                    interest : [Fds -> SUBSET {EPOLLIN, EPOLLOUT}]]

NewPoller == [ep_event_map |-> [fd \in Fds \cup {Closed} |-> NoEvent],
              interest |-> [fd \in Fds |-> {}]]

Known(ep, fd) == ep.ep_event_map[fd].event # {}

(* epoll_ctl fails on a closed descriptor; ADD fails if the descriptor is  *)
(* watched already and MOD if it is not.                                   *)
epoll_ctl(interest, open, op, fd, events) ==
    IF fd \in open /\ (op = "ADD") = (interest[fd] = {})
    THEN [interest EXCEPT ![fd] = events]
    ELSE interest

AlwaysAdd(ep, fd) == "ADD"    \* variant: the map is not looked at
OpFor(ep, fd) == IF Known(ep, fd) THEN "MOD" ELSE "ADD"

(* epoll_add: the map is updated first and says whether the kernel is asked*)
(* to ADD or to MOD; a failure of epoll_ctl leaves the map as it is.       *)
epoll_add(ep, open, fd, event, cb) ==
    LET final_events == ep.ep_event_map[fd].event \cup {event}
        entry == [event |-> final_events,
                  read_callback |-> IF event = EPOLLIN THEN cb
                                    ELSE ep.ep_event_map[fd].read_callback,
                  write_callback |-> IF event = EPOLLOUT THEN cb
                                     ELSE ep.ep_event_map[fd].write_callback]
    IN  [ep_event_map |-> [ep.ep_event_map EXCEPT ![fd] = entry],
         interest |-> epoll_ctl(ep.interest, open, OpFor(ep, fd), fd,
                                final_events)]

(* epoll_del(fd): forget the descriptor, ask the kernel to forget it.      *)
epoll_del(ep, fd) ==
    [ep_event_map |-> [ep.ep_event_map EXCEPT ![fd] = NoEvent],
     interest |-> IF fd \in Fds THEN [ep.interest EXCEPT ![fd] = {}]
                                ELSE ep.interest]

(* Variant: the entry is erased although another event is left.            *)
EraseAnyway(ep, open, fd, event) ==
    [ep_event_map |-> [ep.ep_event_map EXCEPT ![fd] = NoEvent],
     interest |-> epoll_ctl(ep.interest, open, "MOD", fd,
                            ep.ep_event_map[fd].event \ {event})]

(* epoll_del(fd, event): as epoll_del(fd) when no other event is left.     *)
epoll_del_event(ep, open, fd, event) ==
    LET target_event == ep.ep_event_map[fd].event \ {event}
    IN  IF ~Known(ep, fd) THEN ep
        ELSE IF target_event = {} THEN epoll_del(ep, fd)
        ELSE [ep_event_map |-> [ep.ep_event_map EXCEPT
                                  ![fd] = [@ EXCEPT !.event = target_event]],
              interest |-> epoll_ctl(ep.interest, open, "MOD", fd,
                                     target_event)]

(* The kernel's part of close(fd): a closed socket is no longer watched.   *)
CloseInKernel(ep, fd) ==
    [ep_event_map |-> ep.ep_event_map,
     interest |-> [ep.interest EXCEPT ![fd] = {}]]
=============================================================================
