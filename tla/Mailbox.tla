------------------------------- MODULE Mailbox -------------------------------
(***************************************************************************)
(* What every hand-over queue of the server promises: the items it accepts *)
(* are handed out one at a time, each at most once and in the order they   *)
(* were accepted.  EventLoop (tasks queued by other threads), Threadpool   *)
(* (posted tasks) and Logger (lines in its ring) are shown to implement it.*)
(***************************************************************************)
EXTENDS Naturals, Sequences

CONSTANT Items

VARIABLES accepted,   \* the items accepted so far, in order
          delivered   \* the items handed out so far, in order

vars == <<accepted, delivered>>

Init == accepted = <<>> /\ delivered = <<>>

Accept(i) ==
    /\ accepted' = Append(accepted, i)
    /\ UNCHANGED delivered

Deliver ==
    /\ Len(delivered) < Len(accepted)
    /\ delivered' = Append(delivered, accepted[Len(delivered) + 1])
    /\ UNCHANGED accepted

Next == (\E i \in Items : Accept(i)) \/ Deliver

Spec == Init /\ [][Next]_vars
=============================================================================
