----------------------------- MODULE PacketChannel -----------------------------
(* What a packet sink promises between the PDUs it is handed and the server    *)
(* that receives them: an ordered, bounded, lossy channel.                     *)
(*                                                                             *)
(* The packets on their way wait in the order they were submitted.  The        *)
(* channel works on a window of the oldest ones: it may deliver those, in any  *)
(* order and more than once, and gives up the window's packets from the front. *)
(* A reliable channel gives up only what it has delivered.  A packet is        *)
(* dropped on arrival only if as many packets wait as the buffer holds.        *)
EXTENDS Naturals, Sequences

CONSTANTS Packets,  \* what is submitted
          Capacity, \* packets the buffer holds
          Window,   \* packets the sender works on at a time
          Reliable  \* whether a packet is given up only after its delivery

VARIABLES waiting,   \* submitted and neither dropped nor given up, oldest first
          delivered, \* packets the server has accepted
          dropped    \* packets refused on arrival

cvars == << waiting, delivered, dropped >>

InWindow == { n \in 1..Len(waiting) : n <= Window }

Init ==
  /\ waiting = << >>
  /\ delivered = {}
  /\ dropped = {}

Accept(p) ==
  /\ Len(waiting) < Capacity + Window
  /\ waiting' = Append(waiting, p)
  /\ UNCHANGED << delivered, dropped >>

Drop(p) ==
  /\ Len(waiting) >= Capacity
  /\ dropped' = dropped \cup {p}
  /\ UNCHANGED << waiting, delivered >>

Deliver(n) ==
  /\ delivered' = delivered \cup {waiting[n]}
  /\ UNCHANGED << waiting, dropped >>

GiveUp(n) ==
  /\ Reliable => \A k \in 1..n : waiting[k] \in delivered
  /\ waiting' = SubSeq(waiting, n + 1, Len(waiting))
  /\ UNCHANGED << delivered, dropped >>

Next ==
  \/ \E p \in Packets : Accept(p) \/ Drop(p)
  \/ \E n \in InWindow : Deliver(n) \/ GiveUp(n)

Spec == Init /\ [][Next]_cvars
================================================================================
