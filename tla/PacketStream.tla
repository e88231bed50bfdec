---------------------------- MODULE PacketStream ----------------------------
(***************************************************************************)
(* What the library promises of a packet's way from PktMonApi.dll to       *)
(* read(): a stream that may lose packets anywhere on the way but neither  *)
(* invents, repeats nor reorders them.  CapturePipeline implements it.     *)
(***************************************************************************)
EXTENDS Integers

VARIABLES
  arrived,    \* the number of the last packet that arrived
  transit,    \* the packets on their way
  delivered   \* the last packet that was delivered

vars == <<arrived, transit, delivered>>

Init == arrived = 0 /\ transit = {} /\ delivered = 0

\* A packet that arrives may push one out.
Arrive ==
  /\ arrived' = arrived + 1
  /\ \E lost \in {{}} \cup {{p} : p \in transit} :
       transit' = (transit \ lost) \cup {arrived + 1}
  /\ UNCHANGED delivered

\* Packets are delivered in the order they arrived in.
Deliver ==
  /\ \E p \in transit :
       /\ \A q \in transit : p <= q
       /\ delivered' = p
       /\ transit' = transit \ {p}
  /\ UNCHANGED arrived

Lose ==
  /\ transit' \subseteq transit
  /\ UNCHANGED <<arrived, delivered>>

Next == Arrive \/ Deliver \/ Lose

Spec == Init /\ [][Next]_vars
=============================================================================
