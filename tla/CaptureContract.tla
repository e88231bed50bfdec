-------------------------- MODULE CaptureContract --------------------------
(***************************************************************************)
(* What the native shim promises of a capture, without threads, handles or *)
(* locks: packets that arrive while the capture runs go into a bounded     *)
(* buffer, the oldest making room when it is full; a read takes packets    *)
(* from its front; every packet is dealt with at most once; and a capture  *)
(* begins and ends with nothing buffered.  NativeRefinement shows that     *)
(* NativeCapture implements it.                                            *)
(***************************************************************************)
EXTENDS Integers, Sequences

CONSTANTS
  Packets,          \* the packets that may arrive
  Capacities,       \* the capacities a start may ask for
  DefaultCapacity   \* the capacity of a new capture

VARIABLES
  phase,     \* "none", "stopped" or "running"
  capacity,  \* how many packets the buffer holds
  buffer,    \* the packets waiting to be read
  settled    \* the packets that were buffered or refused so far

vars == <<phase, capacity, buffer, settled>>

Init ==
  /\ phase = "stopped"
  /\ capacity = DefaultCapacity
  /\ buffer = <<>>
  /\ settled = {}

Open ==
  /\ phase = "none" /\ phase' = "stopped"
  /\ capacity' = DefaultCapacity
  /\ UNCHANGED <<buffer, settled>>

Close ==
  /\ phase = "stopped" /\ phase' = "none"
  /\ UNCHANGED <<capacity, buffer, settled>>

\* A start takes its capacity over, whether it will succeed or not.
Configure ==
  /\ phase = "stopped"
  /\ capacity' \in Capacities
  /\ UNCHANGED <<phase, buffer, settled>>

Begin ==
  /\ phase = "stopped" /\ phase' = "running"
  /\ UNCHANGED <<capacity, buffer, settled>>

\* Exactly one packet makes room, the oldest, and only when the buffer is full.
Arrive(p) ==
  /\ phase = "running"
  /\ p \notin settled
  /\ settled' = settled \cup {p}
  /\ buffer' = Append(IF Len(buffer) < capacity THEN buffer ELSE Tail(buffer), p)
  /\ UNCHANGED <<phase, capacity>>

Refuse(p) ==
  /\ phase = "running"
  /\ p \notin settled
  /\ settled' = settled \cup {p}
  /\ UNCHANGED <<phase, capacity, buffer>>

Read ==
  /\ phase = "running"
  /\ \E n \in 1 .. Len(buffer) : buffer' = SubSeq(buffer, n + 1, Len(buffer))
  /\ UNCHANGED <<phase, capacity, settled>>

End ==
  /\ phase = "running" /\ phase' = "stopped"
  /\ buffer' = <<>>
  /\ UNCHANGED <<capacity, settled>>

Next ==
  \/ Open \/ Close \/ Configure \/ Begin \/ Read \/ End
  \/ \E p \in Packets : Arrive(p) \/ Refuse(p)

Spec == Init /\ [][Next]_vars
=============================================================================
