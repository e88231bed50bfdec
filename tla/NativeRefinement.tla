-------------------------- MODULE NativeRefinement --------------------------
(***************************************************************************)
(* NativeCapture implements CaptureContract.  The capture runs from the    *)
(* moment SetSessionActive(TRUE) lets packets flow - before the start      *)
(* publishes it - until PktmonStop has cleared the queue.                  *)
(***************************************************************************)
EXTENDS NativeCapture

phase ==
  IF ~allocated THEN "none"
  ELSE IF started \/ flow = "on" THEN "running"
  ELSE "stopped"

buffer == [i \in 1 .. Len(queue) |-> queue[i].id]

\* A packet is settled once its callback is done with it.
settled == (1 .. arrivals) \ {packet[w].id : w \in Workers}

Contract == INSTANCE CaptureContract WITH
  Packets <- 1 .. MaxPackets,
  Capacities <- {ApplyConfig(c).capacity : c \in Configs},
  DefaultCapacity <- DefaultCapacity,
  phase <- phase,
  capacity <- config.capacity,
  buffer <- buffer,
  settled <- settled

\* The shim, with its threads, its lock and the failures of every call, shows
\* its callers no more than the contract: no packet twice, none dropped while
\* there is room, none but the oldest when there is not, none left over.
ImplementsContract == Contract!Spec
=============================================================================
