---------------------------- MODULE PacketsCommand ----------------------------
(***************************************************************************)
(* The two commands of src/pktmon_interface/cli.py and what becomes of     *)
(* their capture: the with statement closes the PktmonBackend however the  *)
(* command ends, and __del__ closes it if that did not come to its end, or *)
(* not to its beginning.  Ctrl+C raises KeyboardInterrupt between any two  *)
(* steps; in a native call it waits for the call to return.  What the      *)
(* commands print, and the status they exit with, is left out.             *)
(***************************************************************************)
EXTENDS Integers

CONSTANT MaxInterrupts    \* bound: how often Ctrl+C is pressed

CommandAssumption == MaxInterrupts \in Nat

VARIABLES
  command,      \* "probe" or "packets"
  pc,
  closer,       \* who calls close(): "with" or "del"
  capture,      \* the native capture
  handle,       \* whether _handle is set
  interrupts,   \* history: how often Ctrl+C was pressed
  pressed,      \* history: the moments it was pressed at, as <<closer, pc>>
  misused       \* history: whether a destroyed capture was used

historyVars == <<interrupts, pressed, misused>>
vars == <<command, pc, closer, capture, handle, historyVars>>

Init ==
  /\ command \in {"probe", "packets"}
  /\ pc = "create" /\ closer = "with" /\ capture = "none" /\ handle = FALSE
  /\ interrupts = 0 /\ pressed = {} /\ misused = FALSE

-----------------------------------------------------------------------------
(* The commands *)

\* PktmonBackend(): the library is not there, or PktmonCreate returns a capture
\* or nothing.
Create ==
  /\ pc = "create"
  /\ \/ capture' = "created" /\ pc' = "assign"
     \/ pc' = "exit" /\ UNCHANGED capture
  /\ UNCHANGED <<command, closer, handle, historyVars>>

\* _handle is assigned, and the object handed to the with statement.
Assign ==
  /\ pc = "assign" /\ pc' = "enter" /\ handle' = TRUE
  /\ UNCHANGED <<command, closer, capture, historyVars>>

\* probe probes the exports first, packets if asked to.
Enter ==
  /\ pc = "enter"
  /\ \/ pc' = "probe"
     \/ command = "packets" /\ pc' = "start"
  /\ UNCHANGED <<command, closer, capture, handle, historyVars>>

\* PktmonBackend.probe() may raise.
Probe ==
  /\ pc = "probe" /\ pc' \in {"start", "stop"}
  /\ UNCHANGED <<command, closer, capture, handle, historyVars>>

StartSucceeds ==
  /\ pc = "start"
  /\ capture' = "capturing"
  /\ pc' = IF command = "packets" THEN "loop" ELSE "stop"
  /\ UNCHANGED <<command, closer, handle, historyVars>>

\* packets returns 2; probe only wants to know.
StartFails ==
  /\ pc = "start" /\ pc' = "stop"
  /\ UNCHANGED <<command, closer, capture, handle, historyVars>>

\* The loop ends when the timeout is over, or read_many() raises what nothing
\* catches.
LoopEnds ==
  /\ pc = "loop" /\ pc' = "stop"
  /\ UNCHANGED <<command, closer, capture, handle, historyVars>>

-----------------------------------------------------------------------------
(* close() *)

\* When the frames of the command are gone __del__ closes a backend that has
\* its handle still.
CloseEnds ==
  IF closer = "with" /\ handle' THEN pc' = "stop" /\ closer' = "del"
  ELSE pc' = "exit" /\ UNCHANGED closer

\* Mutant: the handle is forgotten before the native calls.
CloseStops_ForgetsFirst ==
  /\ pc = "stop" /\ pc' = "destroy" /\ handle' = FALSE
  /\ misused' = (misused \/ capture = "destroyed")
  /\ capture' = IF capture = "destroyed" THEN capture ELSE "stopped"
  /\ UNCHANGED <<command, closer, interrupts, pressed>>

CloseStops ==
  /\ pc = "stop" /\ pc' = "destroy"
  /\ misused' = (misused \/ capture = "destroyed")
  /\ capture' = IF capture = "destroyed" THEN capture ELSE "stopped"
  /\ UNCHANGED <<command, closer, handle, interrupts, pressed>>

CloseDestroys ==
  /\ pc = "destroy" /\ pc' = "forget"
  /\ misused' = (misused \/ capture = "destroyed")
  /\ capture' = "destroyed"
  /\ UNCHANGED <<command, closer, handle, interrupts, pressed>>

CloseForgets ==
  /\ pc = "forget" /\ handle' = FALSE
  /\ CloseEnds
  /\ UNCHANGED <<command, capture, historyVars>>

-----------------------------------------------------------------------------
(* Ctrl+C *)

Pressed ==
  /\ interrupts < MaxInterrupts
  /\ interrupts' = interrupts + 1
  /\ pressed' = pressed \cup {<<closer, pc>>}
  /\ UNCHANGED <<command, capture, handle, misused>>

\* Before its handle is assigned the object does not know its capture, and
\* before it is entered the with statement does not know the object: then only
\* __del__ closes it.
InterruptCreation ==
  /\ Pressed
  /\ \/ pc \in {"create", "assign"} /\ pc' = "exit" /\ UNCHANGED closer
     \/ pc = "enter" /\ pc' = "stop" /\ closer' = "del"

\* In the loop it is caught, before the loop it is not; the with statement
\* closes the backend all the same.
InterruptCommand ==
  /\ Pressed /\ pc \in {"probe", "start", "loop"}
  /\ pc' = "stop" /\ UNCHANGED closer

\* A close() that is interrupted is left; what __del__ raises is ignored.
InterruptClose ==
  /\ Pressed /\ pc \in {"stop", "destroy", "forget"}
  /\ CloseEnds

Next ==
  \/ Create \/ Assign \/ Enter \/ Probe \/ StartSucceeds \/ StartFails \/ LoopEnds
  \/ CloseStops \/ CloseDestroys \/ CloseForgets
  \/ InterruptCreation \/ InterruptCommand \/ InterruptClose

Spec == Init /\ [][Next]_vars

-----------------------------------------------------------------------------
(* Properties *)

\* Ctrl+C keeps a capture from being destroyed only between PktmonCreate and the
\* assignment of its handle, or in __del__ before PktmonDestroy; a capture is
\* left running only in __del__ before PktmonStop.
DestroyedInTheEnd ==
  /\ pc = "exit" /\ capture \notin {"none", "destroyed"} =>
       {<<"with", "assign">>, <<"del", "stop">>, <<"del", "destroy">>} \cap pressed # {}
  /\ pc = "exit" /\ capture = "capturing" => <<"del", "stop">> \in pressed

\* A destroyed capture is stopped or destroyed again only after a Ctrl+C between
\* PktmonDestroy and the assignment that forgets the handle.
DestroyedOnce == misused => <<"with", "forget">> \in pressed

\* Ctrl+C at any moment, and again while the command closes its capture: when
\* the process ends the capture has been destroyed, and once, or there was
\* none - but for the moments the two parts name (close and __del__ of backend.py).
ClosedOnce == DestroyedInTheEnd /\ DestroyedOnce
=============================================================================
