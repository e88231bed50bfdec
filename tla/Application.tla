---------------------------- MODULE Application ----------------------------
(***************************************************************************)
(* What an application may run: one sniff() (Sniff) or one of the two      *)
(* commands of the CLI (PacketsCommand).  A behaviour is about one of      *)
(* them, and the other's variables are not in use.                         *)
(***************************************************************************)
EXTENDS Integers, Sequences

CONSTANTS
  Timeouts, Counts, QueueSize, MaxPackets, MaxTime,   \* of Sniff
  MaxInterrupts                                       \* of PacketsCommand

VARIABLES
  program,   \* the module this behaviour is about
  pc,
  timeout, count, clock, deadline, wait, until, collected, queue, error, started, draining,
  arrived, dropped,
  command, closer, capture, handle, interrupts, pressed, misused

sniffVars ==
  <<timeout, count, clock, deadline, wait, until, collected, queue, error, started, draining,
    arrived, dropped>>
commandVars == <<command, closer, capture, handle, interrupts, pressed, misused>>
vars == <<program, pc, sniffVars, commandVars>>

Sniffing == INSTANCE Sniff
Commanding == INSTANCE PacketsCommand

ASSUME ApplicationAssumption == Sniffing!SniffAssumption /\ Commanding!CommandAssumption

NoSniff ==
  /\ timeout = {} /\ count = 0 /\ clock = 0 /\ deadline = {} /\ wait = {} /\ until = {}
  /\ collected = <<>> /\ queue = <<>> /\ error = FALSE /\ started = FALSE
  /\ draining = FALSE /\ arrived = 0 /\ dropped = {}
NoCommand ==
  /\ command = "none" /\ closer = "with" /\ capture = "none" /\ handle = FALSE
  /\ interrupts = 0 /\ pressed = {} /\ misused = FALSE

Init ==
  \/ program = "sniff" /\ Sniffing!Init /\ NoCommand
  \/ program = "command" /\ Commanding!Init /\ NoSniff

Sniffs(step) == program = "sniff" /\ step /\ UNCHANGED <<program, commandVars>>

Next ==
  \/ Sniffs(Sniffing!Next)
  \/ program = "command" /\ Commanding!Next /\ UNCHANGED <<program, sniffVars>>

\* The fairness of Sniff; nothing makes a command go on.
Spec ==
  /\ Init /\ [][Next]_vars
  /\ WF_vars(Sniffs(Sniffing!Proceeds)) /\ WF_vars(Sniffs(Sniffing!Tick))

-----------------------------------------------------------------------------
(* The properties of the two, each where it applies *)

\* Sniff: a sniff() that returns has its packets, or its time is over; what left
\* the queue is returned, in order.
ReturnsAsPromised == program = "sniff" => Sniffing!ReturnsAsPromised

\* Sniff: a sniff() with a timeout ends.
SniffEnds == program = "sniff" /\ timeout # {} ~> pc \in {"done", "raised"}

\* PacketsCommand: however Ctrl+C is pressed, a capture that was created is
\* destroyed before the process ends, and once, but for the moments that
\* ClosedOnce names.
ClosedOnce == program = "command" => Commanding!ClosedOnce
=============================================================================
