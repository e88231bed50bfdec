-------------------------------- MODULE Sniff --------------------------------
(***************************************************************************)
(* One sniff() of src/pktmon_interface/capture.py: it starts the sniffer   *)
(* and reads until it has count packets or its timeout is over, while the  *)
(* drain thread fills the queue, fails, or is stopped by somebody else.    *)
(* The drain thread is Sniffer's, as far as sniff() can see it.            *)
(*                                                                         *)
(* A time is a number; where the code has None or a time, there is a set   *)
(* with no or one time in it.                                              *)
(***************************************************************************)
EXTENDS Integers, Sequences, Functions, FiniteSetsExt

CONSTANTS
  Timeouts,    \* timeout
  Counts,      \* count
  QueueSize,   \* queue_size
  MaxPackets,  \* bound: packets that the drain thread puts into the queue
  MaxTime      \* bound on the clock, except while a wait goes on

SniffAssumption ==
  /\ \A t \in Timeouts : t \subseteq Int /\ \A i, j \in t : i = j
  /\ Counts \subseteq Int
  /\ QueueSize \in Nat \ {0} /\ MaxPackets \in Nat /\ MaxTime \in Nat

VARIABLES
  timeout, count,   \* the arguments
  pc,
  clock,
  deadline, wait,   \* the variables of sniff()
  until,            \* when queue.get() gives up
  collected,
  queue, error,     \* _queue, and whether _error is set
  started,          \* _started
  draining,         \* a drain thread runs
  arrived,          \* history: the last packet that came to the queue
  dropped           \* history: the packets a full queue dropped

callVars  == <<timeout, count, deadline, wait, until, collected>>
drainVars == <<queue, error, started, draining, arrived, dropped>>
vars == <<callVars, pc, clock, drainVars>>

\* The sniffer may have been started before, with or without a drain thread left
\* over, and have packets of then in its queue.
Init ==
  /\ timeout \in Timeouts /\ count \in Counts
  /\ pc = "start" /\ clock = 0
  /\ deadline = {} /\ wait = {} /\ until = {} /\ collected = <<>>
  /\ arrived \in 0 .. QueueSize /\ queue = [i \in 1 .. arrived |-> i]
  /\ started \in BOOLEAN /\ error \in BOOLEAN
  /\ draining \in {FALSE, started /\ ~error}
  /\ dropped = {}

Over(times) == \E t \in times : t <= clock

-----------------------------------------------------------------------------
(* The drain thread, and the clock *)

DrainPuts ==
  /\ draining /\ arrived < MaxPackets
  /\ arrived' = arrived + 1
  /\ IF Len(queue) < QueueSize
     THEN queue' = Append(queue, arrived') /\ UNCHANGED dropped
     ELSE dropped' = dropped \cup {arrived'} /\ UNCHANGED queue
  /\ UNCHANGED <<callVars, pc, clock, error, started, draining>>

\* It fails, or was told to stop.
DrainEnds ==
  /\ draining /\ draining' = FALSE
  /\ error' \in {error, TRUE}
  /\ UNCHANGED <<callVars, pc, clock, queue, started, arrived, dropped>>

Tick ==
  /\ clock < MaxTime \/ (pc = "get" /\ until # {} /\ ~Over(until))
  /\ clock' = clock + 1
  /\ UNCHANGED <<callVars, pc, drainVars>>

-----------------------------------------------------------------------------
(* sniff() *)

\* start() leaves a started sniffer as it is, and else begins with no error.
Start ==
  /\ pc = "start"
  /\ \/ started /\ UNCHANGED <<error, started, draining>> /\ pc' = "test"
     \/ /\ ~started
        /\ \/ error' = FALSE /\ started' = TRUE /\ draining' = TRUE /\ pc' = "test"
           \/ pc' = "raised" /\ UNCHANGED <<error, started, draining>>
  /\ deadline' = {clock + Max({t, 0}) : t \in timeout}
  /\ UNCHANGED <<timeout, count, wait, until, collected, clock, queue, arrived, dropped>>

\* Mutant: the reads have no timeout.
Test_Patient ==
  /\ pc = "test"
  /\ pc' = IF (count > 0 /\ Len(collected) >= count) \/ Over(deadline) THEN "done" ELSE "read"
  /\ UNCHANGED <<callVars, clock, drainVars>>

\* The condition of the loop, and what is left of the timeout.
Test ==
  /\ pc = "test"
  /\ IF (count > 0 /\ Len(collected) >= count) \/ Over(deadline)
     THEN pc' = "done" /\ UNCHANGED wait
     ELSE pc' = "read" /\ wait' = {d - clock : d \in deadline}
  /\ UNCHANGED <<timeout, count, deadline, until, collected, clock, drainVars>>

\* read() raises what ended the drain thread, or waits for the queue.
Read ==
  /\ pc = "read"
  /\ pc' = IF error THEN "raised" ELSE "get"
  /\ until' = {clock + w : w \in wait}
  /\ UNCHANGED <<timeout, count, deadline, wait, collected, clock, drainVars>>

\* Mutant: the time is looked at before the packet is kept.
GetsPacket_InTime ==
  /\ pc = "get" /\ queue # <<>>
  /\ queue' = Tail(queue)
  /\ collected' = IF Over(deadline) THEN collected ELSE Append(collected, Head(queue))
  /\ pc' = "test"
  /\ UNCHANGED <<timeout, count, deadline, wait, until, clock, error, started, draining, arrived, dropped>>

GetsPacket ==
  /\ pc = "get" /\ queue # <<>>
  /\ queue' = Tail(queue)
  /\ collected' = Append(collected, Head(queue))
  /\ pc' = "test"
  /\ UNCHANGED <<timeout, count, deadline, wait, until, clock, error, started, draining, arrived, dropped>>

\* A packet that comes in the last moment is not taken for none.
GetsNothing ==
  /\ pc = "get" /\ queue = <<>> /\ Over(until)
  /\ pc' = "done"
  /\ UNCHANGED <<callVars, clock, drainVars>>

Proceeds == Start \/ Test \/ Read \/ GetsPacket \/ GetsNothing

Next == DrainPuts \/ DrainEnds \/ Tick \/ Proceeds

Spec == Init /\ [][Next]_vars

\* Time goes on and the caller's thread is scheduled; no packet needs to come.
FairSpec == Spec /\ WF_vars(Proceeds) /\ WF_vars(Tick)

-----------------------------------------------------------------------------
(* Properties *)

\* A sniff() that returns has as many packets as it was asked for, or its time
\* is over: neither a packet nor the end of a wait ends it early.
CountOrDeadline ==
  /\ pc = "done" => (count > 0 /\ Len(collected) = count) \/ Over(deadline)
  /\ count > 0 => Len(collected) <= count

\* What left the queue is returned, in order; only a sniff() that raises keeps
\* to itself what it had collected.
ReturnsWhatItTook ==
  pc = "done" =>
    /\ Range(collected) \cup Range(queue) \cup dropped = 1 .. arrived
    /\ \A i, j \in 1 .. Len(collected) : i < j => collected[i] < collected[j]

\* What a sniff() returns is neither too early nor too little.
ReturnsAsPromised == CountOrDeadline /\ ReturnsWhatItTook

\* A sniff() with a timeout ends, also when the drain thread has ended without
\* an error and no packet will ever come.
SniffEnds == timeout # {} ~> pc \in {"done", "raised"}
=============================================================================
