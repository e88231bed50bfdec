--------------------------- MODULE CapturePipeline ---------------------------
(***************************************************************************)
(* The sniffer on top of a native capture: PktmonSniffer as Sniffer has it,*)
(* and the shim as CaptureContract promises it (NativeCapture implements   *)
(* that).  A packet goes through the shim's queue, which drops its oldest, *)
(* the drain thread's batch, and the sniffer's queue, which drops its      *)
(* newest.  The two take their common steps together: a start or a close   *)
(* of the sniffer begins or ends the capture, and read_many() takes what   *)
(* the capture has.  For sniffers whose stops join, which have one backend *)
(* at a time.                                                              *)
(***************************************************************************)
EXTENDS Sniffer, Functions, FiniteSetsExt

CONSTANT NativeCapacity   \* native_queue_capacity

ASSUME PipelineAssumption ==
  NativeCapacity \in Nat \ {0} /\ JoinModes \subseteq {"wait"} /\ CallbackModes \subseteq {"wait"}

VARIABLES
  capacity,   \* queue_capacity of the shim
  buffer,     \* queue of the shim
  arrivals    \* history: the packets that arrived in it

pipelineVars == <<vars, capacity, buffer, arrivals>>

\* The capture's life, as the handles show it.
phase ==
  CASE \E b \in Backends : native[b] = "capturing"            -> "running"
    [] \A b \in Backends : native[b] \notin {"created", "capturing", "stopped"} -> "none"
    [] OTHER                                                  -> "stopped"

Contract == INSTANCE CaptureContract WITH
  Packets <- 1 .. MaxPackets,
  Capacities <- {NativeCapacity},
  DefaultCapacity <- NativeCapacity,
  settled <- 1 .. arrivals

PipelineInit == Init /\ capacity = NativeCapacity /\ buffer = <<>> /\ arrivals = 0

\* PktMonApi.dll delivers a packet.
Arrives ==
  /\ arrivals < MaxPackets
  /\ arrivals' = arrivals + 1
  /\ UNCHANGED vars
  /\ Contract!Arrive(arrivals + 1)

\* Mutant: the last packet taken stays in the queue.
DrainTakes_LeavesLast(d) ==
  /\ buffer # <<>>
  /\ LET n == Min({DrainBatch, Len(buffer)}) IN
       /\ ReadPackets(d, SubSeq(buffer, 1, n))
       /\ buffer' = SubSeq(buffer, n, Len(buffer))
  /\ UNCHANGED <<capacity, arrivals>>

\* PktmonReadBatch takes as many packets as there are, at most max_packets.
DrainTakes(d) ==
  /\ buffer # <<>>
  /\ LET n == Min({DrainBatch, Len(buffer)}) IN
       /\ ReadPackets(d, SubSeq(buffer, 1, n))
       /\ buffer' = SubSeq(buffer, n + 1, Len(buffer))
  /\ UNCHANGED arrivals
  /\ Contract!Read

\* Mutant: it gives up while packets are waiting.
DrainTakesNothing_Early(d) == ReadNothing(d) /\ UNCHANGED <<capacity, buffer, arrivals>>

\* It comes back with nothing only when there is nothing, or no capture.
DrainTakesNothing(d) ==
  /\ ReadNothing(d)
  /\ native[my[d]] = "capturing" => buffer = <<>>
  /\ UNCHANGED <<capacity, buffer, arrivals>>

\* Every other step of the sniffer, and what it does to the capture.
SnifferStep(step) ==
  /\ step
  /\ UNCHANGED arrivals
  /\ \/ phase' = phase /\ UNCHANGED <<capacity, buffer>>
     \/ Contract!Open \/ Contract!Begin \/ Contract!End \/ Contract!Close

DrainGoesOn(d) == SnifferStep(DrainHandles(d)) \/ DrainTakes(d) \/ DrainTakesNothing(d)

PipelineNext ==
  \/ Arrives
  \/ SnifferStep(AppCalls \/ AppProceeds \/ ReaderCalls \/ ReaderProceeds)
  \/ \E d \in Drains : DrainGoesOn(d)

PipelineSpec == PipelineInit /\ [][PipelineNext]_pipelineVars

\* As for the sniffer; nothing makes packets arrive.
FairPipelineSpec ==
  /\ PipelineSpec
  /\ WF_pipelineVars(SnifferStep(AppProceeds))
  /\ WF_pipelineVars(SnifferStep(ReaderProceeds))
  /\ \A d \in Drains : WF_pipelineVars(DrainGoesOn(d))

-----------------------------------------------------------------------------
(* Properties *)

\* The packets the drain thread has in hand.
hand == IF \E d \in Drains : Alive(d) THEN batch[CHOOSE d \in Drains : Alive(d)] ELSE <<>>

\* The packets on their way, in either queue or in the drain thread's hand.
Transit == Range(queue) \cup Range(hand) \cup Range(buffer)

Stream == INSTANCE PacketStream WITH
  arrived <- arrivals, transit <- Transit, delivered <- taken

\* Through two queues, batches, callbacks that exit and restarts, the
\* application sees a stream: no packet twice, none before an earlier one.
ImplementsStream == Stream!Spec

\* A packet on its way is lost only where the code means to lose it: it is the
\* oldest of a full native queue when another arrives, or the newest for a full
\* sniffer queue; callback_batch_size is exceeded; the capture is closed, or the
\* callback exits.
LossHasReason ==
  [][\A p \in Transit \ Transit' :
       \/ p = taken'
       \/ Len(buffer) = capacity /\ p = Head(buffer) /\ arrivals' = arrivals + 1
       \/ Len(queue) = QueueSize /\ hand # <<>> /\ p = Head(hand)
       \/ /\ CallbackBatch > 0 /\ Len(hand') = CallbackBatch
          /\ p \in Range(buffer) /\ p < Head(hand')
       \/ phase = "running" /\ phase' = "stopped" /\ p \in Range(buffer)
       \/ error' /\ ~error /\ p \in Range(hand)]_pipelineVars

\* A packet does not stay in the native queue while the drain thread has not
\* failed and nobody stops it, nor in the sniffer's while somebody iterates.
PacketsMoveOn ==
  \A p \in 1 .. MaxPackets :
    /\ p \in Range(buffer) ~> p \notin Range(buffer) \/ error \/ stopping
    /\ p \in Range(queue) ~> p \notin Range(queue) \/ pc[Reader] \notin IterLabels
=============================================================================
