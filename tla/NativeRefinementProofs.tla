----------------------- MODULE NativeRefinementProofs -----------------------
(***************************************************************************)
(* The proof that NativeCapture implements CaptureContract, for every set  *)
(* of readers and workers, every configuration and every capacity.         *)
(***************************************************************************)
EXTENDS NativeRefinement, NativeCaptureProofs

-----------------------------------------------------------------------------
(* The mapping of the queue *)

Ids(q) == [i \in 1 .. Len(q) |-> q[i].id]

\* The identities of a sequence of packets are a sequence of numbers.
LEMMA IdsType ==
  ASSUME NEW q \in Seq(Packet)
  PROVE  Ids(q) \in Seq(Nat) /\ Len(Ids(q)) = Len(q) /\ \A i \in 1 .. Len(q) : Ids(q)[i] = q[i].id
<1>1. ASSUME NEW i \in 1 .. Len(q) PROVE q[i].id \in Nat
  <2>1. q[i] \in Packet
    OBVIOUS
  <2>. QED BY <2>1 DEF Packet
<1>2. Len(q) \in Nat
  OBVIOUS
<1>. QED BY <1>1, <1>2, IsASeq DEF Ids

\* Where enqueue_packet finds the queue within its capacity it drops one packet
\* at most, and only from a full queue.
LEMMA PushDropsOne ==
  ASSUME NEW q \in Seq(Packet), NEW cap \in Nat \ {0}, NEW x \in Packet, Len(q) <= cap
  PROVE  PushDroppingOldest(q, cap, x) = Append(IF Len(q) < cap THEN q ELSE Tail(q), x)
<1>1. CASE Len(q) < cap
  <2>1. Lesser(Len(q), cap - 1) = Len(q)
    BY <1>1 DEF Lesser
  <2>2. SubSeq(q, 1, Len(q)) = q
    BY SubSeqProperties, SeqEqual
  <2>. QED BY <1>1, <2>1, <2>2 DEF PushDroppingOldest
<1>2. CASE Len(q) = cap
  <2>1. Lesser(Len(q), cap - 1) = Len(q) - 1
    BY <1>2 DEF Lesser
  <2>2. q # <<>>
    BY <1>2
  <2>3. Tail(q) = SubSeq(q, 2, Len(q))
    BY <2>2, HeadTailProperties, SubSeqProperties, SeqEqual
  <2>4. Len(q) - (Len(q) - 1) + 1 = 2 /\ ~(Len(q) < cap)
    BY <1>2
  <2>. QED BY <2>1, <2>3, <2>4 DEF PushDroppingOldest
<1>. QED BY <1>1, <1>2

\* The identities of an appended packet, of a tail and of what a read leaves.
LEMMA IdsAppend ==
  ASSUME NEW q \in Seq(Packet), NEW x \in Packet
  PROVE  Ids(Append(q, x)) = Append(Ids(q), x.id)
<1> DEFINE a == Append(q, x)
           b == Append(Ids(q), x.id)
<1>1. a \in Seq(Packet) /\ Len(a) = Len(q) + 1 /\ a[Len(q) + 1] = x /\ \A i \in 1 .. Len(q) : a[i] = q[i]
  BY AppendProperties
<1>2. x.id \in Nat
  BY DEF Packet
<1>3. b \in Seq(Nat) /\ Len(b) = Len(q) + 1 /\ b[Len(q) + 1] = x.id /\ \A i \in 1 .. Len(q) : b[i] = Ids(q)[i]
  BY <1>2, IdsType, AppendProperties
<1> HIDE DEF a, b
<1>4. Ids(a) \in Seq(Nat) /\ Len(Ids(a)) = Len(a) /\ \A i \in 1 .. Len(a) : Ids(a)[i] = a[i].id
  BY <1>1, IdsType
<1>5. ASSUME NEW i \in 1 .. Len(Ids(a)) PROVE Ids(a)[i] = b[i]
  <2>1. CASE i = Len(q) + 1
    BY <1>1, <1>3, <1>4, <2>1
  <2>2. CASE i # Len(q) + 1
    <3>1. i \in 1 .. Len(q)
      BY <1>1, <1>4, <2>2
    <3>. QED BY <1>1, <1>3, <1>4, <3>1, IdsType
  <2>. QED BY <2>1, <2>2
<1>6. Ids(a) = b
  BY <1>1, <1>3, <1>4, <1>5, SeqEqual
<1>. QED BY <1>6 DEF a, b

LEMMA IdsRest ==
  ASSUME NEW q \in Seq(Packet), NEW n \in 1 .. Len(q)
  PROVE  Ids(SubSeq(q, n + 1, Len(q))) = SubSeq(Ids(q), n + 1, Len(q))
<1> DEFINE a == SubSeq(q, n + 1, Len(q))
           b == SubSeq(Ids(q), n + 1, Len(q))
<1>1. Len(q) \in Nat
  OBVIOUS
<1>2. a \in Seq(Packet) /\ Len(a) = Len(q) - n /\ \A i \in 1 .. Len(q) - n : a[i] = q[n + i]
  <2>1. \A i \in n + 1 .. Len(q) : q[i] \in Packet
    OBVIOUS
  <2>2. /\ a \in Seq(Packet)
        /\ Len(a) = IF n + 1 <= Len(q) THEN Len(q) - (n + 1) + 1 ELSE 0
        /\ \A i \in 1 .. Len(q) - (n + 1) + 1 : a[i] = q[n + 1 + i - 1]
    BY <1>1, <2>1, SubSeqProperties
  <2>. QED BY <1>1, <2>2
<1>3. b \in Seq(Nat) /\ Len(b) = Len(q) - n /\ \A i \in 1 .. Len(q) - n : b[i] = Ids(q)[n + i]
  <2>1. \A i \in n + 1 .. Len(q) : Ids(q)[i] \in Nat
    BY IdsType
  <2>2. /\ b \in Seq(Nat)
        /\ Len(b) = IF n + 1 <= Len(q) THEN Len(q) - (n + 1) + 1 ELSE 0
        /\ \A i \in 1 .. Len(q) - (n + 1) + 1 : b[i] = Ids(q)[n + 1 + i - 1]
    BY <1>1, <2>1, SubSeqProperties
  <2>. QED BY <1>1, <2>2
<1> HIDE DEF a, b
<1>4. Ids(a) \in Seq(Nat) /\ Len(Ids(a)) = Len(a) /\ \A i \in 1 .. Len(a) : Ids(a)[i] = a[i].id
  BY <1>2, IdsType
<1>5. ASSUME NEW i \in 1 .. Len(Ids(a)) PROVE Ids(a)[i] = b[i]
  <2>1. i \in 1 .. Len(q) - n /\ n + i \in 1 .. Len(q)
    BY <1>1, <1>2, <1>4
  <2>. QED BY <1>2, <1>3, <1>4, <2>1, IdsType
<1>6. Ids(a) = b
  BY <1>2, <1>3, <1>4, <1>5, SeqEqual
<1>. QED BY <1>6 DEF a, b

LEMMA IdsTail ==
  ASSUME NEW q \in Seq(Packet), q # <<>>
  PROVE  Ids(Tail(q)) = Tail(Ids(q))
<1>1. Len(q) \in Nat \ {0}
  BY EmptySeq
<1>2. Tail(q) = SubSeq(q, 2, Len(q))
  BY TailIsSubSeq
<1>3. Ids(q) \in Seq(Nat) /\ Ids(q) # <<>> /\ Len(Ids(q)) = Len(q)
  BY <1>1, IdsType
<1>4. Tail(Ids(q)) = SubSeq(Ids(q), 2, Len(q))
  BY <1>3, TailIsSubSeq
<1>5. Ids(SubSeq(q, 1 + 1, Len(q))) = SubSeq(Ids(q), 1 + 1, Len(q))
  BY <1>1, IdsRest
<1>6. Ids(SubSeq(q, 2, Len(q))) = SubSeq(Ids(q), 2, Len(q))
  BY <1>5
<1>. QED BY ONLY <1>2, <1>4, <1>6

\* The section of enqueue_packet is the contract's Arrive, seen through Ids.
LEMMA IdsPush ==
  ASSUME NEW q \in Seq(Packet), NEW cap \in Nat \ {0}, NEW x \in Packet, Len(q) <= cap
  PROVE  Ids(PushDroppingOldest(q, cap, x)) = Append(IF Len(Ids(q)) < cap THEN Ids(q) ELSE Tail(Ids(q)), x.id)
<1>1. Len(Ids(q)) = Len(q)
  BY IdsType
<1>2. CASE Len(q) < cap
  <2>1. PushDroppingOldest(q, cap, x) = Append(q, x)
    BY <1>2, PushDropsOne
  <2>. QED BY <1>1, <1>2, <2>1, IdsAppend
<1>3. CASE ~(Len(q) < cap)
  <2>1. q # <<>>
    BY <1>3
  <2>2. PushDroppingOldest(q, cap, x) = Append(Tail(q), x)
    BY <1>3, PushDropsOne
  <2>3. Tail(q) \in Seq(Packet)
    BY <2>1, HeadTailProperties
  <2>4. Ids(Append(Tail(q), x)) = Append(Tail(Ids(q)), x.id)
    BY <2>1, <2>3, IdsAppend, IdsTail
  <2>. QED BY <1>1, <1>3, <2>2, <2>4
<1>. QED BY <1>2, <1>3

-----------------------------------------------------------------------------
(* Packets in flight *)

\* The workers have different packets in hand, each of a callback that was made.
FlightInv ==
  /\ arrivals <= MaxPackets
  /\ \A w \in Workers : packet[w].id \in 0 .. arrivals
  /\ \A w \in Workers : pc[w] = "idle" <=> packet[w].id = 0
  /\ \A v, w \in Workers : v # w /\ packet[v].id = packet[w].id => packet[v].id = 0

\* A callback gets a new packet and gives it up when it returns.
LEMMA FlightKept ==
  ASSUME ThreadTypes, PacketTypes, FlightInv, [Next]_vars
  PROVE  FlightInv'
<1> USE ThreadsAssumption, BoundAssumption
    DEF ThreadTypes, PacketTypes, Threads, FlightInv, Unlock, workVars
<1>1. ASSUME \A w \in Workers : pc'[w] = pc[w] \/ (pc'[w] # "idle" /\ pc[w] # "idle"),
             UNCHANGED <<packet, arrivals>>
      PROVE  FlightInv'
  BY <1>1
<1>2. ASSUME NEW w \in Workers, pc[w] # "idle", packet' = [packet EXCEPT ![w] = NoPacket],
             pc'[w] = "idle", \A v \in Workers \ {w} : pc'[v] = pc[v], arrivals' = arrivals
      PROVE  FlightInv'
  <2>1. /\ packet'[w].id = 0
        /\ \A v \in Workers \ {w} : packet'[v] = packet[v]
    BY <1>2 DEF NoPacket
  <2>. QED BY <1>2, <2>1
<1>3. CASE ControllerStep
  <2>1. (\A w \in Workers : pc'[w] = pc[w]) /\ UNCHANGED <<packet, arrivals>>
    BY <1>3, ControllerFrame
  <2>. QED BY <1>1, <2>1
<1>4. ASSUME NEW t \in Threads, Lock(t) PROVE FlightInv'
  BY <1>1, <1>4 DEF Lock, LockOrder
<1>5. ASSUME NEW w \in Workers, NEW d \in Descriptors, Deliver(w, d) PROVE FlightInv'
  <2>1. /\ packet'[w].id = arrivals + 1 /\ arrivals' = arrivals + 1 /\ arrivals < MaxPackets
        /\ pc'[w] = "callback"
        /\ \A v \in Workers \ {w} : packet'[v] = packet[v] /\ pc'[v] = pc[v]
    BY <1>5 DEF Deliver
  <2>2. arrivals \in Nat /\ MaxPackets \in Nat
    OBVIOUS
  <2>3. arrivals' <= MaxPackets
    BY <2>1, <2>2
  <2>4. ASSUME NEW v \in Workers \ {w}
        PROVE  /\ packet'[v].id \in 0 .. arrivals' /\ packet'[v].id # packet'[w].id
               /\ pc'[v] = "idle" <=> packet'[v].id = 0
    <3>1. packet[v].id \in 0 .. arrivals /\ packet'[v].id = packet[v].id
      BY <2>1
    <3>. QED BY <2>1, <2>2, <3>1
  <2>5. packet'[w].id \in 0 .. arrivals' /\ packet'[w].id # 0 /\ pc'[w] # "idle"
    BY <2>1, <2>2
  <2>6. ASSUME NEW u \in Workers, NEW v \in Workers, u # v, packet'[u].id = packet'[v].id
        PROVE  packet'[u].id = 0
    <3>1. u # w /\ v # w
      BY <2>4, <2>6
    <3>2. packet'[u] = packet[u] /\ packet'[v] = packet[v]
      BY <2>1, <3>1
    <3>3. packet[u].id = packet[v].id => packet[u].id = 0
      BY <2>6
    <3>. QED BY <2>6, <3>2, <3>3
  <2>. QED BY <2>3, <2>4, <2>5, <2>6
<1>6. ASSUME NEW w \in Workers, CallbackCheck(w) PROVE FlightInv'
  BY <1>1, <1>2, <1>6, ZenonT(40) DEF CallbackCheck, CallbackReturns
<1>7. ASSUME NEW w \in Workers, CallbackParse(w) PROVE FlightInv'
  BY <1>1, <1>2, <1>7 DEF CallbackParse, CallbackReturns
<1>8. ASSUME NEW w \in Workers, EnqueueRefused(w) PROVE FlightInv'
  BY <1>1, <1>8 DEF EnqueueRefused
<1>9. ASSUME NEW w \in Workers, Enqueue(w) PROVE FlightInv'
  <2>1. pc'[w] = "idle" /\ \A v \in Workers \ {w} : pc'[v] = pc[v]
    BY <1>9 DEF Enqueue, Waiters
  <2>. QED BY <1>2, <1>9, <2>1 DEF Enqueue
<1>10. ASSUME NEW r \in Readers, ReaderProceeds(r) \/ ReadTimeout(r) PROVE FlightInv'
  BY <1>1, <1>10 DEF ReaderProceeds, ReadFirst, ReadWoken, ReadReturnsNothing, Take, ReadTimeout, Copy
<1>11. ASSUME NEW r \in Readers, NEW call \in ReadApis, NEW n \in 1 .. MaxBatch, ReadCall(r, call, n)
       PROVE  FlightInv'
  BY <1>1, <1>11 DEF ReadCall
<1>12. CASE UNCHANGED vars
  BY <1>1, <1>12 DEF vars, threadVars
<1>. QED
  BY <1>3, <1>4, <1>5, <1>6, <1>7, <1>8, <1>9, <1>10, <1>11, <1>12
  DEF Next, ControllerStep, WorkerProceeds

-----------------------------------------------------------------------------
(* The simulation *)

Simulates == Contract!Next \/ UNCHANGED Contract!vars

\* While a callback is running, and while a reader can find a packet, the
\* contract's capture is running.
LEMMA CallbackMeansRunning ==
  ASSUME IInv, NEW w \in Workers, pc[w] # "idle"
  PROVE  phase = "running"
<1>1. started \/ Publishing
  BY DEF IInv, QuietInv, AllIdle
<1>2. allocated
  BY <1>1 DEF IInv, CallInv, Publishing
<1>. QED BY <1>1, <1>2 DEF phase, IInv, FlowInv

LEMMA PacketMeansRunning ==
  ASSUME IInv, queue # <<>>
  PROVE  phase = "running"
<1>1. started \/ Publishing
  BY DEF IInv, QuietInv
<1>2. allocated
  BY <1>1 DEF IInv, CallInv, Publishing
<1>. QED BY <1>1, <1>2 DEF phase, IInv, FlowInv

\* What leaves these variables alone is a stutter of the contract.
LEMMA Stutter ==
  ASSUME UNCHANGED <<queue, packet, arrivals, config>>, phase' = phase
  PROVE  Simulates
<1>1. UNCHANGED <<buffer, settled>>
  BY DEF buffer, settled
<1>. QED BY <1>1 DEF Simulates, Contract!vars

\* A callback that ends settles its packet.
LEMMA Settling ==
  ASSUME PacketTypes, FlightInv, NEW w \in Workers, pc[w] # "idle",
         packet' = [packet EXCEPT ![w] = NoPacket], arrivals' = arrivals
  PROVE  /\ packet[w].id \in 1 .. MaxPackets
         /\ packet[w].id \notin settled
         /\ settled' = settled \cup {packet[w].id}
<1>1. packet[w].id \in 1 .. arrivals /\ arrivals \in Nat /\ arrivals <= MaxPackets
  BY DEF FlightInv, PacketTypes
<1>2. /\ packet'[w].id = 0 /\ \A v \in Workers \ {w} : packet'[v].id = packet[v].id
      /\ \A v \in Workers \ {w} : packet[v].id # packet[w].id
  BY <1>1 DEF FlightInv, PacketTypes, NoPacket
<1>3. packet[w].id \notin settled
  BY DEF settled
<1>4. ASSUME NEW i PROVE i \in settled' <=> i \in settled \cup {packet[w].id}
  <2>1. i \in settled' <=> i \in 1 .. arrivals /\ \A v \in Workers : packet'[v].id # i
    BY DEF settled
  <2>2. i \in settled <=> i \in 1 .. arrivals /\ \A v \in Workers : packet[v].id # i
    BY DEF settled
  <2>3. i \in 1 .. arrivals => i # 0
    BY <1>1
  <2>. QED BY <1>1, <1>2, <2>1, <2>2, <2>3
<1>5. settled' = settled \cup {packet[w].id}
  BY <1>4
<1>6. packet[w].id \in 1 .. MaxPackets
  BY <1>1, BoundAssumption
<1>. QED BY <1>3, <1>5, <1>6

\* Every step of the shim is a step of the contract or none.
LEMMA StepSimulation ==
  ASSUME IInv, FlightInv, [Next]_vars
  PROVE  Simulates
<1>1. ThreadTypes /\ ControlTypes /\ PacketTypes /\ ThreadTypes'
  BY ThreadTypesKept DEF IInv, TypeOK
<1> USE DEF ControllerAt, controlVars, threadVars, workVars
<1>2. ASSUME NEW w \in Workers, CallbackReturns(w), pc[w] # "idle",
             UNCHANGED <<controlVars, arrivals, flow, queue>>
      PROVE  Simulates
  <2>1. phase = "running" /\ phase' = phase /\ UNCHANGED <<buffer, config>>
    BY <1>2, CallbackMeansRunning DEF phase, buffer
  <2>2. Contract!Refuse(packet[w].id) /\ packet[w].id \in 1 .. MaxPackets
    BY <1>1, <1>2, <2>1, Settling DEF CallbackReturns, Contract!Refuse
  <2>. QED BY <2>2 DEF Simulates, Contract!Next
<1>3. ASSUME NEW w \in Workers, Enqueue(w) PROVE Simulates
  <2>1. phase = "running" /\ phase' = phase /\ UNCHANGED config
    BY <1>3, CallbackMeansRunning DEF phase, Enqueue
  <2>2. /\ packet[w].id \in 1 .. MaxPackets /\ packet[w].id \notin settled
        /\ settled' = settled \cup {packet[w].id}
    BY <1>1, <1>3, Settling DEF Enqueue
  <2>3. PICK cap \in Nat \ {0}, x \in Packet : cap = config.capacity /\ x = packet[w]
    BY <1>1 DEF ControlTypes, PacketTypes
  <2>4. queue \in Seq(Packet) /\ Len(queue) <= cap /\ queue' = PushDroppingOldest(queue, cap, x)
    BY <1>1, <1>3, <2>3 DEF PacketTypes, IInv, QueueIsCurrent, Enqueue
  <2>5. Ids(queue') = Append(IF Len(Ids(queue)) < cap THEN Ids(queue) ELSE Tail(Ids(queue)), x.id)
    BY ONLY <2>3, <2>4, IdsPush
  <2>6. buffer = Ids(queue) /\ buffer' = Ids(queue')
    BY DEF buffer, Ids
  <2>7. Contract!Arrive(packet[w].id)
    BY <2>1, <2>2, <2>3, <2>5, <2>6 DEF Contract!Arrive
  <2>. QED BY <2>2, <2>7 DEF Simulates, Contract!Next
<1>4. ASSUME NEW r \in Readers, queue # <<>>, Take(r) PROVE Simulates
  <2> DEFINE n == Lesser(count[r], Len(queue))
  <2>1. count[r] \in Nat \ {0} /\ queue \in Seq(Packet)
    BY <1>1 DEF PacketTypes
  <2>2. n \in 1 .. Len(queue)
    BY ONLY <1>4, <2>1, TakeProperties
  <2>3. queue' = SubSeq(queue, n + 1, Len(queue)) /\ UNCHANGED <<config, allocated, started, flow, arrivals, packet>>
    BY <1>4 DEF Take
  <2> HIDE DEF n
  <2>4. Ids(queue') = SubSeq(Ids(queue), n + 1, Len(Ids(queue))) /\ n \in 1 .. Len(Ids(queue))
    BY <2>1, <2>2, <2>3, IdsRest, IdsType
  <2>5. buffer = Ids(queue) /\ buffer' = Ids(queue')
    BY DEF buffer, Ids
  <2>6. phase = "running" /\ phase' = phase /\ settled' = settled
    BY <1>4, <2>3, PacketMeansRunning DEF phase, settled
  <2>7. Contract!Read
    BY <2>3, <2>4, <2>5, <2>6 DEF Contract!Read
  <2>. QED BY <2>7 DEF Simulates, Contract!Next
<1>5. ASSUME NEW w \in Workers, NEW d \in Descriptors, Deliver(w, d) PROVE Simulates
  <2>1. arrivals' = arrivals + 1 /\ arrivals \in Nat /\ packet[w].id = 0 /\ packet'[w].id = arrivals + 1
    BY <1>1, <1>5 DEF Deliver, PacketTypes, FlightInv
  <2>2. \A v \in Workers \ {w} : packet'[v] = packet[v]
    BY <1>1, <1>5 DEF Deliver, PacketTypes
  <2>3. ASSUME NEW i PROVE i \in settled' <=> i \in settled
    <3>1. i \in settled' <=> i \in 1 .. arrivals + 1 /\ \A v \in Workers : packet'[v].id # i
      BY <2>1 DEF settled
    <3>2. i \in settled <=> i \in 1 .. arrivals /\ \A v \in Workers : packet[v].id # i
      BY DEF settled
    <3>3. i \in 1 .. arrivals => i # 0 /\ i # arrivals + 1 /\ i \in 1 .. arrivals + 1
      BY <2>1
    <3>4. i \in 1 .. arrivals + 1 /\ i # arrivals + 1 => i \in 1 .. arrivals
      BY <2>1
    <3>. QED BY <2>1, <2>2, <3>1, <3>2, <3>3, <3>4
  <2>4. UNCHANGED <<settled, buffer, phase, config>>
    BY <1>5, <2>3 DEF Deliver, buffer, phase
  <2>. QED BY <2>4 DEF Simulates, Contract!vars
<1>6. ASSUME NEW t \in Threads, Lock(t) PROVE Simulates
  BY <1>6, Stutter DEF Lock, phase
<1>7. ASSUME NEW w \in Workers, CallbackCheck(w) \/ CallbackParse(w) \/ EnqueueRefused(w) PROVE Simulates
  <2>1. CASE UNCHANGED packet
    BY <1>7, <2>1, Stutter DEF CallbackCheck, CallbackParse, EnqueueRefused, phase
  <2>2. CASE ~UNCHANGED packet
    BY <1>2, <1>7, <2>2 DEF CallbackCheck, CallbackParse, EnqueueRefused
  <2>. QED BY <2>1, <2>2
<1>8. ASSUME NEW r \in Readers, ReadReturnsNothing(r) PROVE Simulates
  BY <1>8, Stutter DEF ReadReturnsNothing, phase
<1>9. ASSUME NEW r \in Readers, ReaderProceeds(r) \/ ReadTimeout(r) PROVE Simulates
  BY <1>4, <1>8, <1>9, Stutter DEF ReaderProceeds, ReadFirst, ReadWoken, ReadTimeout, Copy, phase
<1>10. ASSUME NEW r \in Readers, NEW call \in ReadApis, NEW n \in 1 .. MaxBatch, ReadCall(r, call, n)
       PROVE  Simulates
  BY <1>10, Stutter DEF ReadCall, phase
<1>11. CASE UNCHANGED vars
  BY <1>11, Stutter DEF vars, phase
<1>12. ASSUME NEW c \in Configs, StartBegin(c) PROVE Simulates
  <2>1. phase = "stopped" /\ phase' = phase
    BY <1>12 DEF StartBegin, phase, IInv, FlowInv, Publishing
  <2>2. UNCHANGED <<buffer, settled>> /\ config'.capacity \in {ApplyConfig(e).capacity : e \in Configs}
    BY <1>12 DEF StartBegin, buffer, settled
  <2>. QED BY <2>1, <2>2 DEF Simulates, Contract!Next, Contract!Configure
<1>13. CASE StartCallSucceeds
  <2>1. PICK pair \in CallOrder : /\ pc[Controller] = pair[1]
                                  /\ flow' = IF pair[1] = "activate" THEN "on" ELSE flow
                                  /\ UNCHANGED <<allocated, started, config, queue, packet, arrivals>>
    BY <1>13 DEF StartCallSucceeds
  <2>2. CASE pair[1] = "activate"
    <3>1. allocated /\ ~started /\ flow # "on"
      BY <2>1, <2>2 DEF IInv, CallInv, FlowInv, Publishing, StartLabels, StartCalls
    <3>2. phase = "stopped" /\ phase' = "running" /\ UNCHANGED <<config, buffer, settled>>
      BY <2>1, <2>2, <3>1 DEF phase, buffer, settled
    <3>. QED BY <3>2 DEF Simulates, Contract!Next, Contract!Begin
  <2>3. CASE pair[1] # "activate"
    BY <2>1, <2>3, Stutter DEF phase
  <2>. QED BY <2>2, <2>3
<1>14. CASE StartAgain \/ (\E filled \in BOOLEAN : StartCallFails(filled)) \/ SetError
  BY <1>14, Stutter DEF StartAgain, StartCallFails, SetError, phase
<1>15. CASE Publish
  <2>1. flow = "on" /\ allocated
    BY <1>15 DEF Publish, IInv, FlowInv, CallInv, Publishing
  <2>. QED BY <1>15, <2>1, Stutter DEF Publish, phase
<1>16. CASE CloseStreamBegin \/ CloseStreamEnd
  <2>1. flow = "on" => started
    BY <1>16 DEF CloseStreamBegin, CloseStreamEnd, IInv, FlowInv, Publishing
  <2>. QED BY <1>16, <2>1, Stutter DEF CloseStreamBegin, CloseStreamEnd, phase
<1>17. CASE CloseHandle \/ CloseReturns \/ StopNotify \/ \E call \in {"stop", "destroy"} : StopBegin(call)
  BY <1>17, Stutter DEF CloseHandle, CloseReturns, StopNotify, StopBegin, phase
<1>18. CASE StopClear
  <2>1. allocated /\ flow # "on"
    BY <1>18 DEF StopClear, IInv, FlowInv, CallInv, Publishing
  <2>2. queue' = <<>> /\ ~started' /\ UNCHANGED <<allocated, flow, config, packet, arrivals>>
    BY <1>18 DEF StopClear
  <2>3. CASE started
    <3>1. phase = "running" /\ phase' = "stopped" /\ settled' = settled
      BY <2>1, <2>2, <2>3 DEF phase, settled
    <3>2. Ids(queue') = <<>>
      <4>1. queue' \in Seq(Packet)
        BY <2>2, EmptySeq
      <4>2. Ids(queue') \in Seq(Nat) /\ Len(Ids(queue')) = 0
        BY <2>2, <4>1, IdsType
      <4>. QED BY <4>2, EmptySeq
    <3>3. buffer' = <<>>
      BY <3>2 DEF buffer, Ids
    <3>. QED BY <2>2, <3>1, <3>3 DEF Simulates, Contract!Next, Contract!End
  <2>4. CASE ~started
    <3>1. queue = <<>>
      BY <1>18, <2>4 DEF StopClear, IInv, QuietInv, Publishing
    <3>. QED BY <2>1, <2>2, <2>4, <3>1, Stutter DEF phase
  <2>. QED BY <2>3, <2>4
<1>19. CASE Delete
  <2>1. ~started /\ flow # "on" /\ allocated
    BY <1>19 DEF Delete, IInv, CallInv, FlowInv, Publishing
  <2>2. phase = "stopped" /\ phase' = "none" /\ UNCHANGED <<config, buffer, settled>>
    BY <1>19, <2>1 DEF Delete, phase, buffer, settled
  <2>. QED BY <2>2 DEF Simulates, Contract!Next, Contract!Close
<1>20. CASE Create
  <2>1. ~started /\ flow # "on"
    BY <1>20 DEF Create, IInv, CallInv, FlowInv, Publishing
  <2>2. queue = <<>>
    BY <1>20, <2>1 DEF Create, IInv, QuietInv, Publishing
  <2>3. phase = "none" /\ phase' = "stopped" /\ UNCHANGED <<buffer, settled>> /\ config'.capacity = DefaultCapacity
    BY <1>20, <2>1, <2>2 DEF Create, phase, buffer, settled, DefaultConfig
  <2>. QED BY <2>3 DEF Simulates, Contract!Next, Contract!Open
<1>. QED
  BY <1>3, <1>5, <1>6, <1>7, <1>9, <1>10, <1>11, <1>12, <1>13, <1>14, <1>15, <1>16, <1>17, <1>18, <1>19, <1>20
  DEF Next, ControllerCalls, ControllerProceeds, WorkerProceeds

\* Initially nothing is in flight and the contract's capture is a new one.
LEMMA InitSimulation == Init => FlightInv /\ Contract!Init
<1> SUFFICES ASSUME Init PROVE FlightInv /\ Contract!Init
  OBVIOUS
<1> USE DEF Init
<1>1. FlightInv
  BY BoundAssumption DEF FlightInv, NoPacket, Threads
<1>2. phase = "stopped" /\ config.capacity = DefaultCapacity
  BY DEF phase, DefaultConfig
<1>3. buffer = <<>>
  <2>1. queue \in Seq(Packet)
    BY EmptySeq
  <2>2. Ids(queue) \in Seq(Nat) /\ Len(Ids(queue)) = 0
    BY <2>1, IdsType
  <2>3. Ids(queue) = <<>>
    BY <2>2, EmptySeq
  <2>. QED BY <2>3 DEF buffer, Ids
<1>4. settled = {}
  BY DEF settled
<1>. QED BY <1>1, <1>2, <1>3, <1>4 DEF Contract!Init

\* The shim implements the contract of its callers, whatever its threads do and
\* whichever calls fail.
THEOREM Refinement == Spec => ImplementsContract
<1>1. Init => IInv /\ FlightInv /\ Contract!Init
  BY InitInvariant, InitSimulation
<1>2. IInv /\ FlightInv /\ [Next]_vars => IInv' /\ FlightInv'
  <2>1. IInv => ThreadTypes /\ PacketTypes
    BY DEF IInv, TypeOK
  <2>. QED BY <2>1, StepInvariant, FlightKept
<1>3. IInv /\ FlightInv /\ [Next]_vars => [Contract!Next]_(Contract!vars)
  BY StepSimulation DEF Simulates
<1>. QED BY <1>1, <1>2, <1>3, PTL DEF Spec, ImplementsContract, Contract!Spec
=============================================================================
