--------------------------- MODULE SnifferProofs ---------------------------
(***************************************************************************)
(* Proofs about Sniffer, for every number of drain threads, backends and   *)
(* packets, every limit and every way to stop and to end a callback.       *)
(***************************************************************************)
EXTENDS Sniffer, SequenceTheorems, TLAPS

USE SnifferAssumption
    DEF Drains, Stoppers, Threads, Backends, None, At, AppAt, Goes, Alive,
        handleVars, flagVars, packetVars, dataVars

-----------------------------------------------------------------------------
(* Lemmas about sequences *)

\* A list that read_many returns, and what is kept of it.
LEMMA NewestProperties ==
  ASSUME NEW n \in Nat \ {0}, NEW low \in Nat, NEW list \in [1 .. n -> low + 1 .. MaxPackets],
         Ascending(list)
  PROVE  /\ Newest(list) \in Seq(1 .. MaxPackets)
         /\ Newest(list) # <<>> /\ Len(Newest(list)) <= n
         /\ Ascending(Newest(list))
         /\ list[Len(list)] \in low + 1 .. MaxPackets
         /\ \A i \in 1 .. Len(Newest(list)) :
              low < Newest(list)[i] /\ Newest(list)[i] <= list[Len(list)]
<1>1. list \in Seq(low + 1 .. MaxPackets) /\ Len(list) = n
  OBVIOUS
<1>2. \A i \in 1 .. n : list[i] \in 1 .. MaxPackets /\ low < list[i] /\ list[i] <= list[n]
  BY <1>1 DEF Ascending
<1>3. CASE CallbackBatch > 0 /\ n > CallbackBatch
  <2> DEFINE m    == n - CallbackBatch + 1
             kept == SubSeq(list, m, n)
  <2>1. m \in 1 .. n /\ n - m + 1 = CallbackBatch
    BY <1>3
  <2>2. \A i \in m .. n : list[i] \in 1 .. MaxPackets
    BY <1>2, <2>1
  <2>3. /\ kept \in Seq(1 .. MaxPackets)
        /\ Len(kept) = CallbackBatch
        /\ \A i \in 1 .. CallbackBatch : kept[i] = list[m + i - 1]
    <3>1. m \in Int /\ n \in Int /\ m <= n
      BY ONLY <2>1, n \in Nat \ {0}
    <3> HIDE DEF m
    <3>2. /\ kept \in Seq(1 .. MaxPackets)
          /\ Len(kept) = IF m <= n THEN n - m + 1 ELSE 0
          /\ \A i \in 1 .. n - m + 1 : kept[i] = list[m + i - 1]
      BY ONLY <2>2, <3>1, SubSeqProperties
    <3>. QED BY ONLY <2>1, <3>1, <3>2
  <2>4. \A i \in 1 .. CallbackBatch : m + i - 1 \in 1 .. n
    BY <2>1
  <2>5. Newest(list) = kept
    BY <1>1, <1>3 DEF Newest
  <2> HIDE DEF m, kept
  <2>6. Ascending(kept)
    BY <1>1, <2>1, <2>3, <2>4 DEF Ascending
  <2>7. kept # <<>> /\ Len(kept) <= n
    BY <1>3, <2>3
  <2>8. \A i \in 1 .. CallbackBatch : low < kept[i] /\ kept[i] <= list[n]
    BY <1>2, <2>3, <2>4
  <2>9. list[n] \in low + 1 .. MaxPackets
    OBVIOUS
  <2>. QED BY <1>1, <2>3, <2>5, <2>6, <2>7, <2>8, <2>9
<1>4. CASE ~(CallbackBatch > 0 /\ n > CallbackBatch)
  <2>1. Newest(list) = list
    BY <1>1, <1>4 DEF Newest
  <2>2. list \in Seq(1 .. MaxPackets) /\ list # <<>>
    BY <1>1, <1>2
  <2>. QED BY <1>1, <1>2, <2>1, <2>2
<1>. QED BY <1>3, <1>4

-----------------------------------------------------------------------------
(* Type correctness *)

PcTypes ==
  /\ pc \in [Threads -> AppLabels \cup ReaderLabels \cup DrainLabels]
  /\ pc[App] \in AppLabels /\ pc[Reader] \in ReaderLabels
  /\ \A d \in Drains : pc[d] \in DrainLabels

AttributeTypes ==
  /\ my \in [Stoppers -> Backends \cup {None}]
  /\ native \in [Backends -> HandleStates]
  /\ backend \in Backends \cup {None} /\ owns \in BOOLEAN
  /\ stopping \in BOOLEAN /\ started \in BOOLEAN
  /\ error \in BOOLEAN /\ callback_error \in BOOLEAN
  /\ thread \in Drains \cup {None}
  /\ left \subseteq Stoppers

PacketTypes ==
  /\ batch \in [Drains -> Seq(1 .. MaxPackets)]
  /\ \A d \in Drains : Len(batch[d]) <= DrainBatch
  /\ packets \in Seq(1 .. MaxPackets)
  /\ queue \in Seq(1 .. MaxPackets) /\ Len(queue) <= QueueSize
  /\ captured \in 0 .. MaxPackets /\ taken \in 0 .. MaxPackets

\* A drain thread that handles a packet has one.
HandLabels == {"store", "prn", "put"} \cup StopLabels
HandInv    == \A d \in Drains : pc[d] \in HandLabels => batch[d] # <<>>

\* Which call of the application is under way, and what it knows.
StartLabels == {"start_native", "start_assign", "start_clear", "start_run"}
CloseLabels == {"close_stop", "close_destroy", "close_forget"}
CallInv ==
  /\ pc[App] \in StartLabels => ~started /\ thread < MaxThreads /\ my[App] # None
  /\ pc[App] \in StopLabels => stopping
  /\ pc[App] \in CloseLabels => ~started
  /\ AppAt("stop_timeout") => App \in left
  /\ AppAt("idle") /\ result.call = "stop" =>
       IF result.raised THEN error ELSE ~started /\ stopping

\* The steps of the reader, and those of a drain thread that only move it on.
ReaderSteps == ReaderCalls \/ ReaderProceeds
DrainSteps(d) ==
  Begin(d) \/ Check(d) \/ Fetch(d) \/ Enter(d) \/ ReadNothing(d) \/ PrnEnds(d)

\* A step keeps every thread at a label of its own.
LEMMA PcTypesKept ==
  ASSUME PcTypes, AttributeTypes, CallInv, [Next]_vars
  PROVE  PcTypes'
<1> USE DEF PcTypes, AppLabels, ReaderLabels, DrainLabels, StopLabels, IterLabels, Ends
<1>1. CASE StartLeavesAll
  BY <1>1 DEF StartLeavesAll
<1>2. CASE StartBegin
  BY <1>2 DEF StartBegin
<1>3. CASE StartNativeSucceeds \/ StartNativeFails
  BY <1>3 DEF StartNativeSucceeds, StartNativeFails
<1>4. CASE StartAssign \/ StartClear
  BY <1>4 DEF StartAssign, StartClear
<1>5. CASE StartRun
  <2>1. thread + 1 \in Drains /\ thread + 1 # App /\ thread + 1 # Reader
    BY <1>5 DEF StartRun, CallInv, StartLabels, AttributeTypes
  <2>2. /\ pc'[App] = "idle" /\ pc'[thread + 1] = "begin"
        /\ \A t \in Threads \ {App, thread + 1} : pc'[t] = pc[t]
        /\ pc' \in [Threads -> AppLabels \cup ReaderLabels \cup DrainLabels]
    BY <1>5, <2>1 DEF StartRun
  <2>. QED BY <2>1, <2>2
<1>6. ASSUME NEW t \in Stoppers, NEW how \in JoinModes \cup CallbackModes, Stop(t, how) PROVE PcTypes'
  BY <1>6 DEF Stop
<1>7. ASSUME NEW t \in Stoppers, StopJoin(t) PROVE PcTypes'
  BY <1>7 DEF StopJoin, PassesJoin
<1>8. ASSUME NEW t \in Stoppers, StopTake(t) PROVE PcTypes'
  BY <1>8 DEF StopTake
<1>9. ASSUME NEW t \in Stoppers, StopRelease(t) PROVE PcTypes'
  BY <1>9 DEF StopRelease
<1>10. ASSUME NEW t \in Stoppers, Close(t) PROVE PcTypes'
  BY <1>10 DEF Close
<1>11. CASE ReaderSteps
  BY <1>11 DEF ReaderSteps, ReaderCalls, ReaderProceeds, ReadCall, IterBegin, IterCheck, IterRead,
               ReadTakes, ReadTimesOut, ReaderMoves
<1>12. ASSUME NEW d \in Drains, DrainSteps(d) PROVE PcTypes'
  BY <1>12 DEF DrainSteps, Begin, Check, Fetch, Enter, ReadNothing, PrnEnds, DrainMoves, Fails
<1>13. ASSUME NEW d \in Drains, NEW list, ReadPackets(d, list) PROVE PcTypes'
  BY <1>13 DEF ReadPackets
<1>14. ASSUME NEW d \in Drains, StorePacket(d) PROVE PcTypes'
  BY <1>14 DEF StorePacket
<1>15. ASSUME NEW d \in Drains, Put(d) PROVE PcTypes'
  BY <1>15 DEF Put
<1>16. CASE UNCHANGED vars
  BY <1>16 DEF vars
<1>. QED
  BY <1>1, <1>2, <1>3, <1>4, <1>5, <1>6, <1>7, <1>8, <1>9, <1>10, <1>11, <1>12, <1>13, <1>14, <1>15, <1>16
  DEF Next, AppCalls, AppProceeds, StopProceeds, ReaderSteps, DrainProceeds, DrainHandles, DrainReads, DrainSteps

\* A step keeps the types of the sniffer's attributes.
LEMMA AttributeTypesKept ==
  ASSUME PcTypes, AttributeTypes, CallInv, [Next]_vars
  PROVE  AttributeTypes'
<1> USE DEF AttributeTypes, HandleStates, Ends
<1>1. CASE StartLeavesAll
  BY <1>1 DEF StartLeavesAll
<1>2. CASE StartBegin
  BY <1>2 DEF StartBegin
<1>3. CASE StartNativeSucceeds \/ StartNativeFails
  BY <1>3 DEF StartNativeSucceeds, StartNativeFails
<1>4. CASE StartAssign \/ StartClear
  BY <1>4 DEF StartAssign, StartClear
<1>5. CASE StartRun
  BY <1>5 DEF StartRun, CallInv, StartLabels
<1>6. ASSUME NEW t \in Stoppers, NEW how \in JoinModes \cup CallbackModes, Stop(t, how) PROVE AttributeTypes'
  BY <1>6 DEF Stop
<1>7. ASSUME NEW t \in Stoppers, StopJoin(t) PROVE AttributeTypes'
  BY <1>7 DEF StopJoin, PassesJoin
<1>8. ASSUME NEW t \in Stoppers, StopTake(t) PROVE AttributeTypes'
  BY <1>8 DEF StopTake
<1>9. ASSUME NEW t \in Stoppers, StopRelease(t) PROVE AttributeTypes'
  BY <1>9 DEF StopRelease
<1>10. ASSUME NEW t \in Stoppers, Close(t) PROVE AttributeTypes'
  BY <1>10 DEF Close
<1>11. CASE ReaderSteps
  BY <1>11 DEF ReaderSteps, ReaderCalls, ReaderProceeds, ReadCall, IterBegin, IterCheck, IterRead,
               ReadTakes, ReadTimesOut, ReaderMoves
<1>12. ASSUME NEW d \in Drains, DrainSteps(d) PROVE AttributeTypes'
  BY <1>12, ZenonT(40) DEF DrainSteps, Begin, Check, Fetch, Enter, ReadNothing, PrnEnds, DrainMoves, Fails
<1>13. ASSUME NEW d \in Drains, NEW list, ReadPackets(d, list) PROVE AttributeTypes'
  BY <1>13 DEF ReadPackets
<1>14. ASSUME NEW d \in Drains, StorePacket(d) \/ Put(d) PROVE AttributeTypes'
  BY <1>14 DEF StorePacket, Put
<1>15. CASE UNCHANGED vars
  BY <1>15 DEF vars
<1>. QED
  BY <1>1, <1>2, <1>3, <1>4, <1>5, <1>6, <1>7, <1>8, <1>9, <1>10, <1>11, <1>12, <1>13, <1>14, <1>15
  DEF Next, AppCalls, AppProceeds, StopProceeds, ReaderSteps, DrainProceeds, DrainHandles, DrainReads, DrainSteps

\* A step that leaves the packets alone.
PacketsAlone == UNCHANGED packetVars

\* The steps of threads that do not read from the native capture.
QuietStep ==
  \/ AppCalls \/ AppProceeds \/ ReaderCalls \/ ReaderProceeds
  \/ \E d \in Drains : DrainHandles(d) \/ ReadNothing(d)

\* Only these of them touch packets.
LEMMA QuietSteps ==
  ASSUME QuietStep \/ UNCHANGED vars
  PROVE  \/ PacketsAlone
         \/ ReadTakes
         \/ \E d \in Drains : StorePacket(d) \/ Put(d)
<1> USE DEF PacketsAlone
<1>1. CASE AppCalls \/ AppProceeds
  BY <1>1 DEF AppCalls, AppProceeds, StartLeavesAll, StartBegin, StartNativeSucceeds, StartNativeFails, StartAssign,
              StartClear, StartRun, Stop, StopProceeds, StopJoin, PassesJoin, StopTake, StopRelease, Close
<1>2. CASE ReaderCalls \/ ReaderProceeds
  BY <1>2 DEF ReaderCalls, ReaderProceeds, ReadCall, IterBegin, IterCheck, IterRead, ReadTimesOut, ReaderMoves
<1>3. ASSUME NEW d \in Drains, DrainSteps(d) PROVE PacketsAlone
  BY <1>3 DEF DrainSteps, Begin, Check, Fetch, Enter, ReadNothing, PrnEnds, DrainMoves, Fails
<1>4. ASSUME NEW d \in Drains, StopProceeds(d) \/ \E how \in CallbackModes : Stop(d, how) PROVE PacketsAlone
  BY <1>4 DEF StopProceeds, StopJoin, PassesJoin, StopTake, StopRelease, Close, Stop
<1>5. CASE UNCHANGED vars
  BY <1>5 DEF vars
<1>. QED
  BY <1>1, <1>2, <1>3, <1>4, <1>5 DEF QuietStep, DrainHandles, DrainSteps

\* And of all steps, a read.
LEMMA PacketSteps ==
  ASSUME [Next]_vars
  PROVE  \/ PacketsAlone
         \/ ReadTakes
         \/ \E d \in Drains : StorePacket(d) \/ Put(d)
         \/ \E d \in Drains : \E n \in 1 .. DrainBatch :
              \E list \in [1 .. n -> captured + 1 .. MaxPackets] : Ascending(list) /\ ReadPackets(d, list)
BY QuietSteps DEF Next, QuietStep, DrainProceeds, DrainReads

\* A step keeps the types of the packets on their way.
LEMMA PacketTypesKept ==
  ASSUME PcTypes, PacketTypes, HandInv, [Next]_vars
  PROVE  PacketTypes'
<1> USE DEF PacketTypes
<1>1. CASE PacketsAlone
  BY <1>1 DEF PacketsAlone
<1>2. CASE ReadTakes
  BY <1>2 DEF ReadTakes
<1>3. ASSUME NEW d \in Drains, StorePacket(d) \/ Put(d) PROVE PacketTypes'
  <2>1. batch[d] # <<>>
    BY <1>3 DEF HandInv, HandLabels, StorePacket, Put
  <2>a. batch[d] \in Seq(1 .. MaxPackets) /\ Len(batch[d]) <= DrainBatch
    OBVIOUS
  <2>2. /\ Head(batch[d]) \in 1 .. MaxPackets
        /\ Tail(batch[d]) \in Seq(1 .. MaxPackets)
        /\ Len(Tail(batch[d])) = Len(batch[d]) - 1
        /\ \A s \in Seq(1 .. MaxPackets) :
             Append(s, Head(batch[d])) \in Seq(1 .. MaxPackets) /\ Len(Append(s, Head(batch[d]))) = Len(s) + 1
    <3>1. Head(batch[d]) \in 1 .. MaxPackets
      BY ONLY <2>a, <2>1, HeadTailProperties
    <3>2. Tail(batch[d]) \in Seq(1 .. MaxPackets) /\ Len(Tail(batch[d])) = Len(batch[d]) - 1
      BY ONLY <2>a, <2>1, HeadTailProperties
    <3>3. ASSUME NEW s \in Seq(1 .. MaxPackets)
          PROVE  Append(s, Head(batch[d])) \in Seq(1 .. MaxPackets) /\ Len(Append(s, Head(batch[d]))) = Len(s) + 1
      BY ONLY <3>1
    <3>. QED BY <3>1, <3>2, <3>3
  <2>3. CASE StorePacket(d)
    <3>1. packets' \in Seq(1 .. MaxPackets)
      <4>1. packets' = Append(packets, Head(batch[d])) \/ packets' = packets
        BY <2>3 DEF StorePacket
      <4>. QED BY <2>2, <4>1
    <3>. QED BY <2>3, <3>1 DEF StorePacket
  <2>4. CASE Put(d)
    <3>1. queue' \in Seq(1 .. MaxPackets) /\ Len(queue') <= QueueSize
      <4>1. \/ Len(queue) < QueueSize /\ queue' = Append(queue, Head(batch[d]))
            \/ queue' = queue
        BY <2>4 DEF Put
      <4>2. queue \in Seq(1 .. MaxPackets) /\ Len(queue) \in Nat /\ Len(queue) <= QueueSize
        OBVIOUS
      <4>3. /\ Append(queue, Head(batch[d])) \in Seq(1 .. MaxPackets)
            /\ Len(Append(queue, Head(batch[d]))) = Len(queue) + 1
        BY <2>2, <4>2
      <4>4. CASE Len(queue) < QueueSize /\ queue' = Append(queue, Head(batch[d]))
        BY <4>2, <4>3, <4>4
      <4>5. CASE queue' = queue
        BY <4>2, <4>5
      <4>. QED BY <4>1, <4>4, <4>5
    <3>2. /\ batch' \in [Drains -> Seq(1 .. MaxPackets)]
          /\ \A e \in Drains : Len(batch'[e]) <= DrainBatch
      <4>1. batch' = [batch EXCEPT ![d] = Tail(batch[d])]
        BY <2>4 DEF Put
      <4>2. Len(Tail(batch[d])) <= DrainBatch
        <5>1. DrainBatch \in Nat /\ Len(batch[d]) \in Nat
          BY <2>a, SnifferAssumption
        <5>. QED BY ONLY <2>2, <2>a, <5>1
      <4>3. batch \in [Drains -> Seq(1 .. MaxPackets)] /\ \A e \in Drains : Len(batch[e]) <= DrainBatch
        OBVIOUS
      <4>4. batch' \in [Drains -> Seq(1 .. MaxPackets)]
        BY ONLY <2>2, <4>1, <4>3
      <4>. QED BY ONLY <4>1, <4>2, <4>3, <4>4
    <3>. QED BY <2>4, <3>1, <3>2 DEF Put
  <2>. QED BY <1>3, <2>3, <2>4
<1>4. ASSUME NEW d \in Drains, NEW n \in 1 .. DrainBatch, NEW list \in [1 .. n -> captured + 1 .. MaxPackets],
             Ascending(list), ReadPackets(d, list)
      PROVE  PacketTypes'
  <2>1. /\ Newest(list) \in Seq(1 .. MaxPackets) /\ Len(Newest(list)) <= n
        /\ list[Len(list)] \in captured + 1 .. MaxPackets
    <3>1. n \in Nat \ {0} /\ captured \in Nat
      BY <1>4
    <3>. QED BY <1>4, <3>1, NewestProperties
  <2>. QED BY <1>4, <2>1, SMTT(30) DEF ReadPackets
<1>. QED BY <1>1, <1>2, <1>3, <1>4, PacketSteps

-----------------------------------------------------------------------------
(* The inductive invariant, its general part *)

PastLabels == {"stop_take", "stop_release"} \cup CloseLabels

\* Threads are started one after the other, and only one that runs, or ran, has
\* left another behind.
BornInv == \A d \in Drains :
  /\ pc[d] = "unborn" <=> d > thread
  /\ d \in left => d <= thread
  /\ pc[d] \in PastLabels => d \in left

\* A backend that somebody knows was created.
KnownInv ==
  /\ backend # None => native[backend] # "none"
  /\ \A t \in Stoppers : my[t] # None => native[my[t]] # "none"
  /\ \A d \in Drains : pc[d] \in {"enter", "reading"} => my[d] # None
  /\ \A t \in Stoppers : pc[t] \in CloseLabels => owns /\ my[t] # None

\* Whose the backend is: one of the caller's is the only one there is and is never
\* closed; one of the sniffer's own is nobody else's while a start() prepares it.
OwnInv ==
  /\ owns /\ ~started /\ pc[App] \notin {"start_clear", "start_run"} => backend = None
  /\ ~owns => /\ backend = 1 /\ native[1] \in {"created", "capturing"}
              /\ \A b \in Backends \ {1} : native[b] = "none"
  /\ owns /\ pc[App] \in {"start_native", "start_assign"} => \A d \in Drains : my[d] # my[App]
  /\ pc[App] \in {"start_native", "start_assign"} => native[my[App]] \in {"created", "capturing"}

Types == PcTypes /\ AttributeTypes /\ PacketTypes

GeneralInv == Types /\ HandInv /\ CallInv /\ BornInv /\ KnownInv /\ OwnInv

\* A step keeps a packet in the hand of a drain thread that handles it.
LEMMA HandKept ==
  ASSUME Types, HandInv, [Next]_vars
  PROVE  HandInv'
<1> USE DEF HandInv, HandLabels, StopLabels, Types, PcTypes, Ends
<1>1. CASE StartLeavesAll \/ StartBegin \/ StartNativeSucceeds \/ StartNativeFails \/ StartAssign \/ StartClear
  BY <1>1 DEF StartLeavesAll, StartBegin, StartNativeSucceeds, StartNativeFails, StartAssign, StartClear
<1>2. CASE StartRun
  BY <1>2 DEF StartRun
<1>3. ASSUME NEW t \in Stoppers, NEW how \in JoinModes \cup CallbackModes, Stop(t, how) PROVE HandInv'
  BY <1>3 DEF Stop
<1>4. ASSUME NEW t \in Stoppers, StopProceeds(t) PROVE HandInv'
  BY <1>4 DEF StopProceeds, StopJoin, PassesJoin, StopTake, StopRelease, Close
<1>5. CASE ReaderSteps
  BY <1>5 DEF ReaderSteps, ReaderCalls, ReaderProceeds, ReadCall, IterBegin, IterCheck, IterRead,
              ReadTakes, ReadTimesOut, ReaderMoves
<1>6. ASSUME NEW d \in Drains, DrainSteps(d) PROVE HandInv'
  BY <1>6 DEF DrainSteps, Begin, Check, Fetch, Enter, ReadNothing, PrnEnds, DrainMoves, Fails
<1>7. ASSUME NEW d \in Drains, NEW n \in 1 .. DrainBatch, NEW list \in [1 .. n -> captured + 1 .. MaxPackets],
             Ascending(list), ReadPackets(d, list)
      PROVE  HandInv'
  <2>1. n \in Nat \ {0} /\ captured \in Nat
    BY <1>7 DEF PacketTypes
  <2>2. Newest(list) # <<>>
    BY <1>7, <2>1, NewestProperties
  <2>. QED BY <1>7, <2>2 DEF ReadPackets, PacketTypes
<1>8. ASSUME NEW d \in Drains, StorePacket(d) PROVE HandInv'
  BY <1>8 DEF StorePacket
<1>9. ASSUME NEW d \in Drains, Put(d) PROVE HandInv'
  <2>1. batch[d] \in Seq(1 .. MaxPackets) /\ batch[d] # <<>>
    BY <1>9 DEF Put, PacketTypes
  <2>2. Len(batch[d]) # 1 => Tail(batch[d]) # <<>>
    <3>1. Len(Tail(batch[d])) = Len(batch[d]) - 1
      BY <2>1
    <3>2. Tail(batch[d]) \in Seq(1 .. MaxPackets)
      BY ONLY <2>1, HeadTailProperties
    <3>3. Tail(batch[d]) = <<>> <=> Len(Tail(batch[d])) = 0
      BY <3>2, EmptySeq
    <3>. QED BY <2>1, <3>1, <3>3
  <2>. QED BY <1>9, <2>2 DEF Put, PacketTypes
<1>10. CASE UNCHANGED vars
  BY <1>10 DEF vars
<1>. QED
  BY <1>1, <1>2, <1>3, <1>4, <1>5, <1>6, <1>7, <1>8, <1>9, <1>10
  DEF Next, AppCalls, AppProceeds, ReaderSteps, DrainProceeds, DrainHandles, DrainReads, DrainSteps

\* A drain thread outside stop() goes from one label of _run() to another, gets
\* hold of the backend or does not, and changes no other attribute than the
\* errors.
RunStep(d) ==
  /\ pc[d] \in {"begin", "check", "fetch", "enter", "reading", "store", "prn", "put"}
  /\ pc' = [pc EXCEPT ![d] = pc'[d]]
  /\ pc'[d] \in {"check", "fetch", "enter", "reading", "store", "prn", "put", "done"}
  /\ pc'[d] = "reading" => At(d, "enter")
  /\ pc'[d] = "done" => (At(d, "begin") /\ backend = None) \/ (At(d, "check") /\ stopping) \/ error'
  /\ IF pc'[d] = "enter"
     THEN At(d, "fetch") /\ backend # None /\ my' = [my EXCEPT ![d] = backend]
     ELSE UNCHANGED my
  /\ UNCHANGED <<handleVars, stopping, started, thread, left, result>>
  /\ error => error'
  /\ error' => error \/ pc'[d] = "done"

\* The reader moves, or nobody does.
OtherStep ==
  /\ pc' = [pc EXCEPT ![Reader] = pc'[Reader]]
  /\ UNCHANGED <<my, handleVars, flagVars, left, result>>

\* Packets aside, these are the steps there are.
LEMMA Steps ==
  ASSUME PcTypes, [Next]_vars
  PROVE  \/ StartLeavesAll \/ StartBegin \/ StartNativeSucceeds \/ StartNativeFails
         \/ StartAssign \/ StartClear \/ StartRun
         \/ \E t \in Stoppers : \E how \in JoinModes \cup CallbackModes : Stop(t, how)
         \/ \E t \in Stoppers : StopJoin(t) \/ StopTake(t) \/ StopRelease(t) \/ Close(t)
         \/ \E d \in Drains : RunStep(d)
         \/ OtherStep
<1> USE DEF PcTypes
<1>1. ASSUME NEW d \in Drains, NEW list, DrainSteps(d) \/ ReadPackets(d, list) \/ StorePacket(d) \/ Put(d)
      PROVE  RunStep(d)
  <2> USE DEF RunStep
  <2>1. CASE Begin(d) \/ Check(d)
    BY <2>1 DEF Begin, Check, DrainMoves
  <2>2. CASE Fetch(d)
    BY <2>2 DEF Fetch, Fails
  <2>3. CASE Enter(d)
    BY <2>3 DEF Enter, DrainMoves, Fails
  <2>4. CASE ReadNothing(d)
    BY <2>4 DEF ReadNothing, DrainMoves, Fails
  <2>5. CASE PrnEnds(d)
    BY <2>5 DEF PrnEnds, DrainMoves, Fails, Ends
  <2>6. CASE ReadPackets(d, list)
    BY <2>6 DEF ReadPackets
  <2>7. CASE StorePacket(d)
    BY <2>7 DEF StorePacket
  <2>8. CASE Put(d)
    <3>1. Goes(d, "check") \/ Goes(d, "store")
      BY <2>8 DEF Put
    <3>. QED BY <2>8, <3>1 DEF Put
  <2>. QED BY <1>1, <2>1, <2>2, <2>3, <2>4, <2>5, <2>6, <2>7, <2>8 DEF DrainSteps
<1>2. ASSUME ReaderSteps \/ UNCHANGED vars PROVE OtherStep
  BY <1>2 DEF ReaderSteps, ReaderCalls, ReaderProceeds, ReadCall, IterBegin, IterCheck, IterRead,
              ReadTakes, ReadTimesOut, ReaderMoves, OtherStep, vars
<1>. QED
  BY <1>1, <1>2 DEF Next, AppCalls, AppProceeds, StopProceeds, ReaderSteps, DrainProceeds, DrainHandles,
                    DrainReads, DrainSteps

\* A step keeps what the application's call under way knows.
LEMMA CallKept ==
  ASSUME Types, CallInv, [Next]_vars
  PROVE  CallInv'
<1> USE DEF CallInv, StartLabels, StopLabels, CloseLabels, Types, PcTypes, AttributeTypes, Ends
<1>1. CASE StartLeavesAll
  BY <1>1 DEF StartLeavesAll
<1>2. CASE StartBegin
  BY <1>2 DEF StartBegin
<1>3. CASE StartNativeSucceeds
  BY <1>3 DEF StartNativeSucceeds
<1>4. CASE StartNativeFails
  BY <1>4 DEF StartNativeFails
<1>5. CASE StartAssign
  BY <1>5 DEF StartAssign
<1>6. CASE StartClear
  BY <1>6 DEF StartClear
<1>7. CASE StartRun
  BY <1>7 DEF StartRun
<1>8. ASSUME NEW t \in Stoppers, NEW how \in JoinModes \cup CallbackModes, Stop(t, how) PROVE CallInv'
  BY <1>8 DEF Stop
<1>9. ASSUME NEW t \in Stoppers, StopJoin(t) PROVE CallInv'
  BY <1>9 DEF StopJoin, PassesJoin
<1>10. ASSUME NEW t \in Stoppers, StopTake(t) PROVE CallInv'
  BY <1>10 DEF StopTake
<1>11. ASSUME NEW t \in Stoppers, StopRelease(t) PROVE CallInv'
  BY <1>11 DEF StopRelease
<1>12. ASSUME NEW t \in Stoppers, Close(t) PROVE CallInv'
  BY <1>12 DEF Close
<1>13. ASSUME NEW d \in Drains, RunStep(d) PROVE CallInv'
  BY <1>13 DEF RunStep
<1>14. CASE OtherStep
  BY <1>14 DEF OtherStep
<1>. QED BY <1>1, <1>2, <1>3, <1>4, <1>5, <1>6, <1>7, <1>8, <1>9, <1>10, <1>11, <1>12, <1>13, <1>14, Steps

\* A step keeps the order in which threads are started.
LEMMA BornKept ==
  ASSUME Types, CallInv, BornInv, [Next]_vars
  PROVE  BornInv'
<1> USE DEF BornInv, PastLabels, StartLabels, StopLabels, CloseLabels, Types, PcTypes, AttributeTypes, Ends
<1>1. CASE StartLeavesAll
  BY <1>1 DEF StartLeavesAll
<1>2. CASE StartBegin
  BY <1>2 DEF StartBegin
<1>3. CASE StartNativeSucceeds
  BY <1>3 DEF StartNativeSucceeds
<1>4. CASE StartNativeFails
  BY <1>4 DEF StartNativeFails
<1>5. CASE StartAssign
  BY <1>5 DEF StartAssign
<1>6. CASE StartClear
  BY <1>6 DEF StartClear
<1>7. CASE StartRun
  BY <1>7 DEF StartRun
<1>8. ASSUME NEW t \in Stoppers, NEW how \in JoinModes \cup CallbackModes, Stop(t, how) PROVE BornInv'
  BY <1>8 DEF Stop
<1>9. ASSUME NEW t \in Stoppers, StopJoin(t) PROVE BornInv'
  BY <1>9 DEF StopJoin, PassesJoin
<1>10. ASSUME NEW t \in Stoppers, StopTake(t) PROVE BornInv'
  BY <1>10 DEF StopTake
<1>11. ASSUME NEW t \in Stoppers, StopRelease(t) PROVE BornInv'
  BY <1>11 DEF StopRelease
<1>12. ASSUME NEW t \in Stoppers, Close(t) PROVE BornInv'
  BY <1>12, SMTT(30) DEF Close
<1>13. ASSUME NEW d \in Drains, RunStep(d) PROVE BornInv'
  BY <1>13 DEF RunStep
<1>14. CASE OtherStep
  BY <1>14 DEF OtherStep
<1>. QED BY <1>1, <1>2, <1>3, <1>4, <1>5, <1>6, <1>7, <1>8, <1>9, <1>10, <1>11, <1>12, <1>13, <1>14, Steps

\* A step keeps every backend that somebody knows created.
LEMMA KnownKept ==
  ASSUME Types, CallInv, KnownInv, [Next]_vars
  PROVE  KnownInv'
<1> USE DEF KnownInv, CallInv, StartLabels, StopLabels, CloseLabels, Types, PcTypes, AttributeTypes, Ends
<1>1. CASE StartLeavesAll
  BY <1>1 DEF StartLeavesAll
<1>2. CASE StartBegin
  BY <1>2 DEF StartBegin
<1>3. CASE StartNativeSucceeds
  BY <1>3 DEF StartNativeSucceeds
<1>4. CASE StartNativeFails
  BY <1>4 DEF StartNativeFails
<1>5. CASE StartAssign
  BY <1>5 DEF StartAssign
<1>6. CASE StartClear
  BY <1>6 DEF StartClear
<1>7. CASE StartRun
  BY <1>7 DEF StartRun
<1>8. ASSUME NEW t \in Stoppers, NEW how \in JoinModes \cup CallbackModes, Stop(t, how) PROVE KnownInv'
  BY <1>8 DEF Stop
<1>9. ASSUME NEW t \in Stoppers, StopJoin(t) PROVE KnownInv'
  BY <1>9 DEF StopJoin, PassesJoin
<1>10. ASSUME NEW t \in Stoppers, StopTake(t) PROVE KnownInv'
  BY <1>10 DEF StopTake
<1>11. ASSUME NEW t \in Stoppers, StopRelease(t) PROVE KnownInv'
  BY <1>11 DEF StopRelease
<1>12. ASSUME NEW t \in Stoppers, Close(t) PROVE KnownInv'
  BY <1>12 DEF Close
<1>13. ASSUME NEW d \in Drains, RunStep(d) PROVE KnownInv'
  <2>1. CASE pc'[d] = "enter"
    <3>1. my' = [my EXCEPT ![d] = backend] /\ backend # None /\ UNCHANGED handleVars
      BY <1>13, <2>1 DEF RunStep
    <3>2. \A t \in Stoppers \ {d} : pc'[t] = pc[t] /\ my'[t] = my[t]
      BY <1>13, <3>1 DEF RunStep
    <3>. QED BY <2>1, <3>1, <3>2
  <2>2. CASE pc'[d] # "enter"
    BY <1>13, <2>2 DEF RunStep
  <2>. QED BY <2>1, <2>2
<1>14. CASE OtherStep
  BY <1>14 DEF OtherStep
<1>. QED BY <1>1, <1>2, <1>3, <1>4, <1>5, <1>6, <1>7, <1>8, <1>9, <1>10, <1>11, <1>12, <1>13, <1>14, Steps

\* A step keeps the backend with whom it belongs.
LEMMA OwnKept ==
  ASSUME Types, CallInv, KnownInv, OwnInv, [Next]_vars
  PROVE  OwnInv'
<1> USE DEF OwnInv, KnownInv, CallInv, StartLabels, StopLabels, CloseLabels, Types, PcTypes, AttributeTypes, Ends
<1>1. CASE StartLeavesAll
  BY <1>1 DEF StartLeavesAll
<1>2. CASE StartBegin
  BY <1>2 DEF StartBegin
<1>3. CASE StartNativeSucceeds
  BY <1>3 DEF StartNativeSucceeds
<1>4. CASE StartNativeFails
  BY <1>4 DEF StartNativeFails
<1>5. CASE StartAssign
  BY <1>5 DEF StartAssign
<1>6. CASE StartClear
  BY <1>6 DEF StartClear
<1>7. CASE StartRun
  BY <1>7 DEF StartRun
<1>8. ASSUME NEW t \in Stoppers, NEW how \in JoinModes \cup CallbackModes, Stop(t, how) PROVE OwnInv'
  BY <1>8 DEF Stop
<1>9. ASSUME NEW t \in Stoppers, StopJoin(t) PROVE OwnInv'
  BY <1>9 DEF StopJoin, PassesJoin
<1>10. ASSUME NEW t \in Stoppers, StopTake(t) PROVE OwnInv'
  BY <1>10 DEF StopTake
<1>11. ASSUME NEW t \in Stoppers, StopRelease(t) PROVE OwnInv'
  BY <1>11 DEF StopRelease
<1>12. ASSUME NEW t \in Stoppers, Close(t) PROVE OwnInv'
  BY <1>12 DEF Close
<1>13. ASSUME NEW d \in Drains, RunStep(d) PROVE OwnInv'
  BY <1>13 DEF RunStep
<1>14. CASE OtherStep
  BY <1>14 DEF OtherStep
<1>. QED BY <1>1, <1>2, <1>3, <1>4, <1>5, <1>6, <1>7, <1>8, <1>9, <1>10, <1>11, <1>12, <1>13, <1>14, Steps

-----------------------------------------------------------------------------
(* Who is left behind *)

\* Nobody is left behind by the application, and by a callback at most the drain
\* thread it runs in.
NoneLeft == left = {} \/ (App \notin left /\ thread <= 1)

\* While nobody is left behind, one drain thread at most runs, the one of the
\* capture that is started.
AloneInv ==
  left = {} =>
    /\ \A d \in Drains : Alive(d) => d = thread /\ started /\ backend # None
    /\ pc[App] \in {"start_clear", "start_run"} => backend # None

\* The application releases a backend that no drain thread uses.
JoinedInv == NoneLeft /\ pc[App] \in PastLabels => \A d \in Drains : ~Alive(d)

\* A thread that ended without being told to left an error.
DeathInv ==
  left = {} /\ thread # None /\ ThreadEnded /\ pc[App] \notin {"start_clear", "start_run"} =>
    stopping \/ error

\* A step keeps the drain threads away from a backend that is being released.
LEMMA JoinedKept ==
  ASSUME GeneralInv, AloneInv, JoinedInv, [Next]_vars
  PROVE  JoinedInv'
<1> USE DEF GeneralInv, JoinedInv, NoneLeft, CallInv, BornInv, PastLabels, ThreadEnded, StartLabels, StopLabels, CloseLabels, Types, PcTypes, AttributeTypes, Ends
<1>1. CASE StartLeavesAll
  BY <1>1 DEF StartLeavesAll
<1>2. CASE StartBegin
  BY <1>2 DEF StartBegin
<1>3. CASE StartNativeSucceeds
  BY <1>3 DEF StartNativeSucceeds
<1>4. CASE StartNativeFails
  BY <1>4 DEF StartNativeFails
<1>5. CASE StartAssign
  BY <1>5 DEF StartAssign
<1>6. CASE StartClear
  BY <1>6 DEF StartClear
<1>7. CASE StartRun
  BY <1>7 DEF StartRun
<1>8. ASSUME NEW t \in Stoppers, NEW how \in JoinModes \cup CallbackModes, Stop(t, how) PROVE JoinedInv'
  BY <1>8 DEF Stop
<1>9. ASSUME NEW t \in Stoppers, StopJoin(t) PROVE JoinedInv'
  <2>1. CASE t = App
    <3>1. At(App, "stop_wait") \/ ~NoneLeft'
      BY <1>9, <2>1 DEF StopJoin, PassesJoin
    <3>2. NoneLeft' => \A d \in Drains : Alive(d) => d = thread
      BY <1>9, <2>1 DEF StopJoin, PassesJoin, AloneInv
    <3>3. At(App, "stop_wait") => \A d \in Drains : d = thread => ~Alive(d)
      BY <1>9, <2>1 DEF StopJoin
    <3>4. \A d \in Drains : pc'[d] = pc[d]
      BY <1>9, <2>1 DEF StopJoin, PassesJoin
    <3>. QED BY <3>1, <3>2, <3>3, <3>4
  <2>2. CASE t # App
    BY <1>9, <2>2 DEF StopJoin, PassesJoin
  <2>. QED BY <2>1, <2>2
<1>10. ASSUME NEW t \in Stoppers, StopTake(t) PROVE JoinedInv'
  BY <1>10 DEF StopTake
<1>11. ASSUME NEW t \in Stoppers, StopRelease(t) PROVE JoinedInv'
  BY <1>11 DEF StopRelease
<1>12. ASSUME NEW t \in Stoppers, Close(t) PROVE JoinedInv'
  BY <1>12, SMTT(30) DEF Close
<1>13. ASSUME NEW d \in Drains, RunStep(d) PROVE JoinedInv'
  BY <1>13 DEF RunStep
<1>14. CASE OtherStep
  BY <1>14 DEF OtherStep
<1>. QED BY <1>1, <1>2, <1>3, <1>4, <1>5, <1>6, <1>7, <1>8, <1>9, <1>10, <1>11, <1>12, <1>13, <1>14, Steps

\* A step leaves one drain thread at most.
LEMMA AloneKept ==
  ASSUME GeneralInv, JoinedInv, AloneInv, [Next]_vars
  PROVE  AloneInv'
<1> USE DEF GeneralInv, JoinedInv, AloneInv, NoneLeft, CallInv, BornInv, PastLabels, StartLabels, StopLabels, CloseLabels, Types, PcTypes, AttributeTypes, Ends
<1>1. CASE StartLeavesAll
  BY <1>1 DEF StartLeavesAll
<1>2. CASE StartBegin
  BY <1>2 DEF StartBegin
<1>3. CASE StartNativeSucceeds
  BY <1>3 DEF StartNativeSucceeds
<1>4. CASE StartNativeFails
  BY <1>4, SMTT(30) DEF StartNativeFails
<1>5. CASE StartAssign
  BY <1>5 DEF StartAssign
<1>6. CASE StartClear
  BY <1>6 DEF StartClear
<1>7. CASE StartRun
  BY <1>7 DEF StartRun
<1>8. ASSUME NEW t \in Stoppers, NEW how \in JoinModes \cup CallbackModes, Stop(t, how) PROVE AloneInv'
  BY <1>8 DEF Stop
<1>9. ASSUME NEW t \in Stoppers, StopJoin(t) PROVE AloneInv'
  BY <1>9 DEF StopJoin, PassesJoin
<1>10. ASSUME NEW t \in Stoppers, StopTake(t) PROVE AloneInv'
  BY <1>10 DEF StopTake
<1>11. ASSUME NEW t \in Stoppers, StopRelease(t) PROVE AloneInv'
  BY <1>11 DEF StopRelease
<1>12. ASSUME NEW t \in Stoppers, Close(t) PROVE AloneInv'
  BY <1>12 DEF Close
<1>13. ASSUME NEW d \in Drains, RunStep(d) PROVE AloneInv'
  BY <1>13 DEF RunStep
<1>14. CASE OtherStep
  BY <1>14 DEF OtherStep
<1>. QED BY <1>1, <1>2, <1>3, <1>4, <1>5, <1>6, <1>7, <1>8, <1>9, <1>10, <1>11, <1>12, <1>13, <1>14, Steps

\* A step keeps what a drain thread that ended has left.
LEMMA DeathKept ==
  ASSUME GeneralInv, AloneInv, DeathInv, [Next]_vars
  PROVE  DeathInv'
<1> USE DEF GeneralInv, AloneInv, DeathInv, CallInv, BornInv, ThreadEnded, StartLabels, StopLabels, CloseLabels, Types, PcTypes, AttributeTypes, Ends
<1>1. CASE StartLeavesAll
  BY <1>1 DEF StartLeavesAll
<1>2. CASE StartBegin
  BY <1>2 DEF StartBegin
<1>3. CASE StartNativeSucceeds
  BY <1>3 DEF StartNativeSucceeds
<1>4. CASE StartNativeFails
  BY <1>4 DEF StartNativeFails
<1>5. CASE StartAssign
  BY <1>5 DEF StartAssign
<1>6. CASE StartClear
  BY <1>6 DEF StartClear
<1>7. CASE StartRun
  BY <1>7 DEF StartRun
<1>8. ASSUME NEW t \in Stoppers, NEW how \in JoinModes \cup CallbackModes, Stop(t, how) PROVE DeathInv'
  BY <1>8 DEF Stop
<1>9. ASSUME NEW t \in Stoppers, StopJoin(t) PROVE DeathInv'
  BY <1>9 DEF StopJoin, PassesJoin
<1>10. ASSUME NEW t \in Stoppers, StopTake(t) PROVE DeathInv'
  BY <1>10 DEF StopTake
<1>11. ASSUME NEW t \in Stoppers, StopRelease(t) PROVE DeathInv'
  BY <1>11 DEF StopRelease
<1>12. ASSUME NEW t \in Stoppers, Close(t) PROVE DeathInv'
  BY <1>12 DEF Close
<1>13. ASSUME NEW d \in Drains, RunStep(d) PROVE DeathInv'
  BY <1>13 DEF RunStep
<1>14. CASE OtherStep
  BY <1>14 DEF OtherStep
<1>. QED BY <1>1, <1>2, <1>3, <1>4, <1>5, <1>6, <1>7, <1>8, <1>9, <1>10, <1>11, <1>12, <1>13, <1>14, Steps

-----------------------------------------------------------------------------
(* The handles *)

\* A handle between PktmonStop and None is in the hands of the thread that
\* closes it, which no longer finds it in the sniffer.
ClosedInv ==
  NoneLeft =>
    /\ \A b \in Backends :
         /\ native[b] = "stopped" => \E t \in Stoppers : At(t, "close_destroy") /\ my[t] = b
         /\ native[b] = "destroyed" => \E t \in Stoppers : At(t, "close_forget") /\ my[t] = b
    /\ \A t \in Stoppers :
         /\ pc[t] \in CloseLabels => my[t] # backend
         /\ At(t, "close_destroy") => native[my[t]] = "stopped"

\* A backend in use has a handle.
UsedInv ==
  NoneLeft =>
    /\ backend # None => native[backend] # "closed"
    /\ \A d \in Drains : pc[d] \in {"enter", "reading"} => native[my[d]] # "closed"

\* One thread at most is past its join.
LEMMA OneReleases ==
  ASSUME GeneralInv, JoinedInv, NoneLeft
  PROVE  /\ \A t, u \in Stoppers : pc[t] \in PastLabels /\ pc[u] \in PastLabels => t = u
         /\ \A t \in Stoppers, d \in Drains : pc[t] \in PastLabels /\ Alive(d) => t = d
<1>1. \A d, e \in Drains : pc[d] \in PastLabels /\ Alive(e) => d = e
  BY DEF GeneralInv, BornInv, NoneLeft, Types, AttributeTypes
<1>2. \A d \in Drains : pc[d] \in PastLabels => Alive(d)
  BY DEF PastLabels, CloseLabels
<1>3. pc[App] \in PastLabels => \A d \in Drains : ~Alive(d)
  BY DEF JoinedInv
<1>. QED BY <1>1, <1>2, <1>3

\* Steps of threads that close nothing keep the handles that are being closed.
LEMMA ClosedFrame ==
  ASSUME GeneralInv, ClosedInv, NoneLeft' => NoneLeft, native' = native,
         \A t \in Stoppers : pc[t] \in CloseLabels \/ pc'[t] \in CloseLabels =>
           pc'[t] = pc[t] /\ my'[t] = my[t] /\ my[t] # backend'
  PROVE  ClosedInv'
<1>1. ASSUME NoneLeft, NEW b \in Backends
      PROVE  /\ native[b] = "stopped" => \E t \in Stoppers : pc'[t] = "close_destroy" /\ my'[t] = b
             /\ native[b] = "destroyed" => \E t \in Stoppers : pc'[t] = "close_forget" /\ my'[t] = b
  BY <1>1 DEF ClosedInv, CloseLabels
<1>2. ASSUME NoneLeft, NEW t \in Stoppers
      PROVE  /\ pc'[t] \in CloseLabels => my'[t] # backend'
             /\ pc'[t] = "close_destroy" => native[my'[t]] = "stopped"
  BY <1>2 DEF ClosedInv, CloseLabels
<1>. QED BY <1>1, <1>2 DEF ClosedInv

\* A step keeps a handle that is being closed with the thread that closes it.
LEMMA ClosedKept ==
  ASSUME GeneralInv, JoinedInv, ClosedInv, [Next]_vars
  PROVE  ClosedInv'
<1> USE DEF GeneralInv, ClosedInv, NoneLeft, CallInv, KnownInv, OwnInv, PastLabels, HandleStates, StartLabels, StopLabels, CloseLabels, Types, PcTypes, AttributeTypes, Ends
<1>1. CASE StartLeavesAll
  BY <1>1, ClosedFrame DEF StartLeavesAll, ClosedInv
<1>2. CASE StartBegin
  BY <1>2 DEF StartBegin
<1>3. CASE StartNativeSucceeds
  BY <1>3 DEF StartNativeSucceeds
<1>4. CASE StartNativeFails
  BY <1>4 DEF StartNativeFails
<1>5. CASE StartAssign
  BY <1>5 DEF StartAssign
<1>6. CASE StartClear
  BY <1>6 DEF StartClear
<1>7. CASE StartRun
  <2>1. \A t \in Stoppers : pc[t] \in CloseLabels \/ pc'[t] \in CloseLabels => pc'[t] = pc[t]
    <3>1. thread + 1 \in Drains /\ pc[thread + 1] = "unborn"
      BY <1>7 DEF StartRun, BornInv
    <3>. QED BY <1>7, <3>1 DEF StartRun
  <2>2. (NoneLeft' => NoneLeft) /\ UNCHANGED <<native, my, backend>>
    BY <1>7 DEF StartRun
  <2>. QED BY <2>1, <2>2, ClosedFrame
<1>8. ASSUME NEW t \in Stoppers, NEW how \in JoinModes \cup CallbackModes, Stop(t, how) PROVE ClosedInv'
  BY <1>8 DEF Stop
<1>9. ASSUME NEW t \in Stoppers, StopJoin(t) PROVE ClosedInv'
  BY <1>9, SMTT(30) DEF StopJoin, PassesJoin
<1>10. ASSUME NEW t \in Stoppers, StopTake(t) PROVE ClosedInv'
  BY <1>10 DEF StopTake
<1>11. ASSUME NEW t \in Stoppers, StopRelease(t) PROVE ClosedInv'
  BY <1>11 DEF StopRelease
<1>12. ASSUME NEW t \in Stoppers, Close(t) PROVE ClosedInv'
  <2> SUFFICES ASSUME NoneLeft PROVE ClosedInv'
    BY <1>12 DEF Close
  <2>1. pc[t] \in CloseLabels /\ my[t] \in Backends /\ UNCHANGED <<my, backend>>
    BY <1>12 DEF Close
  <2>2. \A u \in Stoppers \ {t} : pc[u] \notin PastLabels /\ pc'[u] = pc[u]
    BY <1>12, <2>1, OneReleases DEF Close
  <2>3. \A b \in Backends \ {my[t]} : native[b] \notin {"stopped", "destroyed"}
    BY <2>2 DEF ClosedInv
  <2>4. CASE native' = native /\ pc'[t] \notin CloseLabels
    BY <1>12, <2>1, <2>2, <2>4, SMTT(30) DEF Close
  <2>5. CASE native' = [native EXCEPT ![my[t]] = "stopped"] /\ pc'[t] = "close_destroy"
    <3>1. \A u \in Stoppers : pc'[u] \in CloseLabels => u = t
      BY <2>2
    <3>2. my[t] # backend
      BY <2>1 DEF ClosedInv
    <3>3. native'[my[t]] = "stopped" /\ \A b \in Backends \ {my[t]} : native'[b] = native[b]
      BY <2>1, <2>5
    <3>. QED BY <2>1, <2>3, <2>5, <3>1, <3>2, <3>3
  <2>6. CASE native' = [native EXCEPT ![my[t]] = "destroyed"] /\ pc'[t] = "close_forget"
    BY <1>12, <2>1, <2>2, <2>6
  <2>7. CASE native' = [native EXCEPT ![my[t]] = "closed"] /\ pc'[t] \notin CloseLabels
    <3>1. \A u \in Stoppers : pc'[u] \notin CloseLabels
      BY <2>2, <2>7
    <3>2. native'[my[t]] = "closed" /\ \A b \in Backends \ {my[t]} : native'[b] = native[b]
      BY <2>1, <2>7
    <3>. QED BY <2>3, <3>1, <3>2
  <2>. QED BY <1>12, <2>4, <2>5, <2>6, <2>7 DEF Close
<1>13. ASSUME NEW d \in Drains, RunStep(d) PROVE ClosedInv'
  <2>1. \A t \in Stoppers : pc[t] \in CloseLabels \/ pc'[t] \in CloseLabels => pc'[t] = pc[t] /\ my'[t] = my[t]
    BY <1>13 DEF RunStep
  <2>2. (NoneLeft' => NoneLeft) /\ UNCHANGED <<native, backend>>
    BY <1>13 DEF RunStep
  <2>. QED BY <2>1, <2>2, ClosedFrame
<1>14. CASE OtherStep
  BY <1>14 DEF OtherStep
<1>. QED BY <1>1, <1>2, <1>3, <1>4, <1>5, <1>6, <1>7, <1>8, <1>9, <1>10, <1>11, <1>12, <1>13, <1>14, Steps

\* A step keeps a backend in use with its handle.
LEMMA UsedKept ==
  ASSUME GeneralInv, JoinedInv, ClosedInv, UsedInv, [Next]_vars
  PROVE  UsedInv'
<1> USE DEF GeneralInv, UsedInv, NoneLeft, CallInv, KnownInv, OwnInv, PastLabels, StartLabels, StopLabels, CloseLabels, Types, PcTypes, AttributeTypes, Ends
<1>1. CASE StartLeavesAll
  BY <1>1, SMTT(30) DEF StartLeavesAll
<1>2. CASE StartBegin
  BY <1>2 DEF StartBegin
<1>3. CASE StartNativeSucceeds
  BY <1>3 DEF StartNativeSucceeds
<1>4. CASE StartNativeFails
  BY <1>4, SMTT(30) DEF StartNativeFails
<1>5. CASE StartAssign
  BY <1>5 DEF StartAssign
<1>6. CASE StartClear
  BY <1>6 DEF StartClear
<1>7. CASE StartRun
  BY <1>7, SMTT(30) DEF StartRun
<1>8. ASSUME NEW t \in Stoppers, NEW how \in JoinModes \cup CallbackModes, Stop(t, how) PROVE UsedInv'
  BY <1>8 DEF Stop
<1>9. ASSUME NEW t \in Stoppers, StopJoin(t) PROVE UsedInv'
  BY <1>9 DEF StopJoin, PassesJoin
<1>10. ASSUME NEW t \in Stoppers, StopTake(t) PROVE UsedInv'
  BY <1>10 DEF StopTake
<1>11. ASSUME NEW t \in Stoppers, StopRelease(t) PROVE UsedInv'
  BY <1>11 DEF StopRelease
<1>12. ASSUME NEW t \in Stoppers, Close(t) PROVE UsedInv'
  <2> SUFFICES ASSUME NoneLeft PROVE UsedInv'
    BY <1>12 DEF Close
  <2>1. /\ pc[t] \in CloseLabels /\ my[t] \in Backends /\ my[t] # backend
        /\ UNCHANGED <<my, backend>>
        /\ \A b \in Backends \ {my[t]} : native'[b] = native[b]
    BY <1>12 DEF Close, ClosedInv
  <2>2. \A d \in Drains : pc'[d] \notin {"enter", "reading"}
    BY <1>12, <2>1, OneReleases, SMTT(30) DEF Close
  <2>. QED BY <2>1, <2>2
<1>13. ASSUME NEW d \in Drains, RunStep(d) PROVE UsedInv'
  BY <1>13 DEF RunStep
<1>14. CASE OtherStep
  BY <1>14 DEF OtherStep
<1>. QED BY <1>1, <1>2, <1>3, <1>4, <1>5, <1>6, <1>7, <1>8, <1>9, <1>10, <1>11, <1>12, <1>13, <1>14, Steps

\* Drain threads are left behind by the application, or by callbacks of the first
\* one before another start() has got hold of a backend.
Settled ==
  \/ left \subseteq {App}
  \/ App \notin left /\ thread <= 1 /\ pc[App] \notin {"start_clear", "start_run"}

\* What a stop() is about to release is what the sniffer has.
ReleaseInv == Settled => \A t \in Stoppers : At(t, "stop_release") => my[t] = backend

\* A backend that is not closed is the sniffer's, or a start() prepares it, or a
\* stop() closes it.
HeldInv ==
  Settled =>
    \A b \in Backends :
      native[b] \notin {"none", "closed"} =>
        \/ b = backend
        \/ pc[App] \in {"start_native", "start_assign"} /\ my[App] = b
        \/ \E t \in Stoppers : Closing(t, b)

\* Settled is lost for good.
LEMMA SettledBefore ==
  ASSUME GeneralInv, [Next]_vars, Settled'
  PROVE  Settled
<1> USE DEF Settled, GeneralInv, Types, PcTypes, AttributeTypes, Ends
<1>1. CASE StartLeavesAll \/ StartBegin \/ StartNativeSucceeds \/ StartNativeFails \/ StartAssign \/ StartClear
  BY <1>1 DEF StartLeavesAll, StartBegin, StartNativeSucceeds, StartNativeFails, StartAssign, StartClear
<1>2. CASE StartRun
  BY <1>2 DEF StartRun, BornInv
<1>3. ASSUME NEW t \in Stoppers, NEW how \in JoinModes \cup CallbackModes, Stop(t, how) PROVE Settled
  BY <1>3 DEF Stop
<1>4. ASSUME NEW t \in Stoppers, StopJoin(t) PROVE Settled
  BY <1>4 DEF StopJoin, PassesJoin
<1>5. ASSUME NEW t \in Stoppers, StopTake(t) \/ StopRelease(t) \/ Close(t) PROVE Settled
  BY <1>5 DEF StopTake, StopRelease, Close
<1>6. ASSUME NEW d \in Drains, RunStep(d) PROVE Settled
  BY <1>6 DEF RunStep
<1>7. CASE OtherStep
  BY <1>7 DEF OtherStep
<1>. QED BY <1>1, <1>2, <1>3, <1>4, <1>5, <1>6, <1>7, Steps

\* A step keeps what a stop() is about to release with the sniffer.
LEMMA ReleaseKept ==
  ASSUME GeneralInv, JoinedInv, ReleaseInv, [Next]_vars
  PROVE  ReleaseInv'
<1> USE DEF ReleaseInv, GeneralInv, Settled, NoneLeft, CallInv, KnownInv, OwnInv, BornInv, PastLabels, StartLabels, StopLabels, CloseLabels, Types, PcTypes, AttributeTypes, Ends
<1>1. CASE StartLeavesAll
  BY <1>1 DEF StartLeavesAll
<1>2. CASE StartBegin
  BY <1>2 DEF StartBegin
<1>3. CASE StartNativeSucceeds
  BY <1>3 DEF StartNativeSucceeds
<1>4. CASE StartNativeFails
  BY <1>4 DEF StartNativeFails
<1>5. CASE StartAssign
  BY <1>5 DEF StartAssign
<1>6. CASE StartClear
  BY <1>6 DEF StartClear
<1>7. CASE StartRun
  BY <1>7 DEF StartRun
<1>8. ASSUME NEW t \in Stoppers, NEW how \in JoinModes \cup CallbackModes, Stop(t, how) PROVE ReleaseInv'
  BY <1>8 DEF Stop
<1>9. ASSUME NEW t \in Stoppers, StopJoin(t) PROVE ReleaseInv'
  BY <1>9 DEF StopJoin, PassesJoin
<1>10. ASSUME NEW t \in Stoppers, StopTake(t) PROVE ReleaseInv'
  BY <1>10 DEF StopTake
<1>11. ASSUME NEW t \in Stoppers, StopRelease(t) PROVE ReleaseInv'
  <2> SUFFICES ASSUME Settled, NEW u \in Stoppers, pc'[u] = "stop_release" PROVE FALSE
    BY <1>11, SettledBefore
  <2>1. u # t /\ pc[u] \in PastLabels /\ pc[t] \in PastLabels
    BY <1>11 DEF StopRelease
  <2>2. CASE NoneLeft
    BY ONLY <2>1, <2>2, GeneralInv, JoinedInv, OneReleases
  <2>3. CASE left \subseteq {App}
    BY <2>1, <2>3
  <2>. QED BY <2>2, <2>3
<1>12. ASSUME NEW t \in Stoppers, Close(t) PROVE ReleaseInv'
  BY <1>12 DEF Close
<1>13. ASSUME NEW d \in Drains, RunStep(d) PROVE ReleaseInv'
  BY <1>13 DEF RunStep
<1>14. CASE OtherStep
  BY <1>14 DEF OtherStep
<1>. QED BY <1>1, <1>2, <1>3, <1>4, <1>5, <1>6, <1>7, <1>8, <1>9, <1>10, <1>11, <1>12, <1>13, <1>14, Steps

\* A step keeps every backend with somebody.
LEMMA HeldKept ==
  ASSUME GeneralInv, ReleaseInv, HeldInv, [Next]_vars
  PROVE  HeldInv'
<1> USE DEF HeldInv, ReleaseInv, Closing, HandleStates, GeneralInv, Settled, NoneLeft, CallInv, KnownInv, OwnInv, BornInv, PastLabels, StartLabels, StopLabels, CloseLabels, Types, PcTypes, AttributeTypes, Ends
<1>1. CASE StartLeavesAll
  BY <1>1 DEF StartLeavesAll
<1>2. CASE StartBegin
  BY <1>2 DEF StartBegin
<1>3. CASE StartNativeSucceeds
  BY <1>3 DEF StartNativeSucceeds
<1>4. CASE StartNativeFails
  BY <1>4 DEF StartNativeFails
<1>5. CASE StartAssign
  BY <1>5 DEF StartAssign
<1>6. CASE StartClear
  BY <1>6 DEF StartClear
<1>7. CASE StartRun
  BY <1>7 DEF StartRun
<1>8. ASSUME NEW t \in Stoppers, NEW how \in JoinModes \cup CallbackModes, Stop(t, how) PROVE HeldInv'
  BY <1>8, SMTT(30) DEF Stop
<1>9. ASSUME NEW t \in Stoppers, StopJoin(t) PROVE HeldInv'
  BY <1>9 DEF StopJoin, PassesJoin
<1>10. ASSUME NEW t \in Stoppers, StopTake(t) PROVE HeldInv'
  BY <1>10 DEF StopTake
<1>11. ASSUME NEW t \in Stoppers, StopRelease(t) PROVE HeldInv'
  BY <1>11 DEF StopRelease
<1>12. ASSUME NEW t \in Stoppers, Close(t) PROVE HeldInv'
  BY <1>12, SMTT(30) DEF Close
<1>13. ASSUME NEW d \in Drains, RunStep(d) PROVE HeldInv'
  BY <1>13 DEF RunStep
<1>14. CASE OtherStep
  BY <1>14 DEF OtherStep
<1>. QED BY <1>1, <1>2, <1>3, <1>4, <1>5, <1>6, <1>7, <1>8, <1>9, <1>10, <1>11, <1>12, <1>13, <1>14, Steps

-----------------------------------------------------------------------------
(* The packets *)

Elements(s) == {s[i] : i \in 1 .. Len(s)}

\* The packets on their way are in order: the queue's come after the last one
\* read, the drain thread's after the queue's, and what it will handle next after
\* what is stored.
QueueOrder ==
  /\ taken <= captured
  /\ Ascending(queue)
  /\ \A p \in Elements(queue) : taken < p /\ p <= captured

StoreOrder == Ascending(packets) /\ \A p \in Elements(packets) : p <= captured

BatchOrder(d) ==
  /\ Ascending(batch[d])
  /\ \A p \in Elements(batch[d]) :
       taken < p /\ p <= captured /\ \A q \in Elements(queue) : q < p

StoredBefore(d) ==
  \A p \in Elements(packets) :
    IF At(d, "store") THEN p < Head(batch[d]) ELSE p <= Head(batch[d])

HandOrder(d) == BatchOrder(d) /\ StoredBefore(d)

OrderInv ==
  left = {} => QueueOrder /\ StoreOrder /\ \A d \in Drains : pc[d] \in HandLabels => HandOrder(d)

\* The order of packets is transitive.
LEMMA LessThan ==
  ASSUME NEW x \in Int, NEW y \in Int, NEW z \in Int, x <= y, y < z
  PROVE  x < z
OBVIOUS

\* The elements of a sequence of packets are packets.
LEMMA ElementsType ==
  ASSUME NEW s \in Seq(1 .. MaxPackets)
  PROVE  Elements(s) \subseteq 1 .. MaxPackets
BY DEF Elements

\* Appending what is greater than all of it keeps a sequence ascending.
LEMMA AscendingAppend ==
  ASSUME NEW s \in Seq(1 .. MaxPackets), NEW p \in 1 .. MaxPackets
  PROVE  /\ Elements(Append(s, p)) = Elements(s) \cup {p}
         /\ Ascending(s) /\ (\A q \in Elements(s) : q < p) => Ascending(Append(s, p))
<1>1. /\ Len(s) \in Nat /\ Len(Append(s, p)) = Len(s) + 1 /\ Append(s, p)[Len(s) + 1] = p
      /\ \A i \in 1 .. Len(s) : Append(s, p)[i] = s[i]
  OBVIOUS
<1>2. \A i \in 1 .. Len(s) + 1 : i \in 1 .. Len(s) \/ i = Len(s) + 1
  BY <1>1
<1>3. 1 .. Len(s) \subseteq 1 .. Len(s) + 1 /\ Len(s) + 1 \in 1 .. Len(s) + 1
  BY <1>1
<1>4. Elements(Append(s, p)) = Elements(s) \cup {p}
  BY <1>1, <1>2, <1>3 DEF Elements
<1>5. ASSUME Ascending(s), \A q \in Elements(s) : q < p,
             NEW i \in 1 .. Len(s) + 1, NEW j \in 1 .. Len(s) + 1, i < j
      PROVE  Append(s, p)[i] < Append(s, p)[j]
  <2>1. i \in 1 .. Len(s) /\ (j \in 1 .. Len(s) \/ j = Len(s) + 1)
    BY <1>1, <1>5
  <2>2. \A k \in 1 .. Len(s) : s[k] < p
    BY <1>5 DEF Elements
  <2>. QED BY <1>1, <1>5, <2>1, <2>2 DEF Ascending
<1>. QED BY <1>1, <1>4, <1>5 DEF Ascending

\* The tail of an ascending sequence is ascending, above its head.
LEMMA AscendingTail ==
  ASSUME NEW s \in Seq(1 .. MaxPackets), s # <<>>
  PROVE  /\ Elements(s) = {Head(s)} \cup Elements(Tail(s))
         /\ Tail(s) \in Seq(1 .. MaxPackets) /\ Head(s) \in 1 .. MaxPackets
         /\ Len(s) # 1 => Head(Tail(s)) \in Elements(Tail(s))
         /\ Ascending(s) => Ascending(Tail(s)) /\ \A q \in Elements(Tail(s)) : Head(s) < q
<1>1. /\ Len(s) \in Nat \ {0} /\ Tail(s) \in Seq(1 .. MaxPackets)
      /\ Len(Tail(s)) = Len(s) - 1 /\ Head(s) = s[1] /\ Head(s) \in 1 .. MaxPackets
      /\ \A i \in 1 .. Len(s) - 1 : Tail(s)[i] = s[i + 1]
  BY HeadTailProperties, EmptySeq
<1>2. \A i \in 1 .. Len(s) : i = 1 \/ (i - 1 \in 1 .. Len(s) - 1 /\ s[i] = Tail(s)[i - 1])
  <2>1. \A i \in 1 .. Len(s) : i = 1 \/ (i - 1 \in 1 .. Len(s) - 1 /\ i - 1 + 1 = i)
    BY <1>1
  <2>. QED BY <1>1, <2>1
<1>3. \A i \in 1 .. Len(s) - 1 : i + 1 \in 1 .. Len(s) /\ 1 < i + 1
  BY <1>1
<1>4. Elements(s) = {Head(s)} \cup Elements(Tail(s))
  <2>1. Elements(s) \subseteq {Head(s)} \cup Elements(Tail(s))
    <3>1. ASSUME NEW i \in 1 .. Len(s) PROVE s[i] \in {Head(s)} \cup Elements(Tail(s))
      <4>1. CASE i = 1
        BY <1>1, <4>1
      <4>2. CASE i - 1 \in 1 .. Len(s) - 1 /\ s[i] = Tail(s)[i - 1]
        BY <1>1, <4>2 DEF Elements
      <4>. QED BY <1>2, <4>1, <4>2
    <3>. QED BY <3>1 DEF Elements
  <2>2. 1 \in 1 .. Len(s)
    BY <1>1
  <2>. QED BY <1>1, <1>3, <2>1, <2>2 DEF Elements
<1>5. Len(s) # 1 => Head(Tail(s)) \in Elements(Tail(s))
  <2>1. Len(s) # 1 => 1 \in 1 .. Len(Tail(s)) /\ Tail(s) # <<>>
    <3>1. Tail(s) = <<>> => Len(Tail(s)) = 0
      BY <1>1, EmptySeq
    <3>. QED BY <1>1, <3>1
  <2>2. Len(s) # 1 => Head(Tail(s)) = Tail(s)[1]
    BY <1>1, <2>1
  <2>. QED BY <2>1, <2>2 DEF Elements
<1>6. ASSUME Ascending(s) PROVE Ascending(Tail(s))
  BY <1>1, <1>3, <1>6 DEF Ascending
<1>7. ASSUME Ascending(s) PROVE \A q \in Elements(Tail(s)) : Head(s) < q
  <2>1. \A i \in 1 .. Len(s) - 1 : s[1] < s[i + 1]
    BY <1>1, <1>3, <1>7 DEF Ascending
  <2>. QED BY <1>1, <2>1 DEF Elements
<1>. QED BY <1>1, <1>4, <1>5, <1>6, <1>7

\* A step that leaves the packets alone gives no drain thread a packet to handle.
LEMMA HandFrame ==
  ASSUME GeneralInv, [Next]_vars, PacketsAlone, left' = {}
  PROVE  /\ left = {}
         /\ \A d \in Drains : pc'[d] \in HandLabels =>
              pc[d] \in HandLabels /\ (pc'[d] = "store" => pc[d] = "store")
<1> USE DEF GeneralInv, Types, PcTypes, AttributeTypes, HandLabels, StopLabels, Ends
<1> DEFINE Frame ==
      /\ left = {}
      /\ \A d \in Drains : pc'[d] \in HandLabels =>
           pc[d] \in HandLabels /\ (pc'[d] = "store" => pc[d] = "store")
<1>1. CASE AppCalls \/ StartNativeSucceeds \/ StartNativeFails \/ StartAssign \/ StartClear \/ StartRun
  BY <1>1 DEF AppCalls, StartLeavesAll, StartBegin, Stop, StartNativeSucceeds, StartNativeFails, StartAssign,
              StartClear, StartRun
<1>2. ASSUME NEW t \in Stoppers, StopProceeds(t) PROVE Frame
  BY <1>2, SMTT(30) DEF StopProceeds, StopJoin, PassesJoin, StopTake, StopRelease, Close
<1>3. ASSUME NEW d \in Drains, NEW how \in CallbackModes, Stop(d, how) PROVE Frame
  BY <1>3 DEF Stop
<1>4. CASE ReaderSteps
  BY <1>4 DEF ReaderSteps, ReaderCalls, ReaderProceeds, ReadCall, IterBegin, IterCheck, IterRead,
              ReadTakes, ReadTimesOut, ReaderMoves
<1>5. ASSUME NEW d \in Drains, DrainSteps(d) PROVE Frame
  BY <1>5 DEF DrainSteps, Begin, Check, Fetch, Enter, ReadNothing, PrnEnds, DrainMoves, Fails
<1>6. ASSUME NEW d \in Drains, NEW n \in 1 .. DrainBatch, NEW list \in [1 .. n -> captured + 1 .. MaxPackets],
             ReadPackets(d, list)
      PROVE  Frame
  <2>1. list[Len(list)] # captured
    <3>1. Len(list) = n /\ n \in 1 .. n /\ captured \in Nat
      BY <1>6 DEF PacketTypes
    <3>. QED BY <1>6, <3>1
  <2>. QED BY <1>6, <2>1 DEF ReadPackets, PacketsAlone
<1>7. ASSUME NEW d \in Drains, StorePacket(d) PROVE Frame
  BY <1>7 DEF StorePacket
<1>8. ASSUME NEW d \in Drains, Put(d) PROVE Frame
  <2>1. batch[d] \in Seq(1 .. MaxPackets) /\ batch[d] # <<>>
    BY <1>8 DEF Put, PacketTypes, HandInv
  <2>2. Tail(batch[d]) # batch[d]
    <3>1. Len(Tail(batch[d])) = Len(batch[d]) - 1 /\ Len(batch[d]) \in Nat
      BY ONLY <2>1, HeadTailProperties
    <3>2. Len(Tail(batch[d])) # Len(batch[d])
      BY <3>1
    <3>. QED BY ONLY <3>2
  <2>. QED BY <1>8, <2>2 DEF Put, PacketsAlone, PacketTypes
<1>9. CASE UNCHANGED vars
  BY <1>9 DEF vars
<1>. QED
  BY <1>1, <1>2, <1>3, <1>4, <1>5, <1>6, <1>7, <1>8, <1>9
  DEF Next, AppProceeds, ReaderSteps, DrainProceeds, DrainHandles, DrainReads, DrainSteps

\* A step keeps the packets on their way in order.
LEMMA OrderKept ==
  ASSUME GeneralInv, AloneInv, OrderInv, [Next]_vars
  PROVE  OrderInv'
<1> SUFFICES ASSUME left' = {}
             PROVE  QueueOrder' /\ StoreOrder' /\ \A d \in Drains : pc'[d] \in HandLabels => HandOrder(d)'
  BY DEF OrderInv
<1>t. /\ PcTypes /\ AttributeTypes /\ PacketTypes /\ HandInv
      /\ taken \in Int /\ captured \in Nat
      /\ queue \in Seq(1 .. MaxPackets) /\ packets \in Seq(1 .. MaxPackets)
      /\ batch \in [Drains -> Seq(1 .. MaxPackets)]
      /\ Elements(queue) \subseteq Int /\ Elements(packets) \subseteq Int
  BY ElementsType DEF GeneralInv, Types, PacketTypes
<1>1. CASE PacketsAlone
  <2>1. /\ left = {}
        /\ \A d \in Drains : pc'[d] \in HandLabels =>
             pc[d] \in HandLabels /\ (pc'[d] = "store" => pc[d] = "store")
    BY <1>1, HandFrame
  <2>2. QueueOrder /\ StoreOrder /\ \A d \in Drains : pc[d] \in HandLabels => HandOrder(d)
    BY <2>1 DEF OrderInv
  <2>3. UNCHANGED <<batch, packets, queue, captured, taken>>
    BY <1>1 DEF PacketsAlone
  <2>4. QueueOrder' /\ StoreOrder'
    BY <2>2, <2>3 DEF QueueOrder, StoreOrder, Ascending, Elements
  <2>5. ASSUME NEW d \in Drains, pc'[d] \in HandLabels PROVE HandOrder(d)'
    <3>1. BatchOrder(d) /\ StoredBefore(d) /\ (pc'[d] = "store" => pc[d] = "store")
      BY <2>1, <2>2, <2>5 DEF HandOrder
    <3>2. Head(batch[d]) \in Int
      BY <1>t, <2>1, <2>5, AscendingTail DEF HandInv
    <3>3. BatchOrder(d)'
      BY <2>3, <3>1 DEF BatchOrder, Ascending, Elements
    <3>4. \A p \in Elements(packets) :
            IF pc'[d] = "store" THEN p < Head(batch[d]) ELSE p <= Head(batch[d])
      BY <1>t, <3>1, <3>2 DEF StoredBefore
    <3>5. StoredBefore(d)'
      BY <2>3, <3>4 DEF StoredBefore, Elements
    <3>. QED BY <3>3, <3>5 DEF HandOrder
  <2>. QED BY <2>4, <2>5
<1>2. CASE ReadTakes
  <2>1. /\ left = {} /\ queue # <<>> /\ taken' = Head(queue) /\ queue' = Tail(queue)
        /\ UNCHANGED <<batch, packets, captured>>
        /\ \A d \in Drains : pc'[d] = pc[d]
    BY <1>t, <1>2 DEF ReadTakes, PcTypes
  <2>2. QueueOrder /\ StoreOrder /\ \A d \in Drains : pc[d] \in HandLabels => HandOrder(d)
    BY <2>1 DEF OrderInv
  <2>3. /\ Ascending(queue') /\ Elements(queue) = {taken'} \cup Elements(queue')
        /\ \A q \in Elements(queue') : taken' < q
    BY <1>t, <2>1, <2>2, AscendingTail DEF QueueOrder
  <2>4. QueueOrder'
    BY <2>1, <2>2, <2>3 DEF QueueOrder
  <2>5. StoreOrder'
    BY <2>1, <2>2 DEF StoreOrder, Ascending, Elements
  <2>6. ASSUME NEW d \in Drains, pc'[d] \in HandLabels PROVE HandOrder(d)'
    <3>1. BatchOrder(d) /\ StoredBefore(d)
      BY <2>1, <2>2, <2>6 DEF HandOrder
    <3>2. \A p \in Elements(batch[d]) :
            taken' < p /\ p <= captured /\ \A q \in Elements(queue') : q < p
      BY <2>3, <3>1 DEF BatchOrder
    <3>3. BatchOrder(d)'
      BY <2>1, <3>1, <3>2 DEF BatchOrder, Ascending, Elements
    <3>4. StoredBefore(d)'
      BY <2>1, <2>6, <3>1 DEF StoredBefore, Elements
    <3>. QED BY <3>3, <3>4 DEF HandOrder
  <2>. QED BY <2>4, <2>5, <2>6
<1>3. ASSUME NEW d \in Drains, StorePacket(d) \/ Put(d)
      PROVE  QueueOrder' /\ StoreOrder' /\ \A e \in Drains : pc'[e] \in HandLabels => HandOrder(e)'
  <2>1. /\ left = {} /\ pc[d] \in {"store", "put"} /\ UNCHANGED <<taken, captured>>
        /\ pc' = [pc EXCEPT ![d] = pc'[d]]
    BY <1>t, <1>3 DEF StorePacket, Put, PcTypes
  <2>2. QueueOrder /\ StoreOrder /\ BatchOrder(d) /\ StoredBefore(d)
    BY <2>1 DEF OrderInv, HandLabels, HandOrder
  <2>3. \A e \in Drains : pc'[e] \in HandLabels => e = d
    BY <1>t, <2>1, ZenonT(40) DEF AloneInv, HandLabels, StopLabels, PcTypes
  <2> DEFINE b == batch[d]
  <2>4. b \in Seq(1 .. MaxPackets) /\ b # <<>> /\ Ascending(b)
    BY <1>t, <2>1, <2>2 DEF HandInv, HandLabels, BatchOrder
  <2>6. \A p \in Elements(b) : taken < p /\ p <= captured /\ \A q \in Elements(queue) : q < p
    BY <2>2 DEF BatchOrder
  <2> HIDE DEF b
  <2>5. /\ Elements(b) = {Head(b)} \cup Elements(Tail(b))
        /\ Head(b) \in 1 .. MaxPackets /\ Tail(b) \in Seq(1 .. MaxPackets)
        /\ Len(b) # 1 => Head(Tail(b)) \in Elements(Tail(b))
        /\ Ascending(Tail(b)) /\ \A q \in Elements(Tail(b)) : Head(b) < q
    BY <2>4, AscendingTail
  <2>7. CASE StorePacket(d)
    <3>1. /\ At(d, "store") /\ pc'[d] = "prn" /\ UNCHANGED <<batch, queue>>
          /\ packets' = Append(packets, Head(b)) \/ packets' = packets
      BY <1>t, <2>7 DEF StorePacket, PcTypes, b
    <3>2. QueueOrder'
      BY <2>1, <2>2, <3>1 DEF QueueOrder, Ascending, Elements
    <3>3. \A p \in Elements(packets) : p < Head(b)
      BY <2>2, <3>1 DEF StoredBefore, b
    <3>4. Ascending(packets') /\ Elements(packets') \subseteq Elements(packets) \cup {Head(b)}
      <4>1. CASE packets' = packets
        BY <2>2, <4>1 DEF StoreOrder, Ascending, Elements
      <4>2. CASE packets' = Append(packets, Head(b))
        BY <1>t, <2>2, <2>5, <3>3, <4>2, AscendingAppend DEF StoreOrder
      <4>. QED BY <3>1, <4>1, <4>2
    <3>5. StoreOrder'
      BY <2>1, <2>2, <2>5, <2>6, <3>4 DEF StoreOrder
    <3>6. \A p \in Elements(packets') : p <= Head(b)
      <4>1. Head(b) \in Int
        BY <2>5
      <4>. QED BY ONLY <1>t, <3>3, <3>4, <4>1
    <3>7. BatchOrder(d)'
      BY <2>1, <2>2, <3>1 DEF BatchOrder, Ascending, Elements
    <3>8. StoredBefore(d)'
      BY <3>1, <3>6 DEF StoredBefore, b
    <3>. QED BY <2>3, <3>2, <3>5, <3>7, <3>8 DEF HandOrder
  <2>8. CASE Put(d)
    <3>1. /\ At(d, "put") /\ batch'[d] = Tail(b) /\ UNCHANGED packets
          /\ queue' = Append(queue, Head(b)) \/ queue' = queue
          /\ pc'[d] = IF Len(b) = 1 THEN "check" ELSE "store"
      BY <1>t, <2>8 DEF Put, PcTypes, b
    <3>2. StoreOrder'
      BY <2>1, <2>2, <3>1 DEF StoreOrder, Ascending, Elements
    <3>3. Ascending(queue') /\ Elements(queue') \subseteq Elements(queue) \cup {Head(b)}
      <4>1. CASE queue' = queue
        BY <2>2, <4>1 DEF QueueOrder, Ascending, Elements
      <4>2. CASE queue' = Append(queue, Head(b))
        BY <1>t, <2>2, <2>5, <2>6, <4>2, AscendingAppend DEF QueueOrder
      <4>. QED BY <3>1, <4>1, <4>2
    <3>4. QueueOrder'
      BY <2>1, <2>2, <2>5, <2>6, <3>3 DEF QueueOrder
    <3>5. \A p \in Elements(Tail(b)) : taken < p /\ p <= captured /\ \A q \in Elements(queue') : q < p
      BY <2>5, <2>6, <3>3
    <3>6. BatchOrder(d)'
      BY <2>1, <2>5, <3>1, <3>5 DEF BatchOrder
    <3>7. \A p \in Elements(packets) : p <= Head(b)
      BY <2>2, <3>1 DEF StoredBefore, b
    <3>8. Len(b) # 1 => \A p \in Elements(packets) : p < Head(Tail(b))
      <4>1. Len(b) # 1 => Head(b) < Head(Tail(b))
        BY ONLY <2>5
      <4>2. Elements(Tail(b)) \subseteq Int /\ Head(b) \in Int
        BY <2>5, ElementsType
      <4>3. Len(b) # 1 => Head(Tail(b)) \in Int
        BY ONLY <2>5, <4>2
      <4>4. ASSUME NEW p \in Elements(packets), Len(b) # 1 PROVE p < Head(Tail(b))
        <5>1. p \in Int /\ p <= Head(b)
          BY <1>t, <3>7
        <5>2. Head(b) < Head(Tail(b))
          BY ONLY <4>1, <4>4, Zenon
        <5>3. Head(b) \in Int /\ Head(Tail(b)) \in Int
          BY ONLY <4>2, <4>3, <4>4, Zenon
        <5>. QED BY ONLY <5>1, <5>2, <5>3, LessThan, Zenon
      <4>. QED BY <4>4
    <3>9. pc'[d] = "store" => StoredBefore(d)'
      BY <3>1, <3>8 DEF StoredBefore, Elements
    <3>. QED BY <2>3, <3>1, <3>2, <3>4, <3>6, <3>9 DEF HandOrder, HandLabels, StopLabels
  <2>. QED BY <1>3, <2>7, <2>8
<1>4. ASSUME NEW d \in Drains, NEW n \in 1 .. DrainBatch, NEW list \in [1 .. n -> captured + 1 .. MaxPackets],
             Ascending(list), ReadPackets(d, list)
      PROVE  QueueOrder' /\ StoreOrder' /\ \A e \in Drains : pc'[e] \in HandLabels => HandOrder(e)'
  <2>1. /\ left = {} /\ At(d, "reading") /\ UNCHANGED <<taken, queue, packets>>
        /\ captured' = list[Len(list)] /\ batch'[d] = Newest(list)
        /\ pc' = [pc EXCEPT ![d] = "store"] /\ pc'[d] = "store"
    BY <1>t, <1>4 DEF ReadPackets, PcTypes
  <2>2. QueueOrder /\ StoreOrder
    BY <2>1 DEF OrderInv
  <2>3. \A e \in Drains : pc'[e] \in HandLabels => e = d
    BY <1>t, <2>1 DEF AloneInv, HandLabels, StopLabels, PcTypes
  <2> DEFINE new == Newest(list)
  <2>4. /\ new \in Seq(1 .. MaxPackets) /\ new # <<>> /\ Ascending(new)
        /\ captured' \in captured + 1 .. MaxPackets
        /\ \A i \in 1 .. Len(new) : captured < new[i] /\ new[i] <= captured'
    <3>1. n \in Nat \ {0} /\ captured \in Nat
      BY <1>t
    <3>. QED BY <1>4, <2>1, <3>1, NewestProperties
  <2>5. \A p \in Elements(new) : p \in Int /\ captured < p /\ p <= captured'
    BY <2>4, ElementsType DEF Elements
  <2>6. Head(new) \in Elements(new)
    BY <2>4, AscendingTail
  <2> HIDE DEF new
  <2>7. captured' \in Int /\ captured < captured'
    BY <1>t, <2>4
  <2>8. QueueOrder'
    <3>1. \A p \in Elements(queue) : taken < p /\ p <= captured'
      BY <1>t, <2>2, <2>7 DEF QueueOrder
    <3>. QED BY <1>t, <2>1, <2>2, <2>7, <3>1 DEF QueueOrder, Ascending, Elements
  <2>9. StoreOrder'
    <3>1. \A p \in Elements(packets) : p <= captured'
      BY <1>t, <2>2, <2>7 DEF StoreOrder
    <3>. QED BY <2>1, <2>2, <3>1 DEF StoreOrder, Ascending, Elements
  <2>10. BatchOrder(d)'
    <3>1. \A p \in Elements(new) : taken < p /\ p <= captured' /\ \A q \in Elements(queue) : q < p
      BY <1>t, <2>2, <2>5 DEF QueueOrder
    <3>. QED BY <2>1, <2>4, <3>1 DEF BatchOrder, Elements, new
  <2>11. StoredBefore(d)'
    <3>1. \A p \in Elements(packets) : p < Head(new)
      BY <1>t, <2>2, <2>5, <2>6 DEF StoreOrder
    <3>. QED BY <2>1, <3>1 DEF StoredBefore, Elements, new
  <2>. QED BY <2>3, <2>8, <2>9, <2>10, <2>11 DEF HandOrder
<1>. QED BY <1>1, <1>2, <1>3, <1>4, PacketSteps

-----------------------------------------------------------------------------
(* Invariance *)

IInv ==
  /\ GeneralInv /\ AloneInv /\ JoinedInv /\ DeathInv
  /\ ClosedInv /\ UsedInv /\ ReleaseInv /\ HeldInv /\ OrderInv

\* The invariant holds of a new sniffer, with a backend of its own or a given one.
LEMMA InitInvariant == Init => IInv
<1> SUFFICES ASSUME Init PROVE IInv
  OBVIOUS
<1> USE DEF Init
<1>1. 1 \in Backends
  OBVIOUS
<1>2. PcTypes
  BY DEF PcTypes, AppLabels, ReaderLabels, DrainLabels
<1>3. AttributeTypes
  BY <1>1 DEF AttributeTypes, HandleStates
<1>4. PacketTypes
  <2>1. <<>> \in Seq(1 .. MaxPackets) /\ Len(<<>>) = 0
    BY EmptySeq
  <2>. QED BY <2>1 DEF PacketTypes
<1>5. /\ pc[App] = "idle" /\ \A d \in Drains : pc[d] = "unborn"
      /\ \A t \in Stoppers : my[t] = None
  BY DEF PcTypes
<1>6. HandInv /\ CallInv /\ BornInv
  <2>1. HandInv
    BY <1>5 DEF HandInv, HandLabels, StopLabels
  <2>2. CallInv
    BY <1>5 DEF CallInv, StartLabels, StopLabels, CloseLabels
  <2>3. BornInv
    <3>1. thread = 0 /\ left = {}
      OBVIOUS
    <3>. QED BY ONLY <1>5, <3>1, SnifferAssumption DEF BornInv, PastLabels, CloseLabels, Drains, Stoppers
  <2>. QED BY <2>1, <2>2, <2>3
<1>7. KnownInv /\ OwnInv
  BY <1>1, <1>5 DEF KnownInv, OwnInv, CloseLabels
<1>8. AloneInv /\ JoinedInv /\ DeathInv
  BY <1>5 DEF AloneInv, JoinedInv, DeathInv
<1>9. ClosedInv /\ UsedInv /\ ReleaseInv /\ HeldInv
  BY <1>1, <1>5 DEF ClosedInv, UsedInv, ReleaseInv, HeldInv, CloseLabels
<1>10. OrderInv
  <2>1. Len(queue) = 0 /\ Len(packets) = 0
    BY EmptySeq
  <2>2. /\ Elements(queue) = {} /\ Elements(packets) = {}
        /\ Ascending(queue) /\ Ascending(packets)
    BY <2>1 DEF Elements, Ascending
  <2>3. taken = 0 /\ captured = 0
    OBVIOUS
  <2>. QED BY ONLY <1>5, <2>2, <2>3 DEF OrderInv, QueueOrder, StoreOrder, HandLabels, StopLabels
<1>. QED BY <1>2, <1>3, <1>4, <1>6, <1>7, <1>8, <1>9, <1>10 DEF IInv, GeneralInv, Types

\* Every step keeps it.
LEMMA StepInvariant == IInv /\ [Next]_vars => IInv'
<1> SUFFICES ASSUME IInv, [Next]_vars PROVE IInv'
  OBVIOUS
<1>1. GeneralInv'
  BY PcTypesKept, AttributeTypesKept, PacketTypesKept, HandKept, CallKept, BornKept, KnownKept, OwnKept
  DEF IInv, GeneralInv, Types
<1>. QED
  BY <1>1, AloneKept, JoinedKept, DeathKept, ClosedKept, UsedKept, ReleaseKept, HeldKept, OrderKept DEF IInv

\* The inductive invariant holds throughout.
THEOREM Invariance == Spec => []IInv
BY InitInvariant, StepInvariant, PTL DEF Spec

\* Every variable keeps its type, and the queue its limit.
THEOREM TypeCorrect == Spec => []TypeOK
<1>1. IInv => TypeOK
  BY DEF IInv, GeneralInv, Types, PcTypes, AttributeTypes, PacketTypes, TypeOK
<1>. QED BY <1>1, Invariance, PTL

\* However stop() is called and joins, nobody is inside the native library with
\* a handle that was destroyed, nor destroys one twice, unless the application
\* left a drain thread behind or a callback did after a restart.
THEOREM HandlesAreUsable == Spec => []NoUseAfterDestroy
<1>1. IInv => NoUseAfterDestroy
  <2> SUFFICES ASSUME IInv, NoneLeft
               PROVE  /\ \A d \in Drains : At(d, "reading") => native[my[d]] \notin {"destroyed", "closed"}
                      /\ \A t \in Stoppers :
                           /\ At(t, "close_stop") => native[my[t]] # "destroyed"
                           /\ At(t, "close_destroy") => native[my[t]] = "stopped"
    BY DEF NoUseAfterDestroy, NoneLeft
  <2>1. /\ \A t, u \in Stoppers : pc[t] \in PastLabels /\ pc[u] \in PastLabels => t = u
        /\ \A t \in Stoppers, d \in Drains : pc[t] \in PastLabels /\ Alive(d) => t = d
    BY OneReleases DEF IInv
  <2>2. ASSUME NEW d \in Drains, At(d, "reading") PROVE native[my[d]] \notin {"destroyed", "closed"}
    <3>1. my[d] \in Backends /\ native[my[d]] # "closed"
      BY <2>2 DEF IInv, GeneralInv, Types, AttributeTypes, KnownInv, UsedInv
    <3>2. native[my[d]] = "destroyed" => \E t \in Stoppers : pc[t] = "close_forget"
      BY <3>1 DEF IInv, ClosedInv
    <3>. QED BY <2>1, <2>2, <3>1, <3>2 DEF PastLabels, CloseLabels
  <2>3. ASSUME NEW t \in Stoppers, At(t, "close_stop") PROVE native[my[t]] # "destroyed"
    <3>1. my[t] \in Backends
      BY <2>3 DEF IInv, GeneralInv, Types, AttributeTypes, KnownInv, CloseLabels
    <3>2. native[my[t]] = "destroyed" => \E u \in Stoppers : pc[u] = "close_forget"
      BY <3>1 DEF IInv, ClosedInv
    <3>. QED BY <2>1, <2>3, <3>2 DEF PastLabels, CloseLabels
  <2>4. \A t \in Stoppers : At(t, "close_destroy") => native[my[t]] = "stopped"
    BY DEF IInv, ClosedInv
  <2>. QED BY <2>2, <2>3, <2>4
<1>. QED BY <1>1, Invariance, PTL

\* Between calls, a native capture is the sniffer's or a callback is closing it,
\* whatever failed before.
THEOREM NoCaptureLeaks == Spec => []NothingLeaks
<1>1. IInv => NothingLeaks
  BY DEF IInv, GeneralInv, HeldInv, Settled, OneLeaves, NothingLeaks, Closing
<1>. QED BY <1>1, Invariance, PTL

\* What a stop() of the application leaves.
THEOREM StopLeavesNothing == Spec => []StopOutcome
<1>1. IInv => StopOutcome
  <2> SUFFICES ASSUME IInv, OneLeaves, AppAt("idle"), result.call = "stop"
               PROVE  IF result.raised THEN error
                      ELSE /\ ~started /\ stopping
                           /\ owns => /\ backend = None
                                      /\ \A b \in Backends :
                                           native[b] \in {"none", "closed"} \/ \E d \in Drains : Closing(d, b)
    BY DEF StopOutcome
  <2>1. IF result.raised THEN error ELSE ~started /\ stopping
    BY DEF IInv, GeneralInv, CallInv
  <2>2. owns /\ ~started => backend = None
    BY DEF IInv, GeneralInv, OwnInv
  <2>3. \A b \in Backends : native[b] \notin {"none", "closed"} => b = backend \/ \E d \in Drains : Closing(d, b)
    BY DEF IInv, HeldInv, Settled, OneLeaves, Closing
  <2>. QED BY <2>1, <2>2, <2>3
<1>. QED BY <1>1, Invariance, PTL

\* When every stop() joins until the thread has ended, nobody is left behind.
Joining == JoinModes \subseteq {"wait"} /\ CallbackModes \subseteq {"wait"}

\* Then no step leaves a drain thread behind.
LEMMA LeftKept ==
  ASSUME Joining, IInv, left = {}, [Next]_vars
  PROVE  left' = {}
<1> USE DEF IInv, GeneralInv, Types
<1>1. CASE StartLeavesAll \/ StartBegin \/ StartNativeSucceeds \/ StartNativeFails \/ StartAssign \/ StartClear
           \/ StartRun
  BY <1>1 DEF StartLeavesAll, StartBegin, StartNativeSucceeds, StartNativeFails, StartAssign, StartClear, StartRun
<1>2. ASSUME NEW t \in Stoppers, NEW how \in JoinModes \cup CallbackModes, Stop(t, how) PROVE left' = {}
  BY <1>2 DEF Stop, Joining
<1>3. ASSUME NEW t \in Stoppers, StopJoin(t) PROVE left' = {}
  <2>1. CASE t = App
    BY <1>3, <2>1 DEF StopJoin, PassesJoin
  <2>2. CASE t \in Drains
    BY <1>3, <2>2 DEF StopJoin, PassesJoin, AloneInv
  <2>. QED BY <2>1, <2>2
<1>4. ASSUME NEW t \in Stoppers, StopTake(t) \/ StopRelease(t) \/ Close(t) PROVE left' = {}
  BY <1>4 DEF StopTake, StopRelease, Close
<1>5. ASSUME NEW d \in Drains, RunStep(d) PROVE left' = {}
  BY <1>5 DEF RunStep
<1>6. CASE OtherStep
  BY <1>6 DEF OtherStep
<1>. QED BY <1>1, <1>2, <1>3, <1>4, <1>5, <1>6, Steps

LEMMA NobodyIsLeft ==
  ASSUME Joining
  PROVE  Spec => [](left = {})
<1>1. Init => left = {}
  BY DEF Init
<1>2. IInv /\ left = {} /\ [Next]_vars => (left = {})'
  BY LeftKept
<1>. QED BY <1>1, <1>2, Invariance, PTL DEF Spec

\* Then one drain thread runs at a time, through every restart.
THEOREM OneDrainThread ==
  ASSUME Joining
  PROVE  Spec => []DrainsAlone
<1>1. IInv /\ left = {} => DrainsAlone
  BY DEF IInv, AloneInv, DrainsAlone
<1>. QED BY <1>1, Invariance, NobodyIsLeft, PTL

\* Then a drain thread that ended unasked has left an error.
THEOREM DeathsAreTold ==
  ASSUME Joining
  PROVE  Spec => []NoSilentDeath
<1>1. IInv /\ left = {} => NoSilentDeath
  BY DEF IInv, DeathInv, NoSilentDeath
<1>. QED BY <1>1, Invariance, NobodyIsLeft, PTL

\* Then results, queue and reads keep the order of capture, whatever the batches
\* and however they are cut.
THEOREM PacketsStayInOrder ==
  ASSUME Joining
  PROVE  Spec => []InOrder
<1>1. IInv /\ left = {} => InOrder
  <2> SUFFICES ASSUME IInv, left = {} PROVE InOrder
    OBVIOUS
  <2>1. QueueOrder /\ StoreOrder
    BY DEF IInv, OrderInv
  <2>. QED BY <2>1 DEF QueueOrder, StoreOrder, Elements, InOrder
<1>. QED BY <1>1, Invariance, NobodyIsLeft, PTL
=============================================================================
