--------------------------- MODULE PipelineProofs ---------------------------
(***************************************************************************)
(* Proofs about CapturePipeline: it is a sniffer, so that what is proved   *)
(* of Sniffer holds of it; it loses packets only where the code means to;  *)
(* and it implements PacketStream.                                         *)
(***************************************************************************)
EXTENDS CapturePipeline, SnifferProofs

USE SnifferAssumption, PipelineAssumption
    DEF Drains, Stoppers, Threads, Backends, None, At, AppAt, Goes, Alive,
        handleVars, flagVars, packetVars, dataVars

-----------------------------------------------------------------------------
(* What the pipeline needs to know of the sniffer *)

\* A drain thread that has not read, or handled all it read, has nothing in hand.
RestLabels == {"unborn", "begin", "check", "fetch", "enter", "reading"}
RestInv    == \A d \in Drains : pc[d] \in RestLabels => batch[d] = <<>>

\* A drain thread starts without an error, and does not outlive one of its own.
CleanInv ==
  /\ \A d \in Drains : Alive(d) => ~error
  /\ pc[App] \in {"start_clear", "start_run"} => ~error

\* A step gives packets only to a drain thread that reads, and takes the last one
\* from a thread that goes on.
LEMMA RestKept ==
  ASSUME IInv, RestInv, [Next]_vars
  PROVE  RestInv'
<1> USE DEF IInv, GeneralInv, Types, PcTypes, AttributeTypes, PacketTypes, RestInv, RestLabels, Ends
<1>1. CASE AppCalls \/ StartNativeSucceeds \/ StartNativeFails \/ StartAssign \/ StartClear
  BY <1>1 DEF AppCalls, StartLeavesAll, StartBegin, Stop, StartNativeSucceeds, StartNativeFails, StartAssign,
              StartClear
<1>2. CASE StartRun
  <2>1. thread + 1 \in Drains /\ pc[thread + 1] = "unborn"
    BY <1>2 DEF StartRun, CallInv, StartLabels, BornInv
  <2>. QED BY <1>2, <2>1 DEF StartRun
<1>3. ASSUME NEW t \in Stoppers, StopProceeds(t) PROVE RestInv'
  <2>1. CASE StopJoin(t) \/ StopTake(t) \/ StopRelease(t)
    BY <2>1, ZenonT(40) DEF StopJoin, PassesJoin, StopTake, StopRelease
  <2>2. CASE Close(t)
    BY <2>2, ZenonT(40) DEF Close
  <2>. QED BY <1>3, <2>1, <2>2 DEF StopProceeds
<1>4. ASSUME NEW d \in Drains, NEW how \in CallbackModes, Stop(d, how) PROVE RestInv'
  BY <1>4 DEF Stop
<1>5. CASE ReaderSteps
  BY <1>5 DEF ReaderSteps, ReaderCalls, ReaderProceeds, ReadCall, IterBegin, IterCheck, IterRead,
              ReadTakes, ReadTimesOut, ReaderMoves
<1>6. ASSUME NEW d \in Drains, DrainSteps(d) PROVE RestInv'
  BY <1>6, ZenonT(40) DEF DrainSteps, Begin, Check, Fetch, Enter, ReadNothing, PrnEnds, DrainMoves, Fails
<1>7. ASSUME NEW d \in Drains, NEW list, ReadPackets(d, list) \/ StorePacket(d) PROVE RestInv'
  BY <1>7, ZenonT(40) DEF ReadPackets, StorePacket
<1>8. ASSUME NEW d \in Drains, Put(d) PROVE RestInv'
  <2>1. batch[d] \in Seq(1 .. MaxPackets) /\ batch[d] # <<>>
    BY <1>8 DEF Put, HandInv, HandLabels
  <2>2. Len(batch[d]) = 1 => Tail(batch[d]) = <<>>
    <3>1. Len(Tail(batch[d])) = Len(batch[d]) - 1 /\ Tail(batch[d]) \in Seq(1 .. MaxPackets)
      BY ONLY <2>1, HeadTailProperties
    <3>2. Tail(batch[d]) = <<>> <=> Len(Tail(batch[d])) = 0
      BY <3>1, EmptySeq
    <3>. QED BY ONLY <3>1, <3>2
  <2>. QED BY <1>8, <2>2 DEF Put
<1>9. CASE UNCHANGED vars
  BY <1>9 DEF vars
<1>. QED
  BY <1>1, <1>2, <1>3, <1>4, <1>5, <1>6, <1>7, <1>8, <1>9
  DEF Next, AppProceeds, ReaderSteps, DrainProceeds, DrainHandles, DrainReads, DrainSteps

\* A step leaves no error behind that a running drain thread would find.
LEMMA CleanKept ==
  ASSUME IInv, left = {}, CleanInv, [Next]_vars
  PROVE  CleanInv'
<1> USE DEF IInv, GeneralInv, Types, PcTypes, AttributeTypes, CallInv, BornInv, AloneInv, StartLabels, StopLabels,
            CleanInv, Ends
<1>1. CASE StartLeavesAll \/ StartBegin \/ StartNativeSucceeds \/ StartNativeFails
  BY <1>1, SMTT(30) DEF StartLeavesAll, StartBegin, StartNativeSucceeds, StartNativeFails
<1>2. CASE StartAssign \/ StartClear \/ StartRun
  BY <1>2 DEF StartAssign, StartClear, StartRun
<1>3. ASSUME NEW t \in Stoppers, NEW how \in JoinModes \cup CallbackModes, Stop(t, how) PROVE CleanInv'
  BY <1>3 DEF Stop
<1>4. ASSUME NEW t \in Stoppers, StopJoin(t) \/ StopTake(t) \/ StopRelease(t) PROVE CleanInv'
  BY <1>4 DEF StopJoin, PassesJoin, StopTake, StopRelease
<1>5. ASSUME NEW t \in Stoppers, Close(t) PROVE CleanInv'
  BY <1>5 DEF Close
<1>6. ASSUME NEW d \in Drains, RunStep(d) PROVE CleanInv'
  BY <1>6 DEF RunStep
<1>7. CASE OtherStep
  BY <1>7 DEF OtherStep
<1>. QED BY <1>1, <1>2, <1>3, <1>4, <1>5, <1>6, <1>7, Steps

-----------------------------------------------------------------------------
(* The native queue *)

\* The native queue keeps within its capacity, holds packets that arrived after
\* the last one handed out, and keeps them in order.
BufferInv ==
  /\ capacity = NativeCapacity
  /\ arrivals \in 0 .. MaxPackets /\ captured \in 0 .. arrivals
  /\ buffer \in Seq(1 .. MaxPackets) /\ Len(buffer) <= capacity
  /\ Ascending(buffer)
  /\ \A p \in Elements(buffer) : captured < p /\ p <= arrivals

LEMMA MinOfTwo ==
  ASSUME NEW a \in Nat, NEW b \in Nat
  PROVE  Min({a, b}) = IF a <= b THEN a ELSE b
BY DEF Min

\* The range of a sequence of packets is the set of its elements.
LEMMA RangeIsElements ==
  ASSUME NEW s \in Seq(1 .. MaxPackets)
  PROVE  Range(s) = Elements(s)
BY RangeEquality DEF Elements

\* An ascending sequence cut in two: both parts are, one above the other.
LEMMA AscendingCut ==
  ASSUME NEW s \in Seq(1 .. MaxPackets), Ascending(s), NEW n \in 1 .. Len(s)
  PROVE  LET first == SubSeq(s, 1, n)
             rest  == SubSeq(s, n + 1, Len(s))
         IN  /\ first \in Seq(1 .. MaxPackets) /\ Len(first) = n /\ Ascending(first)
             /\ rest \in Seq(1 .. MaxPackets) /\ Len(rest) = Len(s) - n /\ Ascending(rest)
             /\ Elements(s) = Elements(first) \cup Elements(rest)
             /\ \A p \in Elements(rest) : first[n] < p
<1> DEFINE first == SubSeq(s, 1, n)
           rest  == SubSeq(s, n + 1, Len(s))
<1>1. /\ Len(s) \in Nat /\ n \in Int /\ n + 1 \in Int
      /\ \A i \in 1 .. Len(s) : s[i] \in 1 .. MaxPackets
  OBVIOUS
<1>2. /\ first \in Seq(1 .. MaxPackets) /\ Len(first) = n
      /\ \A i \in 1 .. n : first[i] = s[i]
  <2>1. \A i \in 1 .. n : s[i] \in 1 .. MaxPackets
    BY <1>1
  <2>. QED BY <1>1, <2>1, SubSeqProperties
<1>3. /\ rest \in Seq(1 .. MaxPackets) /\ Len(rest) = Len(s) - n
      /\ \A i \in 1 .. Len(s) - n : rest[i] = s[n + i]
  <2> DEFINE m == n + 1
             l == Len(s)
  <2>1. m \in Int /\ l \in Int /\ \A i \in m .. l : s[i] \in 1 .. MaxPackets
    BY <1>1
  <2>2. l - m + 1 = l - n /\ (IF m <= l THEN l - m + 1 ELSE 0) = l - n
    BY <1>1
  <2>3. \A i \in 1 .. l - n : m + i - 1 = n + i
    BY <1>1
  <2>4. rest = SubSeq(s, m, l)
    OBVIOUS
  <2> HIDE DEF m, l, rest
  <2>5. /\ rest \in Seq(1 .. MaxPackets) /\ Len(rest) = IF m <= l THEN l - m + 1 ELSE 0
        /\ \A i \in 1 .. l - m + 1 : rest[i] = s[m + i - 1]
    BY ONLY <2>1, <2>4, SubSeqProperties
  <2>6. /\ rest \in Seq(1 .. MaxPackets) /\ Len(rest) = l - n
        /\ \A i \in 1 .. l - n : rest[i] = s[n + i]
    BY ONLY <2>2, <2>3, <2>5
  <2>. QED BY ONLY <2>6 DEF l
<1> HIDE DEF first, rest
<1>4. Ascending(first)
  BY ONLY <1>1, <1>2, Ascending(s), n \in 1 .. Len(s) DEF Ascending
<1>5. Ascending(rest)
  <2>1. \A i \in 1 .. Len(s) - n : n + i \in 1 .. Len(s)
    BY ONLY <1>1, n \in 1 .. Len(s)
  <2>2. \A i, j \in 1 .. Len(s) - n : i < j => n + i < n + j
    BY ONLY <1>1
  <2>. QED BY ONLY <1>3, <2>1, <2>2, Ascending(s) DEF Ascending
<1>6. Elements(s) = Elements(first) \cup Elements(rest)
  <2>1. /\ Elements(first) = {s[i] : i \in 1 .. n}
        /\ Elements(rest) = {s[n + i] : i \in 1 .. Len(s) - n}
    <3>1. Elements(first) = {first[i] : i \in 1 .. n} /\ Elements(rest) = {rest[i] : i \in 1 .. Len(s) - n}
      BY ONLY <1>2, <1>3 DEF Elements
    <3>2. {first[i] : i \in 1 .. n} = {s[i] : i \in 1 .. n}
      BY ONLY <1>2
    <3>3. {rest[i] : i \in 1 .. Len(s) - n} = {s[n + i] : i \in 1 .. Len(s) - n}
      BY ONLY <1>3
    <3>. QED BY ONLY <3>1, <3>2, <3>3
  <2>2. 1 .. n \subseteq 1 .. Len(s) /\ \A i \in 1 .. Len(s) - n : n + i \in 1 .. Len(s)
    BY <1>1
  <2>3. ASSUME NEW i \in 1 .. Len(s) PROVE s[i] \in Elements(first) \cup Elements(rest)
    <3>1. CASE i <= n
      BY <1>1, <2>1, <3>1
    <3>2. CASE i > n
      <4>1. i - n \in 1 .. Len(s) - n /\ n + (i - n) = i
        BY <1>1, <3>2
      <4>2. s[n + (i - n)] \in Elements(rest)
        BY ONLY <2>1, <4>1
      <4>. QED BY ONLY <4>1, <4>2
    <3>. QED BY <1>1, <3>1, <3>2
  <2>4. Elements(first) \subseteq Elements(s) /\ Elements(rest) \subseteq Elements(s)
    BY ONLY <2>1, <2>2 DEF Elements
  <2>5. Elements(s) \subseteq Elements(first) \cup Elements(rest)
    BY <2>3 DEF Elements
  <2>. QED BY <2>4, <2>5
<1>7. \A p \in Elements(rest) : first[n] < p
  <2>1. \A i \in 1 .. Len(s) - n : n + i \in 1 .. Len(s) /\ n < n + i /\ n \in 1 .. n /\ n \in 1 .. Len(s)
    BY <1>1
  <2>2. ASSUME NEW p \in Elements(rest) PROVE first[n] < p
    <3>1. PICK i \in 1 .. Len(s) - n : p = rest[i]
      BY ONLY <1>3, <2>2 DEF Elements
    <3>2. p = s[n + i] /\ first[n] = s[n]
      BY ONLY <1>2, <1>3, <2>1, <3>1
    <3>. QED BY ONLY <2>1, <3>2, Ascending(s) DEF Ascending
  <2>. QED BY ONLY <2>2
<1>. QED BY <1>2, <1>3, <1>4, <1>5, <1>6, <1>7 DEF first, rest

-----------------------------------------------------------------------------
(* The steps of the pipeline are steps of the sniffer *)

\* The drain thread takes the first n packets of the native queue.
Takes(d, n) ==
  /\ n \in 1 .. DrainBatch /\ n \in 1 .. Len(buffer)
  /\ ReadPackets(d, SubSeq(buffer, 1, n))
  /\ buffer' = SubSeq(buffer, n + 1, Len(buffer))
  /\ UNCHANGED <<capacity, arrivals>>

\* Another step of the sniffer leaves the native queue, or ends the capture.
CaptureEnds == phase = "running" /\ phase' = "stopped" /\ buffer' = <<>>
CaptureGoesOn ==
  /\ QuietStep \/ UNCHANGED vars
  /\ buffer' = buffer \/ CaptureEnds
  /\ capacity' \in {capacity, NativeCapacity}
  /\ UNCHANGED arrivals

LEMMA PipelineSteps ==
  ASSUME BufferInv, [PipelineNext]_pipelineVars
  PROVE  Arrives \/ (\E d \in Drains : \E n \in Nat : Takes(d, n)) \/ CaptureGoesOn
<1>1. ASSUME NEW d \in Drains, DrainTakes(d) PROVE \E n \in Nat : Takes(d, n)
  <2> DEFINE n == Min({DrainBatch, Len(buffer)})
  <2>1. Len(buffer) \in Nat \ {0} /\ DrainBatch \in Nat \ {0}
    BY <1>1, EmptySeq DEF DrainTakes, BufferInv
  <2>2. n \in 1 .. DrainBatch /\ n \in 1 .. Len(buffer) /\ n \in Nat
    <3>1. n = IF DrainBatch <= Len(buffer) THEN DrainBatch ELSE Len(buffer)
      BY <2>1, MinOfTwo
    <3> HIDE DEF n
    <3>. QED BY ONLY <2>1, <3>1
  <2>3. /\ ReadPackets(d, SubSeq(buffer, 1, n))
        /\ buffer' = SubSeq(buffer, n + 1, Len(buffer))
        /\ UNCHANGED <<capacity, arrivals>>
    BY <1>1 DEF DrainTakes, Contract!Read
  <2> HIDE DEF n
  <2>. QED BY ONLY <2>2, <2>3 DEF Takes
<1>2. CASE SnifferStep(AppCalls \/ AppProceeds \/ ReaderCalls \/ ReaderProceeds)
  BY <1>2 DEF SnifferStep, CaptureGoesOn, CaptureEnds, QuietStep,
              Contract!Open, Contract!Begin, Contract!End, Contract!Close
<1>3. ASSUME NEW d \in Drains, DrainTakesNothing(d) PROVE CaptureGoesOn
  BY <1>3 DEF DrainTakesNothing, CaptureGoesOn, QuietStep
<1>4. CASE UNCHANGED pipelineVars
  BY <1>4 DEF pipelineVars, CaptureGoesOn
<1>5. ASSUME NEW d \in Drains, SnifferStep(DrainHandles(d)) PROVE CaptureGoesOn
  BY <1>5 DEF SnifferStep, CaptureGoesOn, CaptureEnds, QuietStep,
              Contract!Open, Contract!Begin, Contract!End, Contract!Close
<1>. QED BY <1>1, <1>2, <1>3, <1>4, <1>5 DEF PipelineNext, DrainGoesOn

\* What the drain thread takes is what a capture hands out next.
LEMMA TakenList ==
  ASSUME BufferInv, NEW d \in Drains, NEW n \in Nat, Takes(d, n),
         NEW list, list = SubSeq(buffer, 1, n)
  PROVE  /\ list \in [1 .. n -> captured + 1 .. MaxPackets]
         /\ list \in Seq(1 .. MaxPackets) /\ Len(list) = n /\ Ascending(list)
         /\ Elements(buffer) = Elements(list) \cup Elements(buffer')
         /\ buffer' \in Seq(1 .. MaxPackets) /\ Len(buffer') <= Len(buffer) /\ Ascending(buffer')
         /\ \A p \in Elements(buffer') : list[n] < p
<1>1. n \in 1 .. Len(buffer) /\ buffer' = SubSeq(buffer, n + 1, Len(buffer))
  BY DEF Takes
<1>2. buffer \in Seq(1 .. MaxPackets) /\ Ascending(buffer)
  BY DEF BufferInv
<1>3. /\ list \in Seq(1 .. MaxPackets) /\ Len(list) = n /\ Ascending(list)
      /\ buffer' \in Seq(1 .. MaxPackets) /\ Len(buffer') = Len(buffer) - n /\ Ascending(buffer')
      /\ Elements(buffer) = Elements(list) \cup Elements(buffer')
      /\ \A p \in Elements(buffer') : list[n] < p
  <2> DEFINE rest == SubSeq(buffer, n + 1, Len(buffer))
  <2>1. /\ list \in Seq(1 .. MaxPackets) /\ Len(list) = n /\ Ascending(list)
        /\ rest \in Seq(1 .. MaxPackets) /\ Len(rest) = Len(buffer) - n /\ Ascending(rest)
        /\ Elements(buffer) = Elements(list) \cup Elements(rest)
        /\ \A p \in Elements(rest) : list[n] < p
    BY ONLY <1>1, <1>2, list = SubSeq(buffer, 1, n), AscendingCut, Zenon
  <2>2. buffer' = rest
    BY <1>1
  <2> HIDE DEF rest
  <2>. QED BY ONLY <2>1, <2>2 DEF Elements, Ascending
<1>4. list \in [1 .. n -> captured + 1 .. MaxPackets]
  <2>1. \A i \in 1 .. n : list[i] \in Elements(buffer)
    BY ONLY <1>3 DEF Elements
  <2>2. \A i \in 1 .. n : list[i] \in 1 .. MaxPackets
    <3>1. list \in Seq(1 .. MaxPackets) /\ Len(list) = n
      BY <1>3
    <3>. QED BY ONLY <3>1, n \in Nat, SnifferAssumption
  <2>3. \A p \in Elements(buffer) : captured < p
    BY DEF BufferInv
  <2>4. \A i \in 1 .. n : list[i] \in captured + 1 .. MaxPackets
    <3>1. captured \in Int
      BY DEF BufferInv
    <3>. QED BY ONLY <2>1, <2>2, <2>3, <3>1
  <2>. QED BY ONLY <1>3, <2>4
<1>5. Len(buffer') <= Len(buffer)
  BY ONLY <1>1, <1>2, <1>3
<1>. QED BY ONLY <1>3, <1>4, <1>5

\* Every step of the pipeline is one of the sniffer, or leaves it alone.
LEMMA StepIsSniffers ==
  ASSUME BufferInv, [PipelineNext]_pipelineVars
  PROVE  [Next]_vars
<1>1. CASE Arrives
  BY <1>1 DEF Arrives
<1>2. ASSUME NEW d \in Drains, NEW n \in Nat, Takes(d, n) PROVE Next
  <2> DEFINE list == SubSeq(buffer, 1, n)
  <2>1. list \in [1 .. n -> captured + 1 .. MaxPackets] /\ Ascending(list)
    BY <1>2, TakenList
  <2>2. n \in 1 .. DrainBatch /\ ReadPackets(d, list)
    BY <1>2 DEF Takes
  <2> HIDE DEF list
  <2>3. DrainReads(d)
    BY <2>1, <2>2 DEF DrainReads
  <2>. QED BY <2>3 DEF Next, DrainProceeds
<1>3. CASE CaptureGoesOn
  BY <1>3 DEF CaptureGoesOn, QuietStep, Next, DrainProceeds, DrainReads
<1>. QED BY <1>1, <1>2, <1>3, PipelineSteps

-----------------------------------------------------------------------------
(* The invariant of the pipeline *)

\* A packet that arrives is the youngest, and pushes out at most the oldest of a
\* full native queue.
LEMMA ArrivalProperties ==
  ASSUME BufferInv, Arrives
  PROVE  /\ UNCHANGED vars /\ capacity' = capacity /\ arrivals' = arrivals + 1
         /\ arrivals' \in 1 .. MaxPackets
         /\ buffer' \in Seq(1 .. MaxPackets) /\ Len(buffer') <= capacity /\ Ascending(buffer')
         /\ \E lost \in SUBSET Elements(buffer) :
              /\ Elements(buffer') = (Elements(buffer) \ lost) \cup {arrivals'}
              /\ lost = {} \/ (Len(buffer) = capacity /\ lost = {Head(buffer)})
<1> DEFINE kept == IF Len(buffer) < capacity THEN buffer ELSE Tail(buffer)
<1>1. /\ UNCHANGED vars /\ capacity' = capacity /\ arrivals' = arrivals + 1
      /\ buffer' = Append(kept, arrivals + 1) /\ arrivals < MaxPackets
  BY DEF Arrives, Contract!Arrive
<1>2. /\ arrivals + 1 \in 1 .. MaxPackets /\ capacity \in Nat \ {0}
      /\ buffer \in Seq(1 .. MaxPackets) /\ Len(buffer) <= capacity /\ Ascending(buffer)
      /\ \A p \in Elements(buffer) : p <= arrivals
  BY <1>1 DEF BufferInv
<1>3. \E lost \in SUBSET Elements(buffer) :
        /\ kept \in Seq(1 .. MaxPackets) /\ Len(kept) < capacity /\ Ascending(kept)
        /\ Elements(kept) = Elements(buffer) \ lost
        /\ lost = {} \/ (Len(buffer) = capacity /\ lost = {Head(buffer)})
  <2>1. CASE Len(buffer) < capacity
    <3>1. kept = buffer
      BY <2>1
    <3>. QED BY <1>2, <2>1, <3>1
  <2>2. CASE ~(Len(buffer) < capacity)
    <3>1. kept = Tail(buffer) /\ Len(buffer) = capacity /\ buffer # <<>>
      <4>1. Len(buffer) \in Nat
        BY <1>2
      <4>2. Len(buffer) = capacity
        BY ONLY <1>2, <2>2, <4>1
      <4>. QED BY <1>2, <2>2, <4>2, EmptySeq
    <3> HIDE DEF kept
    <3>2. Len(kept) < capacity
      <4>1. Len(Tail(buffer)) = Len(buffer) - 1
        BY ONLY <1>2, <3>1, HeadTailProperties
      <4>. QED BY ONLY <1>2, <3>1, <4>1
    <3>3. /\ kept \in Seq(1 .. MaxPackets) /\ Ascending(kept)
          /\ Elements(buffer) = {Head(buffer)} \cup Elements(kept)
          /\ Head(buffer) \in 1 .. MaxPackets
          /\ \A q \in Elements(kept) : Head(buffer) < q
      BY ONLY <1>2, <3>1, AscendingTail
    <3>4. Elements(kept) = Elements(buffer) \ {Head(buffer)}
      BY ONLY <3>3
    <3>. QED BY <3>1, <3>2, <3>3, <3>4
  <2>. QED BY <2>1, <2>2
<1> HIDE DEF kept
<1>4. PICK lost \in SUBSET Elements(buffer) :
        /\ kept \in Seq(1 .. MaxPackets) /\ Len(kept) < capacity /\ Ascending(kept)
        /\ Elements(kept) = Elements(buffer) \ lost
        /\ lost = {} \/ (Len(buffer) = capacity /\ lost = {Head(buffer)})
  BY <1>3
<1>5. \A q \in Elements(kept) : q < arrivals + 1
  <2>1. \A q \in Elements(kept) : q \in 1 .. MaxPackets /\ q <= arrivals
    BY <1>2, <1>4, ElementsType
  <2>2. arrivals \in Nat
    BY DEF BufferInv
  <2>. QED BY ONLY <2>1, <2>2, SnifferAssumption
<1>6. /\ Elements(Append(kept, arrivals + 1)) = Elements(kept) \cup {arrivals + 1}
      /\ Ascending(Append(kept, arrivals + 1))
  BY <1>2, <1>4, <1>5, AscendingAppend
<1>7. Append(kept, arrivals + 1) \in Seq(1 .. MaxPackets) /\ Len(Append(kept, arrivals + 1)) <= capacity
  BY ONLY <1>2, <1>4, SnifferAssumption
<1>8. /\ buffer' \in Seq(1 .. MaxPackets) /\ Len(buffer') <= capacity
      /\ Ascending(buffer') /\ Elements(buffer') = Elements(kept) \cup {arrivals'}
  <2> DEFINE new == Append(kept, arrivals + 1)
  <2> HIDE DEF new
  <2>1. buffer' = new
    BY <1>1 DEF new
  <2>2. /\ new \in Seq(1 .. MaxPackets) /\ Len(new) <= capacity
        /\ Ascending(new) /\ Elements(new) = Elements(kept) \cup {arrivals'}
    BY <1>1, <1>6, <1>7 DEF new
  <2>. QED BY ONLY <2>1, <2>2 DEF Ascending, Elements
<1>. QED BY <1>1, <1>2, <1>4, <1>8

\* A step keeps the native queue in order.
LEMMA BufferKept ==
  ASSUME BufferInv, [PipelineNext]_pipelineVars
  PROVE  BufferInv'
<1>1. CASE Arrives
  <2>1. PICK lost \in SUBSET Elements(buffer) : Elements(buffer') = (Elements(buffer) \ lost) \cup {arrivals'}
    BY <1>1, ArrivalProperties
  <2>2. captured' = captured /\ arrivals' = arrivals + 1 /\ capacity' = capacity
    BY <1>1, ArrivalProperties DEF vars
  <2>3. \A p \in Elements(buffer') : captured' < p /\ p <= arrivals'
    <3>1. \A p \in Elements(buffer') : p \in Elements(buffer) \/ p = arrivals'
      BY <2>1
    <3>2. /\ \A p \in Elements(buffer) : captured < p /\ p <= arrivals /\ p \in Int
          /\ arrivals \in Int /\ captured \in Int /\ captured <= arrivals
      BY ElementsType DEF BufferInv
    <3>. QED BY ONLY <2>2, <3>1, <3>2
  <2>4. Elements(buffer)' = Elements(buffer') /\ Ascending(buffer)' = Ascending(buffer')
    BY DEF Elements, Ascending
  <2>. QED BY <1>1, <2>2, <2>3, <2>4, ArrivalProperties DEF BufferInv
<1>2. ASSUME NEW d \in Drains, NEW n \in Nat, Takes(d, n) PROVE BufferInv'
  <2> DEFINE list == SubSeq(buffer, 1, n)
  <2>1. /\ list \in [1 .. n -> captured + 1 .. MaxPackets] /\ Len(list) = n /\ n \in 1 .. n
        /\ Elements(buffer) = Elements(list) \cup Elements(buffer')
        /\ buffer' \in Seq(1 .. MaxPackets) /\ Len(buffer') <= Len(buffer) /\ Ascending(buffer')
        /\ \A p \in Elements(buffer') : list[n] < p
    <3>1. n \in 1 .. n
      BY <1>2 DEF Takes
    <3>. QED BY <1>2, <3>1, TakenList
  <2>2. captured' = list[n] /\ UNCHANGED <<capacity, arrivals>>
    BY <1>2, <2>1 DEF Takes, ReadPackets
  <2> HIDE DEF list
  <2>3. \A p \in Elements(buffer') : captured' < p /\ p <= arrivals'
    BY <2>1, <2>2 DEF BufferInv
  <2>4. captured' \in 0 .. arrivals'
    <3>1. list[n] \in Elements(list)
      BY ONLY <2>1 DEF Elements
    <3>. QED BY <2>1, <2>2, <3>1 DEF BufferInv
  <2>5. Elements(buffer)' = Elements(buffer') /\ Ascending(buffer)' = Ascending(buffer')
    BY DEF Elements, Ascending
  <2>6. Len(buffer') <= capacity
    BY <2>1 DEF BufferInv
  <2>. QED BY <2>1, <2>2, <2>3, <2>4, <2>5, <2>6 DEF BufferInv
<1>3. CASE CaptureGoesOn
  <2>1. captured' = captured /\ capacity' = capacity /\ arrivals' = arrivals
    BY <1>3, QuietSteps DEF CaptureGoesOn, BufferInv, PacketsAlone, ReadTakes, StorePacket, Put
  <2>2. CASE buffer' = buffer
    BY <2>1, <2>2 DEF BufferInv, Elements, Ascending
  <2>3. CASE buffer' = <<>>
    <3>1. buffer' \in Seq(1 .. MaxPackets) /\ Len(buffer') = 0
      BY <2>3, EmptySeq
    <3>2. Elements(buffer)' = {} /\ Ascending(buffer)'
      BY <3>1 DEF Elements, Ascending
    <3>. QED BY <2>1, <3>1, <3>2 DEF BufferInv
  <2>. QED BY <1>3, <2>2, <2>3 DEF CaptureGoesOn, CaptureEnds
<1>. QED BY <1>1, <1>2, <1>3, PipelineSteps

PipelineInv == IInv /\ left = {} /\ RestInv /\ CleanInv /\ BufferInv

\* The invariant of the pipeline holds throughout.
THEOREM PipelineInvariance == PipelineSpec => []PipelineInv
<1>1. PipelineInit => PipelineInv
  <2> SUFFICES ASSUME PipelineInit PROVE PipelineInv
    OBVIOUS
  <2>1. IInv
    BY InitInvariant DEF PipelineInit
  <2>2. left = {} /\ RestInv /\ CleanInv
    BY DEF PipelineInit, Init, RestInv, CleanInv
  <2>3. BufferInv
    <3>1. /\ capacity = NativeCapacity /\ arrivals = 0 /\ captured = 0
          /\ buffer \in Seq(1 .. MaxPackets) /\ Len(buffer) = 0
      BY EmptySeq DEF PipelineInit, Init
    <3>2. Elements(buffer) = {} /\ Ascending(buffer)
      BY <3>1 DEF Elements, Ascending
    <3>. QED BY <3>1, <3>2 DEF BufferInv
  <2>. QED BY <2>1, <2>2, <2>3 DEF PipelineInv
<1>2. PipelineInv /\ [PipelineNext]_pipelineVars => PipelineInv'
  <2> SUFFICES ASSUME PipelineInv, [PipelineNext]_pipelineVars PROVE PipelineInv'
    OBVIOUS
  <2>1. [Next]_vars
    BY StepIsSniffers DEF PipelineInv
  <2>2. IInv' /\ left' = {}
    BY <2>1, StepInvariant, LeftKept DEF PipelineInv, Joining
  <2>. QED BY <2>1, <2>2, RestKept, CleanKept, BufferKept DEF PipelineInv
<1>. QED BY <1>1, <1>2, PTL DEF PipelineSpec

\* On its native capture, the sniffer does nothing that Sniffer does not allow:
\* what read_many returns are the packets a capture hands out next.
THEOREM PipelineIsSniffer == PipelineSpec => Spec
<1>1. PipelineInit => Init
  BY DEF PipelineInit
<1>2. PipelineInv /\ [PipelineNext]_pipelineVars => [Next]_vars
  BY StepIsSniffers DEF PipelineInv
<1>. QED BY <1>1, <1>2, PipelineInvariance, PTL DEF PipelineSpec, Spec

\* So the promises of the sniffer are kept on a real native queue.
THEOREM PipelineIsSafe == PipelineSpec => [](TypeOK /\ DrainsAlone /\ NoSilentDeath /\ InOrder)
<1>1. Joining
  BY DEF Joining
<1>2. PipelineSpec => Spec
  BY PipelineIsSniffer
<1>3. Spec => []TypeOK /\ []DrainsAlone /\ []NoSilentDeath /\ []InOrder
  BY <1>1, TypeCorrect, OneDrainThread, DeathsAreTold, PacketsStayInOrder
<1>. QED BY <1>2, <1>3, PTL

-----------------------------------------------------------------------------
(* What the drain thread has in hand *)

\* The one drain thread that runs has the packets in hand.
LEMMA HandIs ==
  ASSUME AloneInv, left = {}
  PROVE  /\ \A d \in Drains : Alive(d) => hand = batch[d]
         /\ (\A d \in Drains : ~Alive(d)) => hand = <<>>
<1>1. ASSUME NEW d \in Drains, Alive(d) PROVE hand = batch[d]
  <2>1. \A e \in Drains : Alive(e) => e = d
    BY <1>1 DEF AloneInv
  <2>2. (CHOOSE e \in Drains : Alive(e)) = d
    BY <1>1, <2>1
  <2>. QED BY <1>1, <2>2 DEF hand
<1>2. ASSUME \A d \in Drains : ~Alive(d) PROVE hand = <<>>
  BY <1>2 DEF hand
<1>. QED BY <1>1, <1>2

LEMMA HandIsNext ==
  ASSUME AloneInv', left' = {}
  PROVE  /\ \A d \in Drains : Alive(d)' => hand' = batch'[d]
         /\ (\A d \in Drains : ~Alive(d)') => hand' = <<>>
<1>1. ASSUME NEW d \in Drains, Alive(d)' PROVE hand' = batch'[d]
  <2>1. \A e \in Drains : Alive(e)' => e = d
    BY <1>1 DEF AloneInv
  <2>2. (CHOOSE e \in Drains : Alive(e)') = d
    BY <1>1, <2>1
  <2>. QED BY <1>1, <2>2 DEF hand
<1>2. ASSUME \A d \in Drains : ~Alive(d)' PROVE hand' = <<>>
  BY <1>2 DEF hand
<1>. QED BY <1>1, <1>2

\* A drain thread begins when no other runs, and ends with nothing in hand or
\* because of an error.
LEMMA AliveSteps ==
  ASSUME PipelineInv, [Next]_vars, NEW d \in Drains
  PROVE  /\ Alive(d)' /\ ~Alive(d) => pc'[d] = "begin" /\ \A e \in Drains : ~Alive(e)
         /\ Alive(d) /\ ~Alive(d)' => pc[d] \in RestLabels \/ (error' /\ ~error)
<1> USE DEF PipelineInv, IInv, GeneralInv, Types, PcTypes, AttributeTypes, CallInv, AloneInv, CleanInv, StartLabels,
            StopLabels, RestLabels, Ends
<1> DEFINE Goal ==
      /\ Alive(d)' /\ ~Alive(d) => pc'[d] = "begin" /\ \A e \in Drains : ~Alive(e)
      /\ Alive(d) /\ ~Alive(d)' => pc[d] \in RestLabels \/ (error' /\ ~error)
<1>1. CASE StartLeavesAll \/ StartBegin \/ StartNativeSucceeds \/ StartNativeFails \/ StartAssign \/ StartClear
  BY <1>1 DEF StartLeavesAll, StartBegin, StartNativeSucceeds, StartNativeFails, StartAssign, StartClear
<1>2. CASE StartRun
  BY <1>2 DEF StartRun
<1>3. ASSUME NEW t \in Stoppers, NEW how \in JoinModes \cup CallbackModes, Stop(t, how) PROVE Goal
  BY <1>3 DEF Stop
<1>4. ASSUME NEW t \in Stoppers, StopJoin(t) \/ StopTake(t) \/ StopRelease(t) PROVE Goal
  <2>1. CASE StopJoin(t)
    BY <2>1 DEF StopJoin, PassesJoin
  <2>2. CASE StopTake(t) \/ StopRelease(t)
    BY <2>2, SMTT(30) DEF StopTake, StopRelease
  <2>. QED BY <1>4, <2>1, <2>2
<1>5. ASSUME NEW t \in Stoppers, Close(t) PROVE Goal
  BY <1>5, SMTT(30) DEF Close
<1>6. ASSUME NEW e \in Drains, RunStep(e) PROVE Goal
  BY <1>6 DEF RunStep
<1>7. CASE OtherStep
  BY <1>7 DEF OtherStep
<1>. QED BY <1>1, <1>2, <1>3, <1>4, <1>5, <1>6, <1>7, Steps

\* While it handles none of its packets, the drain thread keeps what it has in
\* hand, or fails.
LEMMA HandStays ==
  ASSUME PipelineInv, PipelineInv', [Next]_vars, batch' = batch
  PROVE  hand' = hand \/ (hand' = <<>> /\ error' /\ ~error)
<1>1. /\ AloneInv /\ left = {} /\ AloneInv' /\ left' = {}
      /\ \A d \in Drains : pc[d] \in RestLabels => batch[d] = <<>>
      /\ \A d \in Drains : pc'[d] \in RestLabels => batch'[d] = <<>>
  BY DEF PipelineInv, IInv, RestInv
<1>2. CASE \E d \in Drains : Alive(d)'
  <2>1. PICK d \in Drains : Alive(d)'
    BY <1>2
  <2>2. hand' = batch[d]
    BY <1>1, <2>1, HandIsNext
  <2>3. CASE Alive(d)
    BY <1>1, <2>2, <2>3, HandIs
  <2>4. CASE ~Alive(d)
    BY <1>1, <2>1, <2>2, <2>4, AliveSteps, HandIs DEF RestLabels
  <2>. QED BY <2>3, <2>4
<1>3. CASE \A d \in Drains : ~Alive(d)'
  <2>1. hand' = <<>>
    BY <1>1, <1>3, HandIsNext
  <2>2. CASE \A d \in Drains : ~Alive(d)
    BY <1>1, <2>1, <2>2, HandIs
  <2>3. ASSUME NEW d \in Drains, Alive(d) PROVE hand = <<>> \/ (error' /\ ~error)
    BY <1>1, <1>3, <2>3, AliveSteps, HandIs
  <2>. QED BY <2>1, <2>2, <2>3
<1>. QED BY <1>2, <1>3

-----------------------------------------------------------------------------
(* Where packets go *)

\* A list too long for callback_batch_size loses what comes before what it keeps.
LEMMA NewestLoses ==
  ASSUME NEW list \in Seq(1 .. MaxPackets), Ascending(list), Len(list) # 0
  PROVE  /\ Elements(Newest(list)) \subseteq Elements(list)
         /\ \A p \in Elements(list) \ Elements(Newest(list)) :
              CallbackBatch > 0 /\ Len(Newest(list)) = CallbackBatch /\ p < Head(Newest(list))
<1>1. CASE CallbackBatch > 0 /\ Len(list) > CallbackBatch
  <2> DEFINE n     == Len(list) - CallbackBatch
             first == SubSeq(list, 1, n)
             rest  == SubSeq(list, n + 1, Len(list))
  <2>1. n \in 1 .. Len(list) /\ Len(list) - n = CallbackBatch
    BY <1>1
  <2>2. Newest(list) = rest
    BY <1>1 DEF Newest
  <2> HIDE DEF n
  <2>3. /\ first \in Seq(1 .. MaxPackets) /\ Len(first) = n /\ Ascending(first)
        /\ rest \in Seq(1 .. MaxPackets) /\ Len(rest) = Len(list) - n
        /\ Elements(list) = Elements(first) \cup Elements(rest)
        /\ \A p \in Elements(rest) : first[n] < p
    BY <2>1, AscendingCut
  <2> HIDE DEF first, rest
  <2>4. rest # <<>> /\ Head(rest) \in Elements(rest)
    <3>1. Len(rest) # 0
      BY <1>1, <2>1, <2>3
    <3>2. rest # <<>>
      BY <2>3, <3>1, EmptySeq
    <3>. QED BY <2>3, <3>2, AscendingTail
  <2>5. \A p \in Elements(first) : p < Head(rest)
    <3>1. first[n] < Head(rest)
      BY <2>3, <2>4
    <3>2. \A i \in 1 .. n : first[i] \in 1 .. MaxPackets /\ first[i] <= first[n]
      <4>1. \A i \in 1 .. Len(first) : first[i] \in 1 .. MaxPackets
        BY <2>3
      <4>2. n \in Nat /\ n \in 1 .. n
        BY <2>1
      <4>3. \A i \in 1 .. n : i = n \/ first[i] < first[n]
        BY ONLY <2>3, <4>2 DEF Ascending
      <4>4. Len(first) = n
        BY <2>3
      <4>5. \A i \in 1 .. n : first[i] \in 1 .. MaxPackets
        BY ONLY <4>1, <4>4
      <4>6. first[n] \in 1 .. MaxPackets
        BY ONLY <4>2, <4>5
      <4>. QED BY ONLY <4>3, <4>5, <4>6, SnifferAssumption
    <3>3. Head(rest) \in Int /\ n \in 1 .. n
      BY <2>1, <2>3, <2>4, AscendingTail
    <3>. QED BY <2>3, <3>1, <3>2, <3>3 DEF Elements
  <2>. QED BY <1>1, <2>1, <2>2, <2>3, <2>5
<1>2. CASE ~(CallbackBatch > 0 /\ Len(list) > CallbackBatch)
  BY <1>2 DEF Newest
<1>. QED BY <1>1, <1>2

\* What the steps of the pipeline do to the packets on their way: one arrives,
\* some go from the native queue to the drain thread's hand, one goes from there
\* to the sniffer's queue, one is delivered, or those are dropped that the code
\* drops when the capture ends or the thread fails.
ArrivalMoves ==
  /\ UNCHANGED <<taken, queue>> /\ hand' = hand /\ capacity' = capacity
  /\ arrivals' = arrivals + 1
  /\ \E lost \in SUBSET Elements(buffer) :
       /\ Elements(buffer') = (Elements(buffer) \ lost) \cup {arrivals'}
       /\ lost = {} \/ (Len(buffer) = capacity /\ lost = {Head(buffer)})
TakeMoves ==
  /\ UNCHANGED <<taken, arrivals, queue>> /\ hand = <<>>
  /\ \E list \in Seq(1 .. MaxPackets) :
       /\ Ascending(list) /\ Len(list) # 0
       /\ Elements(buffer) = Elements(list) \cup Elements(buffer')
       /\ hand' = Newest(list)
PutMoves ==
  /\ UNCHANGED <<taken, arrivals>>
  /\ hand # <<>> /\ hand' = Tail(hand)
  /\ queue' = IF Len(queue) < QueueSize THEN Append(queue, Head(hand)) ELSE queue
  /\ buffer' = buffer \/ CaptureEnds
DeliveryMoves ==
  /\ UNCHANGED <<arrivals, buffer>> /\ hand' = hand
  /\ queue # <<>> /\ taken' = Head(queue) /\ queue' = Tail(queue)
NothingMoves ==
  /\ UNCHANGED <<taken, arrivals, queue>>
  /\ hand' = hand \/ (hand' = <<>> /\ error' /\ ~error)
  /\ buffer' = buffer \/ CaptureEnds

LEMMA Moves ==
  ASSUME PipelineInv, PipelineInv', [PipelineNext]_pipelineVars
  PROVE  ArrivalMoves \/ TakeMoves \/ PutMoves \/ DeliveryMoves \/ NothingMoves
<1>0. /\ AloneInv /\ AloneInv' /\ left = {} /\ left' = {} /\ [Next]_vars /\ BufferInv
      /\ pc \in [Threads -> AppLabels \cup ReaderLabels \cup DrainLabels]
      /\ batch \in [Drains -> Seq(1 .. MaxPackets)]
  BY StepIsSniffers DEF PipelineInv, IInv, GeneralInv, Types, PcTypes, PacketTypes
<1>1. ASSUME NEW d \in Drains, Alive(d), Alive(d)' PROVE hand = batch[d] /\ hand' = batch'[d]
  BY <1>0, <1>1, HandIs, HandIsNext
<1>2. CASE Arrives
  <2>1. UNCHANGED vars
    BY <1>2, ArrivalProperties, <1>0
  <2>2. hand' = hand
    BY <2>1 DEF vars, hand
  <2>. QED BY <1>0, <1>2, <2>1, <2>2, ArrivalProperties DEF ArrivalMoves, vars
<1>3. ASSUME NEW d \in Drains, NEW n \in Nat, Takes(d, n) PROVE TakeMoves
  <2> DEFINE list == SubSeq(buffer, 1, n)
  <2>1. /\ list \in Seq(1 .. MaxPackets) /\ Len(list) = n /\ Ascending(list)
        /\ Elements(buffer) = Elements(list) \cup Elements(buffer')
    BY <1>0, <1>3, TakenList
  <2>2. n # 0 /\ ReadPackets(d, list) /\ UNCHANGED arrivals
    BY <1>3 DEF Takes
  <2> HIDE DEF list
  <2>3. /\ At(d, "reading") /\ batch'[d] = Newest(list) /\ pc'[d] = "store"
        /\ UNCHANGED <<taken, queue>>
    BY <1>0, <2>2 DEF ReadPackets
  <2>4. batch[d] = <<>>
    BY <2>3 DEF PipelineInv, RestInv, RestLabels
  <2>. QED BY <1>1, <2>1, <2>2, <2>3, <2>4 DEF TakeMoves
<1>4. ASSUME CaptureGoesOn, ReadTakes PROVE DeliveryMoves
  <2>1. phase' = phase
    BY <1>4 DEF ReadTakes, phase
  <2>2. buffer' = buffer /\ arrivals' = arrivals
    BY <1>4, <2>1 DEF CaptureGoesOn, CaptureEnds
  <2>3. hand' = hand
    <3>1. batch' = batch /\ \A d \in Drains : pc'[d] = pc[d]
      BY <1>0, <1>4 DEF ReadTakes
    <3>. QED BY <3>1 DEF hand
  <2>. QED BY <1>4, <2>2, <2>3 DEF ReadTakes, DeliveryMoves
<1>5. ASSUME CaptureGoesOn, NEW d \in Drains, StorePacket(d) \/ Put(d) PROVE PutMoves \/ NothingMoves
  <2>1. Alive(d) /\ Alive(d)' /\ pc[d] \in HandLabels
    BY <1>0, <1>5 DEF StorePacket, Put, HandLabels
  <2>2. hand = batch[d] /\ hand' = batch'[d] /\ batch[d] # <<>>
    BY <1>1, <2>1 DEF PipelineInv, IInv, GeneralInv, HandInv
  <2>3. CASE StorePacket(d)
    BY <1>5, <2>2, <2>3 DEF CaptureGoesOn, StorePacket, NothingMoves
  <2>4. CASE Put(d)
    BY <1>0, <1>5, <2>2, <2>4 DEF CaptureGoesOn, Put, PutMoves
  <2>. QED BY <1>5, <2>3, <2>4
<1>6. ASSUME CaptureGoesOn, PacketsAlone PROVE NothingMoves
  <2>1. hand' = hand \/ (hand' = <<>> /\ error' /\ ~error)
    BY <1>0, <1>6, HandStays DEF PacketsAlone
  <2>. QED BY <1>6, <2>1 DEF CaptureGoesOn, PacketsAlone, NothingMoves
<1>7. CASE CaptureGoesOn
  BY <1>4, <1>5, <1>6, <1>7, QuietSteps DEF CaptureGoesOn
<1>. QED BY <1>0, <1>2, <1>3, <1>7, PipelineSteps

\* The packets on their way have numbers, and the ones further on are older.
TransitOrder ==
  /\ queue \in Seq(1 .. MaxPackets) /\ hand \in Seq(1 .. MaxPackets) /\ buffer \in Seq(1 .. MaxPackets)
  /\ Len(queue) <= QueueSize /\ Len(buffer) <= capacity
  /\ Ascending(queue) /\ Ascending(hand) /\ Ascending(buffer)
  /\ Transit = Elements(queue) \cup Elements(hand) \cup Elements(buffer)
  /\ \A p \in Elements(hand) : \A q \in Elements(queue) : q < p
  /\ \A p \in Elements(buffer) : \A q \in Elements(queue) \cup Elements(hand) : q < p
  /\ \A p \in Transit : p \in 1 .. MaxPackets /\ taken < p /\ p <= arrivals
  /\ arrivals \in Nat /\ taken \in Nat

LEMMA OrderInTransit == PipelineInv => TransitOrder
<1> SUFFICES ASSUME PipelineInv PROVE TransitOrder
  OBVIOUS
<1>1. /\ queue \in Seq(1 .. MaxPackets) /\ buffer \in Seq(1 .. MaxPackets)
      /\ Len(queue) <= QueueSize /\ Len(buffer) <= capacity
      /\ batch \in [Drains -> Seq(1 .. MaxPackets)]
      /\ captured \in Nat /\ taken \in Nat /\ arrivals \in Nat /\ captured <= arrivals
  BY DEF PipelineInv, IInv, GeneralInv, Types, PacketTypes, BufferInv
<1>2. Ascending(queue) /\ \A p \in Elements(queue) : taken < p /\ p <= captured
  BY DEF PipelineInv, IInv, OrderInv, QueueOrder
<1>3. taken <= captured
  BY DEF PipelineInv, IInv, OrderInv, QueueOrder
<1>4. Ascending(buffer) /\ \A p \in Elements(buffer) : captured < p /\ p <= arrivals
  BY DEF PipelineInv, BufferInv
<1>5. /\ hand \in Seq(1 .. MaxPackets) /\ Ascending(hand)
      /\ \A p \in Elements(hand) : taken < p /\ p <= captured /\ \A q \in Elements(queue) : q < p
  <2>1. ASSUME hand = <<>>
        PROVE  hand \in Seq(1 .. MaxPackets) /\ Ascending(hand) /\ Elements(hand) = {}
    <3>1. hand \in Seq(1 .. MaxPackets) /\ Len(hand) = 0
      BY <2>1, EmptySeq
    <3>. QED BY <3>1 DEF Ascending, Elements
  <2>2. ASSUME NEW d \in Drains, Alive(d) PROVE hand = <<>> \/ (hand = batch[d] /\ BatchOrder(d))
    <3>1. hand = batch[d]
      BY <2>2, HandIs DEF PipelineInv, IInv
    <3>2. pc[d] \in RestLabels \/ pc[d] \in HandLabels
      BY <2>2 DEF PipelineInv, IInv, GeneralInv, Types, PcTypes, DrainLabels, RestLabels, HandLabels
    <3>. QED BY <3>1, <3>2 DEF PipelineInv, RestInv, IInv, OrderInv, HandOrder
  <2>3. (\A d \in Drains : ~Alive(d)) => hand = <<>>
    BY HandIs DEF PipelineInv, IInv
  <2>4. ASSUME NEW d \in Drains, hand = batch[d], BatchOrder(d)
        PROVE  /\ hand \in Seq(1 .. MaxPackets) /\ Ascending(hand)
               /\ \A p \in Elements(hand) : taken < p /\ p <= captured /\ \A q \in Elements(queue) : q < p
    BY <1>1, <2>4 DEF BatchOrder
  <2>. QED BY <2>1, <2>2, <2>3, <2>4
<1>6. Transit = Elements(queue) \cup Elements(hand) \cup Elements(buffer)
  BY <1>1, <1>5, RangeIsElements DEF Transit
<1>7. /\ Elements(queue) \subseteq 1 .. MaxPackets /\ Elements(hand) \subseteq 1 .. MaxPackets
      /\ Elements(buffer) \subseteq 1 .. MaxPackets
  BY <1>1, <1>5, ElementsType
<1>8. \A p \in Elements(buffer) : \A q \in Elements(queue) \cup Elements(hand) : q < p
  BY ONLY <1>1, <1>2, <1>4, <1>5, <1>7, SnifferAssumption
<1>9. \A p \in Transit : p \in 1 .. MaxPackets /\ taken < p /\ p <= arrivals
  BY ONLY <1>1, <1>2, <1>3, <1>4, <1>5, <1>6, <1>7, SnifferAssumption
<1>. QED BY ONLY <1>1, <1>2, <1>4, <1>5, <1>6, <1>8, <1>9 DEF TransitOrder

LEMMA OrderInTransitNext == PipelineInv' => TransitOrder'
BY OrderInTransit, PTL

\* A packet that was on its way and is no more, and why.
LostForReason(p) ==
  \/ p = taken'
  \/ Len(buffer) = capacity /\ p = Head(buffer) /\ arrivals' = arrivals + 1
  \/ Len(queue) = QueueSize /\ hand # <<>> /\ p = Head(hand)
  \/ /\ CallbackBatch > 0 /\ Len(hand') = CallbackBatch
     /\ p \in Range(buffer) /\ p < Head(hand')
  \/ phase = "running" /\ phase' = "stopped" /\ p \in Range(buffer)
  \/ error' /\ ~error /\ p \in Range(hand)

LEMMA LossStep ==
  ASSUME PipelineInv, PipelineInv', [PipelineNext]_pipelineVars, NEW p \in Transit \ Transit'
  PROVE  LostForReason(p)
<1> USE DEF LostForReason
<1>0. TransitOrder /\ TransitOrder'
  BY OrderInTransit, OrderInTransitNext
<1>1. /\ p \in Elements(queue) \/ p \in Elements(hand) \/ p \in Elements(buffer)
      /\ p \notin Elements(queue') /\ p \notin Elements(hand') /\ p \notin Elements(buffer')
  BY <1>0 DEF TransitOrder, Elements
<1>2. /\ queue \in Seq(1 .. MaxPackets) /\ hand \in Seq(1 .. MaxPackets) /\ buffer \in Seq(1 .. MaxPackets)
      /\ Range(hand) = Elements(hand) /\ Range(buffer) = Elements(buffer)
      /\ Len(queue) <= QueueSize
  BY <1>0, RangeIsElements DEF TransitOrder
<1>3. ASSUME buffer' = buffer \/ CaptureEnds, p \in Elements(buffer) PROVE LostForReason(p)
  BY <1>1, <1>2, <1>3 DEF CaptureEnds
<1>4. CASE ArrivalMoves
  BY <1>1, <1>4 DEF ArrivalMoves
<1>5. CASE TakeMoves
  <2>1. PICK list \in Seq(1 .. MaxPackets) :
          /\ Ascending(list) /\ Len(list) # 0
          /\ Elements(buffer) = Elements(list) \cup Elements(buffer')
          /\ hand' = Newest(list)
    BY <1>5 DEF TakeMoves
  <2>2. Elements(hand) = {}
    BY <1>5, EmptySeq DEF TakeMoves, Elements
  <2>3. p \in Elements(list) \ Elements(Newest(list)) /\ p \in Elements(buffer)
    BY <1>1, <1>5, <2>1, <2>2 DEF TakeMoves
  <2>4. CallbackBatch > 0 /\ Len(hand') = CallbackBatch /\ p < Head(hand')
    BY <2>1, <2>3, NewestLoses
  <2>. QED BY <1>2, <2>3, <2>4
<1>6. CASE PutMoves
  <2>1. CASE p \in Elements(buffer)
    BY <1>3, <1>6, <2>1 DEF PutMoves
  <2>2. CASE p \notin Elements(buffer)
    <3>1. /\ hand # <<>> /\ hand' = Tail(hand)
          /\ queue' = queue \/ queue' = Append(queue, Head(hand))
          /\ queue' = queue => ~(Len(queue) < QueueSize) \/ queue = Append(queue, Head(hand))
      BY <1>6 DEF PutMoves
    <3>2. Elements(hand) = {Head(hand)} \cup Elements(hand') /\ Head(hand) \in 1 .. MaxPackets
      BY <1>2, <3>1, AscendingTail
    <3>3. Elements(Append(queue, Head(hand))) = Elements(queue) \cup {Head(hand)}
      BY <1>2, <3>2, AscendingAppend
    <3>4. p = Head(hand) /\ queue' = queue
      BY <1>1, <2>2, <3>1, <3>2, <3>3
    <3>5. queue # Append(queue, Head(hand))
      BY <1>1, <3>3, <3>4
    <3>6. Len(queue) = QueueSize
      <4>1. Len(queue) \in Nat /\ QueueSize \in Nat
        BY <1>2
      <4>. QED BY ONLY <1>2, <3>1, <3>4, <3>5, <4>1
    <3>. QED BY <3>1, <3>4, <3>6
  <2>. QED BY <2>1, <2>2
<1>7. CASE DeliveryMoves
  <2>1. Elements(queue) = {taken'} \cup Elements(queue')
    BY <1>2, <1>7, AscendingTail DEF DeliveryMoves
  <2>. QED BY <1>1, <1>7, <2>1 DEF DeliveryMoves
<1>8. CASE NothingMoves
  <2>1. CASE p \in Elements(buffer)
    BY <1>3, <1>8, <2>1 DEF NothingMoves
  <2>2. CASE p \notin Elements(buffer)
    BY <1>1, <1>2, <1>8, <2>2 DEF NothingMoves
  <2>. QED BY <2>1, <2>2
<1>. QED BY <1>4, <1>5, <1>6, <1>7, <1>8, Moves

\* Packets are lost only where the code means to lose them.
THEOREM LossesHaveReasons == PipelineSpec => LossHasReason
<1> DEFINE Loss == \A p \in Transit \ Transit' : LostForReason(p)
<1>1. PipelineInv /\ PipelineInv' /\ [PipelineNext]_pipelineVars => [Loss]_pipelineVars
  BY LossStep
<1>2. PipelineSpec => [][Loss]_pipelineVars
  <2> HIDE DEF Loss
  <2>. QED BY <1>1, PipelineInvariance, PTL DEF PipelineSpec
<1>. QED BY <1>2 DEF LostForReason, LossHasReason

-----------------------------------------------------------------------------
(* The pipeline implements the stream *)

LEMMA StreamStep ==
  ASSUME PipelineInv, PipelineInv', [PipelineNext]_pipelineVars
  PROVE  [Stream!Next]_(Stream!vars)
<1>0. TransitOrder /\ TransitOrder'
  BY OrderInTransit, OrderInTransitNext
<1>1. /\ Transit = Elements(queue) \cup Elements(hand) \cup Elements(buffer)
      /\ Transit' = Elements(queue') \cup Elements(hand') \cup Elements(buffer')
      /\ queue \in Seq(1 .. MaxPackets) /\ hand \in Seq(1 .. MaxPackets) /\ buffer \in Seq(1 .. MaxPackets)
      /\ Ascending(queue) /\ Ascending(hand)
      /\ \A p \in Elements(hand) : \A q \in Elements(queue) : q < p
      /\ \A p \in Elements(buffer) : \A q \in Elements(queue) \cup Elements(hand) : q < p
      /\ \A p \in Transit : p \in 1 .. MaxPackets
  BY <1>0 DEF TransitOrder, Elements
<1> DEFINE Loses == Transit' \subseteq Transit /\ UNCHANGED <<arrivals, taken>>
<1>2. ASSUME Loses PROVE Stream!Lose
  BY <1>2 DEF Stream!Lose
<1>3. ASSUME buffer' = buffer \/ CaptureEnds PROVE Elements(buffer') \subseteq Elements(buffer)
  <2>1. Elements(<<>>) = {}
    BY EmptySeq DEF Elements
  <2>. QED BY <1>3, <2>1 DEF CaptureEnds
<1>4. CASE ArrivalMoves
  <2>1. PICK lost \in SUBSET Elements(buffer) :
          /\ Elements(buffer') = (Elements(buffer) \ lost) \cup {arrivals'}
          /\ lost = {} \/ lost = {Head(buffer)}
    BY <1>4 DEF ArrivalMoves
  <2>2. arrivals' = arrivals + 1 /\ taken' = taken /\ queue' = queue /\ hand' = hand
    BY <1>4 DEF ArrivalMoves
  <2>3. \A p \in lost : p \in Transit /\ p \notin Elements(queue) \cup Elements(hand)
    <3>1. \A p \in Transit : ~(p < p)
      BY <1>1
    <3>. QED BY ONLY <1>1, <2>1, <3>1
  <2>4. Transit' = (Transit \ lost) \cup {arrivals + 1}
    BY ONLY <1>1, <2>1, <2>2, <2>3
  <2>5. lost \in {{}} \cup {{p} : p \in Transit}
    BY ONLY <2>1, <2>3
  <2>6. Stream!Arrive
    BY <2>2, <2>4, <2>5 DEF Stream!Arrive
  <2>. QED BY <2>6 DEF Stream!Next
<1>5. CASE TakeMoves
  <2>1. Transit' \subseteq Transit
    <3>1. PICK list \in Seq(1 .. MaxPackets) :
            /\ Ascending(list) /\ Len(list) # 0
            /\ Elements(buffer) = Elements(list) \cup Elements(buffer')
            /\ hand' = Newest(list)
      BY <1>5 DEF TakeMoves
    <3>2. Elements(Newest(list)) \subseteq Elements(list)
      BY <3>1, NewestLoses
    <3>3. Elements(hand') = Elements(Newest(list)) /\ Elements(queue') = Elements(queue)
      BY <1>5, <3>1 DEF TakeMoves
    <3>. QED BY ONLY <1>1, <3>1, <3>2, <3>3
  <2>. QED BY <1>2, <1>5, <2>1 DEF TakeMoves, Stream!Next
<1>6. CASE PutMoves
  <2>1. Transit' \subseteq Transit
    <3>1. /\ hand # <<>> /\ hand' = Tail(hand)
          /\ queue' = queue \/ queue' = Append(queue, Head(hand))
      BY <1>6 DEF PutMoves
    <3>2. Elements(hand) = {Head(hand)} \cup Elements(hand') /\ Head(hand) \in 1 .. MaxPackets
      BY <1>1, <3>1, AscendingTail
    <3>3. Elements(queue') \subseteq Elements(queue) \cup {Head(hand)}
      BY <1>1, <3>1, <3>2, AscendingAppend
    <3>4. Elements(buffer') \subseteq Elements(buffer)
      BY <1>3, <1>6 DEF PutMoves
    <3>. QED BY ONLY <1>1, <3>2, <3>3, <3>4
  <2>. QED BY <1>2, <1>6, <2>1 DEF PutMoves, Stream!Next
<1>7. CASE DeliveryMoves
  <2>1. /\ queue # <<>> /\ taken' = Head(queue) /\ queue' = Tail(queue)
        /\ UNCHANGED arrivals /\ hand' = hand /\ buffer' = buffer
    BY <1>7 DEF DeliveryMoves
  <2>2. /\ Elements(queue) = {taken'} \cup Elements(queue') /\ taken' \in 1 .. MaxPackets
        /\ \A q \in Elements(queue') : taken' < q
    BY <1>1, <2>1, AscendingTail
  <2>3. /\ Elements(hand') = Elements(hand) /\ Elements(buffer') = Elements(buffer)
        /\ \A q \in Elements(hand) \cup Elements(buffer) : taken' < q
    BY <1>1, <2>1, <2>2
  <2>4. ~(taken' < taken')
    BY <2>2
  <2>5. taken' \in Transit /\ Transit' = Transit \ {taken'}
    BY ONLY <1>1, <2>2, <2>3, <2>4
  <2>6. \A q \in Transit : taken' <= q
    <3>1. \A q \in Transit : q = taken' \/ taken' < q
      BY ONLY <1>1, <2>2, <2>3
    <3>. QED BY ONLY <1>1, <2>2, <3>1, SnifferAssumption
  <2>7. Stream!Deliver
    BY <2>1, <2>5, <2>6 DEF Stream!Deliver
  <2>. QED BY <2>7 DEF Stream!Next
<1>8. CASE NothingMoves
  <2>1. Transit' \subseteq Transit
    <3>1. Elements(hand') \subseteq Elements(hand)
      <4>1. Elements(<<>>) = {}
        BY EmptySeq DEF Elements
      <4>. QED BY <1>8, <4>1 DEF NothingMoves
    <3>2. Elements(buffer') \subseteq Elements(buffer) /\ Elements(queue') = Elements(queue)
      BY <1>3, <1>8 DEF NothingMoves
    <3>. QED BY ONLY <1>1, <3>1, <3>2
  <2>. QED BY <1>2, <1>8, <2>1 DEF NothingMoves, Stream!Next
<1>. QED BY <1>4, <1>5, <1>6, <1>7, <1>8, Moves

\* From PktMonApi.dll to read(), through both queues, the batches and every
\* restart, packets are a stream: none twice, none before an earlier one.
THEOREM PipelineIsAStream == PipelineSpec => ImplementsStream
<1>1. PipelineInit => Stream!Init
  <2> SUFFICES ASSUME PipelineInit PROVE Stream!Init
    OBVIOUS
  <2>1. queue = <<>> /\ buffer = <<>> /\ arrivals = 0 /\ taken = 0 /\ hand = <<>>
    <3>1. \A d \in Drains : ~Alive(d)
      BY DEF PipelineInit, Init
    <3>. QED BY <3>1 DEF PipelineInit, Init, hand
  <2>2. Range(<<>>) = {}
    BY DEF Range
  <2>. QED BY <2>1, <2>2 DEF Stream!Init, Transit
<1>2. PipelineInv /\ PipelineInv' /\ [PipelineNext]_pipelineVars => [Stream!Next]_(Stream!vars)
  BY StreamStep
<1>. QED BY <1>1, <1>2, PipelineInvariance, PTL DEF PipelineSpec, ImplementsStream, Stream!Spec
=============================================================================
