-------------------------- MODULE ApplicationProofs --------------------------
(***************************************************************************)
(* Theorems about what an application may run (Application): a sniff()     *)
(* returns what it promised, and a command destroys its capture once,      *)
(* except for a Ctrl+C in one of the moments that ClosedOnce names.        *)
(*                                                                         *)
(* Each is proved from an inductive invariant of its own, which says       *)
(* nothing while the other program runs.                                   *)
(***************************************************************************)
EXTENDS Application, SequenceTheorems, TLAPS

-----------------------------------------------------------------------------
(* Sequences of packets *)

Ascending(s) == \A i, j \in 1 .. Len(s) : i < j => s[i] < s[j]

LEMMA RangeIsElements ==
  ASSUME NEW s \in Seq(Nat)
  PROVE  /\ \A y : y \in Range(s) <=> \E i \in 1 .. Len(s) : y = s[i]
         /\ \A i \in 1 .. Len(s) : s[i] \in Nat
<1>1. Range(s) = {s[i] : i \in 1 .. Len(s)}
  BY RangeEquality
<1>2. \A i \in 1 .. Len(s) : s[i] \in Nat
  OBVIOUS
<1>. QED BY ONLY <1>1, <1>2

\* A packet at the end of a sequence.
LEMMA AppendPacket ==
  ASSUME NEW s \in Seq(Nat), NEW x \in Nat
  PROVE  /\ Append(s, x) \in Seq(Nat) /\ Len(Append(s, x)) = Len(s) + 1
         /\ Range(Append(s, x)) = Range(s) \cup {x}
         /\ Ascending(s) /\ (\A y \in Range(s) : y < x) => Ascending(Append(s, x))
<1> DEFINE p == Append(s, x)
           n == Len(s)
<1>1. p \in Seq(Nat) /\ Len(p) = n + 1 /\ p[n + 1] = x /\ \A i \in 1 .. n : p[i] = s[i]
  BY AppendProperties
<1>2. n \in Nat /\ \A i \in 1 .. n : s[i] \in Nat
  BY RangeIsElements
<1> HIDE DEF p
<1>3. /\ \A y : y \in Range(s) <=> \E i \in 1 .. n : y = s[i]
      /\ \A y : y \in Range(p) <=> \E i \in 1 .. Len(p) : y = p[i]
  BY ONLY s \in Seq(Nat), <1>1, RangeIsElements
<1>4. Ascending(s) => \A i, j \in 1 .. n : i < j => s[i] < s[j]
  BY DEF Ascending
<1> HIDE DEF n
<1>5. \A i : i \in 1 .. Len(p) <=> i \in 1 .. n \/ i = n + 1
  BY ONLY <1>1, <1>2
<1>6. Range(p) = Range(s) \cup {x}
  <2>1. ASSUME NEW y \in Range(p) PROVE y \in Range(s) \cup {x}
    <3>1. PICK i \in 1 .. Len(p) : y = p[i]
      BY ONLY <1>3, <2>1
    <3>. QED BY ONLY <1>1, <1>3, <1>5, <3>1
  <2>2. ASSUME NEW y \in Range(s) PROVE y \in Range(p)
    BY ONLY <1>1, <1>3, <1>5, <2>2
  <2>3. x \in Range(p)
    BY ONLY <1>1, <1>3, <1>5
  <2>. QED BY ONLY <2>1, <2>2, <2>3
<1>7. ASSUME Ascending(s), \A y \in Range(s) : y < x PROVE Ascending(p)
  <2>1. \A i \in 1 .. n : s[i] < x
    BY ONLY <1>3, <1>7
  <2> SUFFICES ASSUME NEW i \in 1 .. Len(p), NEW j \in 1 .. Len(p), i < j PROVE p[i] < p[j]
    BY DEF Ascending
  <2>2. i \in 1 .. n /\ (j \in 1 .. n \/ j = n + 1)
    BY ONLY <1>2, <1>5, i \in 1 .. Len(p), j \in 1 .. Len(p), i < j
  <2>3. \A a, b \in 1 .. n : a < b => s[a] < s[b]
    BY ONLY <1>4, <1>7
  <2>. QED BY ONLY <1>1, <2>1, <2>2, <2>3, i < j
<1>. QED BY ONLY <1>1, <1>6, <1>7 DEF p, n

\* The first packet of a sequence, and the others.
LEMMA SplitPacket ==
  ASSUME NEW s \in Seq(Nat), s # <<>>
  PROVE  /\ Head(s) \in Nat /\ Tail(s) \in Seq(Nat)
         /\ Range(s) = {Head(s)} \cup Range(Tail(s))
         /\ Ascending(s) => Ascending(Tail(s)) /\ \A y \in Range(Tail(s)) : Head(s) < y
<1> DEFINE t == Tail(s)
           n == Len(t)
<1>1. Head(s) = s[1] /\ t \in Seq(Nat) /\ \A i \in 1 .. n : t[i] = s[i + 1]
  BY HeadTailProperties
<1>2. Head(s) \in Nat /\ n \in Nat /\ Len(s) = n + 1
  BY HeadTailProperties, EmptySeq
<1>4. Ascending(s) => \A i, j \in 1 .. Len(s) : i < j => s[i] < s[j]
  BY DEF Ascending
<1> HIDE DEF t
<1>3. /\ \A y : y \in Range(s) <=> \E i \in 1 .. Len(s) : y = s[i]
      /\ \A y : y \in Range(t) <=> \E i \in 1 .. n : y = t[i]
  BY ONLY s \in Seq(Nat), <1>1, RangeIsElements
<1> HIDE DEF n
<1>5. /\ \A i \in 1 .. n : i + 1 \in 1 .. Len(s) /\ 1 < i + 1
      /\ \A i \in 1 .. Len(s) : i = 1 \/ (i - 1 \in 1 .. n /\ (i - 1) + 1 = i)
      /\ 1 \in 1 .. Len(s)
  BY ONLY <1>2
<1>6. Range(s) = {Head(s)} \cup Range(t)
  <2>1. ASSUME NEW y \in Range(s) PROVE y \in {Head(s)} \cup Range(t)
    <3>1. PICK i \in 1 .. Len(s) : y = s[i]
      BY ONLY <1>3, <2>1
    <3>2. CASE i = 1
      BY ONLY <1>1, <3>1, <3>2
    <3>3. CASE i - 1 \in 1 .. n /\ (i - 1) + 1 = i
      BY ONLY <1>1, <1>3, <3>1, <3>3
    <3>. QED BY ONLY <1>5, <3>2, <3>3
  <2>2. ASSUME NEW y \in Range(t) PROVE y \in Range(s)
    <3>1. PICK i \in 1 .. n : y = t[i]
      BY ONLY <1>3, <2>2
    <3>2. i + 1 \in 1 .. Len(s) /\ y = s[i + 1]
      BY ONLY <1>1, <1>5, <3>1
    <3>. QED BY ONLY <1>3, <3>2
  <2>3. Head(s) \in Range(s)
    BY ONLY <1>1, <1>3, <1>5
  <2>. QED BY ONLY <2>1, <2>2, <2>3
<1>7. ASSUME Ascending(s) PROVE Ascending(t) /\ \A y \in Range(t) : Head(s) < y
  <2>1. \A a, b \in 1 .. Len(s) : a < b => s[a] < s[b]
    BY ONLY <1>4, <1>7
  <2>2. ASSUME NEW i \in 1 .. n, NEW j \in 1 .. n, i < j PROVE t[i] < t[j]
    <3>1. PICK a \in 1 .. Len(s), b \in 1 .. Len(s) : a = i + 1 /\ b = j + 1 /\ a < b
      BY ONLY <1>2, <1>5, <2>2
    <3>. QED BY ONLY <1>1, <2>1, <3>1
  <2>3. \A i \in 1 .. n : s[1] < t[i]
    BY ONLY <1>1, <1>5, <2>1
  <2>. QED BY ONLY <1>1, <1>3, <2>2, <2>3 DEF Ascending, n
<1>. QED BY ONLY <1>1, <1>2, <1>6, <1>7 DEF t

-----------------------------------------------------------------------------
(* sniff() *)

NumberTypes ==
  /\ clock \in Nat /\ count \in Int
  /\ timeout \subseteq Int /\ deadline \subseteq Int /\ wait \subseteq Int /\ until \subseteq Int
QueueTypes ==
  /\ arrived \in Nat /\ dropped \subseteq 1 .. arrived
  /\ queue \in Seq(Nat) /\ collected \in Seq(Nat)

\* What sniff() waits for in a read ends no earlier than its timeout.
WaitsForDeadline ==
  /\ pc = "read" => \A w \in wait : \E d \in deadline : d <= clock + w
  /\ pc = "get" => \A u \in until : \E d \in deadline : d <= u

\* It reads only as long as a packet is wanted.
WantsMore ==
  /\ count > 0 => Len(collected) <= count
  /\ pc \in {"read", "get"} /\ count > 0 => Len(collected) < count
  /\ pc = "start" => collected = <<>>
  /\ pc = "done" => (count > 0 /\ Len(collected) = count) \/ Sniffing!Over(deadline)

\* Every packet that came is collected, waits in the queue behind those that
\* are, or was dropped.
Accounted ==
  /\ Range(collected) \cup Range(queue) \cup dropped = 1 .. arrived
  /\ Ascending(collected) /\ Ascending(queue)
  /\ \A x \in Range(collected) : \A y \in Range(queue) : x < y

SniffInv ==
  program = "sniff" => NumberTypes /\ QueueTypes /\ WaitsForDeadline /\ WantsMore /\ Accounted

LEMMA MaxIsInteger ==
  ASSUME NEW t \in Int
  PROVE  Sniffing!Max({t, 0}) \in Int
BY DEF Sniffing!Max

\* What a sniffer begins with.
LEMMA SniffBegins ==
  Init => SniffInv
<1> SUFFICES ASSUME Sniffing!Init PROVE SniffInv
  BY DEF Init, SniffInv
<1>1. NumberTypes
  BY ApplicationAssumption DEF NumberTypes, Sniffing!Init, Sniffing!SniffAssumption
<1>2. arrived \in Nat /\ dropped = {} /\ collected = <<>> /\ queue = [i \in 1 .. arrived |-> i]
  BY ApplicationAssumption DEF Sniffing!Init, Sniffing!SniffAssumption
<1>3. queue \in Seq(Nat) /\ Len(queue) = arrived /\ \A i \in 1 .. arrived : queue[i] = i
  BY <1>2
<1>4. Range(collected) = {} /\ Len(collected) = 0 /\ collected \in Seq(Nat)
  <2>1. <<>> \in Seq(Nat) /\ Len(<<>>) = 0
    BY EmptySeq
  <2>2. \A i \in 1 .. Len(<<>>) : FALSE
    BY <2>1
  <2>. QED BY ONLY <1>2, <2>1, <2>2, RangeIsElements
<1>5. \A y : y \in Range(queue) <=> y \in 1 .. arrived
  BY ONLY <1>3, RangeIsElements
<1>6. Accounted
  BY ONLY <1>2, <1>3, <1>4, <1>5 DEF Accounted, Ascending
<1>7. pc = "start"
  BY DEF Sniffing!Init
<1>8. QueueTypes
  BY ONLY <1>2, <1>3, <1>4 DEF QueueTypes
<1>9. WaitsForDeadline /\ WantsMore
  BY ONLY <1>1, <1>2, <1>4, <1>7 DEF NumberTypes, WaitsForDeadline, WantsMore
<1>. QED BY <1>1, <1>6, <1>8, <1>9 DEF SniffInv

\* The drain thread puts its packet behind all others, or drops it.
LEMMA PutKeeps ==
  ASSUME program = "sniff", SniffInv, Sniffing!DrainPuts
  PROVE  QueueTypes' /\ Accounted'
<1> USE DEF SniffInv, QueueTypes, Accounted, Sniffing!DrainPuts, Sniffing!callVars
<1>1. arrived' = arrived + 1 /\ arrived' \in Nat /\ collected' = collected
  OBVIOUS
<1>2. /\ \A x \in Range(collected) \cup Range(queue) \cup dropped : x \in 1 .. arrived /\ x < arrived'
      /\ 1 .. arrived' = 1 .. arrived \cup {arrived'}
  BY <1>1, SMTT(30)
<1>3. CASE queue' = Append(queue, arrived') /\ UNCHANGED dropped
  <2>1. /\ queue' \in Seq(Nat) /\ Range(queue') = Range(queue) \cup {arrived'}
        /\ Ascending(queue) /\ (\A y \in Range(queue) : y < arrived') => Ascending(queue')
    BY <1>1, <1>3, AppendPacket
  <2>. QED BY <1>1, <1>2, <1>3, <2>1
<1>4. CASE dropped' = dropped \cup {arrived'} /\ UNCHANGED queue
  BY <1>1, <1>2, <1>4
<1>. QED BY <1>3, <1>4

\* sniff() takes the first packet of the queue and appends it.
LEMMA GetKeeps ==
  ASSUME program = "sniff", SniffInv, Sniffing!GetsPacket
  PROVE  QueueTypes' /\ Accounted' /\ Len(collected') = Len(collected) + 1
<1> USE DEF SniffInv, QueueTypes, Accounted, Sniffing!GetsPacket
<1>1. PICK x \in Nat : x = Head(queue)
  BY SplitPacket
<1>2. /\ queue' \in Seq(Nat) /\ Range(queue) = {x} \cup Range(queue')
      /\ Ascending(queue') /\ \A y \in Range(queue') : x < y
  BY <1>1, SplitPacket
<1>3. collected' = Append(collected, x) /\ UNCHANGED <<arrived, dropped>>
  BY <1>1
<1>4. \A y \in Range(collected) : y < x
  BY <1>2
<1>5. /\ collected' \in Seq(Nat) /\ Len(collected') = Len(collected) + 1
      /\ Range(collected') = Range(collected) \cup {x} /\ Ascending(collected')
  BY <1>3, <1>4, AppendPacket
<1>. QED BY <1>2, <1>3, <1>5

LEMMA SniffKept ==
  ASSUME program = "sniff", SniffInv, Sniffing!Next, UNCHANGED program
  PROVE  SniffInv'
<1> USE DEF SniffInv, Sniffing!callVars, Sniffing!drainVars
<1>1. CASE Sniffing!DrainPuts
  <2>1. NumberTypes' /\ WaitsForDeadline' /\ WantsMore'
    BY <1>1 DEF Sniffing!DrainPuts, NumberTypes, WaitsForDeadline, WantsMore, Sniffing!Over
  <2>. QED BY <1>1, <2>1, PutKeeps
<1>2. CASE Sniffing!DrainEnds
  BY <1>2 DEF Sniffing!DrainEnds, NumberTypes, QueueTypes, WaitsForDeadline, WantsMore, Accounted, Sniffing!Over
<1>3. CASE Sniffing!Tick
  <2>1. clock' = clock + 1 /\ UNCHANGED <<pc, Sniffing!callVars, Sniffing!drainVars>>
    BY <1>3 DEF Sniffing!Tick
  <2>2. NumberTypes' /\ QueueTypes' /\ Accounted'
    BY <2>1 DEF NumberTypes, QueueTypes, Accounted
  <2>3. WaitsForDeadline' /\ WantsMore'
    BY <2>1 DEF NumberTypes, WaitsForDeadline, WantsMore, Sniffing!Over
  <2>. QED BY <2>1, <2>2, <2>3
<1>4. CASE Sniffing!Start
  <2>1. deadline' \subseteq Int
    <3>1. \A t \in timeout : clock + Sniffing!Max({t, 0}) \in Int
      BY MaxIsInteger DEF NumberTypes
    <3>2. deadline' = {clock + Sniffing!Max({t, 0}) : t \in timeout}
      BY <1>4 DEF Sniffing!Start
    <3>. QED BY ONLY <3>1, <3>2
  <2>2. NumberTypes' /\ QueueTypes' /\ Accounted'
    BY <1>4, <2>1 DEF Sniffing!Start, NumberTypes, QueueTypes, Accounted
  <2>3. WaitsForDeadline' /\ WantsMore'
    BY <1>4 DEF Sniffing!Start, WaitsForDeadline, WantsMore
  <2>. QED BY <2>2, <2>3
<1>5. CASE Sniffing!Test
  <2>1. NumberTypes' /\ QueueTypes' /\ Accounted'
    BY <1>5 DEF Sniffing!Test, NumberTypes, QueueTypes, Accounted
  <2>2. WaitsForDeadline'
    BY <1>5 DEF Sniffing!Test, NumberTypes, WaitsForDeadline
  <2>3. WantsMore'
    BY <1>5 DEF Sniffing!Test, NumberTypes, QueueTypes, WantsMore, Sniffing!Over
  <2>. QED BY <2>1, <2>2, <2>3
<1>6. CASE Sniffing!Read
  <2>1. NumberTypes' /\ QueueTypes' /\ Accounted' /\ WantsMore'
    BY <1>6 DEF Sniffing!Read, NumberTypes, QueueTypes, Accounted, WantsMore
  <2>2. WaitsForDeadline'
    BY <1>6 DEF Sniffing!Read, NumberTypes, WaitsForDeadline
  <2>. QED BY <2>1, <2>2
<1>7. CASE Sniffing!GetsPacket
  <2>1. QueueTypes' /\ Accounted' /\ Len(collected') = Len(collected) + 1 /\ Len(collected) \in Nat
    BY <1>7, GetKeeps DEF QueueTypes
  <2>2. NumberTypes' /\ WaitsForDeadline' /\ pc = "get" /\ pc' = "test" /\ count' = count
    BY <1>7 DEF Sniffing!GetsPacket, NumberTypes, WaitsForDeadline
  <2>3. WantsMore'
    BY <2>1, <2>2 DEF NumberTypes, WantsMore
  <2>. QED BY <2>1, <2>2, <2>3
<1>8. CASE Sniffing!GetsNothing
  <2>1. NumberTypes' /\ QueueTypes' /\ Accounted' /\ WaitsForDeadline'
    BY <1>8 DEF Sniffing!GetsNothing, NumberTypes, QueueTypes, Accounted, WaitsForDeadline
  <2>2. Sniffing!Over(deadline)
    BY <1>8 DEF Sniffing!GetsNothing, Sniffing!Over, WaitsForDeadline, NumberTypes
  <2>3. WantsMore'
    BY <1>8, <2>2 DEF Sniffing!GetsNothing, Sniffing!Over, WantsMore
  <2>. QED BY <2>1, <2>3
<1>. QED BY <1>1, <1>2, <1>3, <1>4, <1>5, <1>6, <1>7, <1>8 DEF Sniffing!Next, Sniffing!Proceeds

\* A sniff() that returns has its packets, or its time is over: neither a packet
\* that comes in the last moment nor the end of a wait makes it return early; and
\* it returns, in order, all that left the queue.
THEOREM SniffReturnsAsPromised == Spec => []ReturnsAsPromised
<1>1. SniffInv /\ [Next]_vars => SniffInv'
  <2> SUFFICES ASSUME SniffInv, [Next]_vars PROVE SniffInv'
    OBVIOUS
  <2>1. CASE Sniffs(Sniffing!Next)
    BY <2>1, SniffKept DEF Sniffs
  <2>2. CASE program = "command" /\ UNCHANGED program
    BY <2>2 DEF SniffInv
  <2>3. CASE UNCHANGED vars
    BY <2>3 DEF vars, sniffVars, SniffInv, NumberTypes, QueueTypes, WaitsForDeadline, WantsMore, Accounted,
                Sniffing!Over
  <2>. QED BY <2>1, <2>2, <2>3 DEF Next
<1>2. SniffInv => ReturnsAsPromised
  <2> SUFFICES ASSUME SniffInv, program = "sniff"
               PROVE  Sniffing!CountOrDeadline /\ Sniffing!ReturnsWhatItTook
    BY DEF ReturnsAsPromised, Sniffing!ReturnsAsPromised
  <2>1. Sniffing!CountOrDeadline
    BY DEF SniffInv, WantsMore, Sniffing!CountOrDeadline
  <2>2. Sniffing!ReturnsWhatItTook
    BY DEF SniffInv, Accounted, Ascending, Sniffing!ReturnsWhatItTook, Range, Sniffing!Range
  <2>. QED BY <2>1, <2>2
<1>. QED BY <1>1, <1>2, SniffBegins, PTL DEF Spec

-----------------------------------------------------------------------------
(* A command of the CLI *)

\* Where the capture is while close() is called by the with statement, or not
\* at all ...
WithInv ==
  /\ pc \in {"create", "assign", "enter", "probe", "start", "loop", "stop", "destroy", "forget", "exit"}
  /\ handle <=> pc \notin {"create", "assign", "exit"}
  /\ ~misused
  /\ capture = "none" => pc \in {"create", "exit"}
  /\ capture = "capturing" => pc \in {"loop", "stop"}
  /\ capture = "destroyed" => pc \in {"forget", "exit"}
  /\ pc = "create" => capture = "none"
  /\ pc = "forget" => capture = "destroyed"
  /\ pc = "exit" => capture \in {"none", "destroyed"} \/ <<"with", "assign">> \in pressed

\* ... and while it is called by __del__, because Ctrl+C kept the former from
\* its end or its beginning; the capture is destroyed already if that was in its
\* last moment.
DelInv ==
  /\ pc \in {"stop", "destroy", "forget", "exit"}
  /\ capture # "none"
  /\ pc \in {"stop", "destroy"} /\ capture = "destroyed" => <<"with", "forget">> \in pressed
  /\ pc = "destroy" => capture # "capturing"
  /\ pc = "forget" => capture = "destroyed"
  /\ Commanding!ClosedOnce

CommandInv ==
  program = "command" =>
    /\ closer \in {"with", "del"}
    /\ closer = "with" => WithInv
    /\ closer = "del" => DelInv

\* However often Ctrl+C is pressed, a capture that was created is destroyed when
\* the process ends, and none is used after it was destroyed, except for a Ctrl+C
\* in the moments that ClosedOnce names.
THEOREM ClosedInTheEnd == Spec => []ClosedOnce
<1>1. Init => CommandInv
  BY DEF Init, Commanding!Init, CommandInv, WithInv
<1>2. CommandInv /\ [Next]_vars => CommandInv'
  <2> SUFFICES ASSUME CommandInv, [Next]_vars PROVE CommandInv'
    OBVIOUS
  <2> USE DEF CommandInv
  <2>1. CASE program = "command" /\ Commanding!Next /\ UNCHANGED program
    <3> USE <2>1 DEF WithInv, DelInv, Commanding!ClosedOnce, Commanding!DestroyedInTheEnd, Commanding!DestroyedOnce
    <3>1. CASE Commanding!Create
      BY <3>1 DEF Commanding!Create, Commanding!historyVars
    <3>2. CASE Commanding!StartSucceeds \/ Commanding!StartFails \/ Commanding!LoopEnds
      BY <3>2 DEF Commanding!StartSucceeds, Commanding!StartFails, Commanding!LoopEnds, Commanding!historyVars
    <3>3. CASE Commanding!CloseStops
      BY <3>3 DEF Commanding!CloseStops
    <3>4. CASE Commanding!CloseDestroys
      BY <3>4 DEF Commanding!CloseDestroys
    <3>5. CASE Commanding!CloseForgets
      BY <3>5 DEF Commanding!CloseForgets, Commanding!CloseEnds, Commanding!historyVars
    <3>6. CASE Commanding!InterruptCommand
      BY <3>6 DEF Commanding!InterruptCommand, Commanding!Pressed
    <3>7. CASE Commanding!InterruptClose
      BY <3>7 DEF Commanding!InterruptClose, Commanding!CloseEnds, Commanding!Pressed
    <3>8. CASE Commanding!Assign \/ Commanding!Enter \/ Commanding!Probe
      BY <3>8 DEF Commanding!Assign, Commanding!Enter, Commanding!Probe, Commanding!historyVars
    <3>9. CASE Commanding!InterruptCreation
      BY <3>9 DEF Commanding!InterruptCreation, Commanding!Pressed
    <3>. QED BY <3>1, <3>2, <3>3, <3>4, <3>5, <3>6, <3>7, <3>8, <3>9 DEF Commanding!Next
  <2>2. CASE program = "sniff" /\ UNCHANGED program
    BY <2>2
  <2>3. CASE UNCHANGED vars
    BY <2>3 DEF vars, commandVars, WithInv, DelInv, Commanding!ClosedOnce, Commanding!DestroyedInTheEnd,
                Commanding!DestroyedOnce
  <2>. QED BY <2>1, <2>2, <2>3 DEF Next, Sniffs
<1>3. CommandInv => ClosedOnce
  BY DEF CommandInv, WithInv, DelInv, ClosedOnce, Commanding!ClosedOnce, Commanding!DestroyedInTheEnd,
         Commanding!DestroyedOnce
<1>. QED BY <1>1, <1>2, <1>3, PTL DEF Spec
=============================================================================
