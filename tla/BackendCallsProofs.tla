------------------------- MODULE BackendCallsProofs -------------------------
(***************************************************************************)
(* Theorems about the calls that carry something across a library boundary *)
(* (BackendCalls).  Each is proved from an inductive invariant of its own, *)
(* which says nothing while the behaviour is about another call.           *)
(***************************************************************************)
EXTENDS BackendCalls, TextBuffer, FiniteSetTheorems, SequenceTheorems,
        WellFoundedInduction, TLAPS

-----------------------------------------------------------------------------
(* The options of a capture *)

LEMMA GreaterOfTwo ==
  ASSUME NEW a \in Int, NEW b \in Int
  PROVE  /\ Starts!Max({a, b}) = IF a >= b THEN a ELSE b
         /\ Starts!Min({a, b}) = IF a <= b THEN a ELSE b
BY DEF Starts!Max, Starts!Min

\* A number that fits a field stays what it is; of another the low bits are kept.
LEMMA Narrowed ==
  ASSUME NEW n \in Nat, NEW width \in Nat \ {0}
  PROVE  /\ n % width \in 0 .. width - 1
         /\ n < width => n % width = n
OBVIOUS

\* A started capture has the options of the start that succeeded.
OptionInv ==
  call = "options" =>
    /\ layout \in ConfigLayouts
    /\ started =>
         /\ meant \in Starts!Options(Arguments)
         /\ options = Starts!Applied(meant)
         /\ stream = <<options.buffer_size_multiplier, options.truncation_size>>

LEMMA OptionsKept ==
  OptionInv /\ [Next]_vars => OptionInv'
<1> SUFFICES ASSUME OptionInv, [Next]_vars PROVE OptionInv'
  OBVIOUS
<1> USE DEF OptionInv
<1>1. CASE call = "options" /\ Starts!Next /\ call' = call
  <2>1. ASSUME NEW arguments \in Starts!Options(Arguments), Starts!StartSucceeds(arguments) PROVE OptionInv'
    BY <1>1, <2>1 DEF Starts!StartSucceeds, Starts!Applied, Starts!StartDefaults, Starts!ApplyConfig
  <2>2. ASSUME NEW arguments \in Starts!Options(Arguments),
               Starts!StartAgain(arguments) \/ Starts!StartFails(arguments) \/ Starts!Close
        PROVE  OptionInv'
    BY <1>1, <2>2 DEF Starts!StartAgain, Starts!StartFails, Starts!Close, Starts!vars,
                      Starts!Applied, Starts!StartDefaults, Starts!ApplyConfig
  <2>3. CASE Starts!Close
    BY <1>1, <2>3 DEF Starts!Close
  <2>. QED BY <1>1, <2>1, <2>2, <2>3 DEF Starts!Next
<1>2. CASE call # "options" /\ call' = call
  BY <1>2
<1>3. CASE UNCHANGED vars
  BY <1>3 DEF vars, optionVars, Starts!Applied, Starts!StartDefaults, Starts!ApplyConfig
<1>. QED BY <1>1, <1>2, <1>3 DEF Next

\* The two sides have the same config.
LEMMA ConfigsAgree ==
  Starts!SizeOf(Starts!PktmonCaptureConfig) = Starts!SizeOf(Starts!CaptureConfig)
BY CallAssumption DEF Starts!OptionsAssumption, Starts!AbiAgrees

\* What a library with this config makes of the arguments of a sniffer.
LEMMA AppliedOptions ==
  ASSUME NEW arguments \in Starts!Options(Arguments), layout = Starts!PktmonCaptureConfig,
         NEW applied, applied = Starts!Applied(arguments)
  PROVE  /\ applied.include_empty_payloads = arguments.include_empty_payloads
         /\ applied.buffer_size_multiplier
              = Starts!Within(arguments.buffer_size_multiplier, 1, HalfWords - 1)
         /\ applied.truncation_size = Starts!Within(arguments.truncation_size, 1, HalfWords - 1)
         /\ IF arguments.queue_capacity < Words
            THEN applied.queue_capacity = Starts!AtLeastOne(arguments.queue_capacity)
            ELSE applied.queue_capacity \in 1 .. arguments.queue_capacity - 1
<1> DEFINE given  == Starts!SnifferOptions(arguments)
           config == Starts!Config(given)
<1>1. /\ HalfWords \in Nat \ {0, 1} /\ Words \in Nat \ {0} /\ HalfWords <= Words
      /\ Defaults \in Starts!Options(Nat) /\ Defaults.queue_capacity \in 1 .. Words - 1
  BY CallAssumption DEF Starts!OptionsAssumption
<1>2. arguments \in Starts!Options(Int)
  BY CallAssumption DEF Starts!OptionsAssumption, Starts!Options
<1>3. \A n \in Int : /\ Starts!AtLeastOne(n) = IF n >= 1 THEN n ELSE 1
                     /\ Starts!AtLeastOne(n) \in Nat \ {0}
                     /\ Starts!AtLeastOne(Starts!AtLeastOne(n)) = Starts!AtLeastOne(n)
  BY GreaterOfTwo DEF Starts!AtLeastOne
<1>4. /\ given.queue_capacity = Starts!AtLeastOne(arguments.queue_capacity)
      /\ given.buffer_size_multiplier = Starts!AtLeastOne(arguments.buffer_size_multiplier)
      /\ given.truncation_size = Starts!AtLeastOne(arguments.truncation_size)
      /\ given.include_empty_payloads = arguments.include_empty_payloads
      /\ given \in Starts!Options(Int)
  <2>1. /\ given.queue_capacity = Starts!AtLeastOne(arguments.queue_capacity)
        /\ given.buffer_size_multiplier = Starts!AtLeastOne(arguments.buffer_size_multiplier)
        /\ given.truncation_size = Starts!AtLeastOne(arguments.truncation_size)
        /\ given.include_empty_payloads = arguments.include_empty_payloads
    BY <1>2 DEF Starts!SnifferOptions, Starts!Options
  <2>2. /\ Starts!AtLeastOne(arguments.queue_capacity) \in Int
        /\ Starts!AtLeastOne(arguments.buffer_size_multiplier) \in Int
        /\ Starts!AtLeastOne(arguments.truncation_size) \in Int
    BY <1>2, <1>3 DEF Starts!Options
  <2>3. given \in Starts!Options(Int)
    BY <1>2, <2>2 DEF Starts!SnifferOptions, Starts!Options
  <2>. QED BY <2>1, <2>3
<1> HIDE DEF given
<1> DEFINE Narrow(n) == Starts!Min({Starts!AtLeastOne(n), HalfWords - 1}) % HalfWords
<1>5. /\ config.queue_capacity = Starts!AtLeastOne(given.queue_capacity) % Words
      /\ config.buffer_size_multiplier = Narrow(given.buffer_size_multiplier)
      /\ config.truncation_size = Narrow(given.truncation_size)
      /\ config.include_empty_payloads = given.include_empty_payloads
  BY <1>4 DEF Starts!Config, Starts!Options
<1>6. ASSUME NEW n \in Int
      PROVE  /\ Narrow(Starts!AtLeastOne(n)) = Starts!Within(n, 1, HalfWords - 1)
             /\ Narrow(Starts!AtLeastOne(n)) > 0
  <2>1. PICK m \in Nat \ {0} : m = Starts!AtLeastOne(n) /\ m = (IF n >= 1 THEN n ELSE 1)
    BY <1>3
  <2>2. PICK k \in Nat \ {0} : k = Starts!Min({m, HalfWords - 1}) /\ k = (IF m <= HalfWords - 1 THEN m ELSE HalfWords - 1)
    <3>1. PICK h \in Nat \ {0} : h = HalfWords - 1
      BY <1>1
    <3>2. Starts!Min({m, h}) = IF m <= h THEN m ELSE h
      BY GreaterOfTwo
    <3>. QED BY ONLY <3>1, <3>2, m \in Nat \ {0}
  <2>0. /\ HalfWords \in Nat /\ HalfWords > 1 /\ m \in Nat /\ m > 0
        /\ m = (IF n >= 1 THEN n ELSE 1)
        /\ k = (IF m <= HalfWords - 1 THEN m ELSE HalfWords - 1)
    BY <1>1, <2>1, <2>2
  <2>3. Narrow(Starts!AtLeastOne(n)) = k
    <3>1. k < HalfWords
      BY ONLY <2>0
    <3>2. k % HalfWords = k
      BY ONLY <1>1, <2>2, <3>1, Narrowed
    <3>. QED BY <1>3, <2>1, <2>2, <3>2
  <2>4. Starts!Within(n, 1, HalfWords - 1) = k
    <3>1. PICK l \in Int : l = Starts!Min({n, HalfWords - 1}) /\ l = (IF n <= HalfWords - 1 THEN n ELSE HalfWords - 1)
      <4>1. PICK h \in Nat \ {0} : h = HalfWords - 1
        BY <1>1
      <4>2. Starts!Min({n, h}) = IF n <= h THEN n ELSE h
        BY GreaterOfTwo
      <4>. QED BY ONLY <4>1, <4>2, n \in Int
    <3>2. Starts!Max({1, l}) = IF 1 >= l THEN 1 ELSE l
      BY GreaterOfTwo
    <3>3. Starts!Within(n, 1, HalfWords - 1) = Starts!Max({1, l})
      BY ONLY <3>1 DEF Starts!Within
    <3>4. l = (IF n <= HalfWords - 1 THEN n ELSE HalfWords - 1) /\ l \in Int
      BY <3>1
    <3>5. k = IF 1 >= l THEN 1 ELSE l
      BY ONLY <2>0, <3>4, n \in Int
    <3>. QED BY ONLY <3>2, <3>3, <3>5
  <2>. QED BY <2>2, <2>3, <2>4
<1> HIDE DEF config, Narrow
<1>7. applied = [config EXCEPT
                   !.queue_capacity = IF config.queue_capacity > 0 THEN config.queue_capacity
                                      ELSE Defaults.queue_capacity,
                   !.buffer_size_multiplier = IF config.buffer_size_multiplier > 0
                                              THEN config.buffer_size_multiplier
                                              ELSE Defaults.buffer_size_multiplier,
                   !.truncation_size = IF config.truncation_size > 0 THEN config.truncation_size
                                       ELSE Defaults.truncation_size]
  BY ConfigsAgree DEF Starts!Applied, Starts!ApplyConfig, config, given, Starts!PktmonCaptureConfig
<1>8. /\ DOMAIN config = {"queue_capacity", "buffer_size_multiplier", "truncation_size", "include_empty_payloads"}
      /\ applied.include_empty_payloads = config.include_empty_payloads
      /\ applied.buffer_size_multiplier = IF config.buffer_size_multiplier > 0
                                          THEN config.buffer_size_multiplier
                                          ELSE Defaults.buffer_size_multiplier
      /\ applied.truncation_size = IF config.truncation_size > 0 THEN config.truncation_size
                                   ELSE Defaults.truncation_size
      /\ applied.queue_capacity = IF config.queue_capacity > 0 THEN config.queue_capacity
                                  ELSE Defaults.queue_capacity
  <2>1. DOMAIN config = {"queue_capacity", "buffer_size_multiplier", "truncation_size", "include_empty_payloads"}
    BY <1>4 DEF config, Starts!Config, Starts!Options
  <2>. QED BY ONLY <1>7, <2>1
<1>9. \A n : n = arguments.buffer_size_multiplier \/ n = arguments.truncation_size
               \/ n = arguments.queue_capacity => n \in Int
  BY <1>2 DEF Starts!Options
<1>10. /\ applied.include_empty_payloads = arguments.include_empty_payloads
       /\ applied.buffer_size_multiplier
            = Starts!Within(arguments.buffer_size_multiplier, 1, HalfWords - 1)
       /\ applied.truncation_size = Starts!Within(arguments.truncation_size, 1, HalfWords - 1)
  BY <1>4, <1>5, <1>6, <1>8, <1>9
<1>11. IF arguments.queue_capacity < Words
       THEN applied.queue_capacity = Starts!AtLeastOne(arguments.queue_capacity)
       ELSE applied.queue_capacity \in 1 .. arguments.queue_capacity - 1
  <2>1. PICK n \in Int, m \in Nat \ {0} :
          /\ n = arguments.queue_capacity /\ m = Starts!AtLeastOne(n) /\ m = (IF n >= 1 THEN n ELSE 1)
    BY <1>3, <1>9
  <2>2. config.queue_capacity = m % Words
    BY <1>3, <1>4, <1>5, <2>1
  <2>3. m % Words \in 0 .. Words - 1 /\ (m < Words => m % Words = m)
    BY ONLY <1>1, <2>1, Narrowed
  <2>4. CASE n < Words
    <3>1. m < Words
      BY ONLY <1>1, <2>1, <2>4
    <3>. QED BY ONLY <1>8, <2>1, <2>2, <2>3, <2>4, <3>1
  <2>5. CASE ~(n < Words)
    BY ONLY <1>1, <1>8, <2>1, <2>2, <2>3, <2>5
  <2>. QED BY <2>4, <2>5
<1>. QED BY <1>10, <1>11

\* A capture works with what its sniffer was given: the start that made it run
\* clamped and narrowed each option to one its field can hold, and none that
\* came after it, with other options, has changed them.
THEOREM CapturesWorkAsMeant == Spec => []WorksAsMeant
<1>1. Init => OptionInv
  BY DEF Init, Starts!Init, OptionInv
<1>2. OptionInv => WorksAsMeant
  <2> SUFFICES ASSUME OptionInv, call = "options", started PROVE Starts!WorksAsMeant
    BY DEF WorksAsMeant, Starts!WorksAsMeant
  <2>1. /\ layout \in ConfigLayouts /\ meant \in Starts!Options(Arguments)
        /\ options = Starts!Applied(meant)
        /\ stream = <<options.buffer_size_multiplier, options.truncation_size>>
    BY DEF OptionInv
  <2>2. CASE layout = Starts!PktmonCaptureConfig
    BY <2>1, <2>2, AppliedOptions DEF Starts!WorksAsMeant
  <2>3. CASE layout # Starts!PktmonCaptureConfig
    <3>1. options = Defaults
      BY <2>1, <2>3, CallAssumption
         DEF Starts!OptionsAssumption, Starts!Applied, Starts!StartDefaults, Starts!ApplyConfig
    <3>. QED BY <2>1, <2>3, <3>1 DEF Starts!WorksAsMeant
  <2>. QED BY <2>2, <2>3
<1>. QED BY <1>1, <1>2, OptionsKept, PTL DEF Spec

-----------------------------------------------------------------------------
(* The time of a packet *)

\* What stream_descriptor_timestamp has found is the time the packet was seen at,
\* or one between then and now.
TimeInv ==
  call = "time" =>
    /\ descriptor \in [DataSize : Sizes, MetadataOffset : Places]
    /\ sent \in 1 .. MaxTime /\ clock \in sent .. MaxTime
    /\ written \in {sent, Times!NotSet}
    /\ pc \in {"deliver", "parse", "done"} /\ lastRead \in Int
    /\ pc = "deliver" => lastRead = -1
    /\ lastRead < descriptor.DataSize
    /\ pc # "deliver" =>
         /\ timestamp \in sent .. clock
         /\ lastRead >= 0 /\ written # Times!NotSet => timestamp = sent
    /\ pc = "done" => packet = timestamp

\* A packet's time is when it was seen, if the driver said so, and otherwise
\* between then and the end of its delivery; it comes neither from bytes that are
\* no time nor from behind the buffer.
THEOREM TimesAreOfThePacket == Spec => []TimeIsOfThePacket
<1>1. /\ Sizes \subseteq Nat \ {0} /\ Places \subseteq Nat /\ MaxTime \in Nat \ {0}
      /\ Times!METADATA_SIZE \in Nat \ {0}
  BY CallAssumption DEF Times!TimeAssumption, Times!METADATA_SIZE
<1>2. Init => TimeInv
  <2> SUFFICES ASSUME Times!Init PROVE TimeInv
    BY DEF Init, TimeInv
  <2>1. descriptor.DataSize \in Nat
    BY <1>1 DEF Times!Init
  <2>. QED BY <1>1, <2>1 DEF Times!Init, TimeInv
<1>3. TimeInv /\ [Next]_vars => TimeInv'
  <2> SUFFICES ASSUME TimeInv, [Next]_vars PROVE TimeInv'
    OBVIOUS
  <2> USE <1>1 DEF TimeInv
  <2>1. CASE call = "time" /\ Times!Next /\ call' = call
    <3> USE <2>1
    <3>1. CASE Times!Tick
      BY <3>1 DEF Times!Tick, Times!NotSet
    <3>2. CASE Times!ReadMetadata
      <4>1. /\ descriptor.MetadataOffset \in Nat \ {0} /\ descriptor.DataSize \in Nat
            /\ descriptor.MetadataOffset + Times!METADATA_SIZE <= descriptor.DataSize
            /\ pc' = "parse" /\ UNCHANGED <<descriptor, written, sent, clock, packet>>
            /\ lastRead' = descriptor.MetadataOffset + Times!METADATA_SIZE - 1
        BY <3>2 DEF Times!ReadMetadata, Times!HasMetadata
      <4>2. timestamp' = IF written <= 0 THEN clock ELSE written
        BY <3>2, <4>1 DEF Times!ReadMetadata, Times!TimeStampAt, Times!unix_time_from_system_time
      <4>. QED BY <4>1, <4>2 DEF Times!NotSet
    <3>3. CASE Times!TimeOfDay
      BY <3>3 DEF Times!TimeOfDay
    <3>4. CASE Times!ParsePacketBytes
      BY <3>4 DEF Times!ParsePacketBytes
    <3>. QED BY <3>1, <3>2, <3>3, <3>4 DEF Times!Next
  <2>2. CASE call # "time" /\ call' = call
    BY <2>2
  <2>3. CASE UNCHANGED vars
    BY <2>3 DEF vars, timeVars
  <2>. QED BY <2>1, <2>2, <2>3 DEF Next
<1>4. TimeInv => TimeIsOfThePacket
  BY DEF TimeInv, TimeIsOfThePacket, Times!TimeIsOfThePacket
<1>. QED BY <1>2, <1>3, <1>4, PTL DEF Spec

-----------------------------------------------------------------------------
(* A text on its way to Python *)

LEMMA LesserOfTwo ==
  ASSUME NEW a \in Int, NEW b \in Int
  PROVE  Min({a, b}) = IF a <= b THEN a ELSE b
BY DEF Min

\* What is in a buffer up to its first NUL.
LEMMA ValueEnds ==
  ASSUME NEW Chars, NEW buffer0 \in Seq(Chars), NEW end \in 1 .. Len(buffer0), buffer0[end] = NUL,
         \A i \in 1 .. end - 1 : buffer0[i] # NUL
  PROVE  Value(buffer0) = SubSeq(buffer0, 1, end - 1)
<1> DEFINE ends == {i - 1 : i \in {j \in 1 .. Len(buffer0) : buffer0[j] = NUL}} \cup {Len(buffer0)}
<1>1. end - 1 \in ends /\ Len(buffer0) \in Nat
  OBVIOUS
<1>2. \A e \in ends : e \in Int /\ end - 1 <= e
  OBVIOUS
<1>3. Value(buffer0) = SubSeq(buffer0, 1, Min(ends))
  BY DEF Value
<1> HIDE DEF ends
<1>4. Min(ends) = end - 1
  BY ONLY <1>1, <1>2 DEF Min
<1>. QED BY ONLY <1>3, <1>4

\* Copied into a cleared buffer and read from it a text is what it was, or as much
\* of it as the buffer holds beside its NUL; and the buffer keeps its size.
LEMMA CopiedText ==
  ASSUME NEW Chars, NUL \in Chars, NEW text \in Seq(Chars), \A i \in 1 .. Len(text) : text[i] # NUL,
         NEW room \in Nat \ {0},
         NEW copy, copy = CopyText(text, Cleared(room))
  PROVE  /\ Len(copy) = room /\ copy[room] = NUL
         /\ Value(copy) = SubSeq(text, 1, IF Len(text) <= room - 1 THEN Len(text) ELSE room - 1)
<1> DEFINE clear == Cleared(room)
           count == IF Len(text) + 1 <= room THEN Len(text) + 1 ELSE room
           start0 == SubSeq(text, 1, count - 1)
           rest  == SubSeq(clear, count + 1, room)
<1>1. text \in Seq(Chars) /\ Len(text) \in Nat /\ \A i \in 1 .. Len(text) : text[i] \in Chars /\ text[i] # NUL
  OBVIOUS
<1>2. clear \in Seq(Chars) /\ Len(clear) = room /\ \A i \in 1 .. room : clear[i] = NUL
  <2>1. NUL \in Chars /\ clear = [i \in 1 .. room |-> NUL]
    BY DEF Cleared
  <2> HIDE DEF clear
  <2>2. clear \in Seq(Chars)
    BY ONLY <2>1, room \in Nat \ {0}
  <2>. QED BY ONLY <2>1, <2>2, room \in Nat \ {0}
<1>3. copy = start0 \o <<NUL>> \o rest
  <2>1. Min({Len(text) + 1, Len(clear)}) = count
    BY <1>1, <1>2, LesserOfTwo
  <2>. QED BY <1>2, <2>1 DEF CopyText
<1>4. count \in 1 .. room /\ count - 1 <= Len(text) /\ count \in Nat
  BY ONLY <1>1, room \in Nat \ {0}
<1> HIDE DEF clear, count
<1>5. start0 \in Seq(Chars) /\ Len(start0) = count - 1 /\ \A i \in 1 .. count - 1 : start0[i] = text[i]
  <2>1. \A i \in 1 .. count - 1 : text[i] \in Chars
    BY <1>1, <1>4
  <2>. QED BY ONLY <1>1, <1>4, <2>1, SubSeqProperties
<1>6. rest \in Seq(Chars) /\ Len(rest) = room - count /\ \A i \in 1 .. room - count : rest[i] = NUL
  <2>1. \A i \in count + 1 .. room : clear[i] \in Chars /\ clear[i] = NUL
    BY <1>2, <1>4
  <2>. QED BY ONLY <1>2, <1>4, <2>1, room \in Nat \ {0}, SubSeqProperties
<1> HIDE DEF start0, rest
<1>7. /\ copy \in Seq(Chars) /\ Len(copy) = room
      /\ \A i \in 1 .. count - 1 : copy[i] = text[i]
      /\ \A i \in count .. room : copy[i] = NUL
  <2> DEFINE front == start0 \o <<NUL>>
  <2>1. /\ front \in Seq(Chars) /\ Len(front) = count
        /\ \A i \in 1 .. count - 1 : front[i] = text[i]
        /\ front[count] = NUL
    <3>1. NUL \in Chars /\ <<NUL>> \in Seq(Chars) /\ Len(<<NUL>>) = 1 /\ <<NUL>>[1] = NUL
      OBVIOUS
    <3>2. /\ front \in Seq(Chars) /\ Len(front) = count
          /\ \A i \in 1 .. count : front[i] = IF i <= count - 1 THEN start0[i] ELSE <<NUL>>[i - (count - 1)]
      BY ONLY <1>4, <1>5, <3>1, ConcatProperties DEF front
    <3>. QED BY ONLY <1>4, <1>5, <3>1, <3>2
  <2> HIDE DEF front
  <2>2. /\ copy \in Seq(Chars) /\ Len(copy) = room
        /\ \A i \in 1 .. room : copy[i] = IF i <= count THEN front[i] ELSE rest[i - count]
    <3>1. copy = front \o rest
      BY <1>3 DEF front
    <3>2. count + (room - count) = room
      BY <1>4
    <3>3. /\ front \o rest \in Seq(Chars) /\ Len(front \o rest) = Len(front) + Len(rest)
          /\ \A i \in 1 .. Len(front) + Len(rest) :
               (front \o rest)[i] = IF i <= Len(front) THEN front[i] ELSE rest[i - Len(front)]
      BY ONLY <1>6, <2>1, ConcatProperties
    <3>. QED BY ONLY <1>6, <2>1, <3>1, <3>2, <3>3
  <2>3. \A i \in 1 .. count - 1 : copy[i] = text[i]
    BY ONLY <1>4, <2>1, <2>2, room \in Nat \ {0}
  <2>4. ASSUME NEW i \in count .. room PROVE copy[i] = NUL
    <3>1. CASE i = count
      BY ONLY <1>4, <2>1, <2>2, <3>1, room \in Nat \ {0}
    <3>2. CASE i > count
      <4>1. i - count \in 1 .. room - count /\ i \in 1 .. room /\ ~(i <= count)
        BY ONLY <1>4, <2>4, <3>2, room \in Nat \ {0}
      <4>. QED BY ONLY <1>6, <2>2, <4>1
    <3>. QED BY <1>4, <3>1, <3>2
  <2>. QED BY ONLY <2>2, <2>3, <2>4
<1>8. Value(copy) = SubSeq(copy, 1, count - 1)
  <2>1. count \in 1 .. Len(copy) /\ copy[count] = NUL /\ \A i \in 1 .. count - 1 : copy[i] # NUL
    BY ONLY <1>1, <1>4, <1>7, room \in Nat \ {0}
  <2>. QED BY ONLY <1>7, <2>1, ValueEnds
<1>9. SubSeq(copy, 1, count - 1) = start0
  <2>1. SubSeq(copy, 1, count - 1) = [i \in 1 .. count - 1 |-> copy[i]]
    BY <1>4
  <2>2. start0 = [i \in 1 .. count - 1 |-> text[i]]
    BY <1>4 DEF start0
  <2>. QED BY ONLY <1>7, <2>1, <2>2
<1>. QED BY <1>1, <1>4, <1>7, <1>8, <1>9 DEF start0, count

LEMMA WholeText ==
  ASSUME NEW Chars, NEW text \in Seq(Chars)
  PROVE  SubSeq(text, 1, Len(text)) = text
BY SubSeqFull

-----------------------------------------------------------------------------
(* The text of a failed start *)

\* What is said of a capture, now or when a starter copied it, is a text, and a
\* starter's own text is there as long as nobody has changed it.
ErrorInv ==
  call = "error" =>
    /\ last_error \in Messages \cup {<<>>} /\ handle \in {"open", "none"}
    /\ DOMAIN pc = Starters /\ DOMAIN size = Starters /\ DOMAIN buffer = Starters
    /\ DOMAIN mine = Starters /\ DOMAIN shown = Starters /\ DOMAIN intact = Starters
    /\ \A s \in Starters :
         /\ pc[s] \in {"sized", "told"} => size[s] \in Nat \ {0}
         /\ pc[s] \in {"failed", "sized"} /\ intact[s] => Errors!Text = mine[s]
         /\ pc[s] \in {"sized", "told"} /\ intact[s] => size[s] = Len(mine[s]) + 1
         /\ pc[s] = "told" =>
              /\ shown[s] \in Messages \cup {<<>>, InvalidHandle}
              /\ buffer[s] = Errors!CopyText(shown[s], Errors!Cleared(size[s]))
              /\ intact[s] => shown[s] = mine[s]

LEMMA TextsAreTexts ==
  ASSUME NEW text \in Messages \cup {<<>>, InvalidHandle}
  PROVE  /\ text \in Seq(STRING \cup {NUL}) /\ Len(text) \in Nat
         /\ \A i \in 1 .. Len(text) : text[i] # NUL
<1>1. CASE text = <<>>
  BY <1>1, EmptySeq
<1>2. CASE text \in Messages \cup {InvalidHandle}
  <2>1. text \in Seq(STRING) /\ \A i \in 1 .. Len(text) : text[i] # NUL
    BY <1>2, CallAssumption DEF Errors!LastErrorAssumption, NUL, Errors!NUL
  <2>. QED BY <2>1
<1>. QED BY <1>1, <1>2

LEMMA ErrorsKept ==
  ErrorInv /\ [Next]_vars => ErrorInv'
<1> SUFFICES ASSUME ErrorInv, [Next]_vars PROVE ErrorInv'
  OBVIOUS
<1> USE DEF ErrorInv, Errors!Text
<1>1. CASE call = "error" /\ Errors!Next /\ call' = call
  <2> USE <1>1
  <2>1. CASE Errors!Close
    BY <2>1 DEF Errors!Close
  <2>2. ASSUME NEW s \in Starters, Errors!StartFails(s) PROVE ErrorInv'
    BY <2>2 DEF Errors!StartFails
  <2>3. ASSUME NEW s \in Starters, Errors!StartSucceeds(s) PROVE ErrorInv'
    BY <2>3 DEF Errors!StartSucceeds
  <2>4. ASSUME NEW s \in Starters, Errors!AskSize(s) PROVE ErrorInv'
    <3>1. Errors!Text \in Messages \cup {<<>>, InvalidHandle}
      OBVIOUS
    <3>2. Errors!Needed(Errors!Text) = Len(Errors!Text) + 1 /\ Len(Errors!Text) \in Nat
      BY <3>1, TextsAreTexts DEF Errors!Needed
    <3>3. intact[s] => Errors!Text = mine[s]
      BY <2>4 DEF Errors!AskSize
    <3>. QED BY <2>4, <3>2, <3>3 DEF Errors!AskSize
  <2>5. ASSUME NEW s \in Starters, Errors!AskText(s) PROVE ErrorInv'
    <3>1. Errors!Text \in Messages \cup {<<>>, InvalidHandle} /\ (intact[s] => Errors!Text = mine[s])
      BY <2>5 DEF Errors!AskText
    <3>2. Errors!Max({size[s], 1}) = size[s]
      BY <2>5 DEF Errors!AskText, Errors!Max
    <3>. QED BY <2>5, <3>1, <3>2 DEF Errors!AskText
  <2>6. ASSUME NEW s \in Starters, Errors!Raise(s) PROVE ErrorInv'
    BY <2>6 DEF Errors!Raise
  <2>7. ASSUME NEW s \in Starters, Errors!StartRefused(s) PROVE ErrorInv'
    BY <2>7 DEF Errors!StartRefused
  <2>. QED BY <2>1, <2>2, <2>3, <2>4, <2>5, <2>6, <2>7 DEF Errors!Next
<1>2. CASE call # "error" /\ call' = call
  BY <1>2
<1>3. CASE UNCHANGED vars
  BY <1>3 DEF vars, errorVars
<1>. QED BY <1>1, <1>2, <1>3 DEF Next

\* A failed start tells its own failure, unless another call has changed the text
\* between its calls; and however the text has changed, what it gets is the text
\* of its last call, cut to the room it made.
THEOREM FailuresAreTold == Spec => []TellsItsFailure
<1>1. Init => ErrorInv
  BY DEF Init, Errors!Init, ErrorInv
<1>2. ErrorInv => TellsItsFailure
  <2> SUFFICES ASSUME ErrorInv, call = "error", NEW s \in Starters, pc[s] = "told"
               PROVE  /\ intact[s] => Errors!Value(buffer[s]) = mine[s]
                      /\ Len(buffer[s]) = size[s] /\ buffer[s][size[s]] = Errors!NUL
                      /\ Errors!Value(buffer[s])
                           = SubSeq(shown[s], 1, Errors!Min({Len(shown[s]), size[s] - 1}))
    BY DEF TellsItsFailure, Errors!TellsItsFailure
  <2> DEFINE text == shown[s]
             room == size[s]
             copy == buffer[s]
  <2>1. room \in Nat \ {0}
    BY DEF ErrorInv
  <2>2. /\ text \in Messages \cup {<<>>, InvalidHandle}
        /\ copy = CopyText(text, Cleared(room))
        /\ intact[s] => text = mine[s] /\ room = Len(mine[s]) + 1
    BY <2>1 DEF ErrorInv, CopyText, Errors!CopyText, Cleared, Errors!Cleared, Min, Errors!Min, NUL, Errors!NUL
  <2> HIDE DEF text, room, copy
  <2>3. /\ text \in Seq(STRING \cup {NUL}) /\ Len(text) \in Nat
        /\ \A i \in 1 .. Len(text) : text[i] # NUL
    BY <2>2, TextsAreTexts
  <2>4. /\ Len(copy) = room /\ copy[room] = NUL
        /\ Value(copy) = SubSeq(text, 1, IF Len(text) <= room - 1 THEN Len(text) ELSE room - 1)
    BY ONLY <2>1, <2>2, <2>3, CopiedText
  <2>5. Errors!Min({Len(text), room - 1}) = IF Len(text) <= room - 1 THEN Len(text) ELSE room - 1
    BY <2>1, <2>3 DEF Errors!Min
  <2>6. Errors!Value(copy) = Value(copy) /\ Errors!NUL = NUL
    BY DEF Value, Errors!Value, Min, Errors!Min, NUL, Errors!NUL
  <2>7. ASSUME intact[s] PROVE Value(copy) = mine[s]
    <3>1. Len(text) <= room - 1
      BY <2>1, <2>2, <2>3, <2>7
    <3>. QED BY <2>2, <2>3, <2>4, <2>7, <3>1, WholeText
  <2>. QED BY ONLY <2>4, <2>5, <2>6, <2>7 DEF text, room, copy
<1>. QED BY <1>1, <1>2, ErrorsKept, PTL DEF Spec

-----------------------------------------------------------------------------
(* The exports of the library *)

\* Who has the library loaded for a call.
Users == {p \in Probers : module[p] # Exports!None /\ Exports!Loaded(module[p])}

Holds(img) == IF img # Exports!None /\ Exports!Loaded(img) THEN 1 ELSE 0

ExportTypes ==
  /\ image \in Images /\ references \in Int
  /\ capture \in {"stopped", "resolving", "running"}
  /\ pc \in [Probers -> Exports!Calls \cup {"done", "raised"}]
  /\ module \in [Probers -> Images \cup {Exports!None}]
  /\ DOMAIN info = Probers /\ DOMAIN size = Probers /\ DOMAIN report = Probers
  /\ DOMAIN seen = Probers /\ \A p \in Probers : DOMAIN seen[p] = Exports!Calls

\* What is loaded is in use, so that no other library takes its place.
HeldInv ==
  /\ references = (IF capture = "stopped" THEN 0 ELSE 1) + Cardinality(Users)
  /\ capture # "stopped" => Exports!Loaded(image)

\* What a prober was told is about the library that its call has looked at.
ToldInv ==
  \A p \in Probers :
    /\ module[p] # Exports!None => pc[p] \in Exports!Calls /\ seen[p][pc[p]] = module[p]
    /\ pc[p] = "probe" => info[p] = Exports!NotYet
    /\ info[p] # Exports!NotYet => info[p] = Exports!Info(seen[p]["probe"])
    /\ pc[p] \in {"text", "done", "raised"} => size[p] = Exports!Needed(Exports!Report(seen[p]["size"]))
    /\ pc[p] \in {"done", "raised"} =>
         /\ report[p] = Exports!Value(Exports!CopyText(Exports!Report(seen[p]["text"]), Exports!Cleared(size[p])))
         /\ pc[p] = "done" <=> Exports!Decodes(report[p])

\* A start has found what the library has.
StartInv ==
  start # Exports!NotYet =>
    /\ start.status = Exports!Status(start.image)
    /\ start.status = "missing_export" =>
         \E i \in Exports!Missing(start.image) : Exports!kPktmonExports[i] = start.name

ExportInv == call = "exports" => ExportTypes /\ HeldInv /\ ToldInv /\ StartInv

\* resolve_direct_api asks for the exports that probe_exports looks for.
LEMMA SameExports ==
  /\ Len(Exports!DirectApi) = 9 /\ Len(Exports!kPktmonExports) = 9
  /\ \A i \in 1 .. 9 : \E j \in 1 .. 9 : Exports!kPktmonExports[j] = Exports!DirectApi[i]
  /\ \A j \in 1 .. 9 : \E i \in 1 .. 9 : Exports!kPktmonExports[j] = Exports!DirectApi[i]
<1> USE DEF Exports!DirectApi, Exports!kPktmonExports
<1>1. Len(Exports!DirectApi) = 9 /\ Len(Exports!kPktmonExports) = 9
  OBVIOUS
<1>2. /\ Exports!DirectApi[1] = Exports!kPktmonExports[7] /\ Exports!DirectApi[2] = Exports!kPktmonExports[9]
      /\ Exports!DirectApi[3] = Exports!kPktmonExports[5] /\ Exports!DirectApi[4] = Exports!kPktmonExports[4]
      /\ Exports!DirectApi[5] = Exports!kPktmonExports[6] /\ Exports!DirectApi[6] = Exports!kPktmonExports[3]
      /\ Exports!DirectApi[7] = Exports!kPktmonExports[2] /\ Exports!DirectApi[8] = Exports!kPktmonExports[8]
      /\ Exports!DirectApi[9] = Exports!kPktmonExports[1]
  OBVIOUS
<1> HIDE DEF Exports!DirectApi, Exports!kPktmonExports
<1>3. \A i \in 1 .. 9 : \E j \in 1 .. 9 : Exports!kPktmonExports[j] = Exports!DirectApi[i]
  BY ONLY <1>2
<1>4. \A j \in 1 .. 9 : \E i \in 1 .. 9 : Exports!kPktmonExports[j] = Exports!DirectApi[i]
  BY ONLY <1>2
<1>. QED BY <1>1, <1>3, <1>4

\* A set of positions has a first one.
LEMMA FirstOf ==
  ASSUME NEW S \in SUBSET (1 .. 9), S # {}
  PROVE  Exports!Min(S) \in S
<1>1. \E x \in S : \A y \in S : x <= y
  <2>1. CASE 1 \in S \/ 2 \in S \/ 3 \in S
    BY <2>1
  <2>2. CASE 4 \in S \/ 5 \in S \/ 6 \in S
    BY <2>2
  <2>3. CASE 7 \in S \/ 8 \in S \/ 9 \in S
    BY <2>1, <2>2, <2>3
  <2>4. PICK k \in 1 .. 9 : k \in S
    OBVIOUS
  <2>. QED BY <2>1, <2>2, <2>3, <2>4
<1>. QED BY <1>1 DEF Exports!Min

\* One user more, and one less.
LEMMA UsersCounted ==
  ASSUME ExportTypes, NEW p \in Probers, NEW img \in Images \cup {Exports!None},
         module' = [module EXCEPT ![p] = img]
  PROVE  Cardinality(Users') = Cardinality(Users) - Holds(module[p]) + Holds(img)
<1> DEFINE Rest == Users \ {p}
<1>1. IsFiniteSet(Users) /\ IsFiniteSet(Rest)
  <2>1. IsFiniteSet(Probers) /\ Users \subseteq Probers /\ Rest \subseteq Probers
    BY CallAssumption DEF Exports!ExportAssumption, Users, IsFiniteSet, Exports!IsFiniteSet
  <2>. QED BY <2>1, FS_Subset
<1>2. p \notin Rest /\ IsFiniteSet(Rest) /\ Cardinality(Rest) \in Nat
  BY <1>1, FS_CardinalityType
<1>3. /\ Users = IF Holds(module[p]) = 1 THEN Rest \cup {p} ELSE Rest
      /\ Users' = IF Holds(img) = 1 THEN Rest \cup {p} ELSE Rest
      /\ Holds(module[p]) \in {0, 1} /\ Holds(img) \in {0, 1}
  BY DEF ExportTypes, Users, Holds
<1>4. Cardinality(Rest \cup {p}) = Cardinality(Rest) + 1
  BY <1>2, FS_AddElement
<1> HIDE DEF Rest
<1>. QED BY <1>2, <1>3, <1>4

\* The status of a library, and which exports the start of a capture lacks.
LEMMA StartResolvesWhatIsThere ==
  ASSUME NEW img, Exports!Loaded(img),
         NEW lacking, lacking = {i \in 1 .. Len(Exports!DirectApi) : ~Exports!Exported(img, Exports!DirectApi[i])}
  PROVE  /\ lacking = {} => Exports!Status(img) = "ok"
         /\ lacking # {} =>
              /\ Exports!Status(img) = "missing_export"
              /\ \E i \in Exports!Missing(img) :
                   Exports!kPktmonExports[i] = Exports!DirectApi[Exports!Min(lacking)]
<1>1. /\ lacking \in SUBSET (1 .. 9)
      /\ \A i \in 1 .. 9 : i \in lacking <=> ~Exports!Exported(img, Exports!DirectApi[i])
  BY SameExports
<1>2. \A j : j \in Exports!Missing(img) <=>
               j \in 1 .. 9 /\ ~Exports!Exported(img, Exports!kPktmonExports[j])
  BY SameExports DEF Exports!Missing
<1>3. \A i \in lacking : \E j \in Exports!Missing(img) : Exports!kPktmonExports[j] = Exports!DirectApi[i]
  BY ONLY <1>1, <1>2, SameExports
<1>4. \A j \in Exports!Missing(img) : \E i \in lacking : Exports!kPktmonExports[j] = Exports!DirectApi[i]
  BY ONLY <1>1, <1>2, SameExports
<1>5. CASE lacking = {}
  <2>1. Exports!Missing(img) = {}
    BY <1>4, <1>5
  <2>. QED BY <1>5, <2>1 DEF Exports!Status
<1>6. CASE lacking # {}
  <2>1. Exports!Min(lacking) \in lacking
    BY ONLY <1>1, <1>6, FirstOf
  <2>2. \E j \in Exports!Missing(img) : Exports!kPktmonExports[j] = Exports!DirectApi[Exports!Min(lacking)]
    BY ONLY <1>3, <2>1
  <2>3. Exports!Missing(img) # {}
    BY <2>2
  <2>. QED BY <1>6, <2>2, <2>3 DEF Exports!Status
<1>. QED BY <1>5, <1>6

LEMMA UsersAreFinite == IsFiniteSet(Users) /\ Cardinality(Users) \in Nat
<1>1. IsFiniteSet(Probers)
  BY CallAssumption DEF Exports!ExportAssumption, IsFiniteSet, Exports!IsFiniteSet
<1>2. Users \subseteq Probers
  BY DEF Users
<1>. QED BY <1>1, <1>2, FS_Subset, FS_CardinalityType

\* The ends of the three calls of a prober.
LEMMA EndsOfCalls ==
  ASSUME NEW p \in Probers, Exports!Probes(p) \/ Exports!AsksSize(p) \/ Exports!AsksText(p)
  PROVE  /\ \E next \in {"size", "text", "done", "raised"} : pc' = [pc EXCEPT ![p] = next]
         /\ pc[p] \in Exports!Calls /\ module[p] # Exports!None
         /\ module' = [module EXCEPT ![p] = Exports!None]
         /\ references' = references - IF Exports!Loaded(module[p]) THEN 1 ELSE 0
         /\ UNCHANGED <<image, capture, start, seen>>
BY DEF Exports!Probes, Exports!AsksSize, Exports!AsksText, Exports!Ends, Exports!Free, Exports!Calls,
       Exports!captureVars

LEMMA HeldKept ==
  ASSUME call = "exports", ExportInv, Exports!Next
  PROVE  ExportTypes' /\ HeldInv'
<1> USE DEF ExportInv, Exports!captureVars, Exports!proberVars
<1>1. Exports!None \notin Images
  BY CallAssumption DEF Exports!ExportAssumption
<1>2. ASSUME UNCHANGED module PROVE Users' = Users
  BY <1>2 DEF Users
<1>3. CASE Exports!StartLoads \/ Exports!StartResolves \/ Exports!Stops
  <2>1. UNCHANGED <<image, pc, module, info, size, report, seen>>
    BY <1>3 DEF Exports!StartLoads, Exports!StartResolves, Exports!Stops
  <2>2. /\ references' \in Int /\ capture' \in {"stopped", "resolving", "running"}
        /\ references' - references = (IF capture' = "stopped" THEN 0 ELSE 1) - (IF capture = "stopped" THEN 0 ELSE 1)
        /\ capture' # "stopped" => Exports!Loaded(image)
    BY <1>3 DEF Exports!StartLoads, Exports!StartResolves, Exports!Stops, ExportTypes, HeldInv
  <2>3. ExportTypes'
    BY <2>1, <2>2 DEF ExportTypes
  <2>4. HeldInv'
    <3>1. Users' = Users /\ Cardinality(Users) \in Nat /\ references \in Int
      BY <1>2, <2>1, UsersAreFinite DEF ExportTypes
    <3>2. Cardinality(Users') = Cardinality(Users)
      BY ONLY <3>1
    <3>3. references' = (IF capture' = "stopped" THEN 0 ELSE 1) + Cardinality(Users')
      <4>1. references = (IF capture = "stopped" THEN 0 ELSE 1) + Cardinality(Users)
        BY DEF HeldInv
      <4>2. PICK n \in Nat : n = Cardinality(Users) /\ n = Cardinality(Users')
        BY ONLY <3>1, <3>2
      <4>3. references \in Int /\ references' \in Int
        BY <2>2, <3>1
      <4>. QED BY ONLY <2>2, <4>1, <4>2, <4>3
    <3>4. capture' # "stopped" => Exports!Loaded(image')
      BY <2>1, <2>2
    <3>. QED BY <3>3, <3>4 DEF HeldInv, Exports!Loaded
  <2>. QED BY <2>3, <2>4
<1>4. CASE Exports!Replaced
  <2>1. references = 0 /\ image' \in Images /\ UNCHANGED <<references, pc, module, info, size, report, seen, capture>>
    BY <1>4 DEF Exports!Replaced
  <2>2. capture = "stopped"
    BY <2>1, UsersAreFinite DEF HeldInv, ExportTypes
  <2>3. Users' = Users
    BY <1>2, <2>1
  <2>. QED BY <2>1, <2>2, <2>3 DEF ExportTypes, HeldInv
<1>5. ASSUME NEW p \in Probers, Exports!Load(p) PROVE ExportTypes' /\ HeldInv'
  <2>1. /\ module[p] = Exports!None /\ module' = [module EXCEPT ![p] = image]
        /\ references' = references + IF Exports!Loaded(image) THEN 1 ELSE 0
        /\ seen' = [seen EXCEPT ![p][pc[p]] = image]
        /\ UNCHANGED <<image, pc, info, size, report, capture>>
    BY <1>5 DEF Exports!Load
  <2>2. ExportTypes'
    BY <2>1 DEF ExportTypes
  <2>3. image # Exports!None /\ image \in Images
    BY <1>1 DEF ExportTypes
  <2>4. Cardinality(Users') = Cardinality(Users) + IF Exports!Loaded(image) THEN 1 ELSE 0
    <3>1. Cardinality(Users') = Cardinality(Users) - Holds(module[p]) + Holds(image)
      BY <2>1, <2>3, UsersCounted
    <3>. QED BY <2>1, <2>3, <3>1, UsersAreFinite DEF Holds
  <2>. QED BY <2>1, <2>2, <2>4, UsersAreFinite DEF HeldInv, Exports!Loaded, ExportTypes
<1>6. ASSUME NEW p \in Probers, Exports!Probes(p) \/ Exports!AsksSize(p) \/ Exports!AsksText(p)
      PROVE  ExportTypes' /\ HeldInv'
  <2>1. /\ module[p] # Exports!None /\ module' = [module EXCEPT ![p] = Exports!None]
        /\ references' = references - IF Exports!Loaded(module[p]) THEN 1 ELSE 0
        /\ UNCHANGED <<image, capture, seen>>
        /\ \E next \in Exports!Calls \cup {"done", "raised"} : pc' = [pc EXCEPT ![p] = next]
    BY <1>6, EndsOfCalls DEF Exports!Calls
  <2>2. DOMAIN info' = Probers /\ DOMAIN size' = Probers /\ DOMAIN report' = Probers
    BY <1>6 DEF Exports!Probes, Exports!AsksSize, Exports!AsksText, ExportTypes
  <2>3. ExportTypes'
    BY <2>1, <2>2 DEF ExportTypes
  <2>4. Cardinality(Users') = Cardinality(Users) - IF Exports!Loaded(module[p]) THEN 1 ELSE 0
    <3>1. Cardinality(Users') = Cardinality(Users) - Holds(module[p]) + Holds(Exports!None)
      BY <2>1, UsersCounted
    <3>. QED BY <2>1, <3>1, UsersAreFinite DEF Holds
  <2>. QED BY <2>1, <2>3, <2>4, UsersAreFinite DEF HeldInv, Exports!Loaded, ExportTypes
<1>. QED BY <1>3, <1>4, <1>5, <1>6 DEF Exports!Next

\* What a prober was told stays what its call has seen.
LEMMA ToldKept ==
  ASSUME call = "exports", ExportInv, Exports!Next
  PROVE  ToldInv'
<1> USE DEF ExportInv, Exports!captureVars, Exports!proberVars
<1>1. CASE Exports!StartLoads \/ Exports!StartResolves \/ Exports!Stops \/ Exports!Replaced
  <2>1. UNCHANGED <<pc, module, info, size, report, seen>>
    BY <1>1 DEF Exports!StartLoads, Exports!StartResolves, Exports!Stops, Exports!Replaced
  <2>. QED BY <2>1 DEF ToldInv
<1>2. ASSUME NEW p \in Probers, Exports!Load(p) PROVE ToldInv'
  <2>1. /\ module' = [module EXCEPT ![p] = image] /\ seen' = [seen EXCEPT ![p][pc[p]] = image]
        /\ pc[p] \in Exports!Calls /\ UNCHANGED <<pc, info, size, report>>
    BY <1>2 DEF Exports!Load
  <2>. QED BY <2>1 DEF ToldInv, ExportTypes, Exports!Calls
<1>3. ASSUME NEW p \in Probers, Exports!Probes(p) PROVE ToldInv'
  <2>1. /\ pc[p] = "probe" /\ pc' = [pc EXCEPT ![p] = "size"] /\ module' = [module EXCEPT ![p] = Exports!None]
        /\ info' = [info EXCEPT ![p] = Exports!Info(module[p])]
        /\ module[p] # Exports!None /\ UNCHANGED <<seen, size, report>>
    BY <1>3 DEF Exports!Probes, Exports!Ends
  <2>. QED BY <2>1 DEF ToldInv, ExportTypes
<1>4. ASSUME NEW p \in Probers, Exports!AsksSize(p) PROVE ToldInv'
  <2>1. /\ pc[p] = "size" /\ pc' = [pc EXCEPT ![p] = "text"] /\ module' = [module EXCEPT ![p] = Exports!None]
        /\ size' = [size EXCEPT ![p] = Exports!Needed(Exports!Report(module[p]))]
        /\ module[p] # Exports!None /\ UNCHANGED <<seen, info, report>>
    BY <1>4 DEF Exports!AsksSize, Exports!Ends
  <2>. QED BY <2>1 DEF ToldInv, ExportTypes
<1>5. ASSUME NEW p \in Probers, Exports!AsksText(p) PROVE ToldInv'
  <2> DEFINE text == Exports!Value(Exports!CopyText(Exports!Report(module[p]), Exports!Cleared(size[p])))
  <2>1. /\ pc[p] = "text" /\ pc' = [pc EXCEPT ![p] = IF Exports!Decodes(text) THEN "done" ELSE "raised"]
        /\ module' = [module EXCEPT ![p] = Exports!None] /\ report' = [report EXCEPT ![p] = text]
        /\ module[p] # Exports!None /\ UNCHANGED <<seen, info, size>>
    BY <1>5 DEF Exports!AsksText, Exports!Ends
  <2>. QED BY <2>1 DEF ToldInv, ExportTypes
<1>. QED BY <1>1, <1>2, <1>3, <1>4, <1>5 DEF Exports!Next

\* A start finds what the library has.
LEMMA StartKept ==
  ASSUME call = "exports", ExportInv, Exports!Next
  PROVE  StartInv'
<1> USE DEF ExportInv, StartInv, Exports!captureVars, Exports!NotYet
<1>1. CASE Exports!StartLoads
  BY <1>1 DEF Exports!StartLoads, Exports!Status
<1>2. CASE Exports!StartResolves
  <2> DEFINE lacking == {i \in 1 .. Len(Exports!DirectApi) : ~Exports!Exported(image, Exports!DirectApi[i])}
  <2>1. Exports!Loaded(image)
    BY <1>2 DEF Exports!StartResolves, HeldInv
  <2>2. IF lacking = {} THEN start' = [status |-> "ok", image |-> image]
        ELSE start' = [status |-> "missing_export", image |-> image,
                       name |-> Exports!DirectApi[Exports!Min(lacking)]]
    BY <1>2 DEF Exports!StartResolves
  <2>3. /\ lacking = {} => Exports!Status(image) = "ok"
        /\ lacking # {} =>
             /\ Exports!Status(image) = "missing_export"
             /\ \E i \in Exports!Missing(image) :
                  Exports!kPktmonExports[i] = Exports!DirectApi[Exports!Min(lacking)]
    BY <2>1, StartResolvesWhatIsThere
  <2> HIDE DEF lacking
  <2>. QED BY <2>2, <2>3
<1>3. CASE UNCHANGED start
  BY <1>3
<1>4. ASSUME NEW p \in Probers, Exports!Load(p) \/ Exports!Probes(p) \/ Exports!AsksSize(p) \/ Exports!AsksText(p)
      PROVE  UNCHANGED start
  BY <1>4, EndsOfCalls DEF Exports!Load
<1>. QED BY <1>1, <1>2, <1>3, <1>4 DEF Exports!Next, Exports!Stops, Exports!Replaced

LEMMA ExportInvariance == Spec => []ExportInv
<1>1. Init => ExportInv
  <2> SUFFICES ASSUME call = "exports", Exports!Init PROVE ExportInv
    BY DEF Init, ExportInv
  <2> USE DEF Exports!Init
  <2>1. ExportTypes
    BY DEF ExportTypes, Exports!Calls
  <2>2. Users = {}
    BY DEF Users
  <2>3. HeldInv
    BY <2>2, FS_EmptySet DEF HeldInv
  <2>4. ToldInv /\ StartInv
    BY DEF ToldInv, StartInv
  <2>. QED BY <2>1, <2>3, <2>4 DEF ExportInv
<1>2. ExportInv /\ [Next]_vars => ExportInv'
  <2> SUFFICES ASSUME ExportInv, [Next]_vars PROVE ExportInv'
    OBVIOUS
  <2>1. CASE call = "exports" /\ Exports!Next /\ call' = call
    BY <2>1, HeldKept, ToldKept, StartKept DEF ExportInv
  <2>2. CASE call # "exports" /\ call' = call
    BY <2>2 DEF ExportInv
  <2>3. CASE UNCHANGED vars
    <3>1. UNCHANGED <<call, image, references, pc, module, info, size, report, capture, start, seen>>
      BY <2>3 DEF vars, exportVars
    <3>. QED BY <3>1 DEF ExportInv, ExportTypes, HeldInv, ToldInv, StartInv, Users
  <2>. QED BY <2>1, <2>2, <2>3 DEF Next
<1>. QED BY <1>1, <1>2, PTL DEF Spec

\* However probes, starts and stops overlap, the library is loaded once for each
\* of its users: it is not unloaded under one, nor kept for nobody.
THEOREM LibraryIsHeldByItsUsers == Spec => []HeldByItsUsers
<1>1. ExportInv => HeldByItsUsers
  BY DEF ExportInv, HeldInv, HeldByItsUsers, Exports!HeldByItsUsers, Users, Cardinality, Exports!Cardinality
<1>. QED BY <1>1, ExportInvariance, PTL

\* The report of a library is a text, whose end is nowhere else in it.
LEMMA ReportIsText ==
  ASSUME NEW img
  PROVE  LET text == Exports!Report(img)
         IN  /\ text \in Seq({"t", "f", "end", NUL}) /\ \A i \in 1 .. Len(text) : text[i] # NUL
             /\ Len(text) \in Nat \ {0} /\ text[Len(text)] = "end"
             /\ \A i \in 1 .. Len(text) - 1 : text[i] # "end"
<1> DEFINE Letters == {"t", "f"}
<1>1. \A flag : Exports!Word(flag) \in Seq(Letters)
  <2>1. <<"t">> \in Seq(Letters) /\ <<"f", "f">> \in Seq(Letters)
    OBVIOUS
  <2> HIDE DEF Letters
  <2>. QED BY <2>1 DEF Exports!Word
<1>2. \A a, b \in Seq(Letters) : a \o b \in Seq(Letters)
  BY ConcatProperties
<1> HIDE DEF Letters
<1>3. PICK body \in Seq(Letters) : Exports!Report(img) = body \o <<"end">>
  BY <1>1, <1>2 DEF Exports!Report
<1>4. Letters \subseteq {"t", "f", "end", NUL} /\ "end" \notin Letters /\ NUL \notin Letters /\ NUL # "end"
  BY DEF Letters, NUL
<1> HIDE DEF Letters
<1> DEFINE Chars == {"t", "f", "end", NUL}
           text == Exports!Report(img)
<1>5. body \in Seq(Chars) /\ <<"end">> \in Seq(Chars) /\ Len(body) \in Nat /\ \A i \in 1 .. Len(body) : body[i] \in Letters
  <2>1. Letters \subseteq Chars /\ "end" \in Chars
    BY <1>4
  <2> HIDE DEF Chars
  <2>. QED BY <2>1
<1> HIDE DEF Chars
<1>6. text \in Seq(Chars) /\ Len(text) = Len(body) + 1
  BY <1>3, <1>5, ConcatProperties
<1>7. text[Len(body) + 1] = "end" /\ \A i \in 1 .. Len(body) : text[i] = body[i]
  BY <1>3, <1>5, ConcatProperties
<1> HIDE DEF text
<1>8. /\ \A i \in 1 .. Len(text) - 1 : text[i] # "end"
      /\ \A i \in 1 .. Len(text) : text[i] # NUL
  BY ONLY <1>4, <1>5, <1>6, <1>7
<1>. QED BY <1>5, <1>6, <1>7, <1>8 DEF text, Chars

\* A probe foretells how a start with the same library ends, and reports what each
\* export of the library is; or it raises, because its report was cut when the
\* library was replaced between its two calls by one that lacks more.
THEOREM ProbesTellTheTruth == Spec => []ProbeTells
<1>1. ExportInv => ProbeTells
  <2> SUFFICES ASSUME ExportInv, call = "exports", NEW p \in Probers
               PROVE  /\ info[p] # Exports!NotYet /\ start # Exports!NotYet
                           /\ seen[p]["probe"] = start.image =>
                           /\ info[p].status = start.status
                           /\ info[p].capture_ready <=> start.status = "ok"
                           /\ start.status = "missing_export" =>
                                \E i \in Exports!Missing(start.image) :
                                  Exports!kPktmonExports[i] = start.name
                      /\ pc[p] = "done" => report[p] = Exports!Report(seen[p]["text"])
                      /\ pc[p] = "raised" =>
                           Len(Exports!Report(seen[p]["size"])) < Len(Exports!Report(seen[p]["text"]))
    BY DEF ProbeTells, Exports!ProbeTells, Exports!ForetellsStart, Exports!ReportIsWhole
  <2> USE DEF ExportInv
  <2>1. ASSUME info[p] # Exports!NotYet, start # Exports!NotYet, seen[p]["probe"] = start.image
        PROVE  /\ info[p].status = start.status
               /\ info[p].capture_ready <=> start.status = "ok"
               /\ start.status = "missing_export" =>
                    \E i \in Exports!Missing(start.image) : Exports!kPktmonExports[i] = start.name
    <3>1. /\ info[p].status = Exports!Status(start.image)
          /\ info[p].capture_ready = (Exports!Status(start.image) = "ok")
      <4>1. info[p] = Exports!Info(start.image)
        BY <2>1 DEF ToldInv
      <4>. QED BY ONLY <4>1 DEF Exports!Info
    <3>. QED BY <2>1, <3>1 DEF StartInv
  <2>2. ASSUME pc[p] \in {"done", "raised"}
        PROVE  /\ pc[p] = "done" => report[p] = Exports!Report(seen[p]["text"])
               /\ pc[p] = "raised" =>
                    Len(Exports!Report(seen[p]["size"])) < Len(Exports!Report(seen[p]["text"]))
    <3> DEFINE Chars == {"t", "f", "end", NUL}
               now == Exports!Report(seen[p]["text"])
               old == Exports!Report(seen[p]["size"])
    <3>1. /\ now \in Seq(Chars) /\ (\A i \in 1 .. Len(now) : now[i] # NUL) /\ old \in Seq(Chars)
          /\ Len(now) \in Nat \ {0} /\ now[Len(now)] = "end"
          /\ (\A i \in 1 .. Len(now) - 1 : now[i] # "end") /\ Len(old) \in Nat \ {0}
      BY ReportIsText
    <3>2. report[p] = Value(CopyText(now, Cleared(Len(old) + 1)))
      <4>1. report[p] = Exports!Value(Exports!CopyText(now, Exports!Cleared(size[p]))) /\ size[p] = Len(old) + 1
        BY <2>2 DEF ToldInv, Exports!Needed
      <4>2. \A text, n : Exports!Value(Exports!CopyText(text, Exports!Cleared(n)))
                           = Value(CopyText(text, Cleared(n)))
        BY DEF Value, Exports!Value, CopyText, Exports!CopyText, Cleared, Exports!Cleared,
               Min, Exports!Min, NUL, Exports!NUL
      <4>. QED BY ONLY <4>1, <4>2
    <3>3. NUL \in Chars /\ (pc[p] = "done" <=> Exports!Decodes(report[p]))
      BY <2>2 DEF ToldInv
    <3> HIDE DEF now, old, Chars
    <3>4. PICK room \in Nat \ {0} : room = Len(old) + 1
      BY <3>1
    <3>5. report[p] = SubSeq(now, 1, IF Len(now) <= room - 1 THEN Len(now) ELSE room - 1)
      <4>1. Value(CopyText(now, Cleared(room)))
              = SubSeq(now, 1, IF Len(now) <= room - 1 THEN Len(now) ELSE room - 1)
        <5>1. now \in Seq(Chars) /\ NUL \in Chars /\ \A i \in 1 .. Len(now) : now[i] # NUL
          BY ONLY <3>1, <3>3
        <5>. QED BY ONLY <3>4, <5>1, CopiedText
      <4>2. report[p] = Value(CopyText(now, Cleared(room)))
        BY ONLY <3>2, <3>4
      <4>. QED BY ONLY <4>1, <4>2
    <3>6. CASE Len(now) <= Len(old)
      <4>1. report[p] = now
        BY <3>1, <3>4, <3>5, <3>6, WholeText
      <4>2. pc[p] = "done"
        BY <3>1, <3>3, <4>1, EmptySeq DEF Exports!Decodes
      <4>. QED BY <4>1, <4>2 DEF now
    <3>7. CASE Len(old) < Len(now)
      <4>1. /\ Len(old) \in 1 .. Len(now) - 1 /\ report[p] = SubSeq(now, 1, Len(old))
            /\ \A i \in 1 .. Len(old) : now[i] \in Chars
        BY <3>1, <3>4, <3>5, <3>7
      <4>2. Len(report[p]) = Len(old) /\ report[p][Len(old)] = now[Len(old)]
        BY <3>1, <4>1, SubSeqProperties
      <4>3. ~Exports!Decodes(report[p])
        BY <3>1, <4>1, <4>2 DEF Exports!Decodes
      <4>. QED BY <2>2, <3>3, <3>7, <4>3 DEF now, old
    <3>. QED BY <3>1, <3>6, <3>7
  <2>. QED BY <2>1, <2>2
<1>. QED BY <1>1, ExportInvariance, PTL

-----------------------------------------------------------------------------
(* The array of records *)

RecordSize == Records!SizeOf(Records!NativePacket)

\* The array is as long as the call needs it; the shim fills records only when
\* they have the size it knows.
RecordInv ==
  call = "record" =>
    /\ limit \in Nat \ {0} /\ layout \in RecordLayouts
    /\ queue \in Seq(Records!Packet) /\ payloads \in Seq(Seq(Nat))
    /\ Len(memory) \in Nat /\ memory = [k \in 1 .. Len(memory) |-> memory[k]]
    /\ touched \in Nat /\ touched <= Len(memory)
    /\ pc \in {"check", "fill"} => Len(memory) = Records!Records * RecordSize
    /\ pc = "check" => touched = 0 /\ \A k \in 1 .. 4 : memory[k] = <<k, RecordSize>>
    /\ pc = "fill" => /\ Records!SizeOf(layout) = RecordSize
                      /\ Len(payloads) < Records!Records /\ queue # <<>>

\* A record lies in an array that has it.
LEMMA RecordWithin ==
  ASSUME NEW i \in Nat, NEW n \in Nat, i < n, NEW width \in Nat
  PROVE  i * width + width <= n * width /\ i * width \in Nat /\ n * width \in Nat
<1>1. PICK d \in Nat : n = i + 1 + d
  <2>1. n - i - 1 \in Nat /\ n = i + 1 + (n - i - 1)
    OBVIOUS
  <2>. QED BY <2>1
<1>2. n * width = i * width + width + d * width /\ d * width \in Nat /\ i * width \in Nat
  BY <1>1
<1>. QED BY <1>1, <1>2

LEMMA RecordFacts ==
  /\ RecordSize \in Nat /\ RecordSize >= 4
  /\ \A struct \in RecordLayouts :
       /\ Records!SizeOf(struct) \in Nat /\ Records!Begins(struct, "payload_size") \in Nat
       /\ Records!Begins(struct, "payload_size") + 4 <= Records!SizeOf(struct)
  /\ Records!Begins(Records!NativePacket, "struct_size") = 0
  /\ Limits \subseteq Nat \ {0} /\ Queues \subseteq Seq(Records!Packet)
BY CallAssumption DEF Records!RecordAssumption, RecordSize

\* A function on 1 .. n is a sequence of n elements.
LEMMA LengthOfFunction ==
  ASSUME NEW n \in Nat, NEW f, f = [i \in 1 .. n |-> f[i]]
  PROVE  Len(f) = n /\ f \in Seq({f[i] : i \in 1 .. n})
<1>1. f \in [1 .. n -> {f[i] : i \in 1 .. n}]
  OBVIOUS
<1>. QED BY <1>1

\* The shim finds the number that is written at the beginning of an array.
LEMMA FirstNumber ==
  ASSUME NEW n \in Nat, n >= 4, NEW mem, mem = [i \in 1 .. n |-> mem[i]],
         NEW v \in Nat, \A k \in 1 .. 4 : mem[k] = <<k, v>>
  PROVE  Records!NumberAt(mem, 0, 4) = v
<1>1. Len(mem) = n /\ mem \in Seq({mem[i] : i \in 1 .. n})
  BY LengthOfFunction
<1>. DEFINE cells == Records!Cells(mem, 0, 4)
<1>2. cells = SubSeq(mem, 1, 4)
  BY DEF Records!Cells
<1>3. SubSeq(mem, 1, 4) = [k \in 1 .. 4 |-> mem[k]]
  BY <1>1
<1>4. cells = [k \in 1 .. 4 |-> <<k, v>>]
  BY <1>2, <1>3
<1>. HIDE DEF cells
<1>5. cells[1][2] = v
  <2>1. cells[1] = <<1, v>>
    BY <1>4
  <2>. QED BY <2>1
<1>6. cells = Records!Number(v, 4)
  BY <1>4 DEF Records!Number
<1>. QED BY <1>5, <1>6 DEF Records!NumberAt, cells

LEMMA PrepareKeeps ==
  ASSUME RecordInv, call = "record", call' = call, Records!Prepare
  PROVE  RecordInv'
<1>. DEFINE n == Records!Records * RecordSize
<1>1. Records!Records \in Nat \ {0} /\ Records!Records' = Records!Records
  BY DEF RecordInv, Records!Prepare, Records!call, Records!Records
<1>2. n \in Nat /\ n >= RecordSize /\ RecordSize \in Nat /\ RecordSize >= 4
  <2>1. PICK d \in Nat : Records!Records = d + 1
    <3>1. Records!Records - 1 \in Nat /\ Records!Records = (Records!Records - 1) + 1
      BY <1>1
    <3>. QED BY <3>1
  <2>2. n = d * RecordSize + RecordSize /\ d * RecordSize \in Nat
    BY <2>1, RecordFacts
  <2>. QED BY <2>2, RecordFacts
<1>. HIDE DEF n
<1>3. memory' = [k \in 1 .. n |->
                   IF ((k - 1) % RecordSize) - 0 \in 0 .. 3
                   THEN Records!Number(RecordSize, 4)[((k - 1) % RecordSize) - 0 + 1]
                   ELSE <<0, Records!NUL>>]
  BY RecordFacts DEF Records!Prepare, RecordSize, n
<1>4. memory' = [k \in 1 .. n |-> memory'[k]] /\ DOMAIN memory' = 1 .. n
  BY <1>3
<1>5. Len(memory') = n
  BY <1>2, <1>4, LengthOfFunction
<1>6. ASSUME NEW k \in 1 .. 4 PROVE memory'[k] = <<k, RecordSize>>
  <2>1. k \in 1 .. n /\ (k - 1) % RecordSize = k - 1
    BY <1>2
  <2>2. /\ ((k - 1) % RecordSize) - 0 \in 0 .. 3
        /\ ((k - 1) % RecordSize) - 0 + 1 = k
    BY <2>1
  <2>3. memory'[k] = Records!Number(RecordSize, 4)[k]
    BY <1>3, <2>1, <2>2
  <2>. QED BY <2>3 DEF Records!Number
<1>7. /\ pc' = "check" /\ touched' = 0
      /\ UNCHANGED <<limit, layout, batched, queue, payloads, decoded>>
  BY DEF Records!Prepare, Records!call
<1>. QED BY <1>1, <1>2, <1>4, <1>5, <1>6, <1>7 DEF RecordInv, n

\* A set of natural numbers has a least element.
LEMMA LeastExists ==
  ASSUME NEW S \in SUBSET Nat, S # {}
  PROVE  Records!Min(S) \in S /\ \A j \in S : Records!Min(S) <= j
<1>. DEFINE less == OpToRel(<, Nat)
<1>1. PICK i \in S : \A j \in S : ~(<<j, i>> \in less)
  <2>1. IsWellFoundedOn(less, Nat)
    BY NatLessThanWellFounded DEF less
  <2>. QED BY <2>1, WFMin
<1>2. \A j \in S : ~(j < i)
  BY <1>1 DEF OpToRel
<1>3. \A j \in S : i <= j
  BY <1>2
<1>. QED BY <1>3 DEF Records!Min

LEMMA CheckKeeps ==
  ASSUME RecordInv, call = "record", call' = call, Records!Check
  PROVE  RecordInv'
<1>. DEFINE at(i) == i * Records!Stride(layout)
            wrong == {i \in 0 .. Records!Records - 1 :
                        /\ at(i) + 4 <= Len(memory)
                        /\ Records!NumberAt(memory, at(i), 4) # Records!SizeOf(layout)}
<1>1. /\ touched' = at(IF wrong = {} THEN Records!Records - 1 ELSE Records!Min(wrong)) + 4
      /\ pc' = IF wrong # {} THEN "raised" ELSE IF queue = <<>> THEN "done" ELSE "fill"
      /\ payloads' = <<>>
      /\ UNCHANGED <<limit, layout, batched, queue, memory, decoded>>
  <2>1. /\ touched' = at(IF wrong = {} THEN Records!Records - 1 ELSE Records!Min(wrong)) + 4
        /\ pc' = IF wrong # {} THEN "raised" ELSE IF queue = <<>> THEN "done" ELSE "fill"
    BY Zenon DEF Records!Check
  <2>2. /\ payloads' = <<>>
        /\ UNCHANGED <<limit, layout, batched, queue, memory, decoded>>
    BY DEF Records!Check, Records!call
  <2>. QED BY <2>1, <2>2
<1>2. /\ Records!Records \in Nat \ {0} /\ Records!Records' = Records!Records
      /\ Len(memory) \in Nat /\ Len(memory) = Records!Records * RecordSize
      /\ Records!Stride(layout) \in Nat /\ Records!Stride(layout) = Records!SizeOf(layout)
  BY <1>1, RecordFacts DEF RecordInv, Records!Records, Records!Check, Records!Stride
<1>3. Len(memory) >= RecordSize /\ RecordSize \in Nat /\ RecordSize >= 4
  BY <1>2, RecordWithin, RecordFacts
<1>4. Records!NumberAt(memory, 0, 4) = RecordSize
  <2>1. /\ memory = [k \in 1 .. Len(memory) |-> memory[k]]
        /\ \A k \in 1 .. 4 : memory[k] = <<k, RecordSize>>
    BY DEF RecordInv, Records!Check
  <2>2. Len(memory) >= 4
    BY <1>2, <1>3
  <2>. QED BY <1>2, <1>3, <2>1, <2>2, FirstNumber
<1>5. at(0) = 0
  BY <1>2
<1>6. CASE Records!SizeOf(layout) # RecordSize
  <2>1. 0 \in wrong /\ \A i \in wrong : i >= 0
    BY <1>2, <1>3, <1>4, <1>5, <1>6
  <2>. HIDE DEF wrong
  <2>2. Records!Min(wrong) = 0
    <3>1. Records!Min(wrong) \in wrong /\ \A i \in wrong : Records!Min(wrong) <= i
      BY <2>1 DEF Records!Min
    <3>. QED BY <2>1, <3>1 DEF wrong
  <2>3. touched' = 4 /\ pc' = "raised"
    BY <1>1, <1>5, <2>1, <2>2
  <2>. QED BY <1>1, <1>3, <2>3 DEF RecordInv
<1>7. CASE Records!SizeOf(layout) = RecordSize
  <2>1. ASSUME NEW i \in 0 .. Records!Records - 1
        PROVE  at(i) + 4 \in Nat /\ at(i) + 4 <= Len(memory)
    <3>1. i \in Nat /\ i < Records!Records
      BY <1>2
    <3>2. /\ i * RecordSize + RecordSize <= Records!Records * RecordSize
          /\ i * RecordSize \in Nat
      BY <1>2, <1>3, <3>1, RecordWithin
    <3>3. at(i) = i * RecordSize
      BY <1>2, <1>7
    <3>. QED BY <1>2, <1>3, <3>2, <3>3
  <2>2. (IF wrong = {} THEN Records!Records - 1 ELSE Records!Min(wrong)) \in 0 .. Records!Records - 1
    <3>1. wrong \subseteq 0 .. Records!Records - 1
      OBVIOUS
    <3>. HIDE DEF wrong
    <3>2. CASE wrong = {}
      BY <1>2, <3>2
    <3>3. CASE wrong # {}
      <4>1. wrong \in SUBSET Nat
        BY <1>2, <3>1
      <4>2. Records!Min(wrong) \in wrong
        BY <3>3, <4>1, LeastExists DEF Records!Min
      <4>. QED BY <3>1, <3>3, <4>2
    <3>. QED BY <3>2, <3>3
  <2>3. touched' \in Nat /\ touched' <= Len(memory)
    BY <1>1, <2>1, <2>2
  <2>4. pc' \in {"raised", "done", "fill"} /\ (pc' = "fill" => queue # <<>>)
    BY <1>1
  <2>5. payloads' \in Seq(Seq(Nat)) /\ Len(payloads') = 0
    BY <1>1
  <2>6. /\ limit \in Nat \ {0} /\ layout \in RecordLayouts /\ queue \in Seq(Records!Packet)
        /\ memory = [k \in 1 .. Len(memory) |-> memory[k]]
    BY DEF RecordInv
  <2>7. Len(payloads') < Records!Records /\ Len(memory') = Len(memory)
    BY <1>1, <1>2, <2>5
  <2>. QED BY <1>1, <1>2, <1>7, <2>3, <2>4, <2>5, <2>6, <2>7 DEF RecordInv
<1>. QED BY <1>6, <1>7

LEMMA FillKeeps ==
  ASSUME RecordInv, call = "record", call' = call, Records!Fill
  PROVE  RecordInv'
<1>. DEFINE n    == Len(payloads)
            base == n * Records!Stride(layout)
            last == base + Records!Begins(layout, "payload_size") + 4
<1>1. /\ payloads' = Append(payloads, Head(queue).payload) /\ queue' = Tail(queue)
      /\ memory' = Records!Filled(memory, base, Records!FieldsOf(layout, Head(queue), n + 1))
      /\ touched' = Records!Max({touched, last})
      /\ pc' = IF Len(payloads') = Records!Records \/ queue' = <<>> THEN "decode" ELSE "fill"
      /\ UNCHANGED <<limit, layout, batched, decoded>>
  <2>1. /\ payloads' = Append(payloads, Head(queue).payload) /\ queue' = Tail(queue)
        /\ pc' = IF Len(payloads') = Records!Records \/ queue' = <<>> THEN "decode" ELSE "fill"
        /\ UNCHANGED <<limit, layout, batched, decoded>>
    BY DEF Records!Fill, Records!call
  <2>2. /\ memory' = Records!Filled(memory, base, Records!FieldsOf(layout, Head(queue), n + 1))
        /\ touched' = Records!Max({touched, last})
    BY Zenon DEF Records!Fill
  <2>. QED BY <2>1, <2>2
<1>2. /\ queue \in Seq(Records!Packet) /\ queue # <<>> /\ payloads \in Seq(Seq(Nat))
      /\ n < Records!Records /\ n \in Nat /\ Records!Records \in Nat
      /\ Len(memory) \in Nat /\ Len(memory) = Records!Records * RecordSize
      /\ memory = [k \in 1 .. Len(memory) |-> memory[k]]
      /\ touched \in Nat /\ touched <= Len(memory)
      /\ Records!Stride(layout) = RecordSize /\ layout \in RecordLayouts
      /\ Records!SizeOf(layout) = RecordSize
  BY DEF RecordInv, Records!Fill, Records!Records, Records!Stride
<1>3. Head(queue) \in Records!Packet /\ queue' \in Seq(Records!Packet)
  BY <1>1, <1>2
<1>4. payloads' \in Seq(Seq(Nat)) /\ Len(payloads') = n + 1
  <2>1. Head(queue).payload \in Seq(Nat)
    BY <1>3 DEF Records!Packet
  <2>. QED BY <1>1, <1>2, <2>1
<1>5. Len(memory') = Len(memory) /\ memory' = [k \in 1 .. Len(memory) |-> memory'[k]]
  <2>1. DOMAIN memory = 1 .. Len(memory)
    BY <1>2
  <2>2. memory' = [k \in 1 .. Len(memory) |-> memory'[k]]
    BY <1>1, <2>1 DEF Records!Filled
  <2>. QED BY <1>2, <2>2, LengthOfFunction
<1>6. last \in Nat /\ last <= Len(memory)
  <2>1. n * RecordSize + RecordSize <= Records!Records * RecordSize /\ n * RecordSize \in Nat
    BY <1>2, RecordWithin, RecordFacts
  <2>2. /\ Records!Begins(layout, "payload_size") \in Nat
        /\ Records!Begins(layout, "payload_size") + 4 <= RecordSize
    BY <1>2, RecordFacts
  <2>3. RecordSize \in Nat /\ Len(memory) \in Nat /\ Len(memory) = Records!Records * RecordSize
    BY <1>2, RecordFacts
  <2> DEFINE from  == n * RecordSize
             begin == Records!Begins(layout, "payload_size")
  <2>4. from \in Nat /\ begin \in Nat /\ from + RecordSize <= Len(memory) /\ begin + 4 <= RecordSize
    BY ONLY <2>1, <2>2, <2>3
  <2>5. last = from + begin + 4
    BY <1>2
  <2> HIDE DEF from, begin, last
  <2>. QED BY ONLY <2>3, <2>4, <2>5
<1>. HIDE DEF last
<1>7. touched' \in Nat /\ touched' <= Len(memory)
  <2>1. touched' \in {touched, last}
    BY <1>1, <1>2, <1>6 DEF Records!Max
  <2>. QED BY <1>2, <1>6, <2>1
<1>8. Records!Records' = Records!Records
  BY <1>1 DEF Records!Records
<1>9. pc' \in {"decode", "fill"} /\ (pc' = "fill" => Len(payloads') < Records!Records /\ queue' # <<>>)
  BY <1>1, <1>2, <1>4
<1>. QED BY <1>1, <1>2, <1>3, <1>4, <1>5, <1>7, <1>8, <1>9 DEF RecordInv

LEMMA DecodeKeeps ==
  ASSUME RecordInv, call = "record", call' = call, Records!Decode
  PROVE  RecordInv'
BY DEF RecordInv, Records!Decode, Records!call

LEMMA RecordInvariance == Spec => []RecordInv
<1>1. Init => RecordInv
  <2>. SUFFICES ASSUME Records!Init PROVE RecordInv
    BY DEF Init, RecordInv
  <2>1. memory = <<>> /\ payloads = <<>> /\ touched = 0 /\ pc = "prepare" /\ queue = offered
    BY DEF Records!Init
  <2>2. Len(memory) = 0 /\ memory = [k \in 1 .. 0 |-> memory[k]] /\ payloads \in Seq(Seq(Nat))
    BY <2>1
  <2>. QED BY <2>1, <2>2, RecordFacts DEF Records!Init, RecordInv
<1>2. RecordInv /\ [Next]_vars => RecordInv'
  <2>. SUFFICES ASSUME RecordInv, [Next]_vars PROVE RecordInv'
    OBVIOUS
  <2>1. CASE call = "record" /\ Records!Next /\ call' = call
    BY <2>1, PrepareKeeps, CheckKeeps, FillKeeps, DecodeKeeps DEF Records!Next
  <2>2. CASE call # "record" /\ call' = call
    BY <2>2 DEF RecordInv
  <2>3. CASE UNCHANGED vars
    BY <2>3 DEF vars, recordVars, RecordInv, Records!Records
  <2>. QED BY <2>1, <2>2, <2>3 DEF Next
<1>. QED BY <1>1, <1>2, PTL DEF Spec

\* The shim stays inside Python's array, with any library's idea of a record.
THEOREM ArraysAreLargeEnough == Spec => []StaysInArray
<1>1. RecordInv => StaysInArray
  BY DEF RecordInv, StaysInArray, Records!StaysInArray
<1>. QED BY <1>1, RecordInvariance, PTL

-----------------------------------------------------------------------------
(* Addresses as text *)

HexDigits == {"0", "1", "2", "3", "4", "5", "6", "7", "8", "9", "a", "b", "c", "d", "e", "f"}
Characters == HexDigits \cup {".", ":"}

\* Different numbers have different digits.
LEMMA DigitProperties ==
  /\ \A n \in 0 .. 15 : Records!Digit(n) \in HexDigits
  /\ \A m, n \in 0 .. 15 : Records!Digit(m) = Records!Digit(n) => m = n
<1>1. /\ Records!Digit(0) = "0" /\ Records!Digit(1) = "1" /\ Records!Digit(2) = "2" /\ Records!Digit(3) = "3"
      /\ Records!Digit(4) = "4" /\ Records!Digit(5) = "5" /\ Records!Digit(6) = "6" /\ Records!Digit(7) = "7"
      /\ Records!Digit(8) = "8" /\ Records!Digit(9) = "9" /\ Records!Digit(10) = "a" /\ Records!Digit(11) = "b"
      /\ Records!Digit(12) = "c" /\ Records!Digit(13) = "d" /\ Records!Digit(14) = "e" /\ Records!Digit(15) = "f"
  BY DEF Records!Digit, Records!Digits
<1>2. \A n \in 0 .. 15 : n \in {0, 1, 2, 3, 4, 5, 6, 7, 8, 9, 10, 11, 12, 13, 14, 15}
  OBVIOUS
<1>. QED BY <1>1, <1>2 DEF HexDigits

LEMMA ShortTexts ==
  ASSUME NEW S
  PROVE  /\ \A x \in S : <<x>> \in Seq(S) /\ Len(<<x>>) = 1
         /\ \A x, y \in S : <<x, y>> \in Seq(S) /\ Len(<<x, y>>) = 2
         /\ \A x, y, z \in S : <<x, y, z>> \in Seq(S) /\ Len(<<x, y, z>>) = 3
OBVIOUS

\* The decimal text of a byte: one to three digits, the number's own.
LEMMA DecimalProperties ==
  ASSUME NEW m \in 0 .. 255
  PROVE  /\ Records!Decimal(m) \in Seq(HexDigits)
         /\ Len(Records!Decimal(m)) = 1 \/ Len(Records!Decimal(m)) = 2 \/ Len(Records!Decimal(m)) = 3
         /\ \A n \in 0 .. 255 : Records!Decimal(m) = Records!Decimal(n) => m = n
<1> DEFINE D(x) == Records!Digit(x)
           One(n)   == \E x \in 0 .. 15 : n = x /\ Records!Decimal(n) = <<D(x)>>
           Two(n)   == \E x, y \in 0 .. 15 : n = 10 * x + y /\ Records!Decimal(n) = <<D(x), D(y)>>
           Three(n) == \E x, y, z \in 0 .. 15 :
                         n = 100 * x + 10 * y + z /\ Records!Decimal(n) = <<D(x), D(y), D(z)>>
<1>1. ASSUME NEW n \in 0 .. 255 PROVE One(n) \/ Two(n) \/ Three(n)
  <2>1. CASE n < 10
    <3>1. n \in 0 .. 15 /\ Records!Decimal(n) = <<D(n)>>
      BY <2>1 DEF Records!Decimal
    <3>. QED BY <3>1
  <2>2. CASE n >= 10 /\ n < 100
    <3>1. n \div 10 \in 0 .. 15 /\ n % 10 \in 0 .. 15 /\ n = 10 * (n \div 10) + (n % 10)
      BY <2>2
    <3>2. Records!Decimal(n) = <<D(n \div 10), D(n % 10)>>
      BY <2>2 DEF Records!Decimal
    <3>. QED BY <3>1, <3>2
  <2>3. CASE n >= 100
    <3>1. /\ n \div 100 \in 0 .. 15 /\ (n \div 10) % 10 \in 0 .. 15 /\ n % 10 \in 0 .. 15
          /\ n = 100 * (n \div 100) + 10 * ((n \div 10) % 10) + (n % 10)
      BY <2>3
    <3>2. Records!Decimal(n) = <<D(n \div 100), D((n \div 10) % 10), D(n % 10)>>
      BY <2>3 DEF Records!Decimal
    <3>. QED BY <3>1, <3>2
  <2>4. n < 10 \/ (n >= 10 /\ n < 100) \/ n >= 100
    OBVIOUS
  <2> HIDE DEF One, Two, Three
  <2>. QED BY ONLY <2>1, <2>2, <2>3, <2>4
<1>2. /\ \A x \in 0 .. 15 : D(x) \in HexDigits
      /\ \A x, y \in 0 .. 15 : D(x) = D(y) => x = y
  BY DigitProperties
<1> HIDE DEF D
<1>3. ASSUME NEW n \in 0 .. 255
      PROVE  /\ Records!Decimal(n) \in Seq(HexDigits)
             /\ One(n) => Len(Records!Decimal(n)) = 1
             /\ Two(n) => Len(Records!Decimal(n)) = 2
             /\ Three(n) => Len(Records!Decimal(n)) = 3
  <2>1. ASSUME One(n) PROVE Records!Decimal(n) \in Seq(HexDigits) /\ Len(Records!Decimal(n)) = 1
    <3>1. PICK x \in 0 .. 15 : Records!Decimal(n) = <<D(x)>>
      BY <2>1
    <3>2. D(x) \in HexDigits
      BY ONLY <1>2
    <3>3. <<D(x)>> \in Seq(HexDigits) /\ Len(<<D(x)>>) = 1
      BY ONLY <3>2, ShortTexts
    <3>. QED BY ONLY <3>1, <3>3
  <2>2. ASSUME Two(n) PROVE Records!Decimal(n) \in Seq(HexDigits) /\ Len(Records!Decimal(n)) = 2
    <3>1. PICK x, y \in 0 .. 15 : Records!Decimal(n) = <<D(x), D(y)>>
      BY <2>2
    <3>2. D(x) \in HexDigits /\ D(y) \in HexDigits
      BY ONLY <1>2
    <3>3. <<D(x), D(y)>> \in Seq(HexDigits) /\ Len(<<D(x), D(y)>>) = 2
      BY ONLY <3>2, ShortTexts
    <3>. QED BY ONLY <3>1, <3>3
  <2>3. ASSUME Three(n) PROVE Records!Decimal(n) \in Seq(HexDigits) /\ Len(Records!Decimal(n)) = 3
    <3>1. PICK x, y, z \in 0 .. 15 : Records!Decimal(n) = <<D(x), D(y), D(z)>>
      BY <2>3
    <3>2. D(x) \in HexDigits /\ D(y) \in HexDigits /\ D(z) \in HexDigits
      BY ONLY <1>2
    <3>3. <<D(x), D(y), D(z)>> \in Seq(HexDigits) /\ Len(<<D(x), D(y), D(z)>>) = 3
      BY ONLY <3>2, ShortTexts
    <3>. QED BY ONLY <3>1, <3>3
  <2> HIDE DEF One, Two, Three
  <2>. QED BY <1>1, <2>1, <2>2, <2>3
<1>4. ASSUME NEW n \in 0 .. 255, Records!Decimal(m) = Records!Decimal(n) PROVE m = n
  <2>1. CASE One(m) /\ One(n)
    BY ONLY <1>2, <1>4, <2>1
  <2>2. CASE Two(m) /\ Two(n)
    BY ONLY <1>2, <1>4, <2>2
  <2>3. CASE Three(m) /\ Three(n)
    BY ONLY <1>2, <1>4, <2>3
  <2> HIDE DEF One, Two, Three
  <2>4. (One(m) \/ Two(m) \/ Three(m)) /\ (One(n) \/ Two(n) \/ Three(n))
    BY ONLY <1>1, m \in 0 .. 255, n \in 0 .. 255
  <2>5. /\ One(m) => Len(Records!Decimal(m)) = 1
        /\ Two(m) => Len(Records!Decimal(m)) = 2
        /\ Three(m) => Len(Records!Decimal(m)) = 3
        /\ One(n) => Len(Records!Decimal(m)) = 1
        /\ Two(n) => Len(Records!Decimal(m)) = 2
        /\ Three(n) => Len(Records!Decimal(m)) = 3
    BY ONLY <1>3, <1>4, m \in 0 .. 255, n \in 0 .. 255
  <2>. QED BY ONLY <2>1, <2>2, <2>3, <2>4, <2>5
<1> HIDE DEF One, Two, Three
<1>5. Len(Records!Decimal(m)) = 1 \/ Len(Records!Decimal(m)) = 2 \/ Len(Records!Decimal(m)) = 3
  <2>1. One(m) \/ Two(m) \/ Three(m)
    BY ONLY <1>1, m \in 0 .. 255
  <2>2. /\ One(m) => Len(Records!Decimal(m)) = 1
        /\ Two(m) => Len(Records!Decimal(m)) = 2
        /\ Three(m) => Len(Records!Decimal(m)) = 3
    BY ONLY <1>3, m \in 0 .. 255
  <2>. QED BY ONLY <2>1, <2>2
<1>. QED BY <1>3, <1>4, <1>5

\* The two digits of a byte of an IPv6 address.
LEMMA HexProperties ==
  ASSUME NEW m \in 0 .. 255
  PROVE  /\ Records!Hex(m) \in Seq(HexDigits) /\ Len(Records!Hex(m)) = 2
         /\ \A n \in 0 .. 255 : Records!Hex(m) = Records!Hex(n) => m = n
<1> DEFINE D(x) == Records!Digit(x)
           Two(n) == \E x, y \in 0 .. 15 : n = 16 * x + y /\ Records!Hex(n) = <<D(x), D(y)>>
<1>1. ASSUME NEW n \in 0 .. 255 PROVE Two(n)
  <2>1. n \div 16 \in 0 .. 15 /\ n % 16 \in 0 .. 15 /\ n = 16 * (n \div 16) + (n % 16)
    OBVIOUS
  <2>2. Records!Hex(n) = <<D(n \div 16), D(n % 16)>>
    BY DEF Records!Hex
  <2>. QED BY <2>1, <2>2
<1>2. /\ \A x \in 0 .. 15 : D(x) \in HexDigits
      /\ \A x, y \in 0 .. 15 : D(x) = D(y) => x = y
  BY DigitProperties
<1> HIDE DEF D
<1>3. Records!Hex(m) \in Seq(HexDigits) /\ Len(Records!Hex(m)) = 2
  <2>1. PICK x, y \in 0 .. 15 : Records!Hex(m) = <<D(x), D(y)>>
    BY <1>1
  <2>2. D(x) \in HexDigits /\ D(y) \in HexDigits
    BY ONLY <1>2
  <2>3. <<D(x), D(y)>> \in Seq(HexDigits) /\ Len(<<D(x), D(y)>>) = 2
    BY ONLY <2>2, ShortTexts
  <2>. QED BY ONLY <2>1, <2>3
<1>4. ASSUME NEW n \in 0 .. 255, Records!Hex(m) = Records!Hex(n) PROVE m = n
  <2>1. PICK x, y \in 0 .. 15 : m = 16 * x + y /\ Records!Hex(m) = <<D(x), D(y)>>
    BY <1>1
  <2>2. PICK v, w \in 0 .. 15 : n = 16 * v + w /\ Records!Hex(n) = <<D(v), D(w)>>
    BY <1>1
  <2>3. D(x) = D(v) /\ D(y) = D(w)
    BY ONLY <1>4, <2>1, <2>2
  <2>. QED BY ONLY <1>2, <2>1, <2>2, <2>3
<1>. QED BY <1>3, <1>4

\* Two texts that are equal agree part by part when their ends are of one length.
LEMMA SplitAtLength ==
  ASSUME NEW S
  PROVE  \A a, b, d, e \in Seq(S) : a \o d = b \o e /\ Len(d) = Len(e) => a = b /\ d = e
<1> SUFFICES ASSUME NEW a \in Seq(S), NEW b \in Seq(S), NEW d \in Seq(S), NEW e \in Seq(S),
                    a \o d = b \o e, Len(d) = Len(e)
             PROVE  a = b /\ d = e
  BY ZenonT(40)
<1>1. /\ Len(a \o d) = Len(a) + Len(d) /\ Len(b \o e) = Len(b) + Len(e)
      /\ \A i \in 1 .. Len(a) + Len(d) : (a \o d)[i] = IF i <= Len(a) THEN a[i] ELSE d[i - Len(a)]
      /\ \A i \in 1 .. Len(b) + Len(e) : (b \o e)[i] = IF i <= Len(b) THEN b[i] ELSE e[i - Len(b)]
  BY ConcatProperties
<1>2. Len(a) \in Nat /\ Len(b) \in Nat /\ Len(d) \in Nat
  OBVIOUS
<1>3. Len(a) = Len(b)
  BY ONLY <1>1, <1>2, a \o d = b \o e, Len(d) = Len(e)
<1>4. \A i \in 1 .. Len(a) : a[i] = b[i]
  BY ONLY <1>1, <1>2, <1>3, a \o d = b \o e, Len(d) = Len(e)
<1>5. \A i \in 1 .. Len(d) : d[i] = e[i]
  <2> TAKE i \in 1 .. Len(d)
  <2>1. Len(a) + i \in 1 .. Len(a) + Len(d) /\ ~(Len(a) + i <= Len(a)) /\ Len(a) + i - Len(a) = i
    BY ONLY <1>2, i \in 1 .. Len(d)
  <2>. QED BY ONLY <1>1, <1>2, <1>3, <2>1, a \o d = b \o e, Len(d) = Len(e)
<1>6. a = b
  BY ONLY a \in Seq(S), b \in Seq(S), <1>3, <1>4, SMTT(30)
<1>7. d = e
  BY ONLY d \in Seq(S), e \in Seq(S), <1>5, Len(d) = Len(e), SMTT(30)
<1>. QED BY <1>6, <1>7

\* They do so as well when each beginning ends with a mark that the ends do not have.
LEMMA SplitAtMark ==
  ASSUME NEW S, NEW mark
  PROVE  \A a, b \in Seq(S) : \A d, e \in Seq(S \ {mark}) :
           /\ a # <<>> /\ a[Len(a)] = mark
           /\ b # <<>> /\ b[Len(b)] = mark
           /\ a \o d = b \o e
           => a = b /\ d = e
<1> SUFFICES ASSUME NEW a \in Seq(S), NEW b \in Seq(S), NEW d \in Seq(S \ {mark}), NEW e \in Seq(S \ {mark}),
                    a # <<>>, a[Len(a)] = mark, b # <<>>, b[Len(b)] = mark, a \o d = b \o e
             PROVE  a = b /\ d = e
  BY ZenonT(40)
<1>1. /\ d \in Seq(S) /\ e \in Seq(S)
      /\ \A i \in 1 .. Len(d) : d[i] # mark
      /\ \A i \in 1 .. Len(e) : e[i] # mark
  OBVIOUS
<1>2. Len(a) \in Nat \ {0} /\ Len(b) \in Nat \ {0} /\ Len(d) \in Nat /\ Len(e) \in Nat
  OBVIOUS
<1>3. /\ Len(a \o d) = Len(a) + Len(d) /\ Len(b \o e) = Len(b) + Len(e)
      /\ \A i \in 1 .. Len(a) + Len(d) : (a \o d)[i] = IF i <= Len(a) THEN a[i] ELSE d[i - Len(a)]
      /\ \A i \in 1 .. Len(b) + Len(e) : (b \o e)[i] = IF i <= Len(b) THEN b[i] ELSE e[i - Len(b)]
  BY <1>1, ConcatProperties
<1>4. Len(a) + Len(d) = Len(b) + Len(e)
  BY ONLY <1>3, a \o d = b \o e
<1>5. ~(Len(a) > Len(b))
  <2> SUFFICES ASSUME Len(a) > Len(b) PROVE FALSE
    OBVIOUS
  <2>1. /\ Len(a) \in 1 .. Len(a) + Len(d) /\ Len(a) <= Len(a)
        /\ Len(a) \in 1 .. Len(b) + Len(e) /\ ~(Len(a) <= Len(b)) /\ Len(a) - Len(b) \in 1 .. Len(e)
    BY ONLY <1>2, <1>4, Len(a) > Len(b)
  <2>2. (a \o d)[Len(a)] = mark
    BY ONLY <1>3, <2>1, a[Len(a)] = mark
  <2>3. (b \o e)[Len(a)] = e[Len(a) - Len(b)]
    BY ONLY <1>3, <2>1
  <2>. QED BY ONLY <1>1, <2>1, <2>2, <2>3, a \o d = b \o e
<1>6. ~(Len(b) > Len(a))
  <2> SUFFICES ASSUME Len(b) > Len(a) PROVE FALSE
    OBVIOUS
  <2>1. /\ Len(b) \in 1 .. Len(b) + Len(e) /\ Len(b) <= Len(b)
        /\ Len(b) \in 1 .. Len(a) + Len(d) /\ ~(Len(b) <= Len(a)) /\ Len(b) - Len(a) \in 1 .. Len(d)
    BY ONLY <1>2, <1>4, Len(b) > Len(a)
  <2>2. (b \o e)[Len(b)] = mark
    BY ONLY <1>3, <2>1, b[Len(b)] = mark
  <2>3. (a \o d)[Len(b)] = d[Len(b) - Len(a)]
    BY ONLY <1>3, <2>1
  <2>. QED BY ONLY <1>1, <2>1, <2>2, <2>3, a \o d = b \o e
<1>7. Len(d) = Len(e)
  BY ONLY <1>2, <1>4, <1>5, <1>6
<1>8. a \o d = b \o e /\ Len(d) = Len(e) => a = b /\ d = e
  BY ONLY <1>1, a \in Seq(S), b \in Seq(S), SplitAtLength, Zenon
<1>. QED BY ONLY <1>7, <1>8, a \o d = b \o e, Zenon

Bytes == 0 .. 255
Dotted(p) == p \o <<".">>

LEMMA DottedProperties ==
  ASSUME NEW p \in Seq(Characters)
  PROVE  /\ Dotted(p) \in Seq(Characters) /\ Len(Dotted(p)) = Len(p) + 1
         /\ Dotted(p) # <<>> /\ Dotted(p)[Len(Dotted(p))] = "."
         /\ \A q \in Seq(Characters) : Dotted(p) = Dotted(q) => p = q
<1>1. "." \in Characters /\ <<".">> \in Seq(Characters) /\ Len(<<".">>) = 1 /\ Len(p) \in Nat
  BY DEF Characters
<1>2. /\ Dotted(p) \in Seq(Characters) /\ Len(Dotted(p)) = Len(p) + 1 /\ Dotted(p)[Len(p) + 1] = "."
  BY <1>1 DEF Dotted
<1>3. Dotted(p) # <<>> /\ Dotted(p)[Len(Dotted(p))] = "."
  <2>1. Len(Dotted(p)) \in Nat \ {0}
    BY ONLY <1>1, <1>2
  <2>. QED BY ONLY <1>2, <2>1
<1>4. ASSUME NEW q \in Seq(Characters), Dotted(p) = Dotted(q) PROVE p = q
  <2>1. p \o <<".">> = q \o <<".">> /\ Len(<<".">>) = Len(<<".">>) => p = q /\ <<".">> = <<".">>
    BY ONLY <1>1, p \in Seq(Characters), q \in Seq(Characters), SplitAtLength, Zenon
  <2>. QED BY ONLY <1>4, <2>1, Zenon DEF Dotted
<1>. QED BY <1>2, <1>3, <1>4

\* The decimal text of a byte has no dot.
LEMMA DecimalText ==
  ASSUME NEW n \in Bytes
  PROVE  /\ Records!Decimal(n) \in Seq(Characters)
         /\ Len(Records!Decimal(n)) \in Nat /\ Len(Records!Decimal(n)) >= 1 /\ Len(Records!Decimal(n)) <= 3
         /\ Records!Decimal(n) \in Seq(Characters \ {"."})
<1>1. /\ Records!Decimal(n) \in Seq(HexDigits)
      /\ Len(Records!Decimal(n)) = 1 \/ Len(Records!Decimal(n)) = 2 \/ Len(Records!Decimal(n)) = 3
  BY DecimalProperties DEF Bytes
<1>2. HexDigits \subseteq Characters \ {"."}
  BY DEF HexDigits, Characters
<1> DEFINE d == Records!Decimal(n)
<1> HIDE DEF d
<1>3. d \in Seq(HexDigits) /\ (Len(d) = 1 \/ Len(d) = 2 \/ Len(d) = 3)
  BY <1>1 DEF d
<1>4. Len(d) \in Nat /\ Len(d) >= 1 /\ Len(d) <= 3
  <2>1. CASE Len(d) = 1
    BY ONLY <2>1
  <2>2. CASE Len(d) = 2
    BY ONLY <2>2
  <2>3. CASE Len(d) = 3
    BY ONLY <2>3
  <2>. QED BY ONLY <1>3, <2>1, <2>2, <2>3
<1>5. d \in Seq(Characters) /\ d \in Seq(Characters \ {"."})
  BY ONLY <1>2, <1>3
<1>. QED BY <1>4, <1>5 DEF d

\* What ends in a byte after dots tells the byte and what comes before.
LEMMA DottedTells ==
  ASSUME NEW p \in Seq(Characters), NEW q \in Seq(Characters), NEW m \in Bytes, NEW n \in Bytes,
         p # <<>>, p[Len(p)] = ".", q # <<>>, q[Len(q)] = ".",
         p \o Records!Decimal(m) = q \o Records!Decimal(n)
  PROVE  p = q /\ m = n
<1> DEFINE d == Records!Decimal(m)
           e == Records!Decimal(n)
<1>1. d \in Seq(Characters \ {"."}) /\ e \in Seq(Characters \ {"."})
  BY DecimalText
<1> HIDE DEF d, e
<1>2. p \o d = q \o e
  BY DEF d, e
<1>3. /\ p # <<>> /\ p[Len(p)] = "." /\ q # <<>> /\ q[Len(q)] = "." /\ p \o d = q \o e => p = q /\ d = e
  BY ONLY <1>1, p \in Seq(Characters), q \in Seq(Characters), SplitAtMark, Zenon
<1>4. p = q /\ d = e
  BY <1>2, <1>3, Zenon
<1>. QED BY <1>4, DecimalProperties DEF d, e, Bytes

\* What is printed of a text that fits is the text.
LEMMA PrintedWhole ==
  ASSUME NEW text \in Seq(Characters), NEW room \in Nat, Len(text) < room
  PROVE  Records!Printed(text, room) = text
<1>1. Len(text) \in Int /\ room - 1 \in Int /\ Len(text) <= room - 1
  OBVIOUS
<1>2. Records!Min({Len(text), room - 1}) = Len(text)
  BY ONLY <1>1 DEF Records!Min
<1>3. SubSeq(text, 1, Len(text)) = text
  OBVIOUS
<1>. QED BY <1>2, <1>3 DEF Records!Printed

\* The numbers of an IPv4 address, one more at a time.
Dotted1(o) == Dotted(Records!Decimal(o[1]))
Dotted2(o) == Dotted(Dotted1(o) \o Records!Decimal(o[2]))
Dotted3(o) == Dotted(Dotted2(o) \o Records!Decimal(o[3]))
Dotted4(o) == Dotted3(o) \o Records!Decimal(o[4])

LEMMA JoinProperties ==
  ASSUME NEW S
  PROVE  \A p, q \in Seq(S) : /\ p \o q \in Seq(S) /\ Len(p \o q) = Len(p) + Len(q)
                              /\ \A i \in 1 .. Len(p) : (p \o q)[i] = p[i]
OBVIOUS

IsDotted(p) == p \in Seq(Characters) /\ p # <<>> /\ p[Len(p)] = "."

LEMMA DottedTypes ==
  ASSUME NEW o \in [1 .. 4 -> Bytes]
  PROVE  /\ IsDotted(Dotted1(o)) /\ IsDotted(Dotted2(o)) /\ IsDotted(Dotted3(o))
         /\ Dotted4(o) \in Seq(Characters) /\ Len(Dotted4(o)) \in Nat /\ Len(Dotted4(o)) <= 15
         /\ \E i \in 1 .. Len(Dotted4(o)) : Dotted4(o)[i] = "."
<1> DEFINE D(n) == Records!Decimal(n)
<1>1. o[1] \in Bytes /\ o[2] \in Bytes /\ o[3] \in Bytes /\ o[4] \in Bytes
  OBVIOUS
<1>2. ASSUME NEW k \in 1 .. 4
      PROVE  /\ D(o[k]) \in Seq(Characters)
             /\ Len(D(o[k])) \in Nat /\ Len(D(o[k])) >= 1 /\ Len(D(o[k])) <= 3
  BY DecimalText
<1> HIDE DEF D
<1>3. ASSUME NEW p \in Seq(Characters), NEW k \in 1 .. 4, NEW lo \in Nat, NEW hi \in Nat,
             lo <= Len(p), Len(p) <= hi, NEW r, r = Dotted(p \o D(o[k]))
      PROVE  IsDotted(r) /\ Len(r) \in Nat /\ lo + 2 <= Len(r) /\ Len(r) <= hi + 4
  <2> DEFINE d == D(o[k])
             whole == p \o d
  <2>1. /\ d \in Seq(Characters) /\ Len(d) \in Nat /\ Len(d) >= 1 /\ Len(d) <= 3 /\ Len(p) \in Nat
    BY <1>2
  <2> HIDE DEF d
  <2>2. whole \in Seq(Characters) /\ Len(whole) = Len(p) + Len(d) /\ Len(whole) \in Nat
    BY <2>1, JoinProperties
  <2> HIDE DEF whole
  <2>3. r = Dotted(whole)
    BY <1>3 DEF d, whole
  <2>4. IsDotted(r) /\ Len(r) = Len(whole) + 1 /\ Len(r) \in Nat
    BY <2>2, <2>3, DottedProperties DEF IsDotted
  <2>5. lo + 2 <= Len(r) /\ Len(r) <= hi + 4
    BY ONLY lo \in Nat, hi \in Nat, lo <= Len(p), Len(p) <= hi, <2>1, <2>2, <2>4
  <2>. QED BY <2>4, <2>5
<1>4. IsDotted(Dotted1(o)) /\ Len(Dotted1(o)) \in Nat /\ 2 <= Len(Dotted1(o)) /\ Len(Dotted1(o)) <= 4
  <2>1. <<>> \in Seq(Characters) /\ Len(<<>>) = 0
    OBVIOUS
  <2>2. <<>> \o D(o[1]) = D(o[1])
    BY <1>2
  <2>3. Dotted1(o) = Dotted(<<>> \o D(o[1]))
    BY <2>2, Zenon DEF Dotted1, D
  <2>4. /\ IsDotted(Dotted1(o)) /\ Len(Dotted1(o)) \in Nat
        /\ 0 + 2 <= Len(Dotted1(o)) /\ Len(Dotted1(o)) <= 0 + 4
    <3>1. 1 \in 1 .. 4 /\ 0 \in Nat /\ 4 - 4 = 0 /\ 0 <= Len(<<>>) /\ Len(<<>>) <= 0
      BY <2>1
    <3>. QED BY ONLY <1>3, <2>1, <2>3, <3>1
  <2>. QED BY ONLY <2>4
<1>5. IsDotted(Dotted2(o)) /\ Len(Dotted2(o)) \in Nat /\ 4 <= Len(Dotted2(o)) /\ Len(Dotted2(o)) <= 8
  <2>1. Dotted1(o) \in Seq(Characters) /\ Dotted2(o) = Dotted(Dotted1(o) \o D(o[2]))
    BY <1>4, Zenon DEF Dotted2, IsDotted, D
  <2>. QED BY ONLY <1>3, <1>4, <2>1
<1>6. IsDotted(Dotted3(o)) /\ Len(Dotted3(o)) \in Nat /\ 6 <= Len(Dotted3(o)) /\ Len(Dotted3(o)) <= 12
  <2>1. Dotted2(o) \in Seq(Characters) /\ Dotted3(o) = Dotted(Dotted2(o) \o D(o[3]))
    BY <1>5, Zenon DEF Dotted3, IsDotted, D
  <2>. QED BY ONLY <1>3, <1>5, <2>1
<1>7. /\ Dotted4(o) \in Seq(Characters) /\ Len(Dotted4(o)) \in Nat /\ Len(Dotted4(o)) <= 15
      /\ \E i \in 1 .. Len(Dotted4(o)) : Dotted4(o)[i] = "."
  <2> DEFINE p == Dotted3(o)
             d == D(o[4])
             whole == p \o d
  <2>1. p \in Seq(Characters) /\ p[Len(p)] = "." /\ Len(p) \in Nat /\ 6 <= Len(p) /\ Len(p) <= 12
    BY <1>6 DEF IsDotted
  <2>2. d \in Seq(Characters) /\ Len(d) \in Nat /\ Len(d) >= 1 /\ Len(d) <= 3
    BY <1>2
  <2> HIDE DEF p, d
  <2>3. whole \in Seq(Characters) /\ Len(whole) = Len(p) + Len(d) /\ \A i \in 1 .. Len(p) : whole[i] = p[i]
    BY ONLY <2>1, <2>2, JoinProperties
  <2>4. Dotted4(o) = whole
    BY Zenon DEF Dotted4, D, p, d
  <2> HIDE DEF whole
  <2>5. Len(p) \in 1 .. Len(whole) /\ Len(whole) <= 15 /\ Len(whole) \in Nat /\ whole[Len(p)] = "."
    <3>1. Len(whole) = Len(p) + Len(d)
      BY ONLY <2>3
    <3>2. Len(p) \in Nat /\ 6 <= Len(p) /\ Len(p) <= 12 /\ Len(d) \in Nat /\ Len(d) >= 1 /\ Len(d) <= 3
      BY ONLY <2>1, <2>2
    <3>3. Len(p) \in 1 .. Len(whole) /\ Len(whole) <= 15 /\ Len(whole) \in Nat /\ Len(p) \in 1 .. Len(p)
      BY ONLY <3>1, <3>2
    <3>. QED BY ONLY <2>1, <2>3, <3>3
  <2>. QED BY ONLY <2>3, <2>4, <2>5
<1>. QED BY ONLY <1>4, <1>5, <1>6, <1>7

\* The same, with the dot after the byte or without it.
LEMMA DottedByteTells ==
  ASSUME NEW p, NEW q, IsDotted(p), IsDotted(q), NEW m \in Bytes, NEW n \in Bytes
  PROVE  /\ p \o Records!Decimal(m) = q \o Records!Decimal(n) => p = q /\ m = n
         /\ Dotted(p \o Records!Decimal(m)) = Dotted(q \o Records!Decimal(n)) => p = q /\ m = n
<1>1. p \o Records!Decimal(m) = q \o Records!Decimal(n) => p = q /\ m = n
  BY DottedTells, Zenon DEF IsDotted
<1>2. p \o Records!Decimal(m) \in Seq(Characters) /\ q \o Records!Decimal(n) \in Seq(Characters)
  BY DecimalText, JoinProperties DEF IsDotted
<1>3. Dotted(p \o Records!Decimal(m)) = Dotted(q \o Records!Decimal(n))
        => p \o Records!Decimal(m) = q \o Records!Decimal(n)
  BY ONLY <1>2, DottedProperties, Zenon
<1>. QED BY ONLY <1>1, <1>3, Zenon

\* An IPv4 address has a text of its own.
LEMMA DottedDiffer ==
  ASSUME NEW o \in [1 .. 4 -> Bytes], NEW x \in [1 .. 4 -> Bytes], Dotted4(o) = Dotted4(x)
  PROVE  o = x
<1>1. /\ o[1] \in Bytes /\ o[2] \in Bytes /\ o[3] \in Bytes /\ o[4] \in Bytes
      /\ x[1] \in Bytes /\ x[2] \in Bytes /\ x[3] \in Bytes /\ x[4] \in Bytes
  OBVIOUS
<1>2. /\ IsDotted(Dotted1(o)) /\ IsDotted(Dotted2(o)) /\ IsDotted(Dotted3(o))
      /\ IsDotted(Dotted1(x)) /\ IsDotted(Dotted2(x)) /\ IsDotted(Dotted3(x))
  BY DottedTypes
<1>4. Dotted3(o) = Dotted3(x) /\ o[4] = x[4]
  <2> DEFINE p == Dotted3(o)
             q == Dotted3(x)
             m == o[4]
             n == x[4]
  <2>1. IsDotted(p) /\ IsDotted(q) /\ m \in Bytes /\ n \in Bytes
    BY ONLY <1>1, <1>2
  <2>2. p \o Records!Decimal(m) = q \o Records!Decimal(n)
    BY Zenon DEF Dotted4
  <2> HIDE DEF p, q, m, n
  <2>3. p \o Records!Decimal(m) = q \o Records!Decimal(n) => p = q /\ m = n
    BY ONLY <2>1, DottedByteTells, Zenon
  <2>. QED BY <2>2, <2>3, Zenon DEF p, q, m, n
<1>5. Dotted2(o) = Dotted2(x) /\ o[3] = x[3]
  <2> DEFINE p == Dotted2(o)
             q == Dotted2(x)
             m == o[3]
             n == x[3]
  <2>1. IsDotted(p) /\ IsDotted(q) /\ m \in Bytes /\ n \in Bytes
    BY ONLY <1>1, <1>2
  <2>2. Dotted(p \o Records!Decimal(m)) = Dotted(q \o Records!Decimal(n))
    BY <1>4, Zenon DEF Dotted3
  <2> HIDE DEF p, q, m, n
  <2>3. Dotted(p \o Records!Decimal(m)) = Dotted(q \o Records!Decimal(n)) => p = q /\ m = n
    BY ONLY <2>1, DottedByteTells, Zenon
  <2>. QED BY <2>2, <2>3, Zenon DEF p, q, m, n
<1>6. Dotted1(o) = Dotted1(x) /\ o[2] = x[2]
  <2> DEFINE p == Dotted1(o)
             q == Dotted1(x)
             m == o[2]
             n == x[2]
  <2>1. IsDotted(p) /\ IsDotted(q) /\ m \in Bytes /\ n \in Bytes
    BY ONLY <1>1, <1>2
  <2>2. Dotted(p \o Records!Decimal(m)) = Dotted(q \o Records!Decimal(n))
    BY <1>5, Zenon DEF Dotted2
  <2> HIDE DEF p, q, m, n
  <2>3. Dotted(p \o Records!Decimal(m)) = Dotted(q \o Records!Decimal(n)) => p = q /\ m = n
    BY ONLY <2>1, DottedByteTells, Zenon
  <2>. QED BY <2>2, <2>3, Zenon DEF p, q, m, n
<1>7. o[1] = x[1]
  <2>1. Records!Decimal(o[1]) \in Seq(Characters) /\ Records!Decimal(x[1]) \in Seq(Characters)
    BY <1>1, DecimalText
  <2>2. Records!Decimal(o[1]) = Records!Decimal(x[1])
    BY <1>6, <2>1, DottedProperties, Zenon DEF Dotted1
  <2>. QED BY <1>1, <2>2, DecimalProperties DEF Bytes
<1>. QED BY <1>4, <1>5, <1>6, <1>7

\* The text of an IPv4 address.
LEMMA Ip4Text ==
  ASSUME NEW o \in [1 .. 4 -> Bytes]
  PROVE  Records!ipv4_to_string(o) = Dotted4(o)
<1>1. Dotted4(o) \in Seq(Characters) /\ Len(Dotted4(o)) <= 15 /\ Len(Dotted4(o)) \in Nat
  BY DottedTypes
<1>2. Records!ipv4_to_string(o) = Records!Printed(Dotted4(o), 32)
  BY Zenon DEF Records!ipv4_to_string, Dotted4, Dotted3, Dotted2, Dotted1, Dotted
<1>3. Len(Dotted4(o)) < 32 /\ 32 \in Nat
  BY ONLY <1>1
<1>. QED BY <1>1, <1>2, <1>3, PrintedWhole


Octet4  == [1 .. 4 -> Bytes]
Octet16 == [1 .. 16 -> Bytes]
Plain   == HexDigits \cup {":"}

\* A group of an IPv6 address, and with the colon before it.
Group(m, n) == Records!Hex(m) \o Records!Hex(n)
Colon(m, n) == <<":">> \o Group(m, n)

LEMMA GroupProperties ==
  ASSUME NEW m \in Bytes, NEW n \in Bytes
  PROVE  /\ Group(m, n) \in Seq(Plain) /\ Len(Group(m, n)) = 4
         /\ Colon(m, n) \in Seq(Plain) /\ Len(Colon(m, n)) = 5
<1> DEFINE a == Records!Hex(m)
           b == Records!Hex(n)
<1>1. a \in Seq(HexDigits) /\ Len(a) = 2 /\ b \in Seq(HexDigits) /\ Len(b) = 2
  BY HexProperties DEF Bytes
<1> HIDE DEF a, b
<1>2. a \in Seq(Plain) /\ b \in Seq(Plain) /\ <<":">> \in Seq(Plain) /\ Len(<<":">>) = 1
  BY <1>1 DEF Plain
<1>3. a \o b \in Seq(Plain) /\ Len(a \o b) = 4
  <2>1. a \o b \in Seq(Plain) /\ Len(a \o b) = Len(a) + Len(b)
    BY ONLY <1>2, JoinProperties, Zenon
  <2>. QED BY ONLY <1>1, <2>1
<1>4. Group(m, n) \in Seq(Plain) /\ Len(Group(m, n)) = 4
  BY <1>3 DEF Group, a, b
<1> DEFINE g == Group(m, n)
<1> HIDE DEF g
<1>5. g \in Seq(Plain) /\ Len(g) = 4
  BY <1>4 DEF g
<1> DEFINE c == <<":">>
<1>6. c \in Seq(Plain) /\ Len(c) = 1
  BY <1>2
<1> HIDE DEF c
<1>7. c \o g \in Seq(Plain) /\ Len(c \o g) = 5
  <2>1. c \o g \in Seq(Plain) /\ Len(c \o g) = Len(c) + Len(g)
    BY ONLY <1>5, <1>6, JoinProperties, Zenon
  <2>. QED BY ONLY <1>5, <1>6, <2>1
<1>. QED BY <1>4, <1>7 DEF Colon, c, g

LEMMA GroupsDiffer ==
  ASSUME NEW m \in Bytes, NEW n \in Bytes, NEW v \in Bytes, NEW w \in Bytes
  PROVE  /\ Group(m, n) = Group(v, w) => m = v /\ n = w
         /\ Colon(m, n) = Colon(v, w) => m = v /\ n = w
<1>1. /\ Records!Hex(m) \in Seq(Plain) /\ Records!Hex(n) \in Seq(Plain)
      /\ Records!Hex(v) \in Seq(Plain) /\ Records!Hex(w) \in Seq(Plain)
      /\ Len(Records!Hex(n)) = Len(Records!Hex(w))
  <2>1. ASSUME NEW k \in Bytes PROVE Records!Hex(k) \in Seq(Plain) /\ Len(Records!Hex(k)) = 2
    <3>1. Records!Hex(k) \in Seq(HexDigits) /\ Len(Records!Hex(k)) = 2
      BY HexProperties DEF Bytes
    <3>. QED BY <3>1 DEF Plain
  <2>. QED BY <2>1
<1>2. /\ Records!Hex(m) \o Records!Hex(n) = Records!Hex(v) \o Records!Hex(w)
      /\ Len(Records!Hex(n)) = Len(Records!Hex(w))
      => Records!Hex(m) = Records!Hex(v) /\ Records!Hex(n) = Records!Hex(w)
  BY ONLY <1>1, SplitAtLength, Zenon
<1>3. /\ Records!Hex(m) = Records!Hex(v) => m = v
      /\ Records!Hex(n) = Records!Hex(w) => n = w
  BY HexProperties DEF Bytes
<1>4. Group(m, n) = Group(v, w) => m = v /\ n = w
  BY ONLY <1>1, <1>2, <1>3, Zenon DEF Group
<1>5. /\ <<":">> \in Seq(Plain) /\ Group(m, n) \in Seq(Plain) /\ Group(v, w) \in Seq(Plain)
      /\ Len(Group(m, n)) = Len(Group(v, w))
  BY GroupProperties DEF Plain
<1>6. /\ <<":">> \o Group(m, n) = <<":">> \o Group(v, w) /\ Len(Group(m, n)) = Len(Group(v, w))
      => <<":">> = <<":">> /\ Group(m, n) = Group(v, w)
  BY ONLY <1>5, SplitAtLength, Zenon
<1>7. Colon(m, n) = Colon(v, w) => Group(m, n) = Group(v, w)
  BY ONLY <1>5, <1>6, Zenon DEF Colon
<1>. QED BY ONLY <1>4, <1>7, Zenon

LEMMA ColonGrows ==
  ASSUME NEW p \in Seq(Plain), NEW m \in Bytes, NEW n \in Bytes, NEW long \in Nat, Len(p) = long
  PROVE  p \o Colon(m, n) \in Seq(Plain) /\ Len(p \o Colon(m, n)) = long + 5
<1> DEFINE c == Colon(m, n)
<1>1. c \in Seq(Plain) /\ Len(c) = 5
  BY GroupProperties
<1> HIDE DEF c
<1>2. p \o c \in Seq(Plain) /\ Len(p \o c) = Len(p) + Len(c)
  BY ONLY <1>1, p \in Seq(Plain), JoinProperties, Zenon
<1>3. Len(p \o c) = long + 5
  BY ONLY <1>1, <1>2, Len(p) = long
<1>. QED BY <1>2, <1>3 DEF c

\* The groups of an IPv6 address, one more at a time.
Groups1(o) == Group(o[1], o[2])
Groups2(o) == Groups1(o) \o Colon(o[3], o[4])
Groups3(o) == Groups2(o) \o Colon(o[5], o[6])
Groups4(o) == Groups3(o) \o Colon(o[7], o[8])
Groups5(o) == Groups4(o) \o Colon(o[9], o[10])
Groups6(o) == Groups5(o) \o Colon(o[11], o[12])
Groups7(o) == Groups6(o) \o Colon(o[13], o[14])
Groups8(o) == Groups7(o) \o Colon(o[15], o[16])

LEMMA GroupsTypes ==
  ASSUME NEW o \in Octet16
  PROVE  /\ Groups1(o) \in Seq(Plain) /\ Len(Groups1(o)) = 4
         /\ Groups2(o) \in Seq(Plain) /\ Len(Groups2(o)) = 9
         /\ Groups3(o) \in Seq(Plain) /\ Len(Groups3(o)) = 14
         /\ Groups4(o) \in Seq(Plain) /\ Len(Groups4(o)) = 19
         /\ Groups5(o) \in Seq(Plain) /\ Len(Groups5(o)) = 24
         /\ Groups6(o) \in Seq(Plain) /\ Len(Groups6(o)) = 29
         /\ Groups7(o) \in Seq(Plain) /\ Len(Groups7(o)) = 34
         /\ Groups8(o) \in Seq(Plain) /\ Len(Groups8(o)) = 39
<1>1. \A k \in 1 .. 16 : o[k] \in Bytes
  BY DEF Octet16
<1>2. Groups1(o) \in Seq(Plain) /\ Len(Groups1(o)) = 4
  <2>1. o[1] \in Bytes /\ o[2] \in Bytes
    BY ONLY <1>1
  <2>. QED BY <2>1, GroupProperties, Zenon DEF Groups1
<1>3. Groups2(o) \in Seq(Plain) /\ Len(Groups2(o)) = 9
  <2>1. o[3] \in Bytes /\ o[4] \in Bytes /\ 4 \in Nat
    BY ONLY <1>1
  <2>2. Groups2(o) \in Seq(Plain) /\ Len(Groups2(o)) = 4 + 5
    BY ONLY <1>2, <2>1, ColonGrows, ZenonT(30) DEF Groups2
  <2>3. 4 + 5 = 9
    OBVIOUS
  <2>. QED BY ONLY <2>2, <2>3, Zenon
<1>4. Groups3(o) \in Seq(Plain) /\ Len(Groups3(o)) = 14
  <2>1. o[5] \in Bytes /\ o[6] \in Bytes /\ 9 \in Nat
    BY ONLY <1>1
  <2>2. Groups3(o) \in Seq(Plain) /\ Len(Groups3(o)) = 9 + 5
    BY ONLY <1>3, <2>1, ColonGrows, ZenonT(30) DEF Groups3
  <2>3. 9 + 5 = 14
    OBVIOUS
  <2>. QED BY ONLY <2>2, <2>3, Zenon
<1>5. Groups4(o) \in Seq(Plain) /\ Len(Groups4(o)) = 19
  <2>1. o[7] \in Bytes /\ o[8] \in Bytes /\ 14 \in Nat
    BY ONLY <1>1
  <2>2. Groups4(o) \in Seq(Plain) /\ Len(Groups4(o)) = 14 + 5
    BY ONLY <1>4, <2>1, ColonGrows, ZenonT(30) DEF Groups4
  <2>3. 14 + 5 = 19
    OBVIOUS
  <2>. QED BY ONLY <2>2, <2>3, Zenon
<1>6. Groups5(o) \in Seq(Plain) /\ Len(Groups5(o)) = 24
  <2>1. o[9] \in Bytes /\ o[10] \in Bytes /\ 19 \in Nat
    BY ONLY <1>1
  <2>2. Groups5(o) \in Seq(Plain) /\ Len(Groups5(o)) = 19 + 5
    BY ONLY <1>5, <2>1, ColonGrows, ZenonT(30) DEF Groups5
  <2>3. 19 + 5 = 24
    OBVIOUS
  <2>. QED BY ONLY <2>2, <2>3, Zenon
<1>7. Groups6(o) \in Seq(Plain) /\ Len(Groups6(o)) = 29
  <2>1. o[11] \in Bytes /\ o[12] \in Bytes /\ 24 \in Nat
    BY ONLY <1>1
  <2>2. Groups6(o) \in Seq(Plain) /\ Len(Groups6(o)) = 24 + 5
    BY ONLY <1>6, <2>1, ColonGrows, ZenonT(30) DEF Groups6
  <2>3. 24 + 5 = 29
    OBVIOUS
  <2>. QED BY ONLY <2>2, <2>3, Zenon
<1>8. Groups7(o) \in Seq(Plain) /\ Len(Groups7(o)) = 34
  <2>1. o[13] \in Bytes /\ o[14] \in Bytes /\ 29 \in Nat
    BY ONLY <1>1
  <2>2. Groups7(o) \in Seq(Plain) /\ Len(Groups7(o)) = 29 + 5
    BY ONLY <1>7, <2>1, ColonGrows, ZenonT(30) DEF Groups7
  <2>3. 29 + 5 = 34
    OBVIOUS
  <2>. QED BY ONLY <2>2, <2>3, Zenon
<1>9. Groups8(o) \in Seq(Plain) /\ Len(Groups8(o)) = 39
  <2>1. o[15] \in Bytes /\ o[16] \in Bytes /\ 34 \in Nat
    BY ONLY <1>1
  <2>2. Groups8(o) \in Seq(Plain) /\ Len(Groups8(o)) = 34 + 5
    BY ONLY <1>8, <2>1, ColonGrows, ZenonT(30) DEF Groups8
  <2>3. 34 + 5 = 39
    OBVIOUS
  <2>. QED BY ONLY <2>2, <2>3, Zenon
<1>. QED BY ONLY <1>2, <1>3, <1>4, <1>5, <1>6, <1>7, <1>8, <1>9

\* An IPv6 address has a text of its own.
LEMMA AddressGroupsDiffer ==
  ASSUME NEW o \in Octet16, NEW x \in Octet16, Groups8(o) = Groups8(x)
  PROVE  o = x
<1>1. /\ \A k \in 1 .. 16 : o[k] \in Bytes
      /\ \A k \in 1 .. 16 : x[k] \in Bytes
  BY DEF Octet16
<1>2. /\ Groups1(o) \in Seq(Plain) /\ Groups1(x) \in Seq(Plain)
      /\ Groups2(o) \in Seq(Plain) /\ Groups2(x) \in Seq(Plain)
      /\ Groups3(o) \in Seq(Plain) /\ Groups3(x) \in Seq(Plain)
      /\ Groups4(o) \in Seq(Plain) /\ Groups4(x) \in Seq(Plain)
      /\ Groups5(o) \in Seq(Plain) /\ Groups5(x) \in Seq(Plain)
      /\ Groups6(o) \in Seq(Plain) /\ Groups6(x) \in Seq(Plain)
      /\ Groups7(o) \in Seq(Plain) /\ Groups7(x) \in Seq(Plain)
  BY GroupsTypes
<1>3. Groups7(o) = Groups7(x) /\ o[15] = x[15] /\ o[16] = x[16]
  <2>1. o[15] \in Bytes /\ o[16] \in Bytes /\ x[15] \in Bytes /\ x[16] \in Bytes
    BY ONLY <1>1
  <2> DEFINE p == Groups7(o)
             q == Groups7(x)
             m == o[15]
             n == o[16]
             v == x[15]
             w == x[16]
  <2>2. p \in Seq(Plain) /\ q \in Seq(Plain) /\ m \in Bytes /\ n \in Bytes /\ v \in Bytes /\ w \in Bytes
    BY ONLY <1>2, <2>1
  <2>3. p \o Colon(m, n) = q \o Colon(v, w)
    BY Zenon DEF Groups8
  <2> HIDE DEF p, q, m, n, v, w
  <2> DEFINE c == Colon(m, n)
             d == Colon(v, w)
  <2>4. c \in Seq(Plain) /\ d \in Seq(Plain) /\ Len(c) = Len(d)
    BY ONLY <2>2, GroupProperties
  <2>5. c = d => m = v /\ n = w
    BY ONLY <2>2, GroupsDiffer, Zenon
  <2> HIDE DEF c, d
  <2>6. p \o c = q \o d /\ Len(c) = Len(d) => p = q /\ c = d
    BY ONLY <2>2, <2>4, SplitAtLength, Zenon
  <2>7. p \o c = q \o d
    BY <2>3, Zenon DEF c, d
  <2>8. p = q /\ m = v /\ n = w
    BY ONLY <2>4, <2>5, <2>6, <2>7, Zenon
  <2>. QED BY ONLY <2>8, Zenon DEF p, q, m, n, v, w
<1>4. Groups6(o) = Groups6(x) /\ o[13] = x[13] /\ o[14] = x[14]
  <2>1. o[13] \in Bytes /\ o[14] \in Bytes /\ x[13] \in Bytes /\ x[14] \in Bytes
    BY ONLY <1>1
  <2> DEFINE p == Groups6(o)
             q == Groups6(x)
             m == o[13]
             n == o[14]
             v == x[13]
             w == x[14]
  <2>2. p \in Seq(Plain) /\ q \in Seq(Plain) /\ m \in Bytes /\ n \in Bytes /\ v \in Bytes /\ w \in Bytes
    BY ONLY <1>2, <2>1
  <2>3. p \o Colon(m, n) = q \o Colon(v, w)
    BY <1>3, Zenon DEF Groups7
  <2> HIDE DEF p, q, m, n, v, w
  <2> DEFINE c == Colon(m, n)
             d == Colon(v, w)
  <2>4. c \in Seq(Plain) /\ d \in Seq(Plain) /\ Len(c) = Len(d)
    BY ONLY <2>2, GroupProperties
  <2>5. c = d => m = v /\ n = w
    BY ONLY <2>2, GroupsDiffer, Zenon
  <2> HIDE DEF c, d
  <2>6. p \o c = q \o d /\ Len(c) = Len(d) => p = q /\ c = d
    BY ONLY <2>2, <2>4, SplitAtLength, Zenon
  <2>7. p \o c = q \o d
    BY <2>3, Zenon DEF c, d
  <2>8. p = q /\ m = v /\ n = w
    BY ONLY <2>4, <2>5, <2>6, <2>7, Zenon
  <2>. QED BY ONLY <2>8, Zenon DEF p, q, m, n, v, w
<1>5. Groups5(o) = Groups5(x) /\ o[11] = x[11] /\ o[12] = x[12]
  <2>1. o[11] \in Bytes /\ o[12] \in Bytes /\ x[11] \in Bytes /\ x[12] \in Bytes
    BY ONLY <1>1
  <2> DEFINE p == Groups5(o)
             q == Groups5(x)
             m == o[11]
             n == o[12]
             v == x[11]
             w == x[12]
  <2>2. p \in Seq(Plain) /\ q \in Seq(Plain) /\ m \in Bytes /\ n \in Bytes /\ v \in Bytes /\ w \in Bytes
    BY ONLY <1>2, <2>1
  <2>3. p \o Colon(m, n) = q \o Colon(v, w)
    BY <1>4, Zenon DEF Groups6
  <2> HIDE DEF p, q, m, n, v, w
  <2> DEFINE c == Colon(m, n)
             d == Colon(v, w)
  <2>4. c \in Seq(Plain) /\ d \in Seq(Plain) /\ Len(c) = Len(d)
    BY ONLY <2>2, GroupProperties
  <2>5. c = d => m = v /\ n = w
    BY ONLY <2>2, GroupsDiffer, Zenon
  <2> HIDE DEF c, d
  <2>6. p \o c = q \o d /\ Len(c) = Len(d) => p = q /\ c = d
    BY ONLY <2>2, <2>4, SplitAtLength, Zenon
  <2>7. p \o c = q \o d
    BY <2>3, Zenon DEF c, d
  <2>8. p = q /\ m = v /\ n = w
    BY ONLY <2>4, <2>5, <2>6, <2>7, Zenon
  <2>. QED BY ONLY <2>8, Zenon DEF p, q, m, n, v, w
<1>6. Groups4(o) = Groups4(x) /\ o[9] = x[9] /\ o[10] = x[10]
  <2>1. o[9] \in Bytes /\ o[10] \in Bytes /\ x[9] \in Bytes /\ x[10] \in Bytes
    BY ONLY <1>1
  <2> DEFINE p == Groups4(o)
             q == Groups4(x)
             m == o[9]
             n == o[10]
             v == x[9]
             w == x[10]
  <2>2. p \in Seq(Plain) /\ q \in Seq(Plain) /\ m \in Bytes /\ n \in Bytes /\ v \in Bytes /\ w \in Bytes
    BY ONLY <1>2, <2>1
  <2>3. p \o Colon(m, n) = q \o Colon(v, w)
    BY <1>5, Zenon DEF Groups5
  <2> HIDE DEF p, q, m, n, v, w
  <2> DEFINE c == Colon(m, n)
             d == Colon(v, w)
  <2>4. c \in Seq(Plain) /\ d \in Seq(Plain) /\ Len(c) = Len(d)
    BY ONLY <2>2, GroupProperties
  <2>5. c = d => m = v /\ n = w
    BY ONLY <2>2, GroupsDiffer, Zenon
  <2> HIDE DEF c, d
  <2>6. p \o c = q \o d /\ Len(c) = Len(d) => p = q /\ c = d
    BY ONLY <2>2, <2>4, SplitAtLength, Zenon
  <2>7. p \o c = q \o d
    BY <2>3, Zenon DEF c, d
  <2>8. p = q /\ m = v /\ n = w
    BY ONLY <2>4, <2>5, <2>6, <2>7, Zenon
  <2>. QED BY ONLY <2>8, Zenon DEF p, q, m, n, v, w
<1>7. Groups3(o) = Groups3(x) /\ o[7] = x[7] /\ o[8] = x[8]
  <2>1. o[7] \in Bytes /\ o[8] \in Bytes /\ x[7] \in Bytes /\ x[8] \in Bytes
    BY ONLY <1>1
  <2> DEFINE p == Groups3(o)
             q == Groups3(x)
             m == o[7]
             n == o[8]
             v == x[7]
             w == x[8]
  <2>2. p \in Seq(Plain) /\ q \in Seq(Plain) /\ m \in Bytes /\ n \in Bytes /\ v \in Bytes /\ w \in Bytes
    BY ONLY <1>2, <2>1
  <2>3. p \o Colon(m, n) = q \o Colon(v, w)
    BY <1>6, Zenon DEF Groups4
  <2> HIDE DEF p, q, m, n, v, w
  <2> DEFINE c == Colon(m, n)
             d == Colon(v, w)
  <2>4. c \in Seq(Plain) /\ d \in Seq(Plain) /\ Len(c) = Len(d)
    BY ONLY <2>2, GroupProperties
  <2>5. c = d => m = v /\ n = w
    BY ONLY <2>2, GroupsDiffer, Zenon
  <2> HIDE DEF c, d
  <2>6. p \o c = q \o d /\ Len(c) = Len(d) => p = q /\ c = d
    BY ONLY <2>2, <2>4, SplitAtLength, Zenon
  <2>7. p \o c = q \o d
    BY <2>3, Zenon DEF c, d
  <2>8. p = q /\ m = v /\ n = w
    BY ONLY <2>4, <2>5, <2>6, <2>7, Zenon
  <2>. QED BY ONLY <2>8, Zenon DEF p, q, m, n, v, w
<1>8. Groups2(o) = Groups2(x) /\ o[5] = x[5] /\ o[6] = x[6]
  <2>1. o[5] \in Bytes /\ o[6] \in Bytes /\ x[5] \in Bytes /\ x[6] \in Bytes
    BY ONLY <1>1
  <2> DEFINE p == Groups2(o)
             q == Groups2(x)
             m == o[5]
             n == o[6]
             v == x[5]
             w == x[6]
  <2>2. p \in Seq(Plain) /\ q \in Seq(Plain) /\ m \in Bytes /\ n \in Bytes /\ v \in Bytes /\ w \in Bytes
    BY ONLY <1>2, <2>1
  <2>3. p \o Colon(m, n) = q \o Colon(v, w)
    BY <1>7, Zenon DEF Groups3
  <2> HIDE DEF p, q, m, n, v, w
  <2> DEFINE c == Colon(m, n)
             d == Colon(v, w)
  <2>4. c \in Seq(Plain) /\ d \in Seq(Plain) /\ Len(c) = Len(d)
    BY ONLY <2>2, GroupProperties
  <2>5. c = d => m = v /\ n = w
    BY ONLY <2>2, GroupsDiffer, Zenon
  <2> HIDE DEF c, d
  <2>6. p \o c = q \o d /\ Len(c) = Len(d) => p = q /\ c = d
    BY ONLY <2>2, <2>4, SplitAtLength, Zenon
  <2>7. p \o c = q \o d
    BY <2>3, Zenon DEF c, d
  <2>8. p = q /\ m = v /\ n = w
    BY ONLY <2>4, <2>5, <2>6, <2>7, Zenon
  <2>. QED BY ONLY <2>8, Zenon DEF p, q, m, n, v, w
<1>9. Groups1(o) = Groups1(x) /\ o[3] = x[3] /\ o[4] = x[4]
  <2>1. o[3] \in Bytes /\ o[4] \in Bytes /\ x[3] \in Bytes /\ x[4] \in Bytes
    BY ONLY <1>1
  <2> DEFINE p == Groups1(o)
             q == Groups1(x)
             m == o[3]
             n == o[4]
             v == x[3]
             w == x[4]
  <2>2. p \in Seq(Plain) /\ q \in Seq(Plain) /\ m \in Bytes /\ n \in Bytes /\ v \in Bytes /\ w \in Bytes
    BY ONLY <1>2, <2>1
  <2>3. p \o Colon(m, n) = q \o Colon(v, w)
    BY <1>8, Zenon DEF Groups2
  <2> HIDE DEF p, q, m, n, v, w
  <2> DEFINE c == Colon(m, n)
             d == Colon(v, w)
  <2>4. c \in Seq(Plain) /\ d \in Seq(Plain) /\ Len(c) = Len(d)
    BY ONLY <2>2, GroupProperties
  <2>5. c = d => m = v /\ n = w
    BY ONLY <2>2, GroupsDiffer, Zenon
  <2> HIDE DEF c, d
  <2>6. p \o c = q \o d /\ Len(c) = Len(d) => p = q /\ c = d
    BY ONLY <2>2, <2>4, SplitAtLength, Zenon
  <2>7. p \o c = q \o d
    BY <2>3, Zenon DEF c, d
  <2>8. p = q /\ m = v /\ n = w
    BY ONLY <2>4, <2>5, <2>6, <2>7, Zenon
  <2>. QED BY ONLY <2>8, Zenon DEF p, q, m, n, v, w
<1>10. o[1] = x[1] /\ o[2] = x[2]
  <2>1. o[1] \in Bytes /\ o[2] \in Bytes /\ x[1] \in Bytes /\ x[2] \in Bytes
    BY ONLY <1>1
  <2>2. Group(o[1], o[2]) = Group(x[1], x[2])
    BY <1>9, Zenon DEF Groups1
  <2> DEFINE m == o[1]
             n == o[2]
             v == x[1]
             w == x[2]
  <2>3. m \in Bytes /\ n \in Bytes /\ v \in Bytes /\ w \in Bytes
    BY ONLY <2>1
  <2> HIDE DEF m, n, v, w
  <2>4. Group(m, n) = Group(v, w) => m = v /\ n = w
    BY ONLY <2>3, GroupsDiffer, Zenon
  <2>. QED BY <2>2, <2>4, Zenon DEF m, n, v, w
<1>11. \A k \in 1 .. 16 : o[k] = x[k]
  <2>1. \A k \in 1 .. 16 : k \in {1, 2, 3, 4, 5, 6, 7, 8, 9, 10, 11, 12, 13, 14, 15, 16}
    OBVIOUS
  <2>. QED BY ONLY <1>3, <1>4, <1>5, <1>6, <1>7, <1>8, <1>9, <1>10, <2>1
<1>. QED BY <1>11 DEF Octet16

\* The text of an IPv6 address.
LEMMA Ip6Text ==
  ASSUME NEW o \in Octet16
  PROVE  Records!ipv6_to_string(o) = Groups8(o)
<1>1. Groups8(o) \in Seq(Plain) /\ Len(Groups8(o)) = 39
  BY GroupsTypes
<1>2. Groups8(o) \in Seq(Characters)
  <2> DEFINE g == Groups8(o)
  <2>1. g \in Seq(Plain)
    BY <1>1
  <2>2. Plain \subseteq Characters
    BY DEF Plain, Characters
  <2> HIDE DEF g
  <2>3. g \in Seq(Characters)
    BY ONLY <2>1, <2>2
  <2>. QED BY <2>3 DEF g
<1>3. /\ 2 * 1 - 1 = 1 /\ 2 * 1 = 2
      /\ 2 * 2 - 1 = 3 /\ 2 * 2 = 4
      /\ 2 * 3 - 1 = 5 /\ 2 * 3 = 6
      /\ 2 * 4 - 1 = 7 /\ 2 * 4 = 8
      /\ 2 * 5 - 1 = 9 /\ 2 * 5 = 10
      /\ 2 * 6 - 1 = 11 /\ 2 * 6 = 12
      /\ 2 * 7 - 1 = 13 /\ 2 * 7 = 14
      /\ 2 * 8 - 1 = 15 /\ 2 * 8 = 16
  OBVIOUS
<1>4. Records!ipv6_to_string(o) = Records!Printed(Groups8(o), 64)
  BY ONLY <1>3, Zenon DEF Records!ipv6_to_string, Groups8, Groups7, Groups6, Groups5, Groups4, Groups3, Groups2,
                 Groups1, Colon, Group
<1> DEFINE g == Groups8(o)
<1>5. g \in Seq(Characters) /\ Len(g) = 39
  BY <1>1, <1>2
<1> HIDE DEF g
<1>6. 64 \in Nat /\ Len(g) < 64
  BY ONLY <1>5
<1>7. Records!Printed(g, 64) = g
  BY ONLY <1>5, <1>6, PrintedWhole, ZenonT(30)
<1>. QED BY <1>4, <1>7, Zenon DEF g

\* The text of an address: short, without NUL, and the address's own.
LEMMA AddressTexts ==
  ASSUME NEW o \in Records!Octets
  PROVE  \/ /\ o \in [1 .. 4 -> Bytes] /\ Records!AddressText(o) = Dotted4(o)
         \/ /\ o \in Octet16 /\ Records!AddressText(o) = Groups8(o)
<1>1. CASE o \in [1 .. 4 -> Bytes]
  <2>1. Len(o) = 4
    BY <1>1
  <2>2. Records!AddressText(o) = Records!ipv4_to_string(o)
    BY <2>1, Zenon DEF Records!AddressText
  <2>. QED BY <1>1, <2>2, Ip4Text
<1>2. CASE o \in Octet16
  <2>1. Len(o) = 16
    BY <1>2 DEF Octet16
  <2>2. ~(Len(o) = 4)
    BY ONLY <2>1
  <2>3. Records!AddressText(o) = Records!ipv6_to_string(o)
    BY <2>2, Zenon DEF Records!AddressText
  <2>. QED BY <1>2, <2>3, Ip6Text
<1>. QED BY <1>1, <1>2 DEF Records!Octets, Octet16, Bytes

LEMMA AddressIsText ==
  ASSUME NEW o \in Records!Octets
  PROVE  /\ Records!AddressText(o) \in Seq(Characters)
         /\ Len(Records!AddressText(o)) \in Nat /\ Len(Records!AddressText(o)) <= 39
<1>1. CASE o \in [1 .. 4 -> Bytes] /\ Records!AddressText(o) = Dotted4(o)
  <2>1. Dotted4(o) \in Seq(Characters) /\ Len(Dotted4(o)) \in Nat /\ Len(Dotted4(o)) <= 15
    BY <1>1, DottedTypes
  <2>2. Len(Dotted4(o)) <= 39
    BY ONLY <2>1
  <2>. QED BY ONLY <1>1, <2>1, <2>2
<1>2. CASE o \in Octet16 /\ Records!AddressText(o) = Groups8(o)
  <2> DEFINE g == Groups8(o)
  <2>1. g \in Seq(Plain) /\ Len(g) = 39
    BY <1>2, GroupsTypes
  <2>2. Plain \subseteq Characters
    BY DEF Plain, Characters
  <2> HIDE DEF g
  <2>3. g \in Seq(Characters) /\ Len(g) \in Nat /\ Len(g) <= 39
    BY ONLY <2>1, <2>2
  <2>. QED BY <1>2, <2>3 DEF g
<1>. QED BY <1>1, <1>2, AddressTexts

\* Different addresses have different texts.
LEMMA AddressesApart ==
  ASSUME NEW o \in Records!Octets, NEW x \in Records!Octets,
         Records!AddressText(o) = Records!AddressText(x)
  PROVE  o = x
<1>1. ASSUME NEW a \in [1 .. 4 -> Bytes], NEW b \in Octet16 PROVE Dotted4(a) # Groups8(b)
  <2> DEFINE d == Dotted4(a)
             g == Groups8(b)
  <2>1. \E i \in 1 .. Len(d) : d[i] = "."
    BY DottedTypes
  <2>2. g \in Seq(Plain)
    BY GroupsTypes
  <2>3. "." \notin Plain
    BY DEF Plain, HexDigits
  <2> HIDE DEF d, g
  <2>4. d # g
    BY ONLY <2>1, <2>2, <2>3
  <2>. QED BY <2>4 DEF d, g
<1>2. CASE o \in [1 .. 4 -> Bytes] /\ Records!AddressText(o) = Dotted4(o)
  <2>1. CASE x \in [1 .. 4 -> Bytes] /\ Records!AddressText(x) = Dotted4(x)
    BY <1>2, <2>1, DottedDiffer
  <2>2. CASE x \in Octet16 /\ Records!AddressText(x) = Groups8(x)
    BY <1>1, <1>2, <2>2
  <2>. QED BY <2>1, <2>2, AddressTexts
<1>3. CASE o \in Octet16 /\ Records!AddressText(o) = Groups8(o)
  <2>1. CASE x \in [1 .. 4 -> Bytes] /\ Records!AddressText(x) = Dotted4(x)
    <3>1. Dotted4(x) # Groups8(o)
      BY <1>1, <1>3, <2>1
    <3>. QED BY <1>3, <2>1, <3>1
  <2>2. CASE x \in Octet16 /\ Records!AddressText(x) = Groups8(x)
    BY <1>3, <2>2, AddressGroupsDiffer
  <2>. QED BY <2>1, <2>2, AddressTexts
<1>. QED BY <1>2, <1>3, AddressTexts

-----------------------------------------------------------------------------
(* The fields of a record *)

FieldAt(name)    == Records!Begins(Records!NativePacket, name)
FieldWidth(name) == Records!Width(Records!NativePacket, name)

LEMMA FieldFacts ==
  /\ RecordSize \in Nat
  /\ \A name \in Records!Fields :
       /\ FieldAt(name) \in Nat /\ FieldWidth(name) \in Nat \ {0}
       /\ FieldAt(name) + FieldWidth(name) <= RecordSize
       /\ \A other \in Records!Fields \ {name} :
            \/ FieldAt(name) + FieldWidth(name) <= FieldAt(other)
            \/ FieldAt(other) + FieldWidth(other) <= FieldAt(name)
  /\ \A name \in Records!Texts : FieldWidth(name) >= 40
  /\ \A struct \in RecordLayouts : Records!SizeOf(struct) = RecordSize =>
       \A name \in Records!Fields :
         Records!Begins(struct, name) = FieldAt(name) /\ Records!Width(struct, name) = FieldWidth(name)
BY CallAssumption DEF Records!RecordAssumption, RecordSize, FieldAt, FieldWidth, Records!Ends

\* The fields in the order in which they are written.
Names == << "timestamp_unix", "protocol", "source_port", "destination_port", "payload",
            "payload_size", "source_address", "destination_address" >>

LEMMA NamesOfFields ==
  /\ \A f \in 1 .. 8 : Names[f] \in Records!Fields
  /\ \A f, g \in 1 .. 8 : f # g => Names[f] # Names[g]
BY DEF Names, Records!Fields, Records!Texts

\* A library with records of this size writes the fields where Python reads them.
LEMMA SameFields ==
  ASSUME NEW struct \in RecordLayouts, Records!SizeOf(struct) = RecordSize, NEW p, NEW n
  PROVE  Records!FieldsOf(struct, p, n) = Records!FieldsOf(Records!NativePacket, p, n)
<1>1. \A name \in Records!Fields : /\ Records!Begins(struct, name) = FieldAt(name)
                                   /\ Records!Width(struct, name) = FieldWidth(name)
  BY FieldFacts
<1>2. \A name \in {"timestamp_unix", "protocol", "source_port", "destination_port", "payload",
                   "payload_size", "source_address", "destination_address"} : name \in Records!Fields
  BY DEF Records!Fields, Records!Texts
<1>3. \A name \in {"timestamp_unix", "protocol", "source_port", "destination_port", "payload",
                   "payload_size", "source_address", "destination_address"} :
        /\ Records!Begins(struct, name) = Records!Begins(Records!NativePacket, name)
        /\ Records!Width(struct, name) = Records!Width(Records!NativePacket, name)
  BY <1>1, <1>2 DEF FieldAt, FieldWidth
<1>. QED BY ONLY <1>3 DEF Records!FieldsOf

LEMMA PacketParts ==
  ASSUME NEW p \in Records!Packet
  PROVE  /\ p.timestamp \in Nat /\ p.protocol \in Nat /\ p.source \in Records!Octets /\ p.source_port \in Nat
         /\ p.destination \in Records!Octets /\ p.destination_port \in Nat /\ p.payload \in Seq(Nat)
BY DEF Records!Packet

\* What is written into a text field: all of the address.
LEMMA TextField ==
  ASSUME NEW o \in Records!Octets, NEW width \in Nat, width >= 40
  PROVE  Records!Printed(Records!AddressText(o), width) = Records!AddressText(o)
<1> DEFINE t == Records!AddressText(o)
<1>1. t \in Seq(Characters) /\ Len(t) \in Nat /\ Len(t) <= 39
  BY AddressIsText
<1> HIDE DEF t
<1>2. Len(t) < width
  BY ONLY <1>1, width \in Nat, width >= 40
<1>3. Records!Printed(t, width) = t
  BY ONLY <1>1, <1>2, width \in Nat, PrintedWhole
<1>. QED BY <1>3 DEF t

\* What each field of a record is given.
Contents(p, n) ==
  << Records!Number(p.timestamp, FieldWidth("timestamp_unix")),
     Records!Number(p.protocol, FieldWidth("protocol")),
     Records!Number(p.source_port, FieldWidth("source_port")),
     Records!Number(p.destination_port, FieldWidth("destination_port")),
     Records!Number(IF p.payload = <<>> THEN 0 ELSE n, FieldWidth("payload")),
     Records!Number(Len(p.payload), FieldWidth("payload_size")),
     Records!Characters(Records!AddressText(p.source)),
     Records!Characters(Records!AddressText(p.destination)) >>

LEMMA FieldsContain ==
  ASSUME NEW p \in Records!Packet, NEW n \in Nat
  PROVE  /\ DOMAIN Records!FieldsOf(Records!NativePacket, p, n) = 1 .. 8
         /\ \A f \in 1 .. 8 :
              Records!FieldsOf(Records!NativePacket, p, n)[f] = <<FieldAt(Names[f]), Contents(p, n)[f]>>
<1>1. /\ p.source \in Records!Octets /\ p.destination \in Records!Octets
  BY PacketParts
<1>2. /\ FieldWidth("source_address") \in Nat /\ FieldWidth("source_address") >= 40
      /\ FieldWidth("destination_address") \in Nat /\ FieldWidth("destination_address") >= 40
  BY FieldFacts DEF Records!Fields, Records!Texts
<1>3. /\ Records!Printed(Records!AddressText(p.source), FieldWidth("source_address")) = Records!AddressText(p.source)
      /\ Records!Printed(Records!AddressText(p.destination), FieldWidth("destination_address"))
           = Records!AddressText(p.destination)
  BY <1>1, <1>2, TextField
<1> DEFINE F == Records!FieldsOf(Records!NativePacket, p, n)
           C == Contents(p, n)
<1>4. F = << <<FieldAt("timestamp_unix"), C[1]>>, <<FieldAt("protocol"), C[2]>>, <<FieldAt("source_port"), C[3]>>,
             <<FieldAt("destination_port"), C[4]>>, <<FieldAt("payload"), C[5]>>, <<FieldAt("payload_size"), C[6]>>,
             <<FieldAt("source_address"), C[7]>>, <<FieldAt("destination_address"), C[8]>> >>
  <2>1. F = << <<FieldAt("timestamp_unix"), Records!Number(p.timestamp, FieldWidth("timestamp_unix"))>>,
               <<FieldAt("protocol"), Records!Number(p.protocol, FieldWidth("protocol"))>>,
               <<FieldAt("source_port"), Records!Number(p.source_port, FieldWidth("source_port"))>>,
               <<FieldAt("destination_port"), Records!Number(p.destination_port, FieldWidth("destination_port"))>>,
               <<FieldAt("payload"), Records!Number(IF p.payload = <<>> THEN 0 ELSE n, FieldWidth("payload"))>>,
               <<FieldAt("payload_size"), Records!Number(Len(p.payload), FieldWidth("payload_size"))>>,
               <<FieldAt("source_address"), Records!Characters(Records!AddressText(p.source))>>,
               <<FieldAt("destination_address"), Records!Characters(Records!AddressText(p.destination))>> >>
    BY ONLY <1>3, Zenon DEF Records!FieldsOf, FieldAt, FieldWidth
  <2>. QED BY ONLY <2>1 DEF Contents
<1> HIDE DEF F, C
<1>5. /\ Names[1] = "timestamp_unix" /\ Names[2] = "protocol" /\ Names[3] = "source_port"
      /\ Names[4] = "destination_port" /\ Names[5] = "payload" /\ Names[6] = "payload_size"
      /\ Names[7] = "source_address" /\ Names[8] = "destination_address"
  BY DEF Names
<1>6. \A f \in 1 .. 8 : f \in {1, 2, 3, 4, 5, 6, 7, 8}
  OBVIOUS
<1>7. DOMAIN F = 1 .. 8 /\ \A f \in 1 .. 8 : F[f] = <<FieldAt(Names[f]), C[f]>>
  BY ONLY <1>4, <1>5, <1>6
<1>. QED BY <1>7 DEF F, C

\* No field is given more than it holds.
LEMMA ContentsFit ==
  ASSUME NEW p \in Records!Packet, NEW n \in Nat
  PROVE  \A f \in 1 .. 8 : /\ Len(Contents(p, n)[f]) \in Nat
                           /\ Len(Contents(p, n)[f]) <= FieldWidth(Names[f])
<1>1. ASSUME NEW v, NEW width \in Nat PROVE Len(Records!Number(v, width)) = width
  BY DEF Records!Number
<1>2. ASSUME NEW o \in Records!Octets
      PROVE  Len(Records!Characters(Records!AddressText(o))) \in Nat /\ Len(Records!Characters(Records!AddressText(o))) <= 40
  <2> DEFINE t == Records!AddressText(o)
             a == [i \in 1 .. Len(t) |-> <<0, t[i]>>]
             b == <<<<0, Records!NUL>>>>
  <2>1. Len(t) \in Nat /\ Len(t) <= 39
    BY AddressIsText
  <2> HIDE DEF t
  <2>2. a \in Seq({<<0, t[i]>> : i \in 1 .. Len(t)}) /\ Len(a) = Len(t)
    BY ONLY <2>1
  <2> DEFINE S == {<<0, t[i]>> : i \in 1 .. Len(t)} \cup {<<0, Records!NUL>>}
  <2>3. b \in Seq(S) /\ Len(b) = 1
    OBVIOUS
  <2>4. a \in Seq(S)
    BY ONLY <2>2
  <2> HIDE DEF a, b, S
  <2>5. Len(a \o b) = Len(a) + Len(b)
    BY ONLY <2>3, <2>4, JoinProperties, Zenon
  <2>6. Len(a \o b) \in Nat /\ Len(a \o b) <= 40
    BY ONLY <2>1, <2>2, <2>3, <2>5
  <2>7. Records!Characters(t) = a \o b
    BY Zenon DEF Records!Characters, a, b
  <2>. QED BY <2>6, <2>7 DEF t
<1>3. p.source \in Records!Octets /\ p.destination \in Records!Octets
  BY PacketParts
<1>4. \A f \in 1 .. 8 : FieldWidth(Names[f]) \in Nat
  BY FieldFacts, NamesOfFields
<1> DEFINE C == Contents(p, n)
           IsNumber(f) == \E v : C[f] = Records!Number(v, FieldWidth(Names[f]))
           IsText(f)   == \E o \in Records!Octets : C[f] = Records!Characters(Records!AddressText(o))
<1>5. /\ Names[1] = "timestamp_unix" /\ Names[2] = "protocol" /\ Names[3] = "source_port"
      /\ Names[4] = "destination_port" /\ Names[5] = "payload" /\ Names[6] = "payload_size"
  BY DEF Names
<1>6. IsNumber(1) /\ IsNumber(2) /\ IsNumber(3) /\ IsNumber(4) /\ IsNumber(5) /\ IsNumber(6)
  BY <1>5 DEF Contents
<1>7. IsText(7) /\ IsText(8)
  BY <1>3 DEF Contents
<1> HIDE DEF C
<1>8. ASSUME NEW f \in 1 .. 8, IsNumber(f)
      PROVE  Len(C[f]) \in Nat /\ Len(C[f]) <= FieldWidth(Names[f])
  <2>1. PICK v : C[f] = Records!Number(v, FieldWidth(Names[f]))
    BY <1>8
  <2>2. FieldWidth(Names[f]) \in Nat
    BY <1>4
  <2>3. Len(C[f]) = FieldWidth(Names[f])
    BY ONLY <1>1, <2>1, <2>2
  <2>. QED BY ONLY <2>2, <2>3
<1>9. ASSUME NEW f \in 7 .. 8, IsText(f)
      PROVE  Len(C[f]) \in Nat /\ Len(C[f]) <= FieldWidth(Names[f])
  <2>1. PICK o \in Records!Octets : C[f] = Records!Characters(Records!AddressText(o))
    BY <1>9
  <2>2. Len(C[f]) \in Nat /\ Len(C[f]) <= 40
    BY ONLY <1>2, <2>1
  <2>3. FieldWidth(Names[f]) \in Nat /\ FieldWidth(Names[f]) >= 40
    <3>1. f \in 1 .. 8 /\ Names[f] \in Records!Texts
      BY DEF Names, Records!Texts
    <3>. QED BY <1>4, <3>1, FieldFacts
  <2>. QED BY ONLY <2>2, <2>3
<1> HIDE DEF IsNumber, IsText
<1>10. ASSUME NEW f \in 1 .. 8 PROVE Len(C[f]) \in Nat /\ Len(C[f]) <= FieldWidth(Names[f])
  <2>1. CASE f \in 7 .. 8
    <3>1. IsText(f)
      BY ONLY <1>7, <2>1
    <3>. QED BY ONLY <1>9, <2>1, <3>1
  <2>2. CASE ~(f \in 7 .. 8)
    <3>1. IsNumber(f)
      BY ONLY <1>6, <2>2, f \in 1 .. 8
    <3>. QED BY ONLY <1>8, <3>1, f \in 1 .. 8
  <2>. QED BY <2>1, <2>2
<1>. QED BY <1>10 DEF C

\* The fields of a record are in memory.
Written(mem, base, fields) ==
  \A f \in 1 .. 8 : \A j \in 1 .. Len(fields[f][2]) : mem[base + fields[f][1] + j] = fields[f][2][j]

\* A byte is in one of two fields that lie apart.
LEMMA FieldsApart ==
  ASSUME NEW base \in Nat, NEW a \in Nat, NEW alen \in Nat, NEW b \in Nat, NEW blen \in Nat,
         NEW j \in 1 .. alen, NEW i, i = base + a + j, i - base - b \in 1 .. blen
  PROVE  ~(a + alen <= b) /\ ~(b + blen <= a)
OBVIOUS

\* An array of n elements.
IsArray(mem, n) == mem = [k \in 1 .. n |-> mem[k]]

\* The fields lie apart and within a record.
LieApart(fields) ==
  /\ DOMAIN fields = 1 .. 8
  /\ \A f \in 1 .. 8 : /\ fields[f][1] \in Nat /\ Len(fields[f][2]) \in Nat
                       /\ fields[f][1] + Len(fields[f][2]) <= RecordSize
  /\ \A f, g \in 1 .. 8 : f # g => \/ fields[f][1] + Len(fields[f][2]) <= fields[g][1]
                                   \/ fields[g][1] + Len(fields[g][2]) <= fields[f][1]

\* What fill_packet writes is there afterwards, and the other records are as before.
LEMMA FilledFields ==
  ASSUME NEW n \in Nat, NEW mem, IsArray(mem, n), NEW base \in Nat, base + RecordSize <= n,
         NEW fields, LieApart(fields), NEW new, new = Records!Filled(mem, base, fields)
  PROVE  /\ IsArray(new, n)
         /\ Written(new, base, fields)
         /\ \A k \in 1 .. n : k <= base \/ k > base + RecordSize => new[k] = mem[k]
<1> DEFINE place(i, f) == i - base - fields[f][1]
           over(i)  == {f \in DOMAIN fields : place(i, f) \in 1 .. Len(fields[f][2])}
<1>1. RecordSize \in Nat
  BY FieldFacts
<1>2. DOMAIN mem = 1 .. n
  BY DEF IsArray
<1>3. /\ DOMAIN fields = 1 .. 8
      /\ \A f \in 1 .. 8 : /\ fields[f][1] \in Nat /\ Len(fields[f][2]) \in Nat
                           /\ fields[f][1] + Len(fields[f][2]) <= RecordSize
      /\ \A f, g \in 1 .. 8 : f # g => \/ fields[f][1] + Len(fields[f][2]) <= fields[g][1]
                                       \/ fields[g][1] + Len(fields[g][2]) <= fields[f][1]
  BY DEF LieApart
<1>4. new = [i \in 1 .. n |-> IF over(i) = {} THEN mem[i] ELSE fields[Records!Max(over(i))][2][place(i, Records!Max(over(i)))]]
  BY ONLY <1>2, new = Records!Filled(mem, base, fields), Zenon DEF Records!Filled
<1>5. \A i : over(i) = {f \in 1 .. 8 : place(i, f) \in 1 .. Len(fields[f][2])}
  BY ONLY <1>3
<1> HIDE DEF over
<1>6. IsArray(new, n)
  BY ONLY <1>4 DEF IsArray
<1>7. ASSUME NEW f \in 1 .. 8, NEW j \in 1 .. Len(fields[f][2])
      PROVE  new[base + fields[f][1] + j] = fields[f][2][j]
  <2> DEFINE a == fields[f][1]
             alen == Len(fields[f][2])
             i == base + a + j
  <2>1. a \in Nat /\ alen \in Nat /\ a + alen <= RecordSize /\ j \in 1 .. alen /\ i = base + a + j
    BY <1>3
  <2> HIDE DEF i
  <2>2. ASSUME NEW g \in 1 .. 8, i - base - fields[g][1] \in 1 .. Len(fields[g][2])
        PROVE  g = f
    <3> DEFINE b == fields[g][1]
               blen == Len(fields[g][2])
    <3>1. b \in Nat /\ blen \in Nat
      BY <1>3
    <3>2. g # f => a + alen <= b \/ b + blen <= a
      BY <1>3
    <3>3. i - base - b \in 1 .. blen
      BY ONLY <2>2
    <3> HIDE DEF a, alen, b, blen
    <3>4. ~(a + alen <= b) /\ ~(b + blen <= a)
      BY ONLY <2>1, <3>1, <3>3, base \in Nat, FieldsApart
    <3>. QED BY ONLY <3>2, <3>4
  <2> HIDE DEF a, alen
  <2>3. i \in 1 .. n /\ i - base - a = j
    BY ONLY <1>1, <2>1, n \in Nat, base \in Nat, base + RecordSize <= n
  <2>4. place(i, f) = j
    BY <2>3 DEF a
  <2>5. \A g \in 1 .. 8 : place(i, g) \in 1 .. Len(fields[g][2]) => g = f
    BY <2>2
  <2> HIDE DEF place
  <2>6. over(i) = {f}
    BY <1>5, <2>1, <2>4, <2>5 DEF alen
  <2>7. Records!Max({f}) = f
    BY f \in Int DEF Records!Max
  <2>8. over(i) # {} /\ Records!Max(over(i)) = f
    BY ONLY <2>6, <2>7
  <2>9. new[i] = fields[f][2][place(i, f)]
    BY ONLY <1>4, <2>3, <2>8
  <2>. QED BY <2>4, <2>9 DEF i, a
<1>8. ASSUME NEW k \in 1 .. n, k <= base \/ k > base + RecordSize PROVE new[k] = mem[k]
  <2>1. ASSUME NEW f \in 1 .. 8 PROVE ~(place(k, f) \in 1 .. Len(fields[f][2]))
    <3> DEFINE a == fields[f][1]
               alen == Len(fields[f][2])
    <3>1. a \in Nat /\ alen \in Nat /\ a + alen <= RecordSize
      BY <1>3
    <3> HIDE DEF a, alen
    <3>2. ~(k - base - a \in 1 .. alen)
      BY ONLY <1>1, <1>8, <3>1, n \in Nat, base \in Nat
    <3>. QED BY <3>2 DEF a, alen
  <2> HIDE DEF place
  <2>2. over(k) = {}
    BY ONLY <1>5, <2>1
  <2>. QED BY ONLY <1>4, <2>2, k \in 1 .. n
<1>. QED BY <1>6, <1>7, <1>8 DEF Written

LEMMA PacketFieldsLieApart ==
  ASSUME NEW p \in Records!Packet, NEW i \in Nat,
         NEW fields, fields = Records!FieldsOf(Records!NativePacket, p, i)
  PROVE  LieApart(fields)
<1> DEFINE content == Contents(p, i)
<1>1. /\ DOMAIN fields = 1 .. 8
      /\ \A f \in 1 .. 8 : fields[f] = <<FieldAt(Names[f]), content[f]>>
  BY FieldsContain
<1>2. \A f \in 1 .. 8 : Len(content[f]) \in Nat /\ Len(content[f]) <= FieldWidth(Names[f])
  BY ContentsFit
<1> HIDE DEF content
<1>3. \A f \in 1 .. 8 : fields[f][1] = FieldAt(Names[f]) /\ fields[f][2] = content[f]
  BY ONLY <1>1
<1>4. ASSUME NEW f \in 1 .. 8
      PROVE  /\ fields[f][1] \in Nat /\ Len(fields[f][2]) \in Nat
             /\ fields[f][1] + Len(fields[f][2]) <= RecordSize
  <2> DEFINE a == FieldAt(Names[f])
             w == FieldWidth(Names[f])
             len == Len(content[f])
  <2>1. a \in Nat /\ w \in Nat /\ a + w <= RecordSize /\ RecordSize \in Nat
    BY ONLY NamesOfFields, FieldFacts, f \in 1 .. 8
  <2>2. len \in Nat /\ len <= w
    BY ONLY <1>2, f \in 1 .. 8
  <2> HIDE DEF a, w, len
  <2>3. a \in Nat /\ len \in Nat /\ a + len <= RecordSize
    BY ONLY <2>1, <2>2
  <2>. QED BY <1>3, <2>3, Zenon DEF a, len
<1>5. ASSUME NEW f \in 1 .. 8, NEW g \in 1 .. 8, f # g
      PROVE  \/ fields[f][1] + Len(fields[f][2]) <= fields[g][1]
             \/ fields[g][1] + Len(fields[g][2]) <= fields[f][1]
  <2> DEFINE a == FieldAt(Names[f])
             v == FieldWidth(Names[f])
             alen == Len(content[f])
             b == FieldAt(Names[g])
             w == FieldWidth(Names[g])
             blen == Len(content[g])
  <2>1. Names[f] \in Records!Fields /\ Names[g] \in Records!Fields \ {Names[f]}
    BY <1>5, NamesOfFields
  <2>2. a + v <= b \/ b + w <= a
    BY ONLY <2>1, FieldFacts
  <2>3. a \in Nat /\ v \in Nat /\ b \in Nat /\ w \in Nat
    BY ONLY <2>1, FieldFacts
  <2>4. alen \in Nat /\ alen <= v /\ blen \in Nat /\ blen <= w
    BY ONLY <1>2, f \in 1 .. 8, g \in 1 .. 8
  <2> HIDE DEF a, v, alen, b, w, blen
  <2>5. a + alen <= b \/ b + blen <= a
    BY ONLY <2>2, <2>3, <2>4
  <2>. QED BY <1>3, <2>5, Zenon DEF a, alen, b, blen
<1>. QED BY ONLY <1>1, <1>4, <1>5 DEF LieApart

\* What is written stays when the memory changes elsewhere.
LEMMA WrittenStays ==
  ASSUME NEW n \in Nat, NEW mem, NEW new, NEW base \in Nat, base + RecordSize <= n,
         \A k \in 1 .. n : k > base /\ k <= base + RecordSize => new[k] = mem[k],
         NEW fields, LieApart(fields), Written(mem, base, fields)
  PROVE  Written(new, base, fields)
<1> SUFFICES ASSUME NEW f \in 1 .. 8, NEW j \in 1 .. Len(fields[f][2])
             PROVE  new[base + fields[f][1] + j] = fields[f][2][j]
  BY DEF Written
<1> DEFINE a == fields[f][1]
           len == Len(fields[f][2])
<1>1. a \in Nat /\ len \in Nat /\ a + len <= RecordSize /\ RecordSize \in Nat /\ j \in 1 .. len
  BY FieldFacts DEF LieApart
<1>2. mem[base + a + j] = fields[f][2][j]
  BY DEF Written
<1> HIDE DEF a, len
<1>3. base + a + j \in 1 .. n /\ base + a + j > base /\ base + a + j <= base + RecordSize
  BY ONLY <1>1, n \in Nat, base \in Nat, base + RecordSize <= n
<1>. QED BY <1>2, <1>3 DEF a

\* What Python reads of a field.
LEMMA CellsRead ==
  ASSUME NEW n \in Nat, NEW mem, IsArray(mem, n), NEW at \in Nat, NEW w \in Nat, at + w <= n
  PROVE  Records!Cells(mem, at, w) = [k \in 1 .. w |-> mem[at + k]]
<1>1. Len(mem) = n /\ mem \in Seq({mem[k] : k \in 1 .. n})
  BY LengthOfFunction, Zenon DEF IsArray
<1>2. Records!Cells(mem, at, w) = SubSeq(mem, at + 1, at + w)
  BY Zenon DEF Records!Cells
<1>3. \A k \in 1 .. w : SubSeq(mem, at + 1, at + w)[k] = mem[at + k]
  <2> TAKE k \in 1 .. w
  <2>1. at + 1 \in 1 .. n + 1 /\ at + w \in Nat /\ at + w - (at + 1) + 1 = w /\ at + 1 + k - 1 = at + k
    BY ONLY at \in Nat, w \in Nat, n \in Nat, at + w <= n, k \in 1 .. w
  <2>. QED BY ONLY <1>1, <2>1, at \in Nat, w \in Nat, n \in Nat, at + w <= n, k \in 1 .. w
<1>4. DOMAIN SubSeq(mem, at + 1, at + w) = 1 .. w
  BY ONLY <1>1, at \in Nat, w \in Nat, n \in Nat, at + w <= n
<1>5. SubSeq(mem, at + 1, at + w) = [k \in 1 .. w |-> SubSeq(mem, at + 1, at + w)[k]]
  BY ONLY <1>1, <1>4, at \in Nat, w \in Nat, n \in Nat, at + w <= n
<1>. QED BY ONLY <1>2, <1>3, <1>5

LEMMA NumberRead ==
  ASSUME NEW n \in Nat, NEW mem, IsArray(mem, n), NEW at \in Nat, NEW w \in Nat \ {0}, at + w <= n,
         NEW v, \A k \in 1 .. w : mem[at + k] = Records!Number(v, w)[k]
  PROVE  Records!NumberAt(mem, at, w) = v
<1> DEFINE cells == Records!Cells(mem, at, w)
<1>1. cells = [k \in 1 .. w |-> mem[at + k]]
  BY CellsRead
<1>2. \A k \in 1 .. w : Records!Number(v, w)[k] = <<k, v>>
  BY DEF Records!Number
<1>3. Records!Number(v, w) = [k \in 1 .. w |-> <<k, v>>]
  BY DEF Records!Number
<1> HIDE DEF cells
<1>4. cells = [k \in 1 .. w |-> <<k, v>>]
  BY ONLY <1>1, <1>2, \A k \in 1 .. w : mem[at + k] = Records!Number(v, w)[k]
<1>5. cells[1][2] = v
  <2>1. cells[1] = <<1, v>>
    BY ONLY <1>4, w \in Nat \ {0}
  <2>. QED BY ONLY <2>1
<1>6. cells = Records!Number(v, w)
  BY ONLY <1>3, <1>4
<1>7. cells = Records!Number(cells[1][2], w)
  BY ONLY <1>5, <1>6
<1>. QED BY <1>5, <1>7, Zenon DEF Records!NumberAt, cells

\* The bytes of a text with its NUL.
LEMMA TextCells ==
  ASSUME NEW text \in Seq(Characters)
  PROVE  /\ Len(Records!Characters(text)) = Len(text) + 1
         /\ \A k \in 1 .. Len(text) : Records!Characters(text)[k] = <<0, text[k]>>
         /\ Records!Characters(text)[Len(text) + 1] = <<0, Records!NUL>>
<1> DEFINE a == [i \in 1 .. Len(text) |-> <<0, text[i]>>]
           b == <<<<0, Records!NUL>>>>
           S == {<<0, text[i]>> : i \in 1 .. Len(text)} \cup {<<0, Records!NUL>>}
<1>1. Len(text) \in Nat
  OBVIOUS
<1>2. a \in Seq({<<0, text[i]>> : i \in 1 .. Len(text)}) /\ Len(a) = Len(text) /\ \A k \in 1 .. Len(text) : a[k] = <<0, text[k]>>
  BY ONLY <1>1
<1>3. b \in Seq(S) /\ Len(b) = 1 /\ b[1] = <<0, Records!NUL>>
  OBVIOUS
<1>4. a \in Seq(S)
  BY ONLY <1>2
<1> HIDE DEF a, b, S
<1>5. /\ Len(a \o b) = Len(a) + Len(b)
      /\ \A k \in 1 .. Len(a) + Len(b) : (a \o b)[k] = IF k <= Len(a) THEN a[k] ELSE b[k - Len(a)]
  BY ONLY <1>3, <1>4, ConcatProperties
<1>6. Records!Characters(text) = a \o b
  BY Zenon DEF Records!Characters, a, b
<1>7. Len(a \o b) = Len(text) + 1
  BY ONLY <1>1, <1>2, <1>3, <1>5
<1>8. \A k \in 1 .. Len(text) : (a \o b)[k] = <<0, text[k]>>
  BY ONLY <1>1, <1>2, <1>3, <1>5
<1>9. (a \o b)[Len(text) + 1] = <<0, Records!NUL>>
  <2>1. Len(text) + 1 \in 1 .. Len(a) + Len(b) /\ ~(Len(text) + 1 <= Len(a)) /\ Len(text) + 1 - Len(a) = 1
    BY ONLY <1>1, <1>2, <1>3
  <2>. QED BY ONLY <1>3, <1>5, <2>1
<1>. QED BY <1>6, <1>7, <1>8, <1>9

TextIn(mem, at, text) == \A k \in 1 .. Len(text) + 1 : mem[at + k] = Records!Characters(text)[k]

LEMMA TextRead ==
  ASSUME NEW n \in Nat, NEW mem, IsArray(mem, n), NEW at \in Nat, NEW w \in Nat, at + w <= n,
         NEW text \in Seq(Characters), Len(text) < w, TextIn(mem, at, text)
  PROVE  Records!TextAt(mem, at, w) = text
<1> DEFINE cells == Records!Cells(mem, at, w)
           chars == [i \in 1 .. w |-> IF cells[i][1] = 0 THEN cells[i][2] ELSE "?"]
           end == Len(text) + 1
<1>1. Len(text) \in Nat /\ end \in 1 .. w
  OBVIOUS
<1>2. cells = [k \in 1 .. w |-> mem[at + k]]
  BY CellsRead
<1> HIDE DEF cells
<1>3. /\ \A k \in 1 .. Len(text) : cells[k] = <<0, text[k]>>
      /\ cells[end] = <<0, Records!NUL>>
  <2>1. \A k \in 1 .. w : cells[k] = mem[at + k]
    BY ONLY <1>2
  <2>2. \A k \in 1 .. Len(text) : k \in 1 .. w /\ k \in 1 .. Len(text) + 1
    BY ONLY <1>1
  <2>3. /\ \A k \in 1 .. Len(text) : Records!Characters(text)[k] = <<0, text[k]>>
        /\ Records!Characters(text)[end] = <<0, Records!NUL>>
    BY ONLY TextCells, text \in Seq(Characters)
  <2>4. \A k \in 1 .. end : mem[at + k] = Records!Characters(text)[k]
    BY DEF TextIn
  <2>5. end \in 1 .. end /\ \A k \in 1 .. Len(text) : k \in 1 .. end
    BY ONLY <1>1
  <2> HIDE DEF end
  <2>. QED BY ONLY <1>1, <2>1, <2>2, <2>3, <2>4, <2>5
<1>4. /\ \A k \in 1 .. Len(text) : k \in 1 .. w /\ cells[k][1] = 0 /\ cells[k][2] = text[k]
      /\ cells[end][1] = 0 /\ cells[end][2] = NUL
  <2>1. \A k \in 1 .. Len(text) : k \in 1 .. w
    BY ONLY <1>1
  <2>. QED BY ONLY <1>3, <2>1 DEF Records!NUL, NUL
<1>5. /\ \A k \in 1 .. Len(text) : chars[k] = text[k]
      /\ chars[end] = NUL
  BY ONLY <1>1, <1>4
<1>6. chars = [i \in 1 .. w |-> chars[i]]
  OBVIOUS
<1>7. Records!TextAt(mem, at, w) = Value(chars)
  BY Zenon DEF Records!TextAt, Records!Value, Value, Records!Min, Min, Records!NUL, NUL, cells
<1> HIDE DEF chars
<1> DEFINE Chars == {chars[i] : i \in 1 .. w}
<1>8. chars \in Seq(Chars) /\ Len(chars) = w
  BY ONLY <1>6, w \in Nat, LengthOfFunction, Zenon
<1> HIDE DEF Chars
<1>9. ASSUME NEW k \in 1 .. end - 1 PROVE chars[k] # NUL
  <2>1. k \in 1 .. Len(text)
    BY <1>1
  <2>2. text[k] \in Characters
    BY <2>1
  <2>3. NUL \notin Characters
    BY DEF NUL, Characters, HexDigits
  <2>. QED BY <1>5, <2>1, <2>2, <2>3
<1> HIDE DEF end
<1>10. Value(chars) = SubSeq(chars, 1, end - 1)
  BY ONLY <1>1, <1>5, <1>8, <1>9, ValueEnds
<1>11. SubSeq(chars, 1, end - 1) = text
  <2>1. end - 1 = Len(text) /\ Len(text) \in Nat /\ Len(text) <= w
    BY ONLY <1>1 DEF end
  <2>2. SubSeq(chars, 1, Len(text)) \in Seq(Chars) /\ Len(SubSeq(chars, 1, Len(text))) = Len(text)
    BY ONLY <1>8, <2>1, w \in Nat
  <2>3. \A k \in 1 .. Len(text) : SubSeq(chars, 1, Len(text))[k] = text[k]
    BY ONLY <1>5, <1>8, <2>1, w \in Nat
  <2>4. SubSeq(chars, 1, Len(text)) = text
    BY ONLY <2>2, <2>3, text \in Seq(Characters)
  <2>. QED BY ONLY <2>1, <2>4
<1>. QED BY ONLY <1>7, <1>10, <1>11

\* A record that was filled from a packet is decoded to it.
LEMMA RecordRead ==
  ASSUME NEW n \in Nat, IsArray(memory, n), NEW base \in Nat, base + RecordSize <= n,
         NEW p \in Records!Packet, NEW i \in 1 .. Len(payloads), payloads \in Seq(Seq(Nat)), payloads[i] = p.payload,
         Written(memory, base, Records!FieldsOf(Records!NativePacket, p, i))
  PROVE  Records!FromNative(memory, base) = Records!AsQueued(p)
<1> DEFINE F == Records!FieldsOf(Records!NativePacket, p, i)
           C == Contents(p, i)
<1>1. i \in Nat \ {0}
  OBVIOUS
<1>2. \A f \in 1 .. 8 : F[f] = <<FieldAt(Names[f]), C[f]>>
  BY <1>1, FieldsContain
<1>3. \A f \in 1 .. 8 : \A j \in 1 .. Len(F[f][2]) : memory[base + F[f][1] + j] = F[f][2][j]
  BY DEF Written
<1>4. /\ C[1] = Records!Number(p.timestamp, FieldWidth("timestamp_unix"))
      /\ C[2] = Records!Number(p.protocol, FieldWidth("protocol"))
      /\ C[3] = Records!Number(p.source_port, FieldWidth("source_port"))
      /\ C[4] = Records!Number(p.destination_port, FieldWidth("destination_port"))
      /\ C[5] = Records!Number(IF p.payload = <<>> THEN 0 ELSE i, FieldWidth("payload"))
      /\ C[6] = Records!Number(Len(p.payload), FieldWidth("payload_size"))
      /\ C[7] = Records!Characters(Records!AddressText(p.source))
      /\ C[8] = Records!Characters(Records!AddressText(p.destination))
  BY DEF Contents
<1> HIDE DEF F, C
<1>5. \A f \in 1 .. 8 : \A j \in 1 .. Len(C[f]) : memory[base + FieldAt(Names[f]) + j] = C[f][j]
  <2>1. \A f \in 1 .. 8 : F[f][1] = FieldAt(Names[f]) /\ F[f][2] = C[f]
    BY ONLY <1>2
  <2>. QED BY ONLY <1>3, <2>1, ZenonT(30)
<1>6. ASSUME NEW f \in 1 .. 8, NEW v, C[f] = Records!Number(v, FieldWidth(Names[f]))
      PROVE  Records!NumberAt(memory, base + FieldAt(Names[f]), FieldWidth(Names[f])) = v
  <2> DEFINE a == FieldAt(Names[f])
             w == FieldWidth(Names[f])
  <2>1. a \in Nat /\ w \in Nat \ {0} /\ a + w <= RecordSize /\ RecordSize \in Nat
    BY FieldFacts, NamesOfFields
  <2>2. \A j \in 1 .. Len(C[f]) : memory[base + a + j] = C[f][j]
    BY ONLY <1>5, f \in 1 .. 8
  <2>3. Len(Records!Number(v, w)) = w
    BY <2>1 DEF Records!Number
  <2> HIDE DEF a, w
  <2>4. base + a \in Nat /\ base + a + w <= n
    BY ONLY <2>1, n \in Nat, base \in Nat, base + RecordSize <= n
  <2>5. C[f] = Records!Number(v, w)
    BY <1>6 DEF w
  <2>6. \A j \in 1 .. w : memory[base + a + j] = Records!Number(v, w)[j]
    BY ONLY <2>2, <2>3, <2>5
  <2>7. Records!NumberAt(memory, base + a, w) = v
    BY ONLY <2>1, <2>4, <2>6, n \in Nat, IsArray(memory, n), NumberRead
  <2>. QED BY <2>7 DEF a, w
<1>7. ASSUME NEW f \in {7, 8}, NEW o \in Records!Octets, C[f] = Records!Characters(Records!AddressText(o))
      PROVE  Records!TextAt(memory, base + FieldAt(Names[f]), FieldWidth(Names[f])) = Records!AddressText(o)
  <2> DEFINE a == FieldAt(Names[f])
             w == FieldWidth(Names[f])
             t == Records!AddressText(o)
  <2>1. f \in 1 .. 8 /\ Names[f] \in Records!Texts
    BY DEF Names, Records!Texts
  <2>2. a \in Nat /\ w \in Nat /\ a + w <= RecordSize /\ RecordSize \in Nat /\ w >= 40
    BY <2>1, FieldFacts, NamesOfFields
  <2>3. t \in Seq(Characters) /\ Len(t) \in Nat /\ Len(t) <= 39
    BY AddressIsText
  <2>4. \A j \in 1 .. Len(C[f]) : memory[base + a + j] = C[f][j]
    BY ONLY <1>5, <2>1
  <2>5. C[f] = Records!Characters(t)
    BY <1>7
  <2> HIDE DEF a, w, t
  <2>6. base + a \in Nat /\ base + a + w <= n /\ Len(t) < w
    BY ONLY <2>2, <2>3, n \in Nat, base \in Nat, base + RecordSize <= n
  <2>7. \A j \in 1 .. Len(t) + 1 : memory[base + a + j] = Records!Characters(t)[j]
    <3>1. Len(Records!Characters(t)) = Len(t) + 1
      BY ONLY <2>3, TextCells
    <3>. QED BY ONLY <2>4, <2>5, <3>1
  <2> DEFINE from == base + a
  <2>8. from \in Nat /\ from + w <= n /\ w \in Nat /\ TextIn(memory, from, t)
    BY <2>2, <2>6, <2>7 DEF TextIn
  <2> HIDE DEF from
  <2>9. Records!TextAt(memory, from, w) = t
    BY ONLY <2>3, <2>6, <2>8, n \in Nat, IsArray(memory, n), TextRead
  <2>. QED BY <2>9 DEF a, w, t, from
<1>8. /\ Names[1] = "timestamp_unix" /\ Names[2] = "protocol" /\ Names[3] = "source_port"
      /\ Names[4] = "destination_port" /\ Names[5] = "payload" /\ Names[6] = "payload_size"
      /\ Names[7] = "source_address" /\ Names[8] = "destination_address"
  BY DEF Names
<1> DEFINE number(name) == Records!NumberAt(memory, base + FieldAt(name), FieldWidth(name))
           text(name)   == Records!TextAt(memory, base + FieldAt(name), FieldWidth(name))
<1>9. number("timestamp_unix") = p.timestamp
  BY ONLY <1>4, <1>6, <1>8, 1 \in 1 .. 8
<1>10. number("protocol") = p.protocol
  BY ONLY <1>4, <1>6, <1>8, 2 \in 1 .. 8
<1>11. number("source_port") = p.source_port
  BY ONLY <1>4, <1>6, <1>8, 3 \in 1 .. 8
<1>12. number("destination_port") = p.destination_port
  BY ONLY <1>4, <1>6, <1>8, 4 \in 1 .. 8
<1>13. number("payload") = IF p.payload = <<>> THEN 0 ELSE i
  <2> DEFINE v == IF p.payload = <<>> THEN 0 ELSE i
  <2>1. C[5] = Records!Number(v, FieldWidth(Names[5]))
    BY <1>4, <1>8
  <2> HIDE DEF v
  <2>2. number("payload") = v
    BY ONLY <1>6, <1>8, <2>1, 5 \in 1 .. 8
  <2>. QED BY <2>2 DEF v
<1>14. number("payload_size") = Len(p.payload)
  BY ONLY <1>4, <1>6, <1>8, 6 \in 1 .. 8
<1>15. p.source \in Records!Octets /\ p.destination \in Records!Octets /\ p.payload \in Seq(Nat)
  BY PacketParts
<1>16. text("source_address") = Records!AddressText(p.source)
  BY ONLY <1>4, <1>7, <1>8, <1>15
<1>17. text("destination_address") = Records!AddressText(p.destination)
  BY ONLY <1>4, <1>7, <1>8, <1>15
<1>18. (IF number("payload_size") = 0 THEN <<>> ELSE Records!PointedTo(number("payload"), number("payload_size")))
         = p.payload
  <2>1. CASE Len(p.payload) = 0
    <3>1. p.payload = <<>>
      BY ONLY <1>15, <2>1
    <3>. QED BY ONLY <1>14, <2>1, <3>1
  <2>2. CASE Len(p.payload) # 0
    <3>1. p.payload # <<>> /\ Len(p.payload) \in Nat
      BY ONLY <1>15, <2>2
    <3>2. number("payload") = i
      BY ONLY <1>13, <3>1
    <3>3. i \in DOMAIN payloads /\ Len(p.payload) \in 0 .. Len(payloads[i])
      BY <3>1
    <3>4. SubSeq(payloads[i], 1, Len(p.payload)) = p.payload
      BY <1>15
    <3>5. Records!PointedTo(i, Len(p.payload)) = p.payload
      BY ONLY <3>3, <3>4 DEF Records!PointedTo
    <3>. QED BY ONLY <1>14, <2>2, <3>2, <3>5
  <2>. QED BY <2>1, <2>2
<1> DEFINE payload == IF number("payload_size") = 0 THEN <<>>
                      ELSE Records!PointedTo(number("payload"), number("payload_size"))
<1>19. Records!FromNative(memory, base)
         = [timestamp |-> number("timestamp_unix"), protocol |-> number("protocol"),
            source |-> text("source_address"), sport |-> number("source_port"),
            destination |-> text("destination_address"), dport |-> number("destination_port"),
            payload |-> payload]
  BY Zenon DEF Records!FromNative, FieldAt, FieldWidth
<1>20. payload = p.payload
  BY <1>18
<1> HIDE DEF number, text, payload
<1>. QED BY <1>9, <1>10, <1>11, <1>12, <1>14, <1>16, <1>17, <1>19, <1>20 DEF Records!AsQueued

-----------------------------------------------------------------------------
(* The packets that are decoded *)

\* The first t packets are no longer waiting.
Waiting(t) ==
  /\ t + Len(queue) = Len(offered)
  /\ \A i \in 1 .. Len(queue) : queue[i] = offered[t + i]

\* Python goes on while it has fewer than it asked for; a batch is its only call.
Room == Len(decoded) < limit /\ (batched => decoded = <<>>)

\* The records that are filled are those of the packets after the decoded ones.
FilledInv ==
  \A i \in 1 .. Len(payloads) :
    /\ payloads[i] = offered[Len(decoded) + i].payload
    /\ Written(memory, (i - 1) * RecordSize,
               Records!FieldsOf(Records!NativePacket, offered[Len(decoded) + i], i))

\* What is decoded was offered, in order, by a library of the right size.
DecodedInv ==
  /\ offered \in Seq(Records!Packet) /\ batched \in BOOLEAN
  /\ Len(decoded) \in Nat /\ Len(decoded) <= limit /\ Len(decoded) <= Len(offered)
  /\ decoded = [i \in 1 .. Len(decoded) |-> Records!AsQueued(offered[i])]
  /\ decoded # <<>> => Records!SizeOf(layout) = RecordSize

\* Where the call is.
StageInv ==
  /\ pc \in {"prepare", "check", "fill", "decode", "done", "raised"}
  /\ pc \in {"prepare", "check"} => Room /\ Waiting(Len(decoded))
  /\ pc = "check" => \A i \in 0 .. Records!Records - 1 : \A k \in 1 .. 4 :
                       memory[i * RecordSize + k] = <<k, RecordSize>>
  /\ pc \in {"fill", "decode"} =>
       /\ Room /\ Waiting(Len(decoded) + Len(payloads)) /\ FilledInv
       /\ Records!SizeOf(layout) = RecordSize
       /\ Len(memory) = Records!Records * RecordSize /\ Len(payloads) <= Records!Records
  /\ pc = "decode" => Len(payloads) >= 1 /\ (Len(payloads) = Records!Records \/ queue = <<>>)
  /\ pc = "done" => Len(decoded) = limit \/ Len(decoded) = Len(offered)
  /\ pc = "raised" => Records!SizeOf(layout) # RecordSize

DecodeInv == call = "record" => DecodedInv /\ StageInv

LEMMA DecodedNothing ==
  /\ <<>> = [i \in 1 .. 0 |-> Records!AsQueued(offered[i])] /\ Len(<<>>) = 0
OBVIOUS

LEMMA DecodeStarts == Init => DecodeInv
<1>. SUFFICES ASSUME Records!Init PROVE DecodedInv /\ StageInv
  BY DEF Init, DecodeInv
<1>1. /\ offered \in Queues /\ queue = offered /\ limit \in Limits /\ batched \in BOOLEAN
      /\ decoded = <<>> /\ pc = "prepare"
  BY DEF Records!Init
<1>2. offered \in Seq(Records!Packet) /\ limit \in Nat \ {0} /\ Len(offered) \in Nat
  BY <1>1, RecordFacts
<1>3. Len(decoded) = 0
  BY <1>1
<1>4. DecodedInv
  BY <1>1, <1>2, <1>3, DecodedNothing DEF DecodedInv
<1>5. Room /\ Waiting(Len(decoded))
  BY <1>1, <1>2, <1>3 DEF Room, Waiting
<1>. QED BY <1>1, <1>4, <1>5 DEF StageInv

\* Where a record begins the remainder is what was counted since.
LEMMA RemainderInRecord ==
  ASSUME NEW i \in Nat, NEW width \in Nat, width >= 4, NEW k \in 1 .. 4
  PROVE  (i * width + k - 1) % width = k - 1
<1> DEFINE a == i * width + k - 1
           q == a \div width
           r == a % width
<1>1. i * width \in Nat
  OBVIOUS
<1>2. a \in Nat /\ a = i * width + (k - 1) /\ k - 1 \in 0 .. 3
  BY <1>1
<1>3. q \in Nat /\ r \in 0 .. width - 1 /\ a = q * width + r
  <2> HIDE DEF a
  <2>. QED BY <1>2
<1> HIDE DEF a, q, r
<1>4. ~(i < q)
  <2> SUFFICES ASSUME i < q PROVE FALSE
    OBVIOUS
  <2>1. i * width + width <= q * width /\ q * width \in Nat
    BY <1>3, RecordWithin
  <2>. QED BY ONLY <1>1, <1>2, <1>3, <2>1, width \in Nat, width >= 4
<1>5. ~(q < i)
  <2> SUFFICES ASSUME q < i PROVE FALSE
    OBVIOUS
  <2>1. q * width + width <= i * width /\ q * width \in Nat
    BY <1>3, RecordWithin
  <2>. QED BY ONLY <1>1, <1>2, <1>3, <2>1, width \in Nat, width >= 4
<1>6. q = i
  BY ONLY <1>3, <1>4, <1>5, i \in Nat
<1>7. r = k - 1
  BY ONLY <1>1, <1>2, <1>3, <1>6, width \in Nat
<1>. QED BY <1>7 DEF r, a

\* Every record of a new array has its size in front.
LEMMA PreparedSizes ==
  ASSUME RecordInv, call = "record", Records!Prepare, NEW i \in 0 .. Records!Records - 1, NEW k \in 1 .. 4
  PROVE  memory'[i * RecordSize + k] = <<k, RecordSize>>
<1>1. Records!Records \in Nat \ {0} /\ RecordSize \in Nat /\ RecordSize >= 4
  BY RecordFacts DEF RecordInv, Records!Records
<1> DEFINE n == Records!Records * RecordSize
           at == i * RecordSize + k
<1>2. i * RecordSize + RecordSize <= n /\ i * RecordSize \in Nat /\ n \in Nat
  BY <1>1, RecordWithin
<1>3. at \in 1 .. n /\ at - 1 = i * RecordSize + k - 1
  BY <1>1, <1>2
<1>4. (at - 1) % RecordSize = k - 1
  BY <1>1, <1>3, RemainderInRecord
<1>5. ((at - 1) % RecordSize) - 0 \in 0 .. 3 /\ ((at - 1) % RecordSize) - 0 + 1 = k
  BY <1>4
<1>6. memory' = [j \in 1 .. n |->
                   IF ((j - 1) % RecordSize) - 0 \in 0 .. 3
                   THEN Records!Number(RecordSize, 4)[((j - 1) % RecordSize) - 0 + 1]
                   ELSE <<0, Records!NUL>>]
  BY RecordFacts DEF Records!Prepare, RecordSize
<1> HIDE DEF n, at
<1>7. memory'[at] = Records!Number(RecordSize, 4)[k]
  BY ONLY <1>3, <1>5, <1>6
<1>. QED BY <1>7 DEF Records!Number, at

LEMMA PrepareDecodes ==
  ASSUME RecordInv, DecodedInv, StageInv, call = "record", call' = call, Records!Prepare
  PROVE  DecodedInv' /\ StageInv'
<1>1. /\ pc = "prepare" /\ pc' = "check"
      /\ UNCHANGED <<offered, limit, layout, batched, queue, payloads, decoded>>
  BY DEF Records!Prepare, Records!call
<1>2. DecodedInv'
  BY <1>1 DEF DecodedInv
<1>3. Room' /\ Waiting(Len(decoded))'
  BY <1>1 DEF StageInv, Room, Waiting
<1>4. \A i \in 0 .. Records!Records - 1 : \A k \in 1 .. 4 :
        memory'[i * RecordSize + k] = <<k, RecordSize>>
  BY PreparedSizes
<1>5. Records!Records' = Records!Records /\ RecordSize' = RecordSize
  BY <1>1 DEF Records!Records, RecordSize
<1>6. StageInv'
  BY <1>1, <1>3, <1>4, <1>5 DEF StageInv
<1>. QED BY <1>2, <1>6

LEMMA CheckDecodes ==
  ASSUME RecordInv, RecordInv', DecodedInv, StageInv, call = "record", call' = call, Records!Check
  PROVE  DecodedInv' /\ StageInv'
<1>. DEFINE at(i) == i * Records!Stride(layout)
            wrong == {i \in 0 .. Records!Records - 1 :
                        /\ at(i) + 4 <= Len(memory)
                        /\ Records!NumberAt(memory, at(i), 4) # Records!SizeOf(layout)}
<1>1. pc' = IF wrong # {} THEN "raised" ELSE IF queue = <<>> THEN "done" ELSE "fill"
  BY Zenon DEF Records!Check
<1>2. /\ pc = "check" /\ payloads' = <<>>
      /\ UNCHANGED <<offered, limit, layout, batched, queue, memory, decoded>>
  BY DEF Records!Check, Records!call
<1>3. DecodedInv'
  BY <1>2 DEF DecodedInv
<1>4. Room /\ Waiting(Len(decoded))
  BY <1>2 DEF StageInv
<1>5. CASE wrong # {}
  <2>1. PICK i \in 0 .. Records!Records - 1 :
          /\ i * Records!SizeOf(layout) + 4 <= Len(memory)
          /\ Records!NumberAt(memory, i * Records!SizeOf(layout), 4) # Records!SizeOf(layout)
    BY <1>5 DEF Records!Stride
  <2>2. ASSUME Records!SizeOf(layout) = RecordSize PROVE FALSE
    <3> DEFINE from == i * RecordSize
    <3>1. \A k \in 1 .. 4 : memory[from + k] = <<k, RecordSize>>
      BY <1>2 DEF StageInv
    <3>2. /\ Records!Records \in Nat \ {0} /\ RecordSize \in Nat /\ Len(memory) \in Nat
          /\ IsArray(memory, Len(memory))
      BY RecordFacts DEF RecordInv, Records!Records, IsArray
    <3>3. from \in Nat
      BY <3>2, RecordWithin
    <3>4. from + 4 <= Len(memory) /\ Records!NumberAt(memory, from, 4) # RecordSize
      BY <2>1, <2>2
    <3>5. \A k \in 1 .. 4 : memory[from + k] = Records!Number(RecordSize, 4)[k]
      BY <3>1 DEF Records!Number
    <3> HIDE DEF from
    <3>6. Records!NumberAt(memory, from, 4) = RecordSize
      BY ONLY <3>2, <3>3, <3>4, <3>5, NumberRead, SMTT(30)
    <3>. QED BY <3>4, <3>6
  <2>3. pc' = "raised"
    BY <1>1, <1>5
  <2>. QED BY <1>2, <1>3, <2>2, <2>3 DEF StageInv, RecordSize
<1>6. CASE wrong = {} /\ queue = <<>>
  <2>1. pc' = "done"
    BY <1>1, <1>6
  <2>2. Len(decoded) = Len(offered)
    BY <1>4, <1>6 DEF Waiting, DecodedInv
  <2>. QED BY <1>2, <1>3, <2>1, <2>2 DEF StageInv
<1>7. CASE wrong = {} /\ queue # <<>>
  <2>1. pc' = "fill"
    BY <1>1, <1>7
  <2>2. Records!SizeOf(layout)' = RecordSize' /\ Len(memory)' = (Records!Records * RecordSize)'
    BY <2>1 DEF RecordInv
  <2>3. /\ Len(payloads') = 0 /\ Len(decoded) + 0 = Len(decoded)
        /\ Records!Records \in Nat \ {0} /\ Records!Records' = Records!Records
    BY <1>2 DEF DecodedInv, RecordInv, Records!Records
  <2>4. Len(payloads)' <= Records!Records'
    BY <2>3
  <2>5. FilledInv'
    BY <2>3 DEF FilledInv
  <2>6. Room' /\ Waiting(Len(decoded) + Len(payloads))'
    BY <1>2, <1>4, <2>3 DEF Room, Waiting
  <2>. QED BY <1>2, <1>3, <2>1, <2>2, <2>4, <2>5, <2>6 DEF StageInv
<1>. QED BY <1>5, <1>6, <1>7

\* The filled records stay what they were while the next is filled.
LEMMA FillWrites ==
  ASSUME RecordInv, DecodedInv, StageInv, call = "record", Records!Fill,
         NEW done, done = Len(decoded), NEW n, n = Len(payloads)
  PROVE  /\ n \in Nat /\ done \in Nat /\ done + n + 1 \in 1 .. Len(offered)
         /\ offered[done + n + 1] = Head(queue)
         /\ \A i \in 1 .. n + 1 :
              Written(memory', (i - 1) * RecordSize,
                      Records!FieldsOf(Records!NativePacket, offered[done + i], i))
<1> DEFINE base == n * RecordSize
           N == Len(memory)
           size0 == RecordSize
           p(i) == offered[done + i]
           F(i) == Records!FieldsOf(Records!NativePacket, p(i), i)
<1>1. /\ pc = "fill" /\ queue \in Seq(Records!Packet) /\ queue # <<>>
      /\ n \in Nat /\ n < Records!Records /\ Records!Records \in Nat
      /\ layout \in RecordLayouts /\ Records!SizeOf(layout) = RecordSize
      /\ N \in Nat /\ N = Records!Records * RecordSize /\ IsArray(memory, N)
  BY DEF RecordInv, Records!Fill, Records!Records, IsArray
<1>2. /\ offered \in Seq(Records!Packet) /\ done \in Nat /\ Len(offered) \in Nat
      /\ Waiting(done + n) /\ FilledInv
  BY <1>1 DEF DecodedInv, StageInv
<1>3. Len(queue) \in Nat \ {0} /\ Head(queue) = queue[1]
  BY <1>1
<1>4. done + n + 1 \in 1 .. Len(offered) /\ offered[done + n + 1] = Head(queue)
  <2>1. done + n + Len(queue) = Len(offered)
    BY <1>2 DEF Waiting
  <2>2. queue[1] = offered[done + n + 1]
    BY <1>2, <1>3 DEF Waiting
  <2>3. done + n + 1 \in 1 .. Len(offered)
    BY ONLY <1>1, <1>2, <1>3, <2>1
  <2>. QED BY <1>3, <2>2, <2>3
<1>5. ASSUME NEW i \in 1 .. n + 1 PROVE p(i) \in Records!Packet /\ i \in Nat \ {0} /\ LieApart(F(i))
  <2>1. done + i \in 1 .. Len(offered) /\ i \in Nat \ {0}
    BY ONLY <1>1, <1>2, <1>4, i \in 1 .. n + 1
  <2>2. p(i) \in Records!Packet
    BY <1>2, <2>1
  <2>. QED BY <2>1, <2>2, PacketFieldsLieApart
<1>6. size0 \in Nat /\ base \in Nat /\ base + size0 <= N
  BY <1>1, RecordWithin, RecordFacts
<1>7. memory' = Records!Filled(memory, base, F(n + 1))
  <2>1. memory' = Records!Filled(memory, Len(payloads) * Records!Stride(layout),
                                 Records!FieldsOf(layout, Head(queue), Len(payloads) + 1))
    BY Zenon DEF Records!Fill
  <2>2. Records!Stride(layout) = RecordSize
    BY <1>1 DEF Records!Stride
  <2>3. Records!FieldsOf(layout, Head(queue), n + 1) = F(n + 1)
    <3>1. Records!FieldsOf(layout, Head(queue), n + 1)
            = Records!FieldsOf(Records!NativePacket, Head(queue), n + 1)
      BY <1>1, SameFields
    <3>2. p(n + 1) = Head(queue)
      <4>1. done + (n + 1) = done + n + 1
        BY <1>1, <1>2
      <4>. QED BY <1>4, <4>1
    <3>. QED BY <3>1, <3>2
  <2>. QED BY <2>1, <2>2, <2>3
<1>8. n + 1 \in 1 .. n + 1
  BY <1>1
<1>9. LieApart(F(n + 1))
  BY <1>5, <1>8
<1>10. \A i \in 1 .. n : Written(memory, (i - 1) * RecordSize, F(i))
  BY <1>2 DEF FilledInv
<1> HIDE DEF base, N, F, p, size0
<1>11. /\ Written(memory', base, F(n + 1))
       /\ \A k \in 1 .. N : k <= base => memory'[k] = memory[k]
  BY ONLY <1>1, <1>6, <1>7, <1>9, FilledFields DEF size0
<1>12. ASSUME NEW i \in 1 .. n PROVE Written(memory', (i - 1) * RecordSize, F(i))
  <2> DEFINE from == (i - 1) * RecordSize
  <2>1. i - 1 \in Nat /\ i - 1 < n /\ i \in 1 .. n + 1
    BY <1>1
  <2>2. from \in Nat /\ from + RecordSize <= base
    BY <1>1, <1>6, <2>1, RecordWithin DEF base, size0
  <2>3. Written(memory, from, F(i)) /\ LieApart(F(i))
    BY <1>5, <1>10, <2>1
  <2> HIDE DEF from
  <2>4. from + RecordSize <= N /\ RecordSize \in Nat
    BY ONLY <1>1, <1>6, <2>2 DEF size0
  <2>5. \A k \in 1 .. N : k > from /\ k <= from + RecordSize => memory'[k] = memory[k]
    <3> SUFFICES ASSUME NEW k \in 1 .. N, k <= from + RecordSize PROVE memory'[k] = memory[k]
      OBVIOUS
    <3>1. k <= base
      BY ONLY <1>1, <1>6, <2>2, <2>4, k \in 1 .. N, k <= from + RecordSize
    <3>. QED BY <1>11, <3>1
  <2>6. Written(memory', from, F(i))
    BY ONLY <1>1, <2>2, <2>3, <2>4, <2>5, WrittenStays
  <2>. QED BY <2>6 DEF from
<1>13. ASSUME NEW i \in 1 .. n + 1 PROVE Written(memory', (i - 1) * RecordSize, F(i))
  <2>1. CASE i \in 1 .. n
    BY <1>12, <2>1
  <2>2. CASE i = n + 1
    <3>1. (n + 1) - 1 = n
      BY <1>1
    <3>2. (i - 1) * RecordSize = base
      BY <2>2, <3>1 DEF base
    <3>. QED BY <1>11, <2>2, <3>2
  <2>. QED BY <1>1, <2>1, <2>2
<1>. QED BY <1>1, <1>2, <1>4, <1>13 DEF F, p

LEMMA FillDecodes ==
  ASSUME RecordInv, RecordInv', DecodedInv, StageInv, call = "record", call' = call, Records!Fill
  PROVE  DecodedInv' /\ StageInv'
<1> DEFINE done == Len(decoded)
           n == Len(payloads)
<1>1. /\ pc = "fill" /\ payloads' = Append(payloads, Head(queue).payload) /\ queue' = Tail(queue)
      /\ pc' = IF Len(payloads') = Records!Records \/ queue' = <<>> THEN "decode" ELSE "fill"
      /\ UNCHANGED <<offered, limit, layout, batched, decoded>>
  BY DEF Records!Fill, Records!call
<1>2. /\ queue \in Seq(Records!Packet) /\ queue # <<>> /\ payloads \in Seq(Seq(Nat))
      /\ n < Records!Records /\ Records!Records \in Nat /\ Records!SizeOf(layout) = RecordSize
      /\ Len(memory) \in Nat /\ Len(memory) = Records!Records * RecordSize /\ IsArray(memory, Len(memory))
  BY <1>1 DEF RecordInv, Records!Records, IsArray
<1>3. /\ n \in Nat /\ done \in Nat /\ done + n + 1 \in 1 .. Len(offered)
      /\ offered[done + n + 1] = Head(queue)
      /\ \A i \in 1 .. n + 1 :
           Written(memory', (i - 1) * RecordSize,
                   Records!FieldsOf(Records!NativePacket, offered[done + i], i))
  BY FillWrites
<1>4. Room /\ Waiting(done + n) /\ FilledInv
  BY <1>1 DEF StageInv
<1>5. DecodedInv'
  BY <1>1 DEF DecodedInv
<1>6. Room'
  BY <1>1, <1>4 DEF Room
<1>7. Len(payloads') = n + 1 /\ payloads'[n + 1] = Head(queue).payload /\ \A i \in 1 .. n : payloads'[i] = payloads[i]
  <2>1. Head(queue).payload \in Seq(Nat)
    <3>1. Head(queue) \in Records!Packet
      BY <1>2
    <3>. QED BY <3>1, PacketParts
  <2>. QED BY <1>1, <1>2, <2>1
<1>8. Waiting(Len(decoded) + Len(payloads))'
  <2>1. Len(queue) \in Nat \ {0} /\ Len(queue') = Len(queue) - 1 /\ \A i \in 1 .. Len(queue') : queue'[i] = queue[i + 1]
    BY <1>1, <1>2
  <2>2. done + n + Len(queue) = Len(offered) /\ \A i \in 1 .. Len(queue) : queue[i] = offered[done + n + i]
    BY <1>4 DEF Waiting
  <2> HIDE DEF done, n
  <2>3. done + (n + 1) + Len(queue') = Len(offered)
    <3>1. done + n + Len(queue) = Len(offered)
      BY ONLY <2>2
    <3>2. Len(queue) \in Nat /\ Len(queue') = Len(queue) - 1 /\ n \in Nat /\ done \in Nat
      BY ONLY <1>3, <2>1
    <3>. QED BY ONLY <3>1, <3>2
  <2>4. ASSUME NEW i \in 1 .. Len(queue') PROVE queue'[i] = offered[done + (n + 1) + i]
    <3>1. i + 1 \in 1 .. Len(queue) /\ done + n + (i + 1) = done + (n + 1) + i
      BY ONLY <1>3, <2>1, i \in 1 .. Len(queue')
    <3>. QED BY ONLY <2>1, <2>2, <3>1, i \in 1 .. Len(queue')
  <2>5. Len(decoded)' + Len(payloads)' = done + (n + 1)
    BY <1>1, <1>7 DEF done
  <2>. QED BY <1>1, <2>3, <2>4, <2>5 DEF Waiting
<1>9. FilledInv'
  <2> SUFFICES ASSUME NEW i \in 1 .. n + 1
               PROVE  /\ payloads'[i] = offered[done + i].payload
                      /\ Written(memory', (i - 1) * RecordSize,
                                 Records!FieldsOf(Records!NativePacket, offered[done + i], i))
    BY <1>1, <1>7 DEF FilledInv, RecordSize
  <2>1. payloads'[i] = offered[done + i].payload
    <3>1. CASE i \in 1 .. n
      BY <1>4, <1>7, <3>1 DEF FilledInv
    <3>2. CASE i = n + 1
      <4>1. done + (n + 1) = done + n + 1
        BY <1>3
      <4>. QED BY <1>3, <1>7, <3>2, <4>1
    <3>. QED BY <1>3, <3>1, <3>2
  <2>. QED BY <1>3, <2>1
<1>10. Records!Records' = Records!Records /\ Len(memory') = Len(memory)
  <2>1. Records!Records' = Records!Records
    BY <1>1 DEF Records!Records
  <2>2. DOMAIN memory = 1 .. Len(memory)
    BY <1>2 DEF IsArray
  <2>3. \E base, fields : memory' = Records!Filled(memory, base, fields)
    BY Zenon DEF Records!Fill
  <2>4. memory' = [k \in 1 .. Len(memory) |-> memory'[k]]
    BY <2>2, <2>3 DEF Records!Filled
  <2>. QED BY <1>2, <2>1, <2>4, LengthOfFunction
<1>11. /\ pc' \in {"decode", "fill"} /\ Len(payloads)' >= 1 /\ Len(payloads)' <= Records!Records'
       /\ pc' = "decode" => Len(payloads)' = Records!Records' \/ queue' = <<>>
  BY <1>1, <1>2, <1>3, <1>7, <1>10
<1>. QED BY <1>1, <1>2, <1>5, <1>6, <1>8, <1>9, <1>10, <1>11 DEF StageInv, RecordSize

LEMMA DecodeDecodes ==
  ASSUME RecordInv, DecodedInv, StageInv, call = "record", call' = call, Records!Decode
  PROVE  DecodedInv' /\ StageInv'
<1> DEFINE done == Len(decoded)
           n == Len(payloads)
           new == [i \in 1 .. n |-> Records!FromNative(memory, (i - 1) * Records!SizeOf(Records!NativePacket))]
<1>1. /\ pc = "decode" /\ decoded' = decoded \o new
      /\ pc' = IF batched \/ Len(decoded') = limit THEN "done" ELSE "prepare"
      /\ UNCHANGED <<offered, limit, layout, batched, queue, memory, payloads>>
  BY DEF Records!Decode, Records!call
<1>2. /\ payloads \in Seq(Seq(Nat)) /\ n \in Nat /\ limit \in Nat \ {0} /\ queue \in Seq(Records!Packet)
      /\ IsArray(memory, Len(memory)) /\ Len(memory) \in Nat
  BY DEF RecordInv, IsArray
<1>3. /\ offered \in Seq(Records!Packet) /\ batched \in BOOLEAN
      /\ done \in Nat /\ done <= limit /\ done <= Len(offered) /\ Len(offered) \in Nat
      /\ decoded = [i \in 1 .. done |-> Records!AsQueued(offered[i])]
  BY DEF DecodedInv
<1>4. /\ Room /\ Waiting(done + n) /\ FilledInv /\ Records!SizeOf(layout) = RecordSize
      /\ Len(memory) = Records!Records * RecordSize /\ n <= Records!Records
      /\ n >= 1 /\ (n = Records!Records \/ queue = <<>>)
  BY <1>1 DEF StageInv
<1>5. done + n <= Len(offered) /\ (queue = <<>> => done + n = Len(offered))
  <2>1. Len(queue) \in Nat /\ (queue = <<>> => Len(queue) = 0)
    BY <1>2
  <2>2. done + n + Len(queue) = Len(offered)
    BY <1>4 DEF Waiting
  <2> HIDE DEF done, n
  <2>. QED BY ONLY <1>2, <1>3, <2>1, <2>2
<1>6. \A i \in 1 .. n : new[i] = Records!AsQueued(offered[done + i])
  <2> TAKE i \in 1 .. n
  <2>1. /\ payloads[i] = offered[done + i].payload
        /\ Written(memory, (i - 1) * RecordSize,
                   Records!FieldsOf(Records!NativePacket, offered[done + i], i))
    BY <1>4 DEF FilledInv
  <2>2. done + i \in 1 .. Len(offered)
    BY <1>2, <1>3, <1>5
  <2>3. offered[done + i] \in Records!Packet
    BY <1>3, <2>2
  <2> DEFINE base == (i - 1) * RecordSize
  <2>4. base \in Nat /\ base + RecordSize <= Len(memory)
    <3>1. i - 1 \in Nat /\ i - 1 < Records!Records /\ Records!Records \in Nat
      BY <1>2, <1>4 DEF Records!Records
    <3>. QED BY <1>4, <3>1, RecordWithin, RecordFacts
  <2>5. Written(memory, base, Records!FieldsOf(Records!NativePacket, offered[done + i], i))
    BY <2>1
  <2>6. new[i] = Records!FromNative(memory, base)
    BY DEF RecordSize
  <2> HIDE DEF base, new
  <2>7. Records!FromNative(memory, base) = Records!AsQueued(offered[done + i])
    BY <1>2, <2>1, <2>3, <2>4, <2>5, RecordRead
  <2>. QED BY <2>6, <2>7
<1>7. /\ Len(decoded') = done + n
      /\ decoded' = [i \in 1 .. done + n |-> Records!AsQueued(offered[i])]
  <2> DEFINE S == {Records!AsQueued(offered[i]) : i \in 1 .. Len(offered)}
  <2>1. new = [i \in 1 .. n |-> new[i]]
    OBVIOUS
  <2> HIDE DEF new, done, n
  <2>2. \A i \in 1 .. done : decoded[i] = Records!AsQueued(offered[i]) /\ decoded[i] \in S
    <3>1. \A i \in 1 .. done : i \in 1 .. Len(offered)
      BY ONLY <1>3
    <3>. QED BY ONLY <1>3, <3>1
  <2>3. \A i \in 1 .. n : new[i] \in S
    <3>1. \A i \in 1 .. n : done + i \in 1 .. Len(offered)
      BY ONLY <1>2, <1>3, <1>5
    <3>. QED BY ONLY <1>6, <3>1
  <2> HIDE DEF S
  <2>4. decoded \in Seq(S) /\ Len(decoded) = done
    BY ONLY <1>3, <2>2
  <2>5. new \in Seq(S) /\ Len(new) = n
    BY ONLY <1>2, <2>1, <2>3
  <2>6. /\ decoded \o new \in Seq(S) /\ Len(decoded \o new) = done + n
        /\ \A i \in 1 .. done + n : (decoded \o new)[i] = IF i <= done THEN decoded[i] ELSE new[i - done]
    BY ONLY <2>4, <2>5, ConcatProperties
  <2>7. ASSUME NEW i \in 1 .. done + n PROVE (decoded \o new)[i] = Records!AsQueued(offered[i])
    <3>1. CASE i <= done
      <4>1. i \in 1 .. done
        BY ONLY <1>3, <3>1, i \in 1 .. done + n
      <4>. QED BY ONLY <2>2, <2>6, <3>1, <4>1, i \in 1 .. done + n
    <3>2. CASE ~(i <= done)
      <4>1. i - done \in 1 .. n /\ done + (i - done) = i
        BY ONLY <1>2, <1>3, <3>2, i \in 1 .. done + n
      <4>. QED BY ONLY <1>6, <2>6, <3>2, <4>1, i \in 1 .. done + n
    <3>. QED BY <3>1, <3>2
  <2> DEFINE all == decoded \o new
  <2>8. all \in Seq(S) /\ Len(all) = done + n /\ \A i \in 1 .. done + n : all[i] = Records!AsQueued(offered[i])
    BY <2>6, <2>7
  <2> HIDE DEF all
  <2>9. all = [i \in 1 .. done + n |-> Records!AsQueued(offered[i])]
    BY ONLY <1>2, <1>3, <2>8
  <2>. QED BY <1>1, <2>8, <2>9 DEF all
<1>8. done + n <= limit /\ (batched => done = 0 /\ Records!Records = limit)
  <2>1. done < limit /\ (batched => decoded = <<>>)
    BY <1>4 DEF Room
  <2>2. CASE batched
    BY <1>2, <1>4, <2>1, <2>2 DEF Records!Records
  <2>3. CASE ~batched
    <3>1. n <= 1
      BY <1>4, <2>3 DEF Records!Records
    <3>. QED BY <1>2, <1>3, <2>1, <2>3, <3>1
  <2>. QED BY <2>2, <2>3
<1> HIDE DEF done, n, new
<1>9. DecodedInv'
  <2>1. Len(decoded') \in Nat /\ Len(decoded') <= limit /\ Len(decoded') <= Len(offered)
    BY ONLY <1>2, <1>3, <1>5, <1>7, <1>8
  <2>2. decoded' = [i \in 1 .. Len(decoded') |-> Records!AsQueued(offered[i])]
    BY ONLY <1>7
  <2>. QED BY <1>1, <1>3, <1>4, <2>1, <2>2 DEF DecodedInv, RecordSize
<1>10. CASE pc' = "done"
  <2>1. Len(decoded') = limit \/ Len(decoded') = Len(offered)
    <3>1. CASE Len(decoded') = limit
      BY <3>1
    <3>2. CASE Len(decoded') # limit
      <4>1. batched
        BY <1>1, <1>10, <3>2
      <4>2. done + n # limit /\ done = 0 /\ Records!Records = limit
        BY <1>7, <1>8, <3>2, <4>1
      <4>3. n # Records!Records
        BY ONLY <1>2, <4>2
      <4>. QED BY ONLY <1>4, <1>5, <1>7, <4>3
    <3>. QED BY <3>1, <3>2
  <2>. QED BY <1>1, <1>9, <1>10, <2>1 DEF StageInv
<1>11. CASE pc' = "prepare"
  <2>1. ~batched /\ Len(decoded') # limit
    BY <1>1, <1>11
  <2>2. Len(decoded') < limit
    BY ONLY <1>2, <1>3, <1>7, <1>8, <2>1
  <2>3. Room'
    BY <1>1, <2>1, <2>2 DEF Room
  <2>4. Waiting(Len(decoded))'
    BY <1>1, <1>4, <1>7 DEF Waiting
  <2>. QED BY <1>1, <1>9, <1>11, <2>3, <2>4 DEF StageInv
<1>. QED BY <1>1, <1>9, <1>10, <1>11

LEMMA DecodeInvariance == Spec => []DecodeInv
<1>1. RecordInv /\ RecordInv' /\ DecodeInv /\ [Next]_vars => DecodeInv'
  <2>. SUFFICES ASSUME RecordInv, RecordInv', DecodeInv, [Next]_vars PROVE DecodeInv'
    OBVIOUS
  <2>1. CASE call = "record" /\ Records!Next /\ call' = call
    <3>1. DecodedInv /\ StageInv
      BY <2>1 DEF DecodeInv
    <3>. QED BY <2>1, <3>1, PrepareDecodes, CheckDecodes, FillDecodes, DecodeDecodes DEF Records!Next, DecodeInv
  <2>2. CASE call # "record" /\ call' = call
    BY <2>2 DEF DecodeInv
  <2>3. CASE UNCHANGED vars
    <3>1. /\ UNCHANGED <<call, pc, layout, offered, limit, batched, queue, memory, payloads, decoded>>
          /\ Records!Records' = Records!Records /\ RecordSize' = RecordSize
      BY <2>3 DEF vars, recordVars, Records!Records, RecordSize
    <3>2. DecodedInv => DecodedInv'
      BY <3>1 DEF DecodedInv
    <3>3. Room' = Room /\ FilledInv' = FilledInv /\ Waiting(Len(decoded))' = Waiting(Len(decoded))
          /\ Waiting(Len(decoded) + Len(payloads))' = Waiting(Len(decoded) + Len(payloads))
      BY <3>1 DEF Room, FilledInv, Waiting
    <3>4. StageInv => StageInv'
      BY <3>1, <3>3 DEF StageInv
    <3>. QED BY <3>1, <3>2, <3>4 DEF DecodeInv
  <2>. QED BY <2>1, <2>2, <2>3 DEF Next
<1>. QED BY <1>1, DecodeStarts, RecordInvariance, PTL DEF Spec

\* Python gets the packets that were waiting, as many as it asked for, or nothing
\* from a library of another record size; and addresses stay apart.
THEOREM PacketsAreDecoded == Spec => []DecodesWhatWasQueued
<1>1. RecordInv /\ DecodeInv => DecodesWhatWasQueued
  <2>. SUFFICES ASSUME call = "record", RecordInv, DecodedInv, StageInv PROVE Records!DecodesWhatWasQueued
    BY DEF DecodeInv, DecodesWhatWasQueued
  <2>1. /\ offered \in Seq(Records!Packet) /\ limit \in Nat /\ Len(decoded) \in Nat /\ Len(offered) \in Nat
        /\ Len(decoded) <= limit /\ Len(decoded) <= Len(offered)
        /\ decoded = [i \in 1 .. Len(decoded) |-> Records!AsQueued(offered[i])]
    BY DEF DecodedInv, RecordInv
  <2>2. ASSUME pc = "done"
        PROVE  decoded = [i \in 1 .. Records!Min({limit, Len(offered)}) |-> Records!AsQueued(offered[i])]
    <3>1. Records!Min({limit, Len(offered)}) = Len(decoded)
      <4>1. Len(decoded) = limit \/ Len(decoded) = Len(offered)
        BY <2>2 DEF StageInv
      <4>2. Records!Min({limit, Len(offered)}) = IF limit <= Len(offered) THEN limit ELSE Len(offered)
        BY <2>1 DEF Records!Min
      <4> DEFINE m == Records!Min({limit, Len(offered)})
                 a == Len(decoded)
                 b == Len(offered)
      <4>3. /\ limit \in Nat /\ a \in Nat /\ b \in Nat /\ a <= limit /\ a <= b
            /\ (a = limit \/ a = b) /\ m = IF limit <= b THEN limit ELSE b
        BY ONLY <2>1, <4>1, <4>2
      <4> HIDE DEF m, a, b
      <4>4. m = a
        BY ONLY <4>3
      <4>. QED BY <4>4 DEF m, a
    <3>. QED BY ONLY <2>1, <3>1
  <2>3. pc = "raised" => decoded = <<>> /\ Records!SizeOf(layout) # Records!SizeOf(Records!NativePacket)
    BY DEF StageInv, DecodedInv, RecordSize
  <2>4. Records!AddressesDiffer
    <3> SUFFICES ASSUME NEW i \in 1 .. Len(decoded), NEW j \in 1 .. Len(decoded)
                 PROVE  /\ decoded[i].source = decoded[j].source => offered[i].source = offered[j].source
                        /\ decoded[i].source = decoded[j].destination
                             => offered[i].source = offered[j].destination
      BY DEF Records!AddressesDiffer
    <3>1. offered[i] \in Records!Packet /\ offered[j] \in Records!Packet
      BY <2>1
    <3>2. /\ offered[i].source \in Records!Octets /\ offered[j].source \in Records!Octets
          /\ offered[j].destination \in Records!Octets
      BY <3>1, PacketParts
    <3>3. decoded[i] = Records!AsQueued(offered[i]) /\ decoded[j] = Records!AsQueued(offered[j])
      BY <2>1
    <3>4. /\ decoded[i].source = Records!AddressText(offered[i].source)
          /\ decoded[j].source = Records!AddressText(offered[j].source)
          /\ decoded[j].destination = Records!AddressText(offered[j].destination)
      BY <3>3 DEF Records!AsQueued
    <3>. QED BY <3>2, <3>4, AddressesApart
  <2>. QED BY <2>2, <2>3, <2>4 DEF Records!DecodesWhatWasQueued
<1>. QED BY <1>1, RecordInvariance, DecodeInvariance, PTL
=============================================================================
