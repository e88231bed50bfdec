------------------------ MODULE CaptureFilterProofs ------------------------
(***************************************************************************)
(* What CaptureFilter computes is well typed, constrains the session to    *)
(* exactly the protocols the filter names, and, for numbers that fit an    *)
(* int, refuses every port out of range.                                   *)
(***************************************************************************)
EXTENDS CaptureFilter, TLAPS

USE DEF Protocols

-----------------------------------------------------------------------------
(* The text helpers *)

\* ascii_lower leaves a text a text, of the same length.
LEMMA LowerType ==
  ASSUME NEW text \in Seq(Word)
  PROVE  /\ LowerCase(text) \in Seq(Word)
         /\ Len(LowerCase(text)) = Len(text)
         /\ DOMAIN LowerCase(text) = DOMAIN text
         /\ \A i \in DOMAIN text :
              /\ LowerCase(text)[i].text = text[i].text
              /\ LowerCase(text)[i].value = text[i].value
              /\ LowerCase(text)[i].spaces = text[i].spaces
              /\ ~LowerCase(text)[i].capitals
<1>1. \A w \in Word :
        /\ [w EXCEPT !.capitals = FALSE] \in Word
        /\ [w EXCEPT !.capitals = FALSE].text = w.text
        /\ [w EXCEPT !.capitals = FALSE].value = w.value
        /\ [w EXCEPT !.capitals = FALSE].spaces = w.spaces
        /\ ~[w EXCEPT !.capitals = FALSE].capitals
  BY DEF Word
<1>2. LowerCase(text) \in [1 .. Len(text) -> Word]
  <2>1. \A i \in 1 .. Len(text) : text[i] \in Word
    OBVIOUS
  <2> QED
    BY <1>1, <2>1 DEF LowerCase
<1>3. \A i \in DOMAIN text : text[i] \in Word /\ LowerCase(text)[i] = [text[i] EXCEPT !.capitals = FALSE]
  BY DEF LowerCase
<1>4. LowerCase(text) \in Seq(Word) /\ Len(LowerCase(text)) = Len(text) /\ DOMAIN LowerCase(text) = DOMAIN text
  BY <1>2
<1>5. ASSUME NEW i \in DOMAIN text
      PROVE  /\ LowerCase(text)[i].text = text[i].text
             /\ LowerCase(text)[i].value = text[i].value
             /\ LowerCase(text)[i].spaces = text[i].spaces
             /\ ~LowerCase(text)[i].capitals
  <2> DEFINE w == text[i]
  <2>1. w \in Word /\ LowerCase(text)[i] = [w EXCEPT !.capitals = FALSE]
    BY <1>3
  <2> HIDE DEF w
  <2>2. /\ LowerCase(text)[i].text = w.text
        /\ LowerCase(text)[i].value = w.value
        /\ LowerCase(text)[i].spaces = w.spaces
        /\ ~LowerCase(text)[i].capitals
    BY <1>1, <2>1, Zenon
  <2> QED
    BY <2>2 DEF w
<1> QED
  BY <1>4, <1>5

\* An int is an integer, and holds a number that fits unchanged.
LEMMA IntFits ==
  ASSUME NEW n \in Nat
  PROVE  AsInt(n) \in Int /\ (n < IntBound => AsInt(n) = n)
<1>1. IntBound \in Nat \ {0}
  BY FilterAssumption
<1>2. n < IntBound => (n + IntBound) % (2 * IntBound) = n + IntBound
  BY <1>1
<1> QED
  BY <1>1, <1>2 DEF AsInt

\* A port is an integer, whatever the filter looks like.
LEMMA PortType ==
  ASSUME NEW text \in Seq(Word), NEW p \in Protocols
  PROVE  PortOf(p, text) \in Int
<1>1. \A i : PortAt(text, i) \in Int
  <2> TAKE i
  <2>1. CASE i \in DOMAIN text /\ text[i].text = "number"
    <3>1. text[i] \in Word
      BY <2>1
    <3>2. text[i].value \in Nat
      BY <3>1 DEF Word
    <3> QED
      BY <2>1, <3>2, IntFits DEF PortAt
  <2>2. CASE ~(i \in DOMAIN text /\ text[i].text = "number")
    BY <2>2 DEF PortAt
  <2> QED
    BY <2>1, <2>2
<1>2. \A marker : PortAfter(text, marker) \in Int
  BY <1>1 DEF PortAfter
<1> QED
  BY <1>2 DEF PortOf

\* The constraints of a protocol carry its name and, for a port in range,
\* have their type; there is at least one.
LEMMA ConstraintsType ==
  ASSUME NEW p \in Protocols, NEW port \in Int, port <= MaxPort
  PROVE  /\ ConstraintsFor(p, port) \in Seq(Constraint)
         /\ ConstraintsFor(p, port) # <<>>
         /\ \A i \in 1 .. Len(ConstraintsFor(p, port)) : ConstraintsFor(p, port)[i].protocol = p
<1> DEFINE s == [protocol |-> p, source |-> port, destination |-> 0]
           d == [protocol |-> p, source |-> 0, destination |-> port]
           a == [protocol |-> p, source |-> 0, destination |-> 0]
<1>1. MaxPort \in Nat
  BY FilterAssumption
<1>2. CASE port > 0
  <2>1. s \in Constraint /\ d \in Constraint
    BY <1>1, <1>2 DEF Constraint
  <2>2. ConstraintsFor(p, port) = <<s, d>>
    BY <1>2 DEF ConstraintsFor
  <2> HIDE DEF s, d
  <2>3. s.protocol = p /\ d.protocol = p
    BY DEF s, d
  <2> QED
    BY <2>1, <2>2, <2>3
<1>3. CASE ~(port > 0)
  <2>1. a \in Constraint
    BY <1>1 DEF Constraint
  <2>2. ConstraintsFor(p, port) = <<a>>
    BY <1>3 DEF ConstraintsFor
  <2> QED
    BY <2>1, <2>2
<1> QED
  BY <1>2, <1>3

\* A filter names a protocol exactly if the code finds it in the lower-cased
\* text.
LEMMA ContainsNamed ==
  ASSUME filter \in Seq(Word), NEW p \in Protocols
  PROVE  Contains(LowerCase(filter), p) <=> p \in Named
BY LowerType DEF Contains, Says, Named

\* Where the marker of a protocol's port is found in the text.
LEMMA MarkersFound ==
  ASSUME filter \in Seq(Word), NEW p \in Protocols
  PROVE  \E found \in SUBSET (2 .. Len(filter)) :
           /\ \A j \in Int : j \in found <=> /\ j - 1 \in DOMAIN filter
                                             /\ filter[j - 1].text = p /\ HasMarker(j - 1)
           /\ PortAfter(LowerCase(filter), <<p, "port">>) =
                IF found = {} THEN 0 ELSE PortAt(LowerCase(filter), First(found) + 1)
<1> DEFINE text   == LowerCase(filter)
           marker == <<p, "port">>
           found  == {i \in Len(marker) .. Len(text) :
                        \A k \in 1 .. Len(marker) :
                          LET word == text[i - Len(marker) + k] IN
                            Says(word, marker[k]) /\ (k > 1 => word.spaces = 1)}
<1>1. /\ text \in Seq(Word) /\ Len(text) = Len(filter)
      /\ \A j \in 1 .. Len(filter) : /\ text[j].text = filter[j].text
                                    /\ text[j].spaces = filter[j].spaces
                                    /\ ~text[j].capitals
  BY LowerType
<1> HIDE DEF text
<1>2. \A j : j \in found <=>
             /\ j \in 2 .. Len(text)
             /\ Says(text[j - 1], p) /\ Says(text[j], "port") /\ text[j].spaces = 1
  <2>1. Len(marker) = 2 /\ marker[1] = p /\ marker[2] = "port"
    OBVIOUS
  <2> HIDE DEF marker
  <2>2. \A j \in Int : /\ j - Len(marker) + 1 = j - 1
                       /\ j - Len(marker) + 2 = j
                       /\ 1 .. Len(marker) = {1, 2}
    BY <2>1
  <2> QED
    BY <2>1, <2>2, <1>1
<1>3. PortAfter(text, marker) = IF found = {} THEN 0 ELSE PortAt(text, First(found) + 1)
  BY DEF PortAfter
<1> HIDE DEF found, marker
<1>4. ASSUME NEW j \in Int
      PROVE  j \in found <=> /\ j - 1 \in DOMAIN filter
                             /\ filter[j - 1].text = p /\ HasMarker(j - 1)
  <2>1. j \in 2 .. Len(filter) <=> j - 1 \in DOMAIN filter /\ j <= Len(filter)
    OBVIOUS
  <2>2. j \in 2 .. Len(filter) => j - 1 \in 1 .. Len(filter) /\ j \in 1 .. Len(filter) /\ (j - 1) + 1 = j
    OBVIOUS
  <2>3. (j - 1) + 1 = j
    OBVIOUS
  <2> QED
    BY <1>1, <1>2, <2>1, <2>2, <2>3 DEF Says, HasMarker
<1>5. found \in SUBSET (2 .. Len(filter))
  BY <1>1, <1>2
<1> QED
  BY <1>3, <1>4, <1>5 DEF marker, text

\* The port of a protocol is what follows its first marker.
LEMMA FirstMarker ==
  ASSUME filter \in Seq(Word), NEW p \in Protocols,
         NEW i \in DOMAIN filter, filter[i].text = p, HasMarker(i),
         \A j \in 1 .. i - 1 : ~(filter[j].text = p /\ HasMarker(j))
  PROVE  PortAfter(LowerCase(filter), <<p, "port">>) = PortAt(LowerCase(filter), i + 2)
<1>1. PICK found \in SUBSET (2 .. Len(filter)) :
           /\ \A j \in Int : j \in found <=> /\ j - 1 \in DOMAIN filter
                                             /\ filter[j - 1].text = p /\ HasMarker(j - 1)
           /\ PortAfter(LowerCase(filter), <<p, "port">>) =
                IF found = {} THEN 0 ELSE PortAt(LowerCase(filter), First(found) + 1)
  BY MarkersFound
<1>2. i \in Nat \ {0} /\ i + 1 \in Int /\ (i + 1) - 1 = i
  OBVIOUS
<1>3. i + 1 \in found
  BY <1>1, <1>2
<1>4. ASSUME NEW j \in found
      PROVE  i + 1 <= j
  <2>1. j \in Int /\ j - 1 \in DOMAIN filter /\ filter[j - 1].text = p /\ HasMarker(j - 1)
    BY <1>1
  <2>2. j - 1 \notin 1 .. i - 1
    BY <2>1
  <2> QED
    BY <1>2, <2>1, <2>2
<1>5. First(found) = i + 1
  <2>1. First(found) \in found /\ \A j \in found : First(found) <= j
    BY <1>3, <1>4 DEF First
  <2>2. First(found) <= i + 1 /\ i + 1 <= First(found)
    BY <1>3, <1>4, <2>1
  <2>3. Len(filter) \in Nat
    OBVIOUS
  <2>4. First(found) \in 2 .. Len(filter)
    BY <2>1
  <2>5. First(found) \in Int
    BY <2>3, <2>4
  <2> QED
    BY <1>2, <2>2, <2>5
<1>6. First(found) + 1 = i + 2
  BY <1>2, <1>5
<1> QED
  BY <1>1, <1>3, <1>6

\* A number that fits an int is read as it is.
LEMMA NumberRead ==
  ASSUME filter \in Seq(Word), NEW k \in DOMAIN filter,
         filter[k].text = "number", filter[k].value < IntBound
  PROVE  /\ filter[k].value \in Nat
         /\ PortAt(LowerCase(filter), k) = filter[k].value
<1>1. filter[k] \in Word
  OBVIOUS
<1>2. filter[k].value \in Nat
  BY <1>1 DEF Word
<1>3. /\ k \in DOMAIN LowerCase(filter)
      /\ LowerCase(filter)[k].text = "number" /\ LowerCase(filter)[k].value = filter[k].value
  BY LowerType
<1> QED
  BY <1>2, <1>3, IntFits DEF PortAt

\* A protocol whose port passes the check gives a port in range, if the numbers
\* of the filter fit an int.
LEMMA PassedMeansInRange ==
  ASSUME filter \in Seq(Word), \A i \in DOMAIN filter : filter[i].value < IntBound,
         NEW p \in Protocols, PortOf(p, LowerCase(filter)) <= MaxPort
  PROVE  InRange(p)
<1> SUFFICES ASSUME NEW i \in DOMAIN filter, filter[i].text = p, HasPort(i),
                    \A j \in 1 .. i - 1 : ~(filter[j].text = p /\ HasMarker(j))
             PROVE  filter[i + 2].value <= MaxPort
  BY DEF InRange
<1>1. HasMarker(i) /\ i + 2 \in DOMAIN filter /\ filter[i + 2].text = "number"
  BY DEF HasPort
<1>2. /\ filter[i + 2].value \in Nat
      /\ PortAfter(LowerCase(filter), <<p, "port">>) = filter[i + 2].value
  BY <1>1, FirstMarker, NumberRead
<1>3. MaxPort \in Nat
  BY FilterAssumption
<1> QED
  BY <1>2, <1>3 DEF PortOf

-----------------------------------------------------------------------------
(* The inductive invariant *)

Types ==
  /\ filter \in Seq(Word) /\ filter \in Filters
  /\ pc \in Protocols \cup {"done", "failed"}
  /\ pending \in Seq(Constraint)
  /\ session \in SUBSET Constraint

\* What is pending is for the protocol at hand, which the filter names; what the
\* session holds is named, and what is named and dealt with is held.
ProtocolsInv ==
  /\ pending # <<>> => pc \in Named
  /\ \A i \in 1 .. Len(pending) : pending[i].protocol = pc
  /\ \A c \in session : c.protocol \in Named
  /\ pc \in {"udp", "done"} /\ "tcp" \in Named => \E c \in session : c.protocol = "tcp"
  /\ pc = "done" /\ "udp" \in Named => \E c \in session : c.protocol = "udp"

IInv == Types /\ ProtocolsInv

LEMMA TypesKept ==
  ASSUME Types, [Next]_vars
  PROVE  Types'
<1> USE DEF Types
<1>1. CASE UNCHANGED vars
  BY <1>1 DEF vars
<1>2. ASSUME NEW p \in Protocols, Skip(p) \/ OutOfRange(p)
      PROVE  Types'
  BY <1>2 DEF Skip, OutOfRange, After
<1>3. ASSUME NEW p \in Protocols, Choose(p)
      PROVE  Types'
  <2>1. PortOf(p, LowerCase(filter)) \in Int
    BY LowerType, PortType
  <2> QED
    BY <1>3, <2>1, ConstraintsType DEF Choose
<1>4. CASE AddSucceeds
  <2>1. Head(pending) \in Constraint /\ Tail(pending) \in Seq(Constraint)
    BY <1>4 DEF AddSucceeds
  <2> QED
    BY <1>4, <2>1 DEF AddSucceeds, After
<1>5. CASE AddFails
  BY <1>5 DEF AddFails
<1> QED
  BY <1>1, <1>2, <1>3, <1>4, <1>5 DEF Next

LEMMA ProtocolsKept ==
  ASSUME IInv, [Next]_vars
  PROVE  ProtocolsInv'
<1> USE DEF IInv, Types, ProtocolsInv
<1>0. Named' = Named
  BY DEF Next, vars, Skip, OutOfRange, Choose, AddSucceeds, AddFails, Named
<1>1. CASE UNCHANGED vars
  BY <1>0, <1>1 DEF vars
<1>2. ASSUME NEW p \in Protocols, Skip(p)
      PROVE  ProtocolsInv'
  <2>1. p \notin Named
    BY <1>2, ContainsNamed DEF Skip
  <2> QED
    BY <1>0, <1>2, <2>1 DEF Skip, After
<1>3. ASSUME NEW p \in Protocols, OutOfRange(p)
      PROVE  ProtocolsInv'
  BY <1>0, <1>3 DEF OutOfRange
<1>4. ASSUME NEW p \in Protocols, Choose(p)
      PROVE  ProtocolsInv'
  <2>1. p \in Named
    BY <1>4, ContainsNamed DEF Choose
  <2>2. PortOf(p, LowerCase(filter)) \in Int
    BY LowerType, PortType
  <2>3. \A i \in 1 .. Len(pending') : pending'[i].protocol = p
    BY <1>4, <2>2, ConstraintsType DEF Choose
  <2> QED
    BY <1>0, <1>4, <2>1, <2>3 DEF Choose
<1>5. CASE AddSucceeds
  <2>1. /\ Head(pending) = pending[1] /\ Len(pending) \in Nat \ {0}
        /\ Head(pending).protocol = pc /\ pc \in Named
    BY <1>5 DEF AddSucceeds
  <2>2. /\ \A i \in 1 .. Len(pending') : pending'[i] = pending[i + 1]
        /\ Len(pending') = Len(pending) - 1
    BY <1>5 DEF AddSucceeds
  <2>3. \A i \in 1 .. Len(pending') : pending'[i].protocol = pc
    BY <2>1, <2>2
  <2>4. Head(pending) \in session' /\ session \subseteq session'
    BY <1>5 DEF AddSucceeds
  <2>5. CASE Len(pending) = 1
    <3>1. pending' = <<>> /\ pc' = After(pc)
      BY <1>5, <2>5 DEF AddSucceeds
    <3> QED
      BY <1>0, <1>5, <2>1, <2>4, <3>1 DEF AddSucceeds, After, Named
  <2>6. CASE Len(pending) # 1
    BY <1>0, <1>5, <2>1, <2>3, <2>4, <2>6 DEF AddSucceeds
  <2> QED
    BY <2>5, <2>6
<1>6. CASE AddFails
  BY <1>0, <1>6 DEF AddFails
<1> QED
  BY <1>1, <1>2, <1>3, <1>4, <1>5, <1>6 DEF Next

LEMMA Invariance == Spec => []IInv
<1>1. Init => IInv
  BY FilterAssumption DEF Init, IInv, Types, ProtocolsInv
<1>2. IInv /\ [Next]_vars => IInv'
  BY TypesKept, ProtocolsKept DEF IInv
<1> QED
  BY <1>1, <1>2, PTL DEF Spec

\* Every variable has its type: no constraint gets a port out of range.
THEOREM TypeCorrect == Spec => []TypeOK
<1>1. IInv => TypeOK
  BY DEF IInv, Types, TypeOK
<1> QED
  BY <1>1, Invariance, PTL

\* A session whose filter names a protocol is constrained to exactly the
\* protocols it names.
THEOREM NamesAreConstrained == Spec => []OnlyNamedProtocols
<1>1. IInv => OnlyNamedProtocols
  BY DEF IInv, ProtocolsInv, OnlyNamedProtocols, Named
<1> QED
  BY <1>1, Invariance, PTL

-----------------------------------------------------------------------------
(* The range check *)

NumbersFit == \A f \in Filters : \A i \in DOMAIN f : f[i].value < IntBound

\* A protocol that is dealt with, or being dealt with, has its port in range.
RangeInv ==
  /\ pending # <<>> => InRange(pc)
  /\ pc \in {"udp", "done"} => InRange("tcp")
  /\ pc = "done" => InRange("udp")

LEMMA RangeKept ==
  ASSUME NumbersFit, IInv, RangeInv, [Next]_vars
  PROVE  RangeInv'
<1> USE DEF RangeInv
<1>0. \A p : InRange(p)' <=> InRange(p)
  BY DEF Next, vars, Skip, OutOfRange, Choose, AddSucceeds, AddFails, InRange, HasPort, HasMarker
<1>1. CASE UNCHANGED vars
  BY <1>0, <1>1 DEF vars
<1>2. ASSUME NEW p \in Protocols, Skip(p)
      PROVE  RangeInv'
  <2>1. p \notin Named
    BY <1>2, ContainsNamed DEF Skip, IInv, Types
  <2>2. InRange(p)
    BY <2>1 DEF InRange, Named
  <2> QED
    BY <1>0, <1>2, <2>2 DEF Skip, After
<1>3. ASSUME NEW p \in Protocols, OutOfRange(p)
      PROVE  RangeInv'
  BY <1>0, <1>3 DEF OutOfRange
<1>4. ASSUME NEW p \in Protocols, Choose(p)
      PROVE  RangeInv'
  <2>1. InRange(p)
    BY <1>4, PassedMeansInRange DEF Choose, IInv, Types, NumbersFit
  <2> QED
    BY <1>0, <1>4, <2>1 DEF Choose
<1>5. CASE AddSucceeds
  <2>1. pending # <<>> /\ pc \in Protocols /\ Len(pending) \in Nat \ {0}
    BY <1>5 DEF AddSucceeds, IInv, Types, ProtocolsInv, Named
  <2>2. CASE Len(pending) = 1
    <3>1. pending' = <<>> /\ pc' = After(pc)
      BY <1>5, <2>2 DEF AddSucceeds, IInv, Types
    <3> QED
      BY <1>0, <2>1, <3>1 DEF After
  <2>3. CASE Len(pending) # 1
    BY <1>0, <1>5, <2>1, <2>3 DEF AddSucceeds
  <2> QED
    BY <2>2, <2>3
<1>6. CASE AddFails
  BY <1>0, <1>6 DEF AddFails
<1> QED
  BY <1>1, <1>2, <1>3, <1>4, <1>5, <1>6 DEF Next

\* With numbers that fit an int, every port out of range is refused.
THEOREM RangeIsChecked ==
  ASSUME NumbersFit
  PROVE  Spec => []RangeChecked
<1>1. Init => RangeInv
  BY DEF Init, RangeInv
<1>2. IInv /\ RangeInv /\ [Next]_vars => RangeInv'
  BY RangeKept
<1>3. RangeInv => RangeChecked
  BY DEF RangeInv, RangeChecked
<1> QED
  BY <1>1, <1>2, <1>3, Invariance, PTL DEF Spec
-----------------------------------------------------------------------------
(* The meaning of a filter *)

\* The constraints a session should get for a protocol.
Wanted(p) ==
  LET all == ConstraintsFor(p, PortOf(p, LowerCase(filter)))
  IN IF p \in Named THEN {all[i] : i \in DOMAIN all} ELSE {}

Held(p) == {c \in session : c.protocol = p}

\* The session gets what is wanted, protocol by protocol.
SessionInv ==
  /\ pc = "tcp" => Held("udp") = {}
  /\ pc \in Protocols /\ pending = <<>> => Held(pc) = {}
  /\ pending # <<>> => Held(pc) \cup {pending[i] : i \in DOMAIN pending} = Wanted(pc)
  /\ pc \in {"udp", "done"} => Held("tcp") = Wanted("tcp")
  /\ pc = "done" => Held("udp") = Wanted("udp")

LEMMA SessionKept ==
  ASSUME IInv, SessionInv, [Next]_vars
  PROVE  SessionInv'
<1> USE DEF SessionInv
<1>0. \A p : Wanted(p)' = Wanted(p)
  <2>1. UNCHANGED filter
    BY SMTT(30) DEF Next, vars, Skip, OutOfRange, Choose, AddSucceeds, AddFails
  <2> QED
    BY <2>1, ZenonT(40) DEF Wanted, Named
<1>1. CASE UNCHANGED vars
  BY <1>0, <1>1 DEF vars, Held
<1>2. ASSUME NEW p \in Protocols, Skip(p)
      PROVE  SessionInv'
  <2>1. Wanted(p) = {}
    BY <1>2, ContainsNamed DEF Skip, IInv, Types, Wanted
  <2>2. \A q : Held(q)' = Held(q)
    BY <1>2 DEF Skip, Held
  <2> QED
    BY <1>0, <1>2, <2>1, <2>2 DEF Skip, After
<1>3. ASSUME NEW p \in Protocols, OutOfRange(p)
      PROVE  SessionInv'
  BY <1>0, <1>3 DEF OutOfRange, Held
<1>4. ASSUME NEW p \in Protocols, Choose(p)
      PROVE  SessionInv'
  <2>1. Wanted(p) = {pending'[i] : i \in DOMAIN pending'}
    BY <1>4, ContainsNamed DEF Choose, IInv, Types, Wanted
  <2>2. /\ \A q : Held(q)' = Held(q)
        /\ pc' = p /\ pc = p /\ Held(p) = {}
    BY <1>4 DEF Choose, Held
  <2>3. pending' # <<>>
    <3>1. PortOf(p, LowerCase(filter)) \in Int
      BY LowerType, PortType DEF IInv, Types
    <3> QED
      BY <1>4, <3>1, ConstraintsType DEF Choose
  <2> QED
    BY <1>0, <2>1, <2>2, <2>3
<1>5. CASE AddSucceeds
  <2> DEFINE rest == {pending'[i] : i \in DOMAIN pending'}
  <2>1. /\ pending # <<>> /\ pending \in Seq(Constraint) /\ Len(pending) \in Nat \ {0}
        /\ pc \in Protocols /\ \A i \in 1 .. Len(pending) : pending[i].protocol = pc
    BY <1>5 DEF AddSucceeds, IInv, Types, ProtocolsInv, Named
  <2>2. PICK p \in Protocols : pc = p
    BY <2>1
  <2>3. /\ Head(pending) = pending[1] /\ Len(pending') = Len(pending) - 1
        /\ pending' \in Seq(Constraint)
        /\ \A i \in 1 .. Len(pending') : pending'[i] = pending[i + 1]
    BY <1>5, <2>1 DEF AddSucceeds
  <2>4. {pending[i] : i \in DOMAIN pending} = {Head(pending)} \cup rest
    <3>1. DOMAIN pending = 1 .. Len(pending) /\ DOMAIN pending' = 1 .. Len(pending')
      BY <2>1, <2>3
    <3>2. ASSUME NEW i \in DOMAIN pending PROVE pending[i] \in {Head(pending)} \cup rest
      <4>1. i = 1 \/ (i - 1 \in DOMAIN pending' /\ pending[i] = pending'[i - 1])
        BY <2>1, <2>3, <3>1
      <4> QED
        BY <2>3, <4>1
    <3>3. ASSUME NEW i \in DOMAIN pending' PROVE pending'[i] \in {pending[j] : j \in DOMAIN pending}
      <4>1. i + 1 \in DOMAIN pending /\ pending'[i] = pending[i + 1]
        BY <2>1, <2>3, <3>1
      <4> QED
        BY <4>1
    <3>4. Head(pending) \in {pending[j] : j \in DOMAIN pending}
      BY <2>1, <2>3, <3>1
    <3> QED
      BY <3>2, <3>3, <3>4
  <2>5. \A q : Held(q)' = Held(q) \cup (IF q = p THEN {Head(pending)} ELSE {})
    <3>1. Head(pending).protocol = p
      BY <2>1, <2>2
    <3> QED
      BY <1>5, <3>1 DEF AddSucceeds, Held
  <2>6. Held(p)' \cup rest = Wanted(p)
    <3>1. Held(p) \cup ({Head(pending)} \cup rest) = Wanted(p)
      BY <2>1, <2>2, <2>4
    <3>2. Held(p)' = Held(p) \cup {Head(pending)}
      BY <2>5
    <3> HIDE DEF rest
    <3> QED
      BY <3>1, <3>2
  <2>7. CASE Len(pending) = 1
    <3>1. pending' = <<>> /\ pc' = After(p)
      BY <1>5, <2>1, <2>2, <2>7 DEF AddSucceeds
    <3>2. Held(p)' = Wanted(p)
      <4>1. rest = {}
        BY <3>1
      <4> HIDE DEF rest
      <4> QED
        BY <2>6, <4>1
    <3>3. CASE p = "tcp"
      <4>1. Held("udp")' = {} /\ Held("tcp")' = Wanted("tcp") /\ pc' = "udp"
        BY <2>2, <2>5, <3>1, <3>2, <3>3 DEF After
      <4> QED
        BY <1>0, <3>1, <4>1
    <3>4. CASE p = "udp"
      <4>1. Held("tcp")' = Wanted("tcp") /\ Held("udp")' = Wanted("udp") /\ pc' = "done"
        BY <2>2, <2>5, <3>1, <3>2, <3>4 DEF After
      <4> QED
        BY <1>0, <3>1, <4>1
    <3> QED
      BY <3>3, <3>4
  <2>8. CASE Len(pending) # 1
    <3>1. Len(pending') # 0
      BY <2>1, <2>3, <2>8
    <3>2. pc' = p /\ pending' # <<>>
      BY <1>5, <2>2, <2>8, <3>1 DEF AddSucceeds
    <3>3. p # "udp" => Held("udp")' = {}
      BY <2>2, <2>5
    <3>4. p = "udp" => Held("tcp")' = Wanted("tcp")
      BY <2>2, <2>5
    <3> QED
      BY <1>0, <2>6, <3>2, <3>3, <3>4
  <2> QED
    BY <2>7, <2>8
<1>6. CASE AddFails
  BY <1>0, <1>6 DEF AddFails
<1> QED
  BY <1>1, <1>2, <1>3, <1>4, <1>5, <1>6 DEF Next

\* In a filter of the documented form, the port of a protocol's constraints is
\* that of its only clause.
LEMMA PortOfClause ==
  ASSUME filter \in Seq(Word), Documented,
         NEW p \in Protocols, NEW i \in DOMAIN filter, filter[i].text = p
  PROVE  IF HasPort(i) THEN /\ filter[i + 2].value \in 1 .. MaxPort
                            /\ PortOf(p, LowerCase(filter)) = filter[i + 2].value
                       ELSE PortOf(p, LowerCase(filter)) = 0
<1>1. \A j \in DOMAIN filter : filter[j].text = p => j = i
  BY DEF Documented
<1>2. MaxPort \in Nat /\ IntBound \in Nat /\ MaxPort < IntBound
  BY FilterAssumption
<1>3. CASE HasPort(i)
  <2>1. /\ HasMarker(i) /\ i + 2 \in DOMAIN filter /\ filter[i + 2].text = "number"
        /\ i + 1 \in DOMAIN filter /\ filter[i + 1].text = "port"
    BY <1>3 DEF HasPort, HasMarker
  <2>2. (i + 1) + 1 = i + 2
    OBVIOUS
  <2>3. filter[i + 2].value \in 1 .. MaxPort
    BY <2>1, <2>2 DEF Documented
  <2>4. \A j \in 1 .. i - 1 : filter[j].text # p
    BY <1>1
  <2>5. PortAfter(LowerCase(filter), <<p, "port">>) = filter[i + 2].value
    <3>1. PortAfter(LowerCase(filter), <<p, "port">>) = PortAt(LowerCase(filter), i + 2)
      BY <2>1, <2>4, FirstMarker
    <3>2. filter[i + 2].value < IntBound
      BY <1>2, <2>3
    <3> QED
      BY <2>1, <3>1, <3>2, NumberRead
  <2> QED
    BY <1>2, <1>3, <2>3, <2>5 DEF PortOf
<1>4. CASE ~HasPort(i)
  <2>1. ~HasMarker(i)
    <3> SUFFICES ASSUME HasMarker(i) PROVE HasPort(i)
      BY <1>4
    <3>1. i + 1 \in DOMAIN filter /\ filter[i + 1].text = "port" /\ (i + 1) - 1 = i
      BY DEF HasMarker
    <3> QED
      BY <3>1 DEF Documented
  <2>2. PortAfter(LowerCase(filter), <<p, "port">>) = 0
    <3>1. PICK found \in SUBSET (2 .. Len(filter)) :
               /\ \A j \in Int : j \in found <=> /\ j - 1 \in DOMAIN filter
                                                 /\ filter[j - 1].text = p /\ HasMarker(j - 1)
               /\ PortAfter(LowerCase(filter), <<p, "port">>) =
                    IF found = {} THEN 0 ELSE PortAt(LowerCase(filter), First(found) + 1)
      BY MarkersFound
    <3>2. \A j \in found : j \in Int /\ j - 1 = i
      BY <1>1, <3>1
    <3>3. found = {}
      BY <2>1, <3>1, <3>2
    <3> QED
      BY <3>1, <3>3
  <2>3. CASE p = "tcp"
    <3>1. \A j \in DOMAIN filter : filter[j].text # "port"
      BY <1>4, <2>3 DEF Documented
    <3>2. PortAfter(LowerCase(filter), <<"port">>) = 0
      <4> DEFINE text  == LowerCase(filter)
                 found == {j \in Len(<<"port">>) .. Len(text) :
                             \A k \in 1 .. Len(<<"port">>) :
                               LET word == text[j - Len(<<"port">>) + k] IN
                                 Says(word, <<"port">>[k]) /\ (k > 1 => word.spaces = 1)}
      <4>1. Len(text) = Len(filter) /\ \A j \in DOMAIN filter : text[j].text = filter[j].text
        BY LowerType
      <4> HIDE DEF text
      <4>2. Len(<<"port">>) = 1 /\ <<"port">>[1] = "port"
        OBVIOUS
      <4>3. ASSUME NEW j \in found PROVE FALSE
        <5>1. j \in 1 .. Len(filter) /\ j - 1 + 1 = j
          BY <4>1, <4>2
        <5>2. Says(text[j], "port")
          BY <4>2, <5>1
        <5> QED
          BY <3>1, <4>1, <5>1, <5>2 DEF Says
      <4>4. found = {}
        BY <4>3
      <4> QED
        BY <4>4 DEF PortAfter, text
    <3> QED
      BY <1>4, <2>2, <2>3, <3>2 DEF PortOf
  <2>4. CASE p # "tcp"
    BY <1>4, <2>2, <2>4 DEF PortOf
  <2> QED
    BY <2>3, <2>4
<1> QED
  BY <1>3, <1>4

\* For every filter of the documented form, of any length, in any case and
\* spacing, the session captures the packets the filter means, and no others.
THEOREM FiltersAreUnderstood == Spec => []CapturesWhatIsMeant
<1>1. Init => SessionInv
  BY DEF Init, SessionInv, Held
<1>2. IInv /\ SessionInv /\ [Next]_vars => SessionInv'
  BY SessionKept
<1>3. IInv /\ SessionInv => CapturesWhatIsMeant
  <2> SUFFICES ASSUME IInv, SessionInv, pc = "done", Documented, NEW packet \in Packets
               PROVE  Captured(packet) <=> Meant(packet)
    BY DEF CapturesWhatIsMeant
  <2> DEFINE p == packet.protocol
  <2>1. /\ filter \in Seq(Word) /\ p \in Protocols \cup {"icmp"}
        /\ packet.source \in Nat /\ packet.destination \in Nat
    <3>1. packet.source \in Ports /\ packet.destination \in Ports /\ p \in Protocols \cup {"icmp"}
      BY DEF Packets
    <3>2. Ports \subseteq Nat
      BY FilterAssumption
    <3> QED
      BY <3>1, <3>2 DEF IInv, Types
  <2>2. session # {}
    BY DEF IInv, ProtocolsInv, Documented, Named
  <2>3. CASE p \notin Named
    <3>1. \A i \in DOMAIN filter : filter[i].text # p
      <4>1. \A i \in DOMAIN filter : filter[i] \in Word
        BY <2>1
      <4> QED
        BY <2>1, <2>3, <4>1 DEF Word, Named
    <3>2. \A c \in session : c.protocol # p
      BY <2>3 DEF IInv, ProtocolsInv
    <3> QED
      BY <2>2, <3>1, <3>2 DEF Captured, Meant
  <2>4. CASE p \in Named
    <3>1. PICK i \in DOMAIN filter : filter[i].text = p
      BY <2>4 DEF Named
    <3>2. p \in Protocols /\ \A j \in DOMAIN filter : filter[j].text = p => j = i
      BY <2>4, <3>1 DEF Documented, Named
    <3> DEFINE all == ConstraintsFor(p, PortOf(p, LowerCase(filter)))
    <3>3. \A c : c \in session /\ c.protocol = p <=> \E k \in DOMAIN all : c = all[k]
      <4>1. Held(p) = Wanted(p)
        BY <3>2 DEF SessionInv
      <4> QED
        BY <2>4, <4>1 DEF Held, Wanted
    <3>4. Captured(packet) <=> \E k \in DOMAIN all : /\ all[k].source \in {0, packet.source}
                                                     /\ all[k].destination \in {0, packet.destination}
      BY <2>2, <3>3 DEF Captured
    <3>5. Meant(packet) <=> (HasPort(i) => filter[i + 2].value \in {packet.source, packet.destination})
      BY <3>1, <3>2 DEF Meant
    <3>6. CASE HasPort(i)
      <4> DEFINE n == filter[i + 2].value
                 s == [protocol |-> p, source |-> n, destination |-> 0]
                 d == [protocol |-> p, source |-> 0, destination |-> n]
      <4>1. n \in 1 .. MaxPort /\ PortOf(p, LowerCase(filter)) = n
        BY <2>1, <3>1, <3>2, <3>6, PortOfClause
      <4>2. MaxPort \in Nat
        BY FilterAssumption
      <4> HIDE DEF n
      <4>3. all = <<s, d>>
        BY <4>1, <4>2 DEF ConstraintsFor
      <4>4. /\ DOMAIN all = {1, 2}
            /\ all[1].source = n /\ all[1].destination = 0
            /\ all[2].source = 0 /\ all[2].destination = n
        BY <4>3
      <4> HIDE DEF all
      <4>5. n # 0
        BY ONLY <4>1, <4>2
      <4>6. Captured(packet) <=> n \in {packet.source, packet.destination}
        BY ONLY <3>4, <4>4, <4>5
      <4> QED
        BY <3>5, <3>6, <4>6 DEF n
    <3>7. CASE ~HasPort(i)
      <4>1. PortOf(p, LowerCase(filter)) = 0
        BY <2>1, <3>1, <3>2, <3>7, PortOfClause
      <4>2. all = <<[protocol |-> p, source |-> 0, destination |-> 0]>>
        BY <4>1 DEF ConstraintsFor
      <4>3. DOMAIN all = {1} /\ all[1].source = 0 /\ all[1].destination = 0
        BY <4>2
      <4> HIDE DEF all
      <4> QED
        BY <3>4, <3>5, <3>7, <4>3
    <3> QED
      BY <3>6, <3>7
  <2> QED
    BY <2>3, <2>4
<1> QED
  BY <1>1, <1>2, <1>3, Invariance, PTL DEF Spec
=============================================================================
