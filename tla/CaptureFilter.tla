--------------------------- MODULE CaptureFilter ---------------------------
(***************************************************************************)
(* configure_session_constraints (native/src/pktmon_backend.cpp): how a    *)
(* filter text becomes constraints of the capture session, one             *)
(* PacketMonitorAddCaptureConstraint after the other, each of which may    *)
(* fail.                                                                   *)
(*                                                                         *)
(* A filter is seen as its words, each with the number of spaces in front  *)
(* of it, which may be none: the code looks for words anywhere.  A word in *)
(* capitals is the same word with its flag set, a run of digits is the     *)
(* number it denotes, and "or" stands for every other text.  Ports and     *)
(* ints are scaled down: a port is at most MaxPort, an int at least        *)
(* -IntBound and less than IntBound.                                       *)
(***************************************************************************)
EXTENDS Integers, Sequences, FiniteSets

CONSTANTS
  Filters,    \* the filters a start may be given
  MaxPort,    \* 65535
  IntBound,   \* 2^31
  Ports       \* the ports packets may have

Protocols == {"tcp", "udp"}
Word ==
  [text: Protocols \cup {"port", "or", "number"}, capitals: BOOLEAN, value: Nat, spaces: Nat]

ASSUME FilterAssumption ==
  /\ Filters \subseteq Seq(Word)
  /\ \A text \in Filters : \A i \in 2 .. Len(text) :
       text[i - 1].text = "number" /\ text[i].text = "number" => text[i].spaces > 0
  /\ IntBound \in Nat /\ MaxPort \in 1 .. IntBound - 1
  /\ Ports \subseteq 0 .. MaxPort

VARIABLES
  filter,    \* the filter text
  pc,        \* where configure_session_constraints is
  pending,   \* the constraints it is about to add
  session    \* the constraints of the session

vars == <<filter, pc, pending, session>>

\* A port of 0 is a port that is not present.
Constraint == [protocol: Protocols, source: 0 .. MaxPort, destination: 0 .. MaxPort]

Init ==
  /\ filter \in Filters
  /\ pc = "tcp"
  /\ pending = <<>>
  /\ session = {}

-----------------------------------------------------------------------------
(* The text helpers *)

LowerCase(text) == [i \in DOMAIN text |-> [text[i] EXCEPT !.capitals = FALSE]]

Says(word, text) == word.text = text /\ ~word.capitals

Contains(text, needle) == \E i \in DOMAIN text : Says(text[i], needle)

\* What an int holds once the digits of n have been accumulated in it.  The
\* accumulation is not checked: it wraps, as the compilers of the build let it.
AsInt(n) == ((n + IntBound) % (2 * IntBound)) - IntBound

PortAt(text, i) ==
  IF i \in DOMAIN text /\ text[i].text = "number" THEN AsInt(text[i].value) ELSE 0

First(S) == CHOOSE i \in S : \A j \in S : i <= j

\* extract_port_after: the number that follows the first occurrence of the
\* marker, which is "port", or a protocol and "port" with one space between them.
PortAfter(text, marker) ==
  LET found == {i \in Len(marker) .. Len(text) :
                  \A k \in 1 .. Len(marker) :
                    LET word == text[i - Len(marker) + k] IN
                      Says(word, marker[k]) /\ (k > 1 => word.spaces = 1)}
  IN IF found = {} THEN 0 ELSE PortAt(text, First(found) + 1)

\* The port of a protocol's constraints; TCP takes any port it finds when it
\* has none of its own.
PortOf(p, text) ==
  LET own == PortAfter(text, <<p, "port">>)
  IN IF p = "tcp" /\ own <= 0 THEN PortAfter(text, <<"port">>) ELSE own

\* Mutant: a port is looked for among the sources only.
ConstraintsFor_SourceOnly(p, port) ==
  <<[protocol |-> p, source |-> IF port > 0 THEN port ELSE 0, destination |-> 0]>>

ConstraintsFor(p, port) ==
  IF port > 0
  THEN << [protocol |-> p, source |-> port, destination |-> 0],
          [protocol |-> p, source |-> 0, destination |-> port] >>
  ELSE << [protocol |-> p, source |-> 0, destination |-> 0] >>

-----------------------------------------------------------------------------
(* The steps of configure_session_constraints *)

After(p) == IF p = "tcp" THEN "udp" ELSE "done"

\* The filter does not name the protocol.
Skip(p) ==
  /\ pc = p /\ pending = <<>>
  /\ ~Contains(LowerCase(filter), p)
  /\ pc' = After(p)
  /\ UNCHANGED <<filter, pending, session>>

OutOfRange(p) ==
  /\ pc = p /\ pending = <<>>
  /\ Contains(LowerCase(filter), p)
  /\ PortOf(p, LowerCase(filter)) > MaxPort
  /\ pc' = "failed"
  /\ UNCHANGED <<filter, pending, session>>

\* Mutant: the port is not checked.
Choose_Unchecked(p) ==
  /\ pc = p /\ pending = <<>>
  /\ Contains(LowerCase(filter), p)
  /\ pending' = ConstraintsFor(p, PortOf(p, LowerCase(filter)))
  /\ UNCHANGED <<filter, pc, session>>

Choose(p) ==
  /\ pc = p /\ pending = <<>>
  /\ Contains(LowerCase(filter), p)
  /\ PortOf(p, LowerCase(filter)) <= MaxPort
  /\ pending' = ConstraintsFor(p, PortOf(p, LowerCase(filter)))
  /\ UNCHANGED <<filter, pc, session>>

AddSucceeds ==
  /\ pending # <<>>
  /\ session' = session \cup {Head(pending)}
  /\ pending' = Tail(pending)
  /\ pc' = IF Len(pending) = 1 THEN After(pc) ELSE pc
  /\ UNCHANGED filter

\* Mutant: a constraint that could not be added is left out.
AddFails_GoesOn ==
  /\ pending # <<>>
  /\ pending' = Tail(pending)
  /\ pc' = IF Len(pending) = 1 THEN After(pc) ELSE pc
  /\ UNCHANGED <<filter, session>>

AddFails ==
  /\ pending # <<>>
  /\ pending' = <<>>
  /\ pc' = "failed"
  /\ UNCHANGED <<filter, session>>

Next == AddSucceeds \/ AddFails \/ \E p \in Protocols : Skip(p) \/ OutOfRange(p) \/ Choose(p)

Spec == Init /\ [][Next]_vars

-----------------------------------------------------------------------------
(* Properties *)

\* Every variable has its type: a constraint never has a port out of range.
TypeOK ==
  /\ filter \in Filters
  /\ pc \in Protocols \cup {"done", "failed"}
  /\ pending \in Seq(Constraint)
  /\ session \in SUBSET Constraint

Packets == [protocol: Protocols \cup {"icmp"}, source: Ports, destination: Ports]

\* What a session captures: everything, or what meets one of its constraints.
Captured(packet) ==
  session # {} =>
    \E c \in session :
      /\ c.protocol = packet.protocol
      /\ c.source \in {0, packet.source}
      /\ c.destination \in {0, packet.destination}

Named == {p \in Protocols : \E i \in DOMAIN filter : filter[i].text = p}

\* The word after word i is "port", one space apart; and it gives a number.
HasMarker(i) == i + 1 <= Len(filter) /\ filter[i + 1].text = "port" /\ filter[i + 1].spaces = 1
HasPort(i)   == HasMarker(i) /\ i + 2 <= Len(filter) /\ filter[i + 2].text = "number"

\* A filter of clauses "tcp", "udp", "tcp port n" and "udp port n", each
\* protocol in at most one.  With a UDP port, TCP must have a port of its own:
\* "udp port 53 or tcp" constrains TCP to port 53.
Documented ==
  /\ Named # {}
  /\ \A i, j \in DOMAIN filter : filter[i].text \in Protocols /\ filter[i].text = filter[j].text => i = j
  /\ \A i \in DOMAIN filter : filter[i].text = "port" =>
       /\ i > 1 /\ filter[i - 1].text \in Protocols
       /\ HasPort(i - 1) /\ filter[i + 1].value \in 1 .. MaxPort
  /\ \A i \in DOMAIN filter : filter[i].text = "tcp" =>
       HasPort(i) \/ \A j \in DOMAIN filter : filter[j].text # "port"

\* What a filter says: a packet of a clause's protocol, with the clause's port,
\* if it has one, as source or destination.
Meant(packet) ==
  \E i \in DOMAIN filter :
    /\ filter[i].text = packet.protocol
    /\ HasPort(i) => filter[i + 2].value \in {packet.source, packet.destination}

\* A session configured for a filter of the documented form captures exactly
\* the packets the filter means, in whatever case and spacing it is written
\* (configure_session_constraints; README.md, "tcp port 30031 or udp").
CapturesWhatIsMeant ==
  pc = "done" /\ Documented => \A packet \in Packets : Captured(packet) <=> Meant(packet)

\* Whatever the filter looks like: a session whose filter names a protocol is
\* constrained, and to protocols the filter names - it never widens to all
\* traffic, although constraints are added one by one and each may fail.
OnlyNamedProtocols ==
  pc = "done" => Named = {c.protocol : c \in session}

\* The first clause of a protocol with a port gives a port in range.
InRange(p) ==
  \A i \in DOMAIN filter :
    /\ filter[i].text = p /\ HasPort(i)
    /\ \A j \in 1 .. i - 1 : ~(filter[j].text = p /\ HasMarker(j))
    => filter[i + 2].value <= MaxPort

\* A port out of the valid range is refused, as the messages "tcp port is
\* outside the valid range" and "udp port is outside the valid range" say.
RangeChecked == pc = "done" => \A p \in Protocols : InRange(p)
=============================================================================
