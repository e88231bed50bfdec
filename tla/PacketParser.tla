---------------------------- MODULE PacketParser ----------------------------
(***************************************************************************)
(* What becomes of one stream data descriptor (enqueue_stream_data,        *)
(* enqueue_packet, parse_packet_bytes and parse_ip_packet of               *)
(* native/src/pktmon_backend.cpp): the slice the descriptor names is       *)
(* searched for an IP packet that carries TCP or UDP, then the whole       *)
(* buffer, and the first packet found that the policy accepts is queued.   *)
(*                                                                         *)
(* Offsets count from 0, as in the code.  A parse is the set of what it    *)
(* found: one packet or none.  Addresses are left as bytes.                *)
(***************************************************************************)
EXTENDS Integers, Sequences

CONSTANT DataLimit   \* the most bytes of a buffer that are looked at, 262144

Byte == 0 .. 255

\* Data and DataSize, PacketOffset and PacketLength.
Descriptor == [data: Seq(Byte), offset: Nat, length: Nat]

ASSUME LimitAssumption == DataLimit \in Nat \ {0}

VARIABLES
  descriptor,               \* what the callback was given
  include_empty_payloads,   \* the policy of the capture
  pc,                       \* the next attempt
  queue                     \* the packets queued

vars == <<descriptor, include_empty_payloads, pc, queue>>

TCP == 6
UDP == 17

MaxPort == 65535
Port == 0 .. MaxPort   \* uint16_t

ParsedPacket ==
  [protocol: {TCP, UDP}, source_port: Port, destination_port: Port,
   source_address: Seq(Byte), destination_address: Seq(Byte), payload: Seq(Byte)]

-----------------------------------------------------------------------------
(* parse_ip_packet *)

At(bytes, i)             == bytes[i + 1]
BigEndian(bytes, i)      == 256 * At(bytes, i) + At(bytes, i + 1)
Slice(bytes, first, end) == SubSeq(bytes, first + 1, end)

HighNibble(byte) == byte \div 16
LowNibble(byte)  == byte % 16

\* Mutant: the length the IPv4 header gives is not looked at.
EndOf4_TakesAll(bytes, offset, ihl) == Len(bytes)

\* The end of an IPv4 packet: as its header says, if that is in the buffer.
EndOf4(bytes, offset, ihl) ==
  LET total == BigEndian(bytes, offset + 2)
  IN IF total >= ihl /\ offset + total <= Len(bytes) THEN offset + total ELSE Len(bytes)

\* The IPv4 header at offset, if there is one.
Ip4(bytes, offset) ==
  LET ihl == 4 * LowNibble(At(bytes, offset))
  IN IF /\ HighNibble(At(bytes, offset)) = 4
        /\ offset + 20 <= Len(bytes)
        /\ ihl >= 20 /\ offset + ihl <= Len(bytes)
     THEN { [protocol    |-> At(bytes, offset + 9),
             transport   |-> offset + ihl,
             end         |-> EndOf4(bytes, offset, ihl),
             source      |-> Slice(bytes, offset + 12, offset + 16),
             destination |-> Slice(bytes, offset + 16, offset + 20)] }
     ELSE {}

Lesser(a, b) == IF a < b THEN a ELSE b

\* The IPv6 header at offset; extension headers are not followed.
Ip6(bytes, offset) ==
  IF HighNibble(At(bytes, offset)) = 6 /\ offset + 40 <= Len(bytes)
  THEN { [protocol    |-> At(bytes, offset + 6),
          transport   |-> offset + 40,
          end         |-> Lesser(offset + 40 + BigEndian(bytes, offset + 4), Len(bytes)),
          source      |-> Slice(bytes, offset + 8, offset + 24),
          destination |-> Slice(bytes, offset + 24, offset + 40)] }
  ELSE {}

TcpHeader(bytes, at) == 4 * HighNibble(At(bytes, at + 12))

HeaderSize(bytes, ip) == IF ip.protocol = TCP THEN TcpHeader(bytes, ip.transport) ELSE 8

\* Mutant: the options of a TCP header may be missing.
CarriesTransport_CutOptions(bytes, ip) ==
  \/ /\ ip.protocol = TCP
     /\ ip.transport + 20 <= ip.end
     /\ TcpHeader(bytes, ip.transport) >= 20
  \/ ip.protocol = UDP /\ ip.transport + 8 <= ip.end

\* A whole TCP or UDP header is in the packet.
CarriesTransport(bytes, ip) ==
  \/ /\ ip.protocol = TCP
     /\ ip.transport + 20 <= ip.end
     /\ TcpHeader(bytes, ip.transport) >= 20
     /\ ip.transport + TcpHeader(bytes, ip.transport) <= ip.end
  \/ ip.protocol = UDP /\ ip.transport + 8 <= ip.end

PacketOf(bytes, ip) ==
  [protocol            |-> ip.protocol,
   source_port         |-> BigEndian(bytes, ip.transport),
   destination_port    |-> BigEndian(bytes, ip.transport + 2),
   source_address      |-> ip.source,
   destination_address |-> ip.destination,
   payload             |-> Slice(bytes, ip.transport + HeaderSize(bytes, ip), ip.end)]

ParseIp(bytes, offset) ==
  IF offset >= Len(bytes) THEN {}
  ELSE {PacketOf(bytes, ip) : ip \in {x \in Ip4(bytes, offset) \cup Ip6(bytes, offset) :
                                        CarriesTransport(bytes, x)}}

-----------------------------------------------------------------------------
(* parse_packet_bytes *)

IpEtherTypes == {2048, 34525}

\* An Ethernet header, with a VLAN tag or without.
EthernetOffsets(bytes) ==
  LET tagged == Len(bytes) >= 18 /\ BigEndian(bytes, 12) = 33024
  IN IF Len(bytes) < 14 THEN {}
     ELSE IF tagged THEN {o \in {18} : BigEndian(bytes, 16) \in IpEtherTypes}
     ELSE {o \in {14} : BigEndian(bytes, 12) \in IpEtherTypes}

\* An LLC and SNAP header among the first 128 bytes.
SnapHeader == <<170, 170, 3, 0, 0, 0>>
SnapOffsets(bytes) ==
  {o \in 8 .. Lesser(Len(bytes) - 1, 135) :
     Slice(bytes, o - 8, o - 2) = SnapHeader /\ BigEndian(bytes, o - 2) \in IpEtherTypes}

\* Anything among the first 160 bytes that begins like an IP packet.
VersionOffsets(bytes) ==
  {o \in 0 .. Lesser(Len(bytes) - 21, 159) : HighNibble(At(bytes, o)) \in {4, 6}}

\* Where a packet may begin, in the order in which the code looks.
Tier(bytes, k) ==
  CASE k = 1 -> {0}
    [] k = 2 -> EthernetOffsets(bytes)
    [] k = 3 -> SnapOffsets(bytes)
    [] k = 4 -> VersionOffsets(bytes)

Least(S) == CHOOSE i \in S : \A j \in S : i <= j

Parsable(bytes, k) == {o \in Tier(bytes, k) : ParseIp(bytes, o) # {}}
Tiers(bytes) == {k \in 1 .. 4 : Parsable(bytes, k) # {}}

\* The first place of the first tier where a packet is found.
ParsePacketBytes(bytes) ==
  IF Tiers(bytes) = {} THEN {} ELSE ParseIp(bytes, Least(Parsable(bytes, Least(Tiers(bytes)))))

-----------------------------------------------------------------------------
(* enqueue_packet and enqueue_stream_data *)

Init ==
  /\ descriptor \in Descriptor
  /\ include_empty_payloads \in BOOLEAN
  /\ pc = "slice"
  /\ queue = <<>>

\* The packet of an attempt, unless the policy refuses it.
Accepted(bytes) == {p \in ParsePacketBytes(bytes) : include_empty_payloads \/ p.payload # <<>>}

Bounded == Slice(descriptor.data, 0, Lesser(Len(descriptor.data), DataLimit))

\* The bytes PacketOffset and PacketLength name; no length, or one that is too
\* large, means all that is left.
SliceEnd ==
  IF descriptor.length > 0 THEN Lesser(descriptor.offset + descriptor.length, Len(Bounded)) ELSE Len(Bounded)

\* An attempt on bytes: a packet is queued, or the next attempt is made.
Attempt(bytes, otherwise) ==
  /\ \/ \E p \in Accepted(bytes) : queue' = Append(queue, p) /\ pc' = "done"
     \/ Accepted(bytes) = {} /\ pc' = otherwise /\ UNCHANGED queue
  /\ UNCHANGED <<descriptor, include_empty_payloads>>

Ignore ==
  /\ pc = "slice" /\ descriptor.data = <<>>
  /\ pc' = "done"
  /\ UNCHANGED <<descriptor, include_empty_payloads, queue>>

AttemptSlice ==
  /\ pc = "slice" /\ descriptor.offset < Len(Bounded)
  /\ Attempt(Slice(Bounded, descriptor.offset, SliceEnd), "whole")

\* Also when the slice lies outside the buffer.
AttemptWhole ==
  /\ \/ pc = "whole"
     \/ pc = "slice" /\ descriptor.data # <<>> /\ descriptor.offset >= Len(Bounded)
  /\ Attempt(Bounded, "done")

Next == Ignore \/ AttemptSlice \/ AttemptWhole

Spec == Init /\ [][Next]_vars

-----------------------------------------------------------------------------
(* Properties *)

\* Every variable has its type, whatever the bytes: a packet is never built
\* from bytes outside the buffer, and a descriptor yields one packet at most.
TypeOK ==
  /\ descriptor \in Descriptor /\ include_empty_payloads \in BOOLEAN
  /\ pc \in {"slice", "whole", "done"}
  /\ queue \in Seq(ParsedPacket)
  /\ Len(queue) <= 1
=============================================================================
