---------------------------- MODULE PacketFrames ----------------------------
(***************************************************************************)
(* What the parser is for: frames as a network carries them, their bytes   *)
(* in a stream buffer, and the packet a reader should be handed for each.  *)
(* A frame is described by its layers; Bytes lays them out, independently  *)
(* of how PacketParser takes them apart.                                   *)
(***************************************************************************)
EXTENDS PacketParser

CONSTANT Frames   \* the frames that may be captured

\* link      raw, ethernet, vlan (802.1Q), snap (802.3 with LLC and SNAP)
\* version   of IP
\* options   bytes of IPv4 options
\* protocol  TCP, UDP or another
\* tcp       bytes of TCP options
\* sized     the IP header gives the length (FALSE: zero, as segmentation
\*           offload leaves it in IPv4)
\* padding   bytes the link adds after the packet
\* cut       bytes missing at the end, since the capture truncates
\* before    bytes of the buffer ahead of the frame
\* behind    bytes of the buffer after it
\* measured  the descriptor gives PacketLength
Frame ==
  [link: {"raw", "ethernet", "vlan", "snap"}, version: {4, 6}, options: {0, 4},
   protocol: Byte, tcp: {0, 4}, payload: Seq(Byte), sized: BOOLEAN,
   padding: Nat, cut: Nat, before: Nat, behind: Nat, measured: BOOLEAN]

VARIABLE frame

-----------------------------------------------------------------------------
(* The bytes of a frame *)

Zeros(n) == [i \in 1 .. n |-> 0]
Word16(n) == <<n \div 256, n % 256>>

MacAddresses == <<2, 1, 1, 1, 1, 1>> \o <<2, 1, 1, 1, 1, 2>>
SourcePort == 1025
DestinationPort == 53

\* Addresses that begin like no IP packet.
Source(f)      == <<10, 1, 1>> \o Zeros(IF f.version = 4 THEN 0 ELSE 12) \o <<1>>
Destination(f) == <<10, 1, 1>> \o Zeros(IF f.version = 4 THEN 0 ELSE 12) \o <<2>>

EtherType(f) == IF f.version = 4 THEN <<8, 0>> ELSE <<134, 221>>

LinkBytes(f) ==
  CASE f.link = "raw"      -> <<>>
    [] f.link = "ethernet" -> MacAddresses \o EtherType(f)
    [] f.link = "vlan"     -> MacAddresses \o <<129, 0, 0, 5>> \o EtherType(f)
    [] f.link = "snap"     -> MacAddresses \o Word16(100) \o <<170, 170, 3, 0, 0, 0>> \o EtherType(f)

TransportLength(f) == IF f.protocol = TCP THEN 20 + f.tcp ELSE 8

TransportBytes(f) ==
  LET ports == Word16(SourcePort) \o Word16(DestinationPort)
  IN CASE f.protocol = TCP -> ports \o Zeros(8) \o <<TransportLength(f) * 4, 16>> \o Zeros(6 + f.tcp)
       [] f.protocol = UDP -> ports \o Word16(TransportLength(f) + Len(f.payload)) \o Zeros(2)
       [] OTHER            -> Zeros(TransportLength(f))

IpPayload(f) == TransportBytes(f) \o f.payload

IpBytes(f) ==
  IF f.version = 4
  THEN LET ihl == 20 + f.options
       IN <<64 + ihl \div 4, 0>> \o Word16(IF f.sized THEN ihl + Len(IpPayload(f)) ELSE 0)
            \o Zeros(5) \o <<f.protocol>> \o Zeros(2) \o Source(f) \o Destination(f) \o Zeros(f.options)
  ELSE <<96, 0, 0, 0>> \o Word16(Len(IpPayload(f))) \o <<f.protocol, 32>> \o Source(f) \o Destination(f)

\* The length fits its field of the IP header, IPv6 has no options and gives its
\* length, and only a measured frame has others behind it.
ASSUME FramesAssumption ==
  /\ Frames \subseteq Frame
  /\ \A f \in Frames :
       /\ 20 + f.options + TransportLength(f) + Len(f.payload) <= MaxPort
       /\ (f.version = 6) => (f.options = 0 /\ f.sized)
       /\ (f.behind > 0) => f.measured

FrameBytes(f) == LinkBytes(f) \o IpBytes(f) \o IpPayload(f) \o Zeros(f.padding)

\* What is left of the frame in the buffer.
Kept(f) == Lesser(Len(FrameBytes(f)) - f.cut, DataLimit - f.before)
CapturedBytes(f) == SubSeq(FrameBytes(f), 1, Len(FrameBytes(f)) - f.cut)

\* What lies behind it in the buffer.
Foreign(f) == [i \in 1 .. f.behind |-> 1]

DescriptorOf(f) ==
  [data   |-> Zeros(f.before) \o CapturedBytes(f) \o Foreign(f),
   offset |-> f.before,
   length |-> IF f.measured THEN Len(CapturedBytes(f)) ELSE 0]

-----------------------------------------------------------------------------
(* Capturing a frame *)

FrameInit ==
  /\ frame \in Frames
  /\ descriptor = DescriptorOf(frame)
  /\ Init

FrameNext == Next /\ UNCHANGED frame

FrameSpec == FrameInit /\ [][FrameNext]_<<vars, frame>>

-----------------------------------------------------------------------------
(* Properties *)

\* Where the payload begins, and where it ends as the IP header tells it.
PayloadStart(f) == Len(LinkBytes(f) \o IpBytes(f) \o TransportBytes(f))
PayloadEnd(f)   == PayloadStart(f) + Len(f.payload) + (IF f.sized THEN 0 ELSE f.padding)

\* The payload as far as it was captured.
KeptPayload(f) ==
  SubSeq(FrameBytes(f), PayloadStart(f) + 1, Lesser(PayloadEnd(f), Kept(f)))

\* The packet a reader is to be handed.
Sent(f) ==
  [protocol |-> f.protocol,
   source_port |-> SourcePort, destination_port |-> DestinationPort,
   source_address |-> Source(f), destination_address |-> Destination(f),
   payload |-> KeptPayload(f)]

\* There is something to hand out: a TCP or UDP packet whose headers were
\* captured, with payload if the policy wants some.
Deliverable(f) ==
  /\ f.protocol \in {TCP, UDP}
  /\ PayloadStart(f) <= Kept(f)
  /\ include_empty_payloads \/ KeptPayload(f) # <<>>

\* A TCP or UDP packet is handed out whenever its headers were captured, once,
\* with the fields it was sent with and as much of its payload as was captured,
\* and no link padding - whatever the link layer, the options, the payload, the
\* truncation, or where in the buffer it lies (parse_packet_bytes; README.md,
\* include_empty_payloads).
DeliversWhatWasSent ==
  pc = "done" /\ Deliverable(frame) => queue = <<Sent(frame)>>

\* The bytes behind a frame pass for its own if it was cut, or does not give its
\* length; they make a packet like this of it.
RunsOn(f) == f.behind > 0 /\ (f.cut > 0 \/ ~f.sized)

RunOn(f) ==
  LET bytes   == CapturedBytes(f) \o Foreign(f)
      all     == SubSeq(bytes, 1, Lesser(Len(bytes), DataLimit - f.before))
      ip      == Len(LinkBytes(f))
      ports   == PayloadStart(f) - TransportLength(f)
      port(i) == 256 * all[i + 1] + all[i + 2]
      address == IF f.version = 4 THEN 4 ELSE 16
      first   == ip + IF f.version = 4 THEN 12 ELSE 8
      last    == IF f.sized THEN Lesser(PayloadEnd(f), Len(all)) ELSE Len(all)
  IN [protocol |-> f.protocol,
      source_port |-> port(ports), destination_port |-> port(ports + 2),
      source_address |-> SubSeq(all, first + 1, first + address),
      destination_address |-> SubSeq(all, first + address + 1, first + 2 * address),
      payload |-> SubSeq(all, PayloadStart(f) + 1, last)]

\* Nothing else is made of a frame whose payload is not like an IP packet: neither
\* of another protocol, nor, when nothing is to be handed out, of bytes that the
\* search passes on its way; and of a header that was cut, or a packet the policy
\* refuses, only if other bytes of the buffer follow a frame that does not say where
\* it ends.  Then the parse of the whole buffer may take those for the rest of it,
\* and hands out this one packet (enqueue_stream_data, parse_packet_bytes).
DeliversNothingElse ==
  pc = "done" /\ ~Deliverable(frame) =>
    \/ queue = <<>>
    \/ RunsOn(frame) /\ frame.protocol \in {TCP, UDP} /\ queue = <<RunOn(frame)>>

\* With include_empty_payloads off a packet of which no payload was captured is
\* not counted.
EmptyIsNotCounted ==
  /\ pc = "done" /\ ~include_empty_payloads
  /\ PayloadStart(frame) <= Kept(frame) /\ KeptPayload(frame) = <<>>
  => queue = <<>>
=============================================================================
