------------------------- MODULE PacketParserProofs -------------------------
(***************************************************************************)
(* The parser is well defined on every buffer: whatever the bytes, it reads *)
(* inside the buffer only, so what it finds is a packet; and a descriptor   *)
(* yields one packet at most.  A read outside a buffer has no value in the  *)
(* model, so a packet whose fields depend on one could not be shown to have *)
(* its type.                                                                *)
(*                                                                          *)
(* And it is right about frames: a TCP or UDP packet whose headers were     *)
(* captured is handed out as it was sent.  The proof follows the bytes:     *)
(* each layer lies at its offset of the frame (Lies), what was captured is  *)
(* the beginning of the frame, so the layers lie in it too, and the search  *)
(* meets no earlier place that parses.                                      *)
(***************************************************************************)
EXTENDS PacketFrames, SequenceTheorems, WellFoundedInduction, TLAPS

-----------------------------------------------------------------------------
(* Bytes *)

LEMMA AtType ==
  ASSUME NEW bytes \in Seq(Byte), NEW i \in Nat, i < Len(bytes)
  PROVE  At(bytes, i) \in Byte
BY DEF At

LEMMA NibbleTypes ==
  ASSUME NEW byte \in Byte
  PROVE  HighNibble(byte) \in 0 .. 15 /\ LowNibble(byte) \in 0 .. 15
BY DEF Byte, HighNibble, LowNibble

LEMMA BigEndianType ==
  ASSUME NEW bytes \in Seq(Byte), NEW i \in Nat, i + 1 < Len(bytes)
  PROVE  BigEndian(bytes, i) \in Port
<1> DEFINE high == At(bytes, i)
           low  == At(bytes, i + 1)
<1>1. high \in Byte
  BY AtType
<1>2. low \in Byte
  <2>1. i + 1 \in Nat
    OBVIOUS
  <2> QED
    BY <2>1, AtType
<1>3. BigEndian(bytes, i) = 256 * high + low
  BY DEF BigEndian
<1> HIDE DEF high, low
<1>4. /\ high \in Nat /\ high <= 255
      /\ low \in Nat /\ low <= 255
  BY <1>1, <1>2 DEF Byte
<1>5. 256 * high + low \in Nat /\ 256 * high + low <= MaxPort
  BY <1>4 DEF MaxPort
<1>6. MaxPort \in Nat
  BY DEF MaxPort
<1> QED
  BY <1>3, <1>5, <1>6 DEF Port

LEMMA SliceType ==
  ASSUME NEW bytes \in Seq(Byte), NEW first \in Nat, NEW end \in Int, end <= Len(bytes)
  PROVE  Slice(bytes, first, end) \in Seq(Byte)
<1>1. \A i \in first + 1 .. end : bytes[i] \in Byte
  OBVIOUS
<1> QED
  BY <1>1, SubSeqProperties DEF Slice

-----------------------------------------------------------------------------
(* Headers *)

\* What Ip4 and Ip6 tell of a packet lies in the buffer.
IsHeader(bytes, ip) ==
  /\ ip.protocol \in Byte
  /\ ip.transport \in Nat
  /\ ip.end \in Nat /\ ip.end <= Len(bytes)
  /\ ip.source \in Seq(Byte) /\ ip.destination \in Seq(Byte)

LEMMA Ip4Type ==
  ASSUME NEW bytes \in Seq(Byte), NEW offset \in Nat, offset < Len(bytes), NEW ip \in Ip4(bytes, offset)
  PROVE  IsHeader(bytes, ip)
<1> DEFINE ihl == 4 * LowNibble(At(bytes, offset))
           end == EndOf4(bytes, offset, ihl)
<1>1. ihl \in Nat /\ Len(bytes) \in Nat
  <2>1. LowNibble(At(bytes, offset)) \in 0 .. 15
    BY AtType, NibbleTypes
  <2> QED
    BY <2>1
<1> HIDE DEF ihl
<1>2. /\ ip = [protocol    |-> At(bytes, offset + 9),
               transport   |-> offset + ihl,
               end         |-> end,
               source      |-> Slice(bytes, offset + 12, offset + 16),
               destination |-> Slice(bytes, offset + 16, offset + 20)]
      /\ offset + 20 <= Len(bytes)
  BY DEF Ip4, ihl
<1>3. end \in Nat /\ end <= Len(bytes)
  <2>1. BigEndian(bytes, offset + 2) \in Port
    BY <1>1, <1>2, BigEndianType
  <2>2. BigEndian(bytes, offset + 2) \in Nat
    BY <2>1 DEF Port
  <2> QED
    BY <1>1, <2>2 DEF EndOf4
<1> HIDE DEF end
<1>4. /\ At(bytes, offset + 9) \in Byte
      /\ Slice(bytes, offset + 12, offset + 16) \in Seq(Byte)
      /\ Slice(bytes, offset + 16, offset + 20) \in Seq(Byte)
  <2>1. /\ offset + 9 \in Nat /\ offset + 9 < Len(bytes)
        /\ offset + 12 \in Nat /\ offset + 16 \in Nat /\ offset + 20 \in Nat
        /\ offset + 16 <= Len(bytes) /\ offset + 20 <= Len(bytes)
    BY <1>1, <1>2
  <2>2. offset + 16 \in Int /\ offset + 20 \in Int
    BY <2>1
  <2> QED
    BY <2>1, <2>2, AtType, SliceType, Zenon
<1> QED
  BY <1>1, <1>2, <1>3, <1>4 DEF IsHeader

LEMMA Ip6Type ==
  ASSUME NEW bytes \in Seq(Byte), NEW offset \in Nat, offset < Len(bytes), NEW ip \in Ip6(bytes, offset)
  PROVE  IsHeader(bytes, ip)
<1> DEFINE end == Lesser(offset + 40 + BigEndian(bytes, offset + 4), Len(bytes))
<1>1. /\ ip = [protocol    |-> At(bytes, offset + 6),
               transport   |-> offset + 40,
               end         |-> end,
               source      |-> Slice(bytes, offset + 8, offset + 24),
               destination |-> Slice(bytes, offset + 24, offset + 40)]
      /\ offset + 40 <= Len(bytes) /\ Len(bytes) \in Nat
  BY DEF Ip6
<1>2. end \in Nat /\ end <= Len(bytes)
  <2>1. BigEndian(bytes, offset + 4) \in Port
    BY <1>1, BigEndianType
  <2>2. BigEndian(bytes, offset + 4) \in Nat
    BY <2>1 DEF Port
  <2> QED
    BY <1>1, <2>2 DEF Lesser
<1> HIDE DEF end
<1>3. /\ At(bytes, offset + 6) \in Byte
      /\ Slice(bytes, offset + 8, offset + 24) \in Seq(Byte)
      /\ Slice(bytes, offset + 24, offset + 40) \in Seq(Byte)
  <2>1. /\ offset + 6 \in Nat /\ offset + 6 < Len(bytes)
        /\ offset + 8 \in Nat /\ offset + 24 \in Nat /\ offset + 40 \in Nat
        /\ offset + 24 <= Len(bytes) /\ offset + 40 <= Len(bytes)
    BY <1>1
  <2>2. offset + 24 \in Int /\ offset + 40 \in Int
    BY <2>1
  <2> QED
    BY <2>1, <2>2, AtType, SliceType, Zenon
<1> QED
  BY <1>1, <1>2, <1>3 DEF IsHeader

\* A packet that carries a whole transport header is a ParsedPacket.
LEMMA PacketType ==
  ASSUME NEW bytes \in Seq(Byte), NEW ip, IsHeader(bytes, ip), CarriesTransport(bytes, ip)
  PROVE  PacketOf(bytes, ip) \in ParsedPacket
<1> DEFINE transport == ip.transport
           end       == ip.end
           size      == HeaderSize(bytes, ip)
<1>1. transport \in Nat /\ end \in Nat /\ end <= Len(bytes) /\ Len(bytes) \in Nat
  BY DEF IsHeader
<1>2. ip.protocol \in {TCP, UDP} /\ transport + 8 <= end
  BY <1>1 DEF CarriesTransport
<1>3. size \in Nat
  <2>1. CASE ip.protocol = TCP
    <3>1. transport + 20 <= end
      BY <2>1 DEF CarriesTransport, TCP, UDP
    <3>2. At(bytes, transport + 12) \in Byte
      BY <1>1, <3>1, AtType
    <3>3. HighNibble(At(bytes, transport + 12)) \in 0 .. 15
      BY <3>2, NibbleTypes
    <3> QED
      BY <2>1, <3>3 DEF HeaderSize, TcpHeader
  <2>2. CASE ip.protocol # TCP
    BY <2>2 DEF HeaderSize
  <2> QED
    BY <2>1, <2>2
<1>4. /\ PacketOf(bytes, ip).source_port \in Port
      /\ PacketOf(bytes, ip).destination_port \in Port
  <2>1. BigEndian(bytes, transport) \in Port
    BY <1>1, <1>2, BigEndianType
  <2>2. BigEndian(bytes, transport + 2) \in Port
    <3>1. transport + 2 \in Nat /\ (transport + 2) + 1 < Len(bytes)
      BY <1>1, <1>2
    <3> QED
      BY <3>1, BigEndianType
  <2> QED
    BY <2>1, <2>2 DEF PacketOf
<1>5. Slice(bytes, transport + size, end) \in Seq(Byte)
  <2>1. transport + size \in Nat /\ end \in Int
    BY <1>1, <1>3
  <2> QED
    BY <1>1, <2>1, SliceType
<1> QED
  BY <1>2, <1>4, <1>5 DEF PacketOf, ParsedPacket, IsHeader

\* parse_ip_packet finds a packet or nothing.
LEMMA ParseIpType ==
  ASSUME NEW bytes \in Seq(Byte), NEW offset \in Nat
  PROVE  ParseIp(bytes, offset) \subseteq ParsedPacket
<1> SUFFICES ASSUME NEW p \in ParseIp(bytes, offset)
             PROVE  p \in ParsedPacket
  OBVIOUS
<1>1. offset < Len(bytes)
  BY DEF ParseIp
<1>2. PICK ip \in Ip4(bytes, offset) \cup Ip6(bytes, offset) :
        CarriesTransport(bytes, ip) /\ p = PacketOf(bytes, ip)
  BY DEF ParseIp
<1>3. IsHeader(bytes, ip)
  BY <1>1, Ip4Type, Ip6Type
<1> QED
  BY <1>2, <1>3, PacketType

-----------------------------------------------------------------------------
(* The places where a packet may begin *)

\* A non-empty set of numbers has a least one.
LEMMA LeastType ==
  ASSUME NEW S \in SUBSET Nat, S # {}
  PROVE  Least(S) \in S
<1> DEFINE less == OpToRel(<, Nat)
<1>1. PICK i \in S : \A j \in S : <<j, i>> \notin less
  <2> HIDE DEF less
  <2>1. IsWellFoundedOn(less, Nat)
    BY NatLessThanWellFounded DEF less
  <2> QED
    BY <2>1, WFMin
<1>2. \A j \in S : ~(j < i)
  BY <1>1 DEF OpToRel
<1>3. \A j \in S : i <= j
  BY <1>2
<1> QED
  BY <1>3 DEF Least

LEMMA EthernetType ==
  ASSUME NEW bytes \in Seq(Byte)
  PROVE  EthernetOffsets(bytes) \subseteq Nat
BY DEF EthernetOffsets

LEMMA TierType ==
  ASSUME NEW bytes \in Seq(Byte), NEW k \in 1 .. 4
  PROVE  Tier(bytes, k) \subseteq Nat
<1>1. SnapOffsets(bytes) \subseteq Nat /\ VersionOffsets(bytes) \subseteq Nat
  BY DEF SnapOffsets, VersionOffsets, Lesser
<1>2. k = 1 \/ k = 2 \/ k = 3 \/ k = 4
  OBVIOUS
<1> QED
  BY <1>1, <1>2, EthernetType DEF Tier

\* parse_packet_bytes finds a packet or nothing.
LEMMA ParsePacketBytesType ==
  ASSUME NEW bytes \in Seq(Byte)
  PROVE  ParsePacketBytes(bytes) \subseteq ParsedPacket
<1> DEFINE k == Least(Tiers(bytes))
           o == Least(Parsable(bytes, k))
<1> SUFFICES ASSUME Tiers(bytes) # {}
             PROVE  ParseIp(bytes, o) \subseteq ParsedPacket
  BY DEF ParsePacketBytes
<1>1. k \in Tiers(bytes)
  <2>1. Tiers(bytes) \in SUBSET Nat
    BY DEF Tiers
  <2> QED
    BY <2>1, LeastType
<1>2. k \in 1 .. 4 /\ Parsable(bytes, k) # {}
  BY <1>1 DEF Tiers
<1> HIDE DEF k
<1>3. Parsable(bytes, k) \in SUBSET Nat
  BY <1>2, TierType DEF Parsable
<1>4. o \in Nat
  BY <1>2, <1>3, LeastType
<1> HIDE DEF o
<1> QED
  BY <1>4, ParseIpType

-----------------------------------------------------------------------------
(* The steps *)

\* The packet is queued as the last step.
IInv ==
  /\ TypeOK
  /\ pc # "done" => queue = <<>>

LEMMA BoundedType ==
  ASSUME TypeOK
  PROVE  /\ Bounded \in Seq(Byte)
         /\ \A first \in Nat : Slice(Bounded, first, SliceEnd) \in Seq(Byte)
<1>1. /\ descriptor.data \in Seq(Byte) /\ descriptor.offset \in Nat /\ descriptor.length \in Nat
      /\ Len(descriptor.data) \in Nat /\ DataLimit \in Nat
  BY LimitAssumption DEF TypeOK, Descriptor
<1>2. Bounded \in Seq(Byte)
  <2> DEFINE end == Lesser(Len(descriptor.data), DataLimit)
  <2>1. end \in Int /\ end <= Len(descriptor.data)
    BY <1>1 DEF Lesser
  <2> HIDE DEF end
  <2>2. Slice(descriptor.data, 0, end) \in Seq(Byte)
    BY <1>1, <2>1, SliceType
  <2> QED
    BY <2>2 DEF Bounded, end
<1>3. SliceEnd \in Int /\ SliceEnd <= Len(Bounded)
  <2>1. Len(Bounded) \in Nat
    BY <1>2
  <2> QED
    BY <1>1, <2>1 DEF SliceEnd, Lesser
<1> QED
  BY <1>2, <1>3, SliceType

LEMMA AttemptType ==
  ASSUME IInv, pc # "done", NEW bytes \in Seq(Byte), NEW otherwise \in {"whole", "done"},
         Attempt(bytes, otherwise)
  PROVE  IInv'
<1>1. Accepted(bytes) \subseteq ParsedPacket
  BY ParsePacketBytesType DEF Accepted
<1>2. descriptor' = descriptor /\ include_empty_payloads' = include_empty_payloads /\ queue = <<>>
  BY DEF Attempt, IInv
<1>3. ASSUME NEW p \in Accepted(bytes), queue' = Append(queue, p), pc' = "done"
      PROVE  IInv'
  <2>1. p \in ParsedPacket
    BY <1>1
  <2>2. queue' = <<p>>
    BY <1>2, <1>3
  <2>3. queue' \in Seq(ParsedPacket) /\ Len(queue') <= 1
    BY <2>1, <2>2
  <2> QED
    BY <1>2, <1>3, <2>3 DEF IInv, TypeOK
<1>4. CASE pc' = otherwise /\ queue' = queue
  BY <1>2, <1>4 DEF IInv, TypeOK
<1> QED
  BY <1>3, <1>4 DEF Attempt

LEMMA StepKeepsType ==
  ASSUME IInv, [Next]_vars
  PROVE  IInv'
<1>1. CASE Ignore
  BY <1>1 DEF Ignore, IInv, TypeOK
<1>2. CASE AttemptSlice
  <2>1. descriptor.offset \in Nat
    BY DEF IInv, TypeOK, Descriptor
  <2>2. Slice(Bounded, descriptor.offset, SliceEnd) \in Seq(Byte)
    BY <2>1, BoundedType DEF IInv
  <2> QED
    BY <1>2, <2>2, AttemptType DEF AttemptSlice
<1>3. CASE AttemptWhole
  BY <1>3, BoundedType, AttemptType DEF AttemptWhole, IInv
<1>4. CASE UNCHANGED vars
  BY <1>4 DEF vars, IInv, TypeOK
<1> QED
  BY <1>1, <1>2, <1>3, <1>4 DEF Next

\* Whatever the bytes of a descriptor, all that is read of them lies in the
\* buffer, and one ParsedPacket at most is queued for it.
THEOREM TypeCorrect == Spec => []TypeOK
<1>1. Init => IInv
  BY DEF Init, IInv, TypeOK
<1>2. IInv /\ [Next]_vars => IInv'
  BY StepKeepsType
<1>3. IInv => TypeOK
  BY DEF IInv
<1> QED
  BY <1>1, <1>2, <1>3, PTL DEF Spec

-----------------------------------------------------------------------------
(* Bytes within bytes *)

\* The bytes a are the ones of bytes from at on.
Lies(bytes, at, a) ==
  /\ bytes \in Seq(Byte) /\ a \in Seq(Byte) /\ at \in Nat
  /\ at + Len(a) <= Len(bytes)
  /\ \A i \in 1 .. Len(a) : bytes[at + i] = a[i]

LEMMA LiesJoined ==
  ASSUME NEW a \in Seq(Byte), NEW b \in Seq(Byte)
  PROVE  /\ a \o b \in Seq(Byte) /\ Len(a \o b) = Len(a) + Len(b)
         /\ Lies(a \o b, 0, a) /\ Lies(a \o b, Len(a), b)
<1>1. /\ a \o b \in Seq(Byte) /\ Len(a \o b) = Len(a) + Len(b)
      /\ Len(a) \in Nat /\ Len(b) \in Nat
  OBVIOUS
<1>2. \A i \in 1 .. Len(a) : (a \o b)[i] = a[i]
  OBVIOUS
<1>3. \A i \in 1 .. Len(b) : (a \o b)[Len(a) + i] = b[i]
  BY <1>1
<1> DEFINE r == a \o b
<1>4. r \in Seq(Byte) /\ Len(r) = Len(a) + Len(b)
  BY <1>1
<1>5. /\ \A i \in 1 .. Len(a) : r[i] = a[i]
      /\ \A i \in 1 .. Len(b) : r[Len(a) + i] = b[i]
  BY <1>2, <1>3
<1> HIDE DEF r
<1>6. Lies(r, 0, a) /\ Lies(r, Len(a), b)
  BY <1>1, <1>4, <1>5 DEF Lies
<1> QED
  BY <1>1, <1>6 DEF r

LEMMA LiesWithin ==
  ASSUME NEW bytes, NEW b, NEW a, NEW at, NEW k, Lies(bytes, at, b), Lies(b, k, a)
  PROVE  Lies(bytes, at + k, a)
<1>1. /\ at \in Nat /\ k \in Nat /\ Len(a) \in Nat /\ Len(b) \in Nat /\ Len(bytes) \in Nat
      /\ at + Len(b) <= Len(bytes) /\ k + Len(a) <= Len(b)
  BY DEF Lies
<1>2. ASSUME NEW i \in 1 .. Len(a)
      PROVE  bytes[(at + k) + i] = a[i]
  <2>1. k + i \in 1 .. Len(b) /\ (at + k) + i = at + (k + i)
    BY <1>1
  <2>2. b[k + i] = a[i]
    BY DEF Lies
  <2>3. bytes[at + (k + i)] = b[k + i]
    BY <2>1 DEF Lies
  <2> QED
    BY <2>1, <2>2, <2>3
<1> QED
  BY <1>1, <1>2 DEF Lies

\* What lies in a beginning of the bytes.
LEMMA LiesAhead ==
  ASSUME NEW bytes, NEW b, NEW a, NEW k, Lies(bytes, 0, b), Lies(b, k, a)
  PROVE  Lies(bytes, k, a)
<1>1. Lies(bytes, 0 + k, a)
  BY LiesWithin
<1>2. 0 + k = k
  BY DEF Lies
<1> QED
  BY <1>1, <1>2

LEMMA LiesSlice ==
  ASSUME NEW bytes, NEW a, NEW at, Lies(bytes, at, a)
  PROVE  Slice(bytes, at, at + Len(a)) = a
<1>1. /\ at \in Nat /\ Len(a) \in Nat /\ Len(bytes) \in Nat /\ at + Len(a) <= Len(bytes)
      /\ bytes \in Seq(Byte) /\ a \in Seq(Byte)
  BY DEF Lies
<1> DEFINE s == Slice(bytes, at, at + Len(a))
<1>2. s \in Seq(Byte) /\ Len(s) = Len(a) /\ \A i \in 1 .. Len(a) : s[i] = bytes[at + i]
  <2>1. \A i \in at + 1 .. at + Len(a) : bytes[i] \in Byte
    BY <1>1
  <2>2. /\ s \in Seq(Byte)
        /\ Len(s) = IF at + 1 <= at + Len(a) THEN (at + Len(a)) - (at + 1) + 1 ELSE 0
        /\ \A i \in 1 .. (at + Len(a)) - (at + 1) + 1 : s[i] = bytes[at + 1 + i - 1]
    BY <1>1, <2>1, SubSeqProperties DEF Slice
  <2> QED
    BY <1>1, <2>2
<1> HIDE DEF s
<1>3. \A i \in 1 .. Len(a) : s[i] = a[i]
  BY <1>2 DEF Lies
<1>4. s = a
  BY <1>1, <1>2, <1>3
<1> QED
  BY <1>4 DEF s

LEMMA LiesAt ==
  ASSUME NEW bytes, NEW a, NEW at, NEW i \in Nat, Lies(bytes, at, a), i < Len(a)
  PROVE  At(bytes, at + i) = At(a, i)
<1>1. at \in Nat /\ Len(a) \in Nat
  BY DEF Lies
<1>2. i + 1 \in 1 .. Len(a) /\ (at + i) + 1 = at + (i + 1)
  BY <1>1
<1> QED
  BY <1>2 DEF Lies, At

\* a and then b.
Join(a, b) == a \o b

IsBytes(a, n) == a \in Seq(Byte) /\ n \in Nat /\ Len(a) = n

LEMMA JoinBytes ==
  ASSUME NEW a, NEW b, NEW n, NEW m, IsBytes(a, n), IsBytes(b, m)
  PROVE  /\ IsBytes(Join(a, b), n + m)
         /\ Lies(Join(a, b), 0, a) /\ Lies(Join(a, b), n, b)
<1>1. a \in Seq(Byte) /\ b \in Seq(Byte) /\ n \in Nat /\ m \in Nat /\ Len(a) = n /\ Len(b) = m
  BY DEF IsBytes
<1>2. /\ a \o b \in Seq(Byte) /\ Len(a \o b) = Len(a) + Len(b)
      /\ Lies(a \o b, 0, a) /\ Lies(a \o b, Len(a), b)
  BY <1>1, LiesJoined
<1>3. Join(a, b) = a \o b
  BY DEF Join
<1> DEFINE r == Join(a, b)
<1>4. r \in Seq(Byte) /\ Len(r) = Len(a) + Len(b) /\ Lies(r, 0, a) /\ Lies(r, Len(a), b)
  BY <1>2, <1>3, Zenon
<1> HIDE DEF r
<1>5. IsBytes(r, n + m) /\ Lies(r, 0, a) /\ Lies(r, n, b)
  BY <1>1, <1>4 DEF IsBytes
<1> QED
  BY <1>5 DEF r

LEMMA LiesBigEndian ==
  ASSUME NEW bytes, NEW a, NEW at, NEW i \in Nat, Lies(bytes, at, a), i + 1 < Len(a)
  PROVE  BigEndian(bytes, at + i) = BigEndian(a, i)
<1>1. at \in Nat /\ Len(a) \in Nat
  BY DEF Lies
<1>2. i < Len(a) /\ i + 1 \in Nat /\ at + (i + 1) = (at + i) + 1
  BY <1>1
<1>3. At(bytes, at + i) = At(a, i) /\ At(bytes, at + (i + 1)) = At(a, i + 1)
  BY <1>2, LiesAt
<1> QED
  BY <1>2, <1>3 DEF BigEndian

-----------------------------------------------------------------------------
(* The layers of a frame *)

LEMMA ZerosBytes ==
  ASSUME NEW n \in Nat
  PROVE  Zeros(n) \in Seq(Byte) /\ Len(Zeros(n)) = n
BY DEF Zeros, Byte

LEMMA PortRange ==
  ASSUME NEW n \in Nat, n <= MaxPort
  PROVE  n \in Port
<1>1. MaxPort \in Nat
  BY DEF MaxPort
<1> QED
  BY <1>1 DEF Port

LEMMA ByteRange ==
  ASSUME NEW n \in Nat, n <= 255
  PROVE  n \in Byte
BY DEF Byte

LEMMA Word16Bytes ==
  ASSUME NEW n \in Port
  PROVE  /\ Word16(n) \in Seq(Byte) /\ Len(Word16(n)) = 2
         /\ BigEndian(Word16(n), 0) = n
<1> DEFINE high == n \div 256
           low  == n % 256
<1>1. high \in Byte /\ low \in Byte /\ 256 * high + low = n
  <2>1. n \in Nat /\ n <= MaxPort /\ MaxPort = 65535
    <3>1. MaxPort \in Nat
      BY DEF MaxPort
    <3>2. n \in Nat /\ n <= MaxPort
      BY <3>1 DEF Port
    <3> QED
      BY <3>2 DEF MaxPort
  <2>2. /\ high \in Nat /\ high <= 255
        /\ low \in Nat /\ low <= 255
        /\ 256 * high + low = n
    BY ONLY <2>1
  <2> HIDE DEF high, low
  <2> QED
    BY <2>2, ByteRange
<1>2. Word16(n) = <<high, low>>
  BY DEF Word16
<1> HIDE DEF high, low
<1>3. /\ Word16(n) \in Seq(Byte) /\ Len(Word16(n)) = 2
      /\ At(Word16(n), 0) = high /\ At(Word16(n), 0 + 1) = low
  BY <1>1, <1>2 DEF At
<1> QED
  BY <1>1, <1>3 DEF BigEndian

LEMMA AddressBytes ==
  ASSUME NEW f, f.version \in {4, 6}
  PROVE  /\ Source(f) \in Seq(Byte) /\ Destination(f) \in Seq(Byte)
         /\ Len(Source(f)) = (IF f.version = 4 THEN 4 ELSE 16)
         /\ Len(Destination(f)) = (IF f.version = 4 THEN 4 ELSE 16)
<1> DEFINE n == IF f.version = 4 THEN 0 ELSE 12
           network == <<10, 1, 1>>
           middle  == Zeros(n)
           first   == <<1>>
           second  == <<2>>
<1>1. /\ network \in Seq(Byte) /\ Len(network) = 3
      /\ first \in Seq(Byte) /\ Len(first) = 1 /\ second \in Seq(Byte) /\ Len(second) = 1
  BY DEF Byte
<1>2. middle \in Seq(Byte) /\ Len(middle) = n /\ n \in Nat
  BY ZerosBytes
<1>3. Source(f) = (network \o middle) \o first /\ Destination(f) = (network \o middle) \o second
  BY DEF Source, Destination
<1>4. n = (IF f.version = 4 THEN 0 ELSE 12)
  OBVIOUS
<1> HIDE DEF n, network, middle, first, second
<1>5. network \o middle \in Seq(Byte) /\ Len(network \o middle) = 3 + n
  BY <1>1, <1>2, LiesJoined
<1>6. /\ Source(f) \in Seq(Byte) /\ Len(Source(f)) = (3 + n) + 1
      /\ Destination(f) \in Seq(Byte) /\ Len(Destination(f)) = (3 + n) + 1
  BY <1>1, <1>3, <1>5, LiesJoined
<1> QED
  BY <1>4, <1>6

\* The header of an IPv4 packet of f: the fields Ip4 reads.
IsHeader4(h, f) ==
  /\ h \in Seq(Byte) /\ Len(h) = 20 + f.options
  /\ At(h, 0) = 64 + (20 + f.options) \div 4
  /\ BigEndian(h, 2) = (IF f.sized THEN 20 + f.options + Len(IpPayload(f)) ELSE 0)
  /\ At(h, 9) = f.protocol
  /\ Lies(h, 12, Source(f)) /\ Lies(h, 16, Destination(f))

LEMMA LiesFirst ==
  ASSUME NEW bytes, NEW a, NEW at, Lies(bytes, at, a), Len(a) >= 1
  PROVE  At(bytes, at) = At(a, 0)
<1>1. at \in Nat /\ Len(a) \in Nat
  BY DEF Lies
<1>2. 1 \in 1 .. Len(a)
  BY <1>1
<1> QED
  BY <1>2 DEF Lies, At

LEMMA LiesWord ==
  ASSUME NEW bytes, NEW a, NEW at, Lies(bytes, at, a), Len(a) >= 2
  PROVE  BigEndian(bytes, at) = BigEndian(a, 0)
<1>1. at \in Nat /\ Len(a) \in Nat
  BY DEF Lies
<1>2. 1 \in 1 .. Len(a) /\ 2 \in 1 .. Len(a) /\ (at + 1) + 1 = at + 2
  BY <1>1
<1>3. bytes[at + 1] = a[1] /\ bytes[at + 2] = a[2]
  BY <1>2 DEF Lies
<1> QED
  BY <1>2, <1>3 DEF At, BigEndian

\* What the first byte of an IPv4 header tells: its version and its length.
LEMMA FirstByte4 ==
  ASSUME NEW ihl \in {20, 24}
  PROVE  /\ 64 + ihl \div 4 \in Byte
         /\ HighNibble(64 + ihl \div 4) = 4
         /\ 4 * LowNibble(64 + ihl \div 4) = ihl
<1>1. CASE ihl = 20
  <2>1. 64 + ihl \div 4 = 69
    BY <1>1
  <2> QED
    BY ONLY <1>1, <2>1 DEF Byte, HighNibble, LowNibble
<1>2. CASE ihl = 24
  <2>1. 64 + ihl \div 4 = 70
    BY <1>2
  <2> QED
    BY ONLY <1>2, <2>1 DEF Byte, HighNibble, LowNibble
<1> QED
  BY <1>1, <1>2

LEMMA Header4 ==
  ASSUME NEW f \in Frame, f.version = 4,
         Len(IpPayload(f)) \in Nat, f.options + 20 + Len(IpPayload(f)) <= MaxPort
  PROVE  IsHeader4(IpBytes(f), f)
<1> DEFINE ihl   == 20 + f.options
           total == IF f.sized THEN ihl + Len(IpPayload(f)) ELSE 0
           c1 == <<64 + ihl \div 4, 0>>
           c2 == Word16(total)
           c3 == Zeros(5)
           c4 == <<f.protocol>>
           c5 == Zeros(2)
           c6 == Source(f)
           c7 == Destination(f)
           c8 == Zeros(f.options)
           d2 == Join(c1, c2)
           d3 == Join(d2, c3)
           d4 == Join(d3, c4)
           d5 == Join(d4, c5)
           d6 == Join(d5, c6)
           d7 == Join(d6, c7)
           d8 == Join(d7, c8)
<1>1. f.options \in {0, 4} /\ f.protocol \in Byte
  BY DEF Frame
<1>2. IsBytes(c1, 2) /\ At(c1, 0) = 64 + ihl \div 4
  <2>1. 64 + ihl \div 4 \in Byte
    <3>1. ihl \in {20, 24}
      BY <1>1
    <3> QED
      BY <3>1, FirstByte4, Zenon
  <2> QED
    BY <2>1 DEF Byte, At, IsBytes
<1>3. IsBytes(c2, 2) /\ BigEndian(c2, 0) = total
  <2>1. total \in Port
    <3>1. MaxPort \in Nat /\ f.options \in Nat /\ f.options + 20 = ihl
      BY <1>1 DEF MaxPort
    <3>2. total \in Nat /\ total <= MaxPort
      <4> HIDE DEF ihl
      <4>1. ihl + Len(IpPayload(f)) <= MaxPort /\ ihl \in Nat
        BY <3>1
      <4> QED
        BY <3>1, <4>1
    <3> HIDE DEF total
    <3> QED
      BY <3>2, PortRange
  <2> HIDE DEF total
  <2>2. Word16(total) \in Seq(Byte) /\ Len(Word16(total)) = 2 /\ BigEndian(Word16(total), 0) = total
    BY <2>1, Word16Bytes
  <2> QED
    BY <2>2 DEF IsBytes
<1>4. IsBytes(c3, 5) /\ IsBytes(c5, 2) /\ IsBytes(c8, f.options)
  <2>1. f.options \in Nat
    BY <1>1
  <2>2. /\ Zeros(5) \in Seq(Byte) /\ Len(Zeros(5)) = 5
        /\ Zeros(2) \in Seq(Byte) /\ Len(Zeros(2)) = 2
        /\ Zeros(f.options) \in Seq(Byte) /\ Len(Zeros(f.options)) = f.options
    BY <2>1, ZerosBytes
  <2> QED
    BY <2>1, <2>2 DEF IsBytes
<1>5. IsBytes(c4, 1) /\ At(c4, 0) = f.protocol
  BY <1>1 DEF At, IsBytes
<1>6. IsBytes(c6, 4) /\ IsBytes(c7, 4)
  BY AddressBytes DEF IsBytes
<1>7. IpBytes(f) = d8
  BY Zenon DEF IpBytes, Join
<1>8. total = (IF f.sized THEN 20 + f.options + Len(IpPayload(f)) ELSE 0) /\ ihl = 20 + f.options
  OBVIOUS
<1> HIDE DEF ihl, total, c1, c2, c3, c4, c5, c6, c7, c8
<1>9. IsBytes(d2, 4) /\ Lies(d2, 0, c1) /\ Lies(d2, 2, c2)
  <2>1. IsBytes(d2, 2 + 2) /\ Lies(d2, 0, c1) /\ Lies(d2, 2, c2)
    BY <1>2, <1>3, JoinBytes, Zenon
  <2> QED
    BY <2>1
<1> HIDE DEF d2
<1>10. IsBytes(d3, 9) /\ Lies(d3, 0, d2)
  <2>1. IsBytes(d3, 4 + 5) /\ Lies(d3, 0, d2)
    BY <1>4, <1>9, JoinBytes, Zenon
  <2> QED
    BY <2>1
<1> HIDE DEF d3
<1>11. IsBytes(d4, 10) /\ Lies(d4, 0, d3) /\ Lies(d4, 9, c4)
  <2>1. IsBytes(d4, 9 + 1) /\ Lies(d4, 0, d3) /\ Lies(d4, 9, c4)
    BY <1>5, <1>10, JoinBytes, Zenon
  <2> QED
    BY <2>1
<1> HIDE DEF d4
<1>12. IsBytes(d5, 12) /\ Lies(d5, 0, d4)
  <2>1. IsBytes(d5, 10 + 2) /\ Lies(d5, 0, d4)
    BY <1>4, <1>11, JoinBytes, Zenon
  <2> QED
    BY <2>1
<1> HIDE DEF d5
<1>13. IsBytes(d6, 16) /\ Lies(d6, 0, d5) /\ Lies(d6, 12, c6)
  <2>1. IsBytes(d6, 12 + 4) /\ Lies(d6, 0, d5) /\ Lies(d6, 12, c6)
    BY <1>6, <1>12, JoinBytes, Zenon
  <2> QED
    BY <2>1
<1> HIDE DEF d6
<1>14. IsBytes(d7, 20) /\ Lies(d7, 0, d6) /\ Lies(d7, 16, c7)
  <2>1. IsBytes(d7, 16 + 4) /\ Lies(d7, 0, d6) /\ Lies(d7, 16, c7)
    BY <1>6, <1>13, JoinBytes, Zenon
  <2> QED
    BY <2>1
<1> HIDE DEF d7
<1>15. IsBytes(d8, 20 + f.options) /\ Lies(d8, 0, d7)
  BY <1>4, <1>14, JoinBytes, Zenon
<1> HIDE DEF d8
<1>16. Lies(d8, 0, d6) /\ Lies(d8, 0, d5) /\ Lies(d8, 0, d4) /\ Lies(d8, 0, d3) /\ Lies(d8, 0, d2)
  BY <1>10, <1>11, <1>12, <1>13, <1>14, <1>15, LiesAhead, Zenon
<1>17. Lies(d8, 0, c1) /\ Lies(d8, 2, c2) /\ Lies(d8, 9, c4) /\ Lies(d8, 12, c6) /\ Lies(d8, 16, c7)
  BY <1>9, <1>11, <1>13, <1>14, <1>15, <1>16, LiesAhead, Zenon
<1>18. Len(c1) >= 1 /\ Len(c4) >= 1 /\ Len(c2) >= 2
  BY <1>2, <1>3, <1>5 DEF IsBytes
<1>19. At(d8, 0) = At(c1, 0) /\ At(d8, 9) = At(c4, 0) /\ BigEndian(d8, 2) = BigEndian(c2, 0)
  BY <1>17, <1>18, LiesFirst, LiesWord, Zenon
<1>20. Lies(d8, 12, Source(f)) /\ Lies(d8, 16, Destination(f))
  BY <1>17 DEF c6, c7
<1> QED
  BY <1>2, <1>3, <1>5, <1>7, <1>8, <1>15, <1>19, <1>20 DEF IsHeader4, IsBytes

\* The header of an IPv6 packet of f: the fields Ip6 reads.
IsHeader6(h, f) ==
  /\ h \in Seq(Byte) /\ Len(h) = 40
  /\ At(h, 0) = 96
  /\ BigEndian(h, 4) = Len(IpPayload(f))
  /\ At(h, 6) = f.protocol
  /\ Lies(h, 8, Source(f)) /\ Lies(h, 24, Destination(f))

LEMMA Header6 ==
  ASSUME NEW f \in Frame, f.version = 6,
         Len(IpPayload(f)) \in Nat, Len(IpPayload(f)) <= MaxPort
  PROVE  IsHeader6(IpBytes(f), f)
<1> DEFINE c1 == <<96, 0, 0, 0>>
           c2 == Word16(Len(IpPayload(f)))
           c3 == <<f.protocol, 32>>
           c4 == Source(f)
           c5 == Destination(f)
           d2 == Join(c1, c2)
           d3 == Join(d2, c3)
           d4 == Join(d3, c4)
           d5 == Join(d4, c5)
<1>1. IsBytes(c1, 4) /\ At(c1, 0) = 96
  BY DEF Byte, At, IsBytes
<1>2. IsBytes(c2, 2) /\ BigEndian(c2, 0) = Len(IpPayload(f))
  BY PortRange, Word16Bytes DEF IsBytes
<1>3. IsBytes(c3, 2) /\ At(c3, 0) = f.protocol
  BY DEF Frame, Byte, At, IsBytes
<1>4. IsBytes(c4, 16) /\ IsBytes(c5, 16)
  BY AddressBytes DEF IsBytes
<1>5. IpBytes(f) = d5
  <2>1. f.version # 4
    OBVIOUS
  <2> QED
    BY <2>1, Zenon DEF IpBytes, Join
<1> HIDE DEF c1, c2, c3, c4, c5
<1>6. IsBytes(d2, 6) /\ Lies(d2, 0, c1) /\ Lies(d2, 4, c2)
  <2>1. IsBytes(c1, 4) /\ IsBytes(c2, 2)
    BY <1>1, <1>2
  <2>2. IsBytes(d2, 4 + 2) /\ Lies(d2, 0, c1) /\ Lies(d2, 4, c2)
    BY <2>1, JoinBytes, Zenon
  <2> QED
    BY <2>2
<1> HIDE DEF d2
<1>7. IsBytes(d3, 8) /\ Lies(d3, 0, d2) /\ Lies(d3, 6, c3)
  <2>1. IsBytes(d3, 6 + 2) /\ Lies(d3, 0, d2) /\ Lies(d3, 6, c3)
    BY <1>3, <1>6, JoinBytes, Zenon
  <2> QED
    BY <2>1
<1> HIDE DEF d3
<1>8. IsBytes(d4, 24) /\ Lies(d4, 0, d3) /\ Lies(d4, 8, c4)
  <2>1. IsBytes(d4, 8 + 16) /\ Lies(d4, 0, d3) /\ Lies(d4, 8, c4)
    BY <1>4, <1>7, JoinBytes, Zenon
  <2> QED
    BY <2>1
<1> HIDE DEF d4
<1>9. IsBytes(d5, 40) /\ Lies(d5, 0, d4) /\ Lies(d5, 24, c5)
  <2>1. IsBytes(d5, 24 + 16) /\ Lies(d5, 0, d4) /\ Lies(d5, 24, c5)
    BY <1>4, <1>8, JoinBytes, Zenon
  <2> QED
    BY <2>1
<1> HIDE DEF d5
<1>10. Lies(d5, 0, d3) /\ Lies(d5, 0, d2)
  BY <1>7, <1>8, <1>9, LiesAhead, Zenon
<1>11. Lies(d5, 0, c1) /\ Lies(d5, 4, c2) /\ Lies(d5, 6, c3) /\ Lies(d5, 8, c4)
  BY <1>6, <1>7, <1>8, <1>9, <1>10, LiesAhead, Zenon
<1>12. Len(c1) >= 1 /\ Len(c3) >= 1 /\ Len(c2) >= 2
  BY <1>1, <1>2, <1>3 DEF IsBytes
<1>13. At(d5, 0) = At(c1, 0) /\ At(d5, 6) = At(c3, 0) /\ BigEndian(d5, 4) = BigEndian(c2, 0)
  BY <1>11, <1>12, LiesFirst, LiesWord, Zenon
<1>14. Lies(d5, 8, Source(f)) /\ Lies(d5, 24, Destination(f))
  BY <1>9, <1>11 DEF c4, c5
<1> QED
  BY <1>1, <1>2, <1>3, <1>5, <1>9, <1>13, <1>14 DEF IsHeader6, IsBytes

\* The header of TCP or UDP: what CarriesTransport and PacketOf read.
IsTransport(t, f) ==
  /\ IsBytes(t, TransportLength(f))
  /\ BigEndian(t, 0) = SourcePort /\ BigEndian(t, 2) = DestinationPort
  /\ f.protocol = TCP => At(t, 12) = TransportLength(f) * 4

LEMMA PortsBytes ==
  /\ IsBytes(Join(Word16(SourcePort), Word16(DestinationPort)), 4)
  /\ BigEndian(Join(Word16(SourcePort), Word16(DestinationPort)), 0) = SourcePort
  /\ BigEndian(Join(Word16(SourcePort), Word16(DestinationPort)), 2) = DestinationPort
<1> DEFINE c1 == Word16(SourcePort)
           c2 == Word16(DestinationPort)
           d2 == Join(c1, c2)
<1>1. SourcePort \in Port /\ DestinationPort \in Port
  <2>1. /\ SourcePort \in Nat /\ SourcePort <= MaxPort
        /\ DestinationPort \in Nat /\ DestinationPort <= MaxPort
    BY DEF SourcePort, DestinationPort, MaxPort
  <2> QED
    BY <2>1, PortRange, Zenon
<1>2. /\ IsBytes(c1, 2) /\ Len(c1) >= 2 /\ BigEndian(c1, 0) = SourcePort
      /\ IsBytes(c2, 2) /\ Len(c2) >= 2 /\ BigEndian(c2, 0) = DestinationPort
  BY <1>1, Word16Bytes DEF IsBytes
<1> HIDE DEF c1, c2
<1>3. IsBytes(d2, 2 + 2) /\ Lies(d2, 0, c1) /\ Lies(d2, 2, c2)
  BY <1>2, JoinBytes, Zenon
<1>4. BigEndian(d2, 0) = BigEndian(c1, 0) /\ BigEndian(d2, 2) = BigEndian(c2, 0)
  BY <1>2, <1>3, LiesWord, Zenon
<1> HIDE DEF d2
<1>5. IsBytes(d2, 4) /\ BigEndian(d2, 0) = SourcePort /\ BigEndian(d2, 2) = DestinationPort
  BY <1>2, <1>3, <1>4
<1> QED
  BY <1>5, Zenon DEF d2, c1, c2

\* The ports of bytes that begin with them.
LEMMA PortsWithin ==
  ASSUME NEW t, NEW ports, IsBytes(ports, 4), Lies(t, 0, ports)
  PROVE  BigEndian(t, 0) = BigEndian(ports, 0) /\ BigEndian(t, 2) = BigEndian(ports, 2)
<1>1. Len(ports) = 4
  BY DEF IsBytes
<1>2. BigEndian(t, 0) = BigEndian(ports, 0)
  <2>1. Len(ports) >= 2
    BY <1>1
  <2> QED
    BY <2>1, LiesWord, Zenon
<1>3. BigEndian(t, 0 + 2) = BigEndian(ports, 2)
  BY <1>1, LiesBigEndian
<1> QED
  BY <1>2, <1>3

LEMMA TransportHeader ==
  ASSUME NEW f \in Frame, f.protocol \in {TCP, UDP},
         TransportLength(f) + Len(f.payload) <= MaxPort
  PROVE  IsTransport(TransportBytes(f), f)
<1> DEFINE ports == Join(Word16(SourcePort), Word16(DestinationPort))
<1>1. /\ IsBytes(ports, 4)
      /\ BigEndian(ports, 0) = SourcePort /\ BigEndian(ports, 2) = DestinationPort
  BY PortsBytes, Zenon
<1>2. f.tcp \in {0, 4} /\ f.payload \in Seq(Byte) /\ Len(f.payload) \in Nat
  BY DEF Frame
<1>3. CASE f.protocol = TCP
  <2> DEFINE size == TransportLength(f)
             c2 == Zeros(8)
             c3 == <<size * 4, 16>>
             c4 == Zeros(6 + f.tcp)
             d2 == Join(ports, c2)
             d3 == Join(d2, c3)
             d4 == Join(d3, c4)
  <2>1. TransportBytes(f) = d4
    <3>1. f.protocol # UDP
      BY <1>3 DEF TCP, UDP
    <3> QED
      BY <1>3, <3>1, Zenon DEF TransportBytes, Join
  <2>2. size = 20 + f.tcp /\ size \in {20, 24} /\ 6 + f.tcp \in Nat /\ size = 14 + (6 + f.tcp)
    BY <1>2, <1>3 DEF TransportLength
  <2>3. IsBytes(c2, 8) /\ IsBytes(c4, 6 + f.tcp)
    BY <2>2, ZerosBytes DEF IsBytes
  <2>4. IsBytes(c3, 2) /\ Len(c3) >= 1 /\ At(c3, 0) = size * 4
    <3>1. size * 4 \in Byte
      <4>1. size * 4 = 80 \/ size * 4 = 96
        BY <2>2
      <4> QED
        BY ONLY <4>1 DEF Byte
    <3> HIDE DEF size
    <3> QED
      BY <3>1 DEF Byte, At, IsBytes
  <2> HIDE DEF ports, size, c2, c3, c4
  <2>5. IsBytes(d2, 12) /\ Lies(d2, 0, ports)
    <3>1. IsBytes(d2, 4 + 8) /\ Lies(d2, 0, ports)
      BY <1>1, <2>3, JoinBytes, Zenon
    <3> QED
      BY <3>1
  <2> HIDE DEF d2
  <2>6. IsBytes(d3, 14) /\ Lies(d3, 0, d2) /\ Lies(d3, 12, c3)
    <3>1. IsBytes(d3, 12 + 2) /\ Lies(d3, 0, d2) /\ Lies(d3, 12, c3)
      BY <2>4, <2>5, JoinBytes, Zenon
    <3> QED
      BY <3>1
  <2> HIDE DEF d3
  <2>7. IsBytes(d4, 14 + (6 + f.tcp)) /\ Lies(d4, 0, d3)
    BY <2>3, <2>6, JoinBytes, Zenon
  <2> HIDE DEF d4
  <2>8. Lies(d4, 0, d2) /\ Lies(d4, 12, c3)
    BY <2>6, <2>7, LiesAhead, Zenon
  <2>9. Lies(d4, 0, ports)
    BY <2>5, <2>8, LiesAhead, Zenon
  <2>10. At(d4, 12) = At(c3, 0)
    BY <2>4, <2>8, LiesFirst, Zenon
  <2>11. BigEndian(d4, 0) = SourcePort /\ BigEndian(d4, 2) = DestinationPort
    BY <1>1, <2>9, PortsWithin
  <2> QED
    BY <2>1, <2>2, <2>4, <2>7, <2>10, <2>11 DEF IsTransport, size
<1>4. CASE f.protocol = UDP
  <2> DEFINE c2 == Word16(TransportLength(f) + Len(f.payload))
             c3 == Zeros(2)
             d2 == Join(ports, c2)
             d3 == Join(d2, c3)
  <2>1. f.protocol # TCP
    BY <1>4 DEF TCP, UDP
  <2>2. TransportBytes(f) = d3
    BY <1>4, <2>1, Zenon DEF TransportBytes, Join
  <2>3. TransportLength(f) = 8
    BY <2>1 DEF TransportLength
  <2>4. IsBytes(c2, 2) /\ IsBytes(c3, 2)
    <3>1. TransportLength(f) + Len(f.payload) \in Port
      BY <1>2, <2>3, PortRange
    <3> QED
      BY <3>1, Word16Bytes, ZerosBytes DEF IsBytes
  <2> HIDE DEF ports, c2, c3
  <2>5. IsBytes(d2, 6) /\ Lies(d2, 0, ports)
    <3>1. IsBytes(d2, 4 + 2) /\ Lies(d2, 0, ports)
      BY <1>1, <2>4, JoinBytes, Zenon
    <3> QED
      BY <3>1
  <2> HIDE DEF d2
  <2>6. IsBytes(d3, 8) /\ Lies(d3, 0, d2)
    <3>1. IsBytes(d3, 6 + 2) /\ Lies(d3, 0, d2)
      BY <2>4, <2>5, JoinBytes, Zenon
    <3> QED
      BY <3>1
  <2> HIDE DEF d3
  <2>7. Lies(d3, 0, ports)
    BY <2>5, <2>6, LiesAhead, Zenon
  <2>8. BigEndian(d3, 0) = SourcePort /\ BigEndian(d3, 2) = DestinationPort
    BY <1>1, <2>7, PortsWithin
  <2> QED
    BY <2>1, <2>2, <2>3, <2>6, <2>8 DEF IsTransport
<1> QED
  BY <1>3, <1>4

LEMMA IpPayloadBytes ==
  ASSUME NEW f \in Frame, f.protocol \in {TCP, UDP},
         TransportLength(f) + Len(f.payload) <= MaxPort
  PROVE  /\ IsTransport(TransportBytes(f), f)
         /\ IsBytes(IpPayload(f), TransportLength(f) + Len(f.payload))
         /\ Lies(IpPayload(f), 0, TransportBytes(f))
<1>1. IsTransport(TransportBytes(f), f) /\ IsBytes(TransportBytes(f), TransportLength(f))
  BY TransportHeader DEF IsTransport
<1>2. IsBytes(f.payload, Len(f.payload))
  BY DEF Frame, IsBytes
<1>3. IpPayload(f) = Join(TransportBytes(f), f.payload)
  BY Zenon DEF IpPayload, Join
<1> QED
  BY <1>1, <1>2, <1>3, JoinBytes, Zenon

LinkLength(f) ==
  CASE f.link = "raw"      -> 0
    [] f.link = "ethernet" -> 14
    [] f.link = "vlan"     -> 18
    [] f.link = "snap"     -> 22

\* What the search for the IP packet sees of the link layer.
IsLink(l, f) ==
  /\ IsBytes(l, LinkLength(f))
  /\ f.link # "raw"     => At(l, 0) = 2
  /\ f.link = "ethernet" => BigEndian(l, 12) \in IpEtherTypes
  /\ f.link = "vlan"     => BigEndian(l, 12) = 33024 /\ BigEndian(l, 16) \in IpEtherTypes
  /\ f.link = "snap"     => /\ BigEndian(l, 12) = 100
                            /\ \A i \in 0 .. 13 : At(l, i) # 170
                            /\ Lies(l, 14, SnapHeader) /\ BigEndian(l, 20) \in IpEtherTypes

LEMMA MacBytes ==
  /\ IsBytes(MacAddresses, 12) /\ Len(MacAddresses) >= 1 /\ At(MacAddresses, 0) = 2
  /\ \A i \in 0 .. 11 : At(MacAddresses, i) # 170
<1> DEFINE a == <<2, 1, 1, 1, 1, 1>>
           b == <<2, 1, 1, 1, 1, 2>>
<1>1. IsBytes(a, 6) /\ At(a, 0) = 2 /\ \A i \in 1 .. 6 : a[i] # 170
  BY DEF IsBytes, Byte, At
<1>2. IsBytes(b, 6) /\ \A i \in 1 .. 6 : b[i] # 170
  BY DEF IsBytes, Byte
<1>3. MacAddresses = Join(a, b)
  BY Zenon DEF MacAddresses, Join
<1> HIDE DEF a, b
<1>4. IsBytes(MacAddresses, 6 + 6) /\ Lies(MacAddresses, 0, a) /\ Lies(MacAddresses, 6, b)
  <2>1. IsBytes(a, 6) /\ IsBytes(b, 6)
    BY <1>1, <1>2
  <2> QED
    BY <1>3, <2>1, JoinBytes, Zenon
<1>5. Len(a) = 6 /\ Len(b) = 6
  BY <1>1, <1>2 DEF IsBytes
<1>6. \A i \in 1 .. 6 : MacAddresses[i] = a[i] /\ MacAddresses[6 + i] = b[i]
  BY <1>4, <1>5 DEF Lies
<1>7. At(MacAddresses, 0) = 2
  BY <1>1, <1>6 DEF At
<1>8. ASSUME NEW i \in 0 .. 11
      PROVE  At(MacAddresses, i) # 170
  <2>1. CASE i + 1 <= 6
    BY <1>1, <1>6, <2>1 DEF At
  <2>2. CASE i + 1 > 6
    <3>1. i - 5 \in 1 .. 6 /\ i + 1 = 6 + (i - 5)
      BY <2>2
    <3>2. MacAddresses[6 + (i - 5)] # 170
      BY <1>2, <1>6, <3>1
    <3> QED
      BY <3>1, <3>2 DEF At
  <2> QED
    BY <2>1, <2>2
<1> QED
  BY <1>4, <1>7, <1>8 DEF IsBytes

LEMMA EtherTypeBytes ==
  ASSUME NEW f
  PROVE  /\ IsBytes(EtherType(f), 2) /\ Len(EtherType(f)) >= 2
         /\ BigEndian(EtherType(f), 0) \in IpEtherTypes
<1> DEFINE four == <<8, 0>>
           six  == <<134, 221>>
<1>1. IsBytes(four, 2) /\ Len(four) >= 2 /\ BigEndian(four, 0) = 2048
  BY DEF IsBytes, Byte, BigEndian, At
<1>2. IsBytes(six, 2) /\ Len(six) >= 2 /\ BigEndian(six, 0) = 34525
  BY DEF IsBytes, Byte, BigEndian, At
<1>3. EtherType(f) = four \/ EtherType(f) = six
  BY DEF EtherType
<1> HIDE DEF four, six
<1> QED
  BY <1>1, <1>2, <1>3 DEF IpEtherTypes

LEMMA LinkHeader ==
  ASSUME NEW f \in Frame
  PROVE  IsLink(LinkBytes(f), f)
<1> DEFINE mac  == MacAddresses
           type == EtherType(f)
<1>1. IsBytes(mac, 12) /\ Len(mac) >= 1 /\ At(mac, 0) = 2
  BY MacBytes, Zenon
<1>2. /\ IsBytes(type, 2) /\ Len(type) >= 2
      /\ BigEndian(type, 0) \in IpEtherTypes
  BY EtherTypeBytes, Zenon
<1>3. CASE f.link = "raw"
  <2>1. LinkBytes(f) = <<>> /\ LinkLength(f) = 0
    BY <1>3 DEF LinkBytes, LinkLength
  <2>2. IsBytes(<<>>, 0)
    BY DEF IsBytes
  <2> QED
    BY <1>3, <2>1, <2>2 DEF IsLink
<1>4. CASE f.link = "ethernet"
  <2> DEFINE l == Join(mac, type)
  <2>1. LinkBytes(f) = l /\ LinkLength(f) = 14
    <3>1. f.link # "raw" /\ f.link # "vlan" /\ f.link # "snap"
      BY <1>4
    <3> QED
      BY <1>4, <3>1, Zenon DEF LinkBytes, LinkLength, Join
  <2> HIDE DEF mac, type
  <2>2. IsBytes(l, 12 + 2) /\ Lies(l, 0, mac) /\ Lies(l, 12, type)
    BY <1>1, <1>2, JoinBytes, Zenon
  <2>3. At(l, 0) = 2 /\ BigEndian(l, 12) \in IpEtherTypes
    BY <1>1, <1>2, <2>2, LiesFirst, LiesWord, Zenon
  <2> HIDE DEF l
  <2> QED
    BY <1>4, <2>1, <2>2, <2>3 DEF IsLink
<1>5. CASE f.link = "vlan"
  <2> DEFINE tag == <<129, 0, 0, 5>>
             d   == Join(mac, tag)
             l   == Join(d, type)
  <2>1. LinkBytes(f) = l /\ LinkLength(f) = 18
    <3>1. f.link # "raw" /\ f.link # "ethernet" /\ f.link # "snap"
      BY <1>5
    <3> QED
      BY <1>5, <3>1, Zenon DEF LinkBytes, LinkLength, Join
  <2>2. IsBytes(tag, 4) /\ Len(tag) >= 2 /\ BigEndian(tag, 0) = 33024
    BY DEF IsBytes, Byte, BigEndian, At
  <2> HIDE DEF mac, type, tag
  <2>3. IsBytes(d, 16) /\ Lies(d, 0, mac) /\ Lies(d, 12, tag)
    <3>1. IsBytes(mac, 12) /\ IsBytes(tag, 4)
      BY <1>1, <2>2
    <3>2. IsBytes(d, 12 + 4) /\ Lies(d, 0, mac) /\ Lies(d, 12, tag)
      BY <3>1, JoinBytes, Zenon
    <3> QED
      BY <3>2
  <2> HIDE DEF d
  <2>4. IsBytes(l, 16 + 2) /\ Lies(l, 0, d) /\ Lies(l, 16, type)
    BY <1>2, <2>3, JoinBytes, Zenon
  <2>5. Lies(l, 0, mac) /\ Lies(l, 12, tag)
    BY <2>3, <2>4, LiesAhead, Zenon
  <2>6. At(l, 0) = 2 /\ BigEndian(l, 12) = 33024 /\ BigEndian(l, 16) \in IpEtherTypes
    <3>1. At(l, 0) = At(mac, 0)
      BY <1>1, <2>5, LiesFirst, Zenon
    <3>2. BigEndian(l, 12) = BigEndian(tag, 0)
      <4>1. Len(tag) >= 2
        BY <2>2
      <4> QED
        BY <2>5, <4>1, LiesWord, Zenon
    <3>3. BigEndian(l, 16) = BigEndian(type, 0)
      BY <1>2, <2>4, LiesWord, Zenon
    <3> QED
      BY <1>1, <1>2, <2>2, <3>1, <3>2, <3>3
  <2> HIDE DEF l
  <2> QED
    BY <1>5, <2>1, <2>4, <2>6 DEF IsLink
<1>6. CASE f.link = "snap"
  <2> DEFINE size == Word16(100)
             d    == Join(mac, size)
             e    == Join(d, SnapHeader)
             l    == Join(e, type)
  <2>1. LinkBytes(f) = l /\ LinkLength(f) = 22
    <3>1. f.link # "raw" /\ f.link # "ethernet" /\ f.link # "vlan"
      BY <1>6
    <3> QED
      BY <1>6, <3>1, Zenon DEF LinkBytes, LinkLength, Join, SnapHeader
  <2>2. /\ IsBytes(size, 2) /\ Len(size) >= 2 /\ BigEndian(size, 0) = 100
        /\ size[1] # 170 /\ size[2] # 170
    <3> DEFINE w == <<0, 100>>
    <3>1. Word16(100) = w
      BY DEF Word16
    <3>2. IsBytes(w, 2) /\ Len(w) >= 2 /\ BigEndian(w, 0) = 100
      BY DEF IsBytes, Byte, BigEndian, At
    <3>3. w[1] # 170 /\ w[2] # 170
      OBVIOUS
    <3> HIDE DEF w
    <3> QED
      BY <3>1, <3>2, <3>3, Zenon
  <2>3. IsBytes(SnapHeader, 6)
    BY DEF SnapHeader, IsBytes, Byte
  <2> HIDE DEF mac, type, size
  <2>4. IsBytes(d, 14) /\ Lies(d, 0, mac) /\ Lies(d, 12, size)
    <3>1. IsBytes(mac, 12) /\ IsBytes(size, 2)
      BY <1>1, <2>2
    <3>2. IsBytes(d, 12 + 2) /\ Lies(d, 0, mac) /\ Lies(d, 12, size)
      BY <3>1, JoinBytes, Zenon
    <3> QED
      BY <3>2
  <2> HIDE DEF d
  <2>5. IsBytes(e, 20) /\ Lies(e, 0, d) /\ Lies(e, 14, SnapHeader)
    <3>1. IsBytes(e, 14 + 6) /\ Lies(e, 0, d) /\ Lies(e, 14, SnapHeader)
      BY <2>3, <2>4, JoinBytes, Zenon
    <3> QED
      BY <3>1
  <2> HIDE DEF e
  <2>6. IsBytes(l, 20 + 2) /\ Lies(l, 0, e) /\ Lies(l, 20, type)
    BY <1>2, <2>5, JoinBytes, Zenon
  <2> HIDE DEF l
  <2>7. Lies(l, 0, d) /\ Lies(l, 14, SnapHeader)
    BY <2>5, <2>6, LiesAhead, Zenon
  <2>8. Lies(l, 0, mac) /\ Lies(l, 12, size)
    BY <2>4, <2>7, LiesAhead, Zenon
  <2>9. At(l, 0) = 2 /\ BigEndian(l, 12) = 100 /\ BigEndian(l, 20) \in IpEtherTypes
    <3>1. At(l, 0) = At(mac, 0)
      BY <1>1, <2>8, LiesFirst, Zenon
    <3>2. BigEndian(l, 12) = BigEndian(size, 0)
      <4>1. Len(size) >= 2
        BY <2>2
      <4> QED
        BY <2>8, <4>1, LiesWord, Zenon
    <3>3. BigEndian(l, 20) = BigEndian(type, 0)
      BY <1>2, <2>6, LiesWord, Zenon
    <3> QED
      BY <1>1, <1>2, <2>2, <3>1, <3>2, <3>3
  <2>10. ASSUME NEW i \in 0 .. 13
         PROVE  At(l, i) # 170
    <3>1. Len(mac) = 12 /\ Len(size) = 2
      BY <1>1, <2>2 DEF IsBytes
    <3>2. CASE i < 12
      <4>1. i \in 0 .. 11 /\ i + 1 \in 1 .. Len(mac) /\ 0 + (i + 1) = i + 1
        BY <3>1, <3>2
      <4>2. l[0 + (i + 1)] = mac[i + 1]
        BY <2>8, <4>1 DEF Lies
      <4>3. At(l, i) = At(mac, i)
        BY <4>1, <4>2 DEF At
      <4>4. At(mac, i) # 170
        BY <4>1, MacBytes DEF mac
      <4> QED
        BY <4>3, <4>4
    <3>3. CASE i = 12
      <4>1. l[12 + 1] = size[1]
        BY <2>8, <3>1 DEF Lies
      <4> QED
        BY <2>2, <3>3, <4>1 DEF At
    <3>4. CASE i = 13
      <4>1. l[12 + 2] = size[2]
        BY <2>8, <3>1 DEF Lies
      <4> QED
        BY <2>2, <3>4, <4>1 DEF At
    <3> QED
      BY <3>2, <3>3, <3>4
  <2>11. IsLink(l, f)
    <3>1. IsBytes(l, 22) /\ f.link # "raw" /\ f.link # "ethernet" /\ f.link # "vlan"
      BY <1>6, <2>6
    <3> QED
      BY <1>6, <2>1, <2>7, <2>9, <2>10, <3>1 DEF IsLink
  <2> QED
    BY <2>1, <2>11
<1> QED
  BY <1>3, <1>4, <1>5, <1>6 DEF Frame

IpLength(f) == IF f.version = 4 THEN 20 + f.options ELSE 40

\* What is known of a captured frame whose headers are to be found.
IsFrame(f) == f \in Frames /\ f.protocol \in {TCP, UDP}

\* The lengths of the layers.
Measured(f) ==
  /\ LinkLength(f) \in {0, 14, 18, 22} /\ IpLength(f) \in {20, 24, 40}
  /\ TransportLength(f) \in {8, 20, 24}
  /\ Len(f.payload) \in Nat /\ f.padding \in Nat

LEMMA Lengths ==
  ASSUME NEW f, IsFrame(f)
  PROVE  Measured(f) /\ f \in Frame /\ TransportLength(f) + Len(f.payload) <= MaxPort
<1>1. f \in Frame
  BY FramesAssumption DEF IsFrame
<1>2. /\ f.version \in {4, 6} /\ f.options \in {0, 4} /\ f.tcp \in {0, 4}
      /\ f.payload \in Seq(Byte) /\ f.padding \in Nat
      /\ f.link = "raw" \/ f.link = "ethernet" \/ f.link = "vlan" \/ f.link = "snap"
  BY <1>1 DEF Frame
<1>3. LinkLength(f) \in {0, 14, 18, 22}
  BY <1>2 DEF LinkLength
<1>4. IpLength(f) \in {20, 24, 40}
  BY <1>2 DEF IpLength
<1>5. TransportLength(f) \in {8, 20, 24}
  BY <1>2 DEF TransportLength
<1>6. 20 + f.options + TransportLength(f) + Len(f.payload) <= MaxPort /\ MaxPort \in Nat
  BY FramesAssumption DEF IsFrame, MaxPort
<1>7. Len(f.payload) \in Nat
  BY <1>2
<1>8. TransportLength(f) + Len(f.payload) <= MaxPort
  <2> DEFINE n == TransportLength(f)
             m == Len(f.payload)
  <2>1. n \in Nat /\ m \in Nat /\ f.options \in Nat /\ 20 + f.options + n + m <= MaxPort
    BY <1>2, <1>5, <1>6, <1>7
  <2> HIDE DEF n, m
  <2>2. n + m <= MaxPort
    BY <1>6, <2>1
  <2> QED
    BY <2>2 DEF n, m
<1> QED
  BY <1>1, <1>2, <1>3, <1>4, <1>5, <1>7, <1>8 DEF Measured

LEMMA IpHeaderBytes ==
  ASSUME NEW f, IsFrame(f)
  PROVE  /\ IsBytes(IpBytes(f), IpLength(f))
         /\ f.version = 4 => IsHeader4(IpBytes(f), f)
         /\ f.version = 6 => IsHeader6(IpBytes(f), f)
         /\ f.version \in {4, 6}
<1>1. f \in Frame /\ Measured(f) /\ TransportLength(f) + Len(f.payload) <= MaxPort
  BY Lengths
<1>2. Len(IpPayload(f)) = TransportLength(f) + Len(f.payload)
  BY <1>1, IpPayloadBytes DEF IsFrame, IsBytes
<1>3. Len(IpPayload(f)) \in Nat /\ Len(IpPayload(f)) <= MaxPort
  BY <1>1, <1>2 DEF Measured
<1>4. f.version \in {4, 6} /\ f.options \in Nat
  BY <1>1 DEF Frame
<1>5. CASE f.version = 4
  <2>1. f.options + 20 + Len(IpPayload(f)) <= MaxPort
    <3>1. 20 + f.options + TransportLength(f) + Len(f.payload) <= MaxPort /\ MaxPort \in Nat
      BY FramesAssumption DEF IsFrame, MaxPort
    <3>2. TransportLength(f) \in Nat /\ Len(f.payload) \in Nat
      BY <1>1 DEF Measured
    <3> QED
      BY <1>2, <1>4, <3>1, <3>2
  <2>2. IsHeader4(IpBytes(f), f)
    BY <1>1, <1>3, <1>5, <2>1, Header4
  <2>3. IsBytes(IpBytes(f), IpLength(f))
    BY <1>4, <1>5, <2>2 DEF IsHeader4, IsBytes, IpLength
  <2> QED
    BY <1>5, <2>2, <2>3
<1>6. CASE f.version = 6
  <2>1. IsHeader6(IpBytes(f), f)
    BY <1>1, <1>3, <1>6, Header6
  <2>2. IsBytes(IpBytes(f), IpLength(f))
    BY <1>6, <2>1 DEF IsHeader6, IsBytes, IpLength
  <2> QED
    BY <1>6, <2>1, <2>2
<1> QED
  BY <1>4, <1>5, <1>6

HeadersLength(f) == LinkLength(f) + IpLength(f) + TransportLength(f)

\* Where the layers lie in the frame.
LEMMA FrameLayout ==
  ASSUME NEW f, IsFrame(f)
  PROVE  /\ IsBytes(FrameBytes(f), HeadersLength(f) + Len(f.payload) + f.padding)
         /\ PayloadStart(f) = HeadersLength(f)
         /\ Lies(FrameBytes(f), 0, LinkBytes(f))
         /\ Lies(FrameBytes(f), LinkLength(f), IpBytes(f))
         /\ Lies(FrameBytes(f), LinkLength(f) + IpLength(f), TransportBytes(f))
<1> DEFINE l == LinkBytes(f)
           h == IpBytes(f)
           t == TransportBytes(f)
           p == IpPayload(f)
           z == Zeros(f.padding)
           d1 == Join(l, h)
           d2 == Join(d1, p)
           d3 == Join(d2, z)
           e  == Join(d1, t)
           nl == LinkLength(f)
           ni == IpLength(f)
           nt == TransportLength(f)
           np == Len(f.payload)
<1>1. f \in Frame /\ Measured(f) /\ nt + np <= MaxPort
  BY Lengths
<1>2. nl \in Nat /\ ni \in Nat /\ nt \in Nat /\ np \in Nat /\ f.padding \in Nat
  BY <1>1 DEF Measured
<1>3. IsBytes(l, nl)
  BY <1>1, LinkHeader DEF IsLink
<1>4. IsBytes(h, ni)
  BY IpHeaderBytes, Zenon
<1>5. IsBytes(p, nt + np) /\ Lies(p, 0, t) /\ IsBytes(t, nt)
  BY <1>1, IpPayloadBytes DEF IsFrame, IsTransport
<1>6. IsBytes(z, f.padding)
  BY <1>2, ZerosBytes DEF IsBytes
<1>7. FrameBytes(f) = d3 /\ PayloadStart(f) = Len(e)
  BY Zenon DEF FrameBytes, PayloadStart, Join
<1>8. HeadersLength(f) = nl + ni + nt
  BY DEF HeadersLength
<1> HIDE DEF l, h, t, p, z, nl, ni, nt, np
<1>9. IsBytes(d1, nl + ni) /\ Lies(d1, 0, l) /\ Lies(d1, nl, h)
  BY <1>3, <1>4, JoinBytes, Zenon
<1> HIDE DEF d1
<1>10. IsBytes(d2, (nl + ni) + (nt + np)) /\ Lies(d2, 0, d1) /\ Lies(d2, nl + ni, p)
  BY <1>5, <1>9, JoinBytes, Zenon
<1>11. IsBytes(e, (nl + ni) + nt)
  BY <1>5, <1>9, JoinBytes, Zenon
<1> HIDE DEF d2, e
<1>12. IsBytes(d3, ((nl + ni) + (nt + np)) + f.padding) /\ Lies(d3, 0, d2)
  BY <1>6, <1>10, JoinBytes, Zenon
<1> HIDE DEF d3
<1>13. Lies(d3, 0, d1) /\ Lies(d3, nl + ni, p)
  BY <1>10, <1>12, LiesAhead, Zenon
<1>14. Lies(d3, 0, l) /\ Lies(d3, nl, h)
  BY <1>9, <1>13, LiesAhead, Zenon
<1>15. Lies(d3, nl + ni, t)
  <2>1. Lies(d3, (nl + ni) + 0, t)
    BY <1>5, <1>13, LiesWithin, Zenon
  <2>2. (nl + ni) + 0 = nl + ni
    BY <1>2
  <2> QED
    BY <2>1, <2>2, Zenon
<1>16. IsBytes(d3, HeadersLength(f) + np + f.padding)
  <2>1. ((nl + ni) + (nt + np)) + f.padding = nl + ni + nt + np + f.padding
    BY <1>2
  <2> QED
    BY <1>8, <1>12, <2>1, Zenon
<1>17. Len(e) = HeadersLength(f)
  BY <1>8, <1>11 DEF IsBytes
<1> QED
  BY <1>7, <1>14, <1>15, <1>16, <1>17, Zenon DEF l, h, t, nl, ni, np

-----------------------------------------------------------------------------
(* Parsing a captured frame *)

\* The bytes s are what the capture kept of the frame, and the headers are whole.
Captures(s, f) ==
  /\ IsFrame(f)
  /\ Lies(FrameBytes(f), 0, s) /\ Len(s) = Kept(f)
  /\ PayloadStart(f) <= Kept(f)

LEMMA LiesShared ==
  ASSUME NEW bytes, NEW s, NEW a, NEW at, Lies(bytes, 0, s), Lies(bytes, at, a), at + Len(a) <= Len(s)
  PROVE  Lies(s, at, a)
<1>1. /\ s \in Seq(Byte) /\ a \in Seq(Byte) /\ at \in Nat
      /\ Len(s) \in Nat /\ Len(a) \in Nat
  BY DEF Lies
<1>2. ASSUME NEW i \in 1 .. Len(a)
      PROVE  s[at + i] = a[i]
  <2>1. at + i \in 1 .. Len(s) /\ 0 + (at + i) = at + i
    BY <1>1
  <2>2. bytes[0 + (at + i)] = s[at + i]
    BY <2>1 DEF Lies
  <2>3. bytes[at + i] = a[i]
    BY DEF Lies
  <2> QED
    BY <2>1, <2>2, <2>3
<1> QED
  BY <1>1, <1>2 DEF Lies

LEMMA SliceShared ==
  ASSUME NEW bytes, NEW s, NEW first \in Nat, NEW end \in Nat, Lies(bytes, 0, s), end <= Len(s)
  PROVE  Slice(s, first, end) = SubSeq(bytes, first + 1, end)
<1>1. /\ s \in Seq(Byte) /\ bytes \in Seq(Byte) /\ Len(s) \in Nat /\ Len(bytes) \in Nat
      /\ Len(s) <= Len(bytes)
  BY DEF Lies
<1> DEFINE a == SubSeq(s, first + 1, end)
           b == SubSeq(bytes, first + 1, end)
           n == IF first + 1 <= end THEN end - (first + 1) + 1 ELSE 0
<1>2. \A i \in first + 1 .. end : s[i] \in Byte /\ bytes[i] \in Byte
  BY <1>1
<1>3. /\ a \in Seq(Byte) /\ Len(a) = n /\ \A i \in 1 .. end - (first + 1) + 1 : a[i] = s[first + 1 + i - 1]
      /\ b \in Seq(Byte) /\ Len(b) = n /\ \A i \in 1 .. end - (first + 1) + 1 : b[i] = bytes[first + 1 + i - 1]
  <2>1. first + 1 \in Int /\ end \in Int
    OBVIOUS
  <2> QED
    BY <1>1, <1>2, <2>1, SubSeqProperties
<1> HIDE DEF a, b
<1>4. ASSUME NEW i \in 1 .. n
      PROVE  a[i] = b[i]
  <2>1. i \in 1 .. end - (first + 1) + 1 /\ first + 1 + i - 1 = first + i
    OBVIOUS
  <2>2. first + i \in 1 .. Len(s) /\ 0 + (first + i) = first + i
    BY <1>1
  <2>3. bytes[0 + (first + i)] = s[first + i]
    BY <2>2 DEF Lies
  <2> QED
    BY <1>3, <2>1, <2>2, <2>3
<1> HIDE DEF n
<1>5. a = b
  BY <1>3, <1>4
<1> QED
  BY <1>5 DEF a, b, Slice

\* The layers lie in what was captured.
LEMMA CapturedLayout ==
  ASSUME NEW f, NEW s, Captures(s, f)
  PROVE  /\ Measured(f) /\ s \in Seq(Byte)
         /\ HeadersLength(f) <= Len(s)
         /\ Len(s) <= HeadersLength(f) + Len(f.payload) + f.padding
         /\ Lies(s, 0, LinkBytes(f)) /\ IsLink(LinkBytes(f), f)
         /\ Lies(s, LinkLength(f), IpBytes(f))
         /\ Lies(s, LinkLength(f) + IpLength(f), TransportBytes(f))
         /\ IsTransport(TransportBytes(f), f)
<1>1. IsFrame(f) /\ Measured(f) /\ f \in Frame /\ TransportLength(f) + Len(f.payload) <= MaxPort
  BY Lengths DEF Captures
<1>2. /\ IsBytes(FrameBytes(f), HeadersLength(f) + Len(f.payload) + f.padding)
      /\ PayloadStart(f) = HeadersLength(f)
      /\ Lies(FrameBytes(f), 0, LinkBytes(f))
      /\ Lies(FrameBytes(f), LinkLength(f), IpBytes(f))
      /\ Lies(FrameBytes(f), LinkLength(f) + IpLength(f), TransportBytes(f))
  BY <1>1, FrameLayout, Zenon
<1>3. IsLink(LinkBytes(f), f) /\ IsTransport(TransportBytes(f), f)
  BY <1>1, LinkHeader, IpPayloadBytes DEF IsFrame
<1>4. /\ Len(LinkBytes(f)) = LinkLength(f) /\ Len(IpBytes(f)) = IpLength(f)
      /\ Len(TransportBytes(f)) = TransportLength(f)
  BY <1>1, <1>3, IpHeaderBytes DEF IsLink, IsTransport, IsBytes
<1>5. s \in Seq(Byte) /\ Len(s) \in Nat /\ Len(s) <= Len(FrameBytes(f)) /\ Lies(FrameBytes(f), 0, s)
  BY DEF Captures, Lies
<1>6. /\ HeadersLength(f) <= Len(s)
      /\ Len(s) <= HeadersLength(f) + Len(f.payload) + f.padding
  BY <1>2, <1>5 DEF Captures, IsBytes
<1>7. /\ 0 + Len(LinkBytes(f)) <= Len(s)
      /\ LinkLength(f) + Len(IpBytes(f)) <= Len(s)
      /\ (LinkLength(f) + IpLength(f)) + Len(TransportBytes(f)) <= Len(s)
  <2>1. LinkLength(f) \in Nat /\ IpLength(f) \in Nat /\ TransportLength(f) \in Nat
    BY <1>1 DEF Measured
  <2>2. LinkLength(f) + IpLength(f) + TransportLength(f) <= Len(s)
    BY <1>6 DEF HeadersLength
  <2> QED
    BY <1>4, <1>5, <2>1, <2>2
<1>8. /\ Lies(s, 0, LinkBytes(f)) /\ Lies(s, LinkLength(f), IpBytes(f))
      /\ Lies(s, LinkLength(f) + IpLength(f), TransportBytes(f))
  BY <1>2, <1>5, <1>7, LiesShared, Zenon
<1> QED
  BY <1>1, <1>3, <1>5, <1>6, <1>8

\* The IP header, as the search is to find it.
IpHeader(f) ==
  [protocol    |-> f.protocol,
   transport   |-> LinkLength(f) + IpLength(f),
   end         |-> Lesser(PayloadEnd(f), Kept(f)),
   source      |-> Source(f),
   destination |-> Destination(f)]

\* The payload ends where the header says, if that was captured.
LEMMA Ends ==
  ASSUME NEW f, NEW s, Captures(s, f)
  PROVE  /\ PayloadEnd(f) = HeadersLength(f) + Len(f.payload) + (IF f.sized THEN 0 ELSE f.padding)
         /\ PayloadEnd(f) \in Nat /\ Len(s) \in Nat /\ HeadersLength(f) \in Nat
         /\ ~f.sized => Lesser(PayloadEnd(f), Len(s)) = Len(s)
         /\ Len(s) = Kept(f)
<1>1. PayloadStart(f) = HeadersLength(f)
  BY FrameLayout DEF Captures
<1>2. PayloadEnd(f) = HeadersLength(f) + Len(f.payload) + (IF f.sized THEN 0 ELSE f.padding)
  BY <1>1 DEF PayloadEnd
<1>3. Measured(f) /\ s \in Seq(Byte) /\ Len(s) <= HeadersLength(f) + Len(f.payload) + f.padding
  BY CapturedLayout
<1>4. HeadersLength(f) \in Nat /\ Len(f.payload) \in Nat /\ f.padding \in Nat /\ Len(s) \in Nat
  BY <1>3 DEF Measured, HeadersLength
<1>5. PayloadEnd(f) \in Nat
  BY <1>2, <1>4
<1>6. ~f.sized => Lesser(PayloadEnd(f), Len(s)) = Len(s)
  BY <1>2, <1>3, <1>4 DEF Lesser
<1> QED
  BY <1>2, <1>4, <1>5, <1>6 DEF Captures

LEMMA Ip4Found ==
  ASSUME NEW f, NEW s, Captures(s, f), f.version = 4
  PROVE  Ip4(s, LinkLength(f)) = {IpHeader(f)} /\ Ip6(s, LinkLength(f)) = {}
<1> DEFINE o   == LinkLength(f)
           h   == IpBytes(f)
           ihl == 4 * LowNibble(At(s, o))
<1>1. /\ Measured(f) /\ s \in Seq(Byte) /\ Lies(s, o, h) /\ HeadersLength(f) <= Len(s)
      /\ IsHeader4(h, f) /\ f \in Frame
  BY CapturedLayout, IpHeaderBytes, Lengths DEF Captures
<1>2. /\ o \in Nat /\ f.options \in {0, 4} /\ Len(s) \in Nat
      /\ TransportLength(f) \in Nat /\ Len(f.payload) \in Nat
  BY <1>1 DEF Measured, Frame
<1>3. IpLength(f) = 20 + f.options /\ IpLength(f) \in {20, 24} /\ Len(h) = IpLength(f)
  <2>1. IpLength(f) = 20 + f.options
    BY DEF IpLength
  <2>2. Len(h) = 20 + f.options
    BY <1>1 DEF IsHeader4
  <2>3. 20 + f.options \in {20, 24}
    BY <1>2
  <2> QED
    BY <2>1, <2>2, <2>3
<1>4. HeadersLength(f) = o + IpLength(f) + TransportLength(f)
  BY DEF HeadersLength
<1>5. /\ At(s, o) = 64 + IpLength(f) \div 4
      /\ At(s, o + 9) = f.protocol
      /\ BigEndian(s, o + 2) = BigEndian(h, 2)
  <2>1. Len(h) >= 1 /\ 9 < Len(h) /\ 2 + 1 < Len(h) /\ 9 \in Nat /\ 2 \in Nat
    BY <1>3
  <2>2. At(s, o) = At(h, 0)
    BY <1>1, <2>1, LiesFirst, Zenon
  <2>3. At(s, o + 9) = At(h, 9)
    BY <1>1, <2>1, LiesAt
  <2>4. BigEndian(s, o + 2) = BigEndian(h, 2)
    BY <1>1, <2>1, LiesBigEndian
  <2>5. At(h, 0) = 64 + IpLength(f) \div 4 /\ At(h, 9) = f.protocol
    BY <1>1, <1>3 DEF IsHeader4
  <2> QED
    BY <2>2, <2>3, <2>4, <2>5
<1>6. ihl = IpLength(f) /\ HighNibble(At(s, o)) = 4
  BY <1>3, <1>5, FirstByte4
<1>7. /\ Slice(s, o + 12, o + 16) = Source(f)
      /\ Slice(s, o + 16, o + 20) = Destination(f)
  <2>1. Lies(h, 12, Source(f)) /\ Lies(h, 16, Destination(f))
    BY <1>1 DEF IsHeader4
  <2>2. Lies(s, o + 12, Source(f)) /\ Lies(s, o + 16, Destination(f))
    BY <1>1, <2>1, LiesWithin, Zenon
  <2>3. /\ Slice(s, o + 12, (o + 12) + Len(Source(f))) = Source(f)
        /\ Slice(s, o + 16, (o + 16) + Len(Destination(f))) = Destination(f)
    BY <2>2, LiesSlice, Zenon
  <2>4. Len(Source(f)) = 4 /\ Len(Destination(f)) = 4
    BY AddressBytes
  <2>5. (o + 12) + Len(Source(f)) = o + 16 /\ (o + 16) + Len(Destination(f)) = o + 20
    BY <1>2, <2>4
  <2> QED
    BY <2>3, <2>5
<1>8. EndOf4(s, o, ihl) = Lesser(PayloadEnd(f), Len(s))
  <2>1. /\ PayloadEnd(f) = HeadersLength(f) + Len(f.payload) + (IF f.sized THEN 0 ELSE f.padding)
        /\ ~f.sized => Lesser(PayloadEnd(f), Len(s)) = Len(s)
    BY Ends
  <2>2. Len(IpPayload(f)) = TransportLength(f) + Len(f.payload)
    BY IpPayloadBytes, Lengths DEF Captures, IsFrame, IsBytes
  <2>3. CASE f.sized
    <3>1. BigEndian(s, o + 2) = IpLength(f) + (TransportLength(f) + Len(f.payload))
      BY <1>1, <1>3, <1>5, <2>2, <2>3 DEF IsHeader4
    <3>2. /\ BigEndian(s, o + 2) >= ihl
          /\ o + BigEndian(s, o + 2) = PayloadEnd(f)
      <4> DEFINE total == BigEndian(s, o + 2)
                 ni    == IpLength(f)
                 nt    == TransportLength(f)
                 np    == Len(f.payload)
                 end   == PayloadEnd(f)
      <4>1. total = ni + (nt + np) /\ end = (o + ni + nt) + np + 0 /\ ihl = ni
        BY <1>4, <1>6, <2>1, <2>3, <3>1
      <4>2. ni \in Nat /\ nt \in Nat /\ np \in Nat /\ o \in Nat
        BY <1>2, <1>3
      <4> HIDE DEF total, ni, nt, np, end, ihl, o
      <4>3. total >= ihl /\ o + total = end
        BY ONLY <4>1, <4>2
      <4> QED
        BY <4>3 DEF total, end
    <3>3. PayloadEnd(f) \in Nat
      BY Ends
    <3>4. EndOf4(s, o, ihl) = IF PayloadEnd(f) <= Len(s) THEN PayloadEnd(f) ELSE Len(s)
      BY <3>2 DEF EndOf4
    <3> QED
      BY <1>2, <3>3, <3>4 DEF Lesser
  <2>4. CASE ~f.sized
    <3>1. BigEndian(s, o + 2) = 0
      BY <1>1, <1>5, <2>4 DEF IsHeader4
    <3>2. ~(BigEndian(s, o + 2) >= ihl)
      BY <1>3, <1>6, <3>1
    <3> QED
      BY <2>1, <2>4, <3>2 DEF EndOf4
  <2> QED
    BY <2>3, <2>4
<1>9. o + 20 <= Len(s) /\ ihl >= 20 /\ o + ihl <= Len(s)
  BY <1>1, <1>2, <1>3, <1>4, <1>6
<1>10. Len(s) = Kept(f)
  BY DEF Captures
<1>11. Ip4(s, o) = { [protocol    |-> At(s, o + 9),
                      transport   |-> o + ihl,
                      end         |-> EndOf4(s, o, ihl),
                      source      |-> Slice(s, o + 12, o + 16),
                      destination |-> Slice(s, o + 16, o + 20)] }
  BY <1>6, <1>9, Zenon DEF Ip4
<1>12. Ip6(s, o) = {}
  BY <1>6 DEF Ip6
<1> HIDE DEF ihl
<1>13. Ip4(s, o) = {IpHeader(f)}
  BY <1>5, <1>6, <1>7, <1>8, <1>10, <1>11 DEF IpHeader
<1> QED
  BY <1>12, <1>13

LEMMA Ip6Found ==
  ASSUME NEW f, NEW s, Captures(s, f), f.version = 6
  PROVE  Ip6(s, LinkLength(f)) = {IpHeader(f)} /\ Ip4(s, LinkLength(f)) = {}
<1> DEFINE o == LinkLength(f)
           h == IpBytes(f)
<1>1. /\ Measured(f) /\ s \in Seq(Byte) /\ Lies(s, o, h) /\ HeadersLength(f) <= Len(s)
      /\ IsHeader6(h, f) /\ f \in Frame
  BY CapturedLayout, IpHeaderBytes, Lengths DEF Captures
<1>2. /\ o \in Nat /\ Len(s) \in Nat
      /\ TransportLength(f) \in Nat /\ Len(f.payload) \in Nat
  BY <1>1 DEF Measured
<1>3. IpLength(f) = 40 /\ Len(h) = 40
  BY <1>1 DEF IpLength, IsHeader6
<1>4. HeadersLength(f) = o + 40 + TransportLength(f)
  BY <1>3 DEF HeadersLength
<1>5. /\ At(s, o) = 96
      /\ At(s, o + 6) = f.protocol
      /\ BigEndian(s, o + 4) = Len(IpPayload(f))
  <2>1. Len(h) >= 1 /\ 6 < Len(h) /\ 4 + 1 < Len(h) /\ 6 \in Nat /\ 4 \in Nat
    BY <1>3
  <2>2. At(s, o) = At(h, 0)
    BY <1>1, <2>1, LiesFirst, Zenon
  <2>3. At(s, o + 6) = At(h, 6)
    BY <1>1, <2>1, LiesAt
  <2>4. BigEndian(s, o + 4) = BigEndian(h, 4)
    BY <1>1, <2>1, LiesBigEndian
  <2> QED
    BY <1>1, <2>2, <2>3, <2>4 DEF IsHeader6
<1>6. HighNibble(At(s, o)) = 6
  BY <1>5 DEF HighNibble
<1>7. /\ Slice(s, o + 8, o + 24) = Source(f)
      /\ Slice(s, o + 24, o + 40) = Destination(f)
  <2>1. Lies(h, 8, Source(f)) /\ Lies(h, 24, Destination(f))
    BY <1>1 DEF IsHeader6
  <2>2. Lies(s, o + 8, Source(f)) /\ Lies(s, o + 24, Destination(f))
    BY <1>1, <2>1, LiesWithin, Zenon
  <2>3. /\ Slice(s, o + 8, (o + 8) + Len(Source(f))) = Source(f)
        /\ Slice(s, o + 24, (o + 24) + Len(Destination(f))) = Destination(f)
    BY <2>2, LiesSlice, Zenon
  <2>4. Len(Source(f)) = 16 /\ Len(Destination(f)) = 16
    BY AddressBytes
  <2>5. (o + 8) + Len(Source(f)) = o + 24 /\ (o + 24) + Len(Destination(f)) = o + 40
    BY <1>2, <2>4
  <2> QED
    BY <2>3, <2>5
<1>8. o + 40 + BigEndian(s, o + 4) = PayloadEnd(f)
  <2>1. f.sized
    BY FramesAssumption DEF Captures, IsFrame
  <2>2. PayloadEnd(f) = HeadersLength(f) + Len(f.payload) + 0
    BY <2>1, Ends
  <2>3. Len(IpPayload(f)) = TransportLength(f) + Len(f.payload)
    BY IpPayloadBytes, Lengths DEF Captures, IsFrame, IsBytes
  <2> DEFINE nt  == TransportLength(f)
             np  == Len(f.payload)
             end == PayloadEnd(f)
  <2>4. BigEndian(s, o + 4) = nt + np /\ end = (o + 40 + nt) + np + 0
    BY <1>4, <1>5, <2>2, <2>3
  <2>5. o \in Nat /\ nt \in Nat /\ np \in Nat
    BY <1>2
  <2> HIDE DEF o, nt, np, end
  <2>6. o + 40 + (nt + np) = end
    BY ONLY <2>4, <2>5
  <2> QED
    BY <2>4, <2>6 DEF end
<1>9. o + 40 <= Len(s)
  BY <1>1, <1>2, <1>4
<1>10. Len(s) = Kept(f)
  BY DEF Captures
<1>11. Ip6(s, o) = { [protocol    |-> At(s, o + 6),
                      transport   |-> o + 40,
                      end         |-> Lesser(o + 40 + BigEndian(s, o + 4), Len(s)),
                      source      |-> Slice(s, o + 8, o + 24),
                      destination |-> Slice(s, o + 24, o + 40)] }
  BY <1>6, <1>9, Zenon DEF Ip6
<1>12. Ip4(s, o) = {}
  BY <1>6 DEF Ip4
<1>13. Ip6(s, o) = {IpHeader(f)}
  BY <1>3, <1>5, <1>7, <1>8, <1>10, <1>11 DEF IpHeader
<1> QED
  BY <1>12, <1>13

\* The transport header is found whole, and the packet is the one that was sent.
LEMMA TransportFound ==
  ASSUME NEW f, NEW s, Captures(s, f)
  PROVE  CarriesTransport(s, IpHeader(f)) /\ PacketOf(s, IpHeader(f)) = Sent(f)
<1> DEFINE at  == LinkLength(f) + IpLength(f)
           t   == TransportBytes(f)
           n   == TransportLength(f)
           end == Lesser(PayloadEnd(f), Kept(f))
           ip  == IpHeader(f)
<1>1. /\ Measured(f) /\ s \in Seq(Byte) /\ Lies(s, at, t) /\ IsTransport(t, f)
      /\ HeadersLength(f) <= Len(s) /\ f \in Frame /\ f.protocol \in {TCP, UDP}
  BY CapturedLayout, Lengths DEF Captures, IsFrame
<1>2. at \in Nat /\ n \in {8, 20, 24} /\ Len(f.payload) \in Nat /\ f.padding \in Nat /\ Len(s) \in Nat
  BY <1>1 DEF Measured
<1>3. HeadersLength(f) = at + n /\ PayloadStart(f) = at + n
  BY FrameLayout DEF Captures, HeadersLength
<1>4. /\ ip.protocol = f.protocol /\ ip.transport = at /\ ip.end = end
      /\ ip.source = Source(f) /\ ip.destination = Destination(f)
  BY DEF IpHeader
<1>5. end \in Nat /\ at + n <= end /\ end <= Len(s)
  <2>1. /\ PayloadEnd(f) = HeadersLength(f) + Len(f.payload) + (IF f.sized THEN 0 ELSE f.padding)
        /\ PayloadEnd(f) \in Nat /\ Len(s) = Kept(f)
    BY Ends
  <2>2. at + n <= PayloadEnd(f)
    <3> HIDE DEF at, n
    <3>1. n \in Nat
      BY <1>2
    <3> DEFINE np == Len(f.payload)
               e  == PayloadEnd(f)
    <3>2. CASE f.sized
      <4>1. e = (at + n) + np + 0
        BY <1>3, <2>1, <3>2, Zenon
      <4>2. np \in Nat /\ at \in Nat
        BY <1>2
      <4> HIDE DEF e, np
      <4>3. at + n <= e
        BY <1>2, <3>1, <4>1, <4>2
      <4> QED
        BY <4>3 DEF e
    <3>3. CASE ~f.sized
      <4>1. e = (at + n) + np + f.padding
        BY <1>3, <2>1, <3>3, Zenon
      <4>2. np \in Nat /\ at \in Nat
        BY <1>2
      <4> HIDE DEF e, np
      <4>3. at + n <= e
        BY <1>2, <3>1, <4>1, <4>2
      <4> QED
        BY <4>3 DEF e
    <3> QED
      BY <3>2, <3>3
  <2>3. end = PayloadEnd(f) \/ end = Len(s)
    BY <2>1 DEF Lesser
  <2>4. end <= Len(s)
    BY <1>2, <2>1 DEF Lesser
  <2>5. at + n <= Len(s)
    BY <1>1, <1>3
  <2> HIDE DEF at, n, end
  <2> QED
    BY <1>2, <2>1, <2>2, <2>3, <2>4, <2>5
<1>6. Len(t) = n /\ BigEndian(t, 0) = SourcePort /\ BigEndian(t, 2) = DestinationPort
  BY <1>1 DEF IsTransport, IsBytes
<1>7. BigEndian(s, at) = SourcePort /\ BigEndian(s, at + 2) = DestinationPort
  <2>1. Len(t) >= 2 /\ 2 + 1 < Len(t)
    BY <1>2, <1>6
  <2>2. BigEndian(s, at) = BigEndian(t, 0)
    BY <1>1, <2>1, LiesWord, Zenon
  <2>3. BigEndian(s, at + 2) = BigEndian(t, 2)
    BY <1>1, <2>1, LiesBigEndian
  <2> QED
    BY <1>6, <2>2, <2>3
<1>8. f.protocol = TCP => n \in {20, 24} /\ TcpHeader(s, at) = n
  <2> SUFFICES ASSUME f.protocol = TCP
               PROVE  n \in {20, 24} /\ TcpHeader(s, at) = n
    OBVIOUS
  <2>1. n \in {20, 24}
    BY <1>1 DEF Frame, TransportLength
  <2>2. At(t, 12) = n * 4
    BY <1>1 DEF IsTransport
  <2>3. At(s, at + 12) = At(t, 12)
    BY <1>1, <1>6, <2>1, LiesAt
  <2> HIDE DEF n
  <2>4. 4 * HighNibble(n * 4) = n
    BY <2>1 DEF HighNibble
  <2> QED
    BY <2>1, <2>2, <2>3, <2>4 DEF TcpHeader
<1>9. f.protocol # TCP => f.protocol = UDP /\ n = 8
  BY <1>1 DEF TransportLength
<1>10. HeaderSize(s, ip) = n
  BY <1>4, <1>8, <1>9 DEF HeaderSize
<1>11. CarriesTransport(s, ip)
  <2> HIDE DEF at, n, end, ip
  <2>1. CASE f.protocol = TCP
    BY <1>2, <1>4, <1>5, <1>8, <2>1 DEF CarriesTransport
  <2>2. CASE f.protocol # TCP
    BY <1>4, <1>5, <1>9, <2>2 DEF CarriesTransport
  <2> QED
    BY <2>1, <2>2
<1>12. Slice(s, at + n, end) = KeptPayload(f)
  <2>1. Slice(s, at + n, end) = SubSeq(FrameBytes(f), (at + n) + 1, end)
    <3>1. at + n \in Nat /\ Lies(FrameBytes(f), 0, s)
      BY <1>2 DEF Captures
    <3> HIDE DEF at, n, end
    <3> QED
      BY <1>5, <3>1, SliceShared, Zenon
  <2> QED
    BY <1>3, <2>1 DEF KeptPayload
<1> HIDE DEF at, n, end
<1>13. PacketOf(s, ip) = Sent(f)
  <2>1. PacketOf(s, ip) =
          [protocol            |-> f.protocol,
           source_port         |-> BigEndian(s, at),
           destination_port    |-> BigEndian(s, at + 2),
           source_address      |-> Source(f),
           destination_address |-> Destination(f),
           payload             |-> Slice(s, at + n, end)]
    <3> HIDE DEF ip
    <3> QED
      BY <1>4, <1>10 DEF PacketOf
  <2> QED
    BY <1>7, <1>12, <2>1 DEF Sent
<1> QED
  BY <1>11, <1>13

\* parse_ip_packet at the place of the IP header finds the packet.
LEMMA FrameParses ==
  ASSUME NEW f, NEW s, Captures(s, f)
  PROVE  ParseIp(s, LinkLength(f)) = {Sent(f)}
<1>1. Ip4(s, LinkLength(f)) \cup Ip6(s, LinkLength(f)) = {IpHeader(f)}
  <2>1. f.version = 4 \/ f.version = 6
    BY IpHeaderBytes DEF Captures
  <2> QED
    BY <2>1, Ip4Found, Ip6Found
<1>2. LinkLength(f) < Len(s)
  <2>1. Measured(f) /\ HeadersLength(f) <= Len(s) /\ s \in Seq(Byte)
    BY CapturedLayout
  <2>2. Len(s) \in Nat
    BY <2>1
  <2> QED
    BY <2>1, <2>2 DEF Measured, HeadersLength
<1>3. CarriesTransport(s, IpHeader(f)) /\ PacketOf(s, IpHeader(f)) = Sent(f)
  BY TransportFound, Zenon
<1>4. ~(LinkLength(f) >= Len(s))
  <2>1. LinkLength(f) \in Nat /\ Len(s) \in Nat
    BY CapturedLayout DEF Measured
  <2> QED
    BY <1>2, <2>1
<1>5. {x \in {IpHeader(f)} : CarriesTransport(s, x)} = {IpHeader(f)}
  BY <1>3
<1>6. {PacketOf(s, ip) : ip \in {IpHeader(f)}} = {Sent(f)}
  BY <1>3
<1> QED
  BY <1>1, <1>4, <1>5, <1>6, Zenon DEF ParseIp

-----------------------------------------------------------------------------
(* The search *)

LEMMA LeastIs ==
  ASSUME NEW S \in SUBSET Nat, NEW m \in S, \A j \in S : m <= j
  PROVE  Least(S) = m
<1>1. Least(S) \in S /\ \A j \in S : Least(S) <= j
  BY DEF Least
<1>2. Least(S) <= m /\ m <= Least(S)
  BY <1>1
<1>3. Least(S) \in Nat /\ m \in Nat
  BY <1>1
<1> QED
  BY <1>2, <1>3

\* No earlier tier, and no earlier place of tier k, has a packet.
IsFirst(bytes, k, o) ==
  /\ o \in Tier(bytes, k)
  /\ \A j \in 1 .. 4 : j < k => Parsable(bytes, j) = {}
  /\ \A x \in Parsable(bytes, k) : o <= x

\* A packet at such a place is the one that is found.
LEMMA FoundFirst ==
  ASSUME NEW bytes \in Seq(Byte), NEW k \in 1 .. 4, NEW o, NEW p,
         ParseIp(bytes, o) = {p}, IsFirst(bytes, k, o)
  PROVE  ParsePacketBytes(bytes) = {p}
<1>1. Parsable(bytes, k) \in SUBSET Nat /\ o \in Parsable(bytes, k)
  BY TierType DEF Parsable, IsFirst
<1>2. Least(Parsable(bytes, k)) = o
  BY <1>1, LeastIs DEF IsFirst
<1>3. Tiers(bytes) \in SUBSET Nat /\ k \in Tiers(bytes) /\ \A j \in Tiers(bytes) : k <= j
  BY <1>1 DEF Tiers, IsFirst
<1>4. Least(Tiers(bytes)) = k
  BY <1>3, LeastIs
<1> QED
  BY <1>2, <1>3, <1>4 DEF ParsePacketBytes

\* A frame with a link header does not begin like an IP packet.
LEMMA NoRawPacket ==
  ASSUME NEW f, NEW s, Captures(s, f), f.link # "raw"
  PROVE  Parsable(s, 1) = {}
<1>1. /\ Measured(f) /\ Lies(s, 0, LinkBytes(f)) /\ IsLink(LinkBytes(f), f) /\ f \in Frame
  BY CapturedLayout, Lengths DEF Captures
<1>2. Len(LinkBytes(f)) >= 1
  <2>1. Len(LinkBytes(f)) = LinkLength(f)
    BY <1>1 DEF IsLink, IsBytes
  <2>2. LinkLength(f) \in {14, 18, 22}
    BY <1>1 DEF LinkLength, Frame
  <2> QED
    BY <2>1, <2>2
<1>3. At(s, 0) = 2
  <2>1. At(s, 0) = At(LinkBytes(f), 0)
    BY <1>1, <1>2, LiesFirst, Zenon
  <2> QED
    BY <1>1, <2>1 DEF IsLink
<1>4. HighNibble(At(s, 0)) = 0
  BY <1>3 DEF HighNibble
<1>5. Ip4(s, 0) = {} /\ Ip6(s, 0) = {}
  BY <1>4 DEF Ip4, Ip6
<1>6. ParseIp(s, 0) = {}
  BY <1>5 DEF ParseIp
<1> QED
  BY <1>6 DEF Parsable, Tier

\* What the search reads of the link header is the link header's.
LEMMA LinkSeen ==
  ASSUME NEW f, NEW s, Captures(s, f), NEW i \in Nat, i + 1 < LinkLength(f)
  PROVE  BigEndian(s, i) = BigEndian(LinkBytes(f), i)
<1>1. Lies(s, 0, LinkBytes(f)) /\ Len(LinkBytes(f)) = LinkLength(f)
  BY CapturedLayout DEF IsLink, IsBytes
<1> DEFINE l == LinkBytes(f)
           n == LinkLength(f)
<1>2. \A k \in 1 .. n : s[0 + k] = l[k]
  BY <1>1 DEF Lies
<1>3. n \in Nat
  BY CapturedLayout DEF Measured
<1> HIDE DEF l, n
<1>4. /\ i + 1 \in 1 .. n /\ (i + 1) + 1 \in 1 .. n
      /\ 0 + (i + 1) = i + 1 /\ 0 + ((i + 1) + 1) = (i + 1) + 1
  BY <1>3 DEF n
<1>5. s[i + 1] = l[i + 1] /\ s[(i + 1) + 1] = l[(i + 1) + 1]
  BY <1>2, <1>4
<1>6. BigEndian(s, i) = BigEndian(l, i)
  BY ONLY <1>5, Zenon DEF BigEndian, At
<1> QED
  BY <1>6 DEF l

LEMMA EthernetFound ==
  ASSUME NEW f, NEW s, Captures(s, f), f.link \in {"ethernet", "vlan"}
  PROVE  Tier(s, 2) = {LinkLength(f)}
<1>1. /\ Measured(f) /\ IsLink(LinkBytes(f), f) /\ HeadersLength(f) <= Len(s) /\ s \in Seq(Byte)
  BY CapturedLayout
<1>2. Len(s) \in Nat /\ LinkLength(f) <= Len(s)
  BY <1>1 DEF Measured, HeadersLength
<1>3. CASE f.link = "ethernet"
  <2>1. LinkLength(f) = 14
    BY <1>3 DEF LinkLength
  <2>2. BigEndian(s, 12) = BigEndian(LinkBytes(f), 12)
    BY <2>1, LinkSeen
  <2>3. BigEndian(s, 12) \in IpEtherTypes
    BY <1>1, <1>3, <2>2 DEF IsLink
  <2>4. BigEndian(s, 12) # 33024
    BY <2>3 DEF IpEtherTypes
  <2>5. ~(Len(s) < 14)
    BY <1>2, <2>1
  <2>6. EthernetOffsets(s) = {o \in {14} : BigEndian(s, 12) \in IpEtherTypes}
    BY <2>4, <2>5 DEF EthernetOffsets
  <2> QED
    BY <2>1, <2>3, <2>6 DEF Tier
<1>4. CASE f.link = "vlan"
  <2>1. LinkLength(f) = 18
    BY <1>4 DEF LinkLength
  <2>2. /\ BigEndian(s, 12) = BigEndian(LinkBytes(f), 12)
        /\ BigEndian(s, 16) = BigEndian(LinkBytes(f), 16)
    BY <2>1, LinkSeen
  <2>3. BigEndian(s, 12) = 33024 /\ BigEndian(s, 16) \in IpEtherTypes
    BY <1>1, <1>4, <2>2 DEF IsLink
  <2>4. ~(Len(s) < 14) /\ Len(s) >= 18
    BY <1>2, <2>1
  <2>5. EthernetOffsets(s) = {o \in {18} : BigEndian(s, 16) \in IpEtherTypes}
    BY <2>3, <2>4 DEF EthernetOffsets
  <2> QED
    BY <2>1, <2>3, <2>5 DEF Tier
<1> QED
  BY <1>3, <1>4

\* An 802.3 frame with SNAP is no Ethernet II frame, and its SNAP header is the
\* first one found.
LEMMA SnapFound ==
  ASSUME NEW f, NEW s, Captures(s, f), f.link = "snap"
  PROVE  Tier(s, 2) = {} /\ LinkLength(f) \in Tier(s, 3) /\ \A x \in Tier(s, 3) : LinkLength(f) <= x
<1> DEFINE l == LinkBytes(f)
<1>1. /\ Measured(f) /\ IsLink(l, f) /\ Lies(s, 0, l)
      /\ HeadersLength(f) <= Len(s) /\ s \in Seq(Byte)
  BY CapturedLayout
<1>2. LinkLength(f) = 22 /\ Len(l) = 22
  <2>1. LinkLength(f) = 22
    BY DEF LinkLength
  <2> QED
    BY <1>1, <2>1 DEF IsLink, IsBytes
<1>3. Len(s) \in Nat /\ 22 + 20 <= Len(s)
  BY <1>1, <1>2 DEF Measured, HeadersLength
<1>4. /\ BigEndian(s, 12) = 100 /\ BigEndian(s, 20) \in IpEtherTypes
      /\ Lies(l, 14, SnapHeader)
  <2>1. /\ BigEndian(l, 12) = 100 /\ BigEndian(l, 20) \in IpEtherTypes
        /\ Lies(l, 14, SnapHeader)
    BY <1>1 DEF IsLink
  <2>2. 12 \in Nat /\ 12 + 1 < LinkLength(f) /\ 20 \in Nat /\ 20 + 1 < LinkLength(f)
    BY <1>2
  <2>3. BigEndian(s, 12) = BigEndian(l, 12) /\ BigEndian(s, 20) = BigEndian(l, 20)
    BY <2>2, LinkSeen, Zenon
  <2> QED
    BY <2>1, <2>3
<1>5. Tier(s, 2) = {}
  <2>1. BigEndian(s, 12) # 33024 /\ BigEndian(s, 12) \notin IpEtherTypes
    BY <1>4 DEF IpEtherTypes
  <2>2. EthernetOffsets(s) \subseteq {o \in {14} : BigEndian(s, 12) \in IpEtherTypes}
    BY <2>1 DEF EthernetOffsets
  <2>3. EthernetOffsets(s) = {}
    BY <2>1, <2>2
  <2> QED
    BY <2>3 DEF Tier
<1>6. 22 \in SnapOffsets(s)
  <2>1. Lies(s, 14, SnapHeader)
    <3>1. Lies(s, 0, l) /\ Lies(l, 14, SnapHeader)
      BY <1>1, <1>4
    <3> QED
      BY <3>1, LiesAhead, Zenon
  <2>2. Slice(s, 14, 14 + Len(SnapHeader)) = SnapHeader
    BY <2>1, LiesSlice, Zenon
  <2>3. Len(SnapHeader) = 6
    BY DEF SnapHeader
  <2>4. Slice(s, 22 - 8, 22 - 2) = SnapHeader
    BY <2>2, <2>3
  <2>5. 22 \in 8 .. Lesser(Len(s) - 1, 135) /\ 22 - 2 = 20
    BY <1>3 DEF Lesser
  <2> QED
    BY <1>4, <2>4, <2>5 DEF SnapOffsets
<1>7. ASSUME NEW x \in SnapOffsets(s), x < 22
      PROVE  FALSE
  <2>1. x \in Nat /\ 8 <= x /\ x <= Len(s) - 1 /\ Slice(s, x - 8, x - 2) = SnapHeader
    BY <1>3 DEF SnapOffsets, Lesser
  <2>2. Slice(s, x - 8, x - 2)[1] = s[(x - 8) + 1]
    <3> DEFINE m == (x - 8) + 1
               n == x - 2
    <3>1. m \in 1 .. Len(s) /\ n \in Int /\ m + 5 = n /\ n <= Len(s)
      BY <1>3, <2>1
    <3>2. \A i \in m .. n : s[i] \in Byte
      BY <1>1, <3>1
    <3>3. \A i \in 1 .. n - m + 1 : SubSeq(s, m, n)[i] = s[m + i - 1]
      BY <3>1, <3>2, SubSeqProperties
    <3>4. 1 \in 1 .. n - m + 1 /\ m + 1 - 1 = m
      BY <3>1
    <3> HIDE DEF m, n
    <3>5. SubSeq(s, m, n)[1] = s[m]
      BY <3>3, <3>4
    <3> QED
      BY <3>5 DEF m, n, Slice
  <2>3. s[(x - 8) + 1] = 170
    BY <2>1, <2>2 DEF SnapHeader
  <2>4. x - 8 \in 0 .. 13 /\ (x - 8) + 1 \in 1 .. Len(l) /\ 0 + ((x - 8) + 1) = (x - 8) + 1
    BY <1>2, <1>7, <2>1
  <2>5. At(l, x - 8) = 170
    BY <1>1, <2>3, <2>4 DEF Lies, At
  <2>6. \A i \in 0 .. 13 : At(l, i) # 170
    BY <1>1 DEF IsLink
  <2> DEFINE i == x - 8
  <2>7. i \in 0 .. 13 /\ At(l, i) = 170
    BY <2>4, <2>5
  <2> HIDE DEF i
  <2> QED
    BY ONLY <2>6, <2>7
<1>8. \A x \in SnapOffsets(s) : 22 <= x
  <2> SUFFICES ASSUME NEW x \in SnapOffsets(s)
               PROVE  22 <= x
    OBVIOUS
  <2>1. x \in Int
    BY <1>3 DEF SnapOffsets, Lesser
  <2> QED
    BY <1>7, <2>1
<1> QED
  BY <1>2, <1>5, <1>6, <1>8 DEF Tier

\* The search finds the packet of a frame.
LEMMA FrameFound ==
  ASSUME NEW f, NEW s, Captures(s, f)
  PROVE  ParsePacketBytes(s) = {Sent(f)}
<1>1. ParseIp(s, LinkLength(f)) = {Sent(f)} /\ s \in Seq(Byte) /\ f \in Frame
  BY FrameParses, CapturedLayout, Lengths DEF Captures
<1>2. CASE f.link = "raw"
  <2>1. LinkLength(f) = 0
    BY <1>2 DEF LinkLength
  <2>2. Tier(s, 1) = {0} /\ Parsable(s, 1) \subseteq {0}
    BY DEF Tier, Parsable
  <2>3. 0 \in Tier(s, 1) /\ \A x \in Parsable(s, 1) : 0 <= x
    BY <2>2
  <2>4. \A j \in 1 .. 4 : j < 1 => Parsable(s, j) = {}
    OBVIOUS
  <2>5. 1 \in 1 .. 4 /\ IsFirst(s, 1, LinkLength(f))
    BY <2>1, <2>3, <2>4 DEF IsFirst
  <2> QED
    BY <1>1, <2>5, FoundFirst, Zenon
<1>3. CASE f.link \in {"ethernet", "vlan"}
  <2>1. Tier(s, 2) = {LinkLength(f)} /\ Parsable(s, 1) = {}
    BY <1>3, EthernetFound, NoRawPacket
  <2>2. LinkLength(f) \in Nat
    BY <1>3 DEF LinkLength
  <2>3. \A x \in Parsable(s, 2) : LinkLength(f) <= x
    BY <2>1, <2>2 DEF Parsable
  <2>4. \A j \in 1 .. 4 : j < 2 => Parsable(s, j) = {}
    BY <2>1
  <2>5. 2 \in 1 .. 4 /\ IsFirst(s, 2, LinkLength(f))
    BY <2>1, <2>3, <2>4 DEF IsFirst
  <2> QED
    BY <1>1, <2>5, FoundFirst, Zenon
<1>4. CASE f.link = "snap"
  <2>1. /\ Tier(s, 2) = {} /\ Parsable(s, 1) = {}
        /\ LinkLength(f) \in Tier(s, 3) /\ \A x \in Tier(s, 3) : LinkLength(f) <= x
    BY <1>4, SnapFound, NoRawPacket
  <2>2. Parsable(s, 2) = {} /\ \A x \in Parsable(s, 3) : LinkLength(f) <= x
    BY <2>1 DEF Parsable
  <2>3. \A j \in 1 .. 4 : j < 3 => Parsable(s, j) = {}
    BY <2>1, <2>2
  <2>4. 3 \in 1 .. 4 /\ IsFirst(s, 3, LinkLength(f))
    BY <2>1, <2>2, <2>3 DEF IsFirst
  <2> QED
    BY <1>1, <2>4, FoundFirst, Zenon
<1> QED
  BY <1>1, <1>2, <1>3, <1>4 DEF Frame

-----------------------------------------------------------------------------
(* The frame in the buffer of the stream *)

\* What an attempt on the first bytes of the frame sees.
LEMMA SliceOfFrame ==
  ASSUME TypeOK, NEW f, IsFrame(f), descriptor = DescriptorOf(f), PayloadStart(f) <= Kept(f)
  PROVE  /\ descriptor.offset < Len(Bounded)
         /\ Captures(Slice(Bounded, descriptor.offset, SliceEnd), f)
<1> DEFINE frameBytes == FrameBytes(f)
           data == descriptor.data
           captured == CapturedBytes(f)
           ahead == Zeros(f.before)
           after == [i \in 1 .. f.behind |-> 1]
           kept  == Kept(f)
           size  == Len(captured)
           limit == Lesser(Len(data), DataLimit)
           bounded == Bounded
           end == SliceEnd
           s == Slice(Bounded, descriptor.offset, SliceEnd)
<1>1. /\ f \in Frame /\ Measured(f)
      /\ IsBytes(frameBytes, HeadersLength(f) + Len(f.payload) + f.padding)
      /\ PayloadStart(f) = HeadersLength(f)
  BY Lengths, FrameLayout
<1>2. /\ f.before \in Nat /\ f.cut \in Nat /\ f.behind \in Nat /\ DataLimit \in Nat
      /\ f.behind > 0 => f.measured
  BY <1>1, LimitAssumption, FramesAssumption DEF Frame, IsFrame
<1>3. frameBytes \in Seq(Byte) /\ Len(frameBytes) \in Nat /\ PayloadStart(f) >= 28 /\ PayloadStart(f) \in Nat
  <2>1. frameBytes \in Seq(Byte) /\ Len(frameBytes) \in Nat
    BY <1>1 DEF IsBytes
  <2>2. /\ LinkLength(f) \in Nat /\ IpLength(f) \in {20, 24, 40} /\ TransportLength(f) \in {8, 20, 24}
        /\ PayloadStart(f) = LinkLength(f) + IpLength(f) + TransportLength(f)
    BY <1>1 DEF Measured, HeadersLength
  <2> QED
    BY ONLY <2>1, <2>2
<1>4. kept = Lesser(Len(frameBytes) - f.cut, DataLimit - f.before)
  BY DEF Kept
<1>5. /\ kept \in Nat /\ kept >= 28 /\ kept <= Len(frameBytes) - f.cut /\ kept <= DataLimit - f.before
      /\ Len(frameBytes) - f.cut \in Nat
  <2> HIDE DEF kept, frameBytes
  <2>1. kept >= 28 /\ kept \in Int
    BY <1>2, <1>3, <1>4 DEF Lesser, kept
  <2>2. kept <= Len(frameBytes) - f.cut /\ kept <= DataLimit - f.before
    BY <1>2, <1>3, <1>4 DEF Lesser
  <2> QED
    BY <1>2, <1>3, <2>1, <2>2
<1>6. /\ captured \in Seq(Byte) /\ size = Len(frameBytes) - f.cut
      /\ \A i \in 1 .. size : captured[i] = frameBytes[i]
  <2> DEFINE n == Len(frameBytes) - f.cut
  <2>1. captured = SubSeq(frameBytes, 1, n)
    BY DEF CapturedBytes
  <2>2. n \in Nat /\ n <= Len(frameBytes)
    BY <1>2, <1>3, <1>5
  <2> HIDE DEF n, frameBytes, captured
  <2>3. \A i \in 1 .. n : frameBytes[i] \in Byte
    BY <1>3, <2>2
  <2>4. /\ SubSeq(frameBytes, 1, n) \in Seq(Byte)
        /\ Len(SubSeq(frameBytes, 1, n)) = IF 1 <= n THEN n - 1 + 1 ELSE 0
        /\ \A i \in 1 .. n - 1 + 1 : SubSeq(frameBytes, 1, n)[i] = frameBytes[1 + i - 1]
    BY <1>3, <2>2, <2>3, SubSeqProperties
  <2>5. size = n
    BY <2>1, <2>2, <2>4
  <2>6. \A i \in 1 .. n : captured[i] = frameBytes[i]
    BY <2>1, <2>2, <2>4
  <2> QED
    BY <2>1, <2>4, <2>5, <2>6 DEF n
<1>7. /\ data = Join(Join(ahead, captured), after)
      /\ descriptor.offset = f.before
      /\ descriptor.length = (IF f.measured THEN size ELSE 0)
  BY Zenon DEF DescriptorOf, Foreign, Join
<1>8. IsBytes(ahead, f.before) /\ IsBytes(captured, size) /\ IsBytes(after, f.behind)
  <2>1. ahead \in Seq(Byte) /\ Len(ahead) = f.before
    BY <1>2, ZerosBytes
  <2>2. after \in Seq(Byte) /\ Len(after) = f.behind
    <3> DEFINE n == f.behind
    <3>1. n \in Nat /\ 1 \in Byte
      BY <1>2 DEF Byte
    <3> HIDE DEF n
    <3>2. [i \in 1 .. n |-> 1] \in Seq(Byte) /\ Len([i \in 1 .. n |-> 1]) = n
      BY <3>1
    <3> QED
      BY <3>2 DEF n
  <2> QED
    BY <1>2, <1>5, <1>6, <2>1, <2>2 DEF IsBytes
<1> HIDE DEF frameBytes, data, captured, ahead, after, kept, size
<1>9. IsBytes(data, (f.before + size) + f.behind) /\ Lies(data, f.before, captured)
  <2> DEFINE d == Join(ahead, captured)
  <2>1. IsBytes(d, f.before + size) /\ Lies(d, f.before, captured)
    BY <1>8, JoinBytes, Zenon
  <2> HIDE DEF d
  <2>2. IsBytes(Join(d, after), (f.before + size) + f.behind) /\ Lies(Join(d, after), 0, d)
    BY <1>8, <2>1, JoinBytes, Zenon
  <2>3. Lies(Join(d, after), f.before, captured)
    BY <2>1, <2>2, LiesAhead, Zenon
  <2> QED
    BY <1>7, <2>2, <2>3, Zenon DEF d
<1>10. Lies(data, 0, bounded) /\ Len(bounded) = limit /\ bounded \in Seq(Byte)
  <2>1. limit \in Nat /\ limit <= Len(data) /\ data \in Seq(Byte)
    BY <1>2, <1>9 DEF Lesser, IsBytes
  <2>2. bounded = SubSeq(data, 1, limit)
    BY DEF Bounded, Slice, data
  <2> HIDE DEF limit, bounded
  <2>3. \A i \in 1 .. limit : data[i] \in Byte
    BY <2>1
  <2>4. /\ SubSeq(data, 1, limit) \in Seq(Byte)
        /\ Len(SubSeq(data, 1, limit)) = IF 1 <= limit THEN limit - 1 + 1 ELSE 0
        /\ \A i \in 1 .. limit - 1 + 1 : SubSeq(data, 1, limit)[i] = data[1 + i - 1]
    BY <2>1, <2>3, SubSeqProperties
  <2>5. bounded \in Seq(Byte) /\ Len(bounded) = limit /\ \A i \in 1 .. limit : data[0 + i] = bounded[i]
    BY <2>1, <2>2, <2>4
  <2> QED
    BY <2>1, <2>5 DEF Lies
<1>11. limit = Lesser((f.before + size) + f.behind, DataLimit)
  BY <1>9 DEF IsBytes
<1>12. /\ end = f.before + kept /\ end <= Len(bounded) /\ f.before < Len(bounded)
  <2>1. end = IF descriptor.length > 0
              THEN Lesser(descriptor.offset + descriptor.length, Len(bounded)) ELSE Len(bounded)
    BY DEF SliceEnd
  <2>2. Len(bounded) = Lesser((f.before + size) + f.behind, DataLimit)
    BY <1>10, <1>11
  <2>3. /\ size \in Nat /\ size = Len(frameBytes) - f.cut /\ kept = Lesser(size, DataLimit - f.before)
        /\ size >= 28
    BY <1>4, <1>5, <1>6 DEF frameBytes, size
  <2> HIDE DEF end, bounded
  <2>4. CASE f.measured
    <3>1. end = Lesser(f.before + size, Len(bounded))
      BY <1>7, <2>1, <2>3, <2>4
    <3> DEFINE b == f.before
               n == f.behind
               m == Len(bounded)
    <3>2. /\ b \in Nat /\ n \in Nat /\ DataLimit \in Nat /\ size \in Nat /\ kept \in Nat /\ kept >= 28
          /\ m = IF (b + size) + n < DataLimit THEN (b + size) + n ELSE DataLimit
          /\ kept = IF size < DataLimit - b THEN size ELSE DataLimit - b
          /\ end = IF b + size < m THEN b + size ELSE m
      BY <1>2, <1>5, <2>2, <2>3, <3>1 DEF Lesser
    <3> HIDE DEF b, n, m
    <3>3. end = b + kept /\ end <= m /\ b < m
      <4>1. CASE (b + size) + n < DataLimit
        BY ONLY <3>2, <4>1
      <4>2. CASE ~((b + size) + n < DataLimit) /\ size < DataLimit - b
        BY ONLY <3>2, <4>2
      <4>3. CASE ~((b + size) + n < DataLimit) /\ ~(size < DataLimit - b)
        BY ONLY <3>2, <4>3
      <4> QED
        BY ONLY <4>1, <4>2, <4>3
    <3> QED
      BY <3>3 DEF b, m
  <2>5. CASE ~f.measured
    <3>1. end = Len(bounded) /\ f.behind = 0
      BY <1>2, <1>7, <2>1, <2>5
    <3> DEFINE b == f.before
               m == Len(bounded)
    <3>2. m = Lesser(b + size, DataLimit)
      <4>1. (b + size) + 0 = b + size
        BY <1>2, <2>3
      <4> QED
        BY <2>2, <3>1, <4>1, Zenon
    <3>3. /\ b \in Nat /\ DataLimit \in Nat /\ size \in Nat /\ kept >= 28
          /\ m = IF b + size < DataLimit THEN b + size ELSE DataLimit
          /\ kept = IF size < DataLimit - b THEN size ELSE DataLimit - b
          /\ end = m
      BY <1>2, <1>5, <2>3, <3>1, <3>2 DEF Lesser
    <3> HIDE DEF b, m
    <3>4. end = b + kept /\ end <= m /\ b < m
      <4>1. CASE b + size < DataLimit
        BY ONLY <3>3, <4>1
      <4>2. CASE ~(b + size < DataLimit)
        BY ONLY <3>3, <4>2
      <4> QED
        BY ONLY <4>1, <4>2
    <3> QED
      BY <3>4 DEF b, m
  <2> QED
    BY <2>4, <2>5
<1>13. s = SubSeq(data, f.before + 1, end)
  <2>1. end \in Nat
    BY <1>2, <1>5, <1>12
  <2> HIDE DEF end, bounded
  <2>2. Slice(bounded, f.before, end) = SubSeq(data, f.before + 1, end)
    <3>1. f.before \in Nat /\ Lies(data, 0, bounded) /\ end <= Len(bounded)
      BY <1>2, <1>10, <1>12 DEF bounded
    <3> QED
      BY <2>1, <3>1, SliceShared, Zenon
  <2> QED
    BY <1>7, <2>2 DEF bounded, end
<1>14. s \in Seq(Byte) /\ Len(s) = kept /\ \A i \in 1 .. kept : s[i] = data[f.before + i]
  <2> DEFINE m == f.before + 1
  <2>1. m \in Int /\ end \in Int /\ m <= end /\ end - m + 1 = kept
    <3>1. end = f.before + kept /\ f.before \in Nat /\ kept \in Nat /\ kept >= 28
      BY <1>2, <1>5, <1>12
    <3> HIDE DEF end
    <3> QED
      BY ONLY <3>1
  <2>2. data \in Seq(Byte) /\ Len(data) \in Nat /\ end <= Len(data)
    BY <1>2, <1>5, <1>9, <1>10, <1>12 DEF IsBytes, Lies
  <2>3. \A i \in m .. end : data[i] \in Byte
    BY <1>2, <2>1, <2>2
  <2> HIDE DEF m, end
  <2>4. /\ SubSeq(data, m, end) \in Seq(Byte)
        /\ Len(SubSeq(data, m, end)) = IF m <= end THEN end - m + 1 ELSE 0
        /\ \A i \in 1 .. end - m + 1 : SubSeq(data, m, end)[i] = data[m + i - 1]
    BY <2>1, <2>2, <2>3, SubSeqProperties
  <2>5. \A i \in 1 .. kept : m + i - 1 = f.before + i
    BY <1>2 DEF m
  <2> HIDE DEF s
  <2>6. s = SubSeq(data, m, end)
    BY <1>13 DEF m
  <2> QED
    BY <2>1, <2>4, <2>5, <2>6
<1> HIDE DEF s, end, bounded, limit
<1>15. Lies(frameBytes, 0, s)
  <2>1. ASSUME NEW i \in 1 .. Len(s)
        PROVE  frameBytes[0 + i] = s[i]
    <3>1. i \in 1 .. kept /\ i \in 1 .. size /\ 0 + i = i
      BY <1>2, <1>5, <1>6, <1>14
    <3>2. s[i] = data[f.before + i]
      BY <1>14, <3>1
    <3>3. data[f.before + i] = captured[i]
      BY <1>9, <3>1 DEF Lies, size
    <3>4. captured[i] = frameBytes[i]
      BY <1>6, <3>1
    <3> QED
      BY <3>1, <3>2, <3>3, <3>4
  <2>2. 0 + Len(s) <= Len(frameBytes)
    BY <1>2, <1>3, <1>5, <1>14 DEF frameBytes
  <2> QED
    BY <1>3, <1>14, <2>1, <2>2 DEF Lies
<1>16. Captures(s, f)
  BY <1>14, <1>15 DEF Captures, frameBytes, kept
<1> QED
  BY <1>7, <1>12, <1>16 DEF s, bounded

-----------------------------------------------------------------------------
(* The capture of a frame *)

\* The slice is the attempt that succeeds.
FrameInv ==
  /\ IInv
  /\ frame \in Frames /\ descriptor = DescriptorOf(frame)
  /\ Deliverable(frame) => /\ pc \in {"slice", "done"}
                           /\ pc = "done" => queue = <<Sent(frame)>>

LEMMA SliceIsAccepted ==
  ASSUME FrameInv, Deliverable(frame)
  PROVE  /\ descriptor.offset < Len(Bounded) /\ descriptor.data # <<>>
         /\ Accepted(Slice(Bounded, descriptor.offset, SliceEnd)) = {Sent(frame)}
<1> DEFINE s == Slice(Bounded, descriptor.offset, SliceEnd)
<1>1. IsFrame(frame) /\ PayloadStart(frame) <= Kept(frame)
  BY DEF FrameInv, Deliverable, IsFrame
<1>2. descriptor.offset < Len(Bounded) /\ Captures(s, frame)
  BY <1>1, SliceOfFrame DEF FrameInv, IInv
<1>3. descriptor.data # <<>>
  <2> SUFFICES ASSUME descriptor.data = <<>>
               PROVE  FALSE
    OBVIOUS
  <2>1. Len(descriptor.data) = 0 /\ DataLimit \in Nat /\ DataLimit # 0
    BY LimitAssumption
  <2>2. Lesser(Len(descriptor.data), DataLimit) = 0
    BY <2>1 DEF Lesser
  <2>3. Bounded = SubSeq(<<>>, 1, 0)
    BY <2>2 DEF Bounded, Slice
  <2>4. Len(Bounded) = 0
    BY <2>3
  <2>5. descriptor.offset \in Nat
    BY DEF FrameInv, IInv, TypeOK, Descriptor
  <2> QED
    BY <1>2, <2>4, <2>5
<1> HIDE DEF s
<1>4. ParsePacketBytes(s) = {Sent(frame)}
  BY <1>2, FrameFound
<1>5. include_empty_payloads \/ Sent(frame).payload # <<>>
  BY DEF Deliverable, Sent
<1>6. Accepted(s) = {Sent(frame)}
  BY <1>4, <1>5 DEF Accepted
<1> QED
  BY <1>2, <1>3, <1>6 DEF s

\* Every TCP or UDP packet whose headers were captured is handed out once, with
\* the fields it was sent with and all of its payload that was captured: for
\* every payload, link layer, length, truncation and place in the buffer.
THEOREM FramesAreDelivered == FrameSpec => []DeliversWhatWasSent
<1>1. FrameInit => FrameInv
  BY DEF FrameInit, Init, FrameInv, IInv, TypeOK
<1>2. FrameInv /\ [FrameNext]_<<vars, frame>> => FrameInv'
  <2> SUFFICES ASSUME FrameInv, [FrameNext]_<<vars, frame>>
               PROVE  FrameInv'
    OBVIOUS
  <2>1. frame' = frame /\ [Next]_vars
    BY DEF FrameNext, vars
  <2>2. IInv'
    BY <2>1, StepKeepsType DEF FrameInv
  <2>3. descriptor' = descriptor /\ include_empty_payloads' = include_empty_payloads
    BY <2>1 DEF Next, vars, Ignore, AttemptSlice, AttemptWhole, Attempt
  <2>4. frame' \in Frames /\ descriptor' = DescriptorOf(frame')
    BY <2>1, <2>3 DEF FrameInv
  <2>5. Deliverable(frame)' => Deliverable(frame)
    BY <2>1, <2>3 DEF Deliverable
  <2>6. ASSUME Deliverable(frame)
        PROVE  pc' \in {"slice", "done"} /\ (pc' = "done" => queue' = <<Sent(frame)>>)
    <3> DEFINE s == Slice(Bounded, descriptor.offset, SliceEnd)
    <3>1. /\ descriptor.offset < Len(Bounded) /\ descriptor.data # <<>>
          /\ Accepted(s) = {Sent(frame)}
      BY <2>6, SliceIsAccepted
    <3>2. pc \in {"slice", "done"} /\ (pc = "done" => queue = <<Sent(frame)>>)
      BY <2>6 DEF FrameInv
    <3>3. ~Ignore
      BY <3>1 DEF Ignore
    <3>4. ~AttemptWhole
      <4>1. Len(Bounded) \in Nat /\ descriptor.offset \in Nat
        BY BoundedType DEF FrameInv, IInv, TypeOK, Descriptor
      <4>2. pc # "whole" /\ ~(descriptor.offset >= Len(Bounded))
        BY <3>1, <3>2, <4>1
      <4> QED
        BY <4>2 DEF AttemptWhole
    <3>5. CASE AttemptSlice
      <4>1. pc = "slice" /\ Attempt(s, "whole")
        BY <3>5 DEF AttemptSlice
      <4>2. queue = <<>>
        BY <4>1 DEF FrameInv, IInv
      <4> HIDE DEF s
      <4>3. queue' = Append(queue, Sent(frame)) /\ pc' = "done"
        BY <3>1, <4>1 DEF Attempt
      <4> QED
        BY <4>2, <4>3
    <3>6. CASE UNCHANGED vars
      BY <3>2, <3>6 DEF vars
    <3> QED
      BY <2>1, <3>3, <3>4, <3>5, <3>6 DEF Next
  <2>7. Sent(frame)' = Sent(frame)
    BY <2>1
  <2> QED
    BY <2>2, <2>4, <2>5, <2>6, <2>7 DEF FrameInv
<1>3. FrameInv => DeliversWhatWasSent
  BY DEF FrameInv, DeliversWhatWasSent
<1> QED
  BY <1>1, <1>2, <1>3, PTL DEF FrameSpec
=============================================================================
