----------------------------- MODULE PacketRecord -----------------------------
(***************************************************************************)
(* A packet's way across the C ABI: read_many() of backend.py makes an     *)
(* array of records, PktmonReadBatch (or PktmonRead, one record at a time, *)
(* with a library that has no PktmonReadBatch) checks and fills it, and    *)
(* _packet_from_native decodes it.  The two sides find the fields by their *)
(* own idea of the structure, and the library may be of another version.   *)
(*                                                                         *)
(* A byte of memory is <<k, v>>: the k-th byte of the number v, or the     *)
(* character v when k is 0.                                                *)
(***************************************************************************)
EXTENDS AbiLayout, TextBuffer

CONSTANTS
  Queues,    \* what may be waiting in the shim: sequences of packets
  Limits,    \* max_packets
  Layouts    \* the structures PktmonPacket may be in a library

\* The bytes of an address, of either version of IP.
Octets == [1 .. 4 -> 0 .. 255] \cup [1 .. 16 -> 0 .. 255]

Packet ==
  [timestamp: Nat, protocol: Nat, source: Octets, source_port: Nat,
   destination: Octets, destination_port: Nat, payload: Seq(Nat)]

Texts  == {"source_address", "destination_address"}
Fields == Texts \cup {"timestamp_unix", "protocol", "source_port", "destination_port",
                      "payload", "payload_size"}

\* The bytes after a field.
Ends(struct, name) == Begins(struct, name) + Width(struct, name)

\* A record begins with its struct_size, its fields lie apart and within it, and
\* an address has room for the longest text and its NUL.  A library that lays
\* the fields out differently has another size, by which the shim tells.
RecordAssumption ==
  /\ Limits \subseteq Nat \ {0}
  /\ Queues \subseteq Seq(Packet)
  /\ Begins(NativePacket, "struct_size") = 0
  /\ \A struct \in Layouts \cup {NativePacket} :
       /\ Begins(struct, "payload_size") \in Nat /\ SizeOf(struct) \in Nat
       /\ Begins(struct, "payload_size") + 4 <= SizeOf(struct)
  /\ \A name \in Fields :
       /\ Begins(NativePacket, name) \in Nat /\ Width(NativePacket, name) \in Nat \ {0}
       /\ Ends(NativePacket, name) <= SizeOf(NativePacket)
       /\ \A other \in Fields \ {name} :
            \/ Ends(NativePacket, name) <= Begins(NativePacket, other)
            \/ Ends(NativePacket, other) <= Begins(NativePacket, name)
  /\ \A name \in Texts : Width(NativePacket, name) >= 40
  /\ \A struct \in Layouts : SizeOf(struct) = SizeOf(NativePacket) =>
       \A name \in Fields : /\ Begins(struct, name) = Begins(NativePacket, name)
                             /\ Width(struct, name) = Width(NativePacket, name)

VARIABLES
  offered,    \* history: what was waiting at first
  limit, layout, batched,   \* the call, the library, and whether it can batch
  queue,      \* what is waiting
  memory,     \* the array of records
  payloads,   \* the payload buffers of the shim
  decoded,    \* what Python has decoded
  pc,
  touched     \* history: how far the shim read or wrote in the array

call == <<offered, limit, layout, batched>>
vars == <<call, queue, memory, payloads, decoded, pc, touched>>

-----------------------------------------------------------------------------
(* Addresses as text *)

Digits == <<"0", "1", "2", "3", "4", "5", "6", "7", "8", "9", "a", "b", "c", "d", "e", "f">>
Digit(n) == Digits[n + 1]

\* %u and %02x
Decimal(n) ==
  CASE n < 10             -> <<Digit(n)>>
    [] n >= 10 /\ n < 100 -> <<Digit(n \div 10), Digit(n % 10)>>
    [] n >= 100           -> <<Digit(n \div 100), Digit((n \div 10) % 10), Digit(n % 10)>>

Hex(n) == <<Digit(n \div 16), Digit(n % 16)>>

\* snprintf into a buffer of the given size
Printed(text, size) == SubSeq(text, 1, Min({Len(text), size - 1}))

ipv4_to_string(o) ==
  Printed(Decimal(o[1]) \o <<".">> \o Decimal(o[2]) \o <<".">> \o Decimal(o[3]) \o <<".">> \o Decimal(o[4]), 32)

ipv6_to_string(o) ==
  LET group(i) == Hex(o[2 * i - 1]) \o Hex(o[2 * i])
      next(i)  == <<":">> \o group(i)
  IN Printed(group(1) \o next(2) \o next(3) \o next(4) \o next(5) \o next(6) \o next(7) \o next(8), 64)

AddressText(octets) == IF Len(octets) = 4 THEN ipv4_to_string(octets) ELSE ipv6_to_string(octets)

-----------------------------------------------------------------------------
(* Memory *)

Number(n, width) == [k \in 1 .. width |-> <<k, n>>]
Characters(text) == [i \in 1 .. Len(text) |-> <<0, text[i]>>] \o <<<<0, NUL>>>>

Cells(mem, at, width) == SubSeq(mem, at + 1, at + width)

NumberAt(mem, at, width) ==
  LET cells == Cells(mem, at, width) IN
    IF cells = Number(cells[1][2], width) THEN cells[1][2] ELSE -1

TextAt(mem, at, width) ==
  LET cells == Cells(mem, at, width) IN
    Value([i \in 1 .. width |-> IF cells[i][1] = 0 THEN cells[i][2] ELSE "?"])

\* fill_packet: what it writes, and where in the record; payload points to the
\* n-th of the payload buffers, or is null.
FieldsOf(struct, packet, n) ==
  LET number(name, v) == <<Begins(struct, name), Number(v, Width(struct, name))>>
      text(name, v)   == <<Begins(struct, name), Characters(Printed(v, Width(struct, name)))>>
  IN << number("timestamp_unix", packet.timestamp),
        number("protocol", packet.protocol),
        number("source_port", packet.source_port),
        number("destination_port", packet.destination_port),
        number("payload", IF packet.payload = <<>> THEN 0 ELSE n),
        number("payload_size", Len(packet.payload)),
        text("source_address", AddressText(packet.source)),
        text("destination_address", AddressText(packet.destination)) >>

\* The fields are written in turn.
Filled(mem, base, fields) ==
  LET at(i, f) == i - base - fields[f][1]
      over(i)  == {f \in DOMAIN fields : at(i, f) \in 1 .. Len(fields[f][2])}
  IN [i \in DOMAIN mem |-> IF over(i) = {} THEN mem[i] ELSE fields[Max(over(i))][2][at(i, Max(over(i)))]]

\* Mutant: the records are as long as their fields.
Stride_Unpadded(struct) == Begins(struct, "payload_size") + 4

\* How far apart the records of an array are.
Stride(struct) == SizeOf(struct)

\* What a pointer to a payload and a size find; Wild when they fit no payload.
Wild == <<"wild">>
PointedTo(n, size) ==
  IF n \in DOMAIN payloads /\ size \in 0 .. Len(payloads[n])
  THEN SubSeq(payloads[n], 1, size) ELSE Wild

\* _packet_from_native
FromNative(mem, base) ==
  LET number(name) == NumberAt(mem, base + Begins(NativePacket, name), Width(NativePacket, name))
      text(name)   == TextAt(mem, base + Begins(NativePacket, name), Width(NativePacket, name))
  IN [timestamp |-> number("timestamp_unix"), protocol |-> number("protocol"),
      source |-> text("source_address"), sport |-> number("source_port"),
      destination |-> text("destination_address"), dport |-> number("destination_port"),
      payload |-> IF number("payload_size") = 0 THEN <<>>
                  ELSE PointedTo(number("payload"), number("payload_size"))]

-----------------------------------------------------------------------------
(* One read_many() *)

Init ==
  /\ offered \in Queues /\ queue = offered
  /\ limit \in Limits /\ layout \in Layouts /\ batched \in BOOLEAN
  /\ memory = <<>> /\ payloads = <<>> /\ decoded = <<>>
  /\ pc = "prepare" /\ touched = 0

\* How many records the array of a call has.
Records == IF batched THEN limit ELSE 1

\* A new array, in which only struct_size is set.
Prepare ==
  /\ pc = "prepare" /\ pc' = "check"
  /\ memory' = [k \in 1 .. Records * SizeOf(NativePacket) |->
                  LET at == ((k - 1) % SizeOf(NativePacket)) - Begins(NativePacket, "struct_size")
                  IN IF at \in 0 .. 3 THEN Number(SizeOf(NativePacket), 4)[at + 1] ELSE <<0, NUL>>]
  /\ touched' = 0
  /\ UNCHANGED <<call, queue, payloads, decoded>>

\* Mutant: the sizes are not looked at.
Check_Trusts ==
  /\ pc = "check" /\ pc' = IF queue = <<>> THEN "done" ELSE "fill"
  /\ payloads' = <<>>
  /\ UNCHANGED <<call, queue, memory, decoded, touched>>

\* The shim looks at the size of each record, and gives up at the first that is
\* not its own; with nothing to read it returns PKTMON_E_TIMEOUT.
Check ==
  /\ pc = "check"
  /\ LET at(i) == i * Stride(layout)
         wrong == {i \in 0 .. Records - 1 :
                    /\ at(i) + 4 <= Len(memory)
                    /\ NumberAt(memory, at(i), 4) # SizeOf(layout)}
     IN /\ touched' = at(IF wrong = {} THEN Records - 1 ELSE Min(wrong)) + 4
        /\ pc' = IF wrong # {} THEN "raised" ELSE IF queue = <<>> THEN "done" ELSE "fill"
  /\ payloads' = <<>>
  /\ UNCHANGED <<call, queue, memory, decoded>>

\* One turn of the loop that fills the records.
Fill ==
  /\ pc = "fill"
  /\ payloads' = Append(payloads, Head(queue).payload)
  /\ LET base == Len(payloads) * Stride(layout) IN
       /\ memory' = Filled(memory, base, FieldsOf(layout, Head(queue), Len(payloads) + 1))
       /\ touched' = Max({touched, base + Begins(layout, "payload_size") + 4})
  /\ queue' = Tail(queue)
  /\ pc' = IF Len(payloads') = Records \/ queue' = <<>> THEN "decode" ELSE "fill"
  /\ UNCHANGED <<call, decoded>>

\* A library without PktmonReadBatch is called again, for as many as there are.
Decode ==
  /\ pc = "decode"
  /\ decoded' = decoded \o [i \in 1 .. Len(payloads) |->
                              FromNative(memory, (i - 1) * SizeOf(NativePacket))]
  /\ pc' = IF batched \/ Len(decoded') = limit THEN "done" ELSE "prepare"
  /\ UNCHANGED <<call, queue, memory, payloads, touched>>

Next == Prepare \/ Check \/ Fill \/ Decode

Spec == Init /\ [][Next]_vars

-----------------------------------------------------------------------------
(* Properties *)

\* Different addresses are told apart by their text.
AddressesDiffer ==
  \A i, j \in 1 .. Len(decoded) :
    /\ decoded[i].source = decoded[j].source => offered[i].source = offered[j].source
    /\ decoded[i].source = decoded[j].destination => offered[i].source = offered[j].destination

\* A packet as Python should get it.
AsQueued(packet) ==
  [timestamp |-> packet.timestamp, protocol |-> packet.protocol,
   source |-> AddressText(packet.source), sport |-> packet.source_port,
   destination |-> AddressText(packet.destination), dport |-> packet.destination_port,
   payload |-> packet.payload]

\* Python gets the packets that were waiting, field by field and in order, as
\* many as it asked for, from either kind of library; or nothing at all, and
\* only from a library whose record is of another size.  Different addresses
\* stay different.
DecodesWhatWasQueued ==
  /\ pc = "done" =>
       decoded = [i \in 1 .. Min({limit, Len(offered)}) |-> AsQueued(offered[i])]
  /\ pc = "raised" => decoded = <<>> /\ SizeOf(layout) # SizeOf(NativePacket)
  /\ AddressesDiffer

\* The shim stays inside Python's array, whatever it takes a record to be.
StaysInArray == touched <= Len(memory)
=============================================================================
