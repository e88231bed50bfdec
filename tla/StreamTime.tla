------------------------------ MODULE StreamTime ------------------------------
(***************************************************************************)
(* The time stamp of a packet: direct_packet_callback takes it from the    *)
(* metadata in the delivered buffer where the descriptor says there is     *)
(* any, and from the clock otherwise.  Metadata is where MetadataOffset    *)
(* points to, and the TimeStamp in it may not be set.                      *)
(*                                                                         *)
(* Times count from the epoch of Unix; in a buffer of DataSize bytes the   *)
(* metadata begins at the byte the driver put it at.                       *)
(***************************************************************************)
EXTENDS AbiLayout

CONSTANTS
  Sizes,      \* DataSize
  Places,     \* MetadataOffset
  MaxTime     \* bound on the clock

TimeAssumption ==
  /\ Sizes \subseteq Nat \ {0} /\ Places \subseteq Nat /\ MaxTime \in Nat \ {0}
  /\ SizeOf(PACKETMONITOR_STREAM_METADATA) \in Nat \ {0}

VARIABLES
  descriptor,  \* [DataSize, MetadataOffset]
  written,     \* TimeStamp as the driver wrote it; NotSet when it did not
  sent,        \* history: when the packet was seen
  clock,
  timestamp,   \* enqueue_stream_data's timestamp
  packet,      \* timestamp_unix of the packet, once it is parsed
  lastRead,    \* history: the last byte of the buffer read as metadata
  pc

vars == <<descriptor, written, sent, clock, timestamp, packet, lastRead, pc>>

METADATA_SIZE == SizeOf(PACKETMONITOR_STREAM_METADATA)

\* A FILETIME of zero, before the epoch of Unix
NotSet == -MaxTime

\* The buffer begins with the packet, whose bytes are no time.
NoTime == MaxTime + 1
TimeStampAt(offset) == IF offset = 0 THEN NoTime ELSE written

-----------------------------------------------------------------------------
unix_time_from_system_time(time) == IF time <= 0 THEN clock ELSE time

\* Mutant: an offset of zero is as good as any.
HasMetadata_AnyOffset == descriptor.MetadataOffset + METADATA_SIZE <= descriptor.DataSize

HasMetadata ==
  /\ descriptor.MetadataOffset # 0
  /\ descriptor.MetadataOffset + METADATA_SIZE <= descriptor.DataSize

Init ==
  /\ descriptor \in [DataSize : Sizes, MetadataOffset : Places]
  /\ sent \in 1 .. MaxTime /\ clock = sent
  /\ written \in {sent, NotSet}
  /\ timestamp = 0 /\ packet = 0 /\ lastRead = -1 /\ pc = "deliver"

Tick == clock < MaxTime /\ clock' = clock + 1
        /\ UNCHANGED <<descriptor, written, sent, timestamp, packet, lastRead, pc>>

\* stream_descriptor_timestamp reads the metadata ...
ReadMetadata ==
  /\ pc = "deliver" /\ HasMetadata
  /\ timestamp' = unix_time_from_system_time(TimeStampAt(descriptor.MetadataOffset))
  /\ lastRead' = descriptor.MetadataOffset + METADATA_SIZE - 1
  /\ pc' = "parse"
  /\ UNCHANGED <<descriptor, written, sent, clock, packet>>

\* ... or takes the time of day.
TimeOfDay ==
  /\ pc = "deliver" /\ ~HasMetadata
  /\ timestamp' = clock /\ pc' = "parse"
  /\ UNCHANGED <<descriptor, written, sent, clock, packet, lastRead>>

\* The parser keeps the time it is given.
ParsePacketBytes ==
  /\ pc = "parse" /\ pc' = "done"
  /\ packet' = IF timestamp > 0 THEN timestamp ELSE clock
  /\ UNCHANGED <<descriptor, written, sent, clock, timestamp, lastRead>>

Next == Tick \/ ReadMetadata \/ TimeOfDay \/ ParsePacketBytes

Spec == Init /\ [][Next]_vars

-----------------------------------------------------------------------------
(* Properties *)

\* A packet's time is when it was seen, if the driver said so; and otherwise
\* between then and the end of its delivery.  It never comes from bytes that
\* are no time, nor from behind the buffer.
TimeIsOfThePacket ==
  /\ lastRead < descriptor.DataSize
  /\ pc = "done" =>
       /\ sent <= packet /\ packet <= clock
       /\ lastRead >= 0 /\ written # NotSet => packet = sent
=============================================================================
