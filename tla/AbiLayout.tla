------------------------------ MODULE AbiLayout ------------------------------
(***************************************************************************)
(* The structures that cross a library boundary, as the x64 compiler of    *)
(* the build lays them out: those of pktmon_backend.h, each with its       *)
(* counterpart in backend.py, and those of pktmon_api.h.  A structure is   *)
(* the sequence of its fields, in order; a field has a name, a size and an *)
(* alignment.                                                              *)
(***************************************************************************)
EXTENDS Integers, Sequences, FiniteSetsExt

Scalar(name, size)          == [name |-> name, size |-> size, align |-> size]
Array(name, element, count) == [name |-> name, size |-> element * count, align |-> element]

Aligned(n, align) == ((n + align - 1) \div align) * align

\* Where each field begins.
Offsets(struct) ==
  LET offset[i \in 1 .. Len(struct)] ==
        IF i = 1 THEN 0
        ELSE Aligned(offset[i - 1] + struct[i - 1].size, struct[i].align)
  IN offset

\* sizeof
SizeOf(struct) ==
  Aligned(Offsets(struct)[Len(struct)] + struct[Len(struct)].size,
          Max({struct[i].align : i \in 1 .. Len(struct)}))

\* The bytes of a field.
Index(struct, name) == CHOOSE i \in 1 .. Len(struct) : struct[i].name = name
Begins(struct, name) == Offsets(struct)[Index(struct, name)]
Width(struct, name)  == struct[Index(struct, name)].size

-----------------------------------------------------------------------------
(* pktmon_backend.h and backend.py *)

PktmonProbeInfo ==
  << Scalar("struct_size", 4), Scalar("export_count", 4), Scalar("missing_count", 4),
     Scalar("capture_ready", 4), Scalar("reserved", 4) >>

ProbeInfo ==
  << Scalar("struct_size", 4), Scalar("export_count", 4), Scalar("missing_count", 4),
     Scalar("capture_ready", 4), Scalar("reserved", 4) >>

PktmonPacket ==
  << Scalar("struct_size", 4), Scalar("timestamp_unix", 8), Scalar("protocol", 4),
     Scalar("source_port", 2), Scalar("destination_port", 2),
     Array("source_address", 1, 64), Array("destination_address", 1, 64),
     Scalar("payload", 8), Scalar("payload_size", 4) >>

NativePacket ==
  << Scalar("struct_size", 4), Scalar("timestamp_unix", 8), Scalar("protocol", 4),
     Scalar("source_port", 2), Scalar("destination_port", 2),
     Array("source_address", 1, 64), Array("destination_address", 1, 64),
     Scalar("payload", 8), Scalar("payload_size", 4) >>

PktmonCaptureConfig ==
  << Scalar("struct_size", 4), Scalar("queue_capacity", 4),
     Scalar("buffer_size_multiplier", 2), Scalar("truncation_size", 2),
     Scalar("include_empty_payloads", 1), Array("reserved", 1, 5) >>

CaptureConfig ==
  << Scalar("struct_size", 4), Scalar("queue_capacity", 4),
     Scalar("buffer_size_multiplier", 2), Scalar("truncation_size", 2),
     Scalar("include_empty_payloads", 1), Array("reserved", 1, 5) >>

-----------------------------------------------------------------------------
(* pktmon_api.h *)

PACKETMONITOR_STREAM_METADATA ==
  << Scalar("PktGroupId", 8), Scalar("PktCount", 2), Scalar("AppearanceCount", 2),
     Scalar("DirectionName", 2), Scalar("PacketType", 2), Scalar("ComponentId", 2),
     Scalar("EdgeId", 2), Scalar("Reserved", 2), Scalar("DropReason", 4),
     Scalar("DropLocation", 4), Scalar("Processor", 2), Scalar("TimeStamp", 8) >>

PACKETMONITOR_STREAM_DATA_DESCRIPTOR ==
  << Scalar("Data", 8), Scalar("DataSize", 4), Scalar("MetadataOffset", 4),
     Scalar("PacketOffset", 4), Scalar("PacketLength", 4),
     Scalar("MissedPacketWriteCount", 4), Scalar("MissedPacketReadCount", 4) >>

PACKETMONITOR_REALTIME_STREAM_CONFIGURATION ==
  << Scalar("UserContext", 8), Scalar("EventCallback", 8), Scalar("DataCallback", 8),
     Scalar("BufferSizeMultiplier", 2), Scalar("TruncationSize", 2) >>

\* The static_asserts of pktmon_backend.cpp.
AbiAsserted ==
  /\ SizeOf(PACKETMONITOR_REALTIME_STREAM_CONFIGURATION) = 32
  /\ SizeOf(PACKETMONITOR_STREAM_DATA_DESCRIPTOR) = 32

\* The two sides of the C ABI have the same structures.
AbiAgrees ==
  \A pair \in {<<PktmonProbeInfo, ProbeInfo>>, <<PktmonPacket, NativePacket>>,
               <<PktmonCaptureConfig, CaptureConfig>>} :
    /\ SizeOf(pair[1]) = SizeOf(pair[2]) /\ Offsets(pair[1]) = Offsets(pair[2])
    /\ \A i \in 1 .. Len(pair[1]) : pair[1][i].name = pair[2][i].name

ASSUME LayoutAssumption == AbiAsserted /\ AbiAgrees
=============================================================================
