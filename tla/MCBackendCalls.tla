--------------------------- MODULE MCBackendCalls ---------------------------
(***************************************************************************)
(* A finite instance of BackendCalls for TLC.                              *)
(***************************************************************************)
EXTENDS BackendCalls

\* Addresses that are alike without separators and without padding, and the
\* longest of both kinds.
V4 == {<<1, 10, 0, 0>>, <<11, 0, 0, 0>>, <<255, 255, 255, 255>>}
V6(a, b) == <<a, b>> \o [i \in 1 .. 14 |-> 0]
Addresses == V4 \cup {V6(1, 35), V6(18, 3), [i \in 1 .. 16 |-> 255]}

Packet(s, d, payload) ==
  [timestamp |-> 70, protocol |-> 6, source_port |-> 80, destination_port |-> 81,
   source |-> s, destination |-> d, payload |-> payload]
Answer(s, d) == [Packet(s, d, <<9>>) EXCEPT !.timestamp = 71, !.protocol = 17]

MCQueues ==
  {<<>>} \cup {<<Packet(s, d, p)>> : s, d \in Addresses, p \in {<<>>, <<7, 8>>}}
    \cup {<<Packet(s, d, <<7, 8>>), Answer(d, s), Packet(d, d, <<>>)>> : s, d \in Addresses}

\* This library; one whose record ends with another number, where this one has
\* padding; one with more at its end; and one with less room for an address.
Appended == Append(PktmonPacket, Scalar("interface", 4))
MCRecordLayouts ==
  { PktmonPacket, Appended, Append(Appended, Scalar("drop_reason", 4)),
    SubSeq(PktmonPacket, 1, 6) \o <<Array("destination_address", 1, 32)>>
      \o SubSeq(PktmonPacket, 8, 9) }

\* Below, at and above what each field holds, and twice as much: 16 stands for
\* 2^32 and 8 for 2^16.
MCArguments == {-1, 0, 1, 7, 8, 15, 16, 17, 32}

MCDefaults ==
  [queue_capacity |-> 5, buffer_size_multiplier |-> 2, truncation_size |-> 6,
   include_empty_payloads |-> TRUE]

\* This library, one whose config has grown past the bytes that were reserved,
\* and one from before PktmonStartConfig.
MCConfigLayouts == {PktmonCaptureConfig, Append(PktmonCaptureConfig, Scalar("flags", 4)), <<>>}

\* Metadata that just fits and that lacks a byte, behind packets of 1 and of 60
\* bytes, and a buffer that ends before it.
MCSizes  == {40, 48, 49, 60, 107, 108}
MCPlaces == {0, 1, 2, 60, 61, 108}

\* Messages of three lengths, one the beginning of another, and none.
MCMessages == { <<>>, <<"a">>, <<"b", "a">>, <<"a", "b", "c", "d">> }
MCInvalidHandle == <<"i", "n", "v">>

All ==
  { "AddCaptureConstraint", "AttachOutputToSession", "CloseRealtimeStream",
    "CloseSessionHandle", "CreateLiveSession", "CreateRealtimeStream",
    "Initialize", "SetSessionActive", "Uninitialize" }

\* No library, a whole one, one that lacks each export, and one without any.
MCImages == {{"absent"}, All, {}} \cup {All \ {name} : name \in All}
=============================================================================
