--------------------------- MODULE MCPacketFrames ---------------------------
(***************************************************************************)
(* Finite instances of PacketFrames for TLC.                               *)
(***************************************************************************)
EXTENDS PacketFrames

\* Every layer in every form: whole, without the payload and the end of the
\* transport header or without the end of either, without a part of the IP header,
\* and with nothing captured at all; with nothing behind it, with a few bytes, and with
\* enough for the rest of the headers.
MCFrames ==
  { f \in [link: {"raw", "ethernet", "vlan", "snap"}, version: {4, 6}, options: {0, 4},
           protocol: {TCP, UDP, 1}, tcp: {0, 4}, payload: {<<>>, <<7, 8, 9>>}, sized: BOOLEAN,
           padding: {0, 6}, cut: {0, 2, 5, 12, 200}, before: {0, 8}, behind: {0, 5, 30}, measured: BOOLEAN] :
      /\ f.version = 6 => f.options = 0 /\ f.sized
      /\ f.protocol # TCP => f.tcp = 0
      /\ f.behind > 0 => f.measured
      /\ f.cut > 0 => f.padding = 0 }

\* A packet truncated right after its headers, in a buffer that goes on.
MCTruncatedFrames ==
  [link: {"ethernet"}, version: {4}, options: {0, 4}, protocol: {TCP, UDP}, tcp: {0, 4},
   payload: {<<7, 8, 9>>}, sized: {TRUE}, padding: {0}, cut: {0, 3}, before: {0, 8},
   behind: {0, 5}, measured: {TRUE}]
=============================================================================
