----------------------------- MODULE MCSniffer -----------------------------
(***************************************************************************)
(* Finite instances of Sniffer for TLC.                                    *)
(***************************************************************************)
EXTENDS Sniffer

MCAnyCallback == {"returns", "raises", "exits"}
MCNone        == {}
MCAnyJoin     == {"wait", "timeout", "skip"}

\* stop(join=False)
MCUnjoined    == {"skip"}
MCEither      == {"wait", "skip"}
=============================================================================
