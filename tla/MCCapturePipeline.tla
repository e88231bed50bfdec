-------------------------- MODULE MCCapturePipeline --------------------------
(***************************************************************************)
(* Finite instances of CapturePipeline for TLC.                            *)
(***************************************************************************)
EXTENDS CapturePipeline

MCAnyCallback == {"returns", "raises", "exits"}
MCJoined      == {"wait"}
=============================================================================
