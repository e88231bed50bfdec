--------------------------- MODULE MCApplication ---------------------------
(***************************************************************************)
(* A finite instance of Application for TLC.                               *)
(***************************************************************************)
EXTENDS Application

\* No timeout, a negative one, none at all, and two that are.
MCTimeouts == {{}, {-1}, {0}, {1}, {3}}
=============================================================================
