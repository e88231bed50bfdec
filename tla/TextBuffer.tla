------------------------------ MODULE TextBuffer ------------------------------
(***************************************************************************)
(* How a text gets from the shim to Python (copy_text of                   *)
(* native/src/pktmon_backend.cpp and its callers in backend.py): a first   *)
(* call without a buffer asks how much room the text needs, a second one   *)
(* fills a buffer of that size.  A text is a sequence of characters, a     *)
(* buffer one with a NUL somewhere.                                        *)
(***************************************************************************)
EXTENDS Integers, Sequences, FiniteSetsExt

NUL == "nul"

\* What copy_text leaves in a buffer.
CopyText(text, buffer) ==
  LET count == Min({Len(text) + 1, Len(buffer)})
  IN SubSeq(text, 1, count - 1) \o <<NUL>> \o SubSeq(buffer, count + 1, Len(buffer))

\* Mutant: the terminator is forgotten.
Needed_TextOnly(text) == Len(text)

\* What it returns.
Needed(text) == Len(text) + 1

\* ctypes.create_string_buffer(size) and its value.
Cleared(size) == [i \in 1 .. size |-> NUL]
Value(buffer) ==
  SubSeq(buffer, 1, Min({i - 1 : i \in {j \in 1 .. Len(buffer) : buffer[j] = NUL}} \cup {Len(buffer)}))
=============================================================================
