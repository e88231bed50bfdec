------------------------------ MODULE LastError ------------------------------
(***************************************************************************)
(* How a failed start gets its message (PktmonBackend.start and last_error *)
(* of backend.py, PktmonLastError of native/src/pktmon_backend.cpp): the   *)
(* shim keeps one text per capture, which the next start replaces, and     *)
(* last_error() asks for it in two calls, of which each takes the lock.    *)
(* Several threads may start one capture, and one may close it while       *)
(* nobody is in a call; stops between the starts change no text.           *)
(***************************************************************************)
EXTENDS TextBuffer

CONSTANTS
  Starters,        \* the threads that start the capture
  Messages,        \* what a start may leave in last_error
  InvalidHandle    \* what is said of a handle that is None

LastErrorAssumption ==
  \A m \in Messages \cup {InvalidHandle} : m \in Seq(STRING) /\ \A i \in 1 .. Len(m) : m[i] # NUL

VARIABLES
  last_error,   \* last_error of the capture
  handle,       \* "open", or "none" once close() has forgotten it
  pc,           \* per starter: "idle", "failed", "sized" or "told"
  size,         \* per starter: the size it was given
  buffer,       \* per starter: its buffer
  mine,         \* history: the message its start left
  shown,        \* history: the text when it was copied
  intact        \* history: nobody changed the text since its start failed

vars == <<last_error, handle, pc, size, buffer, mine, shown, intact>>

Init ==
  /\ last_error = <<>> /\ handle = "open"
  /\ pc = [s \in Starters |-> "idle"]
  /\ size = [s \in Starters |-> 0]
  /\ buffer = [s \in Starters |-> <<>>]
  /\ mine = [s \in Starters |-> <<>>]
  /\ shown = [s \in Starters |-> <<>>]
  /\ intact = [s \in Starters |-> FALSE]

\* What PktmonLastError says now.
Text == IF handle = "open" THEN last_error ELSE InvalidHandle

StartFails(s) ==
  /\ pc[s] = "idle" /\ handle = "open"
  /\ \E m \in Messages :
       /\ last_error' = m
       /\ mine' = [mine EXCEPT ![s] = m]
  /\ pc' = [pc EXCEPT ![s] = "failed"]
  /\ intact' = [t \in Starters |-> t = s]
  /\ UNCHANGED <<handle, size, buffer, shown>>

StartSucceeds(s) ==
  /\ pc[s] = "idle" /\ handle = "open"
  /\ last_error' = <<>>
  /\ intact' = [t \in Starters |-> FALSE]
  /\ UNCHANGED <<handle, pc, size, buffer, mine, shown>>

\* The handle is None: nothing is started, and PktmonLastError has a text for it.
StartRefused(s) ==
  /\ pc[s] = "idle" /\ handle = "none"
  /\ pc' = [pc EXCEPT ![s] = "failed"]
  /\ mine' = [mine EXCEPT ![s] = InvalidHandle]
  /\ intact' = [intact EXCEPT ![s] = TRUE]
  /\ UNCHANGED <<last_error, handle, size, buffer, shown>>

Close ==
  /\ handle = "open" /\ handle' = "none"
  /\ intact' = [t \in Starters |-> FALSE]
  /\ UNCHANGED <<last_error, pc, size, buffer, mine, shown>>

AskSize(s) ==
  /\ pc[s] = "failed"
  /\ size' = [size EXCEPT ![s] = Needed(Text)]
  /\ pc' = [pc EXCEPT ![s] = "sized"]
  /\ UNCHANGED <<last_error, handle, buffer, mine, shown, intact>>

AskText(s) ==
  /\ pc[s] = "sized"
  /\ buffer' = [buffer EXCEPT ![s] = CopyText(Text, Cleared(Max({size[s], 1})))]
  /\ shown' = [shown EXCEPT ![s] = Text]
  /\ pc' = [pc EXCEPT ![s] = "told"]
  /\ UNCHANGED <<last_error, handle, size, mine, intact>>

\* The start raises, with the text in its message; the caller may start again.
Raise(s) ==
  /\ pc[s] = "told"
  /\ pc' = [pc EXCEPT ![s] = "idle"]
  /\ size' = [size EXCEPT ![s] = 0]
  /\ buffer' = [buffer EXCEPT ![s] = <<>>]
  /\ mine' = [mine EXCEPT ![s] = <<>>]
  /\ shown' = [shown EXCEPT ![s] = <<>>]
  /\ intact' = [intact EXCEPT ![s] = FALSE]
  /\ UNCHANGED <<last_error, handle>>

Next ==
  \/ Close
  \/ \E s \in Starters :
       \/ StartFails(s) \/ StartSucceeds(s) \/ StartRefused(s)
       \/ AskSize(s) \/ AskText(s) \/ Raise(s)

Spec == Init /\ [][Next]_vars

-----------------------------------------------------------------------------
(* Properties *)

\* What a start reports: its own failure, unless another call changed the text
\* meanwhile; closing only counts as such until the text was copied.  However the
\* text changes between the two calls, what arrives is the text of the second
\* one, cut if it has grown, and the buffer keeps its size and its NUL.
TellsItsFailure ==
  \A s \in Starters : pc[s] = "told" =>
    /\ intact[s] => Value(buffer[s]) = mine[s]
    /\ Len(buffer[s]) = size[s] /\ buffer[s][size[s]] = NUL
    /\ Value(buffer[s]) = SubSeq(shown[s], 1, Min({Len(shown[s]), size[s] - 1}))
=============================================================================
