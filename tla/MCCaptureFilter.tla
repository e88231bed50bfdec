-------------------------- MODULE MCCaptureFilter --------------------------
(***************************************************************************)
(* Finite instances of CaptureFilter for TLC.                              *)
(***************************************************************************)
EXTENDS CaptureFilter

CONSTANTS Numbers   \* the numbers filters may contain

Plain(t)  == [text |-> t, capitals |-> FALSE, value |-> 0, spaces |-> 1]
Number(n) == [text |-> "number", capitals |-> FALSE, value |-> n, spaces |-> 1]
Numbered  == {Number(n) : n \in Numbers}
Keyword   == {Plain(t) : t \in Protocols \cup {"port", "or"}}
Capitals  == {[w EXCEPT !.capitals = TRUE] : w \in Keyword}

\* Clauses, and what they may be joined to.
Clause ==
  {<<p>> : p \in Keyword \cup Capitals}
    \cup {<<p, Plain("port"), n>> : p \in {w \in Keyword \cup Capitals : w.text \in Protocols}, n \in Numbered}
Joined == Clause \cup {c \o <<Plain("or")>> \o d : c, d \in Clause}

\* Words in any order.
Jumbled == UNION {[1 .. n -> Keyword \cup Numbered] : n \in 0 .. 4}

\* Words at other distances than one space; a number may be right behind a
\* word, but not behind another number.
Spread(words) == {[w EXCEPT !.spaces = n] : w \in words, n \in 0 .. 2}
Spaced ==
  {<<a, b, c>> : a \in Keyword \cup Numbered, b, c \in Spread(Keyword) \cup Numbered}
    \cup {<<a, b, c>> : a \in Keyword, b \in Spread(Keyword), c \in Spread(Numbered)}

MCFilters == Joined \cup Jumbled \cup Spaced
MCPorts == {0, 1, 7, MaxPort}
=============================================================================
