-------------------------- MODULE MCNativeCapture --------------------------
(***************************************************************************)
(* Finite instances of NativeCapture for TLC.                              *)
(***************************************************************************)
EXTENDS NativeRefinement, TLC

CONSTANTS r1, r2, w1, w2

\* A start with the payload-only policy, with a zero capacity, and with a
\* structure of the wrong size.
MCConfigs ==
  { [wellSized |-> TRUE,  capacity |-> 1, includeEmpty |-> FALSE],
    [wellSized |-> TRUE,  capacity |-> 0, includeEmpty |-> TRUE],
    [wellSized |-> FALSE, capacity |-> 1, includeEmpty |-> FALSE] }
MCOneConfig == { [wellSized |-> TRUE, capacity |-> 2, includeEmpty |-> TRUE] }

\* Descriptors by the outcomes of their attempts: a slice that does not parse, or
\* is refused in payload-only mode, with a whole buffer that parses or does not.
MCDescriptors == { <<"unparsed">>, <<"empty", "data">> }
MCOneDescriptor == { <<"data">> }

Symmetry == Permutations(Readers) \cup Permutations(Workers)
=============================================================================
