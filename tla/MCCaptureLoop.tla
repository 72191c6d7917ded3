--------------------------- MODULE MCCaptureLoop ----------------------------
(* A child and one descendant under CaptureLoop. *)
EXTENDS CaptureLoop

CONSTANTS d, q

ChildAndOne == {d, q}

\* One byte on stdout, none on stderr: the tree can write one byte too many
\* to either.
TightLimits == [s \in Streams |-> IF s = "stdout" THEN 1 ELSE 0]
=============================================================================
