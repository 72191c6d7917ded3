------------------------ MODULE MCProcessContainment ------------------------
(* Small instances of ProcessContainment. *)
EXTENDS ProcessContainment, TLC

CONSTANTS c1, c2

TwoCallers == {c1, c2}
ThreePids  == 1..3
TwoPids    == 1..2
CallerSymmetry == Permutations(TwoCallers)
=============================================================================
