--------------------------- MODULE MCCaptureTask ---------------------------
(* Instances of CaptureTask for TLC. *)
EXTENDS CaptureTask, TLC

CONSTANTS p1, p2, stale

OnePart == {p1}
TwoParts == {p1, p2}

\* No definition tells one partition from the other.
PartSymmetry == Permutations(TwoParts)
=============================================================================
