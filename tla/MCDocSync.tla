----------------------------- MODULE MCDocSync ------------------------------
(* DocSync for TLC: two documents, so that one of a batch can be rejected   *)
(* and the other not.                                                       *)
EXTENDS DocSync, TLC

CONSTANTS a, b

TwoPaths == {1, 2}
TwoContents == {a, b}
AlwaysWait == {TRUE}
AnyWait == BOOLEAN

Symmetry == Permutations(TwoContents)
=============================================================================
