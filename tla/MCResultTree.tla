---------------------------- MODULE MCResultTree ----------------------------
(* A root and three results, so that a result can be reached along two ways  *)
(* and through two others.                                                   *)
EXTENDS ResultTree

CONSTANTS r1, r2, r3, r4

Four == {r1, r2, r3, r4}
TwoPriorities == {INFO, WARNING}

AnyResult == Permutations(Results)
=============================================================================
