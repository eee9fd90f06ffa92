--------------------------- MODULE MCBurnMessage ---------------------------
(***************************************************************************)
(* Model values, symmetry and bounds for the runs of BurnMessage.          *)
(***************************************************************************)
EXTENDS BurnMessage, TLC

CONSTANTS ann, bob, cat, r1, r2, k1, k2, s1

RequestSymmetry == Permutations(Requests)
=============================================================================
