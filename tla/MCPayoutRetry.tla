--------------------------- MODULE MCPayoutRetry ----------------------------
(***************************************************************************)
(* Instances of PayoutRetry for TLC: interchangeable calls and keys.       *)
(***************************************************************************)
EXTENDS PayoutRetry, TLC

CONSTANTS c1, c2, p1, p2, k1, k2

CallSymmetry == Permutations(Calls) \cup Permutations(Keys)
=============================================================================
