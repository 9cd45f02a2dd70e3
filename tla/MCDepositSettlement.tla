------------------------ MODULE MCDepositSettlement -------------------------
(***************************************************************************)
(* Instances of DepositSettlement for TLC: interchangeable update calls.   *)
(***************************************************************************)
EXTENDS DepositSettlement, TLC

CONSTANTS t1, t2, t3

TaskSymmetry == Permutations(Tasks)
=============================================================================
