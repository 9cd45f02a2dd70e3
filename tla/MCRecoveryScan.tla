-------------------------- MODULE MCRecoveryScan ----------------------------
(***************************************************************************)
(* Instances of RecoveryScan for TLC: spends that compete for one note.    *)
(***************************************************************************)
EXTENDS RecoveryScan

SharedNote == [s \in Spends |-> 1]
=============================================================================
