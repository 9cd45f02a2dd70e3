--------------------------- MODULE MCShieldedPool ---------------------------
(***************************************************************************)
(* Instances of ShieldedPool for TLC.                                      *)
(*                                                                         *)
(* Rivals: two deposits; s1 takes one note to one note and pays out, s2    *)
(* takes both notes, so the two compete for a nullifier, and puts a batch  *)
(* of two leaves into the tree.                                            *)
(*                                                                         *)
(* Chain: one deposit, spent by s1, whose output note is spent by s2.      *)
(***************************************************************************)
EXTENDS ShieldedPool, TLC

CONSTANTS d1, d2, o1, o2, o3, s1, s2, t1, t2

MCOutputs == [s \in Spends |-> IF s = s1 THEN <<o1>> ELSE <<o2, o3>>]
MCFee == [s \in Spends |-> 1]
MCPublicAmount == [s \in Spends |-> IF s = s1 THEN 2 ELSE 0]

RivalInputs == [s \in Spends |-> IF s = s1 THEN {d1} ELSE Deposits]
RivalAmount == [n \in Notes |-> CASE n = d1 -> 5 [] n = d2 -> 4 [] n = o1 -> 2
                                  [] n = o2 -> 6 [] n = o3 -> 2]

ChainInputs == [s \in Spends |-> IF s = s1 THEN {d1} ELSE {o1}]
ChainAmount == [n \in Notes |-> CASE n = d1 -> 8 [] n = d2 -> 4 [] n = o1 -> 5 [] n = o2 -> 3 [] n = o3 -> 1]

TaskSymmetry == Permutations(Tasks)
=============================================================================
