--------------------------- MODULE MCTreasuryFlow ---------------------------
(***************************************************************************)
(* Instances of TreasuryFlow for TLC: two withdrawals, covered by the      *)
(* bucket one at a time or together, while a fee comes in.                 *)
(***************************************************************************)
EXTENDS TreasuryFlow

CONSTANTS p1, p2, h1, h2, e1

MCAmount == [p \in Proposals |-> 2]
MCShare == [e \in Earnings |-> 1]
=============================================================================
