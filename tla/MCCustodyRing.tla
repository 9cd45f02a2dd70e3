---------------------------- MODULE MCCustodyRing ----------------------------
(***************************************************************************)
(* Instances of CustodyRing for TLC: the Vault reinstalls the module it    *)
(* runs, a recovery upgrade rolls it back, and the Upgrader is upgraded.   *)
(* The two upgrades of the Vault have the same id, each from the counter   *)
(* of its canister: alone, either can be reconciled by the members.        *)
(***************************************************************************)
EXTENDS CustodyRing

CONSTANTS v1, u1, t1, r1, q1, s1

MCId == [k \in Intents |-> 1]
MCWasm == [k \in Upgrades |-> IF k \in VaultUpgrades THEN "new" ELSE "old"]
MCFirstModule == [c \in Canisters |-> IF c = "vault" THEN "new" ELSE "first"]
=============================================================================
