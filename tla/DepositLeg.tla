----------------------------- MODULE DepositLeg -----------------------------
(***************************************************************************)
(* What the token leg of one note commitment promises, without the calls,  *)
(* claims and receipts that bring it about: tokens move only while a       *)
(* record waits for them, a record waiting for nothing may be dropped, and *)
(* each pull that moved tokens yields one leaf and one credit.             *)
(***************************************************************************)
EXTENDS Naturals

VARIABLES
    state,    \* "None", "Waiting", "Confirmed", "Settled"
    paid,     \* the tokens of the current record have moved
    credits   \* leaves appended and deposits credited

vars == <<state, paid, credits>>

Init == state = "None" /\ paid = FALSE /\ credits = 0

Reserve == state = "None" /\ state' = "Waiting" /\ UNCHANGED <<paid, credits>>

(* The ledger moves the tokens, at most once for a record. *)
Pay == state = "Waiting" /\ ~paid /\ paid' = TRUE /\ UNCHANGED <<state, credits>>

Confirm == state = "Waiting" /\ paid /\ state' = "Confirmed" /\ UNCHANGED <<paid, credits>>

Drop == state = "Waiting" /\ ~paid /\ state' = "None" /\ UNCHANGED <<paid, credits>>

Settle == /\ state = "Confirmed" /\ state' = "Settled"
          /\ credits' = credits + 1
          /\ UNCHANGED paid

Next == Reserve \/ Pay \/ Confirm \/ Drop \/ Settle

Spec == Init /\ [][Next]_vars
=============================================================================
