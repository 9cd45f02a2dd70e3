----------------------------- MODULE PayoutLeg ------------------------------
(***************************************************************************)
(* What a public payout promises, without the executors, the frozen        *)
(* requests and the ledger's deduplication that bring it about: a payout   *)
(* owed is paid at most once, it is settled only after it was paid, and    *)
(* its fee is accrued with its settlement.  A payout is known by its memo  *)
(* sequence, which is never given out twice.                               *)
(***************************************************************************)
EXTENDS Naturals

CONSTANT Seqs   \* the memo sequences

VARIABLES
    state,    \* of each sequence: "free", "owed", "settled"
    paid,     \* transfers the ledger executed for it
    accrued   \* fee splits accrued for it

vars == <<state, paid, accrued>>

Init == /\ state = [s \in Seqs |-> "free"]
        /\ paid = [s \in Seqs |-> 0]
        /\ accrued = [s \in Seqs |-> 0]

Owe(s) == /\ state[s] = "free"
          /\ state' = [state EXCEPT ![s] = "owed"]
          /\ UNCHANGED <<paid, accrued>>

Pay(s) == /\ state[s] = "owed" /\ paid[s] = 0
          /\ paid' = [paid EXCEPT ![s] = 1]
          /\ UNCHANGED <<state, accrued>>

Settle(s) == /\ state[s] = "owed" /\ paid[s] = 1
             /\ state' = [state EXCEPT ![s] = "settled"]
             /\ accrued' = [accrued EXCEPT ![s] = 1]
             /\ UNCHANGED paid

Next == \E s \in Seqs : Owe(s) \/ Pay(s) \/ Settle(s)

Spec == Init /\ [][Next]_vars
=============================================================================
