---------------------------- MODULE TreasuryFlow ----------------------------
(***************************************************************************)
(* One reserve of the pool and the treasury bucket that mirrors it: fee    *)
(* revenue reported to the treasury (notify_treasury_fee and the flush of  *)
(* the accrual) and withdrawals disbursed by the pool (execute_withdrawal  *)
(* in the treasury, treasury_disburse in the pool, icrc1_transfer in the   *)
(* token).                                                                 *)
(*                                                                         *)
(* Buckets do not meet: admission, debits and credits are all per bucket,  *)
(* so one is modelled.  A proposal's timelock only delays it: here it may  *)
(* be executed at any time after it was proposed.  The operator says what  *)
(* she likes about an outcome, but only of a record whose call is gone, as *)
(* the comments on the reconciled states have it.                          *)
(***************************************************************************)
EXTENDS Integers, FiniteSetsExt

CONSTANTS
    Proposals,  \* withdrawal proposals of the bucket
    Calls,      \* treasury_disburse calls that may be under way at once
    Earnings,   \* fees earned, each with one share for the bucket
    Fees,       \* transfer fees the ledger may have
    None,       \* the absent value
    Amount,     \* amount of a proposal
    Share,      \* the bucket's share of a fee
    Opening,    \* reserve and bucket balance at the start
    OpeningFee, \* the ledger's fee at the start
    MaxFaults   \* bound: failures, traps and upgrades in one behaviour

VARIABLES
    proposal, rsv, balance,     \* treasury: PROPOSALS, INFLIGHT_RESERVATIONS, SUBACCOUNTS
    turn,                       \* treasury: the execute_withdrawal of each proposal
    rec, tomb, reserve,         \* pool: TREASURY_DISBURSEMENTS, tombstones, the reserve word
    call,                       \* pool: treasury_disburse calls from request to reply
    earned, accrual, notices,   \* pool: fees booked, accrued, and being reported
    gauge,                      \* pool: notification counters
    credited, lost,             \* fees the treasury credited; reports it never got
    fee, ledger, orphans,       \* token: its fee, executed requests, requests without caller
    stamps,                     \* created_at_time values given out, by proposal
    faults

treasury == <<proposal, rsv, balance, turn>>
disbursal == <<rec, tomb, reserve, call>>
income == <<earned, accrual, notices, gauge, credited, lost>>
token == <<fee, ledger, orphans>>
vars == <<treasury, disbursal, income, token, stamps, faults>>

Requests == [p : Proposals, fee : Fees, stamp : Nat]

Disbursements == [status : {"PendingValidation", "PendingTransfer", "TransportUnknown", "Executed"},
                  fee : Int \cup {None}, stamp : Int \cup {None}]
Verdicts == {"Executed", "NotExecuted"}

ASSUME TreasuryAssumption ==
    /\ IsFiniteSet(Proposals) /\ IsFiniteSet(Earnings)
    /\ Fees \subseteq Nat /\ None \notin Proposals \cup Calls \cup Int
    /\ None \notin Disbursements /\ None \notin Verdicts
    /\ Amount \in [Proposals -> Nat] /\ Share \in [Earnings -> Nat]
    /\ Opening \in Nat /\ OpeningFee \in Fees /\ MaxFaults \in Nat

Fault == faults < MaxFaults /\ faults' = faults + 1

FreeCall == [pc |-> "free", p |-> None, fee |-> None, awaited |-> FALSE,
             stamp |-> None, reply |-> None]
Request(h) == [p |-> call[h].p, fee |-> call[h].fee, stamp |-> call[h].stamp]

-----------------------------------------------------------------------------
(************************* The reports of fees *****************************)

SumOf(value, S) == MapThenSumSet(LAMBDA x : value[x], S)
Worth(S) == SumOf(Share, S)

Notify(S) ==
    /\ notices' = notices \cup {[fees |-> S, at |-> "sent", awaited |-> TRUE]}
    /\ gauge' = [gauge EXCEPT !.inFlight = @ + 1]

(* A fee that is reported at once (notify_treasury_fee).                   *)
EarnShieldFee(e) ==
    /\ e \notin earned
    /\ earned' = earned \cup {e} /\ reserve' = reserve + Share[e]
    /\ Notify({e})
    /\ UNCHANGED <<treasury, rec, tomb, call, accrual, credited, lost, token, stamps, faults>>

(* The fee of a private spend, which only accrues.                         *)
EarnSpendFee(e) ==
    /\ e \notin earned
    /\ earned' = earned \cup {e} /\ reserve' = reserve + Share[e]
    /\ accrual' = accrual \cup {e}
    /\ UNCHANGED <<treasury, rec, tomb, call, notices, gauge, credited, lost, token, stamps, faults>>

(* The timer drains the accrual and reports what it held; the row of an    *)
(* empty window is left out.                                               *)
FlushFeeAccrual ==
    /\ accrual # {}
    /\ accrual' = {}
    /\ Notify(accrual)
    /\ UNCHANGED <<treasury, disbursal, earned, credited, lost, token, stamps, faults>>

Advance(n, s) ==
    notices' = (notices \ {n}) \cup IF n.awaited THEN {[n EXCEPT !.at = s]} ELSE {}

ReceiveFeeSplit(n) ==
    /\ n \in notices /\ n.at = "sent"
    /\ balance' = balance + Worth(n.fees) /\ credited' = credited \cup n.fees
    /\ Advance(n, "ok")
    /\ UNCHANGED <<proposal, rsv, turn, disbursal, earned, accrual, gauge, lost, token, stamps, faults>>

(* The report does not arrive, or only its answer is lost.                 *)
NoticeFails(n) ==
    /\ n \in notices /\ Fault
    /\ \/ n.at = "sent" /\ lost' = lost \cup {n.fees}
       \/ n.at = "ok" /\ UNCHANGED lost
    /\ Advance(n, "failed")
    /\ UNCHANGED <<treasury, disbursal, earned, accrual, gauge, credited, token, stamps>>

NoticeReplyUncounted(n) ==
    /\ n \in notices /\ n.at \in {"ok", "failed"}
    /\ notices' = notices \ {n}
    /\ gauge' = [gauge EXCEPT !.inFlight = IF @ > 0 THEN @ - 1 ELSE 0]
    /\ UNCHANGED <<treasury, disbursal, earned, accrual, credited, lost, token, stamps, faults>>

NoticeReply(n) ==
    /\ n \in notices /\ n.at \in {"ok", "failed"}
    /\ notices' = notices \ {n}
    /\ gauge' = [gauge EXCEPT !.inFlight = IF @ > 0 THEN @ - 1 ELSE 0,
                              !.failures = IF n.at = "failed" THEN @ + 1 ELSE @]
    /\ UNCHANGED <<treasury, disbursal, earned, accrual, credited, lost, token, stamps, faults>>

(* An upgrade of the pool drops the callbacks of the reports under way.    *)
RestoreNotificationCounters ==
    /\ notices' = {[n EXCEPT !.awaited = FALSE] : n \in {m \in notices : m.at = "sent"}}
    /\ gauge' = [gauge EXCEPT !.inFlight = 0, !.dropped = @ + gauge.inFlight]

-----------------------------------------------------------------------------
(***************************** The treasury ********************************)

NoReservation == [status |-> "none", total |-> None]

Active(p) == rsv[p].status \in {"Reserved", "OutcomeUnknown", "RetryingUnknown"}
Settle(p, s) == rsv' = [rsv EXCEPT ![p].status = s]

IdleTurn == [pc |-> "idle", retry |-> FALSE, frozen |-> None, total |-> None, call |-> None]

Propose(p) ==
    /\ proposal[p] = "none" /\ balance >= Amount[p]
    /\ proposal' = [proposal EXCEPT ![p] = "Pending"]
    /\ UNCHANGED <<rsv, balance, turn, disbursal, income, token, stamps, faults>>

ExecuteUnreserved(p) ==
    /\ proposal[p] = "Pending"
    /\ rsv[p].status \in {"none", "Failed", "OutcomeUnknown"}
    /\ turn' = [turn EXCEPT ![p] = [IdleTurn EXCEPT !.pc = "fee"]]
    /\ UNCHANGED <<proposal, rsv, balance, disbursal, income, token, stamps, faults>>

(* Up to the await of icrc1_fee; a reservation of an earlier attempt keeps *)
(* its encumbrance.                                                        *)
Execute(p) ==
    /\ proposal[p] = "Pending"
    /\ rsv[p].status \in {"none", "Failed", "OutcomeUnknown"}
    /\ LET retry == rsv[p].status = "OutcomeUnknown"
       IN /\ Settle(p, IF retry THEN "RetryingUnknown" ELSE "Reserved")
          /\ turn' = [turn EXCEPT ![p] =
                [IdleTurn EXCEPT !.pc = "fee", !.retry = retry,
                                 !.frozen = IF retry THEN rsv[p].total ELSE None]]
    /\ UNCHANGED <<proposal, balance, disbursal, income, token, stamps, faults>>

LocalRefusal(p) ==
    /\ Settle(p, IF turn[p].retry THEN "OutcomeUnknown" ELSE "Failed")
    /\ turn' = [turn EXCEPT ![p] = IdleTurn]

FeeFails(p) ==
    /\ turn[p].pc = "fee" /\ Fault
    /\ LocalRefusal(p)
    /\ UNCHANGED <<proposal, balance, disbursal, income, token, stamps>>

LegacyBlockers(p) == {q \in Proposals \ {p} : Active(q) /\ rsv[q].total = None}
Encumbered(p) == SumOf([q \in Proposals |-> rsv[q].total],
                       {q \in Proposals \ {p} : Active(q) /\ rsv[q].total # None})

AdmittedAlone(p, total) == balance >= total

Admitted(p, total) == LegacyBlockers(p) = {} /\ balance >= total + Encumbered(p)

TotalDebit(p) == IF turn[p].frozen = None THEN Amount[p] + fee ELSE turn[p].frozen

(* From the fee's arrival to the call of the pool.                         *)
FeeReply(p) ==
    LET total == TotalDebit(p)
    IN /\ turn[p].pc = "fee"
       /\ \/ /\ Admitted(p, total)
             /\ \E h \in Calls : call[h].pc = "free"
             /\ LET h == CHOOSE k \in Calls : call[k].pc = "free"
                IN /\ call' = [call EXCEPT ![h] =
                         [pc |-> "sent", p |-> p, fee |-> total - Amount[p], awaited |-> TRUE,
                          stamp |-> None, reply |-> None]]
                   /\ turn' = [turn EXCEPT ![p].pc = "pool", ![p].total = total, ![p].call = h]
             /\ rsv' = [rsv EXCEPT ![p].total = total]
          \/ /\ ~Admitted(p, total)
             /\ LocalRefusal(p)
             /\ UNCHANGED call
       /\ UNCHANGED <<proposal, balance, rec, tomb, reserve, income, token, stamps, faults>>

(* claim_execution and the debit, or a settlement by the answer's class:   *)
(* an unknown retry keeps its reservation on every error but one.          *)
PoolReply(p) ==
    LET h == turn[p].call
        answer == call[h].reply
        debited == balance - turn[p].total
    IN /\ turn[p].pc = "pool" /\ call[h].pc = "replied"
       /\ \/ /\ answer = "executed"
             /\ Settle(p, "Executed")
             /\ proposal' = [proposal EXCEPT ![p] = "Executed"]
             /\ balance' = IF debited < 0 THEN 0 ELSE debited
          \/ /\ answer = "retired"
             /\ Settle(p, "RetiredNotExecuted")
             /\ UNCHANGED <<proposal, balance>>
          \/ /\ answer \in {"conflict", "failed"}
             /\ Settle(p, IF turn[p].retry THEN "OutcomeUnknown" ELSE "Failed")
             /\ UNCHANGED <<proposal, balance>>
          \/ /\ answer = "transport"
             /\ Settle(p, "OutcomeUnknown")
             /\ UNCHANGED <<proposal, balance>>
       /\ turn' = [turn EXCEPT ![p] = IdleTurn]
       /\ call' = [call EXCEPT ![h] = FreeCall]
       /\ UNCHANGED <<rec, tomb, reserve, income, token, stamps, faults>>

Reject(p) ==
    /\ proposal[p] = "Pending" /\ ~Active(p)
    /\ proposal' = [proposal EXCEPT ![p] = "Rejected"]
    /\ UNCHANGED <<rsv, balance, turn, disbursal, income, token, stamps, faults>>

(* post_upgrade sweeps the reservations of the turns that are gone.        *)
TreasuryUpgrade ==
    /\ Fault
    /\ rsv' = [p \in Proposals |->
          IF rsv[p].status \in {"Reserved", "RetryingUnknown"}
          THEN [rsv[p] EXCEPT !.status = "OutcomeUnknown"] ELSE rsv[p]]
    /\ turn' = [p \in Proposals |-> IdleTurn]
    /\ call' = [h \in Calls |-> IF call[h].pc = "replied" THEN FreeCall
                                ELSE [call[h] EXCEPT !.awaited = FALSE]]
    /\ UNCHANGED <<proposal, balance, rec, tomb, reserve, income, token, stamps>>

-----------------------------------------------------------------------------
(************************* The pool's disbursements ************************)

Total(p) == Amount[p] + rec[p].fee
Status(p) == IF rec[p] = None THEN "none" ELSE rec[p].status

Answered(h, r) ==
    call' = [call EXCEPT ![h] =
        IF call[h].awaited THEN [call[h] EXCEPT !.pc = "replied", !.reply = r] ELSE FreeCall]

SetStatus(p, s) == rec' = IF rec[p] = None THEN rec ELSE [rec EXCEPT ![p].status = s]
Remove(p) == rec' = [rec EXCEPT ![p] = None]

KnownByRecord(p) == rec[p] # None

(* claim_treasury_disbursement: the tombstone first, then the record.      *)
Known(p) == rec[p] # None \/ tomb[p] # None

PriorAnswer(p, f) ==
    IF tomb[p] # None THEN IF tomb[p] = "Executed" THEN "executed" ELSE "retired"
    ELSE IF rec[p].fee # f THEN "conflict"
    ELSE IF rec[p].status = "Executed" THEN "executed" ELSE "failed"

TreasuryDisburse(h) ==
    LET p == call[h].p
    IN /\ call[h].pc = "sent"
       /\ \/ /\ Known(p)
             /\ Answered(h, PriorAnswer(p, call[h].fee))
             /\ UNCHANGED rec
          \/ /\ ~Known(p)
             /\ rec' = [rec EXCEPT ![p] =
                    [status |-> "PendingValidation", fee |-> call[h].fee, stamp |-> None]]
             /\ call' = [call EXCEPT ![h].pc = "validation"]
       /\ UNCHANGED <<treasury, tomb, reserve, income, token, stamps, faults>>

(* The ledger's fee and the pool's balance have arrived: the debit, the    *)
(* status and the frozen identity in one segment, up to the transfer.      *)
Validated(h) ==
    LET p == call[h].p
        total == Amount[p] + call[h].fee
        valid == call[h].fee = fee /\ total <= reserve
    IN /\ call[h].pc = "validation"
       /\ \/ /\ valid
             /\ reserve' = reserve - total
             /\ stamps' = [stamps EXCEPT ![p] = @ + 1]
             /\ rec' = [rec EXCEPT ![p].status = "PendingTransfer", ![p].stamp = stamps[p] + 1]
             /\ call' = [call EXCEPT ![h].pc = "transfer", ![h].stamp = stamps[p] + 1]
          \/ /\ ~valid
             /\ Remove(p) /\ Answered(h, "failed")
             /\ UNCHANGED <<reserve, stamps>>
       /\ UNCHANGED <<treasury, tomb, income, token, faults>>

(* A query fails, or the pool's ledger balance does not cover the transfer.*)
ValidationFails(h) ==
    /\ call[h].pc = "validation" /\ Fault
    /\ Remove(call[h].p) /\ Answered(h, "failed")
    /\ UNCHANGED <<treasury, tomb, reserve, income, token, stamps>>

TransferReplyRestoring(h) ==
    LET p == call[h].p
    IN /\ call[h].pc = "answered"
       /\ \/ /\ call[h].reply = "settled"
             /\ SetStatus(p, "Executed") /\ Answered(h, "executed")
             /\ UNCHANGED reserve
          \/ /\ call[h].reply # "settled"
             /\ reserve' = reserve + Amount[p] + call[h].fee
             /\ SetStatus(p, "TransportUnknown") /\ Answered(h, "failed")
       /\ UNCHANGED <<treasury, tomb, income, token, stamps, faults>>

TransferReply(h) ==
    LET p == call[h].p
    IN /\ call[h].pc = "answered"
       /\ \/ /\ call[h].reply = "settled"
             /\ SetStatus(p, "Executed") /\ Answered(h, "executed")
             /\ UNCHANGED reserve
          \/ /\ call[h].reply \in {"window", "lost"}
             /\ SetStatus(p, "TransportUnknown") /\ Answered(h, "failed")
             /\ UNCHANGED reserve
          \/ /\ call[h].reply = "refused"
             /\ reserve' = reserve + Amount[p] + call[h].fee
             /\ Remove(p) /\ Answered(h, "failed")
       /\ UNCHANGED <<treasury, tomb, income, token, stamps, faults>>

(* A callback that traps undoes its segment and leaves the record.         *)
CallbackTraps(h) ==
    /\ call[h].pc \in {"validation", "answered"} /\ Fault
    /\ Answered(h, "transport")
    /\ UNCHANGED <<treasury, rec, tomb, reserve, income, token, stamps>>

ReconcileUnknownOnly(p, outcome) ==
    /\ Status(p) = "TransportUnknown"
    /\ tomb' = [tomb EXCEPT ![p] = IF tomb[p] = None THEN outcome ELSE tomb[p]]
    /\ \/ /\ outcome = "Executed"
          /\ SetStatus(p, "Executed")
          /\ UNCHANGED reserve
       \/ /\ outcome = "NotExecuted"
          /\ reserve' = reserve + Total(p)
          /\ Remove(p)
    /\ UNCHANGED <<treasury, call, income, token, stamps, faults>>

(* reconcile_treasury_disburse, once the record's call is gone.            *)
Reconcile(p, outcome) ==
    /\ \A h \in Calls : call[h].pc \in {"validation", "transfer", "answered"} => call[h].p # p
    /\ \/ /\ Status(p) = "PendingValidation" /\ outcome = "NotExecuted"
          /\ Remove(p)
          /\ UNCHANGED <<tomb, reserve>>
       \/ /\ Status(p) \in {"PendingTransfer", "TransportUnknown"}
          /\ tomb' = [tomb EXCEPT ![p] = IF tomb[p] = None THEN outcome ELSE tomb[p]]
          /\ \/ /\ outcome = "Executed"
                /\ SetStatus(p, "Executed")
                /\ UNCHANGED reserve
             \/ /\ outcome = "NotExecuted"
                /\ reserve' = reserve + Total(p)
                /\ Remove(p)
    /\ UNCHANGED <<treasury, call, income, token, stamps, faults>>

(* post_upgrade removes what was claimed and not debited; the other        *)
(* records wait for the operator, and requests under way are executed.     *)
PoolUpgrade ==
    /\ Fault
    /\ rec' = [p \in Proposals |-> IF Status(p) = "PendingValidation" THEN None ELSE rec[p]]
    /\ orphans' = orphans \cup {Request(h) : h \in {k \in Calls : call[k].pc = "transfer"}}
    /\ call' = [h \in Calls |->
          IF call[h].pc \notin {"validation", "transfer", "answered"} THEN call[h]
          ELSE IF call[h].awaited
          THEN [call[h] EXCEPT !.pc = "replied", !.reply = "transport"] ELSE FreeCall]
    /\ RestoreNotificationCounters
    /\ UNCHANGED <<treasury, tomb, reserve, earned, accrual, credited, lost, fee, ledger, stamps>>

-----------------------------------------------------------------------------
(************************** The token and the network **********************)

(* icrc1_transfer: the fee first, then the deduplication.                  *)
LedgerTransfer(h) ==
    /\ call[h].pc = "transfer"
    /\ IF call[h].fee # fee
       THEN /\ call' = [call EXCEPT ![h].pc = "answered", ![h].reply = "refused"]
            /\ UNCHANGED ledger
       ELSE /\ call' = [call EXCEPT ![h].pc = "answered", ![h].reply = "settled"]
            /\ ledger' = ledger \cup {Request(h)}
    /\ UNCHANGED <<treasury, rec, tomb, reserve, income, fee, orphans, stamps, faults>>

(* Refused for another reason, or outside the window of the ledger's time. *)
LedgerRefuses(h, answer) ==
    /\ call[h].pc = "transfer" /\ Fault
    /\ call' = [call EXCEPT ![h].pc = "answered", ![h].reply = answer]
    /\ UNCHANGED <<treasury, rec, tomb, reserve, income, token, stamps>>

(* A request whose caller was upgraded away.                               *)
LateTransfer(q) ==
    /\ q \in orphans
    /\ orphans' = orphans \ {q}
    /\ ledger' = IF q.fee = fee THEN ledger \cup {q} ELSE ledger
    /\ UNCHANGED <<treasury, disbursal, income, fee, stamps, faults>>

(* The ledger's fee is set anew, upwards so that it changes finitely often.*)
SetLedgerFee(f) ==
    /\ f > fee
    /\ fee' = f
    /\ UNCHANGED <<treasury, disbursal, income, ledger, orphans, stamps, faults>>

(* A call is not delivered, or its answer is lost.                         *)
CallFails(h) ==
    /\ Fault
    /\ \/ call[h].pc \in {"sent", "replied"} /\ Answered(h, "transport")
       \/ /\ call[h].pc \in {"transfer", "answered"}
          /\ call' = [call EXCEPT ![h].pc = "answered", ![h].reply = "lost"]
    /\ UNCHANGED <<treasury, rec, tomb, reserve, income, token, stamps>>

-----------------------------------------------------------------------------
Init ==
    /\ proposal = [p \in Proposals |-> "none"] /\ rsv = [p \in Proposals |-> NoReservation]
    /\ balance = Opening /\ turn = [p \in Proposals |-> IdleTurn]
    /\ rec = [p \in Proposals |-> None] /\ tomb = [p \in Proposals |-> None]
    /\ reserve = Opening /\ call = [h \in Calls |-> FreeCall]
    /\ earned = {} /\ accrual = {} /\ notices = {} /\ credited = {} /\ lost = {}
    /\ gauge = [inFlight |-> 0, failures |-> 0, dropped |-> 0]
    /\ fee = OpeningFee /\ ledger = {} /\ orphans = {}
    /\ stamps = [p \in Proposals |-> 0] /\ faults = 0

TreasuryStep(p) == Propose(p) \/ Execute(p) \/ FeeFails(p) \/ FeeReply(p) \/ PoolReply(p) \/ Reject(p)
PoolStep(h) ==
    \/ TreasuryDisburse(h) \/ Validated(h) \/ ValidationFails(h)
    \/ TransferReply(h) \/ CallbackTraps(h)
TokenStep(h) ==
    \/ LedgerTransfer(h) \/ LedgerRefuses(h, "refused") \/ LedgerRefuses(h, "window")
    \/ CallFails(h)
Decide(p) == Reconcile(p, "Executed") \/ Reconcile(p, "NotExecuted")
FeeStep ==
    \/ \E e \in Earnings : EarnShieldFee(e) \/ EarnSpendFee(e)
    \/ FlushFeeAccrual
    \/ \E n \in notices : ReceiveFeeSplit(n) \/ NoticeFails(n) \/ NoticeReply(n)

Next ==
    \/ \E p \in Proposals : TreasuryStep(p) \/ Decide(p)
    \/ \E h \in Calls : PoolStep(h) \/ TokenStep(h)
    \/ FeeStep
    \/ \E q \in orphans : LateTransfer(q)
    \/ \E f \in Fees : SetLedgerFee(f)
    \/ TreasuryUpgrade \/ PoolUpgrade

Spec == Init /\ [][Next]_vars

(* Requests are delivered and answered, the controller executes what is    *)
(* pending again and again, and the operator decides what rests.           *)
CallProceeds(h) ==
    TreasuryDisburse(h) \/ Validated(h) \/ LedgerTransfer(h) \/ TransferReply(h)

LiveSpec ==
    /\ Spec
    /\ \A h \in Calls : WF_vars(CallProceeds(h))
    /\ \A p \in Proposals : /\ WF_vars(FeeReply(p) \/ PoolReply(p))
                            /\ SF_vars(Execute(p)) /\ SF_vars(Decide(p))

-----------------------------------------------------------------------------
Statuses == {"none", "Reserved", "OutcomeUnknown", "RetryingUnknown", "Executed", "Failed",
             "RetiredNotExecuted"}
Totals(p) == {Amount[p] + f : f \in Fees} \cup {None}

TypeOK ==
    /\ proposal \in [Proposals -> {"none", "Pending", "Executed", "Rejected"}]
    /\ \A p \in Proposals : /\ rsv[p].status \in Statuses /\ rsv[p].total \in Totals(p)
                            /\ turn[p].pc \in {"idle", "fee", "pool"} /\ turn[p].total \in Totals(p)
                            /\ turn[p].pc # "idle" => rsv[p].status = IF turn[p].retry THEN "RetryingUnknown" ELSE "Reserved"
                            /\ rec[p] \in Disbursements \cup {None}
                            /\ tomb[p] \in Verdicts \cup {None}
                            /\ stamps[p] \in Nat
    /\ balance \in Nat /\ reserve \in Nat
    /\ ledger \subseteq Requests /\ orphans \subseteq Requests

(* However often a withdrawal is executed, retried after unknown outcomes, *)
(* or declared not executed by an operator who is wrong, the ledger pays   *)
(* it at most once.                                                        *)
PaidAtMostOnce == \A q1, q2 \in ledger : q1.p = q2.p => q1 = q2

Paid(p) == \E q \in ledger : q.p = p

DebitHeld(p) == Status(p) \in {"PendingTransfer", "TransportUnknown", "Executed"}
Held == {p \in Proposals : DebitHeld(p)}
Owed == {p \in Held : proposal[p] # "Executed"}
Debits(S) == SumOf([p \in S |-> Total(p)], S)

(* treasury_disburse takes amount and fee from the reserve once for every  *)
(* disbursement that may have been paid, and gives them back exactly once  *)
(* for one that is forgotten; only an operator's word lets a paid one go.  *)
ReserveDebitedOnce ==
    /\ reserve = Opening + Worth(earned) - Debits(Held)
    /\ \A p \in Proposals : Paid(p) => DebitHeld(p) \/ tomb[p] = "NotExecuted"

(* As long as no operator had to decide, the treasury's bucket and the     *)
(* pool's reserve differ by exactly what is on its way: disbursements the  *)
(* treasury has not debited yet and fees it has not been told of.  A       *)
(* debit the bucket cannot cover, a fee reported twice or a withdrawal     *)
(* debited twice breaks it for good.                                       *)
MirrorExact ==
    (\A p \in Proposals : tomb[p] = None) =>
        reserve + Debits(Owed) = balance + Worth(earned \ credited)

(* A report that never arrives is not sent again; the counters show it.    *)
LossIsVisible ==
    Cardinality(lost) <= gauge.failures + gauge.dropped
                         + Cardinality({n \in notices : n.at = "failed"})

(* The treasury's comment on its last error arm: on a fresh attempt any    *)
(* other error of the pool means that the disbursement did not happen.     *)
RefusedIsUnpaid == \A p \in Proposals : rsv[p].status = "Failed" => ~Paid(p)

(* A withdrawal whose outcome is unknown is resolved by retries and the    *)
(* operator's decisions.                                                   *)
WithdrawalResolves == \A p \in Proposals : Active(p) ~> ~Active(p)

(* The ways in which a retry is refused for ever: the bucket does not      *)
(* cover it, another reservation without a recorded total blocks it, or    *)
(* the pool knows nothing of it and its frozen fee is no longer the        *)
(* ledger's, or the reserve, debited for others, does not cover it.        *)
Refused(p) ==
    LET total == IF rsv[p].total = None THEN Amount[p] + fee ELSE rsv[p].total
    IN \/ ~Admitted(p, total)
       \/ ~Known(p) /\ (total # Amount[p] + fee \/ total > reserve)

WithdrawalResolvesOrIsRefused ==
    \A p \in Proposals : Active(p) ~> (~Active(p) \/ Refused(p))
=============================================================================
