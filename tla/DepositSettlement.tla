------------------------- MODULE DepositSettlement --------------------------
(***************************************************************************)
(* The token leg of one note commitment: shield_deposit's pull, and        *)
(* settle_deposit_transfer, which anybody may call on a record whose pull  *)
(* was never answered.  ShieldedPool takes the latter as one step; here    *)
(* are its settlement claim, its three awaits on the token canister        *)
(* (receipt, byte-identical pull, fence) and the credit that follows.      *)
(*                                                                         *)
(* An operation is one life of the record: shield_deposit draws a fresh    *)
(* nonce, so the token's receipts of two operations never meet.  Time is   *)
(* the three deadlines the code compares it with: SETTLEMENT_MIN_AGE_NS,   *)
(* SETTLE_CLAIM_TTL_NS and the token's TX_DEDUP_WINDOW_NS.                 *)
(***************************************************************************)
EXTENDS Integers, FiniteSets

CONSTANTS
    Tasks,         \* update calls that may be under execution at once
    MaxOps,        \* bound: operations on the commitment
    MaxFaults,     \* bound: failed calls and upgrades in one behaviour
    LateSettlement \* may a settlement still wait when its claim's TTL lapses?

ASSUME SettlementAssumption ==
    /\ MaxOps \in Nat /\ MaxFaults \in Nat
    /\ LateSettlement \in BOOLEAN

VARIABLES
    status,    \* the status of the PendingDeposit; "Absent" without a record
    op,        \* operation of the record, or the last one
    old,       \* the record is past SETTLEMENT_MIN_AGE_NS
    claim,     \* the sidecar's claim: "none", "held", or past its TTL: "stale"
    lease,     \* the pool-wide append lease is held
    credits,   \* leaves appended and credits given for the commitment
    receipt,   \* external: DEPOSIT_RECEIPTS of the token canister
    window,    \* external: operations within TX_DEDUP_WINDOW_NS
    task,      \* the calls under execution
    orphans,   \* requests under way whose callback an upgrade dropped
    faults     \* failed calls and upgrades so far

record == <<status, op, old>>
token == <<receipt, window>>
vars == <<record, claim, lease, credits, token, task, orphans, faults>>

Ops == 1..MaxOps
Statuses == {"Absent", "TransferPending", "TransferConfirmedCommitmentPending",
             "CommitmentAppendInFlight", "CommitmentAppended"}
SettlementAwaits == {"receipt", "resubmit", "fence"}
AppendAwaits == {"snapshot", "append"}
IdleTask == [pc |-> "idle", op |-> 0, reply |-> "none"]

(* The replies each await can get. *)
TaskType ==
    {IdleTask}
    \cup [pc : {"transfer", "resubmit"}, op : Ops, reply : {"none", "Applied", "Rejected", "Unclear"}]
    \cup [pc : {"receipt"}, op : Ops, reply : {"none", "Applied", "Cancelled", "Unrecorded"}]
    \cup [pc : {"fence"}, op : Ops, reply : {"none", "Applied", "Cancelled"}]
    \cup [pc : AppendAwaits, op : Ops, reply : {"none"}]

At(t, pc) == task[t].pc = pc
Reply(t, r) == task' = [task EXCEPT ![t].reply = r]
Finish(t) == task' = [task EXCEPT ![t] = IdleTask]
Await(t, pc, o) == task' = [task EXCEPT ![t] = [pc |-> pc, op |-> o, reply |-> "none"]]
Fault == faults < MaxFaults /\ faults' = faults + 1

(* The lease comes first; without it the call returns its error. *)
SnapshotClaimAndAppend(t) ==
    IF lease THEN Finish(t) /\ UNCHANGED lease
             ELSE Await(t, "snapshot", op) /\ lease' = TRUE

-----------------------------------------------------------------------------
(* The token canister.  Nothing is assumed of the order in which requests  *)
(* under way are executed: the fence is what makes a late pull harmless.   *)

(* icrc2_transfer_from for operation o, with the reply it gives.  The      *)
(* frozen fee may have become a BadFee and the allowance may be gone.      *)
TransferFrom(o, r) ==
    \/ /\ r = "Rejected" /\ UNCHANGED token
    \/ /\ o \in window /\ receipt[o] = "Applied"      \* Duplicate
       /\ r = "Applied" /\ UNCHANGED token
    \/ /\ o \in window /\ receipt[o] = "Cancelled"    \* the fence: GenericError
       /\ r = "Unclear" /\ UNCHANGED token
    \/ /\ o \in window /\ receipt[o] = "None"
       /\ r = "Applied"
       /\ receipt' = [receipt EXCEPT ![o] = "Applied"]
       /\ UNCHANGED window

TokenTransferFrom(t) ==
    /\ At(t, "transfer") /\ task[t].reply = "none"
    /\ \E r \in {"Applied", "Rejected", "Unclear"} : TransferFrom(task[t].op, r) /\ Reply(t, r)
    /\ UNCHANGED <<record, claim, lease, credits, orphans, faults>>

TokenResubmit(t) ==
    /\ At(t, "resubmit") /\ task[t].reply = "none"
    /\ \E r \in {"Applied", "Rejected", "Unclear"} : TransferFrom(task[t].op, r) /\ Reply(t, r)
    /\ UNCHANGED <<record, claim, lease, credits, orphans, faults>>

(* A transient refusal, or a full receipt map: nothing moved. *)
TokenUnavailable(t) ==
    /\ At(t, "resubmit") /\ task[t].reply = "none" /\ Fault
    /\ Reply(t, "Unclear")
    /\ UNCHANGED <<record, claim, lease, credits, token, orphans>>

(* get_deposit_receipt *)
TokenGetReceipt(t) ==
    /\ At(t, "receipt") /\ task[t].reply = "none"
    /\ Reply(t, IF receipt[task[t].op] = "None" THEN "Unrecorded" ELSE receipt[task[t].op])
    /\ UNCHANGED <<record, claim, lease, credits, token, orphans, faults>>

(* Faulty variant: the fence is promised, not written. *)
FenceNotWritten(o) == receipt

(* close_deposit_attempt: whichever of transfer and close comes first wins. *)
Fenced(o) == [receipt EXCEPT ![o] = IF @ = "None" THEN "Cancelled" ELSE @]

TokenClose(t) ==
    /\ At(t, "fence") /\ task[t].reply = "none"
    /\ receipt' = Fenced(task[t].op)
    /\ Reply(t, receipt'[task[t].op])
    /\ UNCHANGED <<record, claim, lease, credits, window, orphans, faults>>

(* 24 hours pass: the token answers TooOld to a resubmission. *)
WindowCloses(o) ==
    /\ o \in window
    /\ op = o => old
    /\ window' = window \ {o}
    /\ UNCHANGED <<record, claim, lease, credits, receipt, task, orphans, faults>>

-----------------------------------------------------------------------------
(* shield_deposit *)

ShieldDeposit(t) ==
    /\ At(t, "idle") /\ status = "Absent" /\ op < MaxOps
    /\ status' = "TransferPending" /\ op' = op + 1 /\ old' = FALSE
    /\ claim' = "none"
    /\ window' = window \cup {op'}
    /\ Await(t, "transfer", op')
    /\ UNCHANGED <<lease, credits, receipt, orphans, faults>>

(* Ok or Duplicate: the record is written back whole, whatever is there.   *)
ShieldConfirmed(t) ==
    /\ At(t, "transfer") /\ task[t].reply = "Applied"
    /\ status' = "TransferConfirmedCommitmentPending" /\ op' = task[t].op
    /\ SnapshotClaimAndAppend(t)
    /\ UNCHANGED <<old, claim, credits, token, orphans, faults>>

(* Any other answer of the ledger: the record and its sidecar are removed. *)
ShieldRefused(t) ==
    /\ At(t, "transfer") /\ task[t].reply \in {"Rejected", "Unclear"}
    /\ status' = "Absent" /\ claim' = "none"
    /\ Finish(t)
    /\ UNCHANGED <<op, old, lease, credits, token, orphans, faults>>

(* Faulty variant: a call that failed in transport removes the record. *)
CallForgets(t) ==
    /\ task[t].pc \in {"transfer"} \cup SettlementAwaits /\ Fault
    /\ status' = "Absent" /\ claim' = "none"
    /\ Finish(t)
    /\ UNCHANGED <<op, old, lease, credits, token, orphans>>

(* A call to the token that failed in transport, executed or not: the      *)
(* record stays TransferPending, a settlement releases its claim.          *)
CallFails(t) ==
    /\ task[t].pc \in {"transfer"} \cup SettlementAwaits /\ Fault
    /\ claim' = IF At(t, "transfer") THEN claim ELSE "none"
    /\ Finish(t)
    /\ UNCHANGED <<record, lease, credits, token, orphans>>

-----------------------------------------------------------------------------
(* settle_deposit_transfer *)

(* Faulty variants: no claim is honoured, and the age gate is missing.     *)
SettleIgnoringClaim(t) ==
    /\ At(t, "idle") /\ status = "TransferPending" /\ old
    /\ claim' = "held"
    /\ Await(t, "receipt", op)
    /\ UNCHANGED <<record, lease, credits, token, orphans, faults>>

SettleAtAnyAge(t) ==
    /\ At(t, "idle") /\ status = "TransferPending"
    /\ claim # "held"
    /\ claim' = "held"
    /\ Await(t, "receipt", op)
    /\ UNCHANGED <<record, lease, credits, token, orphans, faults>>

(* G4, G6 and G7, then the receipt.  A stale claim is taken over; its      *)
(* generation is bumped, but nothing below ever compares it.               *)
SettleDepositTransfer(t) ==
    /\ At(t, "idle") /\ status = "TransferPending" /\ old
    /\ claim # "held"
    /\ claim' = "held"
    /\ Await(t, "receipt", op)
    /\ UNCHANGED <<record, lease, credits, token, orphans, faults>>

Resubmit(t) ==
    /\ At(t, "receipt") /\ task[t].reply = "Unrecorded"
    /\ Await(t, "resubmit", task[t].op)
    /\ UNCHANGED <<record, claim, lease, credits, token, orphans, faults>>

(* A definite rejection proves that the pull cannot execute now, no more.  *)
AskFence(t) ==
    /\ At(t, "resubmit") /\ task[t].reply = "Rejected"
    /\ Await(t, "fence", task[t].op)
    /\ UNCHANGED <<record, claim, lease, credits, token, orphans, faults>>

(* The ledger's answer decides nothing: release the claim, keep the record. *)
Undecided(t) ==
    /\ At(t, "resubmit") /\ task[t].reply = "Unclear"
    /\ claim' = "none"
    /\ Finish(t)
    /\ UNCHANGED <<record, lease, credits, token, orphans, faults>>

(* settle_credit: whatever record is there now is confirmed. *)
SettleCredit(t) ==
    /\ task[t].pc \in SettlementAwaits /\ task[t].reply = "Applied"
    /\ status' = IF status = "Absent" THEN status ELSE "TransferConfirmedCommitmentPending"
    /\ claim' = "none"
    /\ SnapshotClaimAndAppend(t)
    /\ UNCHANGED <<op, old, credits, token, orphans, faults>>

(* Faulty variant: a definite rejection closes the record without a fence. *)
CloseOnRejection(t) ==
    /\ \/ task[t].pc \in {"receipt", "fence"} /\ task[t].reply = "Cancelled"
       \/ At(t, "resubmit") /\ task[t].reply = "Rejected"
    /\ status' = "Absent" /\ claim' = "none"
    /\ Finish(t)
    /\ UNCHANGED <<op, old, lease, credits, token, orphans, faults>>

(* settle_close, on the fence only. *)
SettleClose(t) ==
    /\ task[t].pc \in {"receipt", "fence"} /\ task[t].reply = "Cancelled"
    /\ status' = "Absent" /\ claim' = "none"
    /\ Finish(t)
    /\ UNCHANGED <<op, old, lease, credits, token, orphans, faults>>

-----------------------------------------------------------------------------
(* The append, as far as it matters here: ShieldedPool has its details.    *)

RetryDepositCommitment(t) ==
    /\ At(t, "idle") /\ status = "TransferConfirmedCommitmentPending"
    /\ SnapshotClaimAndAppend(t)
    /\ UNCHANGED <<record, claim, credits, token, orphans, faults>>

(* claim_deposit_append, on the snapshot. *)
ClaimDepositAppend(t) ==
    /\ At(t, "snapshot")
    /\ IF status = "TransferConfirmedCommitmentPending"
       THEN /\ status' = "CommitmentAppendInFlight"
            /\ Await(t, "append", op)
            /\ UNCHANGED lease
       ELSE /\ lease' = FALSE
            /\ Finish(t)
            /\ UNCHANGED status
    /\ UNCHANGED <<op, old, claim, credits, token, orphans, faults>>

AppendDone(t) ==
    /\ At(t, "append")
    /\ status' = "CommitmentAppended" /\ op' = task[t].op
    /\ credits' = credits + 1
    /\ lease' = FALSE
    /\ Finish(t)
    /\ UNCHANGED <<old, claim, token, orphans, faults>>

(* Faulty variant: the error path keeps the lease. *)
AppendRejectedKeepingLease(t) ==
    /\ At(t, "append") /\ Fault
    /\ status' = "TransferConfirmedCommitmentPending"
    /\ Finish(t)
    /\ UNCHANGED <<op, old, claim, lease, credits, token, orphans>>

AppendRejected(t) ==
    /\ At(t, "append") /\ Fault
    /\ status' = "TransferConfirmedCommitmentPending"
    /\ lease' = FALSE
    /\ Finish(t)
    /\ UNCHANGED <<op, old, claim, credits, token, orphans>>

-----------------------------------------------------------------------------
(* Time, and upgrades of the pool. *)

(* SETTLEMENT_MIN_AGE_NS exceeds what shield_deposit waits for its pull.   *)
RecordAges ==
    /\ status = "TransferPending" /\ ~old
    /\ \A t \in Tasks : ~At(t, "transfer")
    /\ old' = TRUE
    /\ UNCHANGED <<status, op, claim, lease, credits, token, task, orphans, faults>>

(* SETTLE_CLAIM_TTL_NS passes: after an upgrade dropped the holder's call, *)
(* or, with LateSettlement, while the holder still waits.                  *)
ClaimExpires ==
    /\ claim = "held"
    /\ LateSettlement \/ \A t \in Tasks : task[t].pc \notin SettlementAwaits
    /\ claim' = "stale"
    /\ UNCHANGED <<record, lease, credits, token, task, orphans, faults>>

(* Callbacks are dropped, requests stay under way.  An append under way is *)
(* taken here for one the reconciliation finds not to have happened.       *)
Upgrade ==
    /\ Fault
    /\ status' = IF status = "CommitmentAppendInFlight"
                 THEN "TransferConfirmedCommitmentPending" ELSE status
    /\ orphans' = orphans \cup
          {[pc |-> task[t].pc, op |-> task[t].op] :
              t \in {u \in Tasks : task[u].pc \in {"transfer", "resubmit", "fence"}
                                   /\ task[u].reply = "none"}}
    /\ task' = [t \in Tasks |-> IdleTask]
    /\ lease' = FALSE
    /\ UNCHANGED <<op, old, claim, credits, token>>

DeliverOrphan(o) ==
    /\ orphans' = orphans \ {o}
    /\ IF o.pc = "fence"
       THEN receipt' = Fenced(o.op) /\ UNCHANGED window
       ELSE \E r \in {"Applied", "Rejected", "Unclear"} : TransferFrom(o.op, r)
    /\ UNCHANGED <<record, claim, lease, credits, task, faults>>

-----------------------------------------------------------------------------
Init ==
    /\ status = "Absent" /\ op = 0 /\ old = FALSE
    /\ claim = "none" /\ lease = FALSE /\ credits = 0
    /\ receipt = [o \in Ops |-> "None"] /\ window = {}
    /\ task = [t \in Tasks |-> IdleTask]
    /\ orphans = {} /\ faults = 0

CallStep(t) ==
    \/ TokenTransferFrom(t) \/ ShieldConfirmed(t) \/ ShieldRefused(t)
    \/ TokenGetReceipt(t) \/ TokenResubmit(t) \/ TokenClose(t)
    \/ Resubmit(t) \/ AskFence(t) \/ Undecided(t) \/ SettleCredit(t) \/ SettleClose(t)
    \/ ClaimDepositAppend(t) \/ AppendDone(t)

Settle == \E t \in Tasks : SettleDepositTransfer(t)
Retry == \E t \in Tasks : RetryDepositCommitment(t)

Next ==
    \/ \E t \in Tasks :
          ShieldDeposit(t) \/ CallStep(t) \/ CallFails(t) \/ TokenUnavailable(t)
          \/ AppendRejected(t)
    \/ Settle \/ Retry
    \/ RecordAges \/ ClaimExpires
    \/ \E o \in Ops : WindowCloses(o)
    \/ Upgrade
    \/ \E o \in orphans : DeliverOrphan(o)

Spec == Init /\ [][Next]_vars

(* Replies come, requests under way are executed, time passes, and         *)
(* somebody calls the two open endpoints until they have no more to do.    *)
LiveSpec ==
    /\ Spec
    /\ \A t \in Tasks : WF_vars(CallStep(t))
    /\ WF_vars(\E o \in orphans : DeliverOrphan(o))
    /\ WF_vars(RecordAges) /\ WF_vars(ClaimExpires)
    /\ SF_vars(Settle) /\ SF_vars(Retry)

-----------------------------------------------------------------------------
TypeOK ==
    /\ status \in Statuses /\ op \in 0..MaxOps /\ old \in BOOLEAN
    /\ claim \in {"none", "held", "stale"} /\ lease \in BOOLEAN /\ credits \in Nat
    /\ receipt \in [Ops -> {"None", "Applied", "Cancelled"}] /\ window \subseteq Ops
    /\ task \in [Tasks -> TaskType]
    /\ orphans \subseteq [pc : {"transfer", "resubmit", "fence"}, op : Ops]
    /\ faults \in 0..MaxFaults

Pulled == {o \in Ops : receipt[o] = "Applied"}

(* Tokens the ledger has moved are never without the record they were      *)
(* moved for: settle_close, a refused pull and the next shield_deposit of  *)
(* the commitment drop only an operation that can never execute.           *)
PulledHasRecord == \A o \in Pulled : op = o /\ status # "Absent"

(* The comment on SETTLE_CLAIM_TTL_NS: a takeover is safe, double-append   *)
(* is prevented by claim_deposit_append, and a late continuation cannot    *)
(* overwrite the newer state.  No pull is credited twice.                  *)
CreditedOncePerPull == credits <= Cardinality(Pulled)

(* A settled record is never put back, and a fenced pull never executes.   *)
DecisionsAreFinal ==
    [][/\ status = "CommitmentAppended" => status' = status
       /\ \A o \in Ops : receipt[o] # "None" => receipt'[o] = receipt[o]]_vars

(* The calls, the claim, the receipts and the fence implement the leg that *)
(* ShieldedPool and DepositLeg describe without them.                      *)
LegState ==
    CASE status = "Absent" -> "None"
      [] status = "TransferPending" -> "Waiting"
      [] status = "CommitmentAppended" -> "Settled"
      [] OTHER -> "Confirmed"

Leg == INSTANCE DepositLeg WITH
          state <- LegState, paid <- Pulled # {}, credits <- credits

ImplementsDepositLeg == Leg!Spec

(* Tokens that moved become a note: an unanswered pull is decided by       *)
(* evidence, whoever held the claim on it.                                 *)
PulledBecomesNote == Pulled # {} ~> status = "CommitmentAppended"
=============================================================================
