---------------------------- MODULE ShieldedPool ----------------------------
(***************************************************************************)
(* The note life cycle of the shielded-pool canister: deposits and private *)
(* spends that share one append lease on the Merkle tree, one nullifier    *)
(* registry and one pair of accounting words.                              *)
(*                                                                         *)
(* A canister runs one await-free message segment at a time, so one action *)
(* here is one segment: it starts at an ingress message or at a callback   *)
(* and ends at the next await or at the end of the call.  A task is one    *)
(* update call under execution; its pc names the await it rests at.  What  *)
(* the called canister does with the request is a step of its own, so a    *)
(* reply may be stale when the callback runs.  An upgrade drops every      *)
(* callback but not the requests already sent.                             *)
(*                                                                         *)
(* A note is its commitment; its nullifier is identified with it, and the  *)
(* root of the tree with n leaves is identified with n (the tree only      *)
(* grows, and the hash is taken to be collision-free).                     *)
(***************************************************************************)
EXTENDS Integers, Sequences, FiniteSets, FiniteSetsExt

CONSTANTS
    Deposits,      \* deposits, each named by its note commitment
    Spends,        \* private spends, by spend_id
    Tasks,         \* update calls that may be under execution at once
    NoRecord,      \* no record: an idle task, a free lease, a fresh nullifier
    Inputs,        \* Inputs[s]: the notes whose nullifiers spend s reveals
    Outputs,       \* Outputs[s]: the output commitments of s, in order
    Amount,        \* Amount[n]: the value of note n
    Fee,           \* Fee[s]: the protocol fee of s
    PublicAmount,  \* PublicAmount[s]: what s pays out; 0 without a payout
    MaxLeaves,     \* capacity of the tree
    MaxFaults,     \* bound: failed calls and upgrades in one behaviour
    MaxEpoch,      \* bound: security epochs after the first
    MaxRetryGen    \* bound: no retry of an append after that many leases

Records == Deposits \cup Spends
OutputsOf(s) == {Outputs[s][i] : i \in DOMAIN Outputs[s]}
Notes == Deposits \cup UNION {OutputsOf(s) : s \in Spends}
Debit(s) == Fee[s] + PublicAmount[s]

(* What the pool sends to the tree for a record: one leaf or one batch. *)
Items(r) == IF r \in Deposits THEN <<r>> ELSE Outputs[r]

Total(value, S) == MapThenSumSet(LAMBDA x : value[x], S)

ASSUME RecordAssumption ==
    /\ Deposits \cap Spends = {}
    /\ NoRecord \notin Records \cup Notes

ASSUME DataAssumption ==
    /\ Inputs \in [Spends -> SUBSET Notes]
    /\ Outputs \in [Spends -> Seq(Notes)]
    /\ \A s \in Spends : Inputs[s] # {} /\ Outputs[s] # <<>>
    /\ Amount \in [Notes -> Nat]
    /\ Fee \in [Spends -> Nat] /\ PublicAmount \in [Spends -> Nat]
    /\ MaxLeaves \in Nat /\ MaxFaults \in Nat /\ MaxEpoch \in Nat
    /\ MaxRetryGen \in Nat

(* Commitments, nullifiers and spend ids are 32-byte strings: there are     *)
(* finitely many of each, however many that is.                            *)
ASSUME FinitenessAssumption ==
    IsFiniteSet(Deposits) /\ IsFiniteSet(Spends) /\ IsFiniteSet(Notes)

(* What the spend circuit proves: inputs = outputs + fee + public amount.  *)
ASSUME SumBalance ==
    \A s \in Spends : Total(Amount, Inputs[s]) = Total(Amount, OutputsOf(s)) + Debit(s)

-----------------------------------------------------------------------------
VARIABLES
    status,     \* PENDING_DEPOSITS / PENDING_SPENDS: the status of a record
    index,      \* expected_leaf_index / expected_first_leaf_index; -1 is None
    staged,     \* PENDING_OUTPUTS: spends whose outputs are staged
    lease,      \* the pool-wide append lease
    nextGen,    \* the next lease generation
    inflight,   \* INFLIGHT_NULLIFIERS (heap)
    accepted,   \* ACCEPTED_SPEND_ROOTS
    head,       \* leaf_count of ACCEPTED_ROOT_HEAD; 0 is None
    acct,       \* liability, escrow and the fee reserves
    epoch,      \* the security epoch
    task,       \* the calls under execution
    leaves,     \* external: the Merkle tree canister
    spentBy,    \* external: the registry; which spend's batch put n there
    pulled,     \* external: deposits whose tokens the ledger moved to the pool
    orphans,    \* requests still under way whose callback an upgrade dropped
    faults      \* failed calls and upgrades so far

pool == <<status, index, staged, lease, nextGen, inflight, accepted, head, acct, epoch>>
outside == <<leaves, spentBy, pulled, orphans>>
vars == <<pool, task, outside, faults>>

DepositStatuses ==
    {"TransferPending", "TransferConfirmedCommitmentPending",
     "CommitmentAppendInFlight", "CommitmentAppendUnknown",
     "CommitmentReconcileInFlight", "CommitmentAppended", "CommitmentRootAccepted"}

SpendStatuses ==
    {"VerificationPending", "OutputsStaged", "NullifierInsertUnknown",
     "NullifierReconcileInFlight", "NullifierFinalizedOutputsPending",
     "ActiveAppendInFlight", "ActiveAppendUnknown", "ActiveAppendRejected",
     "ActiveRootPending", "PayoutPending", "Finalized",
     "FailedBeforeStateChange", "FailedAfterOutputsStaged"}

Statuses == DepositStatuses \cup SpendStatuses \cup {"Absent"}

Terminal == {"CommitmentRootAccepted", "Finalized",
             "FailedBeforeStateChange", "FailedAfterOutputsStaged"}

LeasePhases == {"Snapshotting", "AppendInFlight", "AppendUnknown",
                "ReconcileInFlight", "AppendConfirmedRootPending"}

NoLease == [owner |-> NoRecord, phase |-> "Free", gen |-> 0]

DepositPCs == {"transfer", "recCount", "recLeaf"}
SpendPCs == {"precheck", "admit", "verify", "recheck", "commit", "insert",
             "spLeaf", "spCountHit", "spCountMiss", "spRest", "recNull"}
AppendPCs == {"snapshot", "append", "scanHead"}

TaskType ==
    {k \in [pc : {"idle"} \cup DepositPCs \cup SpendPCs \cup AppendPCs,
            id : Records \cup {NoRecord}, gen : Nat, todo : SUBSET Notes,
            seen : SUBSET Notes, reply : {"none", "ok", "err", "hit", "miss"},
            num : Nat, guard : SUBSET Notes, anchor : Nat, epoch : Nat] :
        /\ k.pc \in DepositPCs => k.id \in Deposits
        /\ k.pc \in SpendPCs => k.id \in Spends
        /\ k.pc \in AppendPCs => k.id \in Records}

LeaseType == {NoLease} \cup [owner : Records, phase : LeasePhases, gen : Nat]

OrphanType ==
    [kind : {"transfer"}, id : Deposits] \cup [kind : {"append"}, id : Records]
        \cup [kind : {"insert"}, id : Spends]

(* A call of r resting at pc with a request just sent. *)
Call(pc, r, g, guard) ==
    [pc |-> pc, id |-> r, gen |-> g, todo |-> {}, seen |-> {}, reply |-> "none",
     num |-> 0, guard |-> guard, anchor |-> 0, epoch |-> 0]

IdleTask == Call("idle", NoRecord, 0, {})

(* The same call, when it asks the registry about a set of nullifiers. *)
QueryCall(pc, r, nfs, guard, a, e) ==
    [Call(pc, r, 0, guard) EXCEPT !.todo = nfs, !.anchor = a, !.epoch = e]

At(t, pc) == task[t].pc = pc
Finish(t) == task' = [task EXCEPT ![t] = IdleTask]
Await(t, call) == task' = [task EXCEPT ![t] = call]
Answer(t, r) == task' = [task EXCEPT ![t].reply = r]
AnswerCount(t, n) == task' = [task EXCEPT ![t].reply = "ok", ![t].num = n]
Proceed(t, pc, guard) == task' = [task EXCEPT ![t].pc = pc, ![t].guard = guard]
SetStatus(r, s) == status' = [status EXCEPT ![r] = s]

(* A call that failed in transport.  Every one counts against MaxFaults. *)
Fault == faults < MaxFaults /\ faults' = faults + 1

(* VERIFY_PENDING_NULLIFIERS: what the guards of the live calls hold. *)
VerifyPending == UNION {task[t].guard : t \in Tasks}

Spent == {n \in Notes : spentBy[n] # NoRecord}

-----------------------------------------------------------------------------
(* The append lease. *)

LeaseExpect(r, g, p) == lease = [owner |-> r, phase |-> p, gen |-> g]
LeaseTo(p) == lease' = [lease EXCEPT !.phase = p]
LeaseTransition(r, g, from, to) ==
    lease' = IF LeaseExpect(r, g, from) THEN [lease EXCEPT !.phase = to] ELSE lease
LeaseOwnedIn(r, p) == lease.owner = r /\ lease.phase = p

(* Faulty variant: the lease is taken over from its holder.                *)
AcquireHeldLease(t, r) ==
    /\ lease' = [owner |-> r, phase |-> "Snapshotting", gen |-> nextGen]
    /\ nextGen' = nextGen + 1
    /\ Await(t, Call("snapshot", r, nextGen, task[t].guard))

(* lease_acquire, and the call that begins under it: a snapshot of the     *)
(* tree.  A held lease refuses, and the call returns its error.            *)
AcquireAndSnapshot(t, r) ==
    IF lease = NoLease
    THEN /\ lease' = [owner |-> r, phase |-> "Snapshotting", gen |-> nextGen]
         /\ nextGen' = nextGen + 1
         /\ Await(t, Call("snapshot", r, nextGen, task[t].guard))
    ELSE Finish(t) /\ UNCHANGED <<lease, nextGen>>

(* lease_release: rejected unless owner and generation match. *)
LeaseRelease(r, g) ==
    lease' = IF lease.owner = r /\ lease.gen = g THEN NoLease ELSE lease

(* commit_accepted_root_head for the tree of n leaves.  The code traps     *)
(* when one of these conditions fails; HeadNeverTraps says none ever does. *)
HeadCommittable(n, expected) == n = expected /\ n >= head

(* Faulty variant: the head replaces the roots accepted before it. *)
CommitOnlyNewestRoot(n) == accepted' = {n} /\ head' = n

CommitAcceptedRootHead(n) == accepted' = accepted \cup {n} /\ head' = n

(* The record statuses that go with the phases of the lease. *)
Appendable == {"TransferConfirmedCommitmentPending",
               "NullifierFinalizedOutputsPending", "ActiveAppendRejected"}
AppendInFlight(r) ==
    IF r \in Deposits THEN "CommitmentAppendInFlight" ELSE "ActiveAppendInFlight"
AppendUnknown(r) ==
    IF r \in Deposits THEN "CommitmentAppendUnknown" ELSE "ActiveAppendUnknown"
AppendConfirmed(r) ==
    IF r \in Deposits THEN "CommitmentAppended" ELSE "ActiveRootPending"
ExpectedCount(r) == index[r] + Len(Items(r))

-----------------------------------------------------------------------------
(* Deposits: the token leg. *)

(* shield_deposit up to the icrc2_transfer_from await.  A retained record  *)
(* is answered from its status and pulls nothing.                          *)
ShieldDeposit(t, d) ==
    /\ At(t, "idle") /\ status[d] = "Absent"
    /\ SetStatus(d, "TransferPending")
    /\ Await(t, Call("transfer", d, 0, {}))
    /\ UNCHANGED <<index, staged, lease, nextGen, inflight, accepted, head, acct, epoch,
                   outside, faults>>

(* The ledger takes the pull, or refuses it (allowance, balance, fee). *)
LedgerTransferFrom(t) ==
    /\ At(t, "transfer") /\ task[t].reply = "none"
    /\ \/ /\ pulled' = pulled \cup {task[t].id}
          /\ Answer(t, "ok")
       \/ /\ Answer(t, "err")
          /\ UNCHANGED pulled
    /\ UNCHANGED <<pool, leaves, spentBy, orphans, faults>>

(* The pull is confirmed: append the commitment in the same call. *)
TransferConfirmed(t) ==
    /\ At(t, "transfer") /\ task[t].reply = "ok"
    /\ SetStatus(task[t].id, "TransferConfirmedCommitmentPending")
    /\ AcquireAndSnapshot(t, task[t].id)
    /\ UNCHANGED <<index, staged, inflight, accepted, head, acct, epoch, outside, faults>>

(* The ledger refused: the record goes, the commitment may be shielded again. *)
TransferRefused(t) ==
    /\ At(t, "transfer") /\ task[t].reply = "err"
    /\ SetStatus(task[t].id, "Absent")
    /\ Finish(t)
    /\ UNCHANGED <<index, staged, lease, nextGen, inflight, accepted, head, acct, epoch,
                   outside, faults>>

(* Faulty variant: a lost reply is handled like a refusal. *)
TransferUnknownForgets(t) ==
    /\ At(t, "transfer") /\ Fault
    /\ SetStatus(task[t].id, "Absent")
    /\ Finish(t)
    /\ UNCHANGED <<index, staged, lease, nextGen, inflight, accepted, head, acct, epoch,
                   outside>>

(* The reply is lost, or the request was never executed: TransferPending. *)
TransferUnknown(t) ==
    /\ At(t, "transfer") /\ Fault
    /\ Finish(t)
    /\ UNCHANGED <<pool, outside>>

(* settle_deposit_transfer as one step: the token canister's receipt, or   *)
(* its fence, says which way the pull went.  SETTLEMENT_MIN_AGE_NS keeps   *)
(* it away from a pull still under way.  Its claim and its awaits are the  *)
(* subject of DepositSettlement.                                           *)
SettleDepositTransfer(t, d) ==
    /\ At(t, "idle") /\ status[d] = "TransferPending"
    /\ \A u \in Tasks : ~(At(u, "transfer") /\ task[u].id = d)
    /\ [kind |-> "transfer", id |-> d] \notin orphans
    /\ IF d \in pulled
       THEN /\ SetStatus(d, "TransferConfirmedCommitmentPending")
            /\ AcquireAndSnapshot(t, d)
       ELSE /\ SetStatus(d, "Absent")
            /\ UNCHANGED <<lease, nextGen, task>>
    /\ UNCHANGED <<index, staged, inflight, accepted, head, acct, epoch, outside, faults>>

RetryDepositCommitment(t, d) ==
    /\ At(t, "idle") /\ status[d] = "TransferConfirmedCommitmentPending"
    /\ nextGen <= MaxRetryGen
    /\ AcquireAndSnapshot(t, d)
    /\ UNCHANGED <<status, index, staged, inflight, accepted, head, acct, epoch, outside, faults>>

-----------------------------------------------------------------------------
(* The Merkle tree canister.  A request of an earlier life of the pool is  *)
(* delivered before a later one: calls between two canisters are ordered.  *)

TreeQueueClear == \A o \in orphans : o.kind # "append"
RegistryQueueClear == \A o \in orphans : o.kind # "insert"

TreeHasRoom(r) == Len(leaves) + Len(Items(r)) <= MaxLeaves

(* leaf_count and get_scan_head *)
TreeCount(t) ==
    /\ task[t].pc \in {"snapshot", "scanHead", "recCount", "spCountHit", "spCountMiss"}
    /\ task[t].reply = "none" /\ TreeQueueClear
    /\ AnswerCount(t, Len(leaves))
    /\ UNCHANGED <<pool, outside, faults>>

(* get_leaf, compared with what the record would have put there.  The     *)
(* first leaf of a batch, then the others.                                 *)
LeafAt(i) == IF i \in 1..Len(leaves) THEN leaves[i] ELSE NoRecord
FirstLeafIsOurs(r) == LeafAt(index[r] + 1) = Items(r)[1]
OtherLeavesAreOurs(r) == \A j \in 2..Len(Items(r)) : LeafAt(index[r] + j) = Items(r)[j]

TreeLeaf(t) ==
    /\ task[t].pc \in {"recLeaf", "spLeaf", "spRest"}
    /\ task[t].reply = "none" /\ TreeQueueClear
    /\ LET ours == IF At(t, "spRest") THEN OtherLeavesAreOurs(task[t].id)
                                      ELSE FirstLeafIsOurs(task[t].id)
       IN  Answer(t, IF ours THEN "hit" ELSE "miss")
    /\ UNCHANGED <<pool, outside, faults>>

(* Faulty variant: a batch is cut where the tree is full. *)
TreeAppendsWhatFits(t) ==
    /\ At(t, "append") /\ task[t].reply = "none"
    /\ IF TreeHasRoom(task[t].id)
       THEN /\ leaves' = leaves \o Items(task[t].id)
            /\ AnswerCount(t, Len(leaves))
       ELSE /\ leaves' = SubSeq(leaves \o Items(task[t].id), 1, MaxLeaves)
            /\ Answer(t, "err")
    /\ UNCHANGED <<pool, spentBy, pulled, orphans, faults>>

(* append_commitment / append_commitments: the whole batch or nothing. *)
TreeAppend(t) ==
    /\ At(t, "append") /\ task[t].reply = "none"
    /\ IF TreeHasRoom(task[t].id)
       THEN /\ leaves' = leaves \o Items(task[t].id)
            /\ AnswerCount(t, Len(leaves))
       ELSE /\ Answer(t, "err")
            /\ UNCHANGED leaves
    /\ UNCHANGED <<pool, spentBy, pulled, orphans, faults>>

-----------------------------------------------------------------------------
(* The append protocol, shared by deposits and spends. *)

(* claim_deposit_append / claim_active_append and the move of the lease.   *)
ClaimAppend(t) ==
    /\ At(t, "snapshot") /\ task[t].reply = "ok"
    /\ LET r == task[t].id
           ready == status[r] \in Appendable /\ (r \in Spends => r \in staged)
       IN  IF ready
           THEN /\ index' = [index EXCEPT ![r] = task[t].num]
                /\ SetStatus(r, AppendInFlight(r))
                /\ LeaseTransition(r, task[t].gen, "Snapshotting", "AppendInFlight")
                /\ IF LeaseExpect(r, task[t].gen, "Snapshotting")
                   THEN Await(t, Call("append", r, task[t].gen, task[t].guard))
                   ELSE Finish(t)
           ELSE /\ LeaseRelease(r, task[t].gen)
                /\ Finish(t)
                /\ UNCHANGED <<status, index>>
    /\ UNCHANGED <<staged, nextGen, inflight, accepted, head, acct, epoch, outside, faults>>

(* Faulty variant: the error path keeps the lease. *)
SnapshotFailsKeepingLease(t) ==
    /\ At(t, "snapshot") /\ Fault
    /\ Finish(t)
    /\ UNCHANGED <<pool, outside>>

(* The snapshot query failed: nothing was claimed, the lease goes back. *)
SnapshotFails(t) ==
    /\ At(t, "snapshot") /\ Fault
    /\ LeaseRelease(task[t].id, task[t].gen)
    /\ Finish(t)
    /\ UNCHANGED <<status, index, staged, nextGen, inflight, accepted, head, acct, epoch,
                   outside>>

(* Faulty variant: only one of the two accounting words is credited. *)
CreditLiabilityOnly(t, d, i, phase) ==
    /\ LeaseExpect(d, task[t].gen, phase)
    /\ acct' = [acct EXCEPT !.liability = @ + Amount[d]]
    /\ index' = [index EXCEPT ![d] = i]
    /\ SetStatus(d, "CommitmentAppended")
    /\ LeaseTo("AppendConfirmedRootPending")
    /\ Await(t, Call("scanHead", d, task[t].gen, {}))

(* finalize_deposit_credit up to its await: the credit and the move of the *)
(* lease are one segment.                                                  *)
CreditDeposit(t, d, i, phase) ==
    /\ LeaseExpect(d, task[t].gen, phase)
    /\ acct' = [acct EXCEPT !.liability = @ + Amount[d], !.escrow = @ + Amount[d]]
    /\ index' = [index EXCEPT ![d] = i]
    /\ SetStatus(d, "CommitmentAppended")
    /\ LeaseTo("AppendConfirmedRootPending")
    /\ Await(t, Call("scanHead", d, task[t].gen, {}))

DepositAppended(t) ==
    /\ At(t, "append") /\ task[t].reply = "ok" /\ task[t].id \in Deposits
    /\ CreditDeposit(t, task[t].id, task[t].num, "AppendInFlight")
    /\ UNCHANGED <<staged, nextGen, inflight, accepted, head, epoch, outside, faults>>

SpendAppended(t) ==
    /\ At(t, "append") /\ task[t].reply = "ok" /\ task[t].id \in Spends
    /\ LeaseExpect(task[t].id, task[t].gen, "AppendInFlight")
    /\ SetStatus(task[t].id, "ActiveRootPending")
    /\ LeaseTo("AppendConfirmedRootPending")
    /\ Await(t, Call("scanHead", task[t].id, task[t].gen, task[t].guard))
    /\ UNCHANGED <<index, staged, nextGen, inflight, accepted, head, acct, epoch,
                   outside, faults>>

(* The tree refused, so nothing was appended: retryable, lease released.   *)
RevertRejectedAppend(t) ==
    LET r == task[t].id
    IN  /\ IF r \in Deposits
           THEN /\ SetStatus(r, "TransferConfirmedCommitmentPending")
                /\ index' = [index EXCEPT ![r] = -1]
           ELSE /\ SetStatus(r, "ActiveAppendRejected")
                /\ UNCHANGED index
        /\ LeaseRelease(r, task[t].gen)
        /\ Finish(t)

AppendRejected(t) ==
    /\ At(t, "append") /\ task[t].reply = "err"
    /\ RevertRejectedAppend(t)
    /\ UNCHANGED <<staged, nextGen, inflight, accepted, head, acct, epoch, outside, faults>>

(* A reject code that proves non-execution (CanisterError,                 *)
(* DestinationInvalid): only the spend side reads it.                      *)
SpendAppendDefinitelyNot(t) ==
    /\ At(t, "append") /\ task[t].reply = "none" /\ task[t].id \in Spends /\ Fault
    /\ RevertRejectedAppend(t)
    /\ UNCHANGED <<staged, nextGen, inflight, accepted, head, acct, epoch, outside>>

(* Faulty variants: a lost reply taken for a rejection, and a lease that   *)
(* stays AppendInFlight when its record becomes unknown.                   *)
AppendOutcomeAssumedFailed(t) ==
    /\ At(t, "append") /\ Fault
    /\ RevertRejectedAppend(t)
    /\ UNCHANGED <<staged, nextGen, inflight, accepted, head, acct, epoch, outside>>

AppendOutcomeUnknownLeaseKept(t) ==
    /\ At(t, "append") /\ Fault
    /\ SetStatus(task[t].id, AppendUnknown(task[t].id))
    /\ Finish(t)
    /\ UNCHANGED <<index, staged, lease, nextGen, inflight, accepted, head, acct, epoch, outside>>

(* Any other transport error leaves the append unknown, executed or not.   *)
AppendOutcomeUnknown(t) ==
    /\ At(t, "append") /\ Fault
    /\ SetStatus(task[t].id, AppendUnknown(task[t].id))
    /\ LeaseTransition(task[t].id, task[t].gen, "AppendInFlight", "AppendUnknown")
    /\ Finish(t)
    /\ UNCHANGED <<index, staged, nextGen, inflight, accepted, head, acct, epoch, outside>>

(* The scan head of an append that is confirmed, while the lease still is  *)
(* the caller's: publish the root, close the record, release the lease.    *)
DepositRootAccepted(t) ==
    LET d == task[t].id
    IN  /\ At(t, "scanHead") /\ task[t].reply = "ok" /\ d \in Deposits
        /\ LeaseExpect(d, task[t].gen, "AppendConfirmedRootPending")
        /\ HeadCommittable(task[t].num, ExpectedCount(d))
        /\ CommitAcceptedRootHead(task[t].num)
        /\ SetStatus(d, "CommitmentRootAccepted")
        /\ LeaseRelease(d, task[t].gen)
        /\ Finish(t)
        /\ UNCHANGED <<index, staged, nextGen, inflight, acct, epoch, outside, faults>>

(* finalize_promotion: root, staged outputs, accounting and lease in one   *)
(* segment.  A payout stays owed (PayoutPending).                          *)
Debited(w, x) == IF w >= x THEN w - x ELSE 0

SpendRootAccepted(t) ==
    LET s == task[t].id
    IN  /\ At(t, "scanHead") /\ task[t].reply = "ok" /\ s \in Spends
        /\ status[s] = "ActiveRootPending"
        /\ LeaseExpect(s, task[t].gen, "AppendConfirmedRootPending")
        /\ HeadCommittable(task[t].num, ExpectedCount(s))
        /\ CommitAcceptedRootHead(task[t].num)
        /\ staged' = staged \ {s}
        /\ acct' = [liability |-> Debited(acct.liability, Debit(s)),
                    escrow |-> Debited(acct.escrow, Debit(s)),
                    reserves |-> acct.reserves + Fee[s]]
        /\ SetStatus(s, IF PublicAmount[s] > 0 THEN "PayoutPending" ELSE "Finalized")
        /\ LeaseRelease(s, task[t].gen)
        /\ Finish(t)
        /\ UNCHANGED <<index, nextGen, inflight, epoch, outside, faults>>

(* Another call finished the record, or the read failed: the lease stays   *)
(* where it is and the operator's reconcile endpoints continue.            *)
ScanHeadStale(t) ==
    /\ At(t, "scanHead") /\ task[t].reply = "ok"
    /\ ~LeaseExpect(task[t].id, task[t].gen, "AppendConfirmedRootPending")
    /\ Finish(t)
    /\ UNCHANGED <<pool, outside, faults>>

ScanHeadFails(t) ==
    /\ At(t, "scanHead") /\ Fault
    /\ Finish(t)
    /\ UNCHANGED <<pool, outside>>

-----------------------------------------------------------------------------
(* Operator reconciliation of appends. *)

(* reconcile_deposit_commitment, and the ActiveRootPending arm of          *)
(* reconcile_pending_spend: read the head again under the retained lease.  *)
ReconcileRootPending(t, r) ==
    /\ At(t, "idle") /\ status[r] = AppendConfirmed(r)
    /\ LeaseOwnedIn(r, "AppendConfirmedRootPending")
    /\ Await(t, Call("scanHead", r, lease.gen, {}))
    /\ UNCHANGED <<pool, outside, faults>>

(* reconcile_deposit_append_unknown and reconcile_active_append claim the  *)
(* reconciliation through the lease.  A deposit asks for the leaf count    *)
(* first, a spend for its first leaf.                                      *)
ReconcileAppendUnknown(t, r) ==
    /\ At(t, "idle") /\ status[r] = AppendUnknown(r) /\ index[r] # -1
    /\ LeaseOwnedIn(r, "AppendUnknown")
    /\ r \in Spends => r \in staged
    /\ LeaseTo("ReconcileInFlight")
    /\ SetStatus(r, IF r \in Deposits THEN "CommitmentReconcileInFlight" ELSE status[r])
    /\ Await(t, Call(IF r \in Deposits THEN "recCount" ELSE "spLeaf", r, lease.gen, {}))
    /\ UNCHANGED <<index, staged, nextGen, inflight, accepted, head, acct, epoch,
                   outside, faults>>

(* The tree is no longer than it was before the append: it never happened. *)
DepositNotAppended(t) ==
    LET d == task[t].id
    IN  /\ At(t, "recCount") /\ task[t].reply = "ok" /\ task[t].num <= index[d]
        /\ LeaseExpect(d, task[t].gen, "ReconcileInFlight")
        /\ SetStatus(d, "TransferConfirmedCommitmentPending")
        /\ index' = [index EXCEPT ![d] = -1]
        /\ LeaseRelease(d, task[t].gen)
        /\ Finish(t)
        /\ UNCHANGED <<staged, nextGen, inflight, accepted, head, acct, epoch, outside, faults>>

DepositAskLeaf(t) ==
    /\ At(t, "recCount") /\ task[t].reply = "ok" /\ task[t].num > index[task[t].id]
    /\ Await(t, Call("recLeaf", task[t].id, task[t].gen, {}))
    /\ UNCHANGED <<pool, outside, faults>>

DepositFoundAppended(t) ==
    LET d == task[t].id
    IN  /\ At(t, "recLeaf") /\ task[t].reply = "hit"
        /\ status[d] = "CommitmentReconcileInFlight"
        /\ CreditDeposit(t, d, index[d], "ReconcileInFlight")
        /\ UNCHANGED <<staged, nextGen, inflight, accepted, head, epoch, outside, faults>>

SpendAskCount(t) ==
    /\ At(t, "spLeaf") /\ task[t].reply \in {"hit", "miss"}
    /\ Await(t, Call(IF task[t].reply = "hit" THEN "spCountHit" ELSE "spCountMiss",
                     task[t].id, task[t].gen, {}))
    /\ UNCHANGED <<pool, outside, faults>>

(* The first leaf was ours: ask for the others if there are any, then      *)
(* confirm.                                                                *)
SpendAskRest(t) ==
    /\ At(t, "spCountHit") /\ task[t].reply = "ok" /\ Len(Items(task[t].id)) > 1
    /\ Await(t, Call("spRest", task[t].id, task[t].gen, {}))
    /\ UNCHANGED <<pool, outside, faults>>

SpendFoundAppended(t) ==
    LET s == task[t].id
    IN  /\ \/ At(t, "spRest") /\ task[t].reply = "hit"
           \/ At(t, "spCountHit") /\ task[t].reply = "ok" /\ Len(Items(s)) = 1
        /\ LeaseExpect(s, task[t].gen, "ReconcileInFlight")
        /\ SetStatus(s, "ActiveRootPending")
        /\ LeaseTo("AppendConfirmedRootPending")
        /\ Await(t, Call("scanHead", s, task[t].gen, {}))
        /\ UNCHANGED <<index, staged, nextGen, inflight, accepted, head, acct, epoch,
                       outside, faults>>

SpendNotAppended(t) ==
    LET s == task[t].id
    IN  /\ At(t, "spCountMiss") /\ task[t].reply = "ok" /\ task[t].num <= index[s]
        /\ LeaseExpect(s, task[t].gen, "ReconcileInFlight")
        /\ SetStatus(s, "NullifierFinalizedOutputsPending")
        /\ LeaseRelease(s, task[t].gen)
        /\ Finish(t)
        /\ UNCHANGED <<index, staged, nextGen, inflight, accepted, head, acct, epoch,
                       outside, faults>>

(* A reconcile read failed, or found somebody else's leaf at our index:    *)
(* record and lease return to unknown.                                     *)
AmbiguousTree(t) ==
    \/ task[t].pc \in {"recLeaf", "spRest"} /\ task[t].reply = "miss"
    \/ At(t, "spCountMiss") /\ task[t].reply = "ok" /\ task[t].num > index[task[t].id]

ReconcileAppendFails(t) ==
    LET r == task[t].id
    IN  /\ task[t].pc \in {"recCount", "recLeaf", "spLeaf", "spCountHit", "spCountMiss", "spRest"}
        /\ IF AmbiguousTree(t) THEN UNCHANGED faults ELSE Fault
        /\ SetStatus(r, AppendUnknown(r))
        /\ LeaseTransition(r, task[t].gen, "ReconcileInFlight", "AppendUnknown")
        /\ Finish(t)
        /\ UNCHANGED <<index, staged, nextGen, inflight, accepted, head, acct, epoch, outside>>

-----------------------------------------------------------------------------
(* private_spend *)

(* Entry: the record is new and the anchor is an accepted root.  Captures  *)
(* the security epoch before the first await.                              *)
PrivateSpend(t, s) ==
    /\ At(t, "idle") /\ status[s] = "Absent"
    /\ \E a \in accepted : Await(t, QueryCall("precheck", s, Inputs[s], {}, a, epoch))
    /\ UNCHANGED <<pool, outside, faults>>

(* contains_nullifier for one nullifier. *)
RegistryContains(t) ==
    /\ task[t].pc \in {"precheck", "recheck", "recNull"} /\ RegistryQueueClear
    /\ \E n \in task[t].todo :
          task' = [task EXCEPT ![t].todo = @ \ {n},
                               ![t].seen = @ \cup ({n} \cap Spent)]
    /\ UNCHANGED <<pool, outside, faults>>

LiabilityCovers(s) == acct.liability >= Debit(s)

PrecheckRefuses(t) ==
    /\ At(t, "precheck")
    /\ \/ task[t].seen # {}
       \/ task[t].todo = {} /\ ~LiabilityCovers(task[t].id)
    /\ Finish(t)
    /\ UNCHANGED <<pool, outside, faults>>

PrecheckPasses(t) ==
    /\ At(t, "precheck") /\ task[t].todo = {} /\ task[t].seen = {}
    /\ LiabilityCovers(task[t].id)
    /\ Proceed(t, "admit", {})
    /\ UNCHANGED <<pool, outside, faults>>

(* The segment that writes the record: the id is rechecked, and the guard  *)
(* refuses a nullifier another live call or a reservation holds.           *)

(* Faulty variant: calls still at the verifier are not seen. *)
GuardFreeOfReserved(s) == Inputs[s] \cap inflight = {}

GuardFree(s) == Inputs[s] \cap (VerifyPending \cup inflight) = {}

AdmitSpend(t) ==
    LET s == task[t].id
    IN  /\ At(t, "admit")
        /\ IF status[s] = "Absent" /\ GuardFree(s)
           THEN /\ SetStatus(s, "VerificationPending")
                /\ Proceed(t, "verify", Inputs[s])
           ELSE /\ Finish(t)
                /\ UNCHANGED status
        /\ UNCHANGED <<index, staged, lease, nextGen, inflight, accepted, head, acct, epoch,
                       outside, faults>>

(* Faulty variant: the proof is not bound to the anchor. *)
ProvableUnanchored(s, a) == TRUE

(* A proof shows that every input is a leaf of the anchored tree. *)
Provable(s, a) == \A n \in Inputs[s] : \E i \in 1..Len(leaves) : i <= a /\ leaves[i] = n

VerifierAccepts(t) ==
    LET s == task[t].id
    IN  /\ At(t, "verify") /\ Provable(s, task[t].anchor)
        /\ Await(t, QueryCall("recheck", s, Inputs[s], task[t].guard, 0, task[t].epoch))
        /\ UNCHANGED <<pool, outside, faults>>

VerifierRejects(t) ==
    /\ At(t, "verify")
    /\ SetStatus(task[t].id, "FailedBeforeStateChange")
    /\ Finish(t)
    /\ UNCHANGED <<index, staged, lease, nextGen, inflight, accepted, head, acct, epoch,
                   outside, faults>>

VerifierUnavailable(t) ==
    /\ At(t, "verify") /\ Fault
    /\ SetStatus(task[t].id, "Absent")
    /\ Finish(t)
    /\ UNCHANGED <<index, staged, lease, nextGen, inflight, accepted, head, acct, epoch,
                   outside>>

RecheckFails(t) ==
    /\ At(t, "recheck")
    /\ \/ task[t].seen # {}
       \/ task[t].todo = {} /\ ~LiabilityCovers(task[t].id)
    /\ SetStatus(task[t].id, "FailedBeforeStateChange")
    /\ Finish(t)
    /\ UNCHANGED <<index, staged, lease, nextGen, inflight, accepted, head, acct, epoch,
                   outside, faults>>

(* A recheck query that fails in transport returns through `?`: the record *)
(* keeps VerificationPending.  So does a precheck, with no record yet.     *)
NullifierQueryFails(t) ==
    /\ task[t].pc \in {"precheck", "recheck"} /\ Fault
    /\ Finish(t)
    /\ UNCHANGED <<pool, outside>>

RecheckPasses(t) ==
    /\ At(t, "recheck") /\ task[t].todo = {} /\ task[t].seen = {}
    /\ LiabilityCovers(task[t].id)
    /\ Proceed(t, "commit", task[t].guard)
    /\ UNCHANGED <<pool, outside, faults>>

(* The fee and balance queries a payout still needs may fail. *)
PayoutPreconditionFails(t) ==
    /\ At(t, "commit") /\ PublicAmount[task[t].id] > 0 /\ Fault
    /\ SetStatus(task[t].id, "FailedBeforeStateChange")
    /\ Finish(t)
    /\ UNCHANGED <<index, staged, lease, nextGen, inflight, accepted, head, acct, epoch,
                   outside>>

(* commit_private_spend, up to the insert_batch await: epoch, ownership of *)
(* the record, reservation, staging.                                       *)
EpochChanged(t) ==
    /\ At(t, "commit") /\ status[task[t].id] = "VerificationPending"
    /\ task[t].epoch # epoch
    /\ SetStatus(task[t].id, "Absent")
    /\ Finish(t)
    /\ UNCHANGED <<index, staged, lease, nextGen, inflight, accepted, head, acct, epoch,
                   outside, faults>>

CommitSpend(t) ==
    LET s == task[t].id
    IN  /\ At(t, "commit") /\ status[s] = "VerificationPending"
        /\ task[t].epoch = epoch
        /\ IF Inputs[s] \cap inflight = {}
           THEN /\ inflight' = inflight \cup Inputs[s]
                /\ staged' = staged \cup {s}
                /\ index' = [index EXCEPT ![s] = -1]
                /\ SetStatus(s, "OutputsStaged")
                /\ Await(t, Call("insert", s, 0, task[t].guard))
           ELSE /\ SetStatus(s, "FailedBeforeStateChange")
                /\ Finish(t)
                /\ UNCHANGED <<inflight, staged, index>>
        /\ UNCHANGED <<lease, nextGen, accepted, head, acct, epoch, outside, faults>>

(* insert_batch in the registry: all fresh, or nothing. *)
Fresh(s) == Inputs[s] \cap Spent = {}
Inserted(s) == [n \in Notes |-> IF n \in Inputs[s] THEN s ELSE spentBy[n]]

RegistryInsert(t) ==
    /\ At(t, "insert") /\ task[t].reply = "none"
    /\ IF Fresh(task[t].id)
       THEN /\ spentBy' = Inserted(task[t].id)
            /\ Answer(t, "ok")
       ELSE /\ Answer(t, "err")
            /\ UNCHANGED spentBy
    /\ UNCHANGED <<pool, leaves, pulled, orphans, faults>>

(* The nullifiers are spent for good: release the reservation and promote  *)
(* the staged outputs in the same call.                                    *)
NullifierInserted(t) ==
    LET s == task[t].id
    IN  /\ At(t, "insert") /\ task[t].reply = "ok"
        /\ inflight' = inflight \ Inputs[s]
        /\ SetStatus(s, "NullifierFinalizedOutputsPending")
        /\ AcquireAndSnapshot(t, s)
        /\ UNCHANGED <<index, staged, accepted, head, acct, epoch, outside, faults>>

(* The registry rejected the batch, or provably never ran it. *)
DiscardUncommitted(t) ==
    LET s == task[t].id
    IN  /\ staged' = staged \ {s}
        /\ inflight' = inflight \ Inputs[s]
        /\ SetStatus(s, "FailedAfterOutputsStaged")
        /\ Finish(t)

InsertRejected(t) ==
    /\ At(t, "insert")
    /\ \/ task[t].reply = "err" /\ UNCHANGED faults
       \/ task[t].reply = "none" /\ Fault
    /\ DiscardUncommitted(t)
    /\ UNCHANGED <<index, lease, nextGen, accepted, head, acct, epoch, outside>>

(* Faulty variant: a lost reply is taken for a committed batch. *)
InsertOutcomeAssumedCommitted(t) ==
    /\ At(t, "insert") /\ Fault
    /\ SetStatus(task[t].id, "NullifierFinalizedOutputsPending")
    /\ Finish(t)
    /\ UNCHANGED <<index, staged, lease, nextGen, inflight, accepted, head, acct, epoch,
                   outside>>

InsertOutcomeUnknown(t) ==
    /\ At(t, "insert") /\ Fault
    /\ SetStatus(task[t].id, "NullifierInsertUnknown")
    /\ Finish(t)
    /\ UNCHANGED <<index, staged, lease, nextGen, inflight, accepted, head, acct, epoch,
                   outside>>

-----------------------------------------------------------------------------
(* Operator reconciliation of spends. *)

ReconcileNullifierInsert(t, s) ==
    /\ At(t, "idle") /\ status[s] = "NullifierInsertUnknown"
    /\ SetStatus(s, "NullifierReconcileInFlight")
    /\ Await(t, QueryCall("recNull", s, Inputs[s], {}, 0, 0))
    /\ UNCHANGED <<index, staged, lease, nextGen, inflight, accepted, head, acct, epoch,
                   outside, faults>>

(* All present: the batch is taken to have committed. *)
ReconciledCommitted(t) ==
    LET s == task[t].id
    IN  /\ At(t, "recNull") /\ task[t].todo = {} /\ task[t].seen = Inputs[s]
        /\ status[s] = "NullifierReconcileInFlight"
        /\ inflight' = inflight \ Inputs[s]
        /\ SetStatus(s, "NullifierFinalizedOutputsPending")
        /\ AcquireAndSnapshot(t, s)
        /\ UNCHANGED <<index, staged, accepted, head, acct, epoch, outside, faults>>

(* None present: the batch is taken not to have committed. *)
ReconciledNotCommitted(t) ==
    /\ At(t, "recNull") /\ task[t].todo = {} /\ task[t].seen = {}
    /\ DiscardUncommitted(t)
    /\ UNCHANGED <<index, lease, nextGen, accepted, head, acct, epoch, outside, faults>>

(* A query failed, or only some of the nullifiers are there: unknown again. *)
PartialInsert(t) ==
    task[t].todo = {} /\ task[t].seen \notin {{}, Inputs[task[t].id]}

ReconcileNullifierFails(t) ==
    /\ At(t, "recNull")
    /\ IF PartialInsert(t) THEN UNCHANGED faults ELSE Fault
    /\ SetStatus(task[t].id, "NullifierInsertUnknown")
    /\ Finish(t)
    /\ UNCHANGED <<index, staged, lease, nextGen, inflight, accepted, head, acct, epoch,
                   outside>>

(* reconcile_pending_spend on a spend whose outputs are still to promote. *)
ReconcilePendingSpend(t, s) ==
    /\ At(t, "idle")
    /\ status[s] \in {"NullifierFinalizedOutputsPending", "ActiveAppendRejected"}
    /\ s \in staged /\ nextGen <= MaxRetryGen
    /\ AcquireAndSnapshot(t, s)
    /\ UNCHANGED <<status, index, staged, inflight, accepted, head, acct, epoch, outside, faults>>

-----------------------------------------------------------------------------
(* Upgrades, and what the pool left under way before one. *)

(* deposit_lease_tuple_action and spend_lease_tuple_action: the tuples the *)
(* upgrade hook does not trap on.                                          *)
LeaseTupleLegal ==
    LET r == lease.owner
    IN  CASE lease.phase = "Free" -> TRUE
          [] lease.phase = "Snapshotting" -> status[r] \in Appendable
          [] lease.phase = "AppendInFlight" -> status[r] = AppendInFlight(r)
          [] lease.phase = "AppendUnknown" -> status[r] = AppendUnknown(r)
          [] lease.phase = "ReconcileInFlight" ->
                status[r] \in {"CommitmentReconcileInFlight", "ActiveAppendUnknown"}
          [] lease.phase = "AppendConfirmedRootPending" -> status[r] = AppendConfirmed(r)

RequiresLease == {"CommitmentAppendInFlight", "CommitmentAppendUnknown",
                  "CommitmentReconcileInFlight", "CommitmentAppended",
                  "ActiveAppendInFlight", "ActiveAppendUnknown", "ActiveRootPending"}

(* The sweep: nobody but the owner rests in a status that needs the lease. *)
LeaseFreeSweepPasses == \A r \in Records : status[r] \in RequiresLease => lease.owner = r

UpgradeAccepted ==
    /\ LeaseTupleLegal
    /\ LeaseFreeSweepPasses
    /\ head > 0 => head \in accepted
    /\ head = 0 => accepted = {}

(* Faulty variants: an upgrade that fails a spend whose insert_batch is    *)
(* under way, one that keeps in-flight statuses, one that frees the lease  *)
(* by its phase alone.                                                     *)
UpgradeFailsStagedSpend(st) ==
    CASE st \in {"CommitmentAppendInFlight", "CommitmentReconcileInFlight"} ->
            "CommitmentAppendUnknown"
      [] st = "ActiveAppendInFlight" -> "ActiveAppendUnknown"
      [] st = "VerificationPending" -> "Absent"
      [] st = "OutputsStaged" -> "FailedAfterOutputsStaged"
      [] OTHER -> st

UpgradeKeepsInFlight(st) == IF st = "VerificationPending" THEN "Absent" ELSE st

UpgradeFreesPhaseOnly ==
    CASE lease.phase = "Snapshotting" -> [lease EXCEPT !.phase = "Free"]
      [] lease.phase \in {"AppendInFlight", "ReconcileInFlight"} ->
            [lease EXCEPT !.phase = "AppendUnknown"]
      [] OTHER -> lease

(* classify_deposit_status_for_upgrade / classify_spend_status_for_upgrade *)
UpgradedStatus(st) ==
    CASE st \in {"CommitmentAppendInFlight", "CommitmentReconcileInFlight"} ->
            "CommitmentAppendUnknown"
      [] st = "ActiveAppendInFlight" -> "ActiveAppendUnknown"
      [] st = "VerificationPending" -> "Absent"
      [] st \in {"OutputsStaged", "NullifierReconcileInFlight"} -> "NullifierInsertUnknown"
      [] OTHER -> st

UpgradedLease ==
    CASE lease.phase = "Snapshotting" -> NoLease
      [] lease.phase \in {"AppendInFlight", "ReconcileInFlight"} ->
            [lease EXCEPT !.phase = "AppendUnknown"]
      [] OTHER -> lease

(* Statuses whose nullifiers rebuild_inflight_nullifiers puts back. *)
ReservesNullifiers == {"OutputsStaged", "NullifierInsertUnknown", "NullifierReconcileInFlight"}

RebuiltInflight(st) == UNION {Inputs[s] : s \in {x \in Spends : st[x] \in ReservesNullifiers}}

Undelivered ==
    {[kind |-> task[t].pc, id |-> task[t].id] :
        t \in {u \in Tasks : task[u].pc \in {"transfer", "append", "insert"}
                             /\ task[u].reply = "none"}}

Upgrade ==
    /\ Fault /\ UpgradeAccepted
    /\ status' = [r \in Records |-> UpgradedStatus(status[r])]
    /\ lease' = UpgradedLease
    /\ inflight' = RebuiltInflight(status')
    /\ orphans' = orphans \cup Undelivered
    /\ task' = [t \in Tasks |-> IdleTask]
    /\ UNCHANGED <<index, staged, nextGen, accepted, head, acct, epoch,
                   leaves, spentBy, pulled>>

(* A request of an earlier life is executed, or rejected by the system. *)
DeliverOrphan(o) ==
    /\ orphans' = orphans \ {o}
    /\ pulled' = IF o.kind = "transfer" THEN pulled \cup {o.id} ELSE pulled
    /\ leaves' = IF o.kind = "append" /\ TreeHasRoom(o.id)
                 THEN leaves \o Items(o.id) ELSE leaves
    /\ spentBy' = IF o.kind = "insert" /\ Fresh(o.id) THEN Inserted(o.id) ELSE spentBy
    /\ UNCHANGED <<pool, task, faults>>

RejectOrphan(o) ==
    /\ orphans' = orphans \ {o}
    /\ UNCHANGED <<pool, task, leaves, spentBy, pulled, faults>>

(* A scheduled verifying-key rotation takes effect. *)
ActivatePendingVk ==
    /\ epoch < MaxEpoch
    /\ epoch' = epoch + 1
    /\ UNCHANGED <<status, index, staged, lease, nextGen, inflight, accepted, head, acct,
                   task, outside, faults>>

-----------------------------------------------------------------------------
Init ==
    /\ status = [r \in Records |-> "Absent"]
    /\ index = [r \in Records |-> -1]
    /\ staged = {}
    /\ lease = NoLease
    /\ nextGen = 1
    /\ inflight = {}
    /\ accepted = {}
    /\ head = 0
    /\ acct = [liability |-> 0, escrow |-> 0, reserves |-> 0]
    /\ epoch = 0
    /\ task = [t \in Tasks |-> IdleTask]
    /\ leaves = <<>>
    /\ spentBy = [n \in Notes |-> NoRecord]
    /\ pulled = {}
    /\ orphans = {}
    /\ faults = 0

(* Steps of a call under execution that its scheduling makes inevitable. *)
CallStep(t) ==
    \/ LedgerTransferFrom(t) \/ TransferConfirmed(t) \/ TransferRefused(t)
    \/ TreeCount(t) \/ TreeLeaf(t) \/ TreeAppend(t)
    \/ ClaimAppend(t) \/ DepositAppended(t) \/ SpendAppended(t) \/ AppendRejected(t)
    \/ DepositRootAccepted(t) \/ SpendRootAccepted(t) \/ ScanHeadStale(t)
    \/ DepositNotAppended(t) \/ DepositAskLeaf(t) \/ DepositFoundAppended(t)
    \/ SpendAskCount(t) \/ SpendAskRest(t) \/ SpendFoundAppended(t) \/ SpendNotAppended(t)
    \/ RegistryContains(t) \/ PrecheckRefuses(t) \/ PrecheckPasses(t) \/ AdmitSpend(t)
    \/ VerifierAccepts(t) \/ VerifierRejects(t) \/ RecheckFails(t) \/ RecheckPasses(t)
    \/ EpochChanged(t) \/ CommitSpend(t) \/ RegistryInsert(t) \/ NullifierInserted(t)
    \/ ReconciledCommitted(t) \/ ReconciledNotCommitted(t)

CallFailure(t) ==
    \/ TransferUnknown(t) \/ SnapshotFails(t) \/ SpendAppendDefinitelyNot(t)
    \/ AppendOutcomeUnknown(t) \/ ScanHeadFails(t) \/ ReconcileAppendFails(t)
    \/ VerifierUnavailable(t) \/ NullifierQueryFails(t) \/ PayoutPreconditionFails(t)
    \/ InsertRejected(t) \/ InsertOutcomeUnknown(t) \/ ReconcileNullifierFails(t)

(* What users and the operator may call to move a stuck record on. *)
Recover(t, r) ==
    \/ r \in Deposits /\ SettleDepositTransfer(t, r)
    \/ r \in Deposits /\ RetryDepositCommitment(t, r)
    \/ ReconcileRootPending(t, r)
    \/ ReconcileAppendUnknown(t, r)
    \/ r \in Spends /\ ReconcileNullifierInsert(t, r)
    \/ r \in Spends /\ ReconcilePendingSpend(t, r)

Next ==
    \/ \E t \in Tasks :
          \/ \E d \in Deposits : ShieldDeposit(t, d)
          \/ \E s \in Spends : PrivateSpend(t, s)
          \/ \E r \in Records : Recover(t, r)
          \/ CallStep(t)
          \/ CallFailure(t)
    \/ Upgrade
    \/ \E o \in orphans : DeliverOrphan(o) \/ RejectOrphan(o)
    \/ ActivatePendingVk

Spec == Init /\ [][Next]_vars

(* Replies and callbacks are always delivered in the end, requests under   *)
(* way are resolved, and somebody keeps calling the recovery endpoint of a *)
(* record that needs it.  Failures are not fair: MaxFaults bounds them.    *)
Fairness ==
    /\ \A t \in Tasks : WF_vars(CallStep(t))
    /\ WF_vars(\E o \in orphans : DeliverOrphan(o) \/ RejectOrphan(o))
    /\ \A r \in Records : SF_vars(\E t \in Tasks : Recover(t, r))

LiveSpec == Spec /\ Fairness

-----------------------------------------------------------------------------
TypeOK ==
    /\ status \in [Records -> Statuses]
    /\ index \in [Records -> Int]
    /\ staged \subseteq Spends
    /\ lease \in LeaseType
    /\ nextGen \in Nat
    /\ inflight \subseteq Notes
    /\ accepted \subseteq Nat
    /\ head \in Nat
    /\ acct \in [liability : Nat, escrow : Nat, reserves : Nat]
    /\ epoch \in Nat
    /\ task \in [Tasks -> TaskType]
    /\ leaves \in Seq(Notes)
    /\ spentBy \in [Notes -> Spends \cup {NoRecord}]
    /\ pulled \subseteq Deposits
    /\ orphans \subseteq OrphanType
    /\ faults \in Nat

(* Spends whose nullifiers the pool takes to be spent by them for good. *)
Committed == {"NullifierFinalizedOutputsPending", "ActiveAppendInFlight",
              "ActiveAppendUnknown", "ActiveAppendRejected", "ActiveRootPending",
              "PayoutPending", "Finalized"}
Promoted == {"PayoutPending", "Finalized"}
Credited == {"CommitmentAppended", "CommitmentRootAccepted"}
CreditedDeposits == {d \in Deposits : status[d] \in Credited}
PromotedSpends == {s \in Spends : status[s] \in Promoted}

(* No double spend.  A spend the pool has moved past its insert_batch, on  *)
(* the reply or on the reconciliation's evidence that every nullifier is   *)
(* present, is the spend that put them there.                              *)
NoDoubleSpend ==
    \A s \in Spends : status[s] \in Committed => \A n \in Inputs[s] : spentBy[n] = s

(* A spend that the pool reports failed, or forgot, has burnt no note: its *)
(* nullifiers never enter the registry, not even by a late request.        *)
FailedSpendBurnsNothing ==
    \A s \in Spends :
        status[s] \in {"Absent", "VerificationPending", "FailedBeforeStateChange",
                       "FailedAfterOutputsStaged"}
            => \A n \in Notes : spentBy[n] # s

(* What the two are inductive with: who may be about to write into the     *)
(* registry, and what every such call and request relies on.               *)
Reserved(s) == status[s] \in ReservesNullifiers
Admitted == {"verify", "recheck", "commit"}
Guarding == Admitted \cup {"insert"}

(* A reservation is exclusive, and nobody else's batch took its nullifiers. *)
ReservationInv ==
    \A s \in Spends : Reserved(s) =>
        /\ Inputs[s] \subseteq inflight
        /\ \A n \in Inputs[s] : spentBy[n] \in {NoRecord, s}
        /\ \A r \in Spends : r # s /\ Reserved(r) => Inputs[r] \cap Inputs[s] = {}

(* A call between admission and the registry's reply holds its guard alone. *)
GuardInv ==
    \A t \in Tasks : task[t].pc \in Guarding =>
        /\ task[t].guard = Inputs[task[t].id]
        /\ status[task[t].id] = IF At(t, "insert") THEN "OutputsStaged" ELSE "VerificationPending"
        /\ \A u \in Tasks : u # t /\ task[u].pc \in Guarding => task[u].guard \cap task[t].guard = {}

(* What a call saw unspent after its admission stays unspent until it      *)
(* reserves: nobody who reserves shares a nullifier with it.               *)
AdmittedInv ==
    \A t \in Tasks : task[t].pc \in Admitted =>
        /\ \A r \in Spends : Reserved(r) => Inputs[r] \cap Inputs[task[t].id] = {}
        /\ At(t, "recheck") =>
              \A n \in Inputs[task[t].id] \ (task[t].todo \cup task[t].seen) : spentBy[n] = NoRecord
        /\ At(t, "commit") => \A n \in Inputs[task[t].id] : spentBy[n] = NoRecord

(* The registry's reply says whose batch it holds. *)
InsertInv ==
    \A t \in Tasks : At(t, "insert") =>
        IF task[t].reply = "ok" THEN \A n \in Inputs[task[t].id] : spentBy[n] = task[t].id
                                ELSE \A n \in Notes : spentBy[n] # task[t].id

(* A late insert_batch belongs to a spend that still waits for its outcome. *)
OrphanInsert(s) == [kind |-> "insert", id |-> s] \in orphans
OrphanInv ==
    \A s \in Spends : OrphanInsert(s) =>
        status[s] \in {"NullifierInsertUnknown", "NullifierReconcileInFlight"}

(* One reconciliation per spend; its answers stay true until it acts.      *)
ReconcileInv ==
    \A t \in Tasks : At(t, "recNull") =>
        /\ status[task[t].id] = "NullifierReconcileInFlight"
        /\ \A u \in Tasks : u # t /\ At(u, "recNull") => task[u].id # task[t].id
        /\ task[t].todo # Inputs[task[t].id] => ~OrphanInsert(task[t].id)
        /\ task[t].seen \subseteq Spent
        /\ \A n \in Inputs[task[t].id] \ (task[t].todo \cup task[t].seen) : spentBy[n] # task[t].id

(* Only a spend past its insert_batch has a call in the append protocol.   *)
AppendInv ==
    \A t \in Tasks :
        (/\ task[t].id \in Spends
         /\ task[t].pc \in AppendPCs \cup {"spLeaf", "spCountHit", "spCountMiss", "spRest"})
            => status[task[t].id] \in Committed

OwnNullifiers == \A s \in Spends, n \in Notes : spentBy[n] = s => n \in Inputs[s]

NullifierInv ==
    /\ ReservationInv /\ GuardInv /\ AdmittedInv /\ InsertInv /\ OrphanInv
    /\ ReconcileInv /\ AppendInv /\ OwnNullifiers
    /\ NoDoubleSpend /\ FailedSpendBurnsNothing

(* The tree holds a deposit's leaf only if its tokens were pulled, and an  *)
(* output's leaf only if the inputs of its spend are spent (law 3).        *)
EveryLeafPaidFor ==
    \A i \in 1..Len(leaves) :
        \/ leaves[i] \in pulled
        \/ \E s \in Spends : leaves[i] \in OutputsOf(s) /\ \A n \in Inputs[s] : spentBy[n] = s

(* No retry, reconciliation or late request appends a commitment again.    *)
NoLeafTwice ==
    \A i, j \in 1..Len(leaves) : leaves[i] = leaves[j] => i = j

(* Every leaf is paid for, and once, whatever was retried or reconciled.   *)
LeavesPaidOnce == EveryLeafPaidFor /\ NoLeafTwice

(* post_upgrade traps on no state the pool can be in: every record that    *)
(* needs the lease owns it, in the phase its status says.                  *)
AlwaysUpgradeable == UpgradeAccepted

(* commit_accepted_root_head never traps: while the lease is held the scan *)
(* head is exactly the append it was acquired for.                         *)
HeadNeverTraps ==
    \A t \in Tasks :
        (/\ At(t, "scanHead") /\ task[t].reply = "ok"
         /\ LeaseExpect(task[t].id, task[t].gen, "AppendConfirmedRootPending"))
            => HeadCommittable(task[t].num, ExpectedCount(task[t].id))

(* A call that resumes after an append or a reconciliation read still owns *)
(* the lease: same record, same generation, the phase it left it in.  No   *)
(* other call can have taken it over, and no lease_expect refuses it.      *)
PhaseAt(pc) ==
    CASE pc = "snapshot" -> "Snapshotting"
      [] pc = "append" -> "AppendInFlight"
      [] OTHER -> "ReconcileInFlight"

ResumedCallOwnsLease ==
    \A t \in Tasks :
        task[t].pc \in {"snapshot", "append", "recCount", "recLeaf", "spLeaf",
                       "spCountHit", "spCountMiss", "spRest"}
            => LeaseExpect(task[t].id, task[t].gen, PhaseAt(task[t].pc))

(* The append lease is exclusive where it counts: the head a call publishes *)
(* is that of its own append, the call that resumes still owns the lease,  *)
(* and a reconciliation never finds somebody else's leaf at the place of   *)
(* an append whose outcome is unknown.                                     *)
LeaseIsExclusive ==
    HeadNeverTraps /\ ResumedCallOwnsLease /\ \A t \in Tasks : ~AmbiguousTree(t)

(* Both accounting words are what the records say: every deposit credited  *)
(* once, every promoted spend debited once, no saturated subtraction.      *)
AccountingMatchesRecords ==
    /\ acct.escrow = acct.liability
    /\ acct.liability + Total([s \in Spends |-> Debit(s)], PromotedSpends)
           = Total(Amount, CreditedDeposits)
    /\ acct.reserves = Total(Fee, PromotedSpends)

(* Every note that can still be spent against an accepted root is covered  *)
(* by the liability word, hence by the escrow.                             *)
SpendableNotes == {leaves[i] : i \in {j \in 1..head : spentBy[leaves[j]] = NoRecord}}
SpendableNotesBacked == Total(Amount, SpendableNotes) <= acct.liability

(* An accepted root stays accepted, the head never goes back, and a        *)
(* terminal record never changes again.                                    *)
FinalityIsForever ==
    [][/\ accepted \subseteq accepted' /\ head <= head'
       /\ \A r \in Records : status[r] \in Terminal => status'[r] = status[r]]_vars

(* Once its tokens have moved, a deposit ends in the tree under an         *)
(* accepted root.                                                          *)
PulledDepositSettles ==
    \A d \in Deposits : d \in pulled ~> status[d] = "CommitmentRootAccepted"

(* Once its nullifiers are spent, a spend is promoted: outputs in the tree, *)
(* root accepted, accounting done.                                         *)
CommittedSpendSettles ==
    \A s \in Spends : (\E n \in Notes : spentBy[n] = s) ~> status[s] \in Promoted

(* The pool-wide lease never stays held for good. *)
LeaseIsReturned == []<>(lease = NoLease)
=============================================================================
