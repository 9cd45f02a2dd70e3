---------------------------- MODULE PayoutRetry -----------------------------
(***************************************************************************)
(* The public payout of a private spend: payout_retry.rs and the endpoints *)
(* that drive it (finalize_promotion, retry_private_spend_payout,          *)
(* reconcile_private_spend_payout, prune_terminal_records).  ShieldedPool  *)
(* ends where this module starts, at PayoutPending.                        *)
(*                                                                         *)
(* An executor is one run_payout: it claims the record, asks the ledger    *)
(* for balance and fee, freezes the request once and for all, and sends    *)
(* it.  Whatever happens to the executor, a later one sends the same bytes *)
(* again.  All payouts have the same gross amount and destination, so that *)
(* only the memo and the time tell their requests apart.                   *)
(***************************************************************************)
EXTENDS Integers, FiniteSets

CONSTANTS
    Ids,        \* spend ids of spends with a public payout
    Calls,      \* update calls that may be under execution at once
    Keys,       \* what raw_rand may return
    None,       \* the absent value: no record, no key, no frozen request
    Gross,      \* public_amount of a payout
    Fees,       \* transfer fees the ledger may have
    Window,     \* TX_DEDUP_WINDOW_NS
    MaxLive,    \* MAX_LIVE_PAYOUT_ATTEMPTS
    MaxFunds,   \* bound: payouts the pool's token account can cover
    MaxSeq,     \* bound: memo sequences given out
    MaxGen,     \* bound: claims of one record
    MaxTime,    \* bound: the clock
    MaxFaults   \* bound: failed calls, traps and upgrades in one behaviour

VARIABLES
    boot, next, key,    \* the control cell (MemoryId 25)
    rec,                \* PENDING_SPENDS: status, payout and retry state
    live,               \* LIVE, on the heap: the attempt that holds an id
    call,               \* the calls under execution, at an await
    accrued,            \* fee splits accrued, by the payout they stem from
    now,                \* time, in the units of Window
    fee, funds,         \* external: the ledger's fee, the pool's account
    paid, dedup,        \* external: blocks by memo sequence; TRANSFER_DEDUP
    orphans,            \* transfers under way whose callback is gone
    faults              \* failed calls, traps and upgrades so far

control == <<boot, next, key>>
ledger == <<fee, funds, paid, dedup>>
vars == <<control, rec, live, call, accrued, now, ledger, orphans, faults>>

Seqs == 0..(MaxSeq - 1)
Memos == [key : Keys, id : Ids, seq : Seqs]
Requests == [memo : Memos, fee : Fees, stamp : 0..MaxTime]
Attempts == [seq : Seqs, gen : 1..MaxGen, boot : 1..(MaxFaults + 1)]
Statuses == {"Promoting", "PayoutPending", "PayoutSubmitting", "PayoutUnknown", "Finalized"}

Records == [status : Statuses, seq : Seqs, gen : 0..MaxGen, boot : 1..(MaxFaults + 1),
            phase : {"PreDispatch", "MayHaveDispatched"},
            ambiguous : BOOLEAN, dispatched : BOOLEAN, frozen : Requests \cup {None}]

ASSUME PayoutAssumption ==
    /\ None \notin Ids \cup Keys \cup Fees \cup Records \cup Requests \cup Attempts
    /\ Gross \in Nat /\ Fees \subseteq Nat /\ Window \in Nat
    /\ MaxLive \in Nat /\ MaxFunds \in Nat /\ MaxSeq \in Nat
    /\ MaxGen \in Nat /\ MaxTime \in Nat /\ MaxFaults \in Nat

(* A call at an await: its guard's attempt, the request it sent, the fee   *)
(* it was told, the boot it started in.                                    *)
Executors == {"balance", "fee", "transfer"}
Replies == {"none", "error", "enough", "short", "fee",
            "Ok", "Duplicate", "BadFee", "TooOld", "InsufficientFunds"}

CallType == [pc : {"idle", "rand"} \cup Executors, reply : Replies, boot : Nat,
             id : Ids \cup {None}, attempt : Attempts \cup {None},
             req : Requests \cup {None}, fee : Fees \cup {None}]

Await(pc, id, a, req) == [pc |-> pc, reply |-> "none", boot |-> boot, id |-> id,
                          attempt |-> a, req |-> req, fee |-> None]
IdleCall == [pc |-> "idle", reply |-> "none", boot |-> 0, id |-> None,
             attempt |-> None, req |-> None, fee |-> None]

At(c, pc) == call[c].pc = pc
Executing(c) == call[c].pc \in Executors
Waiting(c, pc) == At(c, pc) /\ call[c].reply = "none"
Answered(c, pc) == At(c, pc) /\ call[c].reply # "none"
Fault == faults < MaxFaults /\ faults' = faults + 1

Finish(c) == call' = [call EXCEPT ![c] = IdleCall]
Write(id, r) == rec' = [rec EXCEPT ![id] = r]
Reply(c, r) == call' = [call EXCEPT ![c].reply = r]

-----------------------------------------------------------------------------
(* The memo key and the memo sequence.                                     *)

(* The first half of ensure_payout_memo_key. *)
AskMemoKey(c) ==
    /\ At(c, "idle") /\ key = None
    /\ call' = [call EXCEPT ![c] = Await("rand", None, None, None)]
    /\ UNCHANGED <<control, rec, live, accrued, now, ledger, orphans, faults>>

(* Faulty variant: a late answer replaces the key. *)
StoreLatestKey(c) ==
    /\ At(c, "rand")
    /\ \E k \in Keys : key' = IF boot = call[c].boot THEN k ELSE key
    /\ Finish(c)
    /\ UNCHANGED <<boot, next, rec, live, accrued, now, ledger, orphans, faults>>

(* The second half: of two answers the first one stays. *)
StoreMemoKey(c) ==
    /\ At(c, "rand")
    /\ \E k \in Keys : key' = IF boot = call[c].boot /\ key = None THEN k ELSE key
    /\ Finish(c)
    /\ UNCHANGED <<boot, next, rec, live, accrued, now, ledger, orphans, faults>>

(* raw_rand failed: PayoutMemoKeyNotReady. *)
MemoKeyFails(c) ==
    /\ At(c, "rand") /\ Fault
    /\ Finish(c)
    /\ UNCHANGED <<control, rec, live, accrued, now, ledger, orphans>>

(* Faulty variant: the sequence is taken after its increment. *)
ReserveNextSequence(id) ==
    /\ key # None /\ next < MaxSeq
    /\ next' = next + 1
    /\ Write(id, [status |-> "Promoting", seq |-> next + 1, gen |-> 0, boot |-> boot,
                  phase |-> "PreDispatch", ambiguous |-> FALSE, dispatched |-> FALSE,
                  frozen |-> None])

(* reserve_payout_sequence, in the segment that writes the record. *)
ReservePayoutSequence(id) ==
    /\ key # None /\ next < MaxSeq
    /\ next' = next + 1
    /\ Write(id, [status |-> "Promoting", seq |-> next, gen |-> 0, boot |-> boot,
                  phase |-> "PreDispatch", ambiguous |-> FALSE, dispatched |-> FALSE,
                  frozen |-> None])

(* private_spend admits the spend; an id is free again once it was pruned. *)
AdmitSpend(id) ==
    /\ rec[id] = None
    /\ ReservePayoutSequence(id)
    /\ UNCHANGED <<boot, key, live, call, accrued, now, ledger, orphans, faults>>

-----------------------------------------------------------------------------
(* Claims and guards.                                                      *)

AttemptOf(r) == [seq |-> r.seq, gen |-> r.gen, boot |-> r.boot]

(* validate_retry *)
ValidRetry(id) ==
    LET r == rec[id] IN
    /\ r.boot \in 1..boot /\ r.seq < next
    /\ r.dispatched => r.frozen # None
    /\ r.phase = "MayHaveDispatched" => r.dispatched /\ r.gen > 0
    /\ r.frozen # None => Gross > r.frozen.fee /\ r.gen > 0

(* Faulty variant: a record is normalised under a live executor. *)
NormalizedThoughLive(id) ==
    LET r == rec[id]
        sent == r.phase = "MayHaveDispatched" \/ r.ambiguous
    IN IF r.status = "PayoutSubmitting"
       THEN [r EXCEPT !.ambiguous = sent,
                      !.status = IF sent THEN "PayoutUnknown" ELSE "PayoutPending"]
       ELSE r

(* normalize_payout: a record whose executor is gone may be claimed again, *)
(* or, if any claim may have sent the request, waits for the operator.     *)
Normalized(id) ==
    LET r == rec[id]
        sent == r.phase = "MayHaveDispatched" \/ r.ambiguous
    IN IF r.status = "PayoutSubmitting" /\ live[id] = None
       THEN [r EXCEPT !.ambiguous = sent,
                      !.status = IF sent THEN "PayoutUnknown" ELSE "PayoutPending"]
       ELSE r

Claimable(id) ==
    /\ Cardinality({i \in Ids : live[i] # None}) < MaxLive
    /\ live[id] = None

(* Faulty variant: each claim prices its own request. *)
ClaimedAfresh(r) == [r EXCEPT !.status = "PayoutSubmitting", !.gen = @ + 1, !.boot = boot,
                              !.phase = "PreDispatch", !.dispatched = FALSE, !.frozen = None]

Claimed(r) == [r EXCEPT !.status = "PayoutSubmitting", !.gen = @ + 1, !.boot = boot,
                        !.phase = "PreDispatch"]

(* owned *)
Owned(c) ==
    LET r == rec[call[c].id] IN
    /\ r # None /\ r.status = "PayoutSubmitting"
    /\ AttemptOf(r) = call[c].attempt
    /\ live[call[c].id] = call[c].attempt

(* PayoutGuard::drop *)
DropGuard(c) ==
    live' = IF live[call[c].id] = call[c].attempt
            THEN [live EXCEPT ![call[c].id] = None] ELSE live

(* Faulty variant: the flag follows the last answer. *)
FinishForgettingAmbiguity(c, ambiguous) ==
    LET r == rec[call[c].id] IN
    /\ Write(call[c].id,
             [r EXCEPT !.ambiguous = ambiguous,
                       !.status = IF ambiguous THEN "PayoutUnknown" ELSE "PayoutPending"])
    /\ DropGuard(c) /\ Finish(c)
    /\ UNCHANGED accrued

(* Faulty variant: the slot is not given back. *)
FinishKeepingSlot(c, ambiguous) ==
    LET r == rec[call[c].id]
        unclear == r.ambiguous \/ ambiguous
    IN /\ Write(call[c].id,
                [r EXCEPT !.ambiguous = unclear,
                          !.status = IF unclear THEN "PayoutUnknown" ELSE "PayoutPending"])
       /\ Finish(c)
       /\ UNCHANGED <<accrued, live>>

(* finish_error *)
FinishError(c, ambiguous) ==
    LET r == rec[call[c].id]
        unclear == r.ambiguous \/ ambiguous
    IN /\ Write(call[c].id,
                [r EXCEPT !.ambiguous = unclear,
                          !.status = IF unclear THEN "PayoutUnknown" ELSE "PayoutPending"])
       /\ DropGuard(c) /\ Finish(c)
       /\ UNCHANGED accrued

(* terminal_payout: status and accrual in one segment. *)
Terminal(id, r) ==
    /\ Write(id, [r EXCEPT !.status = "Finalized"])
    /\ accrued' = [accrued EXCEPT ![r.seq] = @ + 1]

(* The dispatch boundary is written in the segment that sends the request. *)
Dispatch(c, id, r) ==
    /\ Write(id, [r EXCEPT !.phase = "MayHaveDispatched", !.dispatched = TRUE])
    /\ call' = [call EXCEPT ![c] = Await("transfer", id, AttemptOf(r), r.frozen)]

(* claim_payout on a record that is PayoutPending, and run_payout up to    *)
(* its first await: a request sent before is sent again unasked.           *)
ClaimAndRun(c, id, r) ==
    LET q == Claimed(r) IN
    /\ r.gen < MaxGen
    /\ live' = [live EXCEPT ![id] = AttemptOf(q)]
    /\ IF q.dispatched
       THEN Dispatch(c, id, q)
       ELSE /\ Write(id, q)
            /\ call' = [call EXCEPT ![c] = Await("balance", id, AttemptOf(q), None)]

-----------------------------------------------------------------------------
(* Endpoints.                                                              *)

(* finalize_promotion, which tries the payout at once when it was not      *)
(* entered from a reconcile endpoint; a full LIVE leaves it pending.       *)
Promote(c, id) ==
    /\ At(c, "idle") /\ rec[id] # None /\ rec[id].status = "Promoting"
    /\ LET r == [rec[id] EXCEPT !.status = "PayoutPending"] IN
       \/ Write(id, r) /\ UNCHANGED <<live, call>>
       \/ Claimable(id) /\ ClaimAndRun(c, id, r)
    /\ UNCHANGED <<control, accrued, now, ledger, orphans, faults>>

(* Open to anybody. *)
RetryPrivateSpendPayout(c, id) ==
    /\ At(c, "idle") /\ rec[id] # None /\ ValidRetry(id)
    /\ LET r == Normalized(id) IN
       IF r.status = "PayoutPending" /\ Claimable(id)
       THEN ClaimAndRun(c, id, r)
       ELSE Write(id, r) /\ UNCHANGED <<live, call>>
    /\ UNCHANGED <<control, accrued, now, ledger, orphans, faults>>

(* The operator says Executed of what the ledger's blocks show. *)
ReconcileExecuted(id) ==
    /\ rec[id] # None /\ ValidRetry(id) /\ paid[rec[id].seq] > 0
    /\ LET r == Normalized(id) IN
       IF r.status = "PayoutUnknown"
       THEN Terminal(id, r)
       ELSE Write(id, r) /\ UNCHANGED accrued
    /\ UNCHANGED <<control, live, call, now, ledger, orphans, faults>>

(* NotExecuted may be wrong, or become wrong: it allows an exact replay,   *)
(* and the ambiguity stays.                                                *)
ReconcileNotExecuted(id) ==
    /\ rec[id] # None /\ ValidRetry(id)
    /\ LET r == Normalized(id) IN
       IF r.status = "PayoutUnknown" /\ r.frozen # None
       THEN Write(id, [r EXCEPT !.status = "PayoutPending"])
       ELSE Write(id, r)
    /\ UNCHANGED <<control, live, call, accrued, now, ledger, orphans, faults>>

PruneTerminalRecord(id) ==
    /\ rec[id] # None /\ rec[id].status = "Finalized"
    /\ Write(id, None)
    /\ UNCHANGED <<control, live, call, accrued, now, ledger, orphans, faults>>

-----------------------------------------------------------------------------
(* The callbacks of run_payout.  Each starts with owned(); an executor     *)
(* that lost the record writes nothing.                                    *)

Resume(c, Step) ==
    IF Owned(c) THEN Step
    ELSE DropGuard(c) /\ Finish(c) /\ UNCHANGED <<rec, accrued>>

BalanceReply(c) ==
    /\ Answered(c, "balance")
    /\ LET id == call[c].id IN
       Resume(c, IF call[c].reply # "enough" THEN FinishError(c, FALSE)
                 ELSE /\ IF rec[id].frozen = None
                         THEN /\ call' = [call EXCEPT ![c] = Await("fee", id, @.attempt, None)]
                              /\ UNCHANGED rec
                         ELSE Dispatch(c, id, rec[id])
                      /\ UNCHANGED <<live, accrued>>)
    /\ UNCHANGED <<control, now, ledger, orphans, faults>>

(* The request, with the key and time of this segment. *)
Frozen(id, f) == [memo |-> [key |-> key, id |-> id, seq |-> rec[id].seq],
                  fee |-> f, stamp |-> now]

FeeReply(c) ==
    /\ Answered(c, "fee")
    /\ LET id == call[c].id IN
       Resume(c, IF call[c].reply = "error" \/ key = None THEN FinishError(c, FALSE)
                 ELSE IF call[c].fee >= Gross THEN FinishError(c, FALSE)
                 ELSE /\ Dispatch(c, id, [rec[id] EXCEPT !.frozen = Frozen(id, call[c].fee)])
                      /\ UNCHANGED <<live, accrued>>)
    /\ UNCHANGED <<control, now, ledger, orphans, faults>>

(* BadFee and TooOld come before the ledger looks for the request: they    *)
(* say nothing of an earlier one.                                          *)
TransferReply(c) ==
    /\ Answered(c, "transfer")
    /\ Resume(c, IF call[c].reply \in {"Ok", "Duplicate"}
                 THEN Terminal(call[c].id, rec[call[c].id]) /\ DropGuard(c) /\ Finish(c)
                 ELSE FinishError(c, call[c].reply \in {"BadFee", "TooOld", "error"}))
    /\ UNCHANGED <<control, now, ledger, orphans, faults>>

-----------------------------------------------------------------------------
(* The ledger.                                                             *)

LedgerBalance(c) ==
    /\ Waiting(c, "balance")
    /\ Reply(c, IF funds > 0 THEN "enough" ELSE "short")
    /\ UNCHANGED <<control, rec, live, accrued, now, ledger, orphans, faults>>

LedgerFee(c) ==
    /\ Waiting(c, "fee")
    /\ call' = [call EXCEPT ![c].reply = "fee", ![c].fee = fee]
    /\ UNCHANGED <<control, rec, live, accrued, now, ledger, orphans, faults>>

(* Faulty variant: the memo is not part of the request's identity. *)
DedupKeyWithoutMemo(req) == [fee |-> req.fee, stamp |-> req.stamp]

(* transfer_dedup_key *)
DedupKey(req) == [memo |-> req.memo, fee |-> req.fee, stamp |-> req.stamp]

(* Faulty variant: the entry at the edge of the window is dropped. *)
StaleIncludingEdge(stamp) == now - stamp >= Window

(* prune_expired_dedup: created_at_time < now - TX_DEDUP_WINDOW_NS *)
Stale(stamp) == now - stamp > Window

(* icrc1_transfer of the pool; the checks in their order.                  *)
TransferOutcome(req) ==
    IF req.fee # fee THEN "BadFee"
    ELSE IF now - req.stamp > Window THEN "TooOld"
    ELSE IF DedupKey(req) \in dedup THEN "Duplicate"
    ELSE IF funds = 0 THEN "InsufficientFunds"
    ELSE "Ok"

LedgerExecutes(req) ==
    IF TransferOutcome(req) = "Ok"
    THEN /\ funds' = funds - 1
         /\ paid' = [paid EXCEPT ![req.memo.seq] = @ + 1]
         /\ dedup' = {d \in dedup : ~Stale(d.stamp)} \cup {DedupKey(req)}
         /\ UNCHANGED fee
    ELSE UNCHANGED ledger

LedgerTransfer(c) ==
    /\ Waiting(c, "transfer")
    /\ Reply(c, TransferOutcome(call[c].req))
    /\ LedgerExecutes(call[c].req)
    /\ UNCHANGED <<control, rec, live, accrued, now, orphans, faults>>

SetTransferFee(f) ==
    /\ f # fee /\ fee' = f
    /\ UNCHANGED <<control, rec, live, call, accrued, now, funds, paid, dedup, orphans, faults>>

Fund ==
    /\ funds < MaxFunds /\ funds' = funds + 1
    /\ UNCHANGED <<control, rec, live, call, accrued, now, fee, paid, dedup, orphans, faults>>

Tick ==
    /\ now < MaxTime /\ now' = now + 1
    /\ UNCHANGED <<control, rec, live, call, accrued, ledger, orphans, faults>>

-----------------------------------------------------------------------------
(* Failures.                                                               *)

(* A call fails in transport: not executed, or executed and not answered.  *)
CallErrors(c) ==
    /\ Executing(c) /\ call[c].reply # "error" /\ Fault
    /\ Reply(c, "error")
    /\ UNCHANGED <<control, rec, live, accrued, now, ledger, orphans>>

(* A callback traps: what it wrote is rolled back, its guard is dropped.   *)
CallbackTraps(c) ==
    /\ Executing(c) /\ call[c].reply # "none" /\ Fault
    /\ DropGuard(c) /\ Finish(c)
    /\ UNCHANGED <<control, rec, accrued, now, ledger, orphans>>

(* payout_control_upgrade; records keep their status. *)
Upgrade ==
    /\ Fault
    /\ boot' = boot + 1
    /\ live' = [id \in Ids |-> None]
    /\ orphans' = orphans \cup
          {[req |-> call[c].req, attempt |-> call[c].attempt] :
              c \in {d \in Calls : Waiting(d, "transfer")}}
    /\ call' = [c \in Calls |-> IdleCall]
    /\ UNCHANGED <<next, key, rec, accrued, now, ledger>>

(* No order is assumed between an orphan and what is sent after it. *)
DeliverOrphan(o) ==
    /\ LedgerExecutes(o.req)
    /\ orphans' = orphans \ {o}
    /\ UNCHANGED <<control, rec, live, call, accrued, now, faults>>

RejectOrphan(o) ==
    /\ orphans' = orphans \ {o}
    /\ UNCHANGED <<control, rec, live, call, accrued, now, ledger, faults>>

-----------------------------------------------------------------------------
Init ==
    /\ boot = 1 /\ next = 0 /\ key = None
    /\ rec = [id \in Ids |-> None] /\ live = [id \in Ids |-> None]
    /\ call = [c \in Calls |-> IdleCall]
    /\ accrued = [s \in Seqs |-> 0]
    /\ now = 0 /\ fee \in Fees /\ funds = MaxFunds
    /\ paid = [s \in Seqs |-> 0] /\ dedup = {}
    /\ orphans = {} /\ faults = 0

CallStep(c) ==
    \/ StoreMemoKey(c)
    \/ LedgerBalance(c) \/ LedgerFee(c) \/ LedgerTransfer(c)
    \/ BalanceReply(c) \/ FeeReply(c) \/ TransferReply(c)

Retry(id) == \E c \in Calls : RetryPrivateSpendPayout(c, id)
PromoteSpend(id) == \E c \in Calls : Promote(c, id)

Next ==
    \/ \E c \in Calls : AskMemoKey(c) \/ CallStep(c)
    \/ \E c \in Calls : MemoKeyFails(c) \/ CallErrors(c) \/ CallbackTraps(c)
    \/ \E id \in Ids : AdmitSpend(id) \/ PromoteSpend(id) \/ Retry(id)
    \/ \E id \in Ids : ReconcileExecuted(id) \/ ReconcileNotExecuted(id)
    \/ \E id \in Ids : PruneTerminalRecord(id)
    \/ \E f \in Fees : SetTransferFee(f)
    \/ Fund \/ Tick \/ Upgrade
    \/ \E o \in orphans : DeliverOrphan(o) \/ RejectOrphan(o)

Spec == Init /\ [][Next]_vars

(* Replies come, somebody retries, and the operator looks at every payout  *)
(* that is left unknown.                                                   *)
LiveSpec ==
    /\ Spec
    /\ \A c \in Calls : WF_vars(CallStep(c))
    /\ \A id \in Ids : /\ SF_vars(PromoteSpend(id)) /\ SF_vars(Retry(id))
                       /\ SF_vars(ReconcileNotExecuted(id))

-----------------------------------------------------------------------------
TypeOK ==
    /\ boot \in 1..(faults + 1) /\ next \in 0..MaxSeq /\ key \in Keys \cup {None}
    /\ rec \in [Ids -> Records \cup {None}]
    /\ live \in [Ids -> Attempts \cup {None}]
    /\ call \in [Calls -> CallType]
    /\ \A c \in Calls : Executing(c) =>
          /\ call[c].id # None /\ call[c].attempt # None
          /\ At(c, "fee") /\ call[c].reply \notin {"none", "error"} => call[c].fee # None
          /\ At(c, "transfer") => call[c].req # None
    /\ accrued \in [Seqs -> Nat] /\ paid \in [Seqs -> Nat]
    /\ now \in 0..MaxTime /\ fee \in Fees /\ funds \in 0..MaxFunds
    /\ dedup \subseteq Requests
    /\ orphans \subseteq [req : Requests, attempt : Attempts]
    /\ faults \in 0..MaxFaults

(* However often a payout is retried, after lost replies, traps, upgrades, *)
(* wrong answers of the operator and at the edge of the ledger's window,   *)
(* the ledger moves its tokens at most once.                               *)
PaidAtMostOnce == \A s \in Seqs : paid[s] <= 1

MaybeSent(r) ==
    \/ r.ambiguous
    \/ r.status = "PayoutSubmitting" /\ r.phase = "MayHaveDispatched"

(* finish_error and normalize_payout call a payout definitely not executed *)
(* only when it was not and when no request of it is under way.            *)
UnambiguousIsUnpaid ==
    \A id \in Ids :
        rec[id] # None /\ rec[id].status # "Finalized" /\ ~MaybeSent(rec[id]) =>
            /\ paid[rec[id].seq] = 0
            /\ \A o \in orphans : o.req.memo.seq # rec[id].seq

(* The claim, the guard and the refusal to reconcile a live executor keep  *)
(* the record for the executor across its awaits.                          *)
ResumedExecutorIsOwner == \A c \in Calls : Executing(c) => Owned(c)

(* The memo key is drawn once, whoever asks for it, and a payout's request *)
(* never changes once it is frozen.                                        *)
IdentityIsFinal ==
    [][/\ key # None => key' = key
       /\ \A id \in Ids : rec[id] # None =>
            /\ rec[id].frozen # None /\ rec'[id] # None => rec'[id].frozen = rec[id].frozen
            /\ rec'[id] = None => rec[id].status = "Finalized"]_vars

(* Executors, frozen requests and deduplication implement the payout.      *)
LegState == [s \in Seqs |->
    IF s >= next THEN "free"
    ELSE IF \E id \in Ids : rec[id] # None /\ rec[id].seq = s /\ rec[id].status # "Finalized"
    THEN "owed" ELSE "settled"]

Leg == INSTANCE PayoutLeg WITH state <- LegState

ImplementsPayoutLeg == Leg!Spec

(* A payout is settled, or its request has left the ledger's window and is *)
(* the operator's to settle: nobody retries it for ever in between.        *)
Done(id) == IF rec[id] = None THEN TRUE
            ELSE \/ rec[id].status = "Finalized"
                 \/ IF rec[id].frozen = None THEN FALSE ELSE Stale(rec[id].frozen.stamp)

PayoutCompletes == \A id \in Ids : (rec[id] # None) ~> Done(id)
=============================================================================
