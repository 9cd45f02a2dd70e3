# Verification of the STSH protocol

TLA+ models of the canisters under `src/canisters/`, checked with TLC on small
instances and, where it says so below, proved with TLAPS for every value of the
constants. Paths are relative to the repository; `lib.rs` without a directory
is `src/canisters/shielded-pool/src/lib.rs`.

## 1. Inventory

The protocol keeps private notes on the Internet Computer. Tokens enter the
*shielded pool* by a deposit, which puts a note commitment into a Merkle tree;
a private spend proves knowledge of notes in an accepted tree, burns their
nullifiers and puts new commitments into the tree, optionally paying some value
out. A canister executes one message segment at a time, from an ingress message
or a reply to the next `await`; segments of different calls interleave freely,
and an upgrade drops every waiting callback while the requests already sent
still execute. Most of the protocol's difficulty is in those two sentences.

| Component | State | Operations | Talks to | Hard part |
|---|---|---|---|---|
| shielded-pool, deposits | `PENDING_DEPOSITS`, nonces, sidecars with the settlement claim | `shield_deposit`, `retry_deposit_commitment`, `settle_deposit_transfer`, three `reconcile_deposit_*` | token, merkle-tree | lost replies of the pull and of the append; late pulls; stale claims |
| shielded-pool, spends | `PENDING_SPENDS`, `PENDING_OUTPUTS`, `INFLIGHT_NULLIFIERS`, `VERIFY_PENDING_NULLIFIERS` | `private_spend`, `reconcile_nullifier_insert`, `reconcile_pending_spend` | verifier, nullifier-registry, merkle-tree, vetkeys | rival spends across awaits; lost reply of `insert_batch`; upgrades in the middle |
| append lease and root head | `APPEND_LEASE`, `ACCEPTED_ROOT_HEAD`, `ACCEPTED_SPEND_ROOTS` | acquire, transition, release, commit of a head | shared by the two above | one owner through several awaits; traps on upgrade |
| accounting words | liability, escrow, three fee reserves | credit, debit | all of the above | exactly once per record |
| payout retries | retry state of the record, memo key, sequence, `LIVE` executors | `run_payout`, `retry_private_spend_payout`, `reconcile_private_spend_payout`, `prune_terminal_records` | token | lost transfer replies, the deduplication window, one executor per record |
| treasury disbursement | `TREASURY_DISBURSEMENTS`, tombstones | `treasury_disburse`, `reconcile_treasury_disburse` | token, treasury | unknown outcome, restore once |
| fees and notifications | fee parameters, epochs, accrual cell, flush timer | governance setters, flush | treasury | timers, cooldowns, lost notifications |
| recovery scan | `RECOVERY_CURSOR_CELL`, active indexes, index version | chunked rebuild, `recovery_gate`, the stamp | every gated endpoint, `post_upgrade` | progress by the refused calls; reservations missing meanwhile; what a stamped index must contain |
| spend admission | failed-verification log, tickets | admit, resolve, prune | vetkeys | limits and windows |
| merkle-tree | leaves, frontier, root, payloads | `append_commitment(s)`, reads | - | capacity, batch atomicity |
| nullifier-registry | spent nullifiers | `insert_batch`, `contains_nullifier` | - | batch atomicity |
| token | balances, allowances, deduplication table, `DEPOSIT_RECEIPTS` | ICRC-1/2 transfers, `get_deposit_receipt`, `close_deposit_attempt` | treasury | fence against a pull under way, 24-hour window |
| vault, custody-types | proposals, approvals, outcomes | custody multisig; upgrades itself through the Upgrader | upgrader, every canister it controls | its own upgrade drops its callbacks; unknown outcomes and their reconciliation |
| upgrader | upgrade intents, recovery proposals | `trigger_vault_upgrade`, `reconcile_vault_upgrade`, recovery proposals | vault, management canister | two origins under one lock; crash between steps |
| vetkeys | device registry, tickets, rotation fence, pins | derive, rotate | management canister | fence against calls in flight |
| treasury | buckets, proposals, `INFLIGHT_RESERVATIONS` | propose, `execute_withdrawal`, reject, `receive_fee_split` | pool, token | a debit that two canisters book; unknown outcome of a disbursement |
| staking, vesting | positions, schedules | stake, claim | token | reward arithmetic, claims |
| smoke-alarm-monitor | latch, last readings | poll | pool | stale readings |
| verifier, fee-policy, eager-cell, field-utils | - | pure functions | - | arithmetic; unit-tested |
| wallet, website, circuits, scripts | client code | - | - | not modelled |

What makes each modelled component correct is stated as its properties in
section 3; `PROJECT.json` lists the hazards line by line with the property that
covers each.

## 2. Modules

    ShieldedPool            note life cycle: deposits, spends, lease, accounting, upgrades
      MCShieldedPool          instances (PoolRivals, PoolLive)
      ShieldedPool_proofs     type correctness; the nullifier invariant and what follows
      ShieldedPool_lease      the append lease, the tree and the books
      FiniteSums              sums over finite sets, for the books
    DepositLeg              abstract: what the token leg of a deposit promises
    DepositSettlement       the claim, receipt, resubmission and fence that implement it
      MCDepositSettlement     instances (Settlement, SettlementTakeover)
      DepositSettlement_proofs  types, credited once, decided once, refinement
    PayoutLeg               abstract: what a public payout promises
    PayoutRetry             the executors, frozen requests and ledger that implement it
      MCPayoutRetry           instances (PayoutRivals, PayoutLive)
      PayoutRetry_proofs      ownership, paid at most once, ambiguity, identity, refinement
    TreasuryFlow            composition of pool, treasury and token: fee reports, withdrawals
      MCTreasuryFlow          instances (Treasury, TreasuryRefused, TreasuryBlocked)
      TreasuryFlow_proofs     paid at most once, both books, losses of fee reports
    CustodyRing             composition of Vault and Upgrader: who upgrades whom, and how it ends
      MCCustodyRing           instances (CustodyRing)
      CustodyRing_proofs      one lock per module, the planes agree, evidence is sound
    RecoveryScan            the chunked recovery scan of the pool, its gate and its indexes
      MCRecoveryScan          instances (Recovery, RecoveryWedged)
      RecoveryScan_proofs     no reservation is missed, the stamped index is complete

**ShieldedPool.** One action is one await-free segment. `task[t]` is an update
call; its `pc` names the await it rests at (`"transfer"`, `"snapshot"`,
`"append"`, `"scanHead"`, `"insert"`, ...), `gen` the lease generation it holds
in a local variable, `guard` its RAII guard on nullifiers, `todo`/`seen` the
nullifiers still to be asked and those found spent. What the called canister
does is a separate action (`TreeAppend`, `RegistryInsert`,
`LedgerTransferFrom`, ...), so that a reply may be stale when the callback
runs. `status`, `index`, `staged`, `lease`, `inflight`, `accepted`, `head` and
`acct` are the stable maps and cells of the source; `VerifyPending` is derived
from the live guards, which is what dropping a guard with its call means.
The append protocol is written once for deposits and spends where the two code
paths agree (`ClaimAppend`, `AppendRejected`, `AppendOutcomeUnknown`, ...).

`CallFailure` gathers what a call that fails in transport may lead to. A failed
call was executed or was not: `TreeAppend` may or may not precede
`AppendOutcomeUnknown`. `Upgrade` applies `classify_*_status_for_upgrade`, the
lease-tuple table and `rebuild_inflight_nullifiers`, resets the calls and turns
every undelivered request into an *orphan*, which `DeliverOrphan` executes or
`RejectOrphan` drops.

**DepositSettlement** refines the one step that ShieldedPool takes for
`settle_deposit_transfer`. An operation is one life of a record (a fresh nonce,
hence a fresh receipt key). `old`, `claim = "stale"` and `window` are the three
deadlines the code compares the time with. The token canister's replies are
grouped by what the pool does with them: `"Applied"` (Ok, Duplicate),
`"Rejected"` (TooOld, BadFee, insufficient funds or allowance: definite), and
`"Unclear"` (every other error). **DepositLeg** is what is left when claims,
receipts and awaits are forgotten: `Leg` is the refinement mapping, and
`ImplementsDepositLeg` is checked.

**PayoutRetry** takes over where ShieldedPool ends, at `PayoutPending`. An
executor is one `run_payout`: `call[c].pc` is the await it rests at
(`"balance"`, `"fee"`, `"transfer"`; `"rand"` for the draw of the memo key), its
`attempt` the value its RAII guard holds, `live` the heap map `LIVE`, `rec` the
record with its retry state. `Resume` is the `owned()` test every callback
starts with. The ledger's steps (`LedgerBalance`, `LedgerFee`,
`LedgerTransfer`) are separate, in the order of its own checks
(`TransferOutcome`), and use a deduplication table with a window on `now`. A
callback that traps rolls back its writes and drops its guard
(`CallbackTraps`); `Upgrade` drops the calls, clears `LIVE` and leaves requests
as orphans. `ReconcileExecuted` is allowed only of what the ledger's blocks
show, `ReconcileNotExecuted` always: a mistaken operator must not cause a double
payment. **PayoutLeg** forgets executors, requests and deduplication: of a memo
sequence it says owed, paid, settled with its fee accrued.

**TreasuryFlow** joins three canisters around one reserve bucket. A proposal's
`turn` is its `execute_withdrawal` in the treasury, at rest while it waits for
`icrc1_fee` (`"fee"`) or for the pool (`"pool"`); `rsv` is its reservation with
the encumbrance (`total`) that a retry keeps. `call[h]` is one
`treasury_disburse` from the request to the reply: `"sent"`, `"validation"`
(the awaits before the debit), `"transfer"`, `"answered"`, `"replied"`; a
caller that was upgraded away no longer awaits it. `rec` and `tomb` are the
disbursement records and tombstones, `reserve` and `balance` the two words that
mirror each other. `Execute`, `FeeReply`, `PoolReply` are the segments of
`execute_withdrawal` up to and after its two awaits; `TreasuryDisburse`,
`Validated`, `TransferReply` those of the pool. `TreasuryUpgrade` sweeps
reservations, `PoolUpgrade` sweeps records and leaves requests as orphans.
A fee report (`notices`) is sent and forgotten; `gauge` is what the pool counts
of it, `lost` what never arrived.

**CustodyRing** follows an upgrade through both canisters. `outcome` is what the
Vault's `PROPOSALS` say, `intent` and `recovery` what the Upgrader's
`UPGRADE_INTENTS` and `RECOVERY_PROPOSALS` say. `awaiting` and `serving` are the
callbacks the two hold; `installing` are `install_code` requests at the
management canister and `result` its answers. An install replaces the module
and with it every callback of its canister (`VaultUpgraded`,
`UpgraderUpgraded`): that is why the Vault can never hear the answer of its own
upgrade, and why reconciliations exist. `since` is a history variable. `Id` is
the number an intent is recorded under: the Upgrader keys intents by origin and
number (`core.rs:268-286`), the Vault's proposal counter gives the one, its own
the other. The Vault names an intent by both, the members by the number alone;
`Named` is what they find, and a reconciliation of theirs that finds two intents
decides neither (`ApproveRecoveryReconcile`).

**RecoveryScan** is about what an upgrade forgets. `pool` is the part of the
pool's state a trap rolls back as one: the statuses of the records, the two
active indexes, the reserved nullifiers, the cursor and the stamp. `Visited` is
one record in `recovery_scan_slice`, `Visit` finds the phase it belongs to, and
`Advance` is a message's chunk of `Chunk` visits (a recursive function), with
the stamp or the trap of `finish_recovery_build` at its end. `AfterGate` is
`recovery_gate` as the set of what it leaves (empty if it traps), `Entered` the
part of it that admits the call: every gated operation starts from there, and
`Knock` is a call that gets no further. `post_upgrade` takes the index if it is
stamped and the first chunk if it is not (`Started`, `Upgrade`). Deposits and
spends keep the statuses that the passes tell apart; a deposit is open until its
root is accepted, a spend is `"committed"` from the registry's answer to its
settlement. `scalls` says who works on a spend: `"early"` is a `private_spend`
that has no record yet, `"client"` one that has, `"operator"` a recovery. There is
at most one: an operator who takes up a spend whose client still waits, which
takes a scan that opened before its third phase was over, is left out.
ShieldedPool models the same reservations with a stamped index only
and in far more detail; it is not composed with the scan.

### Abstractions

* A root is the number of leaves under it, a nullifier is its note, and the
  commitments of different records are different. `get_root` and `leaf_count`
  of a promotion's snapshot are one await; the lease makes them agree.
* Calls from the pool to one canister are delivered in order (ShieldedPool), as
  the platform guarantees; an orphan therefore reaches the tree or registry
  before a later query. DepositSettlement assumes no order at all, since the
  fence is meant to make a late pull harmless.
* No call in the pool uses a bounded-wait timeout, so an error reply means the
  request was executed and its reply was lost, or it never will be executed.
* `Provable` stands for the circuit and the verifier: an accepted proof shows
  each input to be a leaf of the anchored tree. `SumBalance` is what the
  circuit proves about amounts.
* `CreditDeposit` leaves out the credit of the deposit's fees to the reserves
  (`apply_deposit_fee_credits`, `lib.rs:4773`), a synchronous part of the same
  segment; the reserves are in TreasuryFlow.
* In ShieldedPool a payout ends at `PayoutPending`: tokens are owed, accounting
  is done. PayoutRetry starts there; its `Promoting` is a record whose append
  succeeded.
* In PayoutRetry all payouts have the same gross amount and destination, which
  leaves only the memo and the time to tell requests apart: the worst case for
  deduplication. No order is assumed between an orphan and later calls. The
  ledger's fee may change (`SetTransferFee`, external: the token canister fixes
  its own, `canisters/token/src/lib.rs:3768`, but the pool's `BadFee` arm
  expects a change). `CreatedInFuture` is left out, since pool and ledger share
  the subnet's clock in the model; it is treated like `TooOld` by the code. Left
  out as well: records from before the retry state existed, pauses and the
  recovery gate, which all end a call before it claims anything.
* Left out because they change nothing the properties see: pauses, admission
  tickets, the device check (`lib.rs:6750`) and the key attestation
  (`lib.rs:6762`), which end the call before a record exists; recovery indexes
  and the unstamped upgrade (see RecoveryScan); retention; statuses that only records
  of earlier versions rest in (`CommitmentPending`, `NullifierReserved`, `Requested`). `withdraw` fails closed (`lib.rs:8992`), so no withdrawal nullifier
  is ever active and the conflict check at `lib.rs:13601` never refuses.
* TreasuryFlow has one bucket: admission, debits and credits are per bucket.
  Signers, quorum and timelock only delay a proposal; the two queries before
  the debit (fee and pool balance) are one await; the deduplication of
  `icrc1_transfer` is left out, since no step sends a disbursement's request
  twice. The ledger's fee rises finitely often. The operator may be wrong, but
  decides only about a record whose call is gone, which is what the comments on
  the reconcilable states ask of her.
* In CustodyRing the approvals of a proposal are one step, the one that reaches
  the quorum; evidence is observed when a reconciliation is proposed; a
  reconciliation is a slot that is used again. Requests from the Vault to the
  Upgrader arrive in order. An install whose answer is a rejection may have
  landed. `Id` is a constant, arbitrary but unique within an origin: the
  counters are independent, so any two intents of different origins may have the
  same number, and the instance gives its two the same one. A members'
  reconciliation whose number no undecided intent has is left out: it is always
  refused. Only the three kinds of upgrade are modelled, not `start_canister`:
  the comments at `core.rs:3700` and `4100` describe a lock shared with starts
  which `trigger_begin` does not consult.
* DepositSettlement abstracts the append: `ClaimDepositAppend`, success or
  refusal. Field mismatches of a receipt and the replies a misconfigured token
  gives only release the claim.

## 3. Runs

| Run | Instance | What it shows |
|---|---|---|
| PoolRivals | two deposits; `s1` spends one note, `s2` both; 2 calls, 3 faults, 3 leaves | safety: all invariants and action properties of the pool (628,000 states up to symmetry) |
| PoolLive | one deposit, `s1` spends it, `s2` spends `s1`'s output; 2 faults, 2 epochs; `LiveSpec` | what was committed elsewhere settles, the lease returns, value follows the notes |
| Settlement | 3 calls, 3 operations, 3 faults; `LiveSpec` | a pull is kept, credited once, decided once, and becomes a note; refinement of DepositLeg |
| SettlementTakeover | 3 calls, 1 operation, 1 fault, `LateSettlement` | **violated**: finding 1 |
| PayoutRivals | 2 payouts, tokens for one at a time, 2 calls, 2 fees, 2 memo keys, window 0, 1 fault | refinement of PayoutLeg; ownership; "not executed" is true when it is said |
| PayoutLive | 2 payouts, one executor slot, 1 fault; `LiveSpec` | every payout settles unless its request leaves the ledger's window |
| Treasury | 2 withdrawals of one bucket, a fee report, 2 ledger fees, 1 fault; `LiveSpec` | paid once, both books agree, unknown outcomes are resolved or refused (161,000 states) |
| TreasuryRefused | the same, without fairness | **violated**: finding 2 |
| TreasuryBlocked | the same, one ledger fee, a larger bucket; `LiveSpec` | **violated**: finding 3 |
| CustodyRing | one upgrade of each kind, one reconciliation of each kind, 1 fault; `LiveSpec` | one lock per module, the planes agree, evidence is sound, every upgrade is decided |
| Recovery | one deposit, two spends of one note, chunks of 2, 2 upgrades, 1 fault; `LiveSpec` | the stamped index is complete, no reservation is missed, refusals open the gate (188,000 states) |
| RecoveryWedged | one deposit, one spend, chunks of 2, 1 upgrade, no fault; `ServedSpec` | **violated**: finding 4 |

Safety of the pool, in the order in which the questions arise:

* `NoDoubleSpend`, `FailedSpendBurnsNothing`: the registry and the pool's
  records agree on who spent a note, also when the reply of `insert_batch` was
  lost or arrives after an upgrade. `NullifierInv` is their inductive
  strengthening (section 4).
* `LeavesPaidOnce`: the tree holds nothing that was not paid for and nothing
  twice, although a lost append is retried or reconciled.
* `LeaseIsExclusive`, `FinalityIsForever`: the lease is exclusive over awaits, so
  the head a call publishes is its own append's.
* `AlwaysUpgradeable`: `post_upgrade` has several traps; none is reachable.
* `AccountingMatchesRecords`, `SpendableNotesBacked`: the accounting words equal
  what the records say and cover what can be spent. That pulled tokens always
  have a record is `PulledHasRecord` of DepositSettlement.

Safety of the payouts:

* `PaidAtMostOnce`, `ImplementsPayoutLeg`: the ledger moves the tokens once, at
  the window's edge, after lost replies, upgrades and wrong operator answers,
  and also for a spend id that is pruned and used again.
* `UnambiguousIsUnpaid`: `finish_error` and `normalize_payout` return a record to
  `PayoutPending` without its ambiguity flag only if nothing was executed and
  nothing is under way.
* `ResumedExecutorIsOwner`, `IdentityIsFinal`: one executor and one request.

Treasury:

* `PaidAtMostOnce`, `ReserveDebitedOnce`: the pool sends one request per
  withdrawal and takes its amount from the reserve once, whatever is retried,
  lost, swept by an upgrade or wrongly decided.
* `MirrorExact`: the treasury's bucket and the pool's reserve differ by exactly
  what is on its way. This is what admission under all encumbrances is for: two
  withdrawals each covered alone break it.
* `LossIsVisible`: a fee report that never arrives was counted as failed or
  dropped, or is about to be.
* `WithdrawalResolvesOrIsRefused`: an unknown outcome ends unless a retry is
  refused for one of the reasons in `Refused`. One of them is not temporary: a
  first attempt that the pool never received freezes the treasury's total, and
  when the ledger's fee has changed since, the pool's validation refuses every
  retry, while `reject_proposal` refuses an active reservation.

Custody ring:

* `InstallHoldsLock`: an install that may still land holds the lock of its
  target, through both planes, upgrades and reconciliations.
* `PlanesAgree`, `ExecutedWasLive`: no order of answers makes the Vault say
  something the Upgrader does not; evidence seen before the intent never
  decides it. (Evidence seen after the intent and before its install ran may
  call an install failed that then lands; the code accepts that.)
* `RingSettles`: again and again every upgrade is decided or `Stranded`. Both
  ways of being stranded are real, and both hold the lock for good:
  - `Orphaned`: when the Vault upgrades the Upgrader while the Upgrader upgrades
    the Vault, the first one to be upgraded drops the callback of the other,
    whose outcome stays `Executing`; an Upgrader's intent and the Vault's own
    upgrade of the Upgrader are reconciled only from `OutcomeUnknown`.
  - `Ambiguous`: a recovery upgrade ends `OutcomeUnknown`, and an intent of the
    Vault has its number. Only the members can decide a recovery intent; their
    reconciliation names no origin (`upgrader/src/lib.rs:377-379`), and
    `resolve_intent` refuses a number of both (`core.rs:2988-2996`,
    `3075-3089`). Intents are never removed, so that an upgrade decided long ago
    is enough. The members' decision about an intent of the Vault is refused in
    the same way, even if the recovery intent was only withdrawn, but there the
    Vault's own reconciliation remains.

  A recovery proposal that ended `OutcomeUnknown` is never updated when its
  intent is reconciled; the property is about the intent.

Recovery scan:

* `NoteSpentOnce`: until a spend's reservation is back, a second spend of its
  note must not pass the gate; this is the reason the gate exists.
* `StampedIndexComplete`: a stamped index lists every unsettled record and
  nothing else, from then on. A later upgrade restores reservations from nothing
  but the index, so what it misses is lost.
* `GateOpens`: the calls the gate refuses are what opens it. A refusal that
  traps takes its chunk back and breaks this; `prune_terminal_records` refuses by
  trap (`lib.rs:1861`), so that the progress its message reports is undone.

The comment on `PayoutSubmitting` (`lib.rs:2886-2896`) says that a definite
rejection by the ledger reverts to `PayoutPending`. The code is more careful
than that: `BadFee`, `TooOld` and `CreatedInFuture` lead to `PayoutUnknown`
(`payout_retry.rs:572-577`), since the ledger gives these answers before it
looks for an earlier execution. The model follows the code.

**Bounds.** `MaxFaults` counts failed calls and upgrades in one behaviour;
three are enough for a lost reply, an upgrade during its reconciliation and one
more failure in the recovery. Two calls suffice for every pairwise race in the
code (each guard compares one call with one other), and the orphans add
requests of earlier lives on top. The tree of PoolRivals has 3 leaves for the 5
that would come, so that the last appends are refused; the 4 of PoolLive suffice
for all, since a full tree stays full. `MaxEpoch` bounds key
rotations, `MaxRetryGen` the number of leases after which nobody retries a
refused append: it is reached only where the tree is full and cuts only
repetition. In DepositSettlement, `MaxOps` counts operations on one
commitment. In PayoutRetry, `MaxTime` is
`Window` + 1, so that a request can be inside the window, at its edge and too
old; `MaxGen` bounds the claims of a record (one per fault and one more),
`MaxSeq` the payouts, `MaxFunds` the tokens (one covers one payout, so that the
other meets insufficient funds). In TreasuryFlow one fault is enough for a lost
call, a trap or an upgrade at every place, with a second proposal to disturb it;
the theorem of section 4 covers more. In CustodyRing one upgrade of each kind
meets every pairwise race of the three locks; with two Vault upgrades the safety
properties hold as well (2 million states), but liveness is out of reach there.
In RecoveryScan three records make nine visits, several chunks of two that end
inside a phase, at its end and at the end of the scan; two spends of one note
are what a missing reservation needs, the second upgrade finds either a stamped
index or a scan in its middle, and the initial states hold every combination
of records an older Wasm can have left. The code's chunk is 1000.
`CHECK_DEADLOCK FALSE` everywhere: with all records at rest and
nobody calling, the pool has nothing to do. Tasks are interchangeable, which
`TaskSymmetry` uses in the safety runs only.

**Fairness.** Replies and callbacks arrive (`WF` of `CallStep`), orphans are
executed or dropped, and somebody keeps calling the recovery endpoint of a
record that needs one (`SF` of `Recover`: it may be refused while another
record holds the lease). `CallStep` holds no failure: failures are never
fair, and `MaxFaults` makes them finite, which is what the liveness properties
need and the code cannot promise by itself. The three reconcile endpoints are
the operator's, the two `retry`/`settle` endpoints are anybody's; the code has
no timer for them, so liveness is conditional on their being called. For
payouts: `WF` of `CallStep`, `SF` of the promotion, of `Retry` (anybody's, and
refused while all slots are taken) and of `ReconcileNotExecuted` (the
operator's). Nobody is assumed to look at the ledger's blocks, so a payout
whose request has left the window stays with the operator, as the test
`low_balance_duplicate_and_window_exhaustion_keep_frozen_identity`
(`integration-tests/tests/r15/mod.rs:270`) expects. In TreasuryFlow the pool's
and the treasury's segments proceed (`WF`), somebody executes a pending
withdrawal again and again and the operator decides what rests (`SF`, because
either may be refused while a call is under way). In CustodyRing deliveries,
installs and answers proceed (`WF`); the signers keep proposing reconciliations of
what is undecided, and approve them (`SF`). Nobody is assumed to propose or
approve an upgrade. In RecoveryScan somebody keeps calling a gated endpoint (`WF`
of `Knock`); that is all `GateOpens` needs. `ServedSpec` adds that the called
canisters answer and that resting records are resumed, so that the
counterexample of RecoveryWedged is not a pool that nobody serves.

**Findings.**

1. `SettlementTakeover` (`CreditedOncePerPull`). The comments at
   `lib.rs:814-817` and `5753-5757` call a stale-claim takeover safe, because
   of `claim_deposit_append` and of the claim's generation. The generation is
   written and never compared: a holder that resumes after its TTL resets a
   `CommitmentAppended` record (`lib.rs:6003`) and the append and the credit
   happen again. It needs a call to the token that takes more than 300 s; with
   `LateSettlement = FALSE` (no settlement waits that long) `Settlement` shows
   that everything holds.
2. `TreasuryRefused` (`RefusedIsUnpaid`). The treasury's comment on its last
   error arm (`canisters/treasury/src/lib.rs:1088`) says that any other error of
   the pool on a fresh attempt means that nothing was disbursed. The pool answers
   `TransferFailed` also when it lost the ledger's answer; the amount may be paid
   while the reservation says `Failed` and encumbers nothing.
3. `TreasuryBlocked` (`WithdrawalResolves`). Two withdrawals that both wait for
   the ledger's fee when the treasury is upgraded have no recorded total; each
   blocks the retry of the other, for ever, and every other withdrawal of the
   bucket (`canisters/treasury/src/lib.rs:1532-1539`).
4. `RecoveryWedged` (`RecoveryCompletes`). The gate admits a call as soon as no
   work remains (`lib.rs:11486-11489`), but the scan leaves its last phase only
   while budget remains (`11415-11432`). When the last visit is also the last of a
   chunk, the call is admitted with the scan unfinished. If it changes the number
   of open records, `finish_recovery_build` finds another cardinality than it
   counted (`11455`) and traps, in that and every later gated call, until
   another upgrade. The refusal (`11490`) promises that each call advances the scan
   and that the state clears itself. In the code it takes a scan whose number of
   visits is a multiple of 1000, above the first chunk of `post_upgrade`. The gate
   can open early in the phase of the spends as well, when no deposit is recorded
   and every spend was removed; a later visit then normalises, or removes, the
   record of a call that is under way. That is harmless, and the proof of section 4
   covers it: a call without its record ends at `record_is_ours` (`13538`), and
   `commit_private_spend` acts on the registry's answer whatever the record says
   (`13708-13789`).

Three further disagreements between comments and code, seen while modelling and not
kept as runs: `recheck_private_spend_after_verify` is said to write
`FailedBeforeStateChange` on any failure (`lib.rs:6921-6922`), but a nullifier query
that fails in transport leaves through `?` (`lib.rs:13348`, `RecheckErrors`) and the
record stays `VerificationPending` with nobody working on it until an upgrade; a
terminal `ActionOutcome` is said to have no further transition
(`canisters/custody-types/src/lib.rs:2517`), but `finalize` overwrites it when the
answer of a trigger comes after that of a reconciliation; and "the L2-5
single-flight lock makes cross-namespace id collisions unreachable through the
public surface" (`canisters/upgrader/src/core.rs:1146-1149`, and
`tests.rs:736-739`), but the lock only keeps two open intents apart: a decided
intent of the Vault keeps its number, and a later recovery intent with the same
one makes the ambiguity path reachable (without its second disjunct in
`Stranded`, TLC finds `RingSettles` violated in that way).

Every property of a passing run has a mutant in `PROJECT.json`: an operator in
the same module, just before the definition it replaces and marked "Faulty
variant", that breaks the code in a plausible way and makes TLC find the
property violated.

## 4. Proofs

Every safety invariant and every action property of the passing runs is stated
by a theorem, and both refinements are, for every value of the constants: any
sets of records and calls, any amounts, any number of failures and upgrades.
The theorems are listed in `PROJECT.json`; here is the argument of each.

### ShieldedPool: nullifiers (`ShieldedPool_proofs`)

`TypeCorrect` (`Spec => []TypeOK`) has one lemma per action over a few lemmas on
calls, leases and statuses.

`NullifierInvariant` (`Spec => []NullifierInv`) gives `NoDoubleSpendAlways`,
`FailedSpendBurnsNothingAlways` and `CommittedSpendsDisjoint`. `NoDoubleSpend`
alone is not inductive: a step of one call uses what another call has
established several awaits before. The invariant follows a nullifier through
four hands: the *guard* of a call from its admission to the registry's reply
(`GuardInv`, `AdmittedInv`), the *reservation* of a record (`ReservationInv`), the
*request* under way, in a call or orphaned (`InsertInv`, `OrphanInv`), and the
*registry* itself. Each is exclusive: two guards are disjoint, a guard is
disjoint from every reservation, and two reservations are disjoint. So whoever
inserts finds that nobody else can have done so since the recheck.
`ReconcileInv` says that what a reconciliation has seen so far stays true until
it acts: there is one per spend, and no orphan can arrive after its first
query, by the delivery order.

### ShieldedPool: lease, tree and books (`ShieldedPool_lease`)

`LeaseInvariant` (`Spec => []LeaseInv`) gives `LeaseIsExclusiveTheorem`,
`AlwaysUpgradeableTheorem` and `FinalityIsForeverTheorem`. The lease is a value
in stable memory that a call holds by a generation in a local variable, so the
invariant says who may believe to hold it: one call at most is in an owner's
await (`OneOwner`), the owner's record has a status of the lease's phase
(`StatusInv`, which is what the traps of `post_upgrade` test), and the leaves
beyond the accepted head are none or exactly the owner's batch (`TreeInv`,
`Appended`). `ReadInv` says that what the owner has read of the tree is still
so when its callback runs; `ScanInv` that a call which lost the lease cannot
publish under it; `LateAppendInv` that an append left behind by an upgrade is
one its owner still waits for. So a head that is published is its own append's.

`BookInvariant` (`Spec => []BookInv`) gives `AccountingTheorem` and
`SpendableNotesBackedTheorem`. Every leaf is of a record that was paid for and
the accepted tree consists of the leaves of closed records (`EveryLeafPaidFor`,
`HeadClosed`, `PaidInv`), so what a proof anchored in it can name was credited
(`AnchorInv`). With the disjointness from `NullifierInv`, the inputs of a spend
about to be promoted are covered by the liability (`CoverInv`, which uses
`SumBalance`): none of the saturating subtractions of the accounting words
saturates. Every step is then quiet, credits one deposit or publishes one spend.

`LeavesPaidOnceTheorem` assumes `FreshCommitments`: no two outputs or deposits
share a commitment. The pool tests that the outputs of one spend differ
(`lib.rs:12641-12653`) and keys deposits by their commitment; that the outputs of a
spend differ from every other record's rests on the randomness in a commitment,
since neither the pool nor the tree compares a new leaf with the old ones.

### DepositSettlement (`DepositSettlement_proofs`)

`TypeCorrect` holds without a hypothesis. `PulledNeverLost`,
`NoPullCreditedTwice`, `DecisionsStand` and `LegImplemented`
(`Spec => ImplementsDepositLeg`) assume `NoLateSettlement`: no settlement waits for the
token canister longer than its claim's TTL. Without it they are false; that is
finding 1. The invariant says that one call decides a record and one appends
(`DeciderInv`: the age gate keeps settlements from the first pull, the claim
keeps them from one another; `AppenderInv`), that an answer is still true when
its callback runs (`ReplyInv`), and that a request which outlived its call can
execute only while its record waits for it or after the fence has cancelled it
(`LedgerInv`). In the refinement a new operation is `Reserve`, the execution of a
pull is `Pay`, learning of it `Confirm`, removing the record `Drop`, the append with
its credit `Settle`; every other step stutters.

### PayoutRetry (`PayoutRetry_proofs`)

`PayoutInvariant` (`Spec => []Inv`) gives `PayoutTypes`, `ExecutorsOwn`,
`PaidAtMostOnceAlways` and `PayoutImplementsLeg`. `PaidAtMostOnce` is not
inductive: that a request is not executed twice depends on every copy of it, in
a record, in a call or left behind by an upgrade, being the same request. The
invariant says that there is one request per sequence and none before it is
frozen (`RequestInv`), that the ledger knows a paid request or finds it too old
(`LedgerInv`), and that sequences are given out once (`RecordInv`). Freezing is
safe because two executors never share a record (`ExecutorInv`): whoever is told
the fee finds the request still unfrozen. `SettledInv` ties status, block and
accrual together and gives the refinement: admission is `Owe`, a first
execution is `Pay`, `terminal_payout` is `Settle`, and every other step stutters.

`UnambiguousIsUnpaidAlways` needs `SentInv` on top: the executor in the transfer
knows more than its record says, namely that no other copy of an unambiguous
payout is under way and that only the answers which prove it executed can follow
an execution. `IdentityIsFinalAlways` is a property of every step under `Inv`.

### TreasuryFlow (`TreasuryFlow_proofs`)

`TreasuryInvariant` (`Spec => []TreasuryInv`) gives `TypesAlways`,
`ReserveDebitedOnceAlways` and `MirrorExactAlways`; `PaidAtMostOnceAlways` needs
`PaidInv` of it, `LossIsVisibleAlways` the part about fee reports
(`IncomeInvariant`). In layers:

* `PaidInv` speaks of every request that left the pool, executed or orphaned
  (`Sent`): a call that works on a disbursement has a record and no tombstone
  (`LiveHasRecord`), it is the only one (`OneLiveCall`), whatever was requested is
  remembered by a record past validation or by a tombstone (`SentIsKnown`), and
  a call about to request, or refused, is the first (`FirstRequest`). The last
  is what makes it safe to remove a record on a refusal.
* `PoolInv`: a call, its record and the tombstone name one fee, and "executed"
  is said only of what was (`AnswerInv`).
* `TurnInv`: the treasury's turn that waits for the pool is linked to the call
  it waits for, by proposal and total (`LinkInv`).
* `RoomInv`: the bucket covers every admitted withdrawal *together*, so the debit
  at the end of a turn never finds too little. `BookedInv`: a proposal is booked
  at most once.
* `IncomeInv`: a fee report is under way, delivered or counted as lost
  (`NoticeInv`, `LossInv`).
* `MoneyInv`: the pool's reserve is its opening, plus what was earned, minus the
  debits it holds, and differs from the bucket by what is on its way
  (`ReserveExact`, `MirrorExact`). Every step is of one of six kinds (quiet,
  earned, credited, taken, returned, booked), and each keeps both equations.

The proofs use `TreasuryAssumption`: the types of the data, finitely many
proposals and fee reports (what sums need), and `None` none of the values.

### CustodyRing (`CustodyRing_proofs`)

`LockInvariant` gives `InstallHoldsLockAlways`. `LockInv` links each install to
the one call that hears of it (`IntentBacks`, `ProposalBacks`), keeps the
undecided upgrades of a canister unique (`OneIntent`, `OneProposal`), a trigger
pending exactly as long as its intent (`TriggersLinked`), and a reconciliation
about an upgrade of its kind (`ReconcilesAimed`): without the last, the reply of
a Vault reconciliation could release the Upgrader's lock.

`CallsInvariant` says that a request of the Vault is in one place: queued once,
served or answered. On it, `PlanesAgreeAlways` rests on `PlaneInv`: the request
of an upgrade is ahead of any reconciliation of it in the queue
(`ReconcileAgrees`), so the Upgrader's "unknown proposal" is final and its other
answers are what the intent says when they arrive. `ExecutedWasLiveAlways` rests on
`HistoryInv`: a module reported as installed, and any evidence that is accepted,
is one that ran since the intent was recorded (`RanSince`, `Sound`). The proofs
use `RingAssumption`: the kinds of proposals are disjoint, numbers of intents are
unique within an origin, the first modules are modules, `None` is no observation.
For `InstallHoldsLock` the theorem also covers what the run cannot: two upgrades
of the Upgrader, between which `OpenMutatingIntents` has to choose.

### RecoveryScan (`RecoveryScan_proofs`)

`InvAlways` gives `TypesAlways`, `NoteSpentOnceAlways` and
`StampedIndexCompleteAlways`, from `ScanAssumption` alone. A message makes a whole
chunk of visits, so the step from one visit to the chunk is a lemma
(`AdvanceKeeps`): whatever set of pools is closed under `Visit` holds the pool
after the chunk. What a run of visits keeps of the pool it started from is
`ScanRel`. The invariant then has five parts: an index lists unsettled records
only, and one it lacks is still to be visited, so that none is missing from a
stamped one (`IndexInv`); a call works on a record in
a state of its own (`OwnInv`); a spend that reserves its note has it reserved once
the pool is open (`ReserveInv`); only one spend of a note reserves it, while
nothing else has become of the note (`SpendInv`); and before the pool opens
nobody works on it and the counts of the cursor are exact (`GateInv`, `Counted`).
`LateInv` is what is left of this in the pool of finding 4, which opened early: at
most one record is still to be normalised, and neither an operator nor a new
spend works on it.

### Sums and runs of visits

The library's induction theorems take an operator as a parameter and cannot be
used. `FiniteSums` argues by a least counterexample instead: the proper-subset
order on the subsets of a finite set is well-founded (`WFMin`), so a smallest
set exists on which the recursive equation of `MapThenSumSet` would fail. From
this it proves that the equation has one solution, that a sum is that of its
parts in any order, and that sums of naturals are monotone. `AdvanceKeeps` does
the same over the number of visits left.

### Assumptions

The proofs of ShieldedPool use `RecordAssumption` (deposits and spends differ,
and `NoRecord` is none of them and no note), `DataAssumption` (the types of the
data, no spend without inputs or outputs), `FinitenessAssumption` (commitments,
nullifiers and ids are 32-byte strings; needed for sums) and, for the books
only, `SumBalance`: what the circuit proves about amounts. `MaxFaults` and the
other bounds are any natural number, so the theorems also cover behaviours with
more failures than TLC meets. A theorem says nothing of what the model leaves
out (section 2, *Abstractions*).

### Only model-checked

Liveness under fairness, which is out of the prover's reach:
`PulledDepositSettles`, `CommittedSpendSettles`, `LeaseIsReturned`,
`PulledBecomesNote`, `PayoutCompletes`, `WithdrawalResolvesOrIsRefused`,
`RingSettles` and `GateOpens`. They hold on the instances of section 3 and are
claimed for no other. The four counterexamples of the findings are TLC's as well.

## 5. Not modelled

| Part | Why |
|---|---|
| the rest of the recovery scan | records without an owner or without the lease they need, the cap on indexed records, index version 1, absent or corrupt cursors: states only an older Wasm or a corrupt memory leaves |
| spend admission of the pool | rate limits and a rotating prune; nothing modelled here depends on them |
| governance of fees (epochs, cooldowns) | sequential setters behind a clock; the arithmetic of the split is unit-tested |
| withdrawals | fail closed before they write anything |
| attestation and controller reads | views of words the models hold |
| Vault and Upgrader beyond their own upgrades | starts, upgrades of application canisters, epochs of signers, quotas |
| vetkeys | worth a model (rotation fence, ticket budget) |
| staking, vesting | worth a model; mostly reward arithmetic and bookkeeping around one transfer |
| smoke-alarm-monitor | an observer nothing reads |
| verifier, eager-cell, field-utils, circuits | pure functions; taken as assumptions or unit-tested |
| wallet, website, scripts, manifests verification | client code and tooling |

## 6. Plan

1. *Vetkeys*: the rotation fence against derivations in flight, the ticket budget.
2. *Staking*, *Vesting*: claims and transfers with unknown outcome.
3. *SpendAdmission*: tickets, failed-verification window, pruning cursor.
4. An abstract note ledger that ShieldedPool implements.
5. Theorems: what DepositSettlement keeps when a settlement may be late (its
   types hold then too); the note ledger of item 4 as a refinement, from `BookInv`
   and `NullifierInv`; the part of PayoutLeg that ShieldedPool relies on, stated
   across the two modules.
