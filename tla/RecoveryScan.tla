--------------------------- MODULE RecoveryScan -----------------------------
(***************************************************************************)
(* The shielded pool's recovery scan.  An upgrade clears the heap, and     *)
(* with it the reservations of nullifiers whose fate is open.  A pool      *)
(* whose recovery index is stamped complete restores them from the index   *)
(* in post_upgrade.  An unstamped pool restores them from its records in   *)
(* six passes, a chunk of records per message: post_upgrade runs the first *)
(* chunk, every gated call runs another one, and is refused until no work  *)
(* remains.                                                                *)
(*                                                                         *)
(* A deposit is "open" until its root is accepted: the passes treat its    *)
(* states alike, once post_upgrade has put the owner of the append lease   *)
(* right.  Records without an owner and those that rest without the lease  *)
(* they need, which only an older Wasm can have left, are left out, as are *)
(* the cap on indexed records, index version 1 and corrupt cursors.  One   *)
(* call works on a spend at a time: a recovery that takes up a spend whose *)
(* client still waits, which a scan that opened before its third phase was *)
(* over makes possible, is left out.                                       *)
(***************************************************************************)
EXTENDS Integers, FiniteSets, FiniteSetsExt

CONSTANTS
    Deposits,    \* note commitments, in key order
    Spends,      \* spend ids, in key order
    Note,        \* the nullifier of each spend
    Chunk,       \* UPGRADE_SCAN_CHUNK: the visits of one message
    MaxUpgrades, \* bound on upgrades
    MaxFaults    \* bound on lost requests and replies

ASSUME ScanAssumption ==
    /\ Deposits \subseteq Nat \ {0} /\ IsFiniteSet(Deposits)
    /\ Spends \subseteq Nat \ {0} /\ IsFiniteSet(Spends)
    /\ DOMAIN Note = Spends
    /\ Chunk \in Nat \ {0} /\ MaxUpgrades \in Nat /\ MaxFaults \in Nat

Notes == {Note[s] : s \in Spends}
Absent == 0  \* no spend: the nullifier is not in the registry

VARIABLES
    pool,     \* the records, the indexes, the reservations and the cursor
    dcalls,   \* deposits a call past the gate works on
    scalls,   \* spends a call past the gate works on: "early" is a private_spend
              \* without a record, "client" one with a record, "operator" a recovery
    sent,     \* spends whose insert_batch is under way
    burnt,    \* the registry: which spend inserted the nullifier
    settled,  \* how often a spend of the nullifier was carried on (history)
    upgrades, faults

vars == <<pool, dcalls, scalls, sent, burnt, settled, upgrades, faults>>

DepositStatus == {"none", "open", "accepted"}
SpendStatus == {"none", "verifying", "staged", "unknown", "reconciling", "committed",
                "final", "failed"}

(* deposit_recovery_required and spend_recovery_required *)
OpenDeposit == {"open"}
OpenSpend == {"verifying", "staged", "unknown", "reconciling", "committed"}
(* what rebuild_inflight_nullifiers includes *)
Reserving == {"staged", "unknown", "reconciling"}

With(f, k, v) == [f EXCEPT ![k] = v]
Having(f, S) == {k \in DOMAIN f : f[k] \in S}

-----------------------------------------------------------------------------
(* The cursor.                                                             *)
Finished == 6

CompleteCursor == [phase |-> Finished, last |-> 0, total |-> 0, scanned |-> 0, removed |-> 0,
                   expectedDeposits |-> 0, expectedSpends |-> 0]

Recorded(f) == {k \in DOMAIN f : f[k] # "none"}

FirstCursor(p) ==
    [CompleteCursor EXCEPT !.phase = 0,
        !.total = 3 * (Cardinality(Recorded(p.deposit)) + Cardinality(Recorded(p.spend)))]

Complete(p) == p.cursor.phase = Finished

Remaining(p) == Max({0, p.cursor.total - p.cursor.scanned - p.cursor.removed})

(* What phase ph has still to read: all of its map, or what is behind the  *)
(* last key it has seen.                                                   *)
Left(p, ph) ==
    {k \in Recorded(IF ph \in {0, 3, 4} THEN p.deposit ELSE p.spend) :
        ph = p.cursor.phase => k > p.cursor.last}

-----------------------------------------------------------------------------
(* The work on one record.                                                 *)
NormalStatus(st) ==
    CASE st = "verifying" -> "none"
      [] st \in {"staged", "reconciling"} -> "unknown"
      [] OTHER -> st

(* Removes spends that changed nothing yet, with their locators, and makes *)
(* those whose insertion is unproven reconcilable and reserved again.      *)
Normalized(p, S) ==
    LET after == [s \in Spends |-> IF s \in S THEN NormalStatus(p.spend[s]) ELSE p.spend[s]]
    IN  [p EXCEPT !.spend = after,
                  !.spendIndex = @ \ {s \in S : after[s] = "none"},
                  !.inflight = @ \cup {Note[s] : s \in {t \in S : after[t] \in Reserving}}]

NormalizedOne(p, s) ==
    LET q == Normalized(p, {s})
    IN  IF q.spend[s] = "none" THEN [q EXCEPT !.cursor.removed = @ + 1] ELSE q

IndexedDeposit(p, d) ==
    IF p.deposit[d] \in OpenDeposit
    THEN [p EXCEPT !.depositIndex = @ \cup {d}, !.cursor.expectedDeposits = @ + 1]
    ELSE p

IndexedSpend(p, s) ==
    IF p.spend[s] \in OpenSpend
    THEN [p EXCEPT !.spendIndex = @ \cup {s}, !.cursor.expectedSpends = @ + 1]
    ELSE p

(* The phase of the next visit: one that is exhausted is left for the next *)
(* that has work, which starts from its first key.                         *)
NextPhase(p) == Min({Finished} \cup {ph \in p.cursor.phase..5 : Left(p, ph) # {}})

(* recovery_scan_slice, a record at a time                                 *)
Visited(p, ph) ==
    LET k == Min(Left(p, ph))
        q == [p EXCEPT !.cursor.phase = ph, !.cursor.last = k, !.cursor.scanned = @ + 1]
    IN  CASE ph = 2 -> NormalizedOne(q, k)
          [] ph = 4 -> IndexedDeposit(q, k)
          [] ph = 5 -> IndexedSpend(q, k)
          [] OTHER -> q

(* Faulty variant: the key of the phase before is carried along.           *)
VisitKeepingKey(p) ==
    LET q == [p EXCEPT !.cursor.phase =
                 Min({Finished} \cup {ph \in @..5 : Left([p EXCEPT !.cursor.phase = ph], ph) # {}})]
    IN  IF Complete(q) THEN q ELSE Visited(q, q.cursor.phase)

Visit(p) ==
    IF NextPhase(p) = Finished THEN [p EXCEPT !.cursor.phase = Finished]
    ELSE Visited(p, NextPhase(p))

(* finish_recovery_build refuses to stamp an index of another size.        *)
Buildable(p) ==
    \/ p.stamped
    \/ /\ Cardinality(p.depositIndex) = p.cursor.expectedDeposits
       /\ Cardinality(p.spendIndex) = p.cursor.expectedSpends

(* advance_recovery_cursor, as the set of its outcomes: a chunk, with the  *)
(* stamp when it was the last one, or none when it traps.  A phase that is *)
(* exhausted is left only while there is budget.                           *)
Advance(p) ==
    LET run[i \in 0..Chunk] == IF i = 0 THEN {p} ELSE {Visit(q) : q \in run[i - 1]}
    IN  {IF Complete(q) THEN [q EXCEPT !.stamped = TRUE] ELSE q :
            q \in {r \in run[Chunk] : Complete(r) => Buildable(r)}}

-----------------------------------------------------------------------------
(* recovery_gate, which is the first thing a call does.  A trap in it      *)
(* rolls the whole message back.                                           *)
AfterGate == IF Complete(pool) THEN {pool} ELSE Advance(pool)

(* Faulty variant: calls that advance the scan are let through.            *)
AdmitsAll(p) == TRUE

Admits(p) == Complete(p) \/ Remaining(p) = 0

Entered == {p \in AfterGate : Admits(p)}

(* Faulty variant: a refusal by trap, which takes the progress back.       *)
KnockTrapping ==
    /\ ~Complete(pool)
    /\ pool' \in Entered
    /\ UNCHANGED <<dcalls, scalls, sent, burnt, settled, upgrades, faults>>

(* A call that advances the scan and then goes no further: it is refused,  *)
(* or a later check of its own refuses it.                                 *)
Knock ==
    /\ ~Complete(pool)
    /\ pool' \in AfterGate
    /\ UNCHANGED <<dcalls, scalls, sent, burnt, settled, upgrades, faults>>

-----------------------------------------------------------------------------
(* Deposits.                                                               *)
ShieldDeposit(d) ==
    /\ d \notin dcalls
    /\ pool' \in {p \in Entered : p.deposit[d] = "none"}
    /\ dcalls' = dcalls \cup {d}
    /\ UNCHANGED <<scalls, sent, burnt, settled, upgrades, faults>>

(* Fee and nonce are there: the record and its locator in one segment.     *)
RecordDeposit(d) ==
    /\ d \in dcalls /\ pool.deposit[d] = "none"
    /\ pool' = [pool EXCEPT !.deposit[d] = "open", !.depositIndex = @ \cup {d}]
    /\ UNCHANGED <<dcalls, scalls, sent, burnt, settled, upgrades, faults>>

(* Pulled, appended and its root accepted: mark_deposit_terminal, or       *)
(* definitely not pulled: the record is removed.                           *)
DepositEnds(d, st) ==
    /\ d \in dcalls /\ pool.deposit[d] = "open"
    /\ pool' = [pool EXCEPT !.deposit[d] = st, !.depositIndex = @ \ {d}]
    /\ dcalls' = dcalls \ {d}
    /\ UNCHANGED <<scalls, sent, burnt, settled, upgrades, faults>>

(* The call returns and leaves the record to be retried or reconciled.     *)
DepositErrors(d) ==
    /\ d \in dcalls /\ faults < MaxFaults
    /\ dcalls' = dcalls \ {d}
    /\ faults' = faults + 1
    /\ UNCHANGED <<pool, scalls, sent, burnt, settled, upgrades>>

(* retry_deposit_commitment, settle_deposit_transfer, reconcile_deposit_*  *)
ResumeDeposit(d) ==
    /\ d \notin dcalls
    /\ pool' \in {p \in Entered : p.deposit[d] = "open"}
    /\ dcalls' = dcalls \cup {d}
    /\ UNCHANGED <<scalls, sent, burnt, settled, upgrades, faults>>

-----------------------------------------------------------------------------
(* Spends.                                                                 *)
PrivateSpend(s) ==
    /\ scalls[s] = "none"
    /\ pool' \in {p \in Entered : p.spend[s] = "none"}
    /\ scalls' = With(scalls, s, "early")
    /\ UNCHANGED <<dcalls, sent, burnt, settled, upgrades, faults>>

(* The call ends and leaves its record in status st.                       *)
SpendLeaves(s, st, freed) ==
    /\ pool' = [pool EXCEPT !.spend[s] = st,
                            !.spendIndex = IF st \in OpenSpend THEN @ ELSE @ \ {s},
                            !.inflight = @ \ freed]
    /\ scalls' = With(scalls, s, "none")

(* VerifyPendingNullifierGuard: held by every private_spend with a record  *)
Guarded == {Note[s] : s \in Having(scalls, {"client"})}

(* The prechecks were fine, or another spend of the note is under way.     *)
RecordSpend(s) ==
    /\ scalls[s] = "early"
    /\ IF Note[s] \in Guarded \cup pool.inflight
       THEN SpendLeaves(s, "none", {})
       ELSE /\ pool' = [pool EXCEPT !.spend[s] = "verifying", !.spendIndex = @ \cup {s}]
            /\ scalls' = With(scalls, s, "client")
    /\ UNCHANGED <<dcalls, sent, burnt, settled, upgrades, faults>>

(* The proof is good and nothing has changed: reserve, stage and insert.   *)
Reserve(s) ==
    /\ scalls[s] = "client" /\ pool.spend[s] = "verifying"
    /\ IF burnt[Note[s]] # Absent \/ Note[s] \in pool.inflight
       THEN SpendLeaves(s, "failed", {}) /\ UNCHANGED sent
       ELSE /\ pool' = [pool EXCEPT !.spend[s] = "staged", !.inflight = @ \cup {Note[s]}]
            /\ sent' = sent \cup {s}
            /\ UNCHANGED scalls
    /\ UNCHANGED <<dcalls, burnt, settled, upgrades, faults>>

(* The proof is rejected, or the verifier is unreachable, or the scan that *)
(* let the call in has removed its record meanwhile.                       *)
VerifyFails(s, st) ==
    /\ scalls[s] = "client" /\ pool.spend[s] \in {"none", "verifying"}
    /\ SpendLeaves(s, IF pool.spend[s] = "none" THEN "none" ELSE st, {})
    /\ UNCHANGED <<dcalls, sent, burnt, settled, upgrades, faults>>

(* A recheck fails in transport: the record stays, without a call.         *)
RecheckErrors(s) ==
    /\ scalls[s] = "early" \/ (scalls[s] = "client" /\ pool.spend[s] \in {"none", "verifying"})
    /\ faults < MaxFaults
    /\ scalls' = With(scalls, s, "none")
    /\ faults' = faults + 1
    /\ UNCHANGED <<pool, dcalls, sent, burnt, settled, upgrades>>

(* The registry executes insert_batch, all or nothing.                     *)
InsertArrives(s) ==
    /\ s \in sent
    /\ sent' = sent \ {s}
    /\ burnt' = IF burnt[Note[s]] = Absent THEN With(burnt, Note[s], s) ELSE burnt
    /\ UNCHANGED <<pool, dcalls, scalls, settled, upgrades, faults>>

(* The client waits for insert_batch, and goes by its reply alone.         *)
AwaitsInsert(s) == scalls[s] = "client" /\ pool.spend[s] \in {"staged", "unknown"}

(* The nullifier is the spend's own now, whoever inserted it.              *)
CarriedOn(s) ==
    /\ pool' = [pool EXCEPT !.spend[s] = "committed", !.inflight = @ \ {Note[s]}]
    /\ settled' = [settled EXCEPT ![Note[s]] = @ + 1]
    /\ UNCHANGED scalls

InsertReply(s) ==
    /\ AwaitsInsert(s) /\ s \notin sent
    /\ IF burnt[Note[s]] = s THEN CarriedOn(s)
       ELSE SpendLeaves(s, "failed", {Note[s]}) /\ UNCHANGED settled
    /\ UNCHANGED <<dcalls, sent, burnt, upgrades, faults>>

(* The reply is lost, or the request is and never executes.                *)
InsertUnknown(s) ==
    /\ faults < MaxFaults /\ faults' = faults + 1
    /\ s \in sent \/ AwaitsInsert(s)
    /\ sent' = sent \ {s}
    /\ IF AwaitsInsert(s) THEN SpendLeaves(s, "unknown", {}) ELSE UNCHANGED <<pool, scalls>>
    /\ UNCHANGED <<dcalls, burnt, settled, upgrades>>

(* reconcile_nullifier_insert: claims the record and asks the registry.    *)
ReconcileInsert(s) ==
    /\ scalls[s] = "none"
    /\ \E p \in Entered :
          p.spend[s] = "unknown" /\ pool' = [p EXCEPT !.spend[s] = "reconciling"]
    /\ scalls' = With(scalls, s, "operator")
    /\ UNCHANGED <<dcalls, sent, burnt, settled, upgrades, faults>>

(* Calls from the pool to the registry arrive in order: an insert_batch    *)
(* that was under way has been executed when the query is answered.        *)
ReconcileReply(s) ==
    /\ scalls[s] = "operator" /\ pool.spend[s] = "reconciling" /\ s \notin sent
    /\ IF burnt[Note[s]] # Absent THEN CarriedOn(s)
       ELSE SpendLeaves(s, "failed", {Note[s]}) /\ UNCHANGED settled
    /\ UNCHANGED <<dcalls, sent, burnt, upgrades, faults>>

ReconcileErrors(s) ==
    /\ scalls[s] = "operator" /\ pool.spend[s] = "reconciling" /\ faults < MaxFaults
    /\ SpendLeaves(s, "unknown", {})
    /\ faults' = faults + 1
    /\ UNCHANGED <<dcalls, sent, burnt, settled, upgrades>>

(* Outputs appended, root accepted, payout made.                           *)
Promote(s) ==
    /\ scalls[s] # "none" /\ pool.spend[s] = "committed"
    /\ SpendLeaves(s, "final", {})
    /\ UNCHANGED <<dcalls, sent, burnt, settled, upgrades, faults>>

PromoteErrors(s) ==
    /\ scalls[s] # "none" /\ pool.spend[s] = "committed" /\ faults < MaxFaults
    /\ scalls' = With(scalls, s, "none")
    /\ faults' = faults + 1
    /\ UNCHANGED <<pool, dcalls, sent, burnt, settled, upgrades>>

(* reconcile_pending_spend, and the payout's retries                       *)
ReconcileSpend(s) ==
    /\ scalls[s] = "none"
    /\ pool' \in {p \in Entered : p.spend[s] = "committed"}
    /\ scalls' = With(scalls, s, "operator")
    /\ UNCHANGED <<dcalls, sent, burnt, settled, upgrades, faults>>

-----------------------------------------------------------------------------
(* Faulty variant: a spend whose outputs are pending is taken for settled.  *)
PruneCommitted ==
    /\ \E p \in Entered : \E s \in Having(p.spend, {"committed", "final", "failed"}) :
          pool' = [p EXCEPT !.spend[s] = "none"]
    /\ UNCHANGED <<dcalls, scalls, sent, burnt, settled, upgrades, faults>>

(* prune_terminal_records: the operator's is gated, and the timer does     *)
(* nothing while the scan is pending.                                      *)
Prune ==
    /\ \E p \in Entered :
          \/ \E d \in Having(p.deposit, {"accepted"}) :
                pool' = [p EXCEPT !.deposit[d] = "none"]
          \/ \E s \in Having(p.spend, {"final", "failed"}) :
                pool' = [p EXCEPT !.spend[s] = "none"]
    /\ UNCHANGED <<dcalls, scalls, sent, burnt, settled, upgrades, faults>>

(* post_upgrade starts from an empty heap.                                 *)
Started(p) ==
    LET q == [p EXCEPT !.inflight = {}]
    IN  IF p.stamped
        THEN [Normalized(q, q.spendIndex) EXCEPT !.cursor = CompleteCursor]
        ELSE [q EXCEPT !.cursor = FirstCursor(q)]

(* The upgrade drops the callbacks of every call; a trap rejects it.       *)
Upgrade ==
    /\ upgrades < MaxUpgrades /\ upgrades' = upgrades + 1
    /\ pool' \in IF pool.stamped THEN {Started(pool)} ELSE Advance(Started(pool))
    /\ dcalls' = {} /\ scalls' = [s \in Spends |-> "none"]
    /\ UNCHANGED <<sent, burnt, settled, faults>>

-----------------------------------------------------------------------------
(* A fresh pool, or the first Wasm with the index on a pool with records:  *)
(* its claims were exclusive and its calls were stopped.                   *)
Empty == [deposit |-> [d \in Deposits |-> "none"], spend |-> [s \in Spends |-> "none"],
          depositIndex |-> {}, spendIndex |-> {}, inflight |-> {}, stamped |-> FALSE,
          cursor |-> CompleteCursor]

Legal(spend, b, sends) ==
    /\ \A s, t \in Having(spend, Reserving \cup {"committed", "final"}) :
          Note[s] = Note[t] => s = t
    /\ \A s \in Having(spend, {"committed", "final"}) : b[Note[s]] = s
    /\ \A n \in Notes : b[n] # Absent =>
          Note[b[n]] = n /\ spend[b[n]] \in Reserving \cup {"committed", "final"}
    /\ sends \subseteq {s \in Having(spend, Reserving) : b[Note[s]] = Absent}

Init ==
    /\ \/ pool = Empty /\ sent = {} /\ burnt = [n \in Notes |-> Absent]
       \/ \E deposit \in [Deposits -> DepositStatus], spend \in [Spends -> SpendStatus] :
            /\ sent \in SUBSET Spends
            /\ burnt \in [Notes -> Spends \cup {Absent}]
            /\ Legal(spend, burnt, sent)
            /\ pool \in Advance(Started([Empty EXCEPT !.deposit = deposit, !.spend = spend]))
    /\ dcalls = {} /\ scalls = [s \in Spends |-> "none"]
    /\ settled = [n \in Notes |->
          Cardinality({s \in Having(pool.spend, {"committed", "final"}) : Note[s] = n})]
    /\ upgrades = 0 /\ faults = 0

DepositStep(d) ==
    \/ RecordDeposit(d)
    \/ \E st \in {"accepted", "none"} : DepositEnds(d, st)

SpendStep(s) ==
    \/ RecordSpend(s) \/ Reserve(s) \/ InsertArrives(s) \/ InsertReply(s)
    \/ ReconcileReply(s) \/ Promote(s)
    \/ \E st \in {"failed", "none"} : VerifyFails(s, st)

Next ==
    \/ Knock \/ Prune \/ Upgrade
    \/ \E d \in Deposits :
          ShieldDeposit(d) \/ DepositStep(d) \/ DepositErrors(d) \/ ResumeDeposit(d)
    \/ \E s \in Spends :
          \/ PrivateSpend(s) \/ SpendStep(s)
          \/ RecheckErrors(s) \/ InsertUnknown(s) \/ ReconcileErrors(s) \/ PromoteErrors(s)
          \/ ReconcileInsert(s) \/ ReconcileSpend(s)

Spec == Init /\ [][Next]_vars

(* Somebody calls.                                                         *)
LiveSpec == Spec /\ WF_vars(Knock)

(* The called canisters answer as well, and what rests is resumed.         *)
ServedSpec ==
    /\ LiveSpec
    /\ \A d \in Deposits : WF_vars(DepositStep(d)) /\ WF_vars(ResumeDeposit(d))
    /\ \A s \in Spends : WF_vars(SpendStep(s))
                         /\ WF_vars(ReconcileInsert(s) \/ ReconcileSpend(s))

-----------------------------------------------------------------------------
Cursors == [phase : 0..Finished, last : Nat, total : Nat, scanned : Nat, removed : Nat,
            expectedDeposits : Nat, expectedSpends : Nat]

Pools == [deposit : [Deposits -> DepositStatus], spend : [Spends -> SpendStatus],
          depositIndex : SUBSET Deposits, spendIndex : SUBSET Spends,
          inflight : SUBSET Notes, stamped : BOOLEAN, cursor : Cursors]

(* Types; a call works on a record that is in a state of its own.          *)
TypeOK ==
    /\ pool \in Pools
    /\ dcalls \subseteq Deposits /\ scalls \in [Spends -> {"none", "early", "client", "operator"}]
    /\ \A d \in dcalls : pool.deposit[d] \in {"none", "open"}
    /\ \A s \in Spends : scalls[s] # "none" =>
          pool.spend[s] \in CASE scalls[s] = "early" -> {"none"}
                              [] scalls[s] = "operator" -> {"reconciling", "committed"}
                              [] scalls[s] = "client" ->
                                    {"none", "verifying", "staged", "unknown", "committed"}
    /\ sent \subseteq Spends /\ burnt \in [Notes -> Spends \cup {Absent}]
    /\ settled \in [Notes -> Nat] /\ upgrades \in 0..MaxUpgrades /\ faults \in 0..MaxFaults

(* Whatever reservations an upgrade clears and however late the scan puts  *)
(* them back, no two spends of one note are ever both carried on.          *)
NoteSpentOnce == \A n \in Notes : settled[n] <= 1

(* An index is stamped only when it has every record that is not settled,  *)
(* and keeps them: a later upgrade looks at nothing else.                  *)
StampedIndexComplete ==
    pool.stamped =>
        /\ pool.depositIndex = Having(pool.deposit, OpenDeposit)
        /\ pool.spendIndex = Having(pool.spend, OpenSpend)

(* The calls that the gate refuses are what opens it.                      *)
GateOpens == (~Complete(pool) /\ Remaining(pool) > 0) ~> Admits(pool)

(* recovery_gate: "each call advances the scan", so the scan completes.    *)
RecoveryCompletes == (~Complete(pool)) ~> Complete(pool)
=============================================================================
