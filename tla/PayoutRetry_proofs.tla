------------------------- MODULE PayoutRetry_proofs -------------------------
(***************************************************************************)
(* The payout is paid at most once and implements PayoutLeg, for every set *)
(* of spends and calls, every window, fee and number of failures.          *)
(*                                                                         *)
(* The invariant has two halves.  A record has one executor, which owns it *)
(* across its awaits (ExecutorInv).  A payout has one request: whatever is *)
(* under way, dropped by an upgrade or yet to be sent again carries the    *)
(* same bytes (RequestInv), and once it is paid the ledger knows these     *)
(* bytes or finds them too old (LedgerInv).  On top of it SentInv follows  *)
(* the ambiguity flag from the dispatch to the answer.                     *)
(***************************************************************************)
EXTENDS PayoutRetry, TLAPS

(* What may still reach the ledger, now or after a retry. *)
Known(q) ==
    \/ \E o \in orphans : q = o.req
    \/ \E id \in Ids : rec[id] # None /\ rec[id].frozen # None /\ q = rec[id].frozen

(* Sequences are given out once, and a frozen request carries its own. *)
RecordInv ==
    /\ \A id \in Ids : rec[id] # None =>
          /\ rec[id].seq < next
          /\ rec[id].dispatched => rec[id].frozen # None
          /\ rec[id].frozen # None => rec[id].frozen.memo.seq = rec[id].seq
    /\ \A i, j \in Ids :
          i # j /\ rec[i] # None /\ rec[j] # None => rec[i].seq # rec[j].seq

(* One request per payout, and none before it is frozen. *)
RequestInv ==
    /\ \A p, q \in Requests : Known(p) /\ Known(q) /\ p.memo.seq = q.memo.seq => p = q
    /\ \A q \in Requests : Known(q) => q.memo.seq < next
    /\ \A id \in Ids : rec[id] # None /\ rec[id].frozen = None =>
          \A q \in Requests : Known(q) => q.memo.seq # rec[id].seq

(* The ledger recognises the request of a payout it executed. *)
LedgerInv ==
    /\ \A d \in dedup : paid[d.memo.seq] = 1
    /\ \A q \in Requests :
          Known(q) /\ paid[q.memo.seq] # 0 => DedupKey(q) \in dedup \/ Stale(q.stamp)
    /\ \A id \in Ids : rec[id] # None /\ rec[id].frozen = None => paid[rec[id].seq] = 0

(* A payout is settled after it was paid, with its accrual. *)
SettledInv ==
    \A s \in Seqs :
        /\ paid[s] <= 1
        /\ LegState[s] = "free" => paid[s] = 0 /\ accrued[s] = 0
        /\ LegState[s] = "owed" => accrued[s] = 0
        /\ LegState[s] = "settled" => paid[s] = 1 /\ accrued[s] = 1

(* What an executor knows when it resumes. *)
OwnerInv(c) ==
    Executing(c) =>
        /\ Owned(c)
        /\ At(c, "fee") => rec[call[c].id].frozen = None
        /\ At(c, "transfer") =>
              /\ call[c].req = rec[call[c].id].frozen
              /\ call[c].reply \in {"Ok", "Duplicate"} => paid[call[c].req.memo.seq] = 1

ExecutorInv ==
    /\ \A c \in Calls : OwnerInv(c)
    /\ \A c, d \in Calls :
          c # d /\ Executing(c) /\ Executing(d) => call[c].id # call[d].id

PayoutInv == RecordInv /\ RequestInv /\ LedgerInv /\ SettledInv /\ ExecutorInv
Inv == TypeOK /\ PayoutInv

-----------------------------------------------------------------------------
(* Types.                                                                  *)

LEMMA RecordFields ==
  ASSUME TypeOK, NEW id \in Ids, rec[id] # None
  PROVE  /\ rec[id] \in Records
         /\ rec[id].seq \in Seqs /\ rec[id].gen \in Nat
         /\ rec[id].frozen \in Requests \cup {None}
         /\ rec[id].dispatched \in BOOLEAN
  BY DEF TypeOK, Records

LEMMA RequestFields ==
  ASSUME NEW q \in Requests
  PROVE  q # None /\ q.memo.seq \in Seqs /\ q.stamp \in Nat /\ q.fee \in Fees
         /\ DedupKey(q) = q
  BY PayoutAssumption DEF Requests, Memos, DedupKey

LEMMA CallFields ==
  ASSUME TypeOK, NEW c \in Calls
  PROVE  /\ call[c] \in CallType
         /\ Executing(c) => call[c].id \in Ids /\ call[c].attempt \in Attempts
         /\ At(c, "transfer") => call[c].req \in Requests
         /\ At(c, "fee") /\ call[c].reply \notin {"none", "error"} => call[c].fee \in Fees
  BY DEF TypeOK, CallType, At, Executing, Executors

LEMMA AttemptType ==
  ASSUME NEW r \in Records, r.gen > 0
  PROVE  AttemptOf(r) \in Attempts
  BY PayoutAssumption DEF Records, Attempts, AttemptOf

LEMMA IdleCallType == IdleCall \in CallType
  BY DEF IdleCall, CallType, Replies

LEMMA AwaitType ==
  ASSUME TypeOK, NEW pc \in {"rand"} \cup Executors, NEW id \in Ids \cup {None},
         NEW a \in Attempts \cup {None}, NEW q \in Requests \cup {None}
  PROVE  Await(pc, id, a, q) \in CallType
  BY DEF Await, CallType, Replies, TypeOK

(* The part of TypeOK that a step on one call may disturb. *)
CallOK(c) ==
    /\ call[c] \in CallType
    /\ Executing(c) =>
          /\ call[c].id # None /\ call[c].attempt # None
          /\ At(c, "fee") /\ call[c].reply \notin {"none", "error"} => call[c].fee # None
          /\ At(c, "transfer") => call[c].req # None

LEMMA CallsOK ==
  ASSUME TypeOK, NEW c \in Calls, NEW k, call' = [call EXCEPT ![c] = k], CallOK(c)'
  PROVE  /\ call' \in [Calls -> CallType]
         /\ \A d \in Calls : CallOK(d)'
<1>1. \A d \in Calls : d # c => call'[d] = call[d]
  BY DEF TypeOK
<1>2. ASSUME NEW d \in Calls, d # c PROVE CallOK(d)'
  BY <1>1, <1>2 DEF TypeOK, CallOK, Executing, At
<1>3. QED
  BY <1>2 DEF TypeOK, CallOK

-----------------------------------------------------------------------------
(* What a step that sends nothing new, pays nothing and settles nothing    *)
(* leaves alone.                                                           *)

Owed(id) == rec[id] # None /\ rec[id].status # "Finalized"

KeepsRequest(id) ==
    rec'[id] # None =>
        /\ rec[id] # None
        /\ rec'[id].seq = rec[id].seq /\ rec'[id].frozen = rec[id].frozen
        /\ rec'[id].dispatched => rec'[id].frozen # None

KeepsDebt(id) ==
    /\ Owed(id)' <=> Owed(id)
    /\ Owed(id) => rec'[id].seq = rec[id].seq

LEMMA RequestsKept ==
  ASSUME Inv, TypeOK', next' = next, paid' = paid, dedup' = dedup, now' >= now,
         \A id \in Ids : KeepsRequest(id),
         \A o \in orphans' : Known(o.req)
  PROVE  RecordInv' /\ RequestInv' /\ LedgerInv'
<1>1. \A q : Known(q)' => Known(q)
  BY DEF Known, KeepsRequest
<1>2. RecordInv'
  BY DEF Inv, PayoutInv, RecordInv, KeepsRequest
<1>3. RequestInv'
  BY <1>1 DEF Inv, PayoutInv, RequestInv, KeepsRequest
<1>4. \A q \in Requests : Stale(q.stamp) => Stale(q.stamp)'
  <2>1. now \in Nat /\ now' \in Nat /\ Window \in Nat
    BY PayoutAssumption DEF Inv, TypeOK
  <2>2. QED
    BY <2>1, RequestFields DEF Stale
<1>5. LedgerInv'
  <2>1. \A q : DedupKey(q)' = DedupKey(q)
    BY DEF DedupKey
  <2>2. QED
    BY <1>1, <1>4, <2>1 DEF Inv, PayoutInv, LedgerInv, KeepsRequest
<1>6. QED
  BY <1>2, <1>3, <1>5

LEMMA DebtKept ==
  ASSUME Inv, next' = next, \A id \in Ids : KeepsDebt(id)
  PROVE  LegState' = LegState
<1>1. ASSUME NEW s
      PROVE  (\E id \in Ids : Owed(id) /\ rec[id].seq = s)'
                <=> \E id \in Ids : Owed(id) /\ rec[id].seq = s
  BY DEF KeepsDebt
<1>2. QED
  BY <1>1 DEF LegState, Owed

LEMMA SettledKept ==
  ASSUME Inv, next' = next, paid' = paid, accrued' = accrued,
         \A id \in Ids : KeepsDebt(id)
  PROVE  SettledInv' /\ UNCHANGED Leg!vars
BY DebtKept DEF Inv, PayoutInv, SettledInv, Leg!vars

(* An executor whose record, guard and answer stay keeps what it knows. *)
LEMMA OwnerKept ==
  ASSUME Inv, NEW d \in Calls, call'[d] = call[d],
         Executing(d) => /\ rec'[call[d].id] = rec[call[d].id]
                         /\ live'[call[d].id] = live[call[d].id],
         \A s \in Seqs : paid[s] = 1 => paid'[s] = 1
  PROVE  OwnerInv(d)'
<1>1. Executing(d)' <=> Executing(d)
  BY DEF Executing, At
<1>2. CASE Executing(d)
  <2>1. OwnerInv(d)
    BY DEF Inv, PayoutInv, ExecutorInv
  <2>2. Owned(d)'
    BY <1>2, <2>1 DEF OwnerInv, Owned, AttemptOf
  <2>3. At(d, "transfer") => call[d].req \in Requests
    BY CallFields DEF Inv
  <2>4. At(d, "transfer") => call[d].req.memo.seq \in Seqs
    BY <2>3, RequestFields
  <2>5. QED
    BY <1>2, <2>1, <2>2, <2>4 DEF OwnerInv, At
<1>3. QED
  BY <1>1, <1>2 DEF OwnerInv

(* Only call c moves: it stops, or goes on with the record it has. *)
LEMMA ExecutorsKept ==
  ASSUME Inv, NEW c \in Calls, OwnerInv(c)',
         \A d \in Calls : d # c => call'[d] = call[d],
         \A d \in Calls : d # c /\ Executing(d) =>
            /\ rec'[call[d].id] = rec[call[d].id]
            /\ live'[call[d].id] = live[call[d].id]
            /\ Executing(c)' => call[d].id # call'[c].id,
         \A s \in Seqs : paid[s] = 1 => paid'[s] = 1
  PROVE  ExecutorInv'
<1>1. \A d \in Calls : OwnerInv(d)'
  <2>1. ASSUME NEW d \in Calls, d # c PROVE OwnerInv(d)'
    BY <2>1, OwnerKept
  <2>2. QED
    BY <2>1
<1>2. \A d, e \in Calls :
         d # e /\ Executing(d)' /\ Executing(e)' => call'[d].id # call'[e].id
  <2>1. \A d \in Calls : d # c => (Executing(d)' <=> Executing(d))
    BY DEF Executing, At
  <2>2. \A d, e \in Calls :
           d # e /\ Executing(d) /\ Executing(e) => call[d].id # call[e].id
    BY DEF Inv, PayoutInv, ExecutorInv
  <2>3. QED
    BY <2>1, <2>2
<1>3. QED
  BY <1>1, <1>2 DEF ExecutorInv

LEMMA QuietStep ==
  ASSUME Inv, TypeOK', ExecutorInv', next' = next, paid' = paid, dedup' = dedup,
         accrued' = accrued, now' >= now,
         \A id \in Ids : KeepsRequest(id) /\ KeepsDebt(id),
         \A o \in orphans' : Known(o.req)
  PROVE  Inv' /\ UNCHANGED Leg!vars
BY RequestsKept, SettledKept DEF Inv, PayoutInv

LEMMA SameRecords ==
  ASSUME Inv, rec' = rec
  PROVE  \A id \in Ids : KeepsRequest(id) /\ KeepsDebt(id)
BY DEF Inv, PayoutInv, RecordInv, KeepsRequest, KeepsDebt, Owed

LEMMA SameOrphans ==
  ASSUME orphans' \subseteq orphans
  PROVE  \A o \in orphans' : Known(o.req)
BY DEF Known

LEMMA Clock == ASSUME TypeOK, now' = now PROVE now' >= now
BY DEF TypeOK

-----------------------------------------------------------------------------
(* Steps that leave the records as they are.                               *)

(* One call changes and is not an executor afterwards, or was none before  *)
(* and asks for the memo key. *)
LEMMA KeySteps ==
  ASSUME Inv, NEW c \in Calls, AskMemoKey(c) \/ StoreMemoKey(c) \/ MemoKeyFails(c)
  PROVE  Inv' /\ UNCHANGED Leg!vars
<1>. USE DEF Inv
<1>1. PICK k \in {IdleCall, Await("rand", None, None, None)} :
         call' = [call EXCEPT ![c] = k]
  BY DEF AskMemoKey, StoreMemoKey, MemoKeyFails, Finish
<1>2. k \in CallType /\ call'[c] = k /\ ~Executing(c)'
  <2>1. Await("rand", None, None, None) \in CallType
    BY AwaitType
  <2>2. k \in CallType /\ k.pc \in {"idle", "rand"}
    BY <2>1, IdleCallType DEF IdleCall, Await
  <2>3. call'[c] = k
    BY <1>1 DEF TypeOK
  <2>4. QED
    BY <2>2, <2>3 DEF Executing, Executors, At
<1>3. CallOK(c)'
  BY <1>2 DEF CallOK
<1>4. UNCHANGED <<boot, next, rec, live, accrued, now, fee, funds, paid, dedup, orphans>>
  BY DEF AskMemoKey, StoreMemoKey, MemoKeyFails, control, ledger
<1>5. key' \in Keys \cup {None}
  BY DEF AskMemoKey, StoreMemoKey, MemoKeyFails, control, TypeOK
<1>6. faults' \in 0..MaxFaults /\ boot' \in 1..(faults' + 1)
  BY <1>4, PayoutAssumption
  DEF AskMemoKey, StoreMemoKey, MemoKeyFails, control, TypeOK, Fault
<1>7. TypeOK'
  <2>1. call' \in [Calls -> CallType] /\ \A d \in Calls : CallOK(d)'
    BY <1>1, <1>3, CallsOK
  <2>2. QED
    BY <1>4, <1>5, <1>6, <2>1 DEF TypeOK, CallOK
<1>8. ExecutorInv'
  <2>1. OwnerInv(c)'
    BY <1>2 DEF OwnerInv
  <2>2. \A d \in Calls : d # c => call'[d] = call[d]
    BY <1>1 DEF TypeOK
  <2>3. QED
    BY <1>2, <1>4, <2>1, <2>2, ExecutorsKept
<1>9. QED
  BY <1>4, <1>7, <1>8, QuietStep, SameRecords, SameOrphans, Clock

(* A reply arrives; it promises nothing of a transfer. *)
LEMMA ReplySteps ==
  ASSUME Inv, NEW c \in Calls, LedgerBalance(c) \/ LedgerFee(c) \/ CallErrors(c)
  PROVE  Inv' /\ UNCHANGED Leg!vars
<1>. USE DEF Inv
<1>. DEFINE k == call'[c]
<1>1. /\ call[c] \in CallType /\ k.pc = call[c].pc /\ k.id = call[c].id
      /\ k.attempt = call[c].attempt /\ k.req = call[c].req
      /\ k.reply \in Replies \ {"Ok", "Duplicate"}
      /\ k.reply = "fee" => k.fee \in Fees
      /\ k \in CallType
      /\ call' = [call EXCEPT ![c] = k]
  <2>1. CASE LedgerBalance(c)
    BY <2>1 DEF LedgerBalance, Reply, TypeOK, CallType, Replies
  <2>2. CASE LedgerFee(c)
    BY <2>2 DEF LedgerFee, TypeOK, CallType, Replies
  <2>3. CASE CallErrors(c)
    BY <2>3 DEF CallErrors, Reply, TypeOK, CallType, Replies
  <2>4. QED
    BY <2>1, <2>2, <2>3
<1>2. UNCHANGED <<boot, next, key, rec, live, accrued, now, fee, funds, paid, dedup, orphans>>
  BY DEF LedgerBalance, LedgerFee, CallErrors, control, ledger
<1>3. faults' \in 0..MaxFaults /\ boot' \in 1..(faults' + 1)
  BY <1>2, PayoutAssumption DEF LedgerBalance, LedgerFee, CallErrors, TypeOK, Fault
<1>4. TypeOK'
  <2>1. At(c, "fee") => k.fee # None \/ k.reply = "error"
    <3>1. fee # None
      BY PayoutAssumption DEF TypeOK
    <3>2. CASE LedgerFee(c)
      BY <3>1, <3>2 DEF LedgerFee, TypeOK, CallType
    <3>3. CASE LedgerBalance(c)
      BY <3>3 DEF LedgerBalance, Waiting, At
    <3>4. CASE CallErrors(c)
      BY <3>4 DEF CallErrors, Reply, TypeOK, CallType
    <3>5. QED
      BY <3>2, <3>3, <3>4
  <2>2. CallOK(c)'
    BY <1>1, <2>1 DEF CallOK, TypeOK, Executing, At
  <2>3. call' \in [Calls -> CallType] /\ \A d \in Calls : CallOK(d)'
    BY <1>1, <2>2, CallsOK
  <2>4. QED
    BY <1>2, <1>3, <2>3 DEF TypeOK, CallOK
<1>5. ExecutorInv'
  <2>1. OwnerInv(c)
    BY DEF PayoutInv, ExecutorInv
  <2>2. OwnerInv(c)'
    BY <1>1, <1>2, <2>1 DEF OwnerInv, Owned, AttemptOf, Executing, At
  <2>3. \A d \in Calls : d # c => call'[d] = call[d]
    BY <1>1 DEF TypeOK
  <2>4. Executing(c)' => Executing(c) /\ call'[c].id = call[c].id
    BY <1>1 DEF Executing, At
  <2>5. \A d \in Calls : d # c /\ Executing(d) /\ Executing(c) => call[d].id # call[c].id
    BY DEF PayoutInv, ExecutorInv
  <2>6. QED
    BY <1>2, <2>2, <2>3, <2>4, <2>5, ExecutorsKept
<1>6. QED
  BY <1>2, <1>4, <1>5, QuietStep, SameRecords, SameOrphans, Clock

(* What a call that ends leaves to the others. *)
LEMMA CallEnds ==
  ASSUME Inv, NEW c \in Calls, Finish(c)
  PROVE  /\ call' \in [Calls -> CallType] /\ \A d \in Calls : CallOK(d)'
         /\ ~Executing(c)' /\ OwnerInv(c)'
         /\ \A d \in Calls : d # c => call'[d] = call[d]
<1>1. call' = [call EXCEPT ![c] = IdleCall]
  BY DEF Finish
<1>2. call'[c] = IdleCall /\ \A d \in Calls : d # c => call'[d] = call[d]
  BY <1>1 DEF Inv, TypeOK
<1>3. ~Executing(c)'
  BY <1>2 DEF Executing, Executors, At, IdleCall
<1>4. CallOK(c)'
  BY <1>2, <1>3, IdleCallType DEF CallOK
<1>5. QED
  BY <1>1, <1>2, <1>3, <1>4, CallsOK DEF Inv, OwnerInv

LEMMA GuardDrops ==
  ASSUME Inv, NEW c \in Calls, Executing(c), DropGuard(c)
  PROVE  /\ live' \in [Ids -> Attempts \cup {None}]
         /\ \A d \in Calls : d # c /\ Executing(d) =>
               /\ call[d].id # call[c].id
               /\ live'[call[d].id] = live[call[d].id]
<1>1. \A d \in Calls : Executing(d) => call[d].id \in Ids
  BY CallFields DEF Inv
<1>2. \A d \in Calls : d # c /\ Executing(d) => call[d].id # call[c].id
  BY DEF Inv, PayoutInv, ExecutorInv
<1>3. QED
  BY <1>1, <1>2 DEF DropGuard, Inv, TypeOK

LEMMA SameCalls ==
  ASSUME Inv, call' = call, rec' = rec, live' = live, paid' = paid
  PROVE  ExecutorInv' /\ \A c \in Calls : CallOK(c)'
<1>1. \A c \in Calls : OwnerInv(c)'
  BY OwnerKept
<1>2. \A c, d \in Calls :
         c # d /\ Executing(c)' /\ Executing(d)' => call'[c].id # call'[d].id
  BY DEF Inv, PayoutInv, ExecutorInv, Executing, At
<1>3. QED
  BY <1>1, <1>2 DEF ExecutorInv, Inv, TypeOK, CallOK, Executing, At

(* The environment: fee, funds, clock, and a request that is lost. *)
LEMMA EnvironmentSteps ==
  ASSUME Inv,
         \/ \E f \in Fees : SetTransferFee(f)
         \/ Fund \/ Tick
         \/ \E o \in orphans : RejectOrphan(o)
  PROVE  Inv' /\ UNCHANGED Leg!vars
<1>1. UNCHANGED <<boot, next, key, rec, live, call, accrued, paid, dedup, faults>>
  BY DEF SetTransferFee, Fund, Tick, RejectOrphan, control, ledger
<1>2. /\ fee' \in Fees /\ funds' \in 0..MaxFunds /\ now' \in 0..MaxTime /\ now' >= now
      /\ orphans' \subseteq orphans
  BY PayoutAssumption DEF SetTransferFee, Fund, Tick, RejectOrphan, ledger, Inv, TypeOK
<1>3. ExecutorInv' /\ \A c \in Calls : CallOK(c)'
  BY <1>1, SameCalls
<1>4. TypeOK'
  BY <1>1, <1>2, <1>3 DEF Inv, TypeOK, CallOK
<1>5. QED
  BY <1>1, <1>2, <1>3, <1>4, QuietStep, SameRecords, SameOrphans

LEMMA CallbackTrapsStep ==
  ASSUME Inv, NEW c \in Calls, CallbackTraps(c)
  PROVE  Inv' /\ UNCHANGED Leg!vars
<1>1. /\ Executing(c) /\ DropGuard(c) /\ Finish(c)
      /\ UNCHANGED <<boot, next, key, rec, accrued, now, fee, funds, paid, dedup, orphans>>
  BY DEF CallbackTraps, control, ledger
<1>2. faults' \in 0..MaxFaults /\ boot' \in 1..(faults' + 1)
  BY <1>1, PayoutAssumption DEF CallbackTraps, Inv, TypeOK, Fault
<1>3. TypeOK'
  BY <1>1, <1>2, CallEnds, GuardDrops DEF Inv, TypeOK, CallOK
<1>4. ExecutorInv'
  BY <1>1, CallEnds, GuardDrops, ExecutorsKept
<1>5. QED
  BY <1>1, <1>3, <1>4, QuietStep, SameRecords, SameOrphans, Clock DEF Inv

(* The requests whose callbacks an upgrade drops are the frozen ones. *)
LEMMA UpgradeStep ==
  ASSUME Inv, Upgrade
  PROVE  Inv' /\ UNCHANGED Leg!vars
<1>. DEFINE dropped == {[req |-> call[c].req, attempt |-> call[c].attempt] :
                           c \in {d \in Calls : Waiting(d, "transfer")}}
<1>1. /\ orphans' = orphans \cup dropped
      /\ live' = [id \in Ids |-> None] /\ call' = [c \in Calls |-> IdleCall]
      /\ UNCHANGED <<next, key, rec, accrued, now, fee, funds, paid, dedup>>
  BY DEF Upgrade, ledger
<1>2. faults' \in 0..MaxFaults /\ boot' \in 1..(faults' + 1)
  BY PayoutAssumption DEF Upgrade, Inv, TypeOK, Fault
<1>3. ASSUME NEW c \in Calls, Waiting(c, "transfer")
      PROVE  /\ call[c].req \in Requests /\ call[c].attempt \in Attempts
             /\ Known(call[c].req)
  <2>1. At(c, "transfer") /\ Executing(c)
    BY <1>3 DEF Waiting, Executing, Executors, At
  <2>2. /\ call[c].req \in Requests /\ call[c].attempt \in Attempts
        /\ call[c].id \in Ids /\ call[c].req # None
    BY <2>1, CallFields, RequestFields DEF Inv
  <2>3. OwnerInv(c)
    BY DEF Inv, PayoutInv, ExecutorInv
  <2>4. QED
    BY <2>1, <2>2, <2>3 DEF OwnerInv, Owned, Known
<1>4. \A c \in Calls : ~Executing(c)' /\ call'[c] \in CallType
  BY <1>1, IdleCallType DEF Executing, Executors, At, IdleCall
<1>5. dropped \subseteq [req : Requests, attempt : Attempts]
  BY <1>3
<1>6. TypeOK'
  BY <1>1, <1>2, <1>4, <1>5 DEF Inv, TypeOK
<1>7. ExecutorInv'
  BY <1>4 DEF ExecutorInv, OwnerInv
<1>8. \A o \in orphans' : Known(o.req)
  BY <1>1, <1>3 DEF Known
<1>9. QED
  BY <1>1, <1>6, <1>7, <1>8, QuietStep, SameRecords, Clock DEF Inv

-----------------------------------------------------------------------------
(* Steps that write one record.                                            *)

LEMMA WriteKeeps ==
  ASSUME Inv, NEW id \in Ids, rec[id] # None, NEW r \in Records, Write(id, r),
         r.seq = rec[id].seq, r.frozen = rec[id].frozen,
         r.dispatched => r.frozen # None,
         r.status = "Finalized" <=> rec[id].status = "Finalized"
  PROVE  /\ rec' \in [Ids -> Records \cup {None}] /\ rec'[id] = r
         /\ \A i \in Ids : i # id => rec'[i] = rec[i]
         /\ \A i \in Ids : KeepsRequest(i) /\ KeepsDebt(i)
<1>1. /\ rec' \in [Ids -> Records \cup {None}] /\ rec'[id] = r
      /\ \A i \in Ids : i # id => rec'[i] = rec[i]
  BY DEF Write, Inv, TypeOK
<1>2. r # None
  BY PayoutAssumption
<1>3. KeepsRequest(id) /\ KeepsDebt(id)
  BY <1>1, <1>2 DEF KeepsRequest, KeepsDebt, Owed
<1>4. \A i \in Ids : i # id => KeepsRequest(i) /\ KeepsDebt(i)
  BY <1>1 DEF KeepsRequest, KeepsDebt, Owed, Inv, PayoutInv, RecordInv
<1>5. QED
  BY <1>1, <1>3, <1>4

(* Nobody executes a record that is not claimed. *)
LEMMA NoExecutor ==
  ASSUME Inv, NEW id \in Ids,
         live[id] = None \/ rec[id] = None \/ rec[id].status # "PayoutSubmitting"
  PROVE  \A d \in Calls : Executing(d) => call[d].id # id
<1>1. ASSUME NEW d \in Calls, Executing(d), call[d].id = id PROVE FALSE
  <2>1. Owned(d)
    BY <1>1 DEF Inv, PayoutInv, ExecutorInv, OwnerInv
  <2>2. call[d].attempt # None
    BY <1>1 DEF Inv, TypeOK
  <2>3. QED
    BY <1>1, <2>1, <2>2 DEF Owned
<1>2. QED
  BY <1>1

LEMMA NormalizedFields ==
  ASSUME TypeOK, NEW id \in Ids, rec[id] # None
  PROVE  LET r == Normalized(id) IN
         /\ r \in Records /\ r.seq = rec[id].seq /\ r.frozen = rec[id].frozen
         /\ r.dispatched = rec[id].dispatched /\ r.gen = rec[id].gen
         /\ r.status = "Finalized" <=> rec[id].status = "Finalized"
         /\ r # rec[id] => live[id] = None
         /\ r.status # "PayoutSubmitting" =>
               rec[id].status # "PayoutSubmitting" \/ live[id] = None
<1>1. rec[id] \in Records
  BY RecordFields
<1>2. QED
  BY <1>1 DEF Normalized, Records, Statuses

LEMMA IdleWrite ==
  ASSUME Inv, NEW id \in Ids, NEW r, Write(id, r), r # rec[id] =>
            live[id] = None \/ rec[id] = None \/ rec[id].status # "PayoutSubmitting",
         UNCHANGED <<call, live, paid>>
  PROVE  ExecutorInv' /\ \A c \in Calls : CallOK(c)'
<1>1. \A d \in Calls : Executing(d) => rec'[call[d].id] = rec[call[d].id]
  <2>1. \A i \in Ids : i # id => rec'[i] = rec[i]
    BY DEF Write, Inv, TypeOK
  <2>2. \A d \in Calls : Executing(d) => call[d].id \in Ids
    BY CallFields DEF Inv
  <2>3. CASE r = rec[id]
    BY <2>1, <2>2, <2>3 DEF Write, Inv, TypeOK
  <2>4. CASE r # rec[id]
    BY <2>1, <2>2, <2>4, NoExecutor
  <2>5. QED
    BY <2>3, <2>4
<1>2. \A c \in Calls : OwnerInv(c)'
  BY <1>1, OwnerKept
<1>3. \A c, d \in Calls :
         c # d /\ Executing(c)' /\ Executing(d)' => call'[c].id # call'[d].id
  BY DEF Inv, PayoutInv, ExecutorInv, Executing, At
<1>4. QED
  BY <1>2, <1>3 DEF ExecutorInv, Inv, TypeOK, CallOK, Executing, At

LEMMA PruneStep ==
  ASSUME Inv, NEW id \in Ids, PruneTerminalRecord(id)
  PROVE  Inv' /\ UNCHANGED Leg!vars
<1>1. /\ rec[id] # None /\ rec[id].status = "Finalized" /\ Write(id, None)
      /\ UNCHANGED <<boot, next, key, live, call, accrued, now, fee, funds, paid, dedup,
                     orphans, faults>>
  BY DEF PruneTerminalRecord, control, ledger
<1>2. /\ rec' \in [Ids -> Records \cup {None}] /\ rec'[id] = None
      /\ \A i \in Ids : i # id => rec'[i] = rec[i]
  BY <1>1 DEF Write, Inv, TypeOK
<1>3. ExecutorInv' /\ \A c \in Calls : CallOK(c)'
  BY <1>1, IdleWrite
<1>4. TypeOK'
  BY <1>1, <1>2, <1>3 DEF Inv, TypeOK, CallOK
<1>5. \A i \in Ids : KeepsRequest(i) /\ KeepsDebt(i)
  BY <1>1, <1>2 DEF KeepsRequest, KeepsDebt, Owed, Inv, PayoutInv, RecordInv
<1>6. QED
  BY <1>1, <1>3, <1>4, <1>5, QuietStep, SameOrphans, Clock DEF Inv

LEMMA ReconcileNotExecutedStep ==
  ASSUME Inv, NEW id \in Ids, ReconcileNotExecuted(id)
  PROVE  Inv' /\ UNCHANGED Leg!vars
<1>. DEFINE r == Normalized(id)
            q == IF r.status = "PayoutUnknown" /\ r.frozen # None
                 THEN [r EXCEPT !.status = "PayoutPending"] ELSE r
<1>1. /\ rec[id] # None /\ Write(id, q)
      /\ UNCHANGED <<boot, next, key, live, call, accrued, now, fee, funds, paid, dedup,
                     orphans, faults>>
  BY DEF ReconcileNotExecuted, control, ledger
<1>2. /\ r \in Records /\ r.seq = rec[id].seq /\ r.frozen = rec[id].frozen
      /\ r.dispatched = rec[id].dispatched
      /\ r.status = "Finalized" <=> rec[id].status = "Finalized"
      /\ r # rec[id] => live[id] = None
  BY <1>1, NormalizedFields DEF Inv
<1>3. /\ q \in Records /\ q.seq = rec[id].seq /\ q.frozen = rec[id].frozen
      /\ q.dispatched = rec[id].dispatched
      /\ q.status = "Finalized" <=> rec[id].status = "Finalized"
      /\ q # rec[id] => live[id] = None \/ rec[id].status # "PayoutSubmitting"
  BY <1>2 DEF Records, Statuses
<1>4. q.dispatched => q.frozen # None
  BY <1>1, <1>3 DEF Inv, PayoutInv, RecordInv
<1>5. /\ rec' \in [Ids -> Records \cup {None}]
      /\ \A i \in Ids : KeepsRequest(i) /\ KeepsDebt(i)
  BY <1>1, <1>3, <1>4, WriteKeeps
<1>6. ExecutorInv' /\ \A c \in Calls : CallOK(c)'
  BY <1>1, <1>3, IdleWrite
<1>7. TypeOK'
  BY <1>1, <1>5, <1>6 DEF Inv, TypeOK, CallOK
<1>8. QED
  BY <1>1, <1>5, <1>6, <1>7, QuietStep, SameOrphans, Clock DEF Inv

-----------------------------------------------------------------------------
(* Steps that start an executor or take it to its next await.              *)

LEMMA AwaitOwned ==
  ASSUME Inv, NEW c \in Calls, NEW pc \in Executors, NEW id \in Ids, NEW r \in Records,
         NEW q \in Requests \cup {None},
         call' = [call EXCEPT ![c] = Await(pc, id, AttemptOf(r), q)],
         rec'[id] = r, live'[id] = AttemptOf(r),
         r.gen > 0, r.status = "PayoutSubmitting",
         pc = "fee" => r.frozen = None,
         pc = "transfer" => q # None /\ q = r.frozen
  PROVE  /\ call' \in [Calls -> CallType] /\ \A d \in Calls : CallOK(d)'
         /\ OwnerInv(c)' /\ call'[c].id = id
         /\ \A d \in Calls : d # c => call'[d] = call[d]
<1>. DEFINE a == AttemptOf(r)
            k == Await(pc, id, a, q)
<1>1. a \in Attempts /\ a # None /\ id # None /\ r # None
  BY AttemptType, PayoutAssumption
<1>2. k \in CallType
  BY <1>1, AwaitType DEF Inv
<1>3. k.pc = pc /\ k.id = id /\ k.attempt = a /\ k.req = q /\ k.reply = "none"
  BY DEF Await
<1>4. call'[c] = k /\ \A d \in Calls : d # c => call'[d] = call[d]
  BY DEF Inv, TypeOK
<1>5. CallOK(c)'
  BY <1>1, <1>2, <1>3, <1>4 DEF CallOK, At
<1>6. call' \in [Calls -> CallType] /\ \A d \in Calls : CallOK(d)'
  BY <1>5, CallsOK DEF Inv
<1>7. Owned(c)'
  BY <1>1, <1>3, <1>4 DEF Owned, AttemptOf
<1>8. OwnerInv(c)'
  BY <1>3, <1>4, <1>7 DEF OwnerInv, At
<1>9. QED
  BY <1>3, <1>4, <1>6, <1>8

LEMMA ClaimAndRunStep ==
  ASSUME Inv, NEW c \in Calls, NEW id \in Ids, rec[id] # None, NEW r \in Records,
         r.seq = rec[id].seq, r.frozen = rec[id].frozen,
         r.dispatched = rec[id].dispatched,
         r.status # "Finalized", rec[id].status # "Finalized",
         Claimable(id), ClaimAndRun(c, id, r)
  PROVE  /\ rec' \in [Ids -> Records \cup {None}]
         /\ live' \in [Ids -> Attempts \cup {None}]
         /\ call' \in [Calls -> CallType] /\ \A d \in Calls : CallOK(d)'
         /\ \A i \in Ids : KeepsRequest(i) /\ KeepsDebt(i)
         /\ paid' = paid => ExecutorInv'
<1>. DEFINE q == Claimed(r)
            p == [q EXCEPT !.phase = "MayHaveDispatched", !.dispatched = TRUE]
            a == AttemptOf(q)
<1>. USE DEF Inv
<1>1. /\ q \in Records /\ q.gen > 0 /\ q.status = "PayoutSubmitting"
      /\ q.seq = r.seq /\ q.frozen = r.frozen /\ q.dispatched = r.dispatched
  <2>1. boot \in 1..(MaxFaults + 1)
    BY PayoutAssumption DEF TypeOK
  <2>2. r.gen + 1 \in 0..MaxGen /\ r.gen + 1 > 0
    BY PayoutAssumption DEF ClaimAndRun, Records
  <2>3. QED
    BY <2>1, <2>2 DEF Claimed, Records, Statuses
<1>2. a \in Attempts
  BY <1>1, AttemptType
<1>3. /\ live' = [live EXCEPT ![id] = a] /\ live'[id] = a
      /\ live' \in [Ids -> Attempts \cup {None}]
      /\ \A i \in Ids : i # id => live'[i] = live[i]
  BY <1>2 DEF ClaimAndRun, TypeOK
<1>4. r.dispatched => r.frozen # None /\ r.frozen \in Requests
  BY RecordFields DEF PayoutInv, RecordInv
<1>5. /\ p \in Records /\ p.gen > 0 /\ p.status = "PayoutSubmitting"
      /\ p.seq = r.seq /\ p.frozen = r.frozen /\ AttemptOf(p) = a
  BY <1>1 DEF Records, AttemptOf
<1>6. PICK w \in Records :
         /\ Write(id, w)
         /\ w.seq = r.seq /\ w.frozen = r.frozen
         /\ w.dispatched => w.frozen # None
         /\ w.status = "PayoutSubmitting" /\ w.gen > 0 /\ AttemptOf(w) = a
         /\ \E pc \in {"balance", "transfer"} : \E x \in Requests \cup {None} :
               /\ call' = [call EXCEPT ![c] = Await(pc, id, AttemptOf(w), x)]
               /\ pc = "transfer" => x # None /\ x = w.frozen
  <2>1. CASE q.dispatched
    <3>1. Write(id, p) /\ call' = [call EXCEPT ![c] = Await("transfer", id, a, r.frozen)]
      BY <1>1, <2>1 DEF ClaimAndRun, Dispatch
    <3>2. QED
      BY <1>1, <1>4, <1>5, <2>1, <3>1
  <2>2. CASE ~q.dispatched
    <3>1. Write(id, q) /\ call' = [call EXCEPT ![c] = Await("balance", id, a, None)]
      BY <2>2 DEF ClaimAndRun
    <3>2. QED
      BY <1>1, <2>2, <3>1
  <2>3. QED
    BY <2>1, <2>2
<1>7. /\ rec' \in [Ids -> Records \cup {None}] /\ rec'[id] = w
      /\ \A i \in Ids : i # id => rec'[i] = rec[i]
      /\ \A i \in Ids : KeepsRequest(i) /\ KeepsDebt(i)
  BY <1>6, WriteKeeps
<1>8. /\ call' \in [Calls -> CallType] /\ \A d \in Calls : CallOK(d)'
      /\ OwnerInv(c)' /\ call'[c].id = id
      /\ \A d \in Calls : d # c => call'[d] = call[d]
  <2>1. PICK pc \in {"balance", "transfer"}, x \in Requests \cup {None} :
           /\ call' = [call EXCEPT ![c] = Await(pc, id, AttemptOf(w), x)]
           /\ pc = "transfer" => x # None /\ x = w.frozen
    BY <1>6
  <2>2. pc \in Executors /\ pc # "fee"
    BY DEF Executors
  <2>3. QED
    BY <1>3, <1>6, <1>7, <2>1, <2>2, AwaitOwned
<1>9. ASSUME paid' = paid PROVE ExecutorInv'
  <2>1. \A d \in Calls : Executing(d) => call[d].id # id
    BY NoExecutor DEF Claimable
  <2>2. \A d \in Calls : Executing(d) => call[d].id \in Ids
    BY CallFields
  <2>3. QED
    BY <1>3, <1>7, <1>8, <1>9, <2>1, <2>2, ExecutorsKept
<1>10. QED
  BY <1>3, <1>7, <1>8, <1>9

LEMMA PromoteStep ==
  ASSUME Inv, NEW c \in Calls, NEW id \in Ids, Promote(c, id)
  PROVE  Inv' /\ UNCHANGED Leg!vars
<1>. DEFINE r == [rec[id] EXCEPT !.status = "PayoutPending"]
<1>1. /\ rec[id] # None /\ rec[id].status = "Promoting"
      /\ UNCHANGED <<boot, next, key, accrued, now, fee, funds, paid, dedup, orphans, faults>>
  BY DEF Promote, control, ledger
<1>2. /\ r \in Records /\ r.seq = rec[id].seq /\ r.frozen = rec[id].frozen
      /\ r.dispatched = rec[id].dispatched /\ r.status = "PayoutPending"
  BY <1>1, RecordFields DEF Inv, Records, Statuses
<1>3. CASE Write(id, r) /\ UNCHANGED <<live, call>>
  <2>1. r.dispatched => r.frozen # None
    BY <1>1, <1>2 DEF Inv, PayoutInv, RecordInv
  <2>2. /\ rec' \in [Ids -> Records \cup {None}]
        /\ \A i \in Ids : KeepsRequest(i) /\ KeepsDebt(i)
    BY <1>1, <1>2, <1>3, <2>1, WriteKeeps
  <2>3. ExecutorInv' /\ \A d \in Calls : CallOK(d)'
    BY <1>1, <1>3, IdleWrite
  <2>4. TypeOK'
    BY <1>1, <1>3, <2>2, <2>3 DEF Inv, TypeOK, CallOK
  <2>5. QED
    BY <1>1, <2>2, <2>3, <2>4, QuietStep, SameOrphans, Clock DEF Inv
<1>4. CASE Claimable(id) /\ ClaimAndRun(c, id, r)
  <2>1. /\ rec' \in [Ids -> Records \cup {None}]
        /\ live' \in [Ids -> Attempts \cup {None}]
        /\ call' \in [Calls -> CallType] /\ \A d \in Calls : CallOK(d)'
        /\ \A i \in Ids : KeepsRequest(i) /\ KeepsDebt(i)
        /\ ExecutorInv'
    BY <1>1, <1>2, <1>4, ClaimAndRunStep
  <2>2. TypeOK'
    BY <1>1, <2>1 DEF Inv, TypeOK, CallOK
  <2>3. QED
    BY <1>1, <2>1, <2>2, QuietStep, SameOrphans, Clock DEF Inv
<1>5. QED
  BY <1>3, <1>4 DEF Promote

LEMMA RetryStep ==
  ASSUME Inv, NEW c \in Calls, NEW id \in Ids, RetryPrivateSpendPayout(c, id)
  PROVE  Inv' /\ UNCHANGED Leg!vars
<1>. DEFINE r == Normalized(id)
<1>1. /\ rec[id] # None
      /\ UNCHANGED <<boot, next, key, accrued, now, fee, funds, paid, dedup, orphans, faults>>
  BY DEF RetryPrivateSpendPayout, control, ledger
<1>2. /\ r \in Records /\ r.seq = rec[id].seq /\ r.frozen = rec[id].frozen
      /\ r.dispatched = rec[id].dispatched
      /\ r.status = "Finalized" <=> rec[id].status = "Finalized"
      /\ r # rec[id] => live[id] = None
  BY <1>1, NormalizedFields DEF Inv
<1>3. CASE r.status = "PayoutPending" /\ Claimable(id)
  <2>1. /\ rec' \in [Ids -> Records \cup {None}]
        /\ live' \in [Ids -> Attempts \cup {None}]
        /\ call' \in [Calls -> CallType] /\ \A d \in Calls : CallOK(d)'
        /\ \A i \in Ids : KeepsRequest(i) /\ KeepsDebt(i)
        /\ ExecutorInv'
    BY <1>1, <1>2, <1>3, ClaimAndRunStep DEF RetryPrivateSpendPayout
  <2>2. TypeOK'
    BY <1>1, <2>1 DEF Inv, TypeOK, CallOK
  <2>3. QED
    BY <1>1, <2>1, <2>2, QuietStep, SameOrphans, Clock DEF Inv
<1>4. CASE ~(r.status = "PayoutPending" /\ Claimable(id))
  <2>1. Write(id, r) /\ UNCHANGED <<live, call>>
    BY <1>4 DEF RetryPrivateSpendPayout
  <2>2. r.dispatched => r.frozen # None
    BY <1>1, <1>2 DEF Inv, PayoutInv, RecordInv
  <2>3. /\ rec' \in [Ids -> Records \cup {None}]
        /\ \A i \in Ids : KeepsRequest(i) /\ KeepsDebt(i)
    BY <1>1, <1>2, <2>1, <2>2, WriteKeeps
  <2>4. ExecutorInv' /\ \A d \in Calls : CallOK(d)'
    BY <1>1, <1>2, <2>1, IdleWrite
  <2>5. TypeOK'
    BY <1>1, <2>1, <2>3, <2>4 DEF Inv, TypeOK, CallOK
  <2>6. QED
    BY <1>1, <2>3, <2>4, <2>5, QuietStep, SameOrphans, Clock DEF Inv
<1>5. QED
  BY <1>3, <1>4

-----------------------------------------------------------------------------
(* The callbacks of an executor: it owns the record, so it never has to    *)
(* give up its work.                                                       *)

LEMMA OwnerResumes ==
  ASSUME Inv, NEW c \in Calls, Executing(c)
  PROVE  LET id == call[c].id IN
         /\ id \in Ids /\ Owned(c)
         /\ rec[id] # None /\ rec[id] \in Records /\ rec[id].status = "PayoutSubmitting"
         /\ AttemptOf(rec[id]) = call[c].attempt /\ live[id] = call[c].attempt
         /\ rec[id].gen > 0 /\ rec[id].seq \in Seqs
         /\ rec[id].frozen \in Requests \cup {None}
         /\ \A d \in Calls : d # c /\ Executing(d) => call[d].id # id /\ call[d].id \in Ids
<1>1. \A d \in Calls : Executing(d) => call[d].id \in Ids /\ call[d].attempt \in Attempts
  BY CallFields DEF Inv
<1>2. Owned(c) /\ \A d \in Calls : d # c /\ Executing(d) => call[d].id # call[c].id
  BY DEF Inv, PayoutInv, ExecutorInv, OwnerInv
<1>3. rec[call[c].id].gen > 0
  <2>1. AttemptOf(rec[call[c].id]) \in Attempts
    BY <1>1, <1>2 DEF Owned
  <2>2. rec[call[c].id].gen \in 1..MaxGen
    BY <2>1 DEF AttemptOf, Attempts
  <2>3. QED
    BY <2>2
<1>4. QED
  BY <1>1, <1>2, <1>3, RecordFields DEF Inv, Owned

(* finish_error *)
LEMMA FinishErrorStep ==
  ASSUME Inv, NEW c \in Calls, Executing(c), NEW ambiguous \in BOOLEAN,
         FinishError(c, ambiguous),
         UNCHANGED <<boot, next, key, now, fee, funds, paid, dedup, orphans, faults>>
  PROVE  Inv' /\ UNCHANGED Leg!vars
<1>. DEFINE id == call[c].id
            r == rec[id]
            unclear == r.ambiguous \/ ambiguous
            w == [r EXCEPT !.ambiguous = unclear,
                           !.status = IF unclear THEN "PayoutUnknown" ELSE "PayoutPending"]
<1>1. Write(id, w) /\ DropGuard(c) /\ Finish(c) /\ UNCHANGED accrued
  BY DEF FinishError
<1>2. /\ id \in Ids /\ r # None /\ r \in Records /\ r.status = "PayoutSubmitting"
      /\ \A d \in Calls : d # c /\ Executing(d) => call[d].id # id /\ call[d].id \in Ids
  BY OwnerResumes
<1>3. /\ w \in Records /\ w.seq = r.seq /\ w.frozen = r.frozen
      /\ w.dispatched = r.dispatched /\ w.status # "Finalized"
  <2>1. unclear \in BOOLEAN
    BY <1>2 DEF Records
  <2>2. QED
    BY <1>2, <2>1 DEF Records, Statuses
<1>4. w.dispatched => w.frozen # None
  BY <1>2, <1>3 DEF Inv, PayoutInv, RecordInv
<1>5. /\ rec' \in [Ids -> Records \cup {None}]
      /\ \A i \in Ids : i # id => rec'[i] = rec[i]
      /\ \A i \in Ids : KeepsRequest(i) /\ KeepsDebt(i)
  BY <1>1, <1>2, <1>3, <1>4, WriteKeeps
<1>6. TypeOK'
  BY <1>1, <1>5, CallEnds, GuardDrops DEF Inv, TypeOK, CallOK
<1>7. ExecutorInv'
  BY <1>1, <1>2, <1>5, CallEnds, GuardDrops, ExecutorsKept
<1>8. QED
  BY <1>1, <1>5, <1>6, <1>7, QuietStep, SameOrphans, Clock DEF Inv

(* An executor goes to its next await with record w. *)
LEMMA GoesOn ==
  ASSUME Inv, NEW c \in Calls, Executing(c), NEW pc \in Executors, NEW w \in Records,
         NEW q \in Requests \cup {None},
         call' = [call EXCEPT ![c] = Await(pc, call[c].id, call[c].attempt, q)],
         rec'[call[c].id] = w, \A i \in Ids : i # call[c].id => rec'[i] = rec[i],
         live' = live, paid' = paid,
         w.gen > 0, w.status = "PayoutSubmitting", AttemptOf(w) = call[c].attempt,
         pc = "fee" => w.frozen = None,
         pc = "transfer" => q # None /\ q = w.frozen
  PROVE  call' \in [Calls -> CallType] /\ (\A d \in Calls : CallOK(d)') /\ ExecutorInv'
<1>. DEFINE id == call[c].id
<1>1. /\ id \in Ids /\ live[id] = call[c].attempt
      /\ \A d \in Calls : d # c /\ Executing(d) => call[d].id # id /\ call[d].id \in Ids
  BY OwnerResumes
<1>2. live'[id] = AttemptOf(w)
  BY <1>1
<1>3. /\ call' \in [Calls -> CallType] /\ \A d \in Calls : CallOK(d)'
      /\ OwnerInv(c)' /\ call'[c].id = id
      /\ \A d \in Calls : d # c => call'[d] = call[d]
  BY <1>1, <1>2, AwaitOwned
<1>4. QED
  BY <1>1, <1>3, ExecutorsKept

LEMMA BalanceReplyStep ==
  ASSUME Inv, NEW c \in Calls, BalanceReply(c)
  PROVE  Inv' /\ UNCHANGED Leg!vars
<1>. DEFINE id == call[c].id
            r == rec[id]
            w == [r EXCEPT !.phase = "MayHaveDispatched", !.dispatched = TRUE]
<1>1. /\ Executing(c)
      /\ UNCHANGED <<boot, next, key, now, fee, funds, paid, dedup, orphans, faults>>
  BY DEF BalanceReply, Answered, Executing, Executors, At, control, ledger
<1>2. /\ id \in Ids /\ Owned(c) /\ r # None /\ r \in Records
      /\ r.status = "PayoutSubmitting" /\ r.gen > 0 /\ AttemptOf(r) = call[c].attempt
      /\ r.frozen \in Requests \cup {None}
  BY <1>1, OwnerResumes
<1>3. CASE FinishError(c, FALSE)
  BY <1>1, <1>3, FinishErrorStep
<1>4. CASE /\ r.frozen = None
           /\ call' = [call EXCEPT ![c] = Await("fee", id, @.attempt, None)]
           /\ UNCHANGED <<rec, live, accrued>>
  <2>1. call' = [call EXCEPT ![c] = Await("fee", id, call[c].attempt, None)]
    BY <1>4 DEF Inv, TypeOK
  <2>2. /\ call' \in [Calls -> CallType] /\ \A d \in Calls : CallOK(d)'
        /\ ExecutorInv'
    BY <1>1, <1>2, <1>4, <2>1, GoesOn DEF Executors
  <2>3. TypeOK'
    BY <1>1, <1>4, <2>2 DEF Inv, TypeOK, CallOK
  <2>4. QED
    BY <1>1, <1>4, <2>2, <2>3, QuietStep, SameRecords, SameOrphans, Clock DEF Inv
<1>5. CASE r.frozen # None /\ Dispatch(c, id, r) /\ UNCHANGED <<live, accrued>>
  <2>1. /\ Write(id, w)
        /\ call' = [call EXCEPT ![c] = Await("transfer", id, call[c].attempt, r.frozen)]
    BY <1>2, <1>5 DEF Dispatch
  <2>2. /\ w \in Records /\ w.seq = r.seq /\ w.frozen = r.frozen /\ w.gen > 0
        /\ w.status = "PayoutSubmitting" /\ AttemptOf(w) = call[c].attempt
    BY <1>2 DEF Records, AttemptOf
  <2>3. /\ rec' \in [Ids -> Records \cup {None}] /\ rec'[id] = w
        /\ \A i \in Ids : i # id => rec'[i] = rec[i]
        /\ \A i \in Ids : KeepsRequest(i) /\ KeepsDebt(i)
    BY <1>2, <1>5, <2>1, <2>2, WriteKeeps
  <2>4. /\ call' \in [Calls -> CallType] /\ \A d \in Calls : CallOK(d)'
        /\ ExecutorInv'
    BY <1>1, <1>2, <1>5, <2>1, <2>2, <2>3, GoesOn DEF Executors
  <2>5. TypeOK'
    BY <1>1, <1>5, <2>3, <2>4 DEF Inv, TypeOK, CallOK
  <2>6. QED
    BY <1>1, <1>5, <2>3, <2>4, <2>5, QuietStep, SameOrphans, Clock DEF Inv
<1>6. QED
  BY <1>2, <1>3, <1>4, <1>5 DEF BalanceReply, Resume

(* The request is frozen: nothing carries the sequence of this payout yet. *)
LEMMA Freezes ==
  ASSUME Inv, NEW id \in Ids, rec[id] # None, NEW f \in Requests, NEW w \in Records,
         rec[id].frozen = None, f.memo.seq = rec[id].seq,
         w.seq = rec[id].seq, w.frozen = f,
         rec'[id] = w, \A i \in Ids : i # id => rec'[i] = rec[i],
         UNCHANGED <<next, now, paid, dedup, orphans>>
  PROVE  RecordInv' /\ RequestInv' /\ LedgerInv'
<1>1. f # None /\ w # None
  BY PayoutAssumption
<1>2. \A q : Known(q)' => Known(q) \/ q = f
  BY <1>1 DEF Known
<1>3. RecordInv'
  BY <1>1 DEF Inv, PayoutInv, RecordInv
<1>4. \A q \in Requests : Known(q) => q.memo.seq # f.memo.seq
  BY DEF Inv, PayoutInv, RequestInv
<1>5. RequestInv'
  <2>1. \A p, q \in Requests :
           Known(p)' /\ Known(q)' /\ p.memo.seq = q.memo.seq => p = q
    BY <1>2, <1>4 DEF Inv, PayoutInv, RequestInv
  <2>2. \A q \in Requests : Known(q)' => q.memo.seq < next'
    BY <1>2 DEF Inv, PayoutInv, RequestInv, RecordInv
  <2>3. ASSUME NEW i \in Ids, rec'[i] # None, rec'[i].frozen = None,
               NEW q \in Requests, Known(q)'
        PROVE  q.memo.seq # rec'[i].seq
    <3>1. i # id
      BY <1>1, <2>3
    <3>2. rec'[i] = rec[i] /\ rec[i].seq # f.memo.seq
      BY <2>3, <3>1 DEF Inv, PayoutInv, RecordInv
    <3>3. QED
      BY <1>2, <2>3, <3>2 DEF Inv, PayoutInv, RequestInv
  <2>4. QED
    BY <2>1, <2>2, <2>3 DEF RequestInv
<1>6. LedgerInv'
  <2>1. paid[f.memo.seq] = 0
    BY DEF Inv, PayoutInv, LedgerInv
  <2>2. \A q \in Requests : Known(q)' /\ paid[q.memo.seq] # 0
           => DedupKey(q) \in dedup \/ Stale(q.stamp)
    BY <1>2, <2>1 DEF Inv, PayoutInv, LedgerInv
  <2>3. \A i \in Ids : rec'[i] # None /\ rec'[i].frozen = None => paid[rec'[i].seq] = 0
    BY <1>1 DEF Inv, PayoutInv, LedgerInv
  <2>4. \A d \in dedup : paid[d.memo.seq] = 1
    BY DEF Inv, PayoutInv, LedgerInv
  <2>5. QED
    BY <2>2, <2>3, <2>4 DEF LedgerInv, DedupKey, Stale
<1>7. QED
  BY <1>3, <1>5, <1>6

LEMMA FeeReplyStep ==
  ASSUME Inv, NEW c \in Calls, FeeReply(c)
  PROVE  Inv' /\ UNCHANGED Leg!vars
<1>. DEFINE id == call[c].id
            r == rec[id]
            f == Frozen(id, call[c].fee)
            w == [r EXCEPT !.frozen = f, !.phase = "MayHaveDispatched", !.dispatched = TRUE]
<1>1. /\ Executing(c) /\ At(c, "fee")
      /\ UNCHANGED <<boot, next, key, now, fee, funds, paid, dedup, orphans, faults>>
  BY DEF FeeReply, Answered, Executing, Executors, At, control, ledger
<1>2. /\ id \in Ids /\ Owned(c) /\ r # None /\ r \in Records
      /\ r.status = "PayoutSubmitting" /\ r.gen > 0 /\ AttemptOf(r) = call[c].attempt
      /\ r.seq \in Seqs
  BY <1>1, OwnerResumes
<1>3. CASE FinishError(c, FALSE)
  BY <1>1, <1>3, FinishErrorStep
<1>4. CASE /\ call[c].reply # "error" /\ key # None
           /\ Dispatch(c, id, [r EXCEPT !.frozen = f])
           /\ UNCHANGED <<live, accrued>>
  <2>1. r.frozen = None
    BY <1>1 DEF Inv, PayoutInv, ExecutorInv, OwnerInv
  <2>2. f \in Requests /\ f.memo.seq = r.seq /\ f # None
    <3>1. call[c].fee \in Fees
      <4>1. call[c].reply # "none"
        BY DEF FeeReply, Answered
      <4>2. QED
        BY <1>1, <1>4, <4>1, CallFields DEF Inv
    <3>2. key \in Keys /\ now \in 0..MaxTime
      BY <1>4 DEF Inv, TypeOK
    <3>3. f \in Requests /\ f.memo.seq = r.seq
      BY <1>2, <3>1, <3>2 DEF Frozen, Requests, Memos
    <3>4. QED
      BY <3>3, PayoutAssumption
  <2>3. /\ w \in Records /\ w.seq = r.seq /\ w.frozen = f /\ w.gen > 0
        /\ w.status = "PayoutSubmitting" /\ AttemptOf(w) = call[c].attempt
    BY <1>2, <2>2 DEF Records, AttemptOf
  <2>4. /\ Write(id, w)
        /\ call' = [call EXCEPT ![c] = Await("transfer", id, call[c].attempt, f)]
    <3>. DEFINE q == [r EXCEPT !.frozen = f]
    <3>1. /\ q.frozen = f /\ AttemptOf(q) = call[c].attempt
          /\ [q EXCEPT !.phase = "MayHaveDispatched", !.dispatched = TRUE] = w
      BY <1>2 DEF Records, AttemptOf
    <3>2. /\ Write(id, [q EXCEPT !.phase = "MayHaveDispatched", !.dispatched = TRUE])
          /\ call' = [call EXCEPT ![c] = Await("transfer", id, AttemptOf(q), q.frozen)]
      BY <1>4 DEF Dispatch
    <3>3. QED
      BY <3>1, <3>2
  <2>5. /\ rec' \in [Ids -> Records \cup {None}] /\ rec'[id] = w
        /\ \A i \in Ids : i # id => rec'[i] = rec[i]
    BY <1>2, <2>3, <2>4 DEF Write, Inv, TypeOK
  <2>6. /\ call' \in [Calls -> CallType] /\ \A d \in Calls : CallOK(d)'
        /\ ExecutorInv'
    BY <1>1, <1>2, <1>4, <2>2, <2>3, <2>4, <2>5, GoesOn DEF Executors
  <2>7. TypeOK'
    BY <1>1, <1>4, <2>5, <2>6 DEF Inv, TypeOK, CallOK
  <2>8. RecordInv' /\ RequestInv' /\ LedgerInv'
    <3>1. UNCHANGED <<next, now, paid, dedup, orphans>>
      BY <1>1
    <3>. HIDE DEF f, w
    <3>2. QED
      BY <1>2, <2>1, <2>2, <2>3, <2>5, <3>1, Freezes
  <2>9. \A i \in Ids : KeepsDebt(i)
    <3>1. w # None
      BY <2>3, PayoutAssumption
    <3>2. QED
      BY <1>2, <2>3, <2>5, <3>1 DEF KeepsDebt, Owed
  <2>10. QED
    BY <1>1, <1>4, <2>6, <2>7, <2>8, <2>9, SettledKept DEF Inv, PayoutInv
<1>5. QED
  BY <1>2, <1>3, <1>4 DEF FeeReply, Resume

-----------------------------------------------------------------------------
(* The three steps of the abstract payout.                                 *)

LEMMA LegKinds ==
  ASSUME NEW s \in Seqs
  PROVE  /\ LegState[s] \in {"free", "owed", "settled"}
         /\ LegState[s] = "free" <=> s >= next
         /\ LegState[s] = "owed" <=>
               ~(s >= next) /\ \E id \in Ids : Owed(id) /\ rec[id].seq = s
BY DEF LegState, Owed

(* terminal_payout, of a payout the ledger executed. *)
LEMMA TerminalSettles ==
  ASSUME Inv, NEW id \in Ids, Owed(id), paid[rec[id].seq] = 1,
         NEW r \in Records, r.seq = rec[id].seq, r.frozen = rec[id].frozen,
         r.dispatched = rec[id].dispatched, Terminal(id, r),
         next' = next, paid' = paid
  PROVE  /\ rec' \in [Ids -> Records \cup {None}] /\ accrued' \in [Seqs -> Nat]
         /\ \A i \in Ids : i # id => rec'[i] = rec[i]
         /\ \A i \in Ids : KeepsRequest(i)
         /\ SettledInv' /\ Leg!Next
<1>. DEFINE s == rec[id].seq
            w == [r EXCEPT !.status = "Finalized"]
<1>1. /\ Write(id, w) /\ accrued' = [accrued EXCEPT ![s] = @ + 1]
      /\ rec[id] # None /\ rec[id] \in Records /\ s \in Seqs
  BY RecordFields DEF Terminal, Owed, Inv
<1>2. /\ w \in Records /\ w # None /\ w.seq = s /\ w.frozen = rec[id].frozen
      /\ w.dispatched = rec[id].dispatched /\ w.status = "Finalized"
  <2>1. w \in Records /\ w # None
    BY <1>1, PayoutAssumption DEF Records, Statuses
  <2>2. QED
    BY <1>1, <2>1 DEF Records
<1>3. /\ rec' \in [Ids -> Records \cup {None}] /\ rec'[id] = w
      /\ \A i \in Ids : i # id => rec'[i] = rec[i]
  BY <1>1, <1>2 DEF Write, Inv, TypeOK
<1>4. \A i \in Ids : KeepsRequest(i)
  <2>1. KeepsRequest(id)
    BY <1>1, <1>2, <1>3 DEF KeepsRequest, Inv, PayoutInv, RecordInv
  <2>2. \A i \in Ids : i # id => KeepsRequest(i)
    BY <1>3 DEF KeepsRequest, Inv, PayoutInv, RecordInv
  <2>3. QED
    BY <2>1, <2>2
<1>5. /\ accrued' \in [Seqs -> Nat] /\ accrued'[s] = accrued[s] + 1
      /\ \A x \in Seqs : x # s => accrued'[x] = accrued[x]
  BY <1>1 DEF Inv, TypeOK
<1>6. ~(s >= next)
  BY <1>1 DEF Inv, PayoutInv, RecordInv, TypeOK, Seqs
<1>7. LegState[s] = "owed"
  BY <1>1, <1>6, LegKinds
<1>8. ~Owed(id)' /\ \A i \in Ids : i # id => rec[i] = None \/ rec[i].seq # s
  BY <1>1, <1>2, <1>3 DEF Owed, Inv, PayoutInv, RecordInv
<1>9. LegState'[s] = "settled"
  BY <1>1, <1>3, <1>6, <1>8 DEF LegState, Owed
<1>10. \A x \in Seqs : x # s => LegState'[x] = LegState[x]
  <2>1. ASSUME NEW x \in Seqs, x # s
        PROVE  (\E i \in Ids : Owed(i) /\ rec[i].seq = x)'
                  <=> \E i \in Ids : Owed(i) /\ rec[i].seq = x
    BY <1>1, <1>3, <1>8, <2>1 DEF Owed
  <2>2. QED
    BY <2>1 DEF LegState, Owed
<1>11. LegState' = [LegState EXCEPT ![s] = "settled"]
  <2>. HIDE DEF s
  <2>1. LegState' = [x \in Seqs |-> LegState'[x]] /\ LegState = [x \in Seqs |-> LegState[x]]
    BY DEF LegState
  <2>2. \A x \in Seqs : LegState'[x] = [LegState EXCEPT ![s] = "settled"][x]
    BY <1>9, <1>10, <2>1
  <2>3. QED
    BY <2>1, <2>2
<1>12. accrued[s] = 0 /\ accrued' = [accrued EXCEPT ![s] = 1]
  <2>1. accrued[s] = 0
    BY <1>1, <1>7 DEF Inv, PayoutInv, SettledInv
  <2>2. QED
    BY <1>1, <2>1
<1>13. Leg!Next
  BY <1>1, <1>7, <1>11, <1>12 DEF Leg!Next, Leg!Settle
<1>14. SettledInv'
  <2>1. ASSUME NEW x \in Seqs, x # s
        PROVE  /\ paid'[x] <= 1
               /\ LegState'[x] = "free" => paid'[x] = 0 /\ accrued'[x] = 0
               /\ LegState'[x] = "owed" => accrued'[x] = 0
               /\ LegState'[x] = "settled" => paid'[x] = 1 /\ accrued'[x] = 1
    BY <1>5, <1>10, <2>1 DEF Inv, PayoutInv, SettledInv
  <2>2. paid'[s] = 1 /\ accrued'[s] = 1
    BY <1>1, <1>5, <1>12
  <2>3. QED
    BY <1>9, <2>1, <2>2 DEF SettledInv
<1>15. QED
  BY <1>3, <1>4, <1>5, <1>13, <1>14

LEMMA TransferReplyStep ==
  ASSUME Inv, NEW c \in Calls, TransferReply(c)
  PROVE  Inv' /\ [Leg!Next]_Leg!vars
<1>. DEFINE id == call[c].id
            r == rec[id]
<1>1. /\ Executing(c) /\ At(c, "transfer")
      /\ UNCHANGED <<boot, next, key, now, fee, funds, paid, dedup, orphans, faults>>
  BY DEF TransferReply, Answered, Executing, Executors, At, control, ledger
<1>2. /\ id \in Ids /\ Owned(c) /\ r # None /\ r \in Records
      /\ r.status = "PayoutSubmitting" /\ r.seq \in Seqs
      /\ \A d \in Calls : d # c /\ Executing(d) => call[d].id # id /\ call[d].id \in Ids
  BY <1>1, OwnerResumes
<1>3. CASE call[c].reply \in {"Ok", "Duplicate"}
  <2>1. Terminal(id, r) /\ DropGuard(c) /\ Finish(c)
    BY <1>2, <1>3 DEF TransferReply, Resume
  <2>2. paid[r.seq] = 1
    <3>1. call[c].req = r.frozen /\ paid[call[c].req.memo.seq] = 1
      BY <1>1, <1>3 DEF Inv, PayoutInv, ExecutorInv, OwnerInv
    <3>2. call[c].req # None
      BY <1>1 DEF Inv, TypeOK
    <3>3. QED
      BY <1>2, <3>1, <3>2 DEF Inv, PayoutInv, RecordInv
  <2>3. Owed(id)
    BY <1>2 DEF Owed
  <2>4. /\ rec' \in [Ids -> Records \cup {None}] /\ accrued' \in [Seqs -> Nat]
        /\ \A i \in Ids : i # id => rec'[i] = rec[i]
        /\ \A i \in Ids : KeepsRequest(i)
        /\ SettledInv' /\ Leg!Next
    BY <1>1, <1>2, <2>1, <2>2, <2>3, TerminalSettles
  <2>5. TypeOK'
    BY <1>1, <2>1, <2>4, CallEnds, GuardDrops DEF Inv, TypeOK, CallOK
  <2>6. ExecutorInv'
    BY <1>1, <1>2, <2>1, <2>4, CallEnds, GuardDrops, ExecutorsKept
  <2>7. RecordInv' /\ RequestInv' /\ LedgerInv'
    BY <1>1, <2>4, <2>5, RequestsKept, SameOrphans, Clock DEF Inv
  <2>8. QED
    BY <2>4, <2>5, <2>6, <2>7 DEF Inv, PayoutInv
<1>4. CASE call[c].reply \notin {"Ok", "Duplicate"}
  <2>. DEFINE ambiguous == call[c].reply \in {"BadFee", "TooOld", "error"}
  <2>1. FinishError(c, ambiguous)
    BY <1>2, <1>4 DEF TransferReply, Resume
  <2>2. ambiguous \in BOOLEAN
    OBVIOUS
  <2>. HIDE DEF ambiguous
  <2>3. QED
    BY <1>1, <2>1, <2>2, FinishErrorStep
<1>5. QED
  BY <1>3, <1>4

LEMMA ReconcileExecutedStep ==
  ASSUME Inv, NEW id \in Ids, ReconcileExecuted(id)
  PROVE  Inv' /\ [Leg!Next]_Leg!vars
<1>. DEFINE r == Normalized(id)
<1>1. /\ rec[id] # None /\ paid[rec[id].seq] > 0
      /\ UNCHANGED <<boot, next, key, live, call, now, fee, funds, paid, dedup, orphans,
                     faults>>
  BY DEF ReconcileExecuted, control, ledger
<1>2. /\ r \in Records /\ r.seq = rec[id].seq /\ r.frozen = rec[id].frozen
      /\ r.dispatched = rec[id].dispatched
      /\ r.status = "Finalized" <=> rec[id].status = "Finalized"
      /\ r # rec[id] => live[id] = None
      /\ r.status # "PayoutSubmitting" =>
            rec[id].status # "PayoutSubmitting" \/ live[id] = None
      /\ rec[id] \in Records /\ rec[id].seq \in Seqs
  BY <1>1, NormalizedFields, RecordFields DEF Inv
<1>3. CASE r.status = "PayoutUnknown"
  <2>1. Terminal(id, r)
    BY <1>3 DEF ReconcileExecuted
  <2>2. paid[rec[id].seq] = 1
    BY <1>1, <1>2 DEF Inv, TypeOK, PayoutInv, SettledInv
  <2>3. Owed(id)
    BY <1>1, <1>2, <1>3 DEF Owed
  <2>4. /\ rec' \in [Ids -> Records \cup {None}] /\ accrued' \in [Seqs -> Nat]
        /\ \A i \in Ids : KeepsRequest(i)
        /\ SettledInv' /\ Leg!Next
    BY <1>1, <1>2, <2>1, <2>2, <2>3, TerminalSettles
  <2>5. ExecutorInv' /\ \A c \in Calls : CallOK(c)'
    BY <1>1, <1>2, <1>3, <2>1, IdleWrite DEF Terminal
  <2>6. TypeOK'
    BY <1>1, <2>4, <2>5 DEF Inv, TypeOK, CallOK
  <2>7. RecordInv' /\ RequestInv' /\ LedgerInv'
    BY <1>1, <2>4, <2>6, RequestsKept, SameOrphans, Clock DEF Inv
  <2>8. QED
    BY <2>4, <2>5, <2>6, <2>7 DEF Inv, PayoutInv
<1>4. CASE r.status # "PayoutUnknown"
  <2>1. Write(id, r) /\ UNCHANGED accrued
    BY <1>4 DEF ReconcileExecuted
  <2>2. r.dispatched => r.frozen # None
    BY <1>1, <1>2 DEF Inv, PayoutInv, RecordInv
  <2>3. /\ rec' \in [Ids -> Records \cup {None}]
        /\ \A i \in Ids : KeepsRequest(i) /\ KeepsDebt(i)
    BY <1>1, <1>2, <2>1, <2>2, WriteKeeps
  <2>4. ExecutorInv' /\ \A c \in Calls : CallOK(c)'
    BY <1>1, <1>2, <2>1, IdleWrite
  <2>5. TypeOK'
    BY <1>1, <2>1, <2>3, <2>4 DEF Inv, TypeOK, CallOK
  <2>6. QED
    BY <1>1, <2>1, <2>3, <2>4, <2>5, QuietStep, SameOrphans, Clock DEF Inv
<1>5. QED
  BY <1>3, <1>4

(* The ledger executes a known request: it is the first and the last time. *)
LEMMA LedgerPays ==
  ASSUME Inv, NEW q \in Requests, Known(q), LedgerExecutes(q),
         UNCHANGED <<next, rec, accrued, now>>, orphans' \subseteq orphans
  PROVE  /\ fee' \in Fees /\ funds' \in 0..MaxFunds
         /\ paid' \in [Seqs -> Nat] /\ dedup' \subseteq Requests
         /\ \A s \in Seqs : paid[s] = 1 => paid'[s] = 1
         /\ TransferOutcome(q) \in {"Ok", "Duplicate"} => paid'[q.memo.seq] = 1
         /\ RecordInv' /\ RequestInv' /\ LedgerInv' /\ SettledInv'
         /\ [Leg!Next]_Leg!vars
<1>. USE DEF Inv
<1>. DEFINE s == q.memo.seq
<1>1. /\ s \in Seqs /\ DedupKey(q) = q /\ now \in Nat /\ Window \in Nat /\ q.stamp \in Nat
  BY RequestFields, PayoutAssumption DEF TypeOK
<1>2. \A x : Known(x)' => Known(x)
  BY DEF Known
<1>3. RecordInv' /\ RequestInv'
  BY <1>2 DEF PayoutInv, RecordInv, RequestInv
<1>4. \A x \in Requests : (Stale(x.stamp)' <=> Stale(x.stamp)) /\ DedupKey(x) = x
  BY RequestFields DEF Stale
<1>5. LegState' = LegState
  BY DEF LegState
<1>6. CASE TransferOutcome(q) = "Ok"
  <2>1. /\ funds' = funds - 1 /\ paid' = [paid EXCEPT ![s] = @ + 1] /\ fee' = fee
        /\ dedup' = {d \in dedup : ~Stale(d.stamp)} \cup {q}
    BY <1>1, <1>6 DEF LedgerExecutes
  <2>2. now - q.stamp <= Window /\ q \notin dedup /\ funds # 0
    BY <1>1, <1>6 DEF TransferOutcome
  <2>3. paid[s] = 0
    <3>1. ~Stale(q.stamp)
      BY <1>1, <2>2 DEF Stale
    <3>2. QED
      BY <1>1, <2>2, <3>1 DEF PayoutInv, LedgerInv
  <2>4. /\ paid' \in [Seqs -> Nat] /\ paid'[s] = 1
        /\ \A x \in Seqs : x # s => paid'[x] = paid[x]
        /\ paid' = [paid EXCEPT ![s] = 1]
    BY <1>1, <2>1, <2>3 DEF TypeOK
  <2>5. fee' \in Fees /\ funds' \in 0..MaxFunds /\ dedup' \subseteq Requests
    BY <2>1, <2>2, PayoutAssumption DEF TypeOK
  <2>6. LedgerInv'
    <3>1. \A d \in dedup' : paid'[d.memo.seq] = 1
      <4>1. \A d \in dedup : d.memo.seq \in Seqs
        BY RequestFields DEF TypeOK
      <4>2. QED
        BY <2>1, <2>4, <4>1 DEF PayoutInv, LedgerInv
    <3>2. ASSUME NEW x \in Requests, Known(x)', paid'[x.memo.seq] # 0
          PROVE  x \in dedup' \/ Stale(x.stamp)
      <4>1. CASE x.memo.seq = s
        BY <1>2, <2>1, <3>2, <4>1 DEF PayoutInv, RequestInv
      <4>2. CASE x.memo.seq # s
        <5>1. paid[x.memo.seq] # 0
          BY <2>4, <3>2, <4>2, RequestFields
        <5>2. x \in dedup \/ Stale(x.stamp)
          BY <1>2, <1>4, <3>2, <5>1 DEF PayoutInv, LedgerInv
        <5>3. QED
          BY <2>1, <5>2
      <4>3. QED
        BY <4>1, <4>2
    <3>3. ASSUME NEW id \in Ids, rec[id] # None, rec[id].frozen = None
          PROVE  paid'[rec[id].seq] = 0
      <4>1. rec[id].seq # s /\ rec[id].seq \in Seqs
        BY <3>3, RecordFields DEF PayoutInv, RequestInv
      <4>2. QED
        BY <2>4, <3>3, <4>1 DEF PayoutInv, LedgerInv
    <3>4. \A x \in Requests : DedupKey(x)' = x
      BY <1>4 DEF DedupKey
    <3>5. QED
      BY <1>4, <3>1, <3>2, <3>3, <3>4 DEF LedgerInv
  <2>7. LegState[s] = "owed"
    <3>1. s < next
      BY DEF PayoutInv, RequestInv
    <3>2. LegState[s] # "free"
      BY <1>1, <3>1, LegKinds DEF TypeOK, Seqs
    <3>3. LegState[s] # "settled"
      BY <1>1, <2>3 DEF PayoutInv, SettledInv
    <3>4. QED
      BY <1>1, <3>2, <3>3, LegKinds
  <2>8. Leg!Next
    BY <1>1, <1>5, <2>3, <2>4, <2>7 DEF Leg!Next, Leg!Pay
  <2>9. SettledInv'
    <3>1. ASSUME NEW x \in Seqs
          PROVE  /\ paid'[x] <= 1
                 /\ LegState[x] = "free" => paid'[x] = 0 /\ accrued[x] = 0
                 /\ LegState[x] = "owed" => accrued[x] = 0
                 /\ LegState[x] = "settled" => paid'[x] = 1 /\ accrued[x] = 1
      <4>1. CASE x = s
        BY <2>4, <2>7, <4>1 DEF PayoutInv, SettledInv
      <4>2. CASE x # s
        BY <2>4, <4>2 DEF PayoutInv, SettledInv
      <4>3. QED
        BY <4>1, <4>2
    <3>2. QED
      BY <1>5, <3>1 DEF SettledInv
  <2>10. \A x \in Seqs : paid[x] = 1 => paid'[x] = 1
    BY <2>3, <2>4
  <2>11. QED
    BY <1>3, <2>4, <2>5, <2>6, <2>8, <2>9, <2>10
<1>7. CASE TransferOutcome(q) # "Ok"
  <2>1. UNCHANGED <<fee, funds, paid, dedup>>
    BY <1>7 DEF LedgerExecutes, ledger
  <2>2. LedgerInv'
    BY <1>2, <1>4, <2>1 DEF PayoutInv, LedgerInv, DedupKey
  <2>3. SettledInv' /\ UNCHANGED Leg!vars
    BY <1>5, <2>1 DEF PayoutInv, SettledInv, Leg!vars
  <2>4. TransferOutcome(q) = "Duplicate" => paid[s] = 1
    BY <1>1 DEF TransferOutcome, PayoutInv, LedgerInv
  <2>5. QED
    BY <1>3, <1>7, <2>1, <2>2, <2>3, <2>4 DEF TypeOK
<1>8. QED
  BY <1>6, <1>7

LEMMA DeliverOrphanStep ==
  ASSUME Inv, NEW o \in orphans, DeliverOrphan(o)
  PROVE  Inv' /\ [Leg!Next]_Leg!vars
<1>1. /\ LedgerExecutes(o.req) /\ orphans' \subseteq orphans
      /\ UNCHANGED <<boot, next, key, rec, live, call, accrued, now, faults>>
  BY DEF DeliverOrphan, control
<1>2. o.req \in Requests /\ Known(o.req)
  BY DEF Inv, TypeOK, Known
<1>3. /\ fee' \in Fees /\ funds' \in 0..MaxFunds
      /\ paid' \in [Seqs -> Nat] /\ dedup' \subseteq Requests
      /\ \A s \in Seqs : paid[s] = 1 => paid'[s] = 1
      /\ RecordInv' /\ RequestInv' /\ LedgerInv' /\ SettledInv'
      /\ [Leg!Next]_Leg!vars
  BY <1>1, <1>2, LedgerPays
<1>4. \A c \in Calls : OwnerInv(c)'
  BY <1>1, <1>3, OwnerKept
<1>5. ExecutorInv'
  BY <1>1, <1>4 DEF Inv, PayoutInv, ExecutorInv, Executing, At
<1>6. TypeOK'
  BY <1>1, <1>3 DEF Inv, TypeOK, Executing, At
<1>7. QED
  BY <1>3, <1>5, <1>6 DEF Inv, PayoutInv

LEMMA LedgerTransferStep ==
  ASSUME Inv, NEW c \in Calls, LedgerTransfer(c)
  PROVE  Inv' /\ [Leg!Next]_Leg!vars
<1>. DEFINE q == call[c].req
            id == call[c].id
            k == [call[c] EXCEPT !.reply = TransferOutcome(q)]
<1>1. /\ At(c, "transfer") /\ Executing(c) /\ LedgerExecutes(q)
      /\ call' = [call EXCEPT ![c].reply = TransferOutcome(q)]
      /\ UNCHANGED <<boot, next, key, rec, live, accrued, now, orphans, faults>>
  BY DEF LedgerTransfer, Waiting, Executing, Executors, At, Reply, control
<1>2. /\ id \in Ids /\ Owned(c) /\ rec[id] # None
      /\ \A d \in Calls : d # c /\ Executing(d) => call[d].id # id /\ call[d].id \in Ids
  BY <1>1, OwnerResumes
<1>3. q \in Requests /\ q # None /\ q = rec[id].frozen
  BY <1>1, CallFields, RequestFields DEF Inv, PayoutInv, ExecutorInv, OwnerInv
<1>4. Known(q)
  BY <1>2, <1>3 DEF Known
<1>5. /\ fee' \in Fees /\ funds' \in 0..MaxFunds
      /\ paid' \in [Seqs -> Nat] /\ dedup' \subseteq Requests
      /\ \A s \in Seqs : paid[s] = 1 => paid'[s] = 1
      /\ TransferOutcome(q) \in {"Ok", "Duplicate"} => paid'[q.memo.seq] = 1
      /\ RecordInv' /\ RequestInv' /\ LedgerInv' /\ SettledInv'
      /\ [Leg!Next]_Leg!vars
  BY <1>1, <1>3, <1>4, LedgerPays
<1>6. /\ call' = [call EXCEPT ![c] = k] /\ call'[c] = k /\ call[c] \in CallType
      /\ \A d \in Calls : d # c => call'[d] = call[d]
  BY <1>1 DEF Inv, TypeOK
<1>7. /\ k \in CallType /\ k.pc = call[c].pc /\ k.id = id /\ k.attempt = call[c].attempt
      /\ k.req = q /\ k.reply = TransferOutcome(q)
  <2>1. TransferOutcome(q) \in Replies
    BY DEF TransferOutcome, Replies
  <2>2. QED
    BY <1>6, <2>1 DEF CallType
<1>8. CallOK(c)'
  BY <1>1, <1>6, <1>7 DEF CallOK, Inv, TypeOK, Executing, At
<1>9. call' \in [Calls -> CallType] /\ \A d \in Calls : CallOK(d)'
  BY <1>6, <1>8, CallsOK DEF Inv
<1>10. TypeOK'
  BY <1>1, <1>5, <1>9 DEF Inv, TypeOK, CallOK
<1>11. OwnerInv(c)'
  BY <1>1, <1>2, <1>3, <1>5, <1>6, <1>7 DEF OwnerInv, Owned, AttemptOf, At
<1>12. ExecutorInv'
  BY <1>1, <1>2, <1>5, <1>6, <1>7, <1>11, ExecutorsKept
<1>13. QED
  BY <1>5, <1>10, <1>12 DEF Inv, PayoutInv

(* A sequence is given out: nothing under way carries it. *)
LEMMA AdmitStep ==
  ASSUME Inv, NEW id \in Ids, AdmitSpend(id)
  PROVE  Inv' /\ [Leg!Next]_Leg!vars
<1>. USE DEF Inv
<1>. DEFINE w == [status |-> "Promoting", seq |-> next, gen |-> 0, boot |-> boot,
                  phase |-> "PreDispatch", ambiguous |-> FALSE, dispatched |-> FALSE,
                  frozen |-> None]
<1>1. /\ rec[id] = None /\ Write(id, w) /\ next < MaxSeq /\ next' = next + 1
      /\ UNCHANGED <<boot, key, live, call, accrued, now, fee, funds, paid, dedup, orphans,
                     faults>>
  BY DEF AdmitSpend, ReservePayoutSequence, ledger
<1>2. next \in Seqs /\ next' \in 0..MaxSeq /\ next \in Nat
  BY <1>1, PayoutAssumption DEF TypeOK, Seqs
<1>3. /\ w \in Records /\ w # None /\ w.seq = next /\ w.frozen = None
      /\ w.dispatched = FALSE /\ w.status = "Promoting"
  <2>1. boot \in 1..(MaxFaults + 1) /\ 0 \in 0..MaxGen
    BY PayoutAssumption DEF TypeOK
  <2>2. w \in Records
    BY <1>2, <2>1 DEF Records, Statuses
  <2>3. QED
    BY <2>2, PayoutAssumption
<1>. HIDE DEF w
<1>4. /\ rec' \in [Ids -> Records \cup {None}] /\ rec'[id] = w
      /\ \A i \in Ids : i # id => rec'[i] = rec[i]
  BY <1>1, <1>3 DEF Write, TypeOK
<1>5. ExecutorInv' /\ \A c \in Calls : CallOK(c)'
  BY <1>1, IdleWrite
<1>6. TypeOK'
  BY <1>1, <1>2, <1>4, <1>5 DEF TypeOK, CallOK
<1>7. \A q : Known(q)' <=> Known(q)
  BY <1>1, <1>3, <1>4 DEF Known
<1>8. \A i \in Ids : rec[i] # None => rec[i].seq \in Nat /\ rec[i].seq < next
  BY RecordFields DEF PayoutInv, RecordInv, Seqs
<1>9. \A q \in Requests : q.memo.seq \in Nat /\ (Known(q) => q.memo.seq < next)
  BY RequestFields DEF PayoutInv, RequestInv, Seqs
<1>10. RecordInv'
  <2>1. ASSUME NEW i \in Ids, rec'[i] # None
        PROVE  /\ rec'[i].seq < next'
               /\ rec'[i].dispatched => rec'[i].frozen # None
               /\ rec'[i].frozen # None => rec'[i].frozen.memo.seq = rec'[i].seq
    <3>1. CASE i = id
      BY <1>1, <1>2, <1>3, <1>4, <3>1
    <3>2. CASE i # id
      BY <1>1, <1>2, <1>4, <1>8, <2>1, <3>2 DEF PayoutInv, RecordInv
    <3>3. QED
      BY <3>1, <3>2
  <2>2. ASSUME NEW i \in Ids, NEW j \in Ids, i # j, rec'[i] # None, rec'[j] # None
        PROVE  rec'[i].seq # rec'[j].seq
    BY <1>2, <1>3, <1>4, <1>8, <2>2 DEF PayoutInv, RecordInv
  <2>3. QED
    BY <2>1, <2>2 DEF RecordInv
<1>11. RequestInv'
  <2>1. ASSUME NEW i \in Ids, rec'[i] # None, rec'[i].frozen = None,
               NEW q \in Requests, Known(q)'
        PROVE  q.memo.seq # rec'[i].seq
    <3>1. CASE i = id
      BY <1>2, <1>3, <1>4, <1>7, <1>9, <2>1, <3>1
    <3>2. CASE i # id
      BY <1>4, <1>7, <2>1, <3>2 DEF PayoutInv, RequestInv
    <3>3. QED
      BY <3>1, <3>2
  <2>2. \A q \in Requests : Known(q)' => q.memo.seq < next'
    BY <1>1, <1>2, <1>7, <1>9
  <2>3. QED
    BY <1>7, <2>1, <2>2 DEF PayoutInv, RequestInv
<1>12. LegState[next] = "free"
  BY <1>2, LegKinds
<1>13. LegState' = [LegState EXCEPT ![next] = "owed"]
  <2>1. LegState'[next] = "owed"
    <3>1. Owed(id)' /\ rec'[id].seq = next
      BY <1>3, <1>4 DEF Owed
    <3>2. QED
      BY <1>1, <1>2, <3>1 DEF LegState, Owed
  <2>2. ASSUME NEW x \in Seqs, x # next PROVE LegState'[x] = LegState[x]
    <3>1. (\E i \in Ids : Owed(i) /\ rec[i].seq = x)'
             <=> \E i \in Ids : Owed(i) /\ rec[i].seq = x
      BY <1>1, <1>3, <1>4, <2>2 DEF Owed
    <3>2. x >= next' <=> x >= next
      BY <1>1, <1>2, <2>2 DEF Seqs
    <3>3. QED
      BY <3>1, <3>2 DEF LegState, Owed
  <2>3. LegState' = [x \in Seqs |-> LegState'[x]] /\ LegState = [x \in Seqs |-> LegState[x]]
    BY DEF LegState
  <2>4. \A x \in Seqs : LegState'[x] = [LegState EXCEPT ![next] = "owed"][x]
    BY <2>1, <2>2, <2>3
  <2>5. QED
    BY <2>3, <2>4
<1>14. paid[next] = 0 /\ accrued[next] = 0
  BY <1>2, <1>12 DEF PayoutInv, SettledInv
<1>15. LedgerInv'
  <2>1. \A i \in Ids : rec'[i] # None /\ rec'[i].frozen = None => paid[rec'[i].seq] = 0
    <3>1. \A i \in Ids : i # id /\ rec'[i] # None /\ rec'[i].frozen = None
                           => paid[rec'[i].seq] = 0
      BY <1>4 DEF PayoutInv, LedgerInv
    <3>2. QED
      BY <1>3, <1>4, <1>14, <3>1
  <2>2. QED
    BY <1>1, <1>7, <2>1 DEF PayoutInv, LedgerInv, Stale, DedupKey
<1>16. SettledInv'
  <2>1. ASSUME NEW x \in Seqs
        PROVE  /\ paid[x] <= 1
               /\ LegState'[x] = "free" => paid[x] = 0 /\ accrued[x] = 0
               /\ LegState'[x] = "owed" => accrued[x] = 0
               /\ LegState'[x] = "settled" => paid[x] = 1 /\ accrued[x] = 1
    <3>1. LegState = [y \in Seqs |-> LegState[y]]
      BY DEF LegState
    <3>2. CASE x = next
      BY <1>13, <1>14, <3>1, <3>2
    <3>3. CASE x # next
      BY <1>13, <3>1, <3>3 DEF PayoutInv, SettledInv
    <3>4. QED
      BY <3>2, <3>3
  <2>2. QED
    BY <1>1, <2>1 DEF SettledInv
<1>17. Leg!Next
  BY <1>1, <1>2, <1>12, <1>13 DEF Leg!Next, Leg!Owe
<1>18. QED
  BY <1>5, <1>6, <1>10, <1>11, <1>15, <1>16, <1>17 DEF PayoutInv

-----------------------------------------------------------------------------
(* The invariant, and what follows from it.                                *)

LEMMA InvInit == Init => Inv /\ Leg!Init
<1>. SUFFICES ASSUME Init PROVE Inv /\ Leg!Init
  OBVIOUS
<1>. USE DEF Init
<1>1. \A c \in Calls : call[c] = IdleCall /\ ~Executing(c)
  BY DEF Executing, Executors, At, IdleCall
<1>2. TypeOK
  BY <1>1, IdleCallType, PayoutAssumption DEF TypeOK
<1>3. ExecutorInv
  BY <1>1 DEF ExecutorInv, OwnerInv
<1>4. RecordInv /\ RequestInv /\ LedgerInv
  BY DEF RecordInv, RequestInv, LedgerInv, Known, Seqs
<1>5. \A s \in Seqs : LegState[s] = "free"
  BY DEF LegState, Seqs
<1>6. SettledInv
  BY <1>5 DEF SettledInv
<1>7. Leg!Init
  <2>1. LegState = [s \in Seqs |-> "free"]
    BY DEF LegState, Seqs
  <2>2. QED
    BY <2>1 DEF Leg!Init
<1>8. QED
  BY <1>2, <1>3, <1>4, <1>6, <1>7 DEF Inv, PayoutInv

LEMMA InvNext ==
  ASSUME Inv, [Next]_vars
  PROVE  Inv' /\ [Leg!Next]_Leg!vars
<1>1. CASE UNCHANGED vars
  <2>1. UNCHANGED <<boot, next, key, rec, live, call, accrued, now, fee, funds, paid, dedup,
                    orphans, faults>>
    BY <1>1 DEF vars, control, ledger
  <2>2. ExecutorInv' /\ \A c \in Calls : CallOK(c)'
    BY <2>1, SameCalls
  <2>3. TypeOK'
    BY <2>1, <2>2 DEF Inv, TypeOK, CallOK
  <2>4. QED
    BY <2>1, <2>2, <2>3, QuietStep, SameRecords, SameOrphans, Clock DEF Inv
<1>2. ASSUME NEW c \in Calls,
             \/ AskMemoKey(c) \/ CallStep(c)
             \/ MemoKeyFails(c) \/ CallErrors(c) \/ CallbackTraps(c)
      PROVE  Inv' /\ [Leg!Next]_Leg!vars
  BY <1>2, KeySteps, ReplySteps, LedgerTransferStep, BalanceReplyStep, FeeReplyStep,
     TransferReplyStep, CallbackTrapsStep DEF CallStep
<1>3. ASSUME NEW id \in Ids,
             \/ AdmitSpend(id) \/ PromoteSpend(id) \/ Retry(id)
             \/ ReconcileExecuted(id) \/ ReconcileNotExecuted(id)
             \/ PruneTerminalRecord(id)
      PROVE  Inv' /\ [Leg!Next]_Leg!vars
  BY <1>3, AdmitStep, PromoteStep, RetryStep, ReconcileExecutedStep,
     ReconcileNotExecutedStep, PruneStep DEF PromoteSpend, Retry
<1>4. CASE (\E f \in Fees : SetTransferFee(f)) \/ Fund \/ Tick
  BY <1>4, EnvironmentSteps
<1>5. CASE Upgrade
  BY <1>5, UpgradeStep
<1>6. CASE \E o \in orphans : DeliverOrphan(o) \/ RejectOrphan(o)
  BY <1>6, DeliverOrphanStep, EnvironmentSteps
<1>7. QED
  BY <1>1, <1>2, <1>3, <1>4, <1>5, <1>6 DEF Next

(* The inductive invariant: one executor per record, one request per       *)
(* payout, and a ledger that recognises it.                                *)
THEOREM PayoutInvariant == Spec => []Inv
<1>1. Init => Inv
  BY InvInit
<1>2. Inv /\ [Next]_vars => Inv'
  BY InvNext
<1>3. QED
  BY <1>1, <1>2, PTL DEF Spec

(* The types of the payout records, the executors and the ledger.          *)
THEOREM PayoutTypes == Spec => []TypeOK
<1>1. Inv => TypeOK
  BY DEF Inv
<1>2. QED
  BY <1>1, PayoutInvariant, PTL

(* run_payout's owned() never fails: claim, guard and upgrade keep the     *)
(* record for the executor that resumes (payout_retry.rs).                 *)
THEOREM ExecutorsOwn == Spec => []ResumedExecutorIsOwner
<1>1. Inv => ResumedExecutorIsOwner
  BY DEF Inv, PayoutInv, ExecutorInv, OwnerInv, ResumedExecutorIsOwner
<1>2. QED
  BY <1>1, PayoutInvariant, PTL

(* The ledger moves the tokens of a payout at most once, for any number of *)
(* retries, lost replies, traps, upgrades and wrong operator answers.      *)
THEOREM PaidAtMostOnceAlways == Spec => []PaidAtMostOnce
<1>1. Inv => PaidAtMostOnce
  BY DEF Inv, PayoutInv, SettledInv, PaidAtMostOnce
<1>2. QED
  BY <1>1, PayoutInvariant, PTL

(* Executors, frozen requests and the ledger's deduplication implement the *)
(* payout: paid at most once, settled after it was paid, accrued with it.  *)
THEOREM PayoutImplementsLeg == Spec => ImplementsPayoutLeg
<1>1. Init => Leg!Init
  BY InvInit
<1>2. Inv /\ [Next]_vars => [Leg!Next]_Leg!vars
  BY InvNext
<1>3. QED
  BY <1>1, <1>2, PayoutInvariant, PTL DEF Spec, ImplementsPayoutLeg, Leg!Spec
-----------------------------------------------------------------------------
(* Ambiguity and identity.  A payout that is not called ambiguous and has  *)
(* no transfer under way was never paid, and no dropped request of it is   *)
(* left; the executor in the transfer knows more than its record says.     *)

Clean(s) == paid[s] = 0 /\ \A o \in orphans : o.req.memo.seq # s

ExecSent(c) ==
    Executing(c) =>
        LET r == rec[call[c].id] IN
        /\ r.phase = IF At(c, "transfer") THEN "MayHaveDispatched" ELSE "PreDispatch"
        /\ At(c, "transfer") /\ ~r.ambiguous =>
              /\ \A o \in orphans : o.req.memo.seq # r.seq
              /\ call[c].reply \notin {"Ok", "Duplicate", "error"} => paid[r.seq] = 0

SentInv == UnambiguousIsUnpaid /\ \A c \in Calls : ExecSent(c)

(* The body of IdentityIsFinal, and its part about one record. *)
FrozenKept(id) ==
    rec[id] # None =>
        /\ rec[id].frozen # None /\ rec'[id] # None => rec'[id].frozen = rec[id].frozen
        /\ rec'[id] = None => rec[id].status = "Finalized"

IdentityKept ==
    /\ key # None => key' = key
    /\ \A id \in Ids : rec[id] # None =>
         /\ rec[id].frozen # None /\ rec'[id] # None => rec'[id].frozen = rec[id].frozen
         /\ rec'[id] = None => rec[id].status = "Finalized"

LEMMA OwedIsClean ==
  ASSUME SentInv, NEW id \in Ids, Owed(id), ~MaybeSent(rec[id])
  PROVE  Clean(rec[id].seq)
BY DEF SentInv, UnambiguousIsUnpaid, Owed, Clean

(* Calls end, or get an answer that promises nothing. *)
LEMMA SentQuiet ==
  ASSUME SentInv, rec' = rec, paid' = paid, orphans' \subseteq orphans,
         \A c \in Calls : Executing(c)' =>
            /\ Executing(c) /\ call'[c].pc = call[c].pc /\ call'[c].id = call[c].id
            /\ call'[c].reply # call[c].reply =>
                  call[c].pc # "transfer" \/ call'[c].reply = "error"
  PROVE  SentInv'
<1>1. UnambiguousIsUnpaid'
  BY DEF SentInv, UnambiguousIsUnpaid, MaybeSent
<1>2. ASSUME NEW c \in Calls PROVE ExecSent(c)'
  BY DEF SentInv, ExecSent, At
<1>3. QED
  BY <1>1, <1>2 DEF SentInv

(* One record is written, at most one call is at another await for it. *)
LEMMA SentWrite ==
  ASSUME SentInv, NEW id \in Ids, paid' = paid, orphans' = orphans,
         \A i \in Ids : i # id => rec'[i] = rec[i],
         Owed(id)' /\ ~MaybeSent(rec'[id]) => Clean(rec'[id].seq),
         \A d \in Calls : Executing(d)' =>
            \/ ExecSent(d)'
            \/ call'[d] = call[d] /\ call[d].id \in Ids \ {id}
  PROVE  SentInv'
<1>1. UnambiguousIsUnpaid'
  <2>1. ASSUME NEW i \in Ids, Owed(i)', ~MaybeSent(rec'[i])
        PROVE  Clean(rec'[i].seq)
    <3>1. CASE i = id
      BY <2>1, <3>1
    <3>2. CASE i # id
      BY <2>1, <3>2, OwedIsClean DEF Owed
    <3>3. QED
      BY <3>1, <3>2
  <2>2. QED
    BY <2>1 DEF UnambiguousIsUnpaid, Owed, Clean, MaybeSent
<1>2. ASSUME NEW d \in Calls PROVE ExecSent(d)'
  <2>1. CASE call'[d] = call[d] /\ call[d].id \in Ids \ {id}
    BY <2>1 DEF SentInv, ExecSent, Executing, At
  <2>2. QED
    BY <2>1 DEF ExecSent
<1>3. QED
  BY <1>1, <1>2 DEF SentInv

(* The ledger pays a request only of a payout that may have been sent. *)
LEMMA PaidElsewhere ==
  ASSUME Inv, NEW q \in Requests, LedgerExecutes(q), NEW s \in Seqs, s # q.memo.seq
  PROVE  paid'[s] = paid[s]
<1>1. q.memo.seq \in Seqs
  BY RequestFields
<1>2. QED
  BY <1>1 DEF LedgerExecutes, ledger, Inv, TypeOK

LEMMA IdentityQuiet ==
  ASSUME rec' = rec, key' = key
  PROVE  IdentityKept
BY DEF IdentityKept

LEMMA IdentityWrite ==
  ASSUME key' = key, NEW id \in Ids, FrozenKept(id),
         \A i \in Ids : i # id => rec'[i] = rec[i]
  PROVE  IdentityKept
BY DEF IdentityKept, FrozenKept

-----------------------------------------------------------------------------
LEMMA SentKeySteps ==
  ASSUME Inv, SentInv, NEW c \in Calls, AskMemoKey(c) \/ StoreMemoKey(c) \/ MemoKeyFails(c)
  PROVE  SentInv' /\ IdentityKept
<1>1. /\ rec' = rec /\ paid' = paid /\ orphans' = orphans
      /\ key # None => key' = key
  BY DEF AskMemoKey, StoreMemoKey, MemoKeyFails, control, ledger
<1>2. PICK k \in {IdleCall, Await("rand", None, None, None)} :
         call' = [call EXCEPT ![c] = k]
  BY DEF AskMemoKey, StoreMemoKey, MemoKeyFails, Finish
<1>3. call'[c] = k /\ \A d \in Calls : d # c => call'[d] = call[d]
  BY <1>2 DEF Inv, TypeOK
<1>4. ~Executing(c)'
  BY <1>3 DEF Executing, Executors, IdleCall, Await
<1>5. SentInv'
  BY <1>1, <1>3, <1>4, SentQuiet DEF Executing
<1>6. QED
  BY <1>1, <1>5 DEF IdentityKept

LEMMA SentReplySteps ==
  ASSUME Inv, SentInv, NEW c \in Calls, LedgerBalance(c) \/ LedgerFee(c) \/ CallErrors(c)
  PROVE  SentInv' /\ IdentityKept
<1>1. rec' = rec /\ paid' = paid /\ orphans' = orphans /\ key' = key
  BY DEF LedgerBalance, LedgerFee, CallErrors, control, ledger
<1>2. /\ call'[c].pc = call[c].pc /\ call'[c].id = call[c].id
      /\ call[c].pc # "transfer" \/ call'[c].reply = "error"
      /\ \A d \in Calls : d # c => call'[d] = call[d]
  <2>1. call[c] \in CallType
    BY DEF Inv, TypeOK
  <2>2. CASE LedgerBalance(c)
    BY <2>1, <2>2 DEF LedgerBalance, Waiting, At, Reply, Inv, TypeOK, CallType
  <2>3. CASE LedgerFee(c)
    BY <2>1, <2>3 DEF LedgerFee, Waiting, At, Inv, TypeOK, CallType
  <2>4. CASE CallErrors(c)
    BY <2>1, <2>4 DEF CallErrors, Reply, Inv, TypeOK, CallType
  <2>5. QED
    BY <2>2, <2>3, <2>4
<1>3. SentInv'
  BY <1>1, <1>2, SentQuiet DEF Executing
<1>4. QED
  BY <1>1, <1>3, IdentityQuiet

LEMMA SentTraps ==
  ASSUME Inv, SentInv, NEW c \in Calls, CallbackTraps(c)
  PROVE  SentInv' /\ IdentityKept
<1>1. rec' = rec /\ paid' = paid /\ orphans' = orphans /\ key' = key /\ Finish(c)
  BY DEF CallbackTraps, control, ledger
<1>2. SentInv'
  BY <1>1, CallEnds, SentQuiet DEF Executing
<1>3. QED
  BY <1>1, <1>2, IdentityQuiet

LEMMA SentEnvironment ==
  ASSUME Inv, SentInv,
         \/ \E f \in Fees : SetTransferFee(f)
         \/ Fund \/ Tick
         \/ \E o \in orphans : RejectOrphan(o)
  PROVE  SentInv' /\ IdentityKept
<1>1. /\ UNCHANGED <<key, rec, call, paid>> /\ orphans' \subseteq orphans
  BY DEF SetTransferFee, Fund, Tick, RejectOrphan, control, ledger
<1>2. SentInv'
  BY <1>1, SentQuiet DEF Executing
<1>3. QED
  BY <1>1, <1>2, IdentityQuiet

(* An upgrade leaves a dispatched record as it is, which says that its     *)
(* request may have been sent.                                             *)
LEMMA SentUpgrade ==
  ASSUME Inv, SentInv, Upgrade
  PROVE  SentInv' /\ IdentityKept
<1>1. rec' = rec /\ key' = key /\ paid' = paid /\ call' = [c \in Calls |-> IdleCall]
  BY DEF Upgrade, ledger
<1>2. \A c \in Calls : ~Executing(c)'
  BY <1>1 DEF Executing, Executors, IdleCall
<1>3. ASSUME NEW id \in Ids, Owed(id), ~MaybeSent(rec[id]), NEW o \in orphans'
      PROVE  o.req.memo.seq # rec[id].seq
  <2>1. CASE o \in orphans
    BY <1>3, <2>1, OwedIsClean DEF Clean
  <2>2. CASE o \notin orphans
    <3>1. PICK c \in Calls : Waiting(c, "transfer") /\ o.req = call[c].req
      BY <2>2 DEF Upgrade
    <3>2. At(c, "transfer") /\ Executing(c)
      BY <3>1 DEF Waiting, Executing, Executors, At
    <3>3. /\ call[c].id \in Ids /\ rec[call[c].id] # None
          /\ rec[call[c].id].status = "PayoutSubmitting"
      BY <3>2, OwnerResumes
    <3>4. MaybeSent(rec[call[c].id])
      BY <3>2, <3>3 DEF SentInv, ExecSent, MaybeSent
    <3>5. rec[call[c].id].seq # rec[id].seq
      BY <1>3, <3>3, <3>4 DEF Owed, Inv, PayoutInv, RecordInv
    <3>6. o.req = rec[call[c].id].frozen /\ o.req # None
      BY <3>1, <3>2, CallFields, RequestFields DEF Inv, PayoutInv, ExecutorInv, OwnerInv
    <3>7. QED
      BY <3>3, <3>5, <3>6 DEF Inv, PayoutInv, RecordInv
  <2>3. QED
    BY <2>1, <2>2
<1>4. UnambiguousIsUnpaid'
  <2>1. \A id \in Ids : Owed(id) /\ ~MaybeSent(rec[id]) => paid[rec[id].seq] = 0
    BY OwedIsClean DEF Clean
  <2>2. QED
    BY <1>1, <1>3, <2>1 DEF UnambiguousIsUnpaid, Owed, MaybeSent
<1>5. QED
  BY <1>1, <1>2, <1>4, IdentityQuiet DEF SentInv, ExecSent

LEMMA SentDeliver ==
  ASSUME Inv, SentInv, NEW o \in orphans, DeliverOrphan(o)
  PROVE  SentInv' /\ IdentityKept
<1>1. /\ LedgerExecutes(o.req) /\ orphans' \subseteq orphans
      /\ rec' = rec /\ key' = key /\ call' = call /\ o.req \in Requests
  BY DEF DeliverOrphan, control, Inv, TypeOK
<1>2. UnambiguousIsUnpaid'
  <2>1. ASSUME NEW id \in Ids, Owed(id), ~MaybeSent(rec[id])
        PROVE  /\ paid'[rec[id].seq] = 0
               /\ \A x \in orphans' : x.req.memo.seq # rec[id].seq
    <3>1. Clean(rec[id].seq)
      BY <2>1, OwedIsClean
    <3>2. rec[id].seq \in Seqs
      BY <2>1, RecordFields DEF Inv, Owed
    <3>3. QED
      BY <1>1, <3>1, <3>2, PaidElsewhere DEF Clean
  <2>2. QED
    BY <1>1, <2>1 DEF UnambiguousIsUnpaid, Owed, MaybeSent
<1>3. ASSUME NEW c \in Calls, Executing(c) PROVE ExecSent(c)'
  <2>1. rec[call[c].id].seq \in Seqs
    BY <1>3, OwnerResumes
  <2>2. ExecSent(c)
    BY DEF SentInv
  <2>3. At(c, "transfer") /\ ~rec[call[c].id].ambiguous =>
           paid'[rec[call[c].id].seq] = paid[rec[call[c].id].seq]
    BY <1>1, <1>3, <2>1, <2>2, PaidElsewhere DEF ExecSent
  <2>4. QED
    BY <1>1, <1>3, <2>2, <2>3 DEF ExecSent, At
<1>4. QED
  BY <1>1, <1>2, <1>3, IdentityQuiet DEF SentInv, ExecSent, Executing

LEMMA SentTransfer ==
  ASSUME Inv, SentInv, NEW c \in Calls, LedgerTransfer(c)
  PROVE  SentInv' /\ IdentityKept
<1>. DEFINE q == call[c].req
            id == call[c].id
<1>1. /\ Executing(c) /\ At(c, "transfer") /\ call[c].reply = "none" /\ LedgerExecutes(q)
      /\ call' = [call EXCEPT ![c].reply = TransferOutcome(q)]
      /\ rec' = rec /\ key' = key /\ orphans' = orphans
  BY DEF LedgerTransfer, Waiting, Executing, Executors, At, Reply, control
<1>2. /\ id \in Ids /\ rec[id] # None /\ rec[id].status = "PayoutSubmitting"
      /\ rec[id].seq \in Seqs
      /\ \A d \in Calls : d # c /\ Executing(d) => call[d].id # id /\ call[d].id \in Ids
  BY <1>1, OwnerResumes
<1>3. q \in Requests /\ q.memo.seq = rec[id].seq
  BY <1>1, <1>2, CallFields, RequestFields
  DEF Inv, PayoutInv, ExecutorInv, OwnerInv, RecordInv
<1>4. /\ call'[c].pc = call[c].pc /\ call'[c].id = id /\ call'[c].reply = TransferOutcome(q)
      /\ \A d \in Calls : d # c => call'[d] = call[d]
  <2>1. call[c] \in CallType
    BY DEF Inv, TypeOK
  <2>2. QED
    BY <1>1, <2>1 DEF Inv, TypeOK, CallType
<1>5. ASSUME NEW i \in Ids, i # id, rec[i] # None
      PROVE  paid'[rec[i].seq] = paid[rec[i].seq]
  <2>1. rec[i].seq \in Seqs /\ rec[i].seq # rec[id].seq
    BY <1>2, <1>5, RecordFields DEF Inv, PayoutInv, RecordInv
  <2>2. QED
    BY <1>1, <1>3, <2>1, PaidElsewhere
<1>6. UnambiguousIsUnpaid'
  <2>1. MaybeSent(rec[id])
    BY <1>1, <1>2 DEF SentInv, ExecSent, MaybeSent
  <2>2. ASSUME NEW i \in Ids, Owed(i), ~MaybeSent(rec[i])
        PROVE  /\ paid'[rec[i].seq] = 0
               /\ \A o \in orphans : o.req.memo.seq # rec[i].seq
    <3>1. Clean(rec[i].seq) /\ i # id
      BY <2>1, <2>2, OwedIsClean
    <3>2. QED
      BY <1>5, <2>2, <3>1 DEF Clean, Owed
  <2>3. QED
    BY <1>1, <2>2 DEF UnambiguousIsUnpaid, Owed, MaybeSent
<1>7. ExecSent(c)'
  <2>1. ExecSent(c)
    BY DEF SentInv
  <2>2. TransferOutcome(q) \notin {"Ok", "Duplicate", "error"} => paid' = paid
    BY <1>1 DEF LedgerExecutes, ledger
  <2>3. QED
    BY <1>1, <1>2, <1>4, <2>1, <2>2 DEF ExecSent, Executing, At
<1>8. ASSUME NEW d \in Calls, d # c, Executing(d) PROVE ExecSent(d)'
  <2>1. ExecSent(d) /\ call'[d] = call[d] /\ call[d].id \in Ids /\ call[d].id # id
    BY <1>2, <1>4, <1>8 DEF SentInv
  <2>2. rec[call[d].id] # None
    BY <1>8, OwnerResumes
  <2>3. paid'[rec[call[d].id].seq] = paid[rec[call[d].id].seq]
    BY <1>5, <2>1, <2>2
  <2>4. QED
    BY <1>1, <2>1, <2>3 DEF ExecSent, Executing, At
<1>9. \A d \in Calls : ExecSent(d)'
  <2>1. \A d \in Calls : d # c => (Executing(d)' <=> Executing(d))
    BY <1>4 DEF Executing
  <2>2. QED
    BY <1>7, <1>8, <2>1 DEF ExecSent
<1>10. QED
  BY <1>1, <1>6, <1>9, IdentityQuiet DEF SentInv
-----------------------------------------------------------------------------
(* Steps that write a record nobody executes.                              *)

(* What normalize_payout and a change of an unclaimed status keep. *)
LEMMA NormalizedClean ==
  ASSUME Inv, SentInv, NEW id \in Ids, rec[id] # None, rec[id].status # "Finalized"
  PROVE  LET r == Normalized(id) IN
         /\ r.status # "PayoutSubmitting" /\ ~r.ambiguous => Clean(r.seq)
         /\ ~MaybeSent(r) => Clean(r.seq)
<1>. DEFINE r == Normalized(id)
            sent == rec[id].phase = "MayHaveDispatched" \/ rec[id].ambiguous
<1>1. rec[id] \in Records /\ sent \in BOOLEAN
  BY RecordFields DEF Inv, Records
<1>2. r.seq = rec[id].seq
  BY <1>1 DEF Normalized, Records
<1>3. CASE r = rec[id]
  BY <1>2, <1>3, OwedIsClean DEF Owed, MaybeSent
<1>4. CASE r # rec[id]
  <2>1. r.ambiguous = sent
    BY <1>1, <1>4 DEF Normalized, Records
  <2>2. ~r.ambiguous => ~MaybeSent(rec[id])
    BY <2>1 DEF MaybeSent
  <2>3. ~r.ambiguous => Clean(r.seq)
    BY <1>2, <2>2, OwedIsClean DEF Owed
  <2>4. QED
    BY <2>3 DEF MaybeSent
<1>5. QED
  BY <1>3, <1>4

LEMMA SentIdleWrite ==
  ASSUME Inv, SentInv, NEW id \in Ids, NEW r, Write(id, r), r # rec[id] =>
            live[id] = None \/ rec[id] = None \/ rec[id].status # "PayoutSubmitting",
         r # None /\ r.status # "Finalized" /\ ~MaybeSent(r) => Clean(r.seq),
         call' = call, paid' = paid, orphans' = orphans
  PROVE  SentInv'
<1>1. rec'[id] = r /\ \A i \in Ids : i # id => rec'[i] = rec[i]
  BY DEF Write, Inv, TypeOK
<1>2. ASSUME NEW d \in Calls, Executing(d)
      PROVE  ExecSent(d)' \/ call[d].id \in Ids \ {id}
  <2>1. call[d].id \in Ids
    BY <1>2, CallFields DEF Inv
  <2>2. CASE call[d].id = id
    <3>1. rec'[id] = rec[id]
      BY <1>1, <1>2, <2>2, NoExecutor
    <3>2. QED
      BY <2>2, <3>1 DEF SentInv, ExecSent, At, Executing
  <2>3. QED
    BY <2>1, <2>2
<1>3. QED
  BY <1>1, <1>2, SentWrite DEF Owed, Executing

LEMMA SentAdmit ==
  ASSUME Inv, SentInv, NEW id \in Ids, AdmitSpend(id)
  PROVE  SentInv' /\ IdentityKept
<1>. DEFINE w == [status |-> "Promoting", seq |-> next, gen |-> 0, boot |-> boot,
                  phase |-> "PreDispatch", ambiguous |-> FALSE, dispatched |-> FALSE,
                  frozen |-> None]
<1>1. /\ rec[id] = None /\ Write(id, w) /\ next < MaxSeq
      /\ UNCHANGED <<key, call, paid, orphans>>
  BY DEF AdmitSpend, ReservePayoutSequence, ledger
<1>2. Clean(next)
  <2>1. next \in Seqs /\ next \in Nat
    BY <1>1, PayoutAssumption DEF Inv, TypeOK, Seqs
  <2>2. paid[next] = 0
    BY <2>1, LegKinds DEF Inv, PayoutInv, SettledInv
  <2>3. ASSUME NEW o \in orphans PROVE o.req.memo.seq # next
    <3>1. o.req \in Requests /\ Known(o.req)
      BY DEF Inv, TypeOK, Known
    <3>2. QED
      BY <2>1, <3>1, RequestFields DEF Inv, PayoutInv, RequestInv, Seqs
  <2>4. QED
    BY <2>2, <2>3 DEF Clean
<1>3. SentInv'
  BY <1>1, <1>2, SentIdleWrite
<1>4. \A i \in Ids : i # id => rec'[i] = rec[i]
  BY <1>1 DEF Write, Inv, TypeOK
<1>5. QED
  BY <1>1, <1>3, <1>4, IdentityWrite DEF FrozenKept

LEMMA SentPrune ==
  ASSUME Inv, SentInv, NEW id \in Ids, PruneTerminalRecord(id)
  PROVE  SentInv' /\ IdentityKept
<1>1. /\ rec[id] # None /\ rec[id].status = "Finalized" /\ Write(id, None)
      /\ UNCHANGED <<key, call, paid, orphans>>
  BY DEF PruneTerminalRecord, control, ledger
<1>2. SentInv'
  BY <1>1, SentIdleWrite
<1>3. rec'[id] = None /\ \A i \in Ids : i # id => rec'[i] = rec[i]
  BY <1>1 DEF Write, Inv, TypeOK
<1>4. QED
  BY <1>1, <1>2, <1>3, IdentityWrite DEF FrozenKept

LEMMA SentNotExecuted ==
  ASSUME Inv, SentInv, NEW id \in Ids, ReconcileNotExecuted(id)
  PROVE  SentInv' /\ IdentityKept
<1>. DEFINE r == Normalized(id)
            q == IF r.status = "PayoutUnknown" /\ r.frozen # None
                 THEN [r EXCEPT !.status = "PayoutPending"] ELSE r
<1>1. /\ rec[id] # None /\ Write(id, q)
      /\ UNCHANGED <<key, call, paid, orphans>>
  BY DEF ReconcileNotExecuted, control, ledger
<1>2. /\ r \in Records /\ r.seq = rec[id].seq /\ r.frozen = rec[id].frozen
      /\ r.status = "Finalized" <=> rec[id].status = "Finalized"
      /\ r # rec[id] => live[id] = None
      /\ r.status # "PayoutSubmitting" =>
            rec[id].status # "PayoutSubmitting" \/ live[id] = None
  BY <1>1, NormalizedFields DEF Inv
<1>3. /\ q # None /\ q.seq = r.seq /\ q.frozen = rec[id].frozen
      /\ q # rec[id] => live[id] = None \/ rec[id].status # "PayoutSubmitting"
  <2>1. q \in Records
    BY <1>2 DEF Records, Statuses
  <2>2. QED
    BY <1>2, <2>1, PayoutAssumption DEF Records
<1>4. q.status # "Finalized" /\ ~MaybeSent(q) => Clean(q.seq)
  <2>1. CASE q = r
    BY <1>1, <1>2, <2>1, NormalizedClean
  <2>2. CASE q # r
    <3>1. r.status = "PayoutUnknown" /\ q.ambiguous = r.ambiguous
      BY <1>2, <2>2 DEF Records
    <3>2. ~q.ambiguous => Clean(r.seq)
      BY <1>1, <1>2, <3>1, NormalizedClean
    <3>3. QED
      BY <1>3, <3>2 DEF MaybeSent
  <2>3. QED
    BY <2>1, <2>2
<1>. HIDE DEF q
<1>5. SentInv'
  BY <1>1, <1>3, <1>4, SentIdleWrite
<1>6. rec'[id] = q /\ \A i \in Ids : i # id => rec'[i] = rec[i]
  BY <1>1 DEF Write, Inv, TypeOK
<1>7. QED
  BY <1>1, <1>3, <1>5, <1>6, IdentityWrite DEF FrozenKept

LEMMA SentExecuted ==
  ASSUME Inv, SentInv, NEW id \in Ids, ReconcileExecuted(id)
  PROVE  SentInv' /\ IdentityKept
<1>. DEFINE r == Normalized(id)
            q == IF r.status = "PayoutUnknown" THEN [r EXCEPT !.status = "Finalized"] ELSE r
<1>1. /\ rec[id] # None /\ Write(id, q)
      /\ UNCHANGED <<key, call, paid, orphans>>
  BY DEF ReconcileExecuted, Terminal, control, ledger
<1>2. /\ r \in Records /\ r.frozen = rec[id].frozen
      /\ r.status = "Finalized" <=> rec[id].status = "Finalized"
      /\ r # rec[id] => live[id] = None
      /\ r.status # "PayoutSubmitting" =>
            rec[id].status # "PayoutSubmitting" \/ live[id] = None
  BY <1>1, NormalizedFields DEF Inv
<1>3. /\ q # None /\ q.frozen = rec[id].frozen
      /\ q # rec[id] => live[id] = None \/ rec[id].status # "PayoutSubmitting"
      /\ q = r \/ q.status = "Finalized"
  <2>1. q \in Records
    BY <1>2 DEF Records, Statuses
  <2>2. QED
    BY <1>2, <2>1, PayoutAssumption DEF Records
<1>4. q.status # "Finalized" /\ ~MaybeSent(q) => Clean(q.seq)
  <2>1. CASE q = r
    BY <1>1, <1>2, <2>1, NormalizedClean
  <2>2. QED
    BY <1>3, <2>1
<1>. HIDE DEF q
<1>5. SentInv'
  BY <1>1, <1>3, <1>4, SentIdleWrite
<1>6. rec'[id] = q /\ \A i \in Ids : i # id => rec'[i] = rec[i]
  BY <1>1 DEF Write, Inv, TypeOK
<1>7. QED
  BY <1>1, <1>3, <1>5, <1>6, IdentityWrite DEF FrozenKept
-----------------------------------------------------------------------------
(* Steps that start an executor, take it on or end it.                     *)

(* Executor c goes to await pc with record w; the others stay. *)
LEMMA SentAwait ==
  ASSUME Inv, SentInv, NEW c \in Calls, NEW id \in Ids, NEW w \in Records,
         NEW pc \in Executors, NEW a, NEW q,
         \A d \in Calls : d # c /\ Executing(d) => call[d].id # id,
         call'[c] = Await(pc, id, a, q), \A d \in Calls : d # c => call'[d] = call[d],
         rec'[id] = w, \A i \in Ids : i # id => rec'[i] = rec[i],
         w.status # "Finalized",
         w.phase = IF pc = "transfer" THEN "MayHaveDispatched" ELSE "PreDispatch",
         ~w.ambiguous => Clean(w.seq),
         paid' = paid, orphans' = orphans
  PROVE  SentInv'
<1>2. call'[c].pc = pc /\ call'[c].id = id /\ call'[c].reply = "none"
  BY DEF Await
<1>3. ExecSent(c)'
  BY <1>2 DEF ExecSent, At, Clean
<1>4. \A d \in Calls : d # c /\ Executing(d)' =>
         call'[d] = call[d] /\ call[d].id \in Ids \ {id}
  BY CallFields DEF Inv, Executing
<1>5. Owed(id)' /\ ~MaybeSent(rec'[id]) => Clean(rec'[id].seq)
  BY DEF MaybeSent
<1>6. QED
  BY <1>3, <1>4, <1>5, SentWrite

(* Executor c ends with record w. *)
LEMMA SentEnds ==
  ASSUME Inv, SentInv, NEW c \in Calls, Executing(c), NEW w, Finish(c), Write(call[c].id, w),
         w.status = "Finalized" \/ (~MaybeSent(w) => Clean(w.seq)),
         paid' = paid, orphans' = orphans
  PROVE  SentInv'
<1>. DEFINE id == call[c].id
<1>1. /\ id \in Ids
      /\ \A d \in Calls : d # c /\ Executing(d) => call[d].id # id /\ call[d].id \in Ids
  BY OwnerResumes
<1>2. rec'[id] = w /\ \A i \in Ids : i # id => rec'[i] = rec[i]
  BY <1>1 DEF Write, Inv, TypeOK
<1>3. ~Executing(c)' /\ \A d \in Calls : d # c => call'[d] = call[d]
  BY CallEnds
<1>4. \A d \in Calls : Executing(d)' => call'[d] = call[d] /\ call[d].id \in Ids \ {id}
  BY <1>1, <1>3 DEF Executing
<1>5. QED
  BY <1>1, <1>2, <1>4, SentWrite DEF Owed

LEMMA SentClaim ==
  ASSUME Inv, SentInv, NEW c \in Calls, NEW id \in Ids, rec[id] # None, NEW r \in Records,
         r.seq = rec[id].seq, r.frozen = rec[id].frozen, ~r.ambiguous => Clean(r.seq),
         Claimable(id), ClaimAndRun(c, id, r), key' = key, paid' = paid, orphans' = orphans
  PROVE  SentInv' /\ IdentityKept
<1>. DEFINE q == Claimed(r)
            p == [q EXCEPT !.phase = "MayHaveDispatched", !.dispatched = TRUE]
            a == AttemptOf(q)
<1>1. /\ q \in Records /\ q.status = "PayoutSubmitting" /\ q.phase = "PreDispatch"
      /\ q.seq = r.seq /\ q.frozen = r.frozen /\ q.ambiguous = r.ambiguous
  <2>1. boot \in 1..(MaxFaults + 1)
    BY PayoutAssumption DEF Inv, TypeOK
  <2>2. r.gen + 1 \in 0..MaxGen
    BY PayoutAssumption DEF ClaimAndRun, Records
  <2>3. QED
    BY <2>1, <2>2 DEF Claimed, Records, Statuses
<1>2. /\ p \in Records /\ p.status = "PayoutSubmitting" /\ p.phase = "MayHaveDispatched"
      /\ p.seq = r.seq /\ p.frozen = r.frozen /\ p.ambiguous = r.ambiguous
  BY <1>1 DEF Records
<1>3. \A d \in Calls : Executing(d) => call[d].id # id
  BY NoExecutor DEF Claimable
<1>4. PICK w \in Records :
         /\ Write(id, w)
         /\ w.status # "Finalized" /\ w.seq = r.seq /\ w.frozen = r.frozen
         /\ w.ambiguous = r.ambiguous
         /\ \E pc \in {"balance", "transfer"} : \E x :
               /\ call' = [call EXCEPT ![c] = Await(pc, id, a, x)]
               /\ w.phase = IF pc = "transfer" THEN "MayHaveDispatched" ELSE "PreDispatch"
  <2>1. CASE q.dispatched
    <3>1. Write(id, p) /\ call' = [call EXCEPT ![c] = Await("transfer", id, a, q.frozen)]
      BY <2>1 DEF ClaimAndRun, Dispatch
    <3>2. QED
      BY <1>2, <3>1
  <2>2. CASE ~q.dispatched
    <3>1. Write(id, q) /\ call' = [call EXCEPT ![c] = Await("balance", id, a, None)]
      BY <2>2 DEF ClaimAndRun
    <3>2. QED
      BY <1>1, <3>1
  <2>3. QED
    BY <2>1, <2>2
<1>5. rec'[id] = w /\ \A i \in Ids : i # id => rec'[i] = rec[i]
  BY <1>4 DEF Write, Inv, TypeOK
<1>6. SentInv'
  <2>. HIDE DEF a
  <2>1. PICK pc \in {"balance", "transfer"} : \E x :
           /\ call' = [call EXCEPT ![c] = Await(pc, id, a, x)]
           /\ w.phase = IF pc = "transfer" THEN "MayHaveDispatched" ELSE "PreDispatch"
    BY <1>4
  <2>2. PICK x : call' = [call EXCEPT ![c] = Await(pc, id, a, x)]
    BY <2>1
  <2>3. call'[c] = Await(pc, id, a, x) /\ \A d \in Calls : d # c => call'[d] = call[d]
    BY <2>2 DEF Inv, TypeOK
  <2>4. pc \in Executors
    BY DEF Executors
  <2>5. QED
    BY <1>3, <1>4, <1>5, <2>1, <2>3, <2>4, SentAwait
<1>7. w # None
  BY PayoutAssumption
<1>8. QED
  BY <1>4, <1>5, <1>6, <1>7, IdentityWrite DEF FrozenKept

LEMMA SentPromote ==
  ASSUME Inv, SentInv, NEW c \in Calls, NEW id \in Ids, Promote(c, id)
  PROVE  SentInv' /\ IdentityKept
<1>. DEFINE r == [rec[id] EXCEPT !.status = "PayoutPending"]
<1>1. /\ rec[id] # None /\ rec[id].status = "Promoting"
      /\ UNCHANGED <<key, paid, orphans>>
  BY DEF Promote, control, ledger
<1>2. /\ r \in Records /\ r.seq = rec[id].seq /\ r.frozen = rec[id].frozen
      /\ r.status = "PayoutPending" /\ r.ambiguous = rec[id].ambiguous
  BY <1>1, RecordFields DEF Inv, Records, Statuses
<1>3. ~r.ambiguous => Clean(r.seq)
  BY <1>1, <1>2, OwedIsClean DEF Owed, MaybeSent
<1>. HIDE DEF r
<1>4. CASE Write(id, r) /\ UNCHANGED <<live, call>>
  <2>1. SentInv'
    BY <1>1, <1>3, <1>4, SentIdleWrite DEF MaybeSent
  <2>2. rec'[id] = r /\ \A i \in Ids : i # id => rec'[i] = rec[i]
    BY <1>4 DEF Write, Inv, TypeOK
  <2>3. r # None
    BY <1>2, PayoutAssumption
  <2>4. QED
    BY <1>1, <1>2, <2>1, <2>2, <2>3, IdentityWrite DEF FrozenKept
<1>5. CASE Claimable(id) /\ ClaimAndRun(c, id, r)
  BY <1>1, <1>2, <1>3, <1>5, SentClaim
<1>6. QED
  BY <1>4, <1>5 DEF Promote, r

LEMMA SentRetry ==
  ASSUME Inv, SentInv, NEW c \in Calls, NEW id \in Ids, RetryPrivateSpendPayout(c, id)
  PROVE  SentInv' /\ IdentityKept
<1>. DEFINE r == Normalized(id)
<1>1. rec[id] # None /\ UNCHANGED <<key, paid, orphans>>
  BY DEF RetryPrivateSpendPayout, control, ledger
<1>2. /\ r \in Records /\ r.seq = rec[id].seq /\ r.frozen = rec[id].frozen
      /\ r.status = "Finalized" <=> rec[id].status = "Finalized"
      /\ r # rec[id] => live[id] = None
  BY <1>1, NormalizedFields DEF Inv
<1>3. rec[id].status # "Finalized" =>
         /\ r.status # "PayoutSubmitting" /\ ~r.ambiguous => Clean(r.seq)
         /\ ~MaybeSent(r) => Clean(r.seq)
  BY <1>1, NormalizedClean
<1>4. CASE r.status = "PayoutPending" /\ Claimable(id)
  <2>1. ClaimAndRun(c, id, r) /\ (~r.ambiguous => Clean(r.seq))
    BY <1>2, <1>3, <1>4 DEF RetryPrivateSpendPayout
  <2>. HIDE DEF r
  <2>2. QED
    BY <1>1, <1>2, <1>4, <2>1, SentClaim
<1>5. CASE ~(r.status = "PayoutPending" /\ Claimable(id))
  <2>1. Write(id, r) /\ UNCHANGED <<live, call>>
    BY <1>5 DEF RetryPrivateSpendPayout
  <2>. HIDE DEF r
  <2>2. SentInv'
    BY <1>1, <1>2, <1>3, <2>1, SentIdleWrite
  <2>3. rec'[id] = r /\ \A i \in Ids : i # id => rec'[i] = rec[i]
    BY <2>1 DEF Write, Inv, TypeOK
  <2>4. r # None
    BY <1>2, PayoutAssumption
  <2>5. QED
    BY <1>1, <1>2, <2>2, <2>3, <2>4, IdentityWrite DEF FrozenKept
<1>6. QED
  BY <1>4, <1>5

(* finish_error: the record is called unambiguous only if it was so before *)
(* and this answer rules the transfer out. *)
LEMMA SentFinishError ==
  ASSUME Inv, SentInv, NEW c \in Calls, Executing(c), NEW ambiguous \in BOOLEAN,
         FinishError(c, ambiguous),
         At(c, "transfer") /\ ~ambiguous =>
            call[c].reply \notin {"Ok", "Duplicate", "error"},
         key' = key, paid' = paid, orphans' = orphans
  PROVE  SentInv' /\ IdentityKept
<1>. DEFINE id == call[c].id
            r == rec[id]
            unclear == r.ambiguous \/ ambiguous
            w == [r EXCEPT !.ambiguous = unclear,
                           !.status = IF unclear THEN "PayoutUnknown" ELSE "PayoutPending"]
<1>1. Write(id, w) /\ Finish(c)
  BY DEF FinishError
<1>2. /\ id \in Ids /\ r # None /\ r \in Records /\ r.status = "PayoutSubmitting"
  BY OwnerResumes
<1>3. unclear \in BOOLEAN /\ (r.ambiguous => unclear) /\ (ambiguous => unclear)
  BY <1>2 DEF Records
<1>4. w \in Records /\ w.seq = r.seq /\ w.frozen = r.frozen /\ w.ambiguous = unclear
  <2>. HIDE DEF unclear
  <2>1. QED
    BY <1>2, <1>3 DEF Records, Statuses
<1>5. ~unclear => Clean(r.seq)
  <2>. HIDE DEF unclear
  <2>1. ExecSent(c)
    BY DEF SentInv
  <2>2. ASSUME ~unclear, At(c, "transfer") PROVE Clean(r.seq)
    BY <1>3, <2>1, <2>2 DEF ExecSent, Clean
  <2>3. ASSUME ~unclear, ~At(c, "transfer") PROVE Clean(r.seq)
    <3>1. r.phase = "PreDispatch" /\ ~r.ambiguous
      BY <1>3, <2>1, <2>3 DEF ExecSent
    <3>2. ~MaybeSent(r) /\ Owed(id)
      BY <1>2, <3>1 DEF MaybeSent, Owed
    <3>3. QED
      BY <1>2, <3>2, OwedIsClean
  <2>4. QED
    BY <2>2, <2>3
<1>6. ~MaybeSent(w) => Clean(w.seq)
  BY <1>4, <1>5 DEF MaybeSent
<1>7. w # None
  BY <1>4, PayoutAssumption
<1>. HIDE DEF w
<1>8. SentInv'
  BY <1>1, <1>6, SentEnds
<1>9. rec'[id] = w /\ \A i \in Ids : i # id => rec'[i] = rec[i]
  BY <1>1, <1>2 DEF Write, Inv, TypeOK
<1>10. QED
  BY <1>2, <1>4, <1>7, <1>8, <1>9, IdentityWrite DEF FrozenKept

(* An executor that sends: it was before its dispatch. *)
LEMMA SentDispatch ==
  ASSUME Inv, SentInv, NEW c \in Calls, Executing(c), ~At(c, "transfer"),
         NEW f \in Requests, rec[call[c].id].frozen \in {None, f}, key' = key,
         Dispatch(c, call[c].id, [rec[call[c].id] EXCEPT !.frozen = f]),
         paid' = paid, orphans' = orphans
  PROVE  SentInv' /\ IdentityKept
<1>. DEFINE id == call[c].id
            r == rec[id]
            q == [r EXCEPT !.frozen = f]
            w == [q EXCEPT !.phase = "MayHaveDispatched", !.dispatched = TRUE]
<1>1. /\ Write(id, w)
      /\ call' = [call EXCEPT ![c] = Await("transfer", id, AttemptOf(q), q.frozen)]
  BY DEF Dispatch
<1>2. /\ id \in Ids /\ r # None /\ r \in Records /\ r.status = "PayoutSubmitting"
      /\ \A d \in Calls : d # c /\ Executing(d) => call[d].id # id
  BY OwnerResumes
<1>3. /\ w \in Records /\ w.seq = r.seq /\ w.frozen = f /\ w.ambiguous = r.ambiguous
      /\ w.phase = "MayHaveDispatched" /\ w.status = "PayoutSubmitting"
  BY <1>2 DEF Records
<1>4. ~r.ambiguous => Clean(r.seq)
  <2>1. r.phase = "PreDispatch"
    BY DEF SentInv, ExecSent
  <2>2. QED
    BY <1>2, <2>1, OwedIsClean DEF MaybeSent, Owed
<1>5. w # None
  BY <1>3, PayoutAssumption
<1>. HIDE DEF w, q
<1>6. rec'[id] = w /\ \A i \in Ids : i # id => rec'[i] = rec[i]
  BY <1>1, <1>2 DEF Write, Inv, TypeOK
<1>7. SentInv'
  <2>1. /\ call'[c] = Await("transfer", id, AttemptOf(q), q.frozen)
        /\ \A d \in Calls : d # c => call'[d] = call[d]
    BY <1>1 DEF Inv, TypeOK
  <2>2. QED
    BY <1>2, <1>3, <1>4, <1>6, <2>1, SentAwait DEF Executors
<1>8. QED
  BY <1>2, <1>3, <1>5, <1>6, <1>7, IdentityWrite DEF FrozenKept

LEMMA SentBalanceReply ==
  ASSUME Inv, SentInv, NEW c \in Calls, BalanceReply(c)
  PROVE  SentInv' /\ IdentityKept
<1>. DEFINE id == call[c].id
            r == rec[id]
<1>1. /\ Executing(c) /\ ~At(c, "transfer") /\ At(c, "balance")
      /\ key' = key /\ paid' = paid /\ orphans' = orphans
  BY DEF BalanceReply, Answered, Executing, Executors, At, control, ledger
<1>2. /\ id \in Ids /\ Owned(c) /\ r # None /\ r \in Records
      /\ r.status = "PayoutSubmitting" /\ r.frozen \in Requests \cup {None}
      /\ \A d \in Calls : d # c /\ Executing(d) => call[d].id # id
  BY <1>1, OwnerResumes
<1>3. CASE FinishError(c, FALSE)
  BY <1>1, <1>3, SentFinishError
<1>4. CASE /\ r.frozen = None
           /\ call' = [call EXCEPT ![c] = Await("fee", id, @.attempt, None)]
           /\ UNCHANGED <<rec, live, accrued>>
  <2>1. r.phase = "PreDispatch"
    BY <1>1 DEF SentInv, ExecSent
  <2>2. ~r.ambiguous => Clean(r.seq)
    BY <1>2, <2>1, OwedIsClean DEF MaybeSent, Owed
  <2>3. /\ call'[c] = Await("fee", id, call[c].attempt, None)
        /\ \A d \in Calls : d # c => call'[d] = call[d]
    BY <1>4 DEF Inv, TypeOK
  <2>4. SentInv'
    BY <1>1, <1>2, <1>4, <2>1, <2>2, <2>3, SentAwait DEF Executors
  <2>5. QED
    BY <1>1, <1>4, <2>4, IdentityQuiet
<1>5. CASE r.frozen # None /\ Dispatch(c, id, r) /\ UNCHANGED <<live, accrued>>
  <2>1. [r EXCEPT !.frozen = r.frozen] = r
    BY <1>2 DEF Records
  <2>2. QED
    BY <1>1, <1>2, <1>5, <2>1, SentDispatch
<1>6. QED
  BY <1>2, <1>3, <1>4, <1>5 DEF BalanceReply, Resume

LEMMA SentFeeReply ==
  ASSUME Inv, SentInv, NEW c \in Calls, FeeReply(c)
  PROVE  SentInv' /\ IdentityKept
<1>. DEFINE id == call[c].id
            r == rec[id]
            f == Frozen(id, call[c].fee)
<1>1. /\ Executing(c) /\ At(c, "fee") /\ ~At(c, "transfer") /\ call[c].reply # "none"
      /\ key' = key /\ paid' = paid /\ orphans' = orphans
  BY DEF FeeReply, Answered, Executing, Executors, At, control, ledger
<1>2. id \in Ids /\ Owned(c) /\ r.seq \in Seqs
  BY <1>1, OwnerResumes
<1>3. CASE FinishError(c, FALSE)
  BY <1>1, <1>3, SentFinishError
<1>4. CASE /\ call[c].reply # "error" /\ key # None
           /\ Dispatch(c, id, [r EXCEPT !.frozen = f])
           /\ UNCHANGED <<live, accrued>>
  <2>1. r.frozen = None
    BY <1>1 DEF Inv, PayoutInv, ExecutorInv, OwnerInv
  <2>2. f \in Requests
    <3>1. call[c].fee \in Fees /\ key \in Keys /\ now \in 0..MaxTime
      BY <1>1, <1>4, CallFields DEF Inv, TypeOK
    <3>2. QED
      BY <1>2, <3>1 DEF Frozen, Requests, Memos
  <2>. HIDE DEF f
  <2>3. QED
    BY <1>1, <1>4, <2>1, <2>2, SentDispatch
<1>5. QED
  BY <1>2, <1>3, <1>4 DEF FeeReply, Resume

LEMMA SentTransferReply ==
  ASSUME Inv, SentInv, NEW c \in Calls, TransferReply(c)
  PROVE  SentInv' /\ IdentityKept
<1>. DEFINE id == call[c].id
            r == rec[id]
            w == [r EXCEPT !.status = "Finalized"]
<1>1. /\ Executing(c) /\ At(c, "transfer")
      /\ key' = key /\ paid' = paid /\ orphans' = orphans
  BY DEF TransferReply, Answered, Executing, Executors, At, control, ledger
<1>2. id \in Ids /\ Owned(c) /\ r # None /\ r \in Records
  BY <1>1, OwnerResumes
<1>3. CASE call[c].reply \in {"Ok", "Duplicate"}
  <2>1. Write(id, w) /\ Finish(c)
    BY <1>2, <1>3 DEF TransferReply, Resume, Terminal
  <2>2. w \in Records /\ w # None /\ w.frozen = r.frozen /\ w.status = "Finalized"
    BY <1>2, PayoutAssumption DEF Records, Statuses
  <2>. HIDE DEF w
  <2>3. SentInv'
    BY <1>1, <2>1, <2>2, SentEnds
  <2>4. rec'[id] = w /\ \A i \in Ids : i # id => rec'[i] = rec[i]
    BY <1>2, <2>1 DEF Write, Inv, TypeOK
  <2>5. QED
    BY <1>1, <1>2, <2>2, <2>3, <2>4, IdentityWrite DEF FrozenKept
<1>4. CASE call[c].reply \notin {"Ok", "Duplicate"}
  <2>. DEFINE ambiguous == call[c].reply \in {"BadFee", "TooOld", "error"}
  <2>1. FinishError(c, ambiguous)
    BY <1>2, <1>4 DEF TransferReply, Resume
  <2>2. ambiguous \in BOOLEAN /\ (~ambiguous => call[c].reply # "error")
    OBVIOUS
  <2>. HIDE DEF ambiguous
  <2>3. QED
    BY <1>1, <1>4, <2>1, <2>2, SentFinishError
<1>5. QED
  BY <1>3, <1>4

LEMMA SentInit == Init => SentInv
<1>. SUFFICES ASSUME Init PROVE SentInv
  OBVIOUS
<1>1. \A c \in Calls : ~Executing(c)
  BY DEF Init, Executing, Executors, IdleCall
<1>2. QED
  BY <1>1 DEF Init, SentInv, UnambiguousIsUnpaid, ExecSent

LEMMA SentNext ==
  ASSUME Inv, SentInv, [Next]_vars
  PROVE  SentInv' /\ (IdentityKept \/ UNCHANGED vars)
<1>1. CASE UNCHANGED vars
  <2>1. UNCHANGED <<rec, call, paid, orphans>>
    BY <1>1 DEF vars, ledger
  <2>2. QED
    BY <1>1, <2>1, SentQuiet DEF Executing
<1>2. ASSUME NEW c \in Calls,
             \/ AskMemoKey(c) \/ CallStep(c)
             \/ MemoKeyFails(c) \/ CallErrors(c) \/ CallbackTraps(c)
      PROVE  SentInv' /\ IdentityKept
  BY <1>2, SentKeySteps, SentReplySteps, SentTransfer, SentBalanceReply, SentFeeReply,
     SentTransferReply, SentTraps DEF CallStep
<1>3. ASSUME NEW id \in Ids,
             \/ AdmitSpend(id) \/ PromoteSpend(id) \/ Retry(id)
             \/ ReconcileExecuted(id) \/ ReconcileNotExecuted(id)
             \/ PruneTerminalRecord(id)
      PROVE  SentInv' /\ IdentityKept
  BY <1>3, SentAdmit, SentPromote, SentRetry, SentExecuted, SentNotExecuted, SentPrune
  DEF PromoteSpend, Retry
<1>4. CASE (\E f \in Fees : SetTransferFee(f)) \/ Fund \/ Tick
  BY <1>4, SentEnvironment
<1>5. CASE Upgrade
  BY <1>5, SentUpgrade
<1>6. CASE \E o \in orphans : DeliverOrphan(o) \/ RejectOrphan(o)
  BY <1>6, SentDeliver, SentEnvironment
<1>7. QED
  BY <1>1, <1>2, <1>3, <1>4, <1>5, <1>6 DEF Next

(* finish_error and normalize_payout call a payout not executed only when  *)
(* it was not paid and no request of it is left behind: the flag is sticky *)
(* and the dispatch boundary is written with the request.                  *)
THEOREM UnambiguousIsUnpaidAlways == Spec => []UnambiguousIsUnpaid
<1>1. Init => SentInv
  BY SentInit
<1>2. Inv /\ SentInv /\ [Next]_vars => SentInv'
  BY SentNext
<1>3. SentInv => UnambiguousIsUnpaid
  BY DEF SentInv
<1>4. QED
  BY <1>1, <1>2, <1>3, PayoutInvariant, PTL DEF Spec

(* The memo key is drawn once, a frozen request never changes, and only a  *)
(* settled record is pruned, in whatever order answers come back.          *)
THEOREM IdentityIsFinalAlways == Spec => IdentityIsFinal
<1>1. Init => SentInv
  BY SentInit
<1>2. Inv /\ SentInv /\ [Next]_vars => SentInv' /\ [IdentityKept]_vars
  BY SentNext
<1>3. QED
  BY <1>1, <1>2, PayoutInvariant, PTL DEF Spec, IdentityIsFinal, IdentityKept
=============================================================================
