------------------------ MODULE ShieldedPool_proofs -------------------------
(***************************************************************************)
(* Type correctness and no double spend in the note life cycle, for every  *)
(* set of deposits, spends and calls.  The types of a task, of the lease   *)
(* and of the set of statuses stay folded: each action is reduced to what  *)
(* it does to one task and to the record it works on.                      *)
(*                                                                         *)
(* The second part proves NullifierInv inductive.  A spend's nullifiers    *)
(* pass through four hands: the guard of the call that admitted it, the    *)
(* reservation its record holds from OutputsStaged on, the insert_batch    *)
(* request (of a live call or of a dropped callback), and at last the      *)
(* registry.  Each hand excludes every other spend with a nullifier in     *)
(* common.                                                                 *)
(***************************************************************************)
EXTENDS ShieldedPool, TLAPS

PCs == {"idle"} \cup DepositPCs \cup SpendPCs \cup AppendPCs
Replies == {"none", "ok", "err", "hit", "miss"}

(* The calls the actions leave behind are well typed. *)
LEMMA IdleTaskType == IdleTask \in TaskType
  BY DEF IdleTask, Call, TaskType, DepositPCs, SpendPCs, AppendPCs

LEMMA CallType ==
  ASSUME NEW pc \in PCs, NEW r \in Records, NEW g \in Nat, NEW guard \in SUBSET Notes,
         pc \in DepositPCs => r \in Deposits, pc \in SpendPCs => r \in Spends
  PROVE  Call(pc, r, g, guard) \in TaskType
  BY DEF Call, TaskType, DepositPCs, SpendPCs, AppendPCs, PCs

LEMMA QueryCallType ==
  ASSUME NEW pc \in SpendPCs, NEW r \in Spends, NEW nfs \in SUBSET Notes,
         NEW guard \in SUBSET Notes, NEW a \in Nat, NEW e \in Nat
  PROVE  QueryCall(pc, r, nfs, guard, a, e) \in TaskType
  BY DEF Call, QueryCall, TaskType, DepositPCs, SpendPCs, AppendPCs, Records

LEMMA TaskFields ==
  ASSUME NEW k \in TaskType
  PROVE  /\ k.pc \in PCs /\ k.gen \in Nat /\ k.num \in Nat /\ k.guard \in SUBSET Notes
         /\ k.todo \in SUBSET Notes /\ k.seen \in SUBSET Notes /\ k.epoch \in Nat
         /\ k.anchor \in Nat /\ k.reply \in Replies
         /\ k.pc \in DepositPCs => k.id \in Deposits
         /\ k.pc \in SpendPCs => k.id \in Spends
         /\ k.pc \in AppendPCs => k.id \in Records
  BY DEF TaskType, PCs, Replies

(* The record a call works on, by the await it rests at. *)
LEMMA TaskInfo ==
  ASSUME TypeOK, NEW t \in Tasks
  PROVE  /\ task[t] \in TaskType
         /\ task[t].gen \in Nat /\ task[t].num \in Nat /\ task[t].guard \in SUBSET Notes
         /\ task[t].anchor \in Nat /\ task[t].epoch \in Nat
         /\ task[t].todo \in SUBSET Notes /\ task[t].seen \in SUBSET Notes
         /\ task[t].pc \in {"transfer", "recCount", "recLeaf"}
               => task[t].id \in Deposits /\ task[t].id \in Records
         /\ task[t].pc \in {"precheck", "admit", "verify", "recheck", "commit", "insert",
                            "spLeaf", "spCountHit", "spCountMiss", "spRest", "recNull"}
               => task[t].id \in Spends /\ task[t].id \in Records
         /\ task[t].pc \in {"snapshot", "append", "scanHead"} => task[t].id \in Records
<1>1. task[t] \in TaskType
  BY DEF TypeOK
<1>2. QED
  BY <1>1, TaskFields DEF DepositPCs, SpendPCs, AppendPCs, Records

LEMMA DataTypes ==
  /\ \A s \in Spends : Inputs[s] \in SUBSET Notes /\ Debit(s) \in Nat /\ Fee[s] \in Nat
  /\ \A d \in Deposits : Amount[d] \in Nat
  /\ \A r \in Records : Items(r) \in Seq(Notes)
  /\ \A d \in Deposits : d \in Records
  /\ \A s \in Spends : s \in Records
<1>1. \A d \in Deposits : d \in Notes
  BY DEF Notes
<1>2. \A d \in Deposits : <<d>> \in Seq(Notes)
  BY <1>1
<1>3. QED
  BY <1>1, <1>2, DataAssumption DEF Items, Records, Debit

(* What the building blocks of the actions preserve. *)
LEMMA FinishType ==
  ASSUME TypeOK, NEW t \in Tasks, Finish(t)
  PROVE  task' \in [Tasks -> TaskType]
  BY IdleTaskType DEF Finish, TypeOK

LEMMA AwaitType ==
  ASSUME TypeOK, NEW t \in Tasks, NEW call \in TaskType, Await(t, call)
  PROVE  task' \in [Tasks -> TaskType]
  BY DEF Await, TypeOK

LEMMA AwaitCall ==
  ASSUME TypeOK, NEW t \in Tasks, NEW pc \in PCs, NEW r \in Records, NEW g \in Nat,
         NEW guard \in SUBSET Notes,
         pc \in DepositPCs => r \in Deposits, pc \in SpendPCs => r \in Spends,
         Await(t, Call(pc, r, g, guard))
  PROVE  task' \in [Tasks -> TaskType]
  BY CallType, AwaitType

LEMMA AnswerType ==
  ASSUME TypeOK, NEW t \in Tasks, NEW r \in Replies, Answer(t, r)
  PROVE  task' \in [Tasks -> TaskType]
<1>1. [task[t] EXCEPT !.reply = r] \in TaskType
  BY TaskInfo DEF TaskType, Replies
<1>2. task' = [task EXCEPT ![t] = [task[t] EXCEPT !.reply = r]]
  BY DEF Answer
<1>3. QED
  BY <1>1, <1>2 DEF TypeOK

LEMMA AnswerCountType ==
  ASSUME TypeOK, NEW t \in Tasks, NEW n \in Nat, AnswerCount(t, n)
  PROVE  task' \in [Tasks -> TaskType]
<1>1. [task[t] EXCEPT !.reply = "ok", !.num = n] \in TaskType
  BY TaskInfo DEF TaskType
<1>2. task' = [task EXCEPT ![t] = [task[t] EXCEPT !.reply = "ok", !.num = n]]
  BY DEF AnswerCount, TypeOK
<1>3. QED
  BY <1>1, <1>2 DEF TypeOK

LEMMA ProceedType ==
  ASSUME TypeOK, NEW t \in Tasks, NEW pc \in SpendPCs, NEW guard \in SUBSET Notes,
         task[t].id \in Spends, Proceed(t, pc, guard)
  PROVE  task' \in [Tasks -> TaskType]
<1>. DEFINE k == [task[t] EXCEPT !.pc = pc, !.guard = guard]
<1>1. k \in TaskType
  BY TaskInfo DEF TaskType, SpendPCs, DepositPCs, AppendPCs
<1>2. task' = [task EXCEPT ![t] = k]
  BY DEF Proceed, TypeOK
<1>3. QED
  BY <1>1, <1>2 DEF TypeOK

LEMMA SetStatusType ==
  ASSUME TypeOK, NEW r, NEW s \in Statuses, SetStatus(r, s)
  PROVE  status' \in [Records -> Statuses]
  BY DEF SetStatus, TypeOK

LEMMA LeaseToType ==
  ASSUME TypeOK, NEW p \in LeasePhases, lease # NoLease, LeaseTo(p)
  PROVE  lease' \in LeaseType
  BY DEF LeaseTo, LeaseType, TypeOK

LEMMA LeaseTransitionType ==
  ASSUME TypeOK, NEW r, NEW g, NEW from \in LeasePhases, NEW p \in LeasePhases,
         LeaseTransition(r, g, from, p)
  PROVE  lease' \in LeaseType
<1>1. LeaseExpect(r, g, from) => lease # NoLease
  BY DEF LeaseExpect, NoLease, LeasePhases
<1>2. QED
  BY <1>1 DEF LeaseTransition, LeaseType, TypeOK

LEMMA LeaseReleaseType ==
  ASSUME TypeOK, NEW r, NEW g, LeaseRelease(r, g)
  PROVE  lease' \in LeaseType
  BY DEF LeaseRelease, LeaseType, TypeOK

LEMMA HeldLease ==
  ASSUME TypeOK, NEW r, NEW g, NEW p \in LeasePhases, LeaseExpect(r, g, p)
  PROVE  lease # NoLease
  BY DEF LeaseExpect, NoLease, LeasePhases

LEMMA OwnedLease ==
  ASSUME TypeOK, NEW r \in Records, NEW p, LeaseOwnedIn(r, p)
  PROVE  lease # NoLease /\ lease.gen \in Nat
  BY RecordAssumption DEF LeaseOwnedIn, NoLease, TypeOK, LeaseType

LEMMA AcquireType ==
  ASSUME TypeOK, NEW t \in Tasks, NEW r \in Records, AcquireAndSnapshot(t, r)
  PROVE  lease' \in LeaseType /\ nextGen' \in Nat /\ task' \in [Tasks -> TaskType]
<1>1. nextGen \in Nat /\ lease \in LeaseType
  BY DEF TypeOK
<1>2. CASE lease = NoLease
  <2>1. /\ lease' = [owner |-> r, phase |-> "Snapshotting", gen |-> nextGen]
        /\ nextGen' = nextGen + 1
        /\ Await(t, Call("snapshot", r, nextGen, task[t].guard))
    BY <1>2 DEF AcquireAndSnapshot
  <2>2. lease' \in LeaseType
    BY <1>1, <2>1 DEF LeaseType, LeasePhases
  <2>3. QED
    BY <1>1, <2>1, <2>2, AwaitCall, TaskInfo DEF PCs, AppendPCs, DepositPCs, SpendPCs
<1>3. CASE lease # NoLease
  BY <1>1, <1>3, FinishType DEF AcquireAndSnapshot
<1>4. QED
  BY <1>2, <1>3

LEMMA FaultType ==
  ASSUME TypeOK, Fault
  PROVE  faults' \in Nat
  BY DEF Fault, TypeOK

LEMMA IndexType ==
  ASSUME TypeOK, NEW r, NEW i \in Int, index' = [index EXCEPT ![r] = i]
  PROVE  index' \in [Records -> Int]
  BY DEF TypeOK

-----------------------------------------------------------------------------
(* Each action keeps the types. *)

LEMMA InitType == Init => TypeOK
<1>1. ASSUME Init PROVE TypeOK
  <2>1. task \in [Tasks -> TaskType]
    BY <1>1, IdleTaskType DEF Init
  <2>2. lease \in LeaseType
    BY <1>1 DEF Init, LeaseType
  <2>3. QED
    BY <1>1, <2>1, <2>2 DEF Init, TypeOK, Statuses
<1>2. QED
  BY <1>1

LEMMA ShieldDepositType ==
  ASSUME TypeOK, NEW t \in Tasks, NEW d \in Deposits, ShieldDeposit(t, d)
  PROVE  TypeOK'
<1>1. task' \in [Tasks -> TaskType]
  BY AwaitCall, DataTypes DEF ShieldDeposit, PCs, DepositPCs, SpendPCs, AppendPCs
<1>2. status' \in [Records -> Statuses]
  BY SetStatusType DEF ShieldDeposit, Statuses, DepositStatuses
<1>3. QED
  BY <1>1, <1>2 DEF ShieldDeposit, TypeOK, outside

LEMMA TransferType ==
  ASSUME TypeOK, NEW t \in Tasks,
         LedgerTransferFrom(t) \/ TransferConfirmed(t) \/ TransferRefused(t) \/ TransferUnknown(t)
  PROVE  TypeOK'
<1>1. At(t, "transfer")
  BY DEF LedgerTransferFrom, TransferConfirmed, TransferRefused, TransferUnknown
<1>2. task[t].id \in Deposits /\ task[t].id \in Records
  BY <1>1, TaskInfo DEF At
<1>3. CASE LedgerTransferFrom(t)
  <2>1. Answer(t, "ok") \/ Answer(t, "err")
    BY <1>3 DEF LedgerTransferFrom
  <2>2. task' \in [Tasks -> TaskType]
    BY <2>1, AnswerType DEF Replies
  <2>3. pulled' \subseteq Deposits
    BY <1>2, <1>3 DEF LedgerTransferFrom, TypeOK
  <2>4. QED
    BY <1>3, <2>2, <2>3 DEF LedgerTransferFrom, TypeOK, pool
<1>4. CASE TransferConfirmed(t)
  <2>1. status' \in [Records -> Statuses]
    BY <1>4, SetStatusType DEF TransferConfirmed, Statuses, DepositStatuses
  <2>2. lease' \in LeaseType /\ nextGen' \in Nat /\ task' \in [Tasks -> TaskType]
    BY <1>2, <1>4, AcquireType DEF TransferConfirmed
  <2>3. QED
    BY <1>4, <2>1, <2>2 DEF TransferConfirmed, TypeOK, outside
<1>5. CASE TransferRefused(t)
  <2>1. status' \in [Records -> Statuses]
    BY <1>5, SetStatusType DEF TransferRefused, Statuses
  <2>2. task' \in [Tasks -> TaskType]
    BY <1>5, FinishType DEF TransferRefused
  <2>3. QED
    BY <1>5, <2>1, <2>2 DEF TransferRefused, TypeOK, outside
<1>6. CASE TransferUnknown(t)
  <2>1. task' \in [Tasks -> TaskType] /\ faults' \in Nat
    BY <1>6, FinishType, FaultType DEF TransferUnknown
  <2>2. QED
    BY <1>6, <2>1 DEF TransferUnknown, TypeOK, pool, outside
<1>7. QED
  BY <1>3, <1>4, <1>5, <1>6

LEMMA SettleDepositTransferType ==
  ASSUME TypeOK, NEW t \in Tasks, NEW d \in Deposits, SettleDepositTransfer(t, d)
  PROVE  TypeOK'
<1>1. CASE d \in pulled
  <2>1. status' \in [Records -> Statuses]
    BY <1>1, SetStatusType DEF SettleDepositTransfer, Statuses, DepositStatuses
  <2>2. lease' \in LeaseType /\ nextGen' \in Nat /\ task' \in [Tasks -> TaskType]
    BY <1>1, AcquireType, DataTypes DEF SettleDepositTransfer
  <2>3. QED
    BY <2>1, <2>2 DEF SettleDepositTransfer, TypeOK, outside
<1>2. CASE d \notin pulled
  <2>1. status' \in [Records -> Statuses]
    BY <1>2, SetStatusType DEF SettleDepositTransfer, Statuses
  <2>2. QED
    BY <1>2, <2>1 DEF SettleDepositTransfer, TypeOK, outside
<1>3. QED
  BY <1>1, <1>2

LEMMA RetryType ==
  ASSUME TypeOK, NEW t \in Tasks, NEW r \in Records, AcquireAndSnapshot(t, r),
         UNCHANGED <<status, index, staged, inflight, accepted, head, acct, epoch, outside, faults>>
  PROVE  TypeOK'
<1>1. lease' \in LeaseType /\ nextGen' \in Nat /\ task' \in [Tasks -> TaskType]
  BY AcquireType
<1>2. QED
  BY <1>1 DEF TypeOK, outside

(* Replies of the tree, and steps that only move their own call. *)
LEMMA CallOnlyType ==
  ASSUME TypeOK, task' \in [Tasks -> TaskType], UNCHANGED <<pool, outside>>, faults' \in Nat
  PROVE  TypeOK'
  BY DEF TypeOK, pool, outside

LEMMA TreeCountType ==
  ASSUME TypeOK, NEW t \in Tasks, TreeCount(t)
  PROVE  TypeOK'
<1>1. Len(leaves) \in Nat /\ faults \in Nat
  BY DEF TypeOK
<1>2. task' \in [Tasks -> TaskType]
  BY <1>1, AnswerCountType DEF TreeCount
<1>3. QED
  BY <1>1, <1>2, CallOnlyType DEF TreeCount

LEMMA TreeLeafType ==
  ASSUME TypeOK, NEW t \in Tasks, TreeLeaf(t)
  PROVE  TypeOK'
<1>1. Answer(t, "hit") \/ Answer(t, "miss")
  BY DEF TreeLeaf
<1>2. task' \in [Tasks -> TaskType] /\ faults \in Nat
  BY <1>1, AnswerType DEF Replies, TypeOK
<1>3. QED
  BY <1>2, CallOnlyType DEF TreeLeaf

LEMMA TreeAppendType ==
  ASSUME TypeOK, NEW t \in Tasks, TreeAppend(t)
  PROVE  TypeOK'
<1>1. task[t].id \in Records
  BY TaskInfo DEF TreeAppend, At
<1>2. Items(task[t].id) \in Seq(Notes) /\ leaves \in Seq(Notes)
  BY <1>1, DataTypes DEF TypeOK
<1>3. leaves \o Items(task[t].id) \in Seq(Notes) /\ Len(leaves) \in Nat
  BY <1>2
<1>4. leaves' \in Seq(Notes)
  BY <1>2, <1>3 DEF TreeAppend
<1>5. AnswerCount(t, Len(leaves)) \/ Answer(t, "err")
  BY DEF TreeAppend
<1>6. task' \in [Tasks -> TaskType]
  BY <1>3, <1>5, AnswerType, AnswerCountType DEF Replies
<1>7. QED
  BY <1>4, <1>6 DEF TreeAppend, TypeOK, pool

-----------------------------------------------------------------------------
(* The append protocol. *)

LEMMA AppendStatusType ==
  ASSUME NEW r
  PROVE  AppendInFlight(r) \in Statuses /\ AppendUnknown(r) \in Statuses
         /\ AppendConfirmed(r) \in Statuses
  BY DEF AppendInFlight, AppendUnknown, AppendConfirmed, Statuses, DepositStatuses, SpendStatuses

LEMMA ClaimAppendType ==
  ASSUME TypeOK, NEW t \in Tasks, ClaimAppend(t)
  PROVE  TypeOK'
<1>. DEFINE r == task[t].id
<1>1. r \in Records /\ task[t].gen \in Nat /\ task[t].num \in Int /\ task[t].guard \in SUBSET Notes
  BY TaskInfo DEF ClaimAppend, At
<1>2. CASE status[r] \in Appendable /\ (r \in Spends => r \in staged)
  <2>1. /\ index' = [index EXCEPT ![r] = task[t].num]
        /\ SetStatus(r, AppendInFlight(r))
        /\ LeaseTransition(r, task[t].gen, "Snapshotting", "AppendInFlight")
        /\ \/ Await(t, Call("append", r, task[t].gen, task[t].guard))
           \/ Finish(t)
    BY <1>2 DEF ClaimAppend
  <2>2. index' \in [Records -> Int]
    BY <1>1, <2>1 DEF TypeOK
  <2>3. status' \in [Records -> Statuses]
    BY <2>1, AppendStatusType, SetStatusType
  <2>4. lease' \in LeaseType
    BY <2>1, LeaseTransitionType DEF LeasePhases
  <2>5. task' \in [Tasks -> TaskType]
    BY <1>1, <2>1, FinishType, AwaitCall DEF PCs, DepositPCs, SpendPCs, AppendPCs
  <2>6. QED
    BY <2>2, <2>3, <2>4, <2>5 DEF ClaimAppend, TypeOK, outside
<1>3. CASE ~(status[r] \in Appendable /\ (r \in Spends => r \in staged))
  <2>1. LeaseRelease(r, task[t].gen) /\ Finish(t) /\ UNCHANGED <<status, index>>
    BY <1>3 DEF ClaimAppend
  <2>2. lease' \in LeaseType /\ task' \in [Tasks -> TaskType]
    BY <2>1, LeaseReleaseType, FinishType
  <2>3. QED
    BY <2>1, <2>2 DEF ClaimAppend, TypeOK, outside
<1>4. QED
  BY <1>2, <1>3

LEMMA SnapshotFailsType ==
  ASSUME TypeOK, NEW t \in Tasks, SnapshotFails(t)
  PROVE  TypeOK'
<1>1. lease' \in LeaseType /\ task' \in [Tasks -> TaskType] /\ faults' \in Nat
  BY LeaseReleaseType, FinishType, FaultType DEF SnapshotFails
<1>2. QED
  BY <1>1 DEF SnapshotFails, TypeOK, outside

LEMMA CreditDepositType ==
  ASSUME TypeOK, NEW t \in Tasks, NEW d \in Deposits, NEW i \in Int, NEW p \in LeasePhases,
         CreditDeposit(t, d, i, p), UNCHANGED <<staged, nextGen, inflight, accepted, head,
                                               epoch, outside, faults>>
  PROVE  TypeOK'
<1>1. d \in Records /\ Amount[d] \in Nat /\ task[t].gen \in Nat
  BY DataTypes, TaskInfo
<1>2. acct' \in [liability : Nat, escrow : Nat, reserves : Nat]
  <2>1. acct \in [liability : Nat, escrow : Nat, reserves : Nat]
    BY DEF TypeOK
  <2>2. acct' = [acct EXCEPT !.liability = acct.liability + Amount[d],
                            !.escrow = acct.escrow + Amount[d]]
    BY DEF CreditDeposit
  <2>3. acct.liability + Amount[d] \in Nat /\ acct.escrow + Amount[d] \in Nat
    BY <1>1, <2>1
  <2>4. QED
    BY <2>1, <2>2, <2>3
<1>3. index' \in [Records -> Int]
  BY DEF CreditDeposit, TypeOK
<1>4. status' \in [Records -> Statuses]
  BY SetStatusType DEF CreditDeposit, Statuses, DepositStatuses
<1>5. lease' \in LeaseType
  BY HeldLease, LeaseToType DEF CreditDeposit, LeasePhases
<1>6. task' \in [Tasks -> TaskType]
  BY <1>1, AwaitCall DEF CreditDeposit, PCs, DepositPCs, SpendPCs, AppendPCs
<1>7. QED
  BY <1>2, <1>3, <1>4, <1>5, <1>6 DEF TypeOK, outside

LEMMA DepositAppendedType ==
  ASSUME TypeOK, NEW t \in Tasks, DepositAppended(t)
  PROVE  TypeOK'
<1>1. task[t].id \in Deposits /\ task[t].num \in Int
  BY TaskInfo DEF DepositAppended
<1>2. QED
  BY <1>1, CreditDepositType DEF DepositAppended, LeasePhases

LEMMA SpendAppendedType ==
  ASSUME TypeOK, NEW t \in Tasks, SpendAppended(t)
  PROVE  TypeOK'
<1>1. task[t].id \in Records /\ task[t].gen \in Nat /\ task[t].guard \in SUBSET Notes
  BY TaskInfo, DataTypes DEF SpendAppended
<1>2. status' \in [Records -> Statuses]
  BY SetStatusType DEF SpendAppended, Statuses, SpendStatuses
<1>3. lease' \in LeaseType
  BY HeldLease, LeaseToType DEF SpendAppended, LeasePhases
<1>4. task' \in [Tasks -> TaskType]
  BY <1>1, AwaitCall DEF SpendAppended, PCs, DepositPCs, SpendPCs, AppendPCs
<1>5. QED
  BY <1>2, <1>3, <1>4 DEF SpendAppended, TypeOK, outside

LEMMA RevertType ==
  ASSUME TypeOK, NEW t \in Tasks, RevertRejectedAppend(t), faults' \in Nat,
         UNCHANGED <<staged, nextGen, inflight, accepted, head, acct, epoch, outside>>
  PROVE  TypeOK'
<1>. DEFINE r == task[t].id
<1>1. lease' \in LeaseType /\ task' \in [Tasks -> TaskType]
  BY LeaseReleaseType, FinishType DEF RevertRejectedAppend
<1>2. SetStatus(r, "TransferConfirmedCommitmentPending") \/ SetStatus(r, "ActiveAppendRejected")
  BY DEF RevertRejectedAppend
<1>3. status' \in [Records -> Statuses]
  BY <1>2, SetStatusType DEF Statuses, DepositStatuses, SpendStatuses
<1>4. index' \in [Records -> Int]
  BY DEF RevertRejectedAppend, TypeOK
<1>5. QED
  BY <1>1, <1>3, <1>4 DEF TypeOK, outside

LEMMA AppendFailsType ==
  ASSUME TypeOK, NEW t \in Tasks,
         AppendRejected(t) \/ SpendAppendDefinitelyNot(t) \/ AppendOutcomeUnknown(t)
  PROVE  TypeOK'
<1>1. CASE AppendRejected(t)
  <2>1. faults' \in Nat
    BY <1>1 DEF AppendRejected, TypeOK
  <2>2. QED
    BY <1>1, <2>1, RevertType DEF AppendRejected
<1>2. CASE SpendAppendDefinitelyNot(t)
  BY <1>2, RevertType, FaultType DEF SpendAppendDefinitelyNot
<1>3. CASE AppendOutcomeUnknown(t)
  <2>1. status' \in [Records -> Statuses]
    BY <1>3, SetStatusType, AppendStatusType DEF AppendOutcomeUnknown
  <2>2. lease' \in LeaseType
    BY <1>3, LeaseTransitionType DEF AppendOutcomeUnknown, LeasePhases
  <2>3. task' \in [Tasks -> TaskType] /\ faults' \in Nat
    BY <1>3, FinishType, FaultType DEF AppendOutcomeUnknown
  <2>4. QED
    BY <1>3, <2>1, <2>2, <2>3 DEF AppendOutcomeUnknown, TypeOK, outside
<1>4. QED
  BY <1>1, <1>2, <1>3

LEMMA HeadType ==
  ASSUME TypeOK, NEW n \in Nat, CommitAcceptedRootHead(n)
  PROVE  accepted' \subseteq Nat /\ head' \in Nat
  BY DEF CommitAcceptedRootHead, TypeOK

LEMMA DepositRootAcceptedType ==
  ASSUME TypeOK, NEW t \in Tasks, DepositRootAccepted(t)
  PROVE  TypeOK'
<1>1. accepted' \subseteq Nat /\ head' \in Nat
  BY HeadType, TaskInfo DEF DepositRootAccepted
<1>2. status' \in [Records -> Statuses]
  BY SetStatusType DEF DepositRootAccepted, Statuses, DepositStatuses
<1>3. lease' \in LeaseType /\ task' \in [Tasks -> TaskType]
  BY LeaseReleaseType, FinishType DEF DepositRootAccepted
<1>4. QED
  BY <1>1, <1>2, <1>3 DEF DepositRootAccepted, TypeOK, outside

LEMMA SpendRootAcceptedType ==
  ASSUME TypeOK, NEW t \in Tasks, SpendRootAccepted(t)
  PROVE  TypeOK'
<1>1. accepted' \subseteq Nat /\ head' \in Nat
  BY HeadType, TaskInfo DEF SpendRootAccepted
<1>2. status' \in [Records -> Statuses]
  <2>1. SetStatus(task[t].id, "PayoutPending") \/ SetStatus(task[t].id, "Finalized")
    BY DEF SpendRootAccepted
  <2>2. QED
    BY <2>1, SetStatusType DEF Statuses, SpendStatuses
<1>3. lease' \in LeaseType /\ task' \in [Tasks -> TaskType]
  BY LeaseReleaseType, FinishType DEF SpendRootAccepted
<1>4. acct' \in [liability : Nat, escrow : Nat, reserves : Nat]
  <2>1. Debit(task[t].id) \in Nat /\ Fee[task[t].id] \in Nat
    BY DataTypes DEF SpendRootAccepted
  <2>2. /\ acct.liability \in Nat /\ acct.escrow \in Nat /\ acct.reserves \in Nat
    BY DEF TypeOK
  <2>3. \A w, x \in Nat : Debited(w, x) \in Nat
    BY DEF Debited
  <2>4. QED
    BY <2>1, <2>2, <2>3 DEF SpendRootAccepted
<1>5. staged' \subseteq Spends
  BY DEF SpendRootAccepted, TypeOK
<1>6. QED
  BY <1>1, <1>2, <1>3, <1>4, <1>5 DEF SpendRootAccepted, TypeOK, outside

LEMMA ScanHeadType ==
  ASSUME TypeOK, NEW t \in Tasks, ScanHeadStale(t) \/ ScanHeadFails(t)
  PROVE  TypeOK'
<1>1. task' \in [Tasks -> TaskType] /\ faults' \in Nat
  BY FinishType, FaultType DEF ScanHeadStale, ScanHeadFails, TypeOK
<1>2. QED
  BY <1>1, CallOnlyType DEF ScanHeadStale, ScanHeadFails

-----------------------------------------------------------------------------
(* Reconciliation of appends. *)

LEMMA ReconcileRootPendingType ==
  ASSUME TypeOK, NEW t \in Tasks, NEW r \in Records, ReconcileRootPending(t, r)
  PROVE  TypeOK'
<1>1. lease.gen \in Nat
  BY OwnedLease DEF ReconcileRootPending
<1>2. task' \in [Tasks -> TaskType]
  BY <1>1, AwaitCall DEF ReconcileRootPending, PCs, DepositPCs, SpendPCs, AppendPCs
<1>3. QED
  BY <1>2, CallOnlyType DEF ReconcileRootPending, TypeOK

LEMMA ReconcileAppendUnknownType ==
  ASSUME TypeOK, NEW t \in Tasks, NEW r \in Records, ReconcileAppendUnknown(t, r)
  PROVE  TypeOK'
<1>1. lease.gen \in Nat /\ lease # NoLease
  BY OwnedLease DEF ReconcileAppendUnknown
<1>2. task' \in [Tasks -> TaskType]
  <2>1. CASE r \in Deposits
    BY <1>1, <2>1, AwaitCall DEF ReconcileAppendUnknown, PCs, DepositPCs, SpendPCs, AppendPCs
  <2>2. CASE r \notin Deposits
    <3>1. r \in Spends
      BY <2>2 DEF Records
    <3>2. QED
      BY <1>1, <2>2, <3>1, AwaitCall
      DEF ReconcileAppendUnknown, PCs, DepositPCs, SpendPCs, AppendPCs
  <2>3. QED
    BY <2>1, <2>2
<1>3. lease' \in LeaseType
  BY <1>1, LeaseToType DEF ReconcileAppendUnknown, LeasePhases
<1>4. status' \in [Records -> Statuses]
  <2>1. status[r] \in Statuses
    BY DEF TypeOK
  <2>2. SetStatus(r, "CommitmentReconcileInFlight") \/ SetStatus(r, status[r])
    BY DEF ReconcileAppendUnknown
  <2>3. QED
    BY <2>1, <2>2, SetStatusType DEF Statuses, DepositStatuses
<1>5. QED
  BY <1>2, <1>3, <1>4 DEF ReconcileAppendUnknown, TypeOK, outside

LEMMA NotAppendedType ==
  ASSUME TypeOK, NEW t \in Tasks, DepositNotAppended(t) \/ SpendNotAppended(t)
  PROVE  TypeOK'
<1>1. lease' \in LeaseType /\ task' \in [Tasks -> TaskType]
  BY LeaseReleaseType, FinishType DEF DepositNotAppended, SpendNotAppended
<1>2. CASE DepositNotAppended(t)
  <2>1. status' \in [Records -> Statuses]
    BY <1>2, SetStatusType DEF DepositNotAppended, Statuses, DepositStatuses
  <2>2. index' \in [Records -> Int]
    <3>1. index' = [index EXCEPT ![task[t].id] = -1]
      BY <1>2 DEF DepositNotAppended
    <3>2. -1 \in Int
      OBVIOUS
    <3>3. QED
      BY <3>1, <3>2, IndexType
  <2>3. QED
    BY <1>1, <1>2, <2>1, <2>2 DEF DepositNotAppended, TypeOK, outside
<1>3. CASE SpendNotAppended(t)
  <2>1. status' \in [Records -> Statuses]
    BY <1>3, SetStatusType DEF SpendNotAppended, Statuses, SpendStatuses
  <2>2. QED
    BY <1>1, <1>3, <2>1 DEF SpendNotAppended, TypeOK, outside
<1>4. QED
  BY <1>2, <1>3

LEMMA AskType ==
  ASSUME TypeOK, NEW t \in Tasks, DepositAskLeaf(t) \/ SpendAskCount(t) \/ SpendAskRest(t)
  PROVE  TypeOK'
<1>1. task[t].gen \in Nat
  BY TaskInfo
<1>2. task' \in [Tasks -> TaskType]
  <2>1. CASE DepositAskLeaf(t)
    <3>1. task[t].id \in Deposits /\ task[t].id \in Records
      BY <2>1, TaskInfo DEF DepositAskLeaf, At
    <3>2. QED
      BY <1>1, <2>1, <3>1, AwaitCall DEF DepositAskLeaf, PCs, DepositPCs, SpendPCs, AppendPCs
  <2>2. CASE SpendAskCount(t)
    <3>1. task[t].id \in Spends /\ task[t].id \in Records
      BY <2>2, TaskInfo DEF SpendAskCount, At
    <3>2. \/ Await(t, Call("spCountHit", task[t].id, task[t].gen, {}))
          \/ Await(t, Call("spCountMiss", task[t].id, task[t].gen, {}))
      BY <2>2 DEF SpendAskCount
    <3>3. QED
      BY <1>1, <3>1, <3>2, AwaitCall DEF PCs, DepositPCs, SpendPCs, AppendPCs
  <2>3. CASE SpendAskRest(t)
    <3>1. task[t].id \in Spends /\ task[t].id \in Records
      BY <2>3, TaskInfo DEF SpendAskRest, At
    <3>2. QED
      BY <1>1, <2>3, <3>1, AwaitCall DEF SpendAskRest, PCs, DepositPCs, SpendPCs, AppendPCs
  <2>4. QED
    BY <2>1, <2>2, <2>3
<1>3. faults' \in Nat /\ UNCHANGED <<pool, outside>>
  BY DEF DepositAskLeaf, SpendAskCount, SpendAskRest, TypeOK
<1>4. QED
  BY <1>2, <1>3, CallOnlyType

LEMMA DepositFoundAppendedType ==
  ASSUME TypeOK, NEW t \in Tasks, DepositFoundAppended(t)
  PROVE  TypeOK'
<1>1. task[t].id \in Deposits /\ task[t].id \in Records
  BY TaskInfo DEF DepositFoundAppended, At
<1>2. index[task[t].id] \in Int
  BY <1>1 DEF TypeOK
<1>3. QED
  BY <1>1, <1>2, CreditDepositType DEF DepositFoundAppended, LeasePhases

LEMMA SpendFoundAppendedType ==
  ASSUME TypeOK, NEW t \in Tasks, SpendFoundAppended(t)
  PROVE  TypeOK'
<1>1. task[t].id \in Records /\ task[t].gen \in Nat
  BY TaskInfo DEF SpendFoundAppended, At
<1>2. status' \in [Records -> Statuses]
  BY SetStatusType DEF SpendFoundAppended, Statuses, SpendStatuses
<1>3. lease' \in LeaseType
  BY HeldLease, LeaseToType DEF SpendFoundAppended, LeasePhases
<1>4. task' \in [Tasks -> TaskType]
  BY <1>1, AwaitCall DEF SpendFoundAppended, PCs, DepositPCs, SpendPCs, AppendPCs
<1>5. QED
  BY <1>2, <1>3, <1>4 DEF SpendFoundAppended, TypeOK, outside

LEMMA ReconcileAppendFailsType ==
  ASSUME TypeOK, NEW t \in Tasks, ReconcileAppendFails(t)
  PROVE  TypeOK'
<1>1. status' \in [Records -> Statuses]
  BY SetStatusType, AppendStatusType DEF ReconcileAppendFails
<1>2. lease' \in LeaseType
  BY LeaseTransitionType DEF ReconcileAppendFails, LeasePhases
<1>3. task' \in [Tasks -> TaskType]
  BY FinishType DEF ReconcileAppendFails
<1>4. faults' \in Nat
  BY FaultType DEF ReconcileAppendFails, TypeOK
<1>5. QED
  BY <1>1, <1>2, <1>3, <1>4 DEF ReconcileAppendFails, TypeOK, outside

-----------------------------------------------------------------------------
(* Private spends. *)

LEMMA QueryAwait ==
  ASSUME TypeOK, NEW t \in Tasks, NEW pc \in SpendPCs, NEW s \in Spends,
         NEW guard \in SUBSET Notes, NEW a \in Nat, NEW e \in Nat,
         Await(t, QueryCall(pc, s, Inputs[s], guard, a, e))
  PROVE  task' \in [Tasks -> TaskType]
  BY QueryCallType, AwaitType, DataTypes

LEMMA PrivateSpendType ==
  ASSUME TypeOK, NEW t \in Tasks, NEW s \in Spends, PrivateSpend(t, s)
  PROVE  TypeOK'
<1>1. PICK a \in accepted : Await(t, QueryCall("precheck", s, Inputs[s], {}, a, epoch))
  BY DEF PrivateSpend
<1>2. a \in Nat /\ epoch \in Nat /\ faults \in Nat
  BY DEF TypeOK
<1>3. task' \in [Tasks -> TaskType]
  BY <1>1, <1>2, QueryAwait DEF SpendPCs
<1>4. QED
  BY <1>2, <1>3, CallOnlyType DEF PrivateSpend

LEMMA RegistryContainsType ==
  ASSUME TypeOK, NEW t \in Tasks, RegistryContains(t)
  PROVE  TypeOK'
<1>1. PICK n \in task[t].todo :
         task' = [task EXCEPT ![t].todo = @ \ {n}, ![t].seen = @ \cup ({n} \cap Spent)]
  BY DEF RegistryContains
<1>. DEFINE k == [task[t] EXCEPT !.todo = task[t].todo \ {n},
                                 !.seen = task[t].seen \cup ({n} \cap Spent)]
<1>2. k \in TaskType
  <2>1. task[t].todo \ {n} \in SUBSET Notes /\ task[t].seen \cup ({n} \cap Spent) \in SUBSET Notes
    BY TaskInfo DEF Spent
  <2>2. task[t] \in TaskType
    BY TaskInfo
  <2>3. \A S, T \in SUBSET Notes : [task[t] EXCEPT !.todo = S, !.seen = T] \in TaskType
    BY <2>2 DEF TaskType
  <2>4. QED
    BY <2>1, <2>3
<1>3. task' = [task EXCEPT ![t] = k]
  BY <1>1 DEF TypeOK
<1>4. task' \in [Tasks -> TaskType] /\ faults \in Nat
  BY <1>2, <1>3 DEF TypeOK
<1>5. QED
  BY <1>4, CallOnlyType DEF RegistryContains

LEMMA PrecheckType ==
  ASSUME TypeOK, NEW t \in Tasks,
         PrecheckRefuses(t) \/ PrecheckPasses(t) \/ NullifierQueryFails(t) \/ RecheckPasses(t)
  PROVE  TypeOK'
<1>1. CASE PrecheckRefuses(t) \/ NullifierQueryFails(t)
  <2>1. task' \in [Tasks -> TaskType] /\ faults' \in Nat
    BY <1>1, FinishType, FaultType DEF PrecheckRefuses, NullifierQueryFails, TypeOK
  <2>2. QED
    BY <1>1, <2>1, CallOnlyType DEF PrecheckRefuses, NullifierQueryFails
<1>2. CASE PrecheckPasses(t) \/ RecheckPasses(t)
  <2>1. task[t].id \in Spends /\ task[t].guard \in SUBSET Notes
    BY <1>2, TaskInfo DEF PrecheckPasses, RecheckPasses, At
  <2>2. task' \in [Tasks -> TaskType] /\ faults' \in Nat
    BY <1>2, <2>1, ProceedType DEF PrecheckPasses, RecheckPasses, TypeOK, SpendPCs
  <2>3. QED
    BY <1>2, <2>2, CallOnlyType DEF PrecheckPasses, RecheckPasses
<1>3. QED
  BY <1>1, <1>2

LEMMA AdmitSpendType ==
  ASSUME TypeOK, NEW t \in Tasks, AdmitSpend(t)
  PROVE  TypeOK'
<1>1. task[t].id \in Spends /\ Inputs[task[t].id] \in SUBSET Notes
  BY TaskInfo, DataTypes DEF AdmitSpend, At
<1>2. \/ SetStatus(task[t].id, "VerificationPending") /\ Proceed(t, "verify", Inputs[task[t].id])
      \/ Finish(t) /\ UNCHANGED status
  BY DEF AdmitSpend
<1>3. status' \in [Records -> Statuses]
  BY <1>2, SetStatusType DEF Statuses, SpendStatuses, TypeOK
<1>4. task' \in [Tasks -> TaskType]
  BY <1>1, <1>2, FinishType, ProceedType DEF SpendPCs
<1>5. QED
  BY <1>3, <1>4 DEF AdmitSpend, TypeOK, outside

LEMMA VerifierAcceptsType ==
  ASSUME TypeOK, NEW t \in Tasks, VerifierAccepts(t)
  PROVE  TypeOK'
<1>1. task[t].id \in Spends /\ task[t].guard \in SUBSET Notes /\ task[t].epoch \in Nat /\ faults \in Nat
  BY TaskInfo DEF VerifierAccepts, At, TypeOK
<1>2. task' \in [Tasks -> TaskType]
  BY <1>1, QueryAwait DEF VerifierAccepts, SpendPCs
<1>3. QED
  BY <1>1, <1>2, CallOnlyType DEF VerifierAccepts

(* A call that ends by giving its record a status. *)
LEMMA CloseType ==
  ASSUME TypeOK, NEW t \in Tasks, NEW r, NEW st \in Statuses, SetStatus(r, st), Finish(t),
         faults' \in Nat,
         UNCHANGED <<index, staged, lease, nextGen, inflight, accepted, head, acct, epoch, outside>>
  PROVE  TypeOK'
<1>1. status' \in [Records -> Statuses] /\ task' \in [Tasks -> TaskType]
  BY SetStatusType, FinishType
<1>2. QED
  BY <1>1 DEF TypeOK, outside

LEMMA SpendClosedType ==
  ASSUME TypeOK, NEW t \in Tasks,
         \/ VerifierRejects(t) \/ VerifierUnavailable(t) \/ RecheckFails(t)
         \/ PayoutPreconditionFails(t) \/ EpochChanged(t)
         \/ InsertOutcomeUnknown(t) \/ ReconcileNullifierFails(t)
  PROVE  TypeOK'
<1>1. faults' \in Nat
  BY FaultType DEF TypeOK, VerifierRejects, VerifierUnavailable, RecheckFails,
     PayoutPreconditionFails, EpochChanged, InsertOutcomeUnknown, ReconcileNullifierFails
<1>2. \E st \in {"FailedBeforeStateChange", "Absent", "NullifierInsertUnknown"} :
         SetStatus(task[t].id, st)
  BY DEF VerifierRejects, VerifierUnavailable, RecheckFails, PayoutPreconditionFails,
     EpochChanged, InsertOutcomeUnknown, ReconcileNullifierFails
<1>3. PICK st \in {"FailedBeforeStateChange", "Absent", "NullifierInsertUnknown"} :
         SetStatus(task[t].id, st)
  BY <1>2
<1>4. st \in Statuses
  BY DEF Statuses, SpendStatuses
<1>5. QED
  BY <1>1, <1>3, <1>4, CloseType DEF VerifierRejects, VerifierUnavailable, RecheckFails,
     PayoutPreconditionFails, EpochChanged, InsertOutcomeUnknown, ReconcileNullifierFails

LEMMA CommitSpendType ==
  ASSUME TypeOK, NEW t \in Tasks, CommitSpend(t)
  PROVE  TypeOK'
<1>. DEFINE s == task[t].id
<1>1. s \in Spends /\ s \in Records /\ Inputs[s] \in SUBSET Notes /\ task[t].guard \in SUBSET Notes
  BY TaskInfo, DataTypes DEF CommitSpend, At
<1>2. CASE Inputs[s] \cap inflight = {}
  <2>1. /\ inflight' = inflight \cup Inputs[s]
        /\ staged' = staged \cup {s}
        /\ index' = [index EXCEPT ![s] = -1]
        /\ SetStatus(s, "OutputsStaged")
        /\ Await(t, Call("insert", s, 0, task[t].guard))
    BY <1>2 DEF CommitSpend
  <2>2. inflight' \subseteq Notes /\ staged' \subseteq Spends
    BY <1>1, <2>1 DEF TypeOK
  <2>3. -1 \in Int /\ 0 \in Nat
    OBVIOUS
  <2>4. index' \in [Records -> Int]
    BY <2>1, <2>3, IndexType
  <2>5. status' \in [Records -> Statuses]
    BY <2>1, SetStatusType DEF Statuses, SpendStatuses
  <2>6. task' \in [Tasks -> TaskType]
    BY <1>1, <2>1, <2>3, AwaitCall DEF PCs, DepositPCs, SpendPCs, AppendPCs
  <2>7. QED
    BY <2>2, <2>4, <2>5, <2>6 DEF CommitSpend, TypeOK, outside
<1>3. CASE Inputs[s] \cap inflight # {}
  <2>1. SetStatus(s, "FailedBeforeStateChange") /\ Finish(t) /\ UNCHANGED <<inflight, staged, index>>
    BY <1>3 DEF CommitSpend
  <2>2. status' \in [Records -> Statuses] /\ task' \in [Tasks -> TaskType]
    BY <2>1, SetStatusType, FinishType DEF Statuses, SpendStatuses
  <2>3. QED
    BY <2>1, <2>2 DEF CommitSpend, TypeOK, outside
<1>4. QED
  BY <1>2, <1>3

LEMMA InsertedType ==
  ASSUME TypeOK, NEW s \in Spends
  PROVE  Inserted(s) \in [Notes -> Spends \cup {NoRecord}]
  BY DEF Inserted, TypeOK

LEMMA RegistryInsertType ==
  ASSUME TypeOK, NEW t \in Tasks, RegistryInsert(t)
  PROVE  TypeOK'
<1>1. task[t].id \in Spends
  BY TaskInfo DEF RegistryInsert, At
<1>2. spentBy' \in [Notes -> Spends \cup {NoRecord}]
  BY <1>1, InsertedType DEF RegistryInsert, TypeOK
<1>3. Answer(t, "ok") \/ Answer(t, "err")
  BY DEF RegistryInsert
<1>4. task' \in [Tasks -> TaskType]
  BY <1>3, AnswerType DEF Replies
<1>5. QED
  BY <1>2, <1>4 DEF RegistryInsert, TypeOK, pool

(* NullifierInserted, and the reconciliation that finds every nullifier. *)
LEMMA CommittedType ==
  ASSUME TypeOK, NEW t \in Tasks, NullifierInserted(t) \/ ReconciledCommitted(t)
  PROVE  TypeOK'
<1>1. task[t].id \in Records
  BY TaskInfo DEF NullifierInserted, ReconciledCommitted, At
<1>2. status' \in [Records -> Statuses]
  BY SetStatusType DEF NullifierInserted, ReconciledCommitted, Statuses, SpendStatuses
<1>3. lease' \in LeaseType /\ nextGen' \in Nat /\ task' \in [Tasks -> TaskType]
  BY <1>1, AcquireType DEF NullifierInserted, ReconciledCommitted
<1>4. inflight' \subseteq Notes
  BY DEF NullifierInserted, ReconciledCommitted, TypeOK
<1>5. QED
  BY <1>2, <1>3, <1>4 DEF NullifierInserted, ReconciledCommitted, TypeOK, outside

LEMMA DiscardedType ==
  ASSUME TypeOK, NEW t \in Tasks, InsertRejected(t) \/ ReconciledNotCommitted(t)
  PROVE  TypeOK'
<1>1. DiscardUncommitted(t)
  BY DEF InsertRejected, ReconciledNotCommitted
<1>2. status' \in [Records -> Statuses] /\ task' \in [Tasks -> TaskType]
  BY <1>1, SetStatusType, FinishType DEF DiscardUncommitted, Statuses, SpendStatuses
<1>3. staged' \subseteq Spends /\ inflight' \subseteq Notes
  BY <1>1 DEF DiscardUncommitted, TypeOK
<1>4. faults' \in Nat
  BY FaultType DEF InsertRejected, ReconciledNotCommitted, TypeOK
<1>5. QED
  BY <1>2, <1>3, <1>4 DEF InsertRejected, ReconciledNotCommitted, TypeOK, outside

LEMMA ReconcileNullifierInsertType ==
  ASSUME TypeOK, NEW t \in Tasks, NEW s \in Spends, ReconcileNullifierInsert(t, s)
  PROVE  TypeOK'
<1>1. 0 \in Nat
  OBVIOUS
<1>2. task' \in [Tasks -> TaskType]
  BY <1>1, QueryAwait DEF ReconcileNullifierInsert, SpendPCs
<1>3. status' \in [Records -> Statuses]
  BY SetStatusType DEF ReconcileNullifierInsert, Statuses, SpendStatuses
<1>4. QED
  BY <1>2, <1>3 DEF ReconcileNullifierInsert, TypeOK, outside

-----------------------------------------------------------------------------
(* Upgrades and late requests. *)

LEMMA UpgradedTypes ==
  /\ \A st \in Statuses : UpgradedStatus(st) \in Statuses
  /\ lease \in LeaseType => UpgradedLease \in LeaseType
<1>1. ASSUME NEW st \in Statuses PROVE UpgradedStatus(st) \in Statuses
  BY DEF UpgradedStatus, Statuses, DepositStatuses, SpendStatuses
<1>2. ASSUME lease \in LeaseType PROVE UpgradedLease \in LeaseType
  <2>1. CASE lease.phase \in {"AppendInFlight", "ReconcileInFlight"}
    <3>1. lease # NoLease
      BY <2>1 DEF NoLease
    <3>2. UpgradedLease = [lease EXCEPT !.phase = "AppendUnknown"]
      BY <2>1 DEF UpgradedLease
    <3>3. QED
      BY <1>2, <3>1, <3>2 DEF LeaseType, LeasePhases
  <2>2. CASE lease.phase \notin {"AppendInFlight", "ReconcileInFlight"}
    BY <1>2, <2>2 DEF UpgradedLease, LeaseType
  <2>3. QED
    BY <2>1, <2>2
<1>3. QED
  BY <1>1, <1>2

LEMMA UpgradeType ==
  ASSUME TypeOK, Upgrade
  PROVE  TypeOK'
<1>1. status' \in [Records -> Statuses]
  <2>1. status' = [r \in Records |-> UpgradedStatus(status[r])]
    BY DEF Upgrade
  <2>2. \A r \in Records : status[r] \in Statuses
    BY DEF TypeOK
  <2>3. QED
    BY <2>1, <2>2, UpgradedTypes
<1>2. lease' \in LeaseType
  BY UpgradedTypes DEF Upgrade, TypeOK
<1>3. inflight' \subseteq Notes
  BY DataTypes DEF Upgrade, RebuiltInflight
<1>4. task' \in [Tasks -> TaskType]
  BY IdleTaskType DEF Upgrade
<1>5. orphans' \subseteq OrphanType
  <2>1. ASSUME NEW t \in Tasks, task[t].pc \in {"transfer", "append", "insert"}
        PROVE  [kind |-> task[t].pc, id |-> task[t].id] \in OrphanType
    <3>1. task[t].pc = "transfer" => task[t].id \in Deposits
      BY TaskInfo
    <3>2. task[t].pc = "append" => task[t].id \in Records
      BY TaskInfo
    <3>3. task[t].pc = "insert" => task[t].id \in Spends
      BY TaskInfo
    <3>4. QED
      BY <2>1, <3>1, <3>2, <3>3 DEF OrphanType
  <2>2. Undelivered \subseteq OrphanType
    BY <2>1 DEF Undelivered
  <2>3. QED
    BY <2>2 DEF Upgrade, TypeOK
<1>6. faults' \in Nat
  BY FaultType DEF Upgrade
<1>7. QED
  BY <1>1, <1>2, <1>3, <1>4, <1>5, <1>6 DEF Upgrade, TypeOK

LEMMA OrphanFields ==
  ASSUME TypeOK, NEW o \in orphans
  PROVE  /\ o.kind = "transfer" => o.id \in Deposits
         /\ o.kind = "append" => o.id \in Records
         /\ o.kind = "insert" => o.id \in Spends
<1>1. o \in OrphanType
  BY DEF TypeOK
<1>2. QED
  BY <1>1 DEF OrphanType

LEMMA OrphanStepType ==
  ASSUME TypeOK, NEW o \in orphans, DeliverOrphan(o) \/ RejectOrphan(o)
  PROVE  TypeOK'
<1>1. orphans' \subseteq OrphanType
  BY DEF DeliverOrphan, RejectOrphan, TypeOK
<1>2. pulled' \subseteq Deposits
  BY OrphanFields DEF DeliverOrphan, RejectOrphan, TypeOK
<1>3. leaves' \in Seq(Notes)
  <2>1. leaves \in Seq(Notes)
    BY DEF TypeOK
  <2>2. leaves' = leaves \/ (o.kind = "append" /\ leaves' = leaves \o Items(o.id))
    BY DEF DeliverOrphan, RejectOrphan
  <2>3. o.kind = "append" => Items(o.id) \in Seq(Notes)
    BY OrphanFields, DataTypes
  <2>4. CASE o.kind = "append" /\ leaves' = leaves \o Items(o.id)
    <3>1. Items(o.id) \in Seq(Notes)
      BY <2>3, <2>4
    <3>2. leaves \o Items(o.id) \in Seq(Notes)
      BY <2>1, <3>1
    <3>3. QED
      BY <2>4, <3>2
  <2>5. QED
    BY <2>1, <2>2, <2>4
<1>4. spentBy' \in [Notes -> Spends \cup {NoRecord}]
  <2>1. spentBy' = spentBy \/ (o.kind = "insert" /\ spentBy' = Inserted(o.id))
    BY DEF DeliverOrphan, RejectOrphan
  <2>2. QED
    BY <2>1, OrphanFields, InsertedType DEF TypeOK
<1>5. QED
  BY <1>1, <1>2, <1>3, <1>4 DEF DeliverOrphan, RejectOrphan, TypeOK, pool

-----------------------------------------------------------------------------
LEMMA CallStepType ==
  ASSUME TypeOK, NEW t \in Tasks, CallStep(t)
  PROVE  TypeOK'
BY TransferType, TreeCountType, TreeLeafType, TreeAppendType, ClaimAppendType,
   DepositAppendedType, SpendAppendedType, AppendFailsType, DepositRootAcceptedType,
   SpendRootAcceptedType, ScanHeadType, NotAppendedType, AskType, DepositFoundAppendedType,
   SpendFoundAppendedType, RegistryContainsType, PrecheckType, AdmitSpendType,
   VerifierAcceptsType, SpendClosedType, CommitSpendType, RegistryInsertType,
   CommittedType, DiscardedType
DEF CallStep

LEMMA CallFailureType ==
  ASSUME TypeOK, NEW t \in Tasks, CallFailure(t)
  PROVE  TypeOK'
BY TransferType, SnapshotFailsType, AppendFailsType, ScanHeadType, ReconcileAppendFailsType,
   SpendClosedType, PrecheckType, DiscardedType
DEF CallFailure

LEMMA RecoverType ==
  ASSUME TypeOK, NEW t \in Tasks, NEW r \in Records, Recover(t, r)
  PROVE  TypeOK'
<1>1. CASE r \in Deposits /\ RetryDepositCommitment(t, r)
  BY <1>1, RetryType DEF RetryDepositCommitment
<1>2. CASE r \in Spends /\ ReconcilePendingSpend(t, r)
  BY <1>2, RetryType DEF ReconcilePendingSpend
<1>3. QED
  BY <1>1, <1>2, SettleDepositTransferType, ReconcileRootPendingType,
     ReconcileAppendUnknownType, ReconcileNullifierInsertType
  DEF Recover

(* Every step of the pool, of the canisters it calls and of an upgrade     *)
(* keeps the types.                                                        *)
LEMMA NextType == TypeOK /\ [Next]_vars => TypeOK'
<1>. SUFFICES ASSUME TypeOK, [Next]_vars PROVE TypeOK'
  OBVIOUS
<1>1. ASSUME NEW t \in Tasks, NEW d \in Deposits, ShieldDeposit(t, d) PROVE TypeOK'
  BY <1>1, ShieldDepositType
<1>2. ASSUME NEW t \in Tasks, NEW s \in Spends, PrivateSpend(t, s) PROVE TypeOK'
  BY <1>2, PrivateSpendType
<1>3. ASSUME NEW t \in Tasks, NEW r \in Records, Recover(t, r) PROVE TypeOK'
  BY <1>3, RecoverType
<1>4. ASSUME NEW t \in Tasks, CallStep(t) \/ CallFailure(t) PROVE TypeOK'
  BY <1>4, CallStepType, CallFailureType
<1>5. ASSUME NEW o \in orphans, DeliverOrphan(o) \/ RejectOrphan(o) PROVE TypeOK'
  BY <1>5, OrphanStepType
<1>6. CASE ActivatePendingVk
  BY <1>6 DEF ActivatePendingVk, TypeOK, outside
<1>7. CASE UNCHANGED vars
  BY <1>7 DEF vars, pool, outside, TypeOK
<1>8. QED
  BY <1>1, <1>2, <1>3, <1>4, <1>5, <1>6, <1>7, UpgradeType DEF Next

(* Type correctness: whatever is called, fails or is upgraded, a call that *)
(* rests at an await works on a record of the kind that await is for, and  *)
(* the lease is free or carries an owner, a phase and a generation.        *)
THEOREM TypeCorrect == Spec => []TypeOK
<1>1. QED
  BY InitType, NextType, PTL DEF Spec

-----------------------------------------------------------------------------
(* The awaits at which a call relies on what the registry holds. *)
Critical == Guarding \cup {"recNull"}

LEMMA TaskUpdate ==
  ASSUME TypeOK, NEW t \in Tasks, NEW k, task' = [task EXCEPT ![t] = k]
  PROVE  task'[t] = k /\ \A u \in Tasks : u # t => task'[u] = task[u]
  BY DEF TypeOK

LEMMA StatusUpdate ==
  ASSUME TypeOK, NEW r \in Records, NEW st, SetStatus(r, st)
  PROVE  status'[r] = st /\ \A x \in Records : x # r => status'[x] = status[x]
  BY DEF SetStatus, TypeOK

LEMMA SpendTask ==
  ASSUME TypeOK, NEW t \in Tasks, task[t].pc \in Critical
  PROVE  task[t].id \in Spends /\ task[t].id \in Records
  BY TaskInfo DEF Critical, Guarding, Admitted

LEMMA SpendFacts ==
  /\ \A s \in Spends : s \in Records /\ s # NoRecord /\ Inputs[s] \subseteq Notes /\ Inputs[s] # {}
  /\ \A d \in Deposits : d \notin Spends
  BY RecordAssumption, DataAssumption DEF Records

(* A call that relies on the registry works alone on its spend, and the    *)
(* status of the spend says where it is.                                   *)
LEMMA CriticalStatus ==
  ASSUME TypeOK, NullifierInv, NEW t \in Tasks, task[t].pc \in Critical
  PROVE  /\ task[t].id \in Spends /\ task[t].id \in Records
         /\ status[task[t].id] = CASE task[t].pc = "insert" -> "OutputsStaged"
                                    [] task[t].pc = "recNull" -> "NullifierReconcileInFlight"
                                    [] OTHER -> "VerificationPending"
<1>1. CASE task[t].pc = "recNull"
  BY <1>1, SpendTask DEF NullifierInv, ReconcileInv, At
<1>2. CASE task[t].pc \in Guarding
  <2>1. task[t].pc # "recNull"
    BY <1>2 DEF Guarding, Admitted
  <2>2. QED
    BY <1>2, <2>1, SpendTask DEF NullifierInv, GuardInv, At
<1>3. QED
  BY <1>1, <1>2 DEF Critical

LEMMA AloneOnItsSpend ==
  ASSUME TypeOK, NullifierInv, NEW t \in Tasks, NEW u \in Tasks, u # t,
         task[t].pc \in Critical, task[u].pc \in Critical
  PROVE  task[u].id # task[t].id
<1>1. CASE task[t].pc \in Guarding /\ task[u].pc \in Guarding
  <2>1. task[t].guard = Inputs[task[t].id] /\ task[u].guard = Inputs[task[u].id]
        /\ task[u].guard \cap task[t].guard = {}
    BY <1>1 DEF NullifierInv, GuardInv
  <2>2. Inputs[task[t].id] # {}
    BY SpendTask, SpendFacts
  <2>3. QED
    BY <2>1, <2>2
<1>2. CASE task[t].pc = "recNull" /\ task[u].pc = "recNull"
  BY <1>2 DEF NullifierInv, ReconcileInv, At
<1>3. CASE task[t].pc = "recNull" <=> task[u].pc # "recNull"
  BY <1>3, CriticalStatus
<1>4. QED
  BY <1>1, <1>2, <1>3 DEF Critical

(* A step of the append protocol, or of a deposit: one call moves to an    *)
(* await that relies on nothing, and a spend only moves among the statuses *)
(* it reaches after its insert_batch.                                      *)
LEMMA AppendFrame ==
  ASSUME TypeOK, NullifierInv, NEW t \in Tasks,
         \A u \in Tasks : u # t => task'[u] = task[u],
         task'[t].pc \notin Critical,
         UNCHANGED <<inflight, spentBy, orphans>>,
         \A s \in Spends : status'[s] = status[s]
                           \/ (status[s] \in Committed /\ status'[s] \in Committed),
         (/\ task'[t].id \in Spends
          /\ task'[t].pc \in AppendPCs \cup {"spLeaf", "spCountHit", "spCountMiss", "spRest"})
             => status'[task'[t].id] \in Committed
  PROVE  NullifierInv'
<1>1. \A s \in Spends : /\ Reserved(s)' <=> Reserved(s)
                        /\ status'[s] \in Committed <=> status[s] \in Committed
                        /\ status[s] \notin Committed => status'[s] = status[s]
  BY DEF Reserved, ReservesNullifiers, Committed
<1>2. \A u \in Tasks : task'[u].pc \in Critical => u # t /\ task'[u] = task[u] /\ task[u].pc \in Critical
  OBVIOUS
<1>3. \A u \in Tasks : task[u].pc \in Critical =>
         task[u].id \in Spends /\ status[task[u].id] \notin Committed
  BY CriticalStatus DEF Committed
<1>4. \A u \in Tasks : task'[u].pc \in Critical => status'[task[u].id] = status[task[u].id]
  BY <1>1, <1>2, <1>3
<1>5. ReservationInv'
  BY <1>1 DEF NullifierInv, ReservationInv
<1>6. GuardInv'
  BY <1>2, <1>4 DEF NullifierInv, GuardInv, At, Critical
<1>7. AdmittedInv'
  BY <1>1, <1>2 DEF NullifierInv, AdmittedInv, At, Critical, Guarding, Admitted
<1>8. InsertInv'
  BY <1>2 DEF NullifierInv, InsertInv, At, Critical, Guarding
<1>9. OrphanInv'
  BY <1>1 DEF NullifierInv, OrphanInv, OrphanInsert, Committed
<1>10. ReconcileInv'
  BY <1>2, <1>4 DEF NullifierInv, ReconcileInv, At, Critical, OrphanInsert, Spent
<1>11. AppendInv'
  BY <1>1 DEF NullifierInv, AppendInv
<1>12. (OwnNullifiers /\ NoDoubleSpend /\ FailedSpendBurnsNothing)'
  BY <1>1 DEF NullifierInv, OwnNullifiers, NoDoubleSpend, FailedSpendBurnsNothing, Committed
<1>13. QED
  BY <1>5, <1>6, <1>7, <1>8, <1>9, <1>10, <1>11, <1>12 DEF NullifierInv

(* An admitted call ends before it reserved anything. *)
LEMMA AdmittedCloses ==
  ASSUME TypeOK, NullifierInv, NEW t \in Tasks, task[t].pc \in Admitted, Finish(t),
         NEW st \in {"Absent", "VerificationPending", "FailedBeforeStateChange"},
         SetStatus(task[t].id, st), UNCHANGED <<inflight, spentBy, orphans>>
  PROVE  NullifierInv'
<1>. DEFINE s == task[t].id
<1>1. s \in Spends /\ s \in Records /\ status[s] = "VerificationPending" /\ task[t].pc \in Critical
  BY CriticalStatus DEF Critical, Guarding, Admitted
<1>2. status'[s] = st /\ \A x \in Spends : x # s => status'[x] = status[x]
  BY <1>1, StatusUpdate, SpendFacts
<1>3. task'[t] = IdleTask /\ \A u \in Tasks : u # t => task'[u] = task[u]
  BY TaskUpdate DEF Finish
<1>4. \A u \in Tasks : task'[u].pc \in Critical \cup AppendPCs \cup SpendPCs
                          => u # t /\ task'[u] = task[u]
  BY <1>3 DEF Critical, Guarding, Admitted, IdleTask, Call, AppendPCs, SpendPCs
<1>5. \A u \in Tasks : task'[u].pc \in Critical =>
         task[u].id \in Spends /\ task[u].id # s /\ status'[task[u].id] = status[task[u].id]
  BY <1>1, <1>2, <1>4, AloneOnItsSpend, CriticalStatus
<1>6. \A x \in Spends : (Reserved(x)' <=> Reserved(x)) /\ (status'[x] \in Committed <=> status[x] \in Committed)
  BY <1>1, <1>2 DEF Reserved, ReservesNullifiers, Committed
<1>7. ReservationInv'
  BY <1>6 DEF NullifierInv, ReservationInv
<1>8. GuardInv'
  BY <1>4, <1>5 DEF NullifierInv, GuardInv, At, Critical
<1>9. AdmittedInv'
  BY <1>4, <1>6 DEF NullifierInv, AdmittedInv, At, Critical, Guarding
<1>10. InsertInv'
  BY <1>4 DEF NullifierInv, InsertInv, At, Critical, Guarding
<1>11. OrphanInv'
  BY <1>1, <1>2 DEF NullifierInv, OrphanInv, OrphanInsert
<1>12. ReconcileInv'
  BY <1>4, <1>5 DEF NullifierInv, ReconcileInv, At, Critical, OrphanInsert, Spent
<1>13. AppendInv'
  BY <1>4, <1>6 DEF NullifierInv, AppendInv, SpendPCs
<1>14. OwnNullifiers' /\ NoDoubleSpend'
  BY <1>6 DEF NullifierInv, OwnNullifiers, NoDoubleSpend
<1>15. FailedSpendBurnsNothing'
  BY <1>1, <1>2 DEF NullifierInv, FailedSpendBurnsNothing
<1>16. QED
  BY <1>7, <1>8, <1>9, <1>10, <1>11, <1>12, <1>13, <1>14, <1>15 DEF NullifierInv

(* AdmitSpend: the guard of every live call and every reservation is       *)
(* disjoint from the nullifiers of the spend it admits.                    *)
LEMMA AdmitKeeps ==
  ASSUME TypeOK, NullifierInv, NEW t \in Tasks, NEW s \in Spends, s = task[t].id,
         At(t, "admit"), status[s] = "Absent", GuardFree(s),
         SetStatus(s, "VerificationPending"), Proceed(t, "verify", Inputs[s]),
         UNCHANGED <<inflight, spentBy, orphans>>
  PROVE  NullifierInv'
<1>1. status'[s] = "VerificationPending" /\ \A x \in Spends : x # s => status'[x] = status[x]
  BY StatusUpdate, SpendFacts
<1>2. /\ task'[t].pc = "verify" /\ task'[t].id = s /\ task'[t].guard = Inputs[s]
      /\ \A u \in Tasks : u # t => task'[u] = task[u]
  <2>. DEFINE k == [task[t] EXCEPT !.pc = "verify", !.guard = Inputs[s]]
  <2>1. task' = [task EXCEPT ![t] = k] /\ task[t] \in TaskType
    BY TaskInfo DEF Proceed, TypeOK
  <2>2. k.pc = "verify" /\ k.id = s /\ k.guard = Inputs[s]
    BY <2>1 DEF TaskType
  <2>3. QED
    BY <2>1, <2>2, TaskUpdate
<1>3. \A u \in Tasks : u # t /\ task[u].pc \in Critical =>
         task[u].id \in Spends /\ task[u].id # s /\ status'[task[u].id] = status[task[u].id]
  BY <1>1, CriticalStatus
<1>4. \A x \in Spends : (Reserved(x)' <=> Reserved(x)) /\ (status'[x] \in Committed <=> status[x] \in Committed)
  BY <1>1 DEF Reserved, ReservesNullifiers, Committed
<1>5. \A u \in Tasks : task[u].guard \cap Inputs[s] = {}
  BY DEF GuardFree, VerifyPending
<1>6. \A r \in Spends : Reserved(r) => Inputs[r] \cap Inputs[s] = {}
  BY DEF NullifierInv, ReservationInv, GuardFree
<1>7. ReservationInv'
  BY <1>4 DEF NullifierInv, ReservationInv
<1>8. GuardInv'
  <2>1. ASSUME NEW u \in Tasks, task'[u].pc \in Guarding
        PROVE  /\ task'[u].guard = Inputs[task'[u].id]
               /\ status'[task'[u].id] = IF task'[u].pc = "insert" THEN "OutputsStaged"
                                                                  ELSE "VerificationPending"
    BY <1>1, <1>2, <1>3, <2>1 DEF NullifierInv, GuardInv, At, Critical
  <2>2. ASSUME NEW u \in Tasks, NEW v \in Tasks, u # v,
               task'[u].pc \in Guarding, task'[v].pc \in Guarding
        PROVE  task'[v].guard \cap task'[u].guard = {}
    BY <1>2, <1>5, <2>2 DEF NullifierInv, GuardInv
  <2>3. QED
    BY <2>1, <2>2 DEF GuardInv, At
<1>9. AdmittedInv'
  <2>1. ASSUME NEW u \in Tasks, u # t, task'[u].pc \in Admitted
        PROVE  task'[u] = task[u] /\ task[u].pc \in Admitted
    BY <1>2, <2>1
  <2>2. QED
    BY <1>2, <1>4, <1>6, <2>1 DEF NullifierInv, AdmittedInv, At
<1>10. InsertInv'
  BY <1>2 DEF NullifierInv, InsertInv, At
<1>11. OrphanInv'
  BY <1>1 DEF NullifierInv, OrphanInv, OrphanInsert
<1>12. ReconcileInv'
  BY <1>2, <1>3 DEF NullifierInv, ReconcileInv, At, Critical, OrphanInsert, Spent
<1>13. AppendInv'
  BY <1>2, <1>4 DEF NullifierInv, AppendInv, AppendPCs
<1>14. OwnNullifiers' /\ NoDoubleSpend'
  BY <1>4 DEF NullifierInv, OwnNullifiers, NoDoubleSpend
<1>15. FailedSpendBurnsNothing'
  BY <1>1 DEF NullifierInv, FailedSpendBurnsNothing
<1>16. QED
  BY <1>7, <1>8, <1>9, <1>10, <1>11, <1>12, <1>13, <1>14, <1>15 DEF NullifierInv

(* An admitted call moves on to its next await: only its own view of the   *)
(* registry has to be re-established.                                      *)
LEMMA AdmittedMoves ==
  ASSUME TypeOK, NullifierInv, NEW t \in Tasks, task[t].pc \in Admitted,
         task'[t].pc \in Admitted, task'[t].id = task[t].id, task'[t].guard = task[t].guard,
         \A u \in Tasks : u # t => task'[u] = task[u],
         UNCHANGED <<status, inflight, spentBy, orphans>>,
         task'[t].pc = "recheck" =>
            \A n \in Inputs[task[t].id] \ (task'[t].todo \cup task'[t].seen) : spentBy[n] = NoRecord,
         task'[t].pc = "commit" => \A n \in Inputs[task[t].id] : spentBy[n] = NoRecord
  PROVE  NullifierInv'
<1>1. \A u \in Tasks : /\ task'[u].pc \in Guarding <=> task[u].pc \in Guarding
                       /\ task'[u].pc \in Admitted <=> task[u].pc \in Admitted
                       /\ task'[u].pc = "insert" <=> task[u].pc = "insert"
                       /\ task'[u].id = task[u].id /\ task'[u].guard = task[u].guard
  BY DEF Guarding, Admitted
<1>2. ReservationInv' /\ OrphanInv'
  BY DEF NullifierInv, ReservationInv, OrphanInv, OrphanInsert, Reserved
<1>3. GuardInv'
  BY <1>1 DEF NullifierInv, GuardInv, At
<1>4. AdmittedInv'
  <2>1. ASSUME NEW u \in Tasks, task'[u].pc \in Admitted
        PROVE  \A r \in Spends : Reserved(r)' => Inputs[r] \cap Inputs[task'[u].id] = {}
    BY <1>1, <2>1 DEF NullifierInv, AdmittedInv, Reserved
  <2>2. ASSUME NEW u \in Tasks, u # t, task'[u].pc \in Admitted
        PROVE  /\ At(u, "recheck")' => \A n \in Inputs[task'[u].id] \ (task'[u].todo \cup task'[u].seen) :
                                           spentBy'[n] = NoRecord
               /\ At(u, "commit")' => \A n \in Inputs[task'[u].id] : spentBy'[n] = NoRecord
    BY <2>2 DEF NullifierInv, AdmittedInv, At
  <2>3. QED
    BY <2>1, <2>2 DEF AdmittedInv, At
<1>5. InsertInv'
  BY DEF NullifierInv, InsertInv, At, Admitted
<1>6. ReconcileInv'
  BY DEF NullifierInv, ReconcileInv, At, Admitted, OrphanInsert, Spent
<1>7. AppendInv'
  BY DEF NullifierInv, AppendInv, AppendPCs, Admitted
<1>8. (OwnNullifiers /\ NoDoubleSpend /\ FailedSpendBurnsNothing)'
  BY DEF NullifierInv, OwnNullifiers, NoDoubleSpend, FailedSpendBurnsNothing
<1>9. QED
  BY <1>2, <1>3, <1>4, <1>5, <1>6, <1>7, <1>8 DEF NullifierInv

LEMMA VerifierAcceptsKeeps ==
  ASSUME TypeOK, NullifierInv, NEW t \in Tasks, VerifierAccepts(t)
  PROVE  NullifierInv'
<1>. DEFINE k == QueryCall("recheck", task[t].id, Inputs[task[t].id], task[t].guard, 0, task[t].epoch)
<1>1. task' = [task EXCEPT ![t] = k]
  BY DEF VerifierAccepts, Await
<1>2. k.pc = "recheck" /\ k.id = task[t].id /\ k.guard = task[t].guard /\ k.todo = Inputs[task[t].id]
  BY DEF QueryCall, Call
<1>3. QED
  BY <1>1, <1>2, TaskUpdate, AdmittedMoves DEF VerifierAccepts, At, Admitted, pool, outside

LEMMA RecheckPassesKeeps ==
  ASSUME TypeOK, NullifierInv, NEW t \in Tasks, RecheckPasses(t)
  PROVE  NullifierInv'
<1>. DEFINE k == [task[t] EXCEPT !.pc = "commit", !.guard = task[t].guard]
<1>1. task' = [task EXCEPT ![t] = k] /\ task[t] \in TaskType
  BY TaskInfo DEF RecheckPasses, Proceed, TypeOK
<1>2. k.pc = "commit" /\ k.id = task[t].id /\ k.guard = task[t].guard
  BY <1>1 DEF TaskType
<1>3. \A n \in Inputs[task[t].id] : spentBy[n] = NoRecord
  BY DEF RecheckPasses, NullifierInv, AdmittedInv, At, Admitted
<1>4. QED
  BY <1>1, <1>2, <1>3, TaskUpdate, AdmittedMoves DEF RecheckPasses, At, Admitted, pool, outside

(* CommitSpend: the guard becomes a reservation, with the registry still   *)
(* free of every nullifier of the spend.                                   *)
LEMMA CommitReserves ==
  ASSUME TypeOK, NullifierInv, NEW t \in Tasks, NEW s \in Spends, s = task[t].id,
         At(t, "commit"), inflight' = inflight \cup Inputs[s],
         SetStatus(s, "OutputsStaged"), Await(t, Call("insert", s, 0, task[t].guard)),
         UNCHANGED <<spentBy, orphans>>
  PROVE  NullifierInv'
<1>. DEFINE k == Call("insert", s, 0, task[t].guard)
<1>1. /\ status[s] = "VerificationPending" /\ task[t].guard = Inputs[s]
      /\ \A n \in Inputs[s] : spentBy[n] = NoRecord
      /\ \A r \in Spends : Reserved(r) => Inputs[r] \cap Inputs[s] = {}
      /\ \A n \in Notes : spentBy[n] # s
  BY DEF NullifierInv, GuardInv, AdmittedInv, FailedSpendBurnsNothing, At, Guarding, Admitted
<1>2. status'[s] = "OutputsStaged" /\ \A x \in Spends : x # s => status'[x] = status[x]
  BY StatusUpdate, SpendFacts
<1>3. task'[t] = k /\ \A u \in Tasks : u # t => task'[u] = task[u]
  BY TaskUpdate DEF Await
<1>4. k.pc = "insert" /\ k.id = s /\ k.guard = Inputs[s] /\ k.reply = "none"
  BY <1>1 DEF Call
<1>5. \A u \in Tasks : u # t /\ task[u].pc \in Critical =>
         task[u].id \in Spends /\ task[u].id # s /\ status'[task[u].id] = status[task[u].id]
  BY <1>2, AloneOnItsSpend, CriticalStatus DEF At, Critical, Guarding, Admitted
<1>6. \A u \in Tasks : u # t /\ task[u].pc \in Guarding =>
         task[u].guard = Inputs[task[u].id] /\ Inputs[task[u].id] \cap Inputs[s] = {}
  BY <1>1 DEF NullifierInv, GuardInv, At, Guarding, Admitted
<1>7. \A x \in Spends : x # s => (Reserved(x)' <=> Reserved(x))
  BY <1>2 DEF Reserved
<1>8. \A x \in Spends : status'[x] \in Committed <=> status[x] \in Committed
  BY <1>1, <1>2 DEF Committed
<1>9. ReservationInv'
  <2>1. ASSUME NEW x \in Spends, Reserved(x)'
        PROVE  /\ Inputs[x] \subseteq inflight'
               /\ \A n \in Inputs[x] : spentBy'[n] \in {NoRecord, x}
    <3>1. CASE x = s
      BY <1>1, <3>1
    <3>2. CASE x # s
      BY <1>7, <2>1, <3>2 DEF NullifierInv, ReservationInv
    <3>3. QED
      BY <3>1, <3>2
  <2>2. ASSUME NEW x \in Spends, NEW y \in Spends, x # y, Reserved(x)', Reserved(y)'
        PROVE  Inputs[y] \cap Inputs[x] = {}
    <3>1. CASE x = s \/ y = s
      BY <1>1, <1>7, <2>2, <3>1
    <3>2. CASE x # s /\ y # s
      BY <1>7, <2>2, <3>2 DEF NullifierInv, ReservationInv
    <3>3. QED
      BY <3>1, <3>2
  <2>3. QED
    BY <2>1, <2>2 DEF ReservationInv
<1>10. GuardInv'
  <2>1. ASSUME NEW u \in Tasks, task'[u].pc \in Guarding
        PROVE  /\ task'[u].guard = Inputs[task'[u].id]
               /\ status'[task'[u].id] = IF task'[u].pc = "insert" THEN "OutputsStaged"
                                                                  ELSE "VerificationPending"
    BY <1>2, <1>3, <1>4, <1>5, <2>1 DEF NullifierInv, GuardInv, At, Critical
  <2>2. ASSUME NEW u \in Tasks, NEW v \in Tasks, u # v,
               task'[u].pc \in Guarding, task'[v].pc \in Guarding
        PROVE  task'[v].guard \cap task'[u].guard = {}
    <3>1. CASE u = t \/ v = t
      BY <1>3, <1>4, <1>6, <2>2, <3>1
    <3>2. CASE u # t /\ v # t
      BY <1>3, <2>2, <3>2 DEF NullifierInv, GuardInv
    <3>3. QED
      BY <3>1, <3>2
  <2>3. QED
    BY <2>1, <2>2 DEF GuardInv, At
<1>11. AdmittedInv'
  <2>1. ASSUME NEW u \in Tasks, task'[u].pc \in Admitted
        PROVE  u # t /\ task'[u] = task[u] /\ task[u].pc \in Admitted
    BY <1>3, <1>4, <2>1 DEF Admitted
  <2>2. ASSUME NEW u \in Tasks, task'[u].pc \in Admitted, NEW r \in Spends, Reserved(r)'
        PROVE  Inputs[r] \cap Inputs[task'[u].id] = {}
    <3>1. CASE r = s
      BY <1>6, <2>1, <2>2, <3>1 DEF Guarding
    <3>2. CASE r # s
      BY <1>7, <2>1, <2>2, <3>2 DEF NullifierInv, AdmittedInv
    <3>3. QED
      BY <3>1, <3>2
  <2>3. QED
    BY <2>1, <2>2 DEF NullifierInv, AdmittedInv, At
<1>12. InsertInv'
  BY <1>1, <1>3, <1>4 DEF NullifierInv, InsertInv, At
<1>13. OrphanInv'
  BY <1>1, <1>2 DEF NullifierInv, OrphanInv, OrphanInsert
<1>14. ReconcileInv'
  BY <1>3, <1>4, <1>5 DEF NullifierInv, ReconcileInv, At, Critical, OrphanInsert, Spent
<1>15. AppendInv'
  BY <1>3, <1>4, <1>8 DEF NullifierInv, AppendInv, AppendPCs
<1>16. OwnNullifiers' /\ NoDoubleSpend'
  BY <1>8 DEF NullifierInv, OwnNullifiers, NoDoubleSpend
<1>17. FailedSpendBurnsNothing'
  BY <1>2 DEF NullifierInv, FailedSpendBurnsNothing
<1>18. QED
  BY <1>9, <1>10, <1>11, <1>12, <1>13, <1>14, <1>15, <1>16, <1>17 DEF NullifierInv

LEMMA CommitSpendKeeps ==
  ASSUME TypeOK, NullifierInv, NEW t \in Tasks, CommitSpend(t)
  PROVE  NullifierInv'
<1>1. task[t].id \in Spends /\ task[t].pc \in Admitted
  BY TaskInfo DEF CommitSpend, At, Admitted
<1>2. CASE Inputs[task[t].id] \cap inflight = {}
  BY <1>1, <1>2, CommitReserves DEF CommitSpend, outside
<1>3. CASE Inputs[task[t].id] \cap inflight # {}
  BY <1>1, <1>3, AdmittedCloses DEF CommitSpend, outside
<1>4. QED
  BY <1>2, <1>3

(* What a batch that enters the registry does: its nullifiers were nobody  *)
(* else's, and no live call or other spend relied on their being fresh.    *)
LEMMA BatchWritten ==
  ASSUME TypeOK, NullifierInv, NEW s \in Spends, Reserved(s), Fresh(s),
         spentBy' = Inserted(s), UNCHANGED <<status, inflight>>
  PROVE  /\ \A n \in Notes : spentBy'[n] = IF n \in Inputs[s] THEN s ELSE spentBy[n]
         /\ \A n \in Inputs[s] : spentBy[n] = NoRecord
         /\ Spent \subseteq Spent'
         /\ \A x \in Spends : Reserved(x)' <=> Reserved(x)
         /\ (ReservationInv /\ OwnNullifiers /\ NoDoubleSpend /\ FailedSpendBurnsNothing)'
<1>1. \A n \in Notes : spentBy'[n] = IF n \in Inputs[s] THEN s ELSE spentBy[n]
  BY DEF Inserted
<1>2. \A n \in Inputs[s] : n \in Notes /\ spentBy[n] = NoRecord
  BY SpendFacts DEF Fresh, Spent
<1>3. \A x \in Spends : Reserved(x)' <=> Reserved(x)
  BY DEF Reserved
<1>4. Spent \subseteq Spent'
  BY <1>1, <1>2, SpendFacts DEF Spent
<1>5. ReservationInv'
  <2>1. ASSUME NEW x \in Spends, Reserved(x), NEW n \in Inputs[x]
        PROVE  spentBy'[n] \in {NoRecord, x}
    <3>1. n \in Notes /\ spentBy[n] \in {NoRecord, x}
      BY <2>1, SpendFacts DEF NullifierInv, ReservationInv
    <3>2. n \in Inputs[s] => x = s
      BY <2>1 DEF NullifierInv, ReservationInv
    <3>3. QED
      BY <1>1, <3>1, <3>2
  <2>2. QED
    BY <1>3, <2>1 DEF NullifierInv, ReservationInv
<1>6. OwnNullifiers'
  BY <1>1 DEF NullifierInv, OwnNullifiers
<1>7. NoDoubleSpend'
  <2>1. ASSUME NEW x \in Spends, status[x] \in Committed, NEW n \in Inputs[x]
        PROVE  spentBy'[n] = x
    <3>1. n \in Notes /\ spentBy[n] = x /\ x # NoRecord
      BY <2>1, SpendFacts DEF NullifierInv, NoDoubleSpend
    <3>2. QED
      BY <1>1, <1>2, <3>1
  <2>2. QED
    BY <2>1 DEF NoDoubleSpend
<1>8. FailedSpendBurnsNothing'
  <2>1. status[s] \notin {"Absent", "VerificationPending", "FailedBeforeStateChange",
                         "FailedAfterOutputsStaged"}
    BY DEF Reserved, ReservesNullifiers
  <2>2. QED
    BY <1>1, <2>1 DEF NullifierInv, FailedSpendBurnsNothing
<1>9. QED
  BY <1>1, <1>2, <1>3, <1>4, <1>5, <1>6, <1>7, <1>8

(* The calls at their awaits see what they relied on, after the batch of s. *)
LEMMA BatchHarmless ==
  ASSUME TypeOK, NullifierInv, NEW s \in Spends, Reserved(s), Fresh(s),
         spentBy' = Inserted(s), UNCHANGED <<status, inflight>>,
         NEW u \in Tasks, task'[u] = task[u]
  PROVE  /\ task[u].pc \in Admitted => \A n \in Inputs[task[u].id] : spentBy'[n] = spentBy[n]
         /\ task[u].pc = "recNull" => task[u].seen \subseteq Spent'
         /\ task[u].pc \in Critical /\ task[u].id # s =>
               /\ \A n \in Notes : spentBy'[n] = task[u].id => spentBy[n] = task[u].id
               /\ \A n \in Inputs[task[u].id] : spentBy[n] = task[u].id => spentBy'[n] = task[u].id
<1>1. /\ \A n \in Notes : spentBy'[n] = IF n \in Inputs[s] THEN s ELSE spentBy[n]
      /\ \A n \in Inputs[s] : spentBy[n] = NoRecord
      /\ Spent \subseteq Spent'
  BY BatchWritten
<1>2. ASSUME task[u].pc \in Admitted, NEW n \in Inputs[task[u].id]
      PROVE  spentBy'[n] = spentBy[n]
  <2>1. task[u].id \in Spends
    BY <1>2, SpendTask DEF Critical, Guarding
  <2>2. n \in Notes /\ n \notin Inputs[s]
    BY <1>2, <2>1, SpendFacts DEF NullifierInv, AdmittedInv
  <2>3. QED
    BY <1>1, <2>2
<1>3. task[u].pc = "recNull" => task[u].seen \subseteq Spent'
  BY <1>1 DEF NullifierInv, ReconcileInv, At
<1>4. ASSUME task[u].pc \in Critical, task[u].id # s
      PROVE  /\ \A n \in Notes : spentBy'[n] = task[u].id => spentBy[n] = task[u].id
             /\ \A n \in Inputs[task[u].id] : spentBy[n] = task[u].id => spentBy'[n] = task[u].id
  <2>1. task[u].id \in Spends /\ task[u].id # NoRecord /\ Inputs[task[u].id] \subseteq Notes
    BY <1>4, SpendTask, SpendFacts
  <2>2. QED
    BY <1>1, <1>4, <2>1
<1>5. QED
  BY <1>2, <1>3, <1>4

LEMMA RegistryInsertKeeps ==
  ASSUME TypeOK, NullifierInv, NEW t \in Tasks, RegistryInsert(t)
  PROVE  NullifierInv'
<1>. DEFINE s == task[t].id
<1>1. /\ task[t].pc = "insert" /\ s \in Spends /\ status[s] = "OutputsStaged"
      /\ task[t].pc \in Critical /\ task[t].reply = "none" /\ task[t] \in TaskType
  BY CriticalStatus, TaskInfo DEF RegistryInsert, At, Critical, Guarding
<1>2. PICK r \in {"ok", "err"} :
         /\ Answer(t, r)
         /\ IF r = "ok" THEN Fresh(s) /\ spentBy' = Inserted(s) ELSE UNCHANGED spentBy
  BY DEF RegistryInsert
<1>3. /\ task'[t].pc = "insert" /\ task'[t].id = s /\ task'[t].guard = task[t].guard
      /\ task'[t].reply = r /\ \A u \in Tasks : u # t => task'[u] = task[u]
  <2>. DEFINE k == [task[t] EXCEPT !.reply = r]
  <2>1. task' = [task EXCEPT ![t] = k]
    BY <1>2 DEF Answer
  <2>2. k.pc = "insert" /\ k.id = s /\ k.guard = task[t].guard /\ k.reply = r
    BY <1>1 DEF TaskType
  <2>3. QED
    BY <2>1, <2>2, TaskUpdate
<1>4. UNCHANGED <<status, inflight, orphans>>
  BY DEF RegistryInsert, pool
<1>5. \A u \in Tasks : u # t /\ task[u].pc \in Critical => task[u].id # s /\ task[u].id \in Spends
  BY <1>1, AloneOnItsSpend, SpendTask
<1>6. Reserved(s)
  BY <1>1 DEF Reserved, ReservesNullifiers
<1>7. (ReservationInv /\ OwnNullifiers /\ NoDoubleSpend /\ FailedSpendBurnsNothing)'
  <2>1. CASE r = "ok"
    BY <1>1, <1>2, <1>4, <1>6, <2>1, BatchWritten
  <2>2. CASE r = "err"
    BY <1>2, <1>4, <2>2 DEF NullifierInv, ReservationInv, OwnNullifiers, NoDoubleSpend,
       FailedSpendBurnsNothing, Reserved
  <2>3. QED
    BY <2>1, <2>2
<1>8. GuardInv'
  BY <1>1, <1>3, <1>4 DEF NullifierInv, GuardInv, At
<1>9. \A u \in Tasks : u # t =>
         /\ task[u].pc \in Admitted => \A n \in Inputs[task[u].id] : spentBy'[n] = spentBy[n]
         /\ task[u].pc = "recNull" => task[u].seen \subseteq Spent'
         /\ task[u].pc \in Critical =>
               /\ \A n \in Notes : spentBy'[n] = task[u].id => spentBy[n] = task[u].id
               /\ \A n \in Inputs[task[u].id] : spentBy[n] = task[u].id => spentBy'[n] = task[u].id
  <2>1. CASE r = "ok"
    BY <1>1, <1>2, <1>3, <1>4, <1>5, <1>6, <2>1, BatchHarmless
  <2>2. CASE r = "err"
    BY <1>2, <2>2 DEF NullifierInv, ReconcileInv, Spent, At
  <2>3. QED
    BY <2>1, <2>2
<1>10. AdmittedInv'
  <2>1. ASSUME NEW u \in Tasks, task'[u].pc \in Admitted
        PROVE  u # t /\ task'[u] = task[u] /\ task[u].pc \in Admitted
    BY <1>3, <2>1 DEF Admitted
  <2>2. QED
    BY <1>4, <1>9, <2>1 DEF NullifierInv, AdmittedInv, At, Reserved
<1>11. InsertInv'
  <2>1. IF r = "ok" THEN \A n \in Inputs[s] : spentBy'[n] = s ELSE \A n \in Notes : spentBy'[n] # s
    <3>1. CASE r = "ok"
      BY <1>1, <1>2, <3>1, SpendFacts DEF Inserted
    <3>2. CASE r = "err"
      BY <1>1, <1>2, <3>2 DEF NullifierInv, InsertInv, At
    <3>3. QED
      BY <3>1, <3>2
  <2>2. QED
    BY <1>3, <1>5, <1>9, <2>1 DEF NullifierInv, InsertInv, At, Critical, Guarding
<1>12. OrphanInv'
  BY <1>4 DEF NullifierInv, OrphanInv, OrphanInsert
<1>13. ReconcileInv'
  <2>1. ASSUME NEW u \in Tasks, task'[u].pc = "recNull"
        PROVE  u # t /\ task'[u] = task[u] /\ task[u].pc = "recNull" /\ task[u].pc \in Critical
               /\ task[u].id \in Spends
    BY <1>3, <1>5, <2>1 DEF Critical
  <2>2. ASSUME NEW u \in Tasks, task'[u].pc = "recNull"
        PROVE  /\ task'[u].seen \subseteq Spent'
               /\ \A n \in Inputs[task'[u].id] \ (task'[u].todo \cup task'[u].seen) :
                     spentBy'[n] # task'[u].id
    <3>1. /\ task'[u] = task[u] /\ task[u].pc = "recNull" /\ task[u].pc \in Critical /\ u # t
          /\ Inputs[task[u].id] \subseteq Notes
      BY <2>1, <2>2, SpendFacts
    <3>2. \A n \in Inputs[task[u].id] \ (task[u].todo \cup task[u].seen) : spentBy[n] # task[u].id
      BY <3>1 DEF NullifierInv, ReconcileInv, At
    <3>3. QED
      BY <1>9, <3>1, <3>2
  <2>3. QED
    BY <1>4, <2>1, <2>2 DEF NullifierInv, ReconcileInv, At, OrphanInsert
<1>14. AppendInv'
  BY <1>3, <1>4 DEF NullifierInv, AppendInv, AppendPCs
<1>15. QED
  BY <1>7, <1>8, <1>10, <1>11, <1>12, <1>13, <1>14 DEF NullifierInv

(* A request of an earlier life reaches the registry: its spend still      *)
(* waits for the outcome, and nobody has read the registry for it yet.     *)
LEMMA OrphanStepKeeps ==
  ASSUME TypeOK, NullifierInv, NEW o \in orphans, DeliverOrphan(o) \/ RejectOrphan(o)
  PROVE  NullifierInv'
<1>1. UNCHANGED <<pool, task>> /\ orphans' \subseteq orphans
  BY DEF DeliverOrphan, RejectOrphan
<1>2. UNCHANGED <<status, inflight>>
  BY <1>1 DEF pool
<1>3. CASE o.kind = "insert" /\ Fresh(o.id) /\ spentBy' = Inserted(o.id)
  <2>. DEFINE s == o.id
  <2>1. s \in Spends /\ OrphanInsert(s)
    <3>1. o \in OrphanType
      BY DEF TypeOK
    <3>2. s \in Spends /\ o = [kind |-> "insert", id |-> s]
      BY <1>3, <3>1 DEF OrphanType
    <3>3. QED
      BY <3>2 DEF OrphanInsert
  <2>2. status[s] \in {"NullifierInsertUnknown", "NullifierReconcileInFlight"}
    BY <2>1 DEF NullifierInv, OrphanInv
  <2>3. Reserved(s)
    BY <2>2 DEF Reserved, ReservesNullifiers
  <2>4. /\ \A x \in Spends : Reserved(x)' <=> Reserved(x)
        /\ Spent \subseteq Spent'
        /\ (ReservationInv /\ OwnNullifiers /\ NoDoubleSpend /\ FailedSpendBurnsNothing)'
    BY <1>2, <1>3, <2>1, <2>3, BatchWritten
  <2>5. \A u \in Tasks :
           /\ task[u].pc \in Admitted => \A n \in Inputs[task[u].id] : spentBy'[n] = spentBy[n]
           /\ task[u].pc = "recNull" => task[u].seen \subseteq Spent'
           /\ task[u].pc \in Critical /\ task[u].id # s =>
                 /\ \A n \in Notes : spentBy'[n] = task[u].id => spentBy[n] = task[u].id
                 /\ \A n \in Inputs[task[u].id] : spentBy[n] = task[u].id => spentBy'[n] = task[u].id
    BY <1>1, <1>2, <1>3, <2>1, <2>3, BatchHarmless
  <2>6. GuardInv' /\ AppendInv'
    BY <1>1, <1>2 DEF NullifierInv, GuardInv, AppendInv, At
  <2>7. AdmittedInv'
    BY <1>1, <2>4, <2>5 DEF NullifierInv, AdmittedInv, At
  <2>8. InsertInv'
    <3>1. \A u \in Tasks : task[u].pc = "insert" => task[u].id # s /\ task[u].pc \in Critical
      BY <2>2, CriticalStatus DEF Critical, Guarding
    <3>2. QED
      BY <1>1, <2>5, <3>1 DEF NullifierInv, InsertInv, At
  <2>9. OrphanInv'
    BY <1>1, <1>2 DEF NullifierInv, OrphanInv, OrphanInsert
  <2>10. ReconcileInv'
    <3>1. ASSUME NEW u \in Tasks, task[u].pc = "recNull"
          PROVE  \A n \in Inputs[task[u].id] \ (task[u].todo \cup task[u].seen) : spentBy'[n] # task[u].id
      <4>1. CASE task[u].id = s
        BY <2>1, <3>1, <4>1 DEF NullifierInv, ReconcileInv, At
      <4>2. CASE task[u].id # s
        <5>1. task[u].pc \in Critical /\ Inputs[task[u].id] \subseteq Notes
          BY <3>1, SpendTask, SpendFacts DEF Critical
        <5>2. \A n \in Inputs[task[u].id] \ (task[u].todo \cup task[u].seen) : spentBy[n] # task[u].id
          BY <3>1 DEF NullifierInv, ReconcileInv, At
        <5>3. QED
          BY <2>5, <4>2, <5>1, <5>2
      <4>3. QED
        BY <4>1, <4>2
    <3>2. ASSUME NEW u \in Tasks, task[u].pc = "recNull", task[u].todo # Inputs[task[u].id]
          PROVE  ~OrphanInsert(task[u].id)'
      BY <1>1, <3>2 DEF NullifierInv, ReconcileInv, At, OrphanInsert
    <3>3. QED
      BY <1>1, <1>2, <2>5, <3>1, <3>2 DEF NullifierInv, ReconcileInv, At
  <2>11. QED
    BY <2>4, <2>6, <2>7, <2>8, <2>9, <2>10 DEF NullifierInv
<1>4. CASE UNCHANGED spentBy
  <2>1. ReservationInv' /\ GuardInv' /\ AdmittedInv' /\ InsertInv'
    BY <1>1, <1>2, <1>4 DEF NullifierInv, ReservationInv, GuardInv, AdmittedInv, InsertInv, At, Reserved
  <2>2. OrphanInv' /\ AppendInv'
    BY <1>1, <1>2 DEF NullifierInv, OrphanInv, AppendInv, OrphanInsert
  <2>3. ReconcileInv'
    BY <1>1, <1>2, <1>4 DEF NullifierInv, ReconcileInv, At, OrphanInsert, Spent
  <2>4. (OwnNullifiers /\ NoDoubleSpend /\ FailedSpendBurnsNothing)'
    BY <1>2, <1>4 DEF NullifierInv, OwnNullifiers, NoDoubleSpend, FailedSpendBurnsNothing
  <2>5. QED
    BY <2>1, <2>2, <2>3, <2>4 DEF NullifierInv
<1>5. QED
  BY <1>3, <1>4 DEF DeliverOrphan, RejectOrphan

(* The outcome of an insert_batch is known: the reservation goes, and the  *)
(* spend is committed or failed as the registry says.                      *)
LEMMA OutcomeKnown ==
  ASSUME TypeOK, NullifierInv, NEW t \in Tasks, task[t].pc \in {"insert", "recNull"},
         NEW s \in Spends, s = task[t].id, ~OrphanInsert(s),
         NEW st, SetStatus(s, st), inflight' = inflight \ Inputs[s],
         \A u \in Tasks : u # t => task'[u] = task[u],
         UNCHANGED <<spentBy, orphans>>,
         \/ /\ st = "NullifierFinalizedOutputsPending"
            /\ \A n \in Inputs[s] : spentBy[n] = s
            /\ task'[t].id \in {s, NoRecord} /\ task'[t].pc \in {"snapshot", "idle"}
         \/ /\ st = "FailedAfterOutputsStaged"
            /\ \A n \in Notes : spentBy[n] # s
            /\ task'[t].id = NoRecord /\ task'[t].pc = "idle"
  PROVE  NullifierInv'
<1>1. /\ task[t].pc \in Critical
      /\ status[s] \in {"OutputsStaged", "NullifierReconcileInFlight"}
      /\ Reserved(s)
  BY CriticalStatus DEF Critical, Guarding, Reserved, ReservesNullifiers
<1>2. status'[s] = st /\ \A x \in Spends : x # s => status'[x] = status[x]
  BY StatusUpdate, SpendFacts
<1>3. task'[t].pc \notin Critical
  BY DEF Critical, Guarding, Admitted
<1>4. \A u \in Tasks : task'[u].pc \in Critical =>
         /\ u # t /\ task'[u] = task[u] /\ task[u].id \in Spends
         /\ task[u].id # s /\ status'[task[u].id] = status[task[u].id]
  BY <1>1, <1>2, <1>3, AloneOnItsSpend, SpendTask
<1>5. \A x \in Spends : Reserved(x)' <=> (x # s /\ Reserved(x))
  BY <1>2 DEF Reserved, ReservesNullifiers
<1>6. ReservationInv'
  BY <1>1, <1>5 DEF NullifierInv, ReservationInv
<1>7. GuardInv'
  BY <1>4 DEF NullifierInv, GuardInv, At, Critical
<1>8. AdmittedInv'
  BY <1>4, <1>5 DEF NullifierInv, AdmittedInv, At, Critical, Guarding
<1>9. InsertInv'
  BY <1>4 DEF NullifierInv, InsertInv, At, Critical, Guarding
<1>10. OrphanInv'
  BY <1>2 DEF NullifierInv, OrphanInv, OrphanInsert
<1>11. ReconcileInv'
  BY <1>4 DEF NullifierInv, ReconcileInv, At, Critical, OrphanInsert, Spent
<1>12. AppendInv'
  <2>1. ASSUME NEW u \in Tasks, task'[u].id \in Spends,
               task'[u].pc \in AppendPCs \cup {"spLeaf", "spCountHit", "spCountMiss", "spRest"}
        PROVE  status'[task'[u].id] \in Committed
    <3>1. CASE u = t
      BY <1>2, <2>1, <3>1, SpendFacts DEF Committed, AppendPCs
    <3>2. CASE u # t
      BY <1>1, <1>2, <2>1, <3>2 DEF NullifierInv, AppendInv, Committed
    <3>3. QED
      BY <3>1, <3>2
  <2>2. QED
    BY <2>1 DEF AppendInv
<1>13. OwnNullifiers'
  BY DEF NullifierInv, OwnNullifiers
<1>14. NoDoubleSpend'
  BY <1>2 DEF NullifierInv, NoDoubleSpend, Committed
<1>15. FailedSpendBurnsNothing'
  BY <1>2 DEF NullifierInv, FailedSpendBurnsNothing
<1>16. QED
  BY <1>6, <1>7, <1>8, <1>9, <1>10, <1>11, <1>12, <1>13, <1>14, <1>15 DEF NullifierInv

LEMMA AcquireMoves ==
  ASSUME TypeOK, NEW t \in Tasks, NEW r \in Records, AcquireAndSnapshot(t, r)
  PROVE  /\ \A u \in Tasks : u # t => task'[u] = task[u]
         /\ \/ task'[t].pc = "snapshot" /\ task'[t].id = r
            \/ task'[t].pc = "idle" /\ task'[t].id = NoRecord
<1>1. \/ task' = [task EXCEPT ![t] = Call("snapshot", r, nextGen, task[t].guard)]
      \/ task' = [task EXCEPT ![t] = IdleTask]
  BY DEF AcquireAndSnapshot, Await, Finish
<1>2. QED
  BY <1>1, TaskUpdate DEF Call, IdleTask

LEMMA FinishMoves ==
  ASSUME TypeOK, NEW t \in Tasks, Finish(t)
  PROVE  /\ \A u \in Tasks : u # t => task'[u] = task[u]
         /\ task'[t].pc = "idle" /\ task'[t].id = NoRecord
<1>1. task'[t] = IdleTask /\ \A u \in Tasks : u # t => task'[u] = task[u]
  BY TaskUpdate DEF Finish
<1>2. QED
  BY <1>1 DEF IdleTask, Call

LEMMA OutcomeKnownKeeps ==
  ASSUME TypeOK, NullifierInv, NEW t \in Tasks,
         \/ NullifierInserted(t) \/ InsertRejected(t)
         \/ ReconciledCommitted(t) \/ ReconciledNotCommitted(t)
  PROVE  NullifierInv'
<1>. DEFINE s == task[t].id
<1>1. /\ task[t].pc \in {"insert", "recNull"} /\ s \in Spends /\ s \in Records /\ s # NoRecord
      /\ Inputs[s] # {} /\ Inputs[s] \subseteq Notes
  BY TaskInfo, SpendFacts
  DEF NullifierInserted, InsertRejected, ReconciledCommitted, ReconciledNotCommitted, At
<1>2. ~OrphanInsert(s)
  <2>1. CASE task[t].pc = "insert"
    <3>1. status[s] = "OutputsStaged"
      BY <2>1, CriticalStatus DEF Critical, Guarding
    <3>2. QED
      BY <1>1, <3>1 DEF NullifierInv, OrphanInv
  <2>2. CASE task[t].pc = "recNull"
    <3>1. task[t].todo = {}
      BY <2>2 DEF NullifierInserted, InsertRejected, ReconciledCommitted, ReconciledNotCommitted, At
    <3>2. QED
      BY <1>1, <2>2, <3>1 DEF NullifierInv, ReconcileInv, At
  <2>3. QED
    BY <1>1, <2>1, <2>2
<1>3. UNCHANGED <<spentBy, orphans>> /\ inflight' = inflight \ Inputs[s]
  BY DEF NullifierInserted, InsertRejected, ReconciledCommitted, ReconciledNotCommitted,
     DiscardUncommitted, outside
<1>4. CASE NullifierInserted(t) \/ ReconciledCommitted(t)
  <2>1. \A n \in Inputs[s] : spentBy[n] = s
    <3>1. CASE NullifierInserted(t)
      BY <3>1 DEF NullifierInserted, NullifierInv, InsertInv
    <3>2. CASE ReconciledCommitted(t)
      <4>1. Inputs[s] \subseteq Spent /\ status[s] = "NullifierReconcileInFlight"
        BY <3>2 DEF ReconciledCommitted, NullifierInv, ReconcileInv
      <4>2. \A n \in Inputs[s] : spentBy[n] \in {NoRecord, s}
        BY <1>1, <4>1 DEF NullifierInv, ReservationInv, Reserved, ReservesNullifiers
      <4>3. QED
        BY <4>1, <4>2 DEF Spent
    <3>3. QED
      BY <1>4, <3>1, <3>2
  <2>2. AcquireAndSnapshot(t, s) /\ SetStatus(s, "NullifierFinalizedOutputsPending")
    BY <1>4 DEF NullifierInserted, ReconciledCommitted
  <2>3. QED
    BY <1>1, <1>2, <1>3, <2>1, <2>2, AcquireMoves, OutcomeKnown
<1>5. CASE InsertRejected(t) \/ ReconciledNotCommitted(t)
  <2>1. \A n \in Notes : spentBy[n] # s
    <3>1. CASE InsertRejected(t)
      BY <3>1 DEF InsertRejected, NullifierInv, InsertInv, At
    <3>2. CASE ReconciledNotCommitted(t)
      <4>1. \A n \in Inputs[s] : spentBy[n] # s
        BY <3>2 DEF ReconciledNotCommitted, NullifierInv, ReconcileInv, At
      <4>2. QED
        BY <1>1, <4>1 DEF NullifierInv, OwnNullifiers
    <3>3. QED
      BY <1>5, <3>1, <3>2
  <2>2. Finish(t) /\ SetStatus(s, "FailedAfterOutputsStaged")
    BY <1>5 DEF InsertRejected, ReconciledNotCommitted, DiscardUncommitted
  <2>3. QED
    BY <1>1, <1>2, <1>3, <2>1, <2>2, FinishMoves, OutcomeKnown
<1>6. QED
  BY <1>4, <1>5

(* The outcome stays, or becomes again, unknown: the reservation is kept.  *)
LEMMA OutcomeUnknownKeeps ==
  ASSUME TypeOK, NullifierInv, NEW t \in Tasks,
         InsertOutcomeUnknown(t) \/ ReconcileNullifierFails(t)
  PROVE  NullifierInv'
<1>. DEFINE s == task[t].id
<1>1. /\ task[t].pc \in {"insert", "recNull"} /\ task[t].pc \in Critical /\ s \in Spends /\ s \in Records
      /\ SetStatus(s, "NullifierInsertUnknown") /\ Finish(t)
      /\ UNCHANGED <<inflight, spentBy, orphans>>
  BY TaskInfo DEF InsertOutcomeUnknown, ReconcileNullifierFails, At, Critical, Guarding, outside
<1>2. status[s] \in {"OutputsStaged", "NullifierReconcileInFlight"}
  BY <1>1, CriticalStatus
<1>3. status'[s] = "NullifierInsertUnknown" /\ \A x \in Spends : x # s => status'[x] = status[x]
  BY <1>1, StatusUpdate, SpendFacts
<1>4. /\ task'[t].pc = "idle" /\ \A u \in Tasks : u # t => task'[u] = task[u]
  BY <1>1, FinishMoves
<1>5. \A u \in Tasks : task'[u].pc \in Critical =>
         /\ u # t /\ task'[u] = task[u] /\ task[u].id \in Spends
         /\ task[u].id # s /\ status'[task[u].id] = status[task[u].id]
  BY <1>1, <1>3, <1>4, AloneOnItsSpend, SpendTask DEF Critical, Guarding, Admitted
<1>6. \A x \in Spends : (Reserved(x)' <=> Reserved(x)) /\ (status'[x] \in Committed <=> status[x] \in Committed)
  BY <1>2, <1>3 DEF Reserved, ReservesNullifiers, Committed
<1>7. ReservationInv'
  BY <1>1, <1>6 DEF NullifierInv, ReservationInv
<1>8. GuardInv' /\ InsertInv'
  BY <1>1, <1>5 DEF NullifierInv, GuardInv, InsertInv, At, Critical, Guarding
<1>9. AdmittedInv'
  BY <1>1, <1>5, <1>6 DEF NullifierInv, AdmittedInv, At, Critical, Guarding
<1>10. OrphanInv'
  BY <1>1, <1>3 DEF NullifierInv, OrphanInv, OrphanInsert
<1>11. ReconcileInv'
  BY <1>1, <1>5 DEF NullifierInv, ReconcileInv, At, Critical, OrphanInsert, Spent
<1>12. AppendInv'
  BY <1>4, <1>6 DEF NullifierInv, AppendInv, AppendPCs
<1>13. OwnNullifiers' /\ NoDoubleSpend'
  BY <1>1, <1>6 DEF NullifierInv, OwnNullifiers, NoDoubleSpend
<1>14. FailedSpendBurnsNothing'
  BY <1>1, <1>3 DEF NullifierInv, FailedSpendBurnsNothing
<1>15. QED
  BY <1>7, <1>8, <1>9, <1>10, <1>11, <1>12, <1>13, <1>14 DEF NullifierInv

(* The operator opens the only reconciliation of a spend. *)
LEMMA ReconcileNullifierInsertKeeps ==
  ASSUME TypeOK, NullifierInv, NEW t \in Tasks, NEW s \in Spends, ReconcileNullifierInsert(t, s)
  PROVE  NullifierInv'
<1>. DEFINE k == QueryCall("recNull", s, Inputs[s], {}, 0, 0)
<1>1. status[s] = "NullifierInsertUnknown" /\ UNCHANGED <<inflight, spentBy, orphans>>
  BY DEF ReconcileNullifierInsert, outside
<1>2. status'[s] = "NullifierReconcileInFlight" /\ \A x \in Spends : x # s => status'[x] = status[x]
  BY StatusUpdate, SpendFacts DEF ReconcileNullifierInsert
<1>3. task'[t] = k /\ \A u \in Tasks : u # t => task'[u] = task[u]
  BY TaskUpdate DEF ReconcileNullifierInsert, Await
<1>4. k.pc = "recNull" /\ k.id = s /\ k.todo = Inputs[s] /\ k.seen = {}
  BY DEF QueryCall, Call
<1>5. \A u \in Tasks : u # t /\ task[u].pc \in Critical =>
         task[u].id \in Spends /\ task[u].id # s /\ status'[task[u].id] = status[task[u].id]
  BY <1>1, <1>2, CriticalStatus
<1>6. \A x \in Spends : (Reserved(x)' <=> Reserved(x)) /\ (status'[x] \in Committed <=> status[x] \in Committed)
  BY <1>1, <1>2 DEF Reserved, ReservesNullifiers, Committed
<1>7. \A u \in Tasks : task'[u].pc \in Guarding =>
         u # t /\ task'[u] = task[u] /\ task[u].pc \in Guarding /\ task[u].pc \in Critical
  BY <1>3, <1>4 DEF Guarding, Admitted, Critical
<1>8. ReservationInv'
  BY <1>1, <1>6 DEF NullifierInv, ReservationInv
<1>9. GuardInv'
  BY <1>5, <1>7 DEF NullifierInv, GuardInv, At
<1>10. InsertInv'
  BY <1>1, <1>7 DEF NullifierInv, InsertInv, At, Guarding
<1>11. AdmittedInv'
  BY <1>1, <1>6, <1>7 DEF NullifierInv, AdmittedInv, At, Guarding
<1>12. OrphanInv'
  BY <1>1, <1>2 DEF NullifierInv, OrphanInv, OrphanInsert
<1>13. ReconcileInv'
  <2>1. ASSUME NEW u \in Tasks, u # t, task'[u].pc = "recNull"
        PROVE  task'[u] = task[u] /\ task[u].pc = "recNull" /\ task[u].id # s
               /\ status'[task[u].id] = status[task[u].id]
    BY <1>3, <1>5, <2>1 DEF Critical
  <2>2. QED
    BY <1>1, <1>2, <1>3, <1>4, <2>1 DEF NullifierInv, ReconcileInv, At, OrphanInsert, Spent
<1>14. AppendInv'
  BY <1>3, <1>4, <1>6 DEF NullifierInv, AppendInv, AppendPCs
<1>15. OwnNullifiers' /\ NoDoubleSpend'
  BY <1>1, <1>6 DEF NullifierInv, OwnNullifiers, NoDoubleSpend
<1>16. FailedSpendBurnsNothing'
  BY <1>1, <1>2 DEF NullifierInv, FailedSpendBurnsNothing
<1>17. QED
  BY <1>8, <1>9, <1>10, <1>11, <1>12, <1>13, <1>14, <1>15, <1>16 DEF NullifierInv

(* One answer of contains_nullifier.  A reconciliation reads the registry  *)
(* only when no earlier insert_batch is still under way.                   *)
LEMMA RegistryContainsKeeps ==
  ASSUME TypeOK, NullifierInv, NEW t \in Tasks, RegistryContains(t)
  PROVE  NullifierInv'
<1>1. PICK n \in task[t].todo :
         task' = [task EXCEPT ![t].todo = @ \ {n}, ![t].seen = @ \cup ({n} \cap Spent)]
  BY DEF RegistryContains
<1>. DEFINE k == [task[t] EXCEPT !.todo = task[t].todo \ {n},
                                 !.seen = task[t].seen \cup ({n} \cap Spent)]
<1>2. task' = [task EXCEPT ![t] = k] /\ task[t] \in TaskType /\ n \in Notes
  BY <1>1, TaskInfo DEF TypeOK
<1>3. /\ k.pc = task[t].pc /\ k.id = task[t].id /\ k.guard = task[t].guard
      /\ k.todo = task[t].todo \ {n} /\ k.seen = task[t].seen \cup ({n} \cap Spent)
  BY <1>2 DEF TaskType
<1>4. task'[t] = k /\ \A u \in Tasks : u # t => task'[u] = task[u]
  BY <1>2, TaskUpdate
<1>5. UNCHANGED <<status, inflight, spentBy, orphans>> /\ RegistryQueueClear
  BY DEF RegistryContains, pool, outside
<1>6. n \in Spent \/ spentBy[n] = NoRecord
  BY <1>2 DEF Spent
<1>7. CASE task[t].pc = "precheck"
  <2>1. task'[t].pc \notin Critical \cup AppendPCs \cup {"spLeaf", "spCountHit", "spCountMiss", "spRest"}
    BY <1>3, <1>4, <1>7 DEF Critical, Guarding, Admitted, AppendPCs
  <2>2. QED
    BY <1>4, <1>5, <2>1, AppendFrame
<1>8. CASE task[t].pc = "recheck"
  <2>1. \A m \in Inputs[task[t].id] \ (task[t].todo \cup task[t].seen) : spentBy[m] = NoRecord
    BY <1>8 DEF NullifierInv, AdmittedInv, At, Admitted
  <2>2. \A m \in Inputs[task[t].id] \ (task'[t].todo \cup task'[t].seen) : spentBy[m] = NoRecord
    BY <1>3, <1>4, <1>6, <2>1
  <2>3. QED
    BY <1>3, <1>4, <1>5, <1>8, <2>2, AdmittedMoves DEF Admitted
<1>9. CASE task[t].pc = "recNull"
  <2>. DEFINE s == task[t].id
  <2>1. s \in Spends /\ s # NoRecord /\ Inputs[s] \subseteq Notes
    BY <1>9, TaskInfo, SpendFacts
  <2>2. ~OrphanInsert(s)
    BY <1>5 DEF RegistryQueueClear, OrphanInsert
  <2>3. /\ task[t].seen \subseteq Spent
        /\ \A m \in Inputs[s] \ (task[t].todo \cup task[t].seen) : spentBy[m] # s
    BY <1>9 DEF NullifierInv, ReconcileInv, At
  <2>4. /\ k.seen \subseteq Spent
        /\ \A m \in Inputs[s] \ (k.todo \cup k.seen) : spentBy[m] # s
    BY <1>3, <1>6, <2>1, <2>3
  <2>5. \A u \in Tasks : /\ task'[u].pc = task[u].pc /\ task'[u].id = task[u].id
                         /\ task'[u].guard = task[u].guard
                         /\ task[u].pc \in Guarding => task'[u] = task[u]
    BY <1>3, <1>4, <1>9 DEF Guarding, Admitted
  <2>6. ReservationInv' /\ OrphanInv'
    BY <1>5 DEF NullifierInv, ReservationInv, OrphanInv, OrphanInsert, Reserved
  <2>7. GuardInv'
    BY <1>5, <2>5 DEF NullifierInv, GuardInv, At
  <2>8. AdmittedInv' /\ InsertInv'
    BY <1>5, <2>5 DEF NullifierInv, AdmittedInv, InsertInv, At, Reserved, Guarding
  <2>9. ReconcileInv'
    <3>1. Spent' = Spent /\ \A x \in Spends : OrphanInsert(x)' <=> OrphanInsert(x)
      BY <1>5 DEF Spent, OrphanInsert
    <3>2. ASSUME NEW u \in Tasks, task[u].pc = "recNull"
          PROVE  /\ task[u].id \in Spends /\ status[task[u].id] = "NullifierReconcileInFlight"
                 /\ \A v \in Tasks : v # u /\ task[v].pc = "recNull" => task[v].id # task[u].id
                 /\ task'[u].todo # Inputs[task[u].id] => ~OrphanInsert(task[u].id)
                 /\ task'[u].seen \subseteq Spent
                 /\ \A m \in Inputs[task[u].id] \ (task'[u].todo \cup task'[u].seen) :
                       spentBy[m] # task[u].id
      <4>1. task[u].id \in Spends
        BY <3>2, TaskInfo
      <4>2. CASE u = t
        BY <1>4, <2>2, <2>4, <3>2, <4>1, <4>2 DEF NullifierInv, ReconcileInv, At
      <4>3. CASE u # t
        BY <1>4, <3>2, <4>1, <4>3 DEF NullifierInv, ReconcileInv, At
      <4>4. QED
        BY <4>2, <4>3
    <3>3. QED
      BY <1>5, <2>5, <3>1, <3>2 DEF ReconcileInv, At
  <2>10. AppendInv'
    BY <1>5, <2>5 DEF NullifierInv, AppendInv
  <2>11. (OwnNullifiers /\ NoDoubleSpend /\ FailedSpendBurnsNothing)'
    BY <1>5 DEF NullifierInv, OwnNullifiers, NoDoubleSpend, FailedSpendBurnsNothing
  <2>12. QED
    BY <2>6, <2>7, <2>8, <2>9, <2>10, <2>11 DEF NullifierInv
<1>10. QED
  BY <1>7, <1>8, <1>9 DEF RegistryContains

(* post_upgrade: calls die, their insert_batch requests do not, and their  *)
(* spends keep their nullifiers reserved until the outcome is known.       *)
LEMMA UpgradeKeeps ==
  ASSUME TypeOK, NullifierInv, Upgrade
  PROVE  NullifierInv'
<1>1. \A t \in Tasks : task'[t].pc = "idle" /\ task'[t].id = NoRecord
  BY DEF Upgrade, IdleTask, Call
<1>2. \A r \in Records : status'[r] = UpgradedStatus(status[r])
  BY DEF Upgrade
<1>3. \A s \in Spends : status[s] \in Statuses /\ status'[s] = UpgradedStatus(status[s])
  BY <1>2, SpendFacts DEF TypeOK
<1>4. UNCHANGED spentBy /\ orphans' = orphans \cup Undelivered
  BY DEF Upgrade
<1>5. \A s \in Spends :
         /\ Reserved(s)' <=> Reserved(s)
         /\ Reserved(s) => status'[s] = "NullifierInsertUnknown"
  BY <1>3 DEF UpgradedStatus, Reserved, ReservesNullifiers
<1>6. ReservationInv'
  <2>1. \A s \in Spends : Reserved(s)' => Inputs[s] \subseteq inflight'
    BY DEF Upgrade, RebuiltInflight, Reserved
  <2>2. QED
    BY <1>4, <1>5, <2>1 DEF NullifierInv, ReservationInv
<1>7. GuardInv' /\ AdmittedInv' /\ InsertInv' /\ ReconcileInv' /\ AppendInv'
  BY <1>1, SpendFacts DEF GuardInv, AdmittedInv, InsertInv, ReconcileInv, AppendInv,
     At, Guarding, Admitted, AppendPCs
<1>8. OrphanInv'
  <2>1. ASSUME NEW s \in Spends, OrphanInsert(s)'
        PROVE  Reserved(s)
    <3>1. CASE OrphanInsert(s)
      BY <3>1 DEF NullifierInv, OrphanInv, Reserved, ReservesNullifiers
    <3>2. CASE [kind |-> "insert", id |-> s] \in Undelivered
      <4>1. PICK t \in Tasks : task[t].pc = "insert" /\ task[t].id = s
        BY <3>2 DEF Undelivered
      <4>2. QED
        BY <4>1, CriticalStatus DEF Critical, Guarding, Reserved, ReservesNullifiers
    <3>3. QED
      BY <1>4, <2>1, <3>1, <3>2 DEF OrphanInsert
  <2>2. QED
    BY <1>5, <2>1 DEF OrphanInv
<1>9. OwnNullifiers'
  BY <1>4 DEF NullifierInv, OwnNullifiers
<1>10. NoDoubleSpend'
  <2>1. \A s \in Spends : status'[s] \in Committed => status[s] \in Committed
    BY <1>3 DEF UpgradedStatus, Committed
  <2>2. QED
    BY <1>4, <2>1 DEF NullifierInv, NoDoubleSpend
<1>11. FailedSpendBurnsNothing'
  BY <1>3, <1>4 DEF NullifierInv, FailedSpendBurnsNothing, UpgradedStatus
<1>12. QED
  BY <1>6, <1>7, <1>8, <1>9, <1>10, <1>11 DEF NullifierInv

-----------------------------------------------------------------------------
(* Everything else is a step of the append protocol or of a deposit.       *)

SettlePCs == AppendPCs \cup {"spLeaf", "spCountHit", "spCountMiss", "spRest"}

LEMMA Move ==
  ASSUME TypeOK, NullifierInv, NEW t \in Tasks, NEW r \in Records,
         r \in Spends => status[r] \in Committed /\ status'[r] \in Committed,
         \A x \in Spends : x # r => status'[x] = status[x],
         UNCHANGED <<inflight, spentBy, orphans>>,
         \A u \in Tasks : u # t => task'[u] = task[u],
         task'[t].pc \notin Critical,
         task'[t].pc \in SettlePCs => task'[t].id = r
  PROVE  NullifierInv'
  BY AppendFrame DEF SettlePCs

LEMMA AwaitMoves ==
  ASSUME TypeOK, NEW t \in Tasks, NEW pc, NEW r, NEW g, NEW guard, Await(t, Call(pc, r, g, guard))
  PROVE  (\A u \in Tasks : u # t => task'[u] = task[u]) /\ task'[t].pc = pc /\ task'[t].id = r
<1>. DEFINE k == Call(pc, r, g, guard)
<1>1. task'[t] = k /\ \A u \in Tasks : u # t => task'[u] = task[u]
  BY TaskUpdate DEF Await
<1>2. k.pc = pc /\ k.id = r
  BY DEF Call
<1>3. QED
  BY <1>1, <1>2

LEMMA AnswerMoves ==
  ASSUME TypeOK, NEW t \in Tasks, NEW r, NEW n, Answer(t, r) \/ AnswerCount(t, n)
  PROVE  (\A u \in Tasks : u # t => task'[u] = task[u])
         /\ task'[t].pc = task[t].pc /\ task'[t].id = task[t].id
<1>. DEFINE k == [task[t] EXCEPT !.reply = r]
            l == [task[t] EXCEPT !.reply = "ok", !.num = n]
<1>1. task[t] \in TaskType
  BY TaskInfo
<1>2. k.pc = task[t].pc /\ k.id = task[t].id /\ l.pc = task[t].pc /\ l.id = task[t].id
  BY <1>1 DEF TaskType
<1>3. task' = [task EXCEPT ![t] = k] \/ task' = [task EXCEPT ![t] = l]
  BY DEF Answer, AnswerCount, TypeOK
<1>4. (task'[t] = k \/ task'[t] = l) /\ \A u \in Tasks : u # t => task'[u] = task[u]
  BY <1>3, TaskUpdate
<1>5. QED
  BY <1>2, <1>4

LEMMA SettlingRecord ==
  ASSUME TypeOK, NullifierInv, NEW t \in Tasks, task[t].pc \in SettlePCs \cup {"transfer", "recCount", "recLeaf"}
  PROVE  /\ task[t].id \in Records /\ task[t].pc \notin Critical
         /\ task[t].id \in Spends => status[task[t].id] \in Committed
         /\ task[t].pc \in {"transfer", "recCount", "recLeaf"} => task[t].id \notin Spends
<1>1. task[t].id \in Records /\ task[t].pc \notin Critical
  BY TaskInfo DEF SettlePCs, AppendPCs, Critical, Guarding, Admitted
<1>2. task[t].pc \in {"transfer", "recCount", "recLeaf"} => task[t].id \notin Spends
  BY TaskInfo, SpendFacts
<1>3. task[t].pc \in SettlePCs /\ task[t].id \in Spends => status[task[t].id] \in Committed
  BY DEF NullifierInv, AppendInv, SettlePCs
<1>4. QED
  BY <1>1, <1>2, <1>3

LEMMA RepliesKeep ==
  ASSUME TypeOK, NullifierInv, NEW t \in Tasks,
         LedgerTransferFrom(t) \/ TreeCount(t) \/ TreeLeaf(t) \/ TreeAppend(t)
  PROVE  NullifierInv'
<1>1. task[t].pc \in SettlePCs \cup {"transfer", "recCount", "recLeaf"}
  BY DEF LedgerTransferFrom, TreeCount, TreeLeaf, TreeAppend, At, SettlePCs, AppendPCs
<1>2. \/ \E r \in {"ok", "err", "hit", "miss"} : Answer(t, r)
      \/ AnswerCount(t, Len(leaves))
  BY DEF LedgerTransferFrom, TreeCount, TreeLeaf, TreeAppend
<1>3. /\ \A u \in Tasks : u # t => task'[u] = task[u]
      /\ task'[t].pc = task[t].pc /\ task'[t].id = task[t].id
  BY <1>2, AnswerMoves
<1>4. UNCHANGED <<status, inflight, spentBy, orphans>>
  BY DEF LedgerTransferFrom, TreeCount, TreeLeaf, TreeAppend, pool, outside
<1>5. QED
  BY <1>1, <1>3, <1>4, SettlingRecord, Move

LEMMA DepositStepsKeep ==
  ASSUME TypeOK, NullifierInv, NEW t \in Tasks, NEW d \in Deposits,
         \/ ShieldDeposit(t, d) \/ SettleDepositTransfer(t, d) \/ RetryDepositCommitment(t, d)
         \/ d = task[t].id /\ (TransferConfirmed(t) \/ TransferRefused(t) \/ TransferUnknown(t))
  PROVE  NullifierInv'
<1>1. d \in Records /\ d \notin Spends
  BY SpendFacts DEF Records
<1>2. /\ \A u \in Tasks : u # t => task'[u] = task[u]
      /\ task'[t].pc \in {"transfer", "idle"} \/ (task'[t].pc = "snapshot" /\ task'[t].id = d)
  <2>1. CASE ShieldDeposit(t, d)
    BY <2>1, AwaitMoves DEF ShieldDeposit
  <2>2. CASE AcquireAndSnapshot(t, d)
    BY <1>1, <2>2, AcquireMoves
  <2>3. CASE Finish(t)
    BY <2>3, FinishMoves
  <2>4. CASE SettleDepositTransfer(t, d) /\ UNCHANGED task
    BY <2>4 DEF SettleDepositTransfer, At
  <2>5. QED
    BY <2>1, <2>2, <2>3, <2>4 DEF SettleDepositTransfer, RetryDepositCommitment,
       TransferConfirmed, TransferRefused, TransferUnknown
<1>3. UNCHANGED status \/ \E st \in DepositStatuses \cup {"Absent"} : SetStatus(d, st)
  BY DEF ShieldDeposit, SettleDepositTransfer, RetryDepositCommitment,
     TransferConfirmed, TransferRefused, TransferUnknown, pool, DepositStatuses
<1>4. \A x \in Spends : x # d => status'[x] = status[x]
  BY <1>1, <1>3, StatusUpdate, SpendFacts
<1>5. UNCHANGED <<inflight, spentBy, orphans>>
  BY DEF ShieldDeposit, SettleDepositTransfer, RetryDepositCommitment,
     TransferConfirmed, TransferRefused, TransferUnknown, pool, outside
<1>6. QED
  BY <1>1, <1>2, <1>4, <1>5, Move DEF Critical, Guarding, Admitted, SettlePCs, AppendPCs

(* Steps of a call in the append protocol, on the record it works for. *)
AppendStep(t) ==
    \/ ClaimAppend(t) \/ SnapshotFails(t) \/ DepositAppended(t) \/ SpendAppended(t)
    \/ AppendRejected(t) \/ SpendAppendDefinitelyNot(t) \/ AppendOutcomeUnknown(t)
    \/ DepositRootAccepted(t) \/ SpendRootAccepted(t) \/ ScanHeadStale(t) \/ ScanHeadFails(t)
    \/ DepositNotAppended(t) \/ DepositAskLeaf(t) \/ DepositFoundAppended(t)
    \/ SpendAskCount(t) \/ SpendAskRest(t) \/ SpendFoundAppended(t) \/ SpendNotAppended(t)
    \/ ReconcileAppendFails(t)

LEMMA AppendStepKeeps ==
  ASSUME TypeOK, NullifierInv, NEW t \in Tasks, AppendStep(t)
  PROVE  NullifierInv'
<1>. DEFINE r == task[t].id
<1>1. task[t].pc \in SettlePCs \cup {"transfer", "recCount", "recLeaf"}
  BY DEF AppendStep, ClaimAppend, SnapshotFails, DepositAppended, SpendAppended, AppendRejected,
     SpendAppendDefinitelyNot, AppendOutcomeUnknown, DepositRootAccepted, SpendRootAccepted,
     ScanHeadStale, ScanHeadFails, DepositNotAppended, DepositAskLeaf, DepositFoundAppended,
     SpendAskCount, SpendAskRest, SpendFoundAppended, SpendNotAppended, ReconcileAppendFails,
     At, SettlePCs, AppendPCs
<1>2. /\ r \in Records /\ task[t].pc \notin Critical
      /\ r \in Spends => status[r] \in Committed
      /\ task[t].pc \in {"transfer", "recCount", "recLeaf"} => r \notin Spends
  BY <1>1, SettlingRecord
<1>3. /\ \A u \in Tasks : u # t => task'[u] = task[u]
      /\ task'[t].pc \in {"idle", "recLeaf"} \cup SettlePCs
      /\ task'[t].pc \in SettlePCs => task'[t].id = r
  <2>1. \/ Finish(t)
        \/ \E pc \in {"append", "scanHead", "recLeaf", "spCountHit", "spCountMiss", "spRest"},
              guard \in {task[t].guard, {}} : Await(t, Call(pc, r, task[t].gen, guard))
    BY DEF AppendStep, ClaimAppend, SnapshotFails, DepositAppended, SpendAppended, AppendRejected,
     SpendAppendDefinitelyNot, AppendOutcomeUnknown, DepositRootAccepted, SpendRootAccepted,
     ScanHeadStale, ScanHeadFails, DepositNotAppended, DepositAskLeaf, DepositFoundAppended,
     SpendAskCount, SpendAskRest, SpendFoundAppended, SpendNotAppended, ReconcileAppendFails,
     RevertRejectedAppend, CreditDeposit
  <2>2. QED
    BY <2>1, FinishMoves, AwaitMoves DEF SettlePCs, AppendPCs
<1>4. /\ \A x \in Spends : x # r => status'[x] = status[x]
      /\ r \in Spends => status'[r] \in Committed
  <2>1. \/ UNCHANGED status
        \/ \E st \in Statuses : SetStatus(r, st) /\ (r \in Spends => st \in Committed)
    <3>1. r \in Spends => r \notin Deposits
      BY SpendFacts
    <3>2. CASE ClaimAppend(t) \/ SnapshotFails(t) \/ AppendOutcomeUnknown(t) \/ ReconcileAppendFails(t)
      BY <3>1, <3>2 DEF ClaimAppend, SnapshotFails, AppendOutcomeUnknown, ReconcileAppendFails,
         AppendInFlight, AppendUnknown, Committed, Statuses, DepositStatuses, SpendStatuses
    <3>3. CASE AppendRejected(t) \/ SpendAppendDefinitelyNot(t)
      BY <3>1, <3>3 DEF AppendRejected, SpendAppendDefinitelyNot, RevertRejectedAppend,
         Committed, Statuses, DepositStatuses, SpendStatuses
    <3>4. CASE DepositAppended(t) \/ DepositFoundAppended(t) \/ DepositRootAccepted(t) \/ DepositNotAppended(t)
      <4>1. r \notin Spends
        BY <1>2, <3>1, <3>4 DEF DepositAppended, DepositFoundAppended, DepositRootAccepted,
           DepositNotAppended, At
      <4>2. QED
        BY <3>4, <4>1 DEF DepositAppended, DepositFoundAppended, DepositRootAccepted,
           DepositNotAppended, CreditDeposit, Statuses, DepositStatuses
    <3>5. CASE SpendAppended(t) \/ SpendRootAccepted(t) \/ SpendFoundAppended(t) \/ SpendNotAppended(t)
      BY <3>5 DEF SpendAppended, SpendRootAccepted, SpendFoundAppended, SpendNotAppended,
         Committed, Statuses, SpendStatuses
    <3>6. CASE ScanHeadStale(t) \/ ScanHeadFails(t) \/ DepositAskLeaf(t) \/ SpendAskCount(t) \/ SpendAskRest(t)
      BY <3>6 DEF ScanHeadStale, ScanHeadFails, DepositAskLeaf, SpendAskCount, SpendAskRest, pool
    <3>7. QED
      BY <3>2, <3>3, <3>4, <3>5, <3>6 DEF AppendStep
  <2>2. QED
    BY <1>2, <2>1, StatusUpdate, SpendFacts
<1>5. UNCHANGED <<inflight, spentBy, orphans>>
  BY DEF AppendStep, ClaimAppend, SnapshotFails, DepositAppended, SpendAppended, AppendRejected,
     SpendAppendDefinitelyNot, AppendOutcomeUnknown, DepositRootAccepted, SpendRootAccepted,
     ScanHeadStale, ScanHeadFails, DepositNotAppended, DepositAskLeaf, DepositFoundAppended,
     SpendAskCount, SpendAskRest, SpendFoundAppended, SpendNotAppended, ReconcileAppendFails,
     pool, outside
<1>6. QED
  BY <1>2, <1>3, <1>4, <1>5, Move DEF Critical, Guarding, Admitted, SettlePCs, AppendPCs

LEMMA ReconcileStepsKeep ==
  ASSUME TypeOK, NullifierInv, NEW t \in Tasks, NEW r \in Records,
         \/ ReconcileRootPending(t, r) \/ ReconcileAppendUnknown(t, r)
         \/ r \in Spends /\ ReconcilePendingSpend(t, r)
  PROVE  NullifierInv'
<1>1. r \in Spends => r \notin Deposits
  BY SpendFacts
<1>2. r \in Spends => status[r] \in Committed
  BY <1>1 DEF ReconcileRootPending, ReconcileAppendUnknown, ReconcilePendingSpend,
     AppendConfirmed, AppendUnknown, Committed
<1>3. /\ \A x \in Spends : x # r => status'[x] = status[x]
      /\ r \in Spends => status'[r] = status[r]
  <2>1. UNCHANGED status \/ SetStatus(r, IF r \in Deposits THEN "CommitmentReconcileInFlight" ELSE status[r])
    BY DEF ReconcileRootPending, ReconcileAppendUnknown, ReconcilePendingSpend, pool
  <2>2. QED
    BY <1>1, <2>1, StatusUpdate, SpendFacts
<1>4. /\ \A u \in Tasks : u # t => task'[u] = task[u]
      /\ task'[t].pc \in {"scanHead", "recCount", "spLeaf", "snapshot", "idle"}
      /\ task'[t].pc \in SettlePCs => task'[t].id = r
  <2>1. CASE ReconcileRootPending(t, r) \/ ReconcileAppendUnknown(t, r)
    BY <2>1, AwaitMoves DEF ReconcileRootPending, ReconcileAppendUnknown
  <2>2. CASE r \in Spends /\ ReconcilePendingSpend(t, r)
    BY <2>2, AcquireMoves DEF ReconcilePendingSpend, SettlePCs, AppendPCs
  <2>3. QED
    BY <2>1, <2>2
<1>5. UNCHANGED <<inflight, spentBy, orphans>>
  BY DEF ReconcileRootPending, ReconcileAppendUnknown, ReconcilePendingSpend, pool, outside
<1>6. QED
  BY <1>2, <1>3, <1>4, <1>5, Move DEF Critical, Guarding, Admitted, SettlePCs, AppendPCs

(* private_spend before it has written a record. *)
LEMMA PrecheckStepsKeep ==
  ASSUME TypeOK, NullifierInv, NEW t \in Tasks,
         \/ \E s \in Spends : PrivateSpend(t, s)
         \/ PrecheckRefuses(t) \/ PrecheckPasses(t)
         \/ NullifierQueryFails(t) /\ task[t].pc = "precheck"
         \/ AdmitSpend(t) /\ Finish(t) /\ UNCHANGED status
  PROVE  NullifierInv'
<1>1. UNCHANGED <<status, inflight, spentBy, orphans>>
  BY DEF PrivateSpend, PrecheckRefuses, PrecheckPasses, NullifierQueryFails, AdmitSpend, pool, outside
<1>2. (\A u \in Tasks : u # t => task'[u] = task[u]) /\ task'[t].pc \in {"idle", "precheck", "admit"}
  <2>1. CASE Finish(t)
    BY <2>1, FinishMoves
  <2>2. CASE PrecheckPasses(t)
    <3>. DEFINE k == [task[t] EXCEPT !.pc = "admit", !.guard = {}]
    <3>1. task' = [task EXCEPT ![t] = k] /\ task[t] \in TaskType
      BY <2>2, TaskInfo DEF PrecheckPasses, Proceed, TypeOK
    <3>2. k.pc = "admit"
      BY <3>1 DEF TaskType
    <3>3. QED
      BY <3>1, <3>2, TaskUpdate
  <2>3. CASE \E s \in Spends : PrivateSpend(t, s)
    <3>1. PICK s \in Spends, a \in accepted :
             Await(t, QueryCall("precheck", s, Inputs[s], {}, a, epoch))
      BY <2>3 DEF PrivateSpend
    <3>. DEFINE k == QueryCall("precheck", s, Inputs[s], {}, a, epoch)
    <3>2. task' = [task EXCEPT ![t] = k]
      BY <3>1 DEF Await
    <3>3. k.pc = "precheck"
      BY DEF QueryCall, Call
    <3>4. QED
      BY <3>2, <3>3, TaskUpdate
  <2>4. QED
    BY <2>1, <2>2, <2>3 DEF PrecheckRefuses, NullifierQueryFails
<1>3. task'[t].pc \notin Critical \cup SettlePCs
  BY <1>2 DEF Critical, Guarding, Admitted, SettlePCs, AppendPCs
<1>4. QED
  BY <1>1, <1>2, <1>3, AppendFrame DEF SettlePCs

LEMMA AdmitSpendKeeps ==
  ASSUME TypeOK, NullifierInv, NEW t \in Tasks, AdmitSpend(t)
  PROVE  NullifierInv'
<1>1. task[t].id \in Spends
  BY TaskInfo DEF AdmitSpend, At
<1>2. CASE status[task[t].id] = "Absent" /\ GuardFree(task[t].id)
  <2>1. UNCHANGED <<inflight, spentBy, orphans>>
    BY DEF AdmitSpend, outside
  <2>2. QED
    BY <1>1, <1>2, <2>1, AdmitKeeps DEF AdmitSpend
<1>3. CASE ~(status[task[t].id] = "Absent" /\ GuardFree(task[t].id))
  BY <1>3, PrecheckStepsKeep DEF AdmitSpend
<1>4. QED
  BY <1>2, <1>3

LEMMA ClosingStepsKeep ==
  ASSUME TypeOK, NullifierInv, NEW t \in Tasks,
         \/ VerifierRejects(t) \/ VerifierUnavailable(t) \/ RecheckFails(t)
         \/ NullifierQueryFails(t) /\ task[t].pc = "recheck"
         \/ PayoutPreconditionFails(t) \/ EpochChanged(t)
  PROVE  NullifierInv'
<1>1. task[t].pc \in Admitted /\ Finish(t) /\ UNCHANGED <<inflight, spentBy, orphans>>
  BY DEF VerifierRejects, VerifierUnavailable, RecheckFails, NullifierQueryFails,
     PayoutPreconditionFails, EpochChanged, At, Admitted, pool, outside
<1>2. \E st \in {"Absent", "VerificationPending", "FailedBeforeStateChange"} : SetStatus(task[t].id, st)
  <2>1. CASE NullifierQueryFails(t) /\ task[t].pc = "recheck"
    <3>1. status[task[t].id] = "VerificationPending" /\ status \in [Records -> Statuses]
      BY <2>1, CriticalStatus DEF Critical, Guarding, Admitted, TypeOK
    <3>2. UNCHANGED status
      BY <2>1 DEF NullifierQueryFails, pool
    <3>3. QED
      BY <3>1, <3>2 DEF SetStatus
  <2>2. QED
    BY <2>1 DEF VerifierRejects, VerifierUnavailable, RecheckFails, PayoutPreconditionFails, EpochChanged
<1>3. QED
  BY <1>1, <1>2, AdmittedCloses

-----------------------------------------------------------------------------
LEMMA NullifierInit == Init => NullifierInv
  BY SpendFacts DEF Init, NullifierInv, ReservationInv, GuardInv, AdmittedInv, InsertInv, OrphanInv,
     OrphanInsert, ReconcileInv, AppendInv, OwnNullifiers, NoDoubleSpend, FailedSpendBurnsNothing,
     Reserved, ReservesNullifiers, Committed, IdleTask, Call, At, Guarding, Admitted, AppendPCs

LEMMA TransferStepsKeep ==
  ASSUME TypeOK, NullifierInv, NEW t \in Tasks,
         TransferConfirmed(t) \/ TransferRefused(t) \/ TransferUnknown(t)
  PROVE  NullifierInv'
<1>1. task[t].id \in Deposits
  BY TaskInfo DEF TransferConfirmed, TransferRefused, TransferUnknown, At
<1>2. QED
  BY <1>1, DepositStepsKeep

LEMMA CallStepKeeps ==
  ASSUME TypeOK, NullifierInv, NEW t \in Tasks, CallStep(t)
  PROVE  NullifierInv'
BY TransferStepsKeep, RepliesKeep, AppendStepKeeps, RegistryContainsKeeps, PrecheckStepsKeep,
   AdmitSpendKeeps, VerifierAcceptsKeeps, ClosingStepsKeep, RecheckPassesKeeps,
   CommitSpendKeeps, RegistryInsertKeeps, OutcomeKnownKeeps
DEF CallStep, AppendStep

LEMMA CallFailureKeeps ==
  ASSUME TypeOK, NullifierInv, NEW t \in Tasks, CallFailure(t)
  PROVE  NullifierInv'
<1>1. NullifierQueryFails(t) => task[t].pc \in {"precheck", "recheck"}
  BY DEF NullifierQueryFails
<1>2. QED
  BY <1>1, TransferStepsKeep, AppendStepKeeps, ClosingStepsKeep, PrecheckStepsKeep,
     OutcomeKnownKeeps, OutcomeUnknownKeeps
  DEF CallFailure, AppendStep

LEMMA RecoverKeeps ==
  ASSUME TypeOK, NullifierInv, NEW t \in Tasks, NEW r \in Records, Recover(t, r)
  PROVE  NullifierInv'
BY DepositStepsKeep, ReconcileStepsKeep, ReconcileNullifierInsertKeeps DEF Recover

LEMMA NullifierNext == TypeOK /\ NullifierInv /\ [Next]_vars => NullifierInv'
<1>. SUFFICES ASSUME TypeOK, NullifierInv, [Next]_vars PROVE NullifierInv'
  OBVIOUS
<1>1. ASSUME NEW t \in Tasks, NEW d \in Deposits, ShieldDeposit(t, d) PROVE NullifierInv'
  BY <1>1, DepositStepsKeep
<1>2. ASSUME NEW t \in Tasks, NEW s \in Spends, PrivateSpend(t, s) PROVE NullifierInv'
  BY <1>2, PrecheckStepsKeep
<1>3. ASSUME NEW t \in Tasks, NEW r \in Records, Recover(t, r) PROVE NullifierInv'
  BY <1>3, RecoverKeeps
<1>4. ASSUME NEW t \in Tasks, CallStep(t) \/ CallFailure(t) PROVE NullifierInv'
  BY <1>4, CallStepKeeps, CallFailureKeeps
<1>5. ASSUME NEW o \in orphans, DeliverOrphan(o) \/ RejectOrphan(o) PROVE NullifierInv'
  BY <1>5, OrphanStepKeeps
<1>6. CASE ActivatePendingVk \/ UNCHANGED vars
  <2>1. UNCHANGED <<status, inflight, task, spentBy, orphans>>
    BY <1>6 DEF ActivatePendingVk, vars, pool, outside
  <2>2. QED
    BY <2>1 DEF NullifierInv, ReservationInv, GuardInv, AdmittedInv, InsertInv, OrphanInv,
       OrphanInsert, ReconcileInv, AppendInv, OwnNullifiers, NoDoubleSpend,
       FailedSpendBurnsNothing, Reserved, Spent, At
<1>7. QED
  BY <1>1, <1>2, <1>3, <1>4, <1>5, <1>6, UpgradeKeeps DEF Next

(* The inductive invariant: guard, reservation, request and registry of a  *)
(* spend exclude every other spend that shares a nullifier with it.        *)
THEOREM NullifierInvariant == Spec => []NullifierInv
<1>1. Init => TypeOK /\ NullifierInv
  BY InitType, NullifierInit
<1>2. TypeOK /\ NullifierInv /\ [Next]_vars => (TypeOK /\ NullifierInv)'
  BY NextType, NullifierNext
<1>3. QED
  BY <1>1, <1>2, PTL DEF Spec

(* No double spend (law 2): a spend the pool has moved past its            *)
(* insert_batch is the spend whose batch the registry holds.               *)
THEOREM NoDoubleSpendAlways == Spec => []NoDoubleSpend
<1>1. NullifierInv => NoDoubleSpend
  BY DEF NullifierInv
<1>2. QED
  BY <1>1, NullifierInvariant, PTL

(* A spend reported failed, or forgotten by an upgrade, never burns a      *)
(* nullifier, not even by a request that outlives its callback.            *)
THEOREM FailedSpendBurnsNothingAlways == Spec => []FailedSpendBurnsNothing
<1>1. NullifierInv => FailedSpendBurnsNothing
  BY DEF NullifierInv
<1>2. QED
  BY <1>1, NullifierInvariant, PTL

(* Two spends the pool has moved past their insert_batch never share a     *)
(* nullifier: the double spend itself.                                     *)
DisjointCommits ==
    \A r, s \in Spends :
        r # s /\ status[r] \in Committed /\ status[s] \in Committed
            => Inputs[r] \cap Inputs[s] = {}

THEOREM CommittedSpendsDisjoint == Spec => []DisjointCommits
<1>1. NullifierInv => DisjointCommits
  BY DEF NullifierInv, NoDoubleSpend, DisjointCommits
<1>2. QED
  BY <1>1, NullifierInvariant, PTL
=============================================================================
