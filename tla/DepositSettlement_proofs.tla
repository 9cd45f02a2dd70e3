---------------------- MODULE DepositSettlement_proofs ----------------------
(***************************************************************************)
(* Tokens the ledger moved keep their record and are credited once, and    *)
(* the settlement implements DepositLeg, for every number of calls,        *)
(* operations, failures and upgrades, as long as no settlement waits       *)
(* longer than the TTL of its claim.                                       *)
(*                                                                         *)
(* A record has one call that decides it (DeciderInv), the pool one call   *)
(* that appends (AppenderInv).  What the deciding call was told is still   *)
(* so when it resumes (ReplyInv), and a request that outlived its call can *)
(* only execute while its record waits for it (LedgerInv).                 *)
(***************************************************************************)
EXTENDS DepositSettlement, TLAPS, FiniteSetTheorems

NoLateSettlement == ~LateSettlement

Deciding == {"transfer"} \cup SettlementAwaits

(* The age gate keeps settlements from shield_deposit's own pull, the      *)
(* claim keeps them from one another.                                      *)
DeciderInv ==
    /\ \A t \in Tasks : task[t].pc \in Deciding =>
          /\ status = "TransferPending" /\ task[t].op = op
          /\ At(t, "transfer") => ~old
          /\ task[t].pc \in SettlementAwaits => old /\ claim = "held"
    /\ \A t, u \in Tasks : task[t].pc \in Deciding /\ task[u].pc \in Deciding => t = u

AppenderInv ==
    /\ \A t \in Tasks : task[t].pc \in AppendAwaits =>
          /\ lease
          /\ At(t, "append") => status = "CommitmentAppendInFlight" /\ task[t].op = op
    /\ \A t, u \in Tasks : task[t].pc \in AppendAwaits /\ task[u].pc \in AppendAwaits => t = u

(* An answer is still true when its callback runs; only the first pull of  *)
(* an operation may take a refusal as final.                               *)
ReplyInv ==
    \A t \in Tasks :
        /\ At(t, "transfer") =>
              /\ \A x \in orphans : x.op # op
              /\ receipt[op] = IF task[t].reply = "Applied" THEN "Applied" ELSE "None"
        /\ task[t].pc \in SettlementAwaits /\ task[t].reply \in {"Applied", "Cancelled"} =>
              receipt[op] = task[t].reply

LedgerInv ==
    /\ PulledHasRecord
    /\ \A o \in Ops : o > op => receipt[o] = "None"
    /\ \A x \in orphans :
          /\ x.op <= op
          /\ x.pc # "fence" => receipt[x.op] = "Cancelled" \/ (x.op = op /\ status # "Absent")
    /\ status \notin {"Absent", "TransferPending"} => receipt[op] = "Applied"
    /\ credits = IF status = "CommitmentAppended" THEN 1 ELSE 0

(* No record and no call before the first operation. *)
Started == op = 0 => status = "Absent" /\ \A t \in Tasks : task[t] = IdleTask

TypeInv == TypeOK /\ Started
SettlementInv == DeciderInv /\ AppenderInv /\ ReplyInv /\ LedgerInv
Inv == TypeInv /\ SettlementInv

-----------------------------------------------------------------------------
(* Types, whatever the settlements do.                                     *)

LEMMA TaskFields ==
  ASSUME TypeOK, NEW t \in Tasks
  PROVE  /\ task[t] \in TaskType
         /\ task[t] # IdleTask => task[t].op \in Ops /\ task[t].pc # "idle"
         /\ task[t] = [pc |-> task[t].pc, op |-> task[t].op, reply |-> task[t].reply]
  BY DEF TypeOK, TaskType, IdleTask, SettlementAwaits, AppendAwaits

LEMMA IdleFields == IdleTask.pc = "idle" /\ IdleTask \in TaskType
  BY DEF IdleTask, TaskType

(* A reply changes the reply, an await the whole call. *)
LEMMA ReplyStep ==
  ASSUME TypeOK, NEW t \in Tasks, NEW r, Reply(t, r)
  PROVE  task' = [task EXCEPT ![t] = [pc |-> task[t].pc, op |-> task[t].op, reply |-> r]]
<1>. DEFINE k == [pc |-> task[t].pc, op |-> task[t].op, reply |-> task[t].reply]
<1>1. [task[t] EXCEPT !.reply = r] = [pc |-> task[t].pc, op |-> task[t].op, reply |-> r]
  <2>1. [k EXCEPT !.reply = r] = [pc |-> task[t].pc, op |-> task[t].op, reply |-> r]
    OBVIOUS
  <2>2. task[t] = k
    BY TaskFields
  <2>. HIDE DEF k
  <2>3. QED
    BY <2>1, <2>2, Zenon
<1>2. task' = [task EXCEPT ![t] = [task[t] EXCEPT !.reply = r]]
  BY DEF Reply
<1>3. QED
  BY <1>1, <1>2

LEMMA TaskStep ==
  ASSUME TypeOK, NEW t \in Tasks, NEW k, task' = [task EXCEPT ![t] = k]
  PROVE  /\ task'[t] = k
         /\ \A u \in Tasks : u # t => task'[u] = task[u]
  BY DEF TypeOK

LEMMA TaskStepTypes ==
  ASSUME TypeInv, NEW t \in Tasks, NEW k \in TaskType, task' = [task EXCEPT ![t] = k],
         status' \in Statuses, op' \in Ops, old' \in BOOLEAN,
         claim' \in {"none", "held", "stale"}, lease' \in BOOLEAN, credits' \in Nat,
         receipt' \in [Ops -> {"None", "Applied", "Cancelled"}], window' \subseteq Ops,
         orphans' \subseteq [pc : {"transfer", "resubmit", "fence"}, op : Ops],
         faults' \in 0..MaxFaults
  PROVE  TypeInv'
<1>1. task' \in [Tasks -> TaskType]
  BY DEF TypeInv, TypeOK
<1>2. op' # 0
  BY SettlementAssumption DEF Ops
<1>3. op' \in 0..MaxOps
  BY SettlementAssumption DEF Ops
<1>4. QED
  BY <1>1, <1>2, <1>3 DEF TypeInv, TypeOK, Started

LEMMA TokenTypes ==
  ASSUME TypeOK, NEW o \in Ops, NEW r \in {"Applied", "Rejected", "Unclear"}, TransferFrom(o, r)
  PROVE  /\ receipt' \in [Ops -> {"None", "Applied", "Cancelled"}]
         /\ window' = window
  BY DEF TypeOK, TransferFrom, token

LEMMA FenceTypes ==
  ASSUME TypeOK, NEW o \in Ops
  PROVE  /\ Fenced(o) \in [Ops -> {"None", "Applied", "Cancelled"}]
         /\ Fenced(o)[o] \in {"Applied", "Cancelled"}
  BY DEF TypeOK, Fenced

LEMMA FaultTypes ==
  ASSUME TypeOK, Fault
  PROVE  faults' \in 0..MaxFaults
  BY SettlementAssumption DEF TypeOK, Fault

(* An operation under way, or a record, has been given its number. *)
LEMMA OpGiven ==
  ASSUME TypeInv
  PROVE  /\ status # "Absent" => op \in Ops
         /\ \A t \in Tasks : task[t].pc # "idle" => op \in Ops /\ task[t].op \in Ops
<1>1. op # 0 => op \in Ops
  BY SettlementAssumption DEF TypeInv, TypeOK, Ops
<1>2. QED
  BY <1>1, TaskFields, IdleFields DEF TypeInv, Started

LEMMA SnapshotTypes ==
  ASSUME TypeOK, NEW t \in Tasks, op \in Ops, SnapshotClaimAndAppend(t)
  PROVE  /\ lease' \in BOOLEAN
         /\ \E k \in TaskType :
               /\ task' = [task EXCEPT ![t] = k]
               /\ \/ k = IdleTask /\ lease /\ lease'
                  \/ k = [pc |-> "snapshot", op |-> op, reply |-> "none"] /\ ~lease /\ lease'
<1>1. CASE lease
  BY <1>1, IdleFields DEF SnapshotClaimAndAppend, Finish, TypeOK
<1>2. CASE ~lease
  <2>1. [pc |-> "snapshot", op |-> op, reply |-> "none"] \in TaskType
    BY DEF TaskType, AppendAwaits
  <2>2. QED
    BY <1>2, <2>1 DEF SnapshotClaimAndAppend, Await
<1>3. QED
  BY <1>1, <1>2
LEMMA TokenStepTypes ==
  ASSUME TypeInv, NEW t \in Tasks,
         \/ TokenTransferFrom(t) \/ TokenResubmit(t) \/ TokenUnavailable(t)
         \/ TokenGetReceipt(t) \/ TokenClose(t)
  PROVE  TypeInv'
<1>. USE DEF record, token
<1>0. TypeOK /\ task[t] \in TaskType
  BY TaskFields DEF TypeInv
<1>1. ASSUME NEW pc \in {"transfer", "resubmit"}, At(t, pc),
             NEW r \in {"Applied", "Rejected", "Unclear"}, Reply(t, r),
             UNCHANGED <<record, claim, lease, credits, orphans>>, window' = window,
             receipt' \in [Ops -> {"None", "Applied", "Cancelled"}], faults' \in 0..MaxFaults
      PROVE  TypeInv'
  <2>1. task[t].pc # "idle" /\ task[t].pc = pc
    BY <1>1 DEF At
  <2>2. [pc |-> task[t].pc, op |-> task[t].op, reply |-> r] \in TaskType
    BY <1>1, <2>1, OpGiven DEF TaskType
  <2>3. QED
    BY <1>0, <1>1, <2>1, <2>2, ReplyStep, OpGiven, TaskStepTypes DEF TypeInv, TypeOK
<1>2. CASE TokenTransferFrom(t) \/ TokenResubmit(t)
  <2>1. PICK pc \in {"transfer", "resubmit"} : At(t, pc)
    BY <1>2 DEF TokenTransferFrom, TokenResubmit
  <2>2. task[t].op \in Ops
    BY <2>1, OpGiven DEF At
  <2>3. PICK r \in {"Applied", "Rejected", "Unclear"} : TransferFrom(task[t].op, r) /\ Reply(t, r)
    BY <1>2 DEF TokenTransferFrom, TokenResubmit
  <2>4. UNCHANGED <<record, claim, lease, credits, orphans, faults>>
    BY <1>2 DEF TokenTransferFrom, TokenResubmit
  <2>5. QED
    BY <1>0, <1>1, <2>1, <2>2, <2>3, <2>4, TokenTypes DEF TypeOK
<1>3. CASE TokenUnavailable(t)
  BY <1>0, <1>1, <1>3, FaultTypes DEF TokenUnavailable, TypeOK
<1>4. ASSUME NEW pc \in {"receipt", "fence"}, At(t, pc), NEW r \in {"Applied", "Cancelled", "Unrecorded"},
             pc = "fence" => r # "Unrecorded", Reply(t, r),
             UNCHANGED <<record, claim, lease, credits, orphans, faults, window>>,
             receipt' \in [Ops -> {"None", "Applied", "Cancelled"}]
      PROVE  TypeInv'
  <2>1. task[t].pc # "idle" /\ task[t].pc = pc
    BY <1>4 DEF At
  <2>2. [pc |-> task[t].pc, op |-> task[t].op, reply |-> r] \in TaskType
    BY <1>4, <2>1, OpGiven DEF TaskType
  <2>3. QED
    BY <1>0, <1>4, <2>1, <2>2, ReplyStep, OpGiven, TaskStepTypes DEF TypeInv, TypeOK
<1>5. CASE TokenGetReceipt(t)
  <2>1. At(t, "receipt") /\ task[t].op \in Ops
    BY <1>5, OpGiven DEF TokenGetReceipt, At
  <2>. DEFINE r == IF receipt[task[t].op] = "None" THEN "Unrecorded" ELSE receipt[task[t].op]
  <2>2. r \in {"Applied", "Cancelled", "Unrecorded"}
    BY <1>0, <2>1 DEF TypeOK
  <2>3. Reply(t, r)
    BY <1>5 DEF TokenGetReceipt
  <2>. HIDE DEF r
  <2>4. QED
    BY <1>0, <1>4, <1>5, <2>1, <2>2, <2>3 DEF TokenGetReceipt, TypeOK
<1>6. CASE TokenClose(t)
  <2>1. At(t, "fence") /\ task[t].op \in Ops
    BY <1>6, OpGiven DEF TokenClose, At
  <2>2. /\ receipt' \in [Ops -> {"None", "Applied", "Cancelled"}]
        /\ receipt'[task[t].op] \in {"Applied", "Cancelled"}
    BY <1>0, <1>6, <2>1, FenceTypes DEF TokenClose
  <2>3. Reply(t, receipt'[task[t].op])
    BY <1>6 DEF TokenClose
  <2>4. QED
    BY <1>4, <1>6, <2>1, <2>2, <2>3 DEF TokenClose
<1>7. QED
  BY <1>2, <1>3, <1>5, <1>6

LEMMA CallStepTypes ==
  ASSUME TypeInv, NEW t \in Tasks,
         \/ ShieldDeposit(t) \/ ShieldConfirmed(t) \/ ShieldRefused(t) \/ CallFails(t)
         \/ SettleDepositTransfer(t) \/ Resubmit(t) \/ AskFence(t) \/ Undecided(t)
         \/ SettleCredit(t) \/ SettleClose(t) \/ RetryDepositCommitment(t)
         \/ ClaimDepositAppend(t) \/ AppendDone(t) \/ AppendRejected(t)
  PROVE  TypeInv'
<1>. USE DEF record, token
<1>0. TypeOK /\ task[t] \in TaskType
  BY TaskFields DEF TypeInv
<1>1. (* The call ends, or awaits the token again or the tree. *)
      ASSUME NEW k \in TaskType, task' = [task EXCEPT ![t] = k],
             status' \in Statuses, op' \in Ops, old' \in BOOLEAN,
             claim' \in {"none", "held", "stale"}, lease' \in BOOLEAN, credits' \in Nat,
             window' \subseteq Ops, UNCHANGED <<receipt, orphans>>, faults' \in 0..MaxFaults
      PROVE  TypeInv'
  BY <1>0, <1>1, TaskStepTypes DEF TypeOK
<1>2. CASE ShieldDeposit(t)
  <2>1. op' \in Ops
    BY <1>0, <1>2, SettlementAssumption DEF ShieldDeposit, TypeOK, Ops
  <2>. DEFINE k == [pc |-> "transfer", op |-> op', reply |-> "none"]
  <2>2. k \in TaskType
    BY <2>1 DEF TaskType
  <2>3. task' = [task EXCEPT ![t] = k]
    BY <1>2 DEF ShieldDeposit, Await
  <2>. HIDE DEF k
  <2>4. QED
    BY <1>0, <1>1, <1>2, <2>1, <2>2, <2>3 DEF ShieldDeposit, TypeOK, Statuses
<1>3. CASE ShieldConfirmed(t) \/ SettleCredit(t)
  <2>1. task[t].op \in Ops /\ op \in Ops
    BY <1>3, OpGiven DEF ShieldConfirmed, SettleCredit, At, SettlementAwaits
  <2>2. lease' \in BOOLEAN /\ \E k \in TaskType : task' = [task EXCEPT ![t] = k]
    <3>1. CASE lease
      BY <1>0, <1>3, <3>1, IdleFields
      DEF ShieldConfirmed, SettleCredit, SnapshotClaimAndAppend, Finish, TypeOK
    <3>2. CASE ~lease
      <4>1. SnapshotClaimAndAppend(t)
        BY <1>3 DEF ShieldConfirmed, SettleCredit
      <4>2. QED
        BY <1>0, <2>1, <4>1, SnapshotTypes
    <3>3. QED
      BY <3>1, <3>2
  <2>3. QED
    BY <1>0, <1>1, <1>3, <2>1, <2>2 DEF ShieldConfirmed, SettleCredit, TypeOK, Statuses
<1>4. CASE RetryDepositCommitment(t)
  <2>1. op \in Ops
    BY <1>4, OpGiven DEF RetryDepositCommitment
  <2>2. lease' \in BOOLEAN /\ \E k \in TaskType : task' = [task EXCEPT ![t] = k]
    BY <1>0, <1>4, <2>1, SnapshotTypes DEF RetryDepositCommitment
  <2>3. QED
    BY <1>0, <1>1, <1>4, <2>1, <2>2 DEF RetryDepositCommitment, TypeOK
<1>5. CASE ShieldRefused(t) \/ SettleClose(t) \/ CallFails(t) \/ Undecided(t) \/ AppendRejected(t)
  <2>1. op \in Ops /\ faults' \in 0..MaxFaults
    BY <1>0, <1>5, OpGiven, FaultTypes
    DEF ShieldRefused, SettleClose, CallFails, Undecided, AppendRejected, At, SettlementAwaits, TypeOK
  <2>2. task' = [task EXCEPT ![t] = IdleTask]
    BY <1>5 DEF ShieldRefused, SettleClose, CallFails, Undecided, AppendRejected, Finish
  <2>3. QED
    BY <1>0, <1>1, <1>5, <2>1, <2>2, IdleFields
    DEF ShieldRefused, SettleClose, CallFails, Undecided, AppendRejected, TypeOK, Statuses
<1>6. CASE SettleDepositTransfer(t) \/ Resubmit(t) \/ AskFence(t)
  <2>1. PICK pc \in SettlementAwaits, o \in Ops : Await(t, pc, o)
    BY <1>6, OpGiven DEF SettleDepositTransfer, Resubmit, AskFence, At, SettlementAwaits
  <2>2. [pc |-> pc, op |-> o, reply |-> "none"] \in TaskType
    BY DEF TaskType, SettlementAwaits
  <2>3. op \in Ops
    BY <1>6, OpGiven DEF SettleDepositTransfer, Resubmit, AskFence, At
  <2>4. QED
    BY <1>0, <1>1, <1>6, <2>1, <2>2, <2>3
    DEF SettleDepositTransfer, Resubmit, AskFence, Await, TypeOK
<1>7. CASE ClaimDepositAppend(t)
  <2>1. op \in Ops
    BY <1>7, OpGiven DEF ClaimDepositAppend, At
  <2>2. [pc |-> "append", op |-> op, reply |-> "none"] \in TaskType
    BY <2>1 DEF TaskType, AppendAwaits
  <2>3. CASE status = "TransferConfirmedCommitmentPending"
    BY <1>0, <1>1, <1>7, <2>1, <2>2, <2>3 DEF ClaimDepositAppend, Await, TypeOK, Statuses
  <2>4. CASE status # "TransferConfirmedCommitmentPending"
    BY <1>0, <1>1, <1>7, <2>1, <2>4, IdleFields DEF ClaimDepositAppend, Finish, TypeOK
  <2>5. QED
    BY <2>3, <2>4
<1>8. CASE AppendDone(t)
  <2>1. task[t].op \in Ops
    BY <1>8, OpGiven DEF AppendDone, At
  <2>2. credits \in Nat /\ credits' = credits + 1
    BY <1>0, <1>8 DEF AppendDone, TypeOK
  <2>3. credits' \in Nat
    BY <2>2
  <2>4. QED
    BY <1>0, <1>1, <1>8, <2>1, <2>3, IdleFields DEF AppendDone, Finish, TypeOK, Statuses
<1>9. QED
  BY <1>2, <1>3, <1>4, <1>5, <1>6, <1>7, <1>8
LEMMA OutsideStepTypes ==
  ASSUME TypeInv,
         \/ RecordAges \/ ClaimExpires \/ Upgrade
         \/ \E o \in Ops : WindowCloses(o)
         \/ \E x \in orphans : DeliverOrphan(x)
  PROVE  TypeInv'
<1>. USE DEF record, token
<1>0. TypeOK
  BY DEF TypeInv
<1>1. CASE RecordAges \/ ClaimExpires \/ \E o \in Ops : WindowCloses(o)
  BY <1>1 DEF RecordAges, ClaimExpires, WindowCloses, TypeInv, TypeOK, Started
<1>2. CASE Upgrade
  <2>1. faults' \in 0..MaxFaults
    BY <1>0, <1>2, FaultTypes DEF Upgrade
  <2>2. task' \in [Tasks -> TaskType] /\ \A t \in Tasks : task'[t] = IdleTask
    BY <1>2, IdleFields DEF Upgrade
  <2>3. orphans' \subseteq [pc : {"transfer", "resubmit", "fence"}, op : Ops]
    <3>1. \A u \in Tasks : task[u].pc \in {"transfer", "resubmit", "fence"} =>
             [pc |-> task[u].pc, op |-> task[u].op] \in [pc : {"transfer", "resubmit", "fence"}, op : Ops]
      BY OpGiven
    <3>2. QED
      BY <1>0, <1>2, <3>1 DEF Upgrade, TypeOK
  <2>4. status' \in Statuses /\ (op = 0 => status' = "Absent")
    BY <1>0, <1>2 DEF Upgrade, TypeInv, TypeOK, Started, Statuses
  <2>5. QED
    BY <1>2, <2>1, <2>2, <2>3, <2>4 DEF Upgrade, TypeInv, TypeOK, Started
<1>3. CASE \E x \in orphans : DeliverOrphan(x)
  <2>1. PICK x \in orphans : DeliverOrphan(x)
    BY <1>3
  <2>2. x.op \in Ops
    BY <1>0 DEF TypeOK
  <2>3. receipt' \in [Ops -> {"None", "Applied", "Cancelled"}] /\ window' = window
    BY <1>0, <2>1, <2>2, FenceTypes, TokenTypes DEF DeliverOrphan
  <2>4. QED
    BY <2>1, <2>3 DEF DeliverOrphan, TypeInv, TypeOK, Started
<1>4. QED
  BY <1>1, <1>2, <1>3

(* Every field keeps its range, and every call its shape.                  *)
THEOREM TypeCorrect == Spec => []TypeOK
<1>1. Init => TypeInv
  <2>1. 0 \in Nat /\ 0 \in 0..MaxOps /\ 0 \in 0..MaxFaults /\ "Absent" \in Statuses
    BY SettlementAssumption DEF Statuses
  <2>2. QED
    BY <2>1, IdleFields DEF Init, TypeInv, TypeOK, Started
<1>2. TypeInv /\ [Next]_vars => TypeInv'
  <2>1. TypeInv /\ UNCHANGED vars => TypeInv'
    BY DEF vars, record, token, TypeInv, TypeOK, Started
  <2>2. TypeInv /\ Next => TypeInv'
    BY TokenStepTypes, CallStepTypes, OutsideStepTypes DEF Next, CallStep, Settle, Retry
  <2>3. QED
    BY <2>1, <2>2
<1>3. TypeInv => TypeOK
  BY DEF TypeInv
<1>4. QED
  BY <1>1, <1>2, <1>3, PTL DEF Spec
-----------------------------------------------------------------------------
(* What the steps have in common.                                          *)

(* Nobody decides: nothing was promised to anybody. *)
LEMMA NobodyDecides ==
  ASSUME \A u \in Tasks : task'[u].pc \notin Deciding
  PROVE  DeciderInv' /\ ReplyInv'
  BY DEF DeciderInv, ReplyInv, At, Deciding, SettlementAwaits

(* The record is decided by t alone, which is at its place. *)
LEMMA OneDecides ==
  ASSUME NEW t \in Tasks, \A u \in Tasks : u # t => task'[u].pc \notin Deciding,
         status' = "TransferPending", task'[t].op = op',
         \/ task'[t].pc = "transfer" /\ ~old'
         \/ task'[t].pc \in SettlementAwaits /\ old' /\ claim' = "held"
  PROVE  DeciderInv'
  BY DEF DeciderInv, At, Deciding, SettlementAwaits

LEMMA OneIsTold ==
  ASSUME NEW t \in Tasks, \A u \in Tasks : u # t => task'[u].pc \notin Deciding,
         task'[t].pc = "transfer" =>
            /\ \A x \in orphans' : x.op # op'
            /\ receipt'[op'] = IF task'[t].reply = "Applied" THEN "Applied" ELSE "None",
         task'[t].pc \in SettlementAwaits /\ task'[t].reply \in {"Applied", "Cancelled"} =>
            receipt'[op'] = task'[t].reply
  PROVE  ReplyInv'
  BY DEF ReplyInv, At, Deciding, SettlementAwaits

(* What the deciding call knows. *)
LEMMA Decider ==
  ASSUME TypeInv, DeciderInv, NEW t \in Tasks, task[t].pc \in Deciding
  PROVE  /\ \A u \in Tasks : u # t => task[u].pc \notin Deciding
         /\ status = "TransferPending" /\ op \in Ops /\ task[t].op = op
         /\ task[t].pc = "transfer" => ~old
         /\ task[t].pc \in SettlementAwaits => old /\ claim = "held"
<1>1. op \in Ops
  BY OpGiven DEF DeciderInv
<1>2. QED
  BY <1>1 DEF DeciderInv, At

(* The calls that append keep their place, or leave it. *)
LEMMA AppendersKept ==
  ASSUME AppenderInv,
         \A u \in Tasks : \/ task'[u].pc = task[u].pc /\ task'[u].op = task[u].op
                          \/ task'[u].pc \notin AppendAwaits,
         UNCHANGED lease,
         \A u \in Tasks : At(u, "append") => UNCHANGED <<status, op>>
  PROVE  AppenderInv'
  BY DEF AppenderInv, At, AppendAwaits

(* A receipt is written once; the tokens move while the record waits, and  *)
(* the fence closes an operation the record has got to.                    *)
LEMMA LedgerWritten ==
  ASSUME TypeInv, LedgerInv, UNCHANGED <<status, op, credits>>, orphans' \subseteq orphans,
         NEW o \in Ops,
         \/ UNCHANGED receipt
         \/ /\ receipt[o] = "None" /\ o = op /\ status # "Absent"
            /\ receipt' = [receipt EXCEPT ![o] = "Applied"]
         \/ /\ receipt[o] = "None" /\ o <= op
            /\ receipt' = [receipt EXCEPT ![o] = "Cancelled"]
  PROVE  LedgerInv'
<1>1. CASE UNCHANGED receipt
  BY <1>1 DEF LedgerInv, PulledHasRecord, Pulled
<1>2. CASE ~UNCHANGED receipt
  <2>1. /\ receipt \in [Ops -> {"None", "Applied", "Cancelled"}]
        /\ receipt' \in [Ops -> {"None", "Applied", "Cancelled"}]
        /\ receipt[o] = "None" /\ o <= op /\ op \in 0..MaxOps
        /\ orphans \subseteq [pc : {"transfer", "resubmit", "fence"}, op : Ops]
    BY <1>2, SettlementAssumption DEF TypeInv, TypeOK, Ops
  <2>2. /\ \A q \in Ops : q # o => receipt'[q] = receipt[q]
        /\ receipt'[o] = "Applied" => o = op /\ status # "Absent"
    BY <1>2, <2>1
  <2>3. PulledHasRecord'
    BY <2>1, <2>2 DEF LedgerInv, PulledHasRecord, Pulled
  <2>4. \A q \in Ops : q > op => receipt'[q] = "None"
    BY <2>1, <2>2, SettlementAssumption DEF LedgerInv, Ops
  <2>5. \A x \in orphans :
           /\ x.op <= op
           /\ x.pc # "fence" => receipt'[x.op] = "Cancelled" \/ (x.op = op /\ status # "Absent")
    BY <2>1, <2>2 DEF LedgerInv
  <2>6. status \notin {"Absent", "TransferPending"} => receipt'[op] = "Applied"
    <3>1. status \notin {"Absent", "TransferPending"} => op \in Ops /\ op # o
      BY <2>1, OpGiven DEF LedgerInv
    <3>2. QED
      BY <2>2, <3>1 DEF LedgerInv
  <2>7. QED
    BY <2>3, <2>4, <2>5, <2>6 DEF LedgerInv
<1>3. QED
  BY <1>1, <1>2
-----------------------------------------------------------------------------
(* The token executes a pull, tells its receipt, or writes its fence.      *)

(* A reply moves no call; t alone learns something. *)
LEMMA ReplyKeepsPlaces ==
  ASSUME Inv, NEW t \in Tasks, task[t].pc \in Deciding, NEW r, Reply(t, r),
         UNCHANGED <<status, op, old, claim, lease>>
  PROVE  /\ DeciderInv' /\ AppenderInv'
         /\ task'[t].pc = task[t].pc /\ task'[t].op = op /\ task'[t].reply = r
         /\ \A u \in Tasks : u # t => task'[u].pc \notin Deciding
<1>1. TypeOK /\ DeciderInv /\ AppenderInv
  BY DEF Inv, TypeInv, SettlementInv
<1>2. \A u \in Tasks : u # t => task[u].pc \notin Deciding /\ task'[u] = task[u]
  BY <1>1, ReplyStep, TaskStep, Decider DEF Inv
<1>3. task'[t] = [pc |-> task[t].pc, op |-> task[t].op, reply |-> r]
  BY <1>1, ReplyStep, TaskStep
<1>4. DeciderInv'
  <2>1. task[t].op = op /\ status = "TransferPending"
    BY <1>1, Decider DEF Inv
  <2>2. \/ task[t].pc = "transfer" /\ ~old
        \/ task[t].pc \in SettlementAwaits /\ old /\ claim = "held"
    BY <1>1, Decider DEF Inv, Deciding
  <2>3. QED
    BY <1>2, <1>3, <2>1, <2>2, OneDecides
<1>5. AppenderInv'
  BY <1>1, <1>2, <1>3, AppendersKept
<1>6. QED
  BY <1>1, <1>2, <1>3, <1>4, <1>5, Decider DEF Inv

(* What the token may do with a pull, and what it then says. *)
LEMMA PullOutcome ==
  ASSUME TypeOK, NEW o \in Ops, NEW r \in {"Applied", "Rejected", "Unclear"}, TransferFrom(o, r)
  PROVE  /\ \/ UNCHANGED receipt
            \/ receipt[o] = "None" /\ r = "Applied" /\ receipt' = [receipt EXCEPT ![o] = "Applied"]
         /\ r = "Applied" => receipt'[o] = "Applied"
         /\ r = "Rejected" => UNCHANGED receipt
         /\ r = "Unclear" => receipt[o] = "Cancelled" /\ UNCHANGED receipt
  BY DEF TransferFrom, token, TypeOK

LEMMA FenceOutcome ==
  ASSUME TypeOK, NEW o \in Ops, receipt' = Fenced(o)
  PROVE  \/ UNCHANGED receipt
         \/ receipt[o] = "None" /\ receipt' = [receipt EXCEPT ![o] = "Cancelled"]
<1>1. CASE receipt[o] = "None"
  BY <1>1 DEF Fenced
<1>2. CASE receipt[o] # "None"
  <2>1. [receipt EXCEPT ![o] = receipt[o]] = receipt
    BY DEF TypeOK
  <2>2. QED
    BY <1>2, <2>1 DEF Fenced
<1>3. QED
  BY <1>1, <1>2

LEMMA TransferAnswered ==
  ASSUME Inv, NEW t \in Tasks, TokenTransferFrom(t)
  PROVE  SettlementInv'
<1>. USE DEF record
<1>1. /\ task[t].pc = "transfer" /\ task[t].reply = "none"
      /\ UNCHANGED <<status, op, old, claim, lease, credits, orphans>>
  BY DEF TokenTransferFrom, At
<1>2. TypeOK /\ op \in Ops /\ task[t].op = op /\ status = "TransferPending"
  BY <1>1, Decider DEF Inv, TypeInv, SettlementInv, Deciding
<1>3. PICK r \in {"Applied", "Rejected", "Unclear"} : TransferFrom(op, r) /\ Reply(t, r)
  BY <1>2 DEF TokenTransferFrom
<1>4. receipt[op] = "None" /\ \A x \in orphans : x.op # op
  BY <1>1 DEF Inv, SettlementInv, ReplyInv, At
<1>5. r # "Unclear" /\ receipt'[op] = IF r = "Applied" THEN "Applied" ELSE "None"
  BY <1>2, <1>3, <1>4, PullOutcome
<1>6. LedgerInv'
  BY <1>1, <1>2, <1>3, PullOutcome, LedgerWritten DEF Inv, SettlementInv
<1>7. QED
  BY <1>1, <1>3, <1>4, <1>5, <1>6, ReplyKeepsPlaces, OneIsTold
  DEF SettlementInv, Deciding, SettlementAwaits

LEMMA ResubmitAnswered ==
  ASSUME Inv, NEW t \in Tasks, TokenResubmit(t) \/ TokenUnavailable(t)
  PROVE  SettlementInv'
<1>. USE DEF record
<1>1. /\ task[t].pc = "resubmit"
      /\ UNCHANGED <<status, op, old, claim, lease, credits, orphans>>
  BY DEF TokenResubmit, TokenUnavailable, At
<1>2. TypeOK /\ op \in Ops /\ task[t].op = op /\ status = "TransferPending"
  BY <1>1, Decider DEF Inv, TypeInv, SettlementInv, Deciding, SettlementAwaits
<1>3. PICK r \in {"Applied", "Rejected", "Unclear"} :
         Reply(t, r) /\ (TransferFrom(op, r) \/ (r = "Unclear" /\ UNCHANGED receipt))
  BY <1>2 DEF TokenResubmit, TokenUnavailable, token
<1>4. r = "Applied" => receipt'[op] = "Applied"
  BY <1>2, <1>3, PullOutcome
<1>5. LedgerInv'
  BY <1>1, <1>2, <1>3, PullOutcome, LedgerWritten DEF Inv, SettlementInv
<1>6. QED
  BY <1>1, <1>3, <1>4, <1>5, ReplyKeepsPlaces, OneIsTold
  DEF SettlementInv, Deciding, SettlementAwaits

LEMMA ReceiptTold ==
  ASSUME Inv, NEW t \in Tasks, TokenGetReceipt(t)
  PROVE  SettlementInv'
<1>. USE DEF record, token
<1>1. /\ task[t].pc = "receipt"
      /\ UNCHANGED <<status, op, old, claim, lease, credits, orphans, receipt>>
  BY DEF TokenGetReceipt, At
<1>2. TypeOK /\ op \in Ops /\ task[t].op = op
  BY <1>1, Decider DEF Inv, TypeInv, SettlementInv, Deciding, SettlementAwaits
<1>. DEFINE r == IF receipt[op] = "None" THEN "Unrecorded" ELSE receipt[op]
<1>3. Reply(t, r)
  BY <1>2 DEF TokenGetReceipt
<1>4. r \in {"Applied", "Cancelled"} => receipt'[op] = r
  BY <1>1
<1>. HIDE DEF r
<1>5. LedgerInv'
  BY <1>1, <1>2, LedgerWritten DEF Inv, SettlementInv
<1>6. QED
  BY <1>1, <1>3, <1>4, <1>5, ReplyKeepsPlaces, OneIsTold
  DEF SettlementInv, Deciding, SettlementAwaits

LEMMA FenceWritten ==
  ASSUME Inv, NEW t \in Tasks, TokenClose(t)
  PROVE  SettlementInv'
<1>. USE DEF record, token
<1>1. /\ task[t].pc = "fence"
      /\ UNCHANGED <<status, op, old, claim, lease, credits, orphans>>
  BY DEF TokenClose, At
<1>2. TypeOK /\ op \in Ops /\ task[t].op = op
  BY <1>1, Decider DEF Inv, TypeInv, SettlementInv, Deciding, SettlementAwaits
<1>3. Reply(t, receipt'[op]) /\ receipt' = Fenced(op)
  BY <1>2 DEF TokenClose
<1>4. LedgerInv'
  <2>1. op <= op
    BY <1>2 DEF TypeOK
  <2>2. QED
    BY <1>1, <1>2, <1>3, <2>1, FenceOutcome, LedgerWritten DEF Inv, SettlementInv
<1>5. QED
  BY <1>1, <1>3, <1>4, ReplyKeepsPlaces, OneIsTold
  DEF SettlementInv, Deciding, SettlementAwaits
-----------------------------------------------------------------------------
(* A call decides the record.                                              *)

LEMMA RecordDropped ==
  ASSUME Inv, status' = "Absent", status = "TransferPending",
         UNCHANGED <<op, credits, receipt, orphans>>,
         \/ receipt[op] = "Cancelled"
         \/ receipt[op] = "None" /\ \A x \in orphans : x.op # op
  PROVE  LedgerInv'
  BY DEF Inv, SettlementInv, LedgerInv, PulledHasRecord, Pulled

LEMMA RecordMoves ==
  ASSUME Inv, status # "Absent", status' # "Absent", UNCHANGED <<op, receipt, orphans>>,
         status' # "TransferPending" => receipt[op] = "Applied",
         credits' = IF status' = "CommitmentAppended" THEN 1 ELSE 0
  PROVE  LedgerInv'
  BY DEF Inv, SettlementInv, LedgerInv, PulledHasRecord, Pulled

(* The deciding call is over, the others are where they were. *)
LEMMA DeciderLeaves ==
  ASSUME Inv, NEW t \in Tasks, task[t].pc \in Deciding, NEW k,
         task' = [task EXCEPT ![t] = k], k.pc \notin Deciding
  PROVE  /\ DeciderInv' /\ ReplyInv'
         /\ k.pc \notin AppendAwaits /\ UNCHANGED lease => AppenderInv'
<1>1. TypeOK /\ DeciderInv /\ AppenderInv
  BY DEF Inv, TypeInv, SettlementInv
<1>2. task'[t] = k /\ \A u \in Tasks : u # t => task'[u] = task[u] /\ task[u].pc \notin Deciding
  BY <1>1, TaskStep, Decider DEF Inv
<1>3. \A u \in Tasks : ~At(u, "append")
  BY <1>1, Decider DEF Inv, AppenderInv, At, AppendAwaits
<1>4. k.pc \notin AppendAwaits /\ UNCHANGED lease => AppenderInv'
  BY <1>1, <1>2, <1>3, AppendersKept
<1>5. QED
  BY <1>2, <1>4, NobodyDecides

LEMMA DeciderFinishes ==
  ASSUME Inv, NEW t \in Tasks,
         ShieldRefused(t) \/ CallFails(t) \/ Undecided(t) \/ SettleClose(t)
  PROVE  SettlementInv'
<1>. USE DEF record, token
<1>1. /\ task[t].pc \in Deciding /\ Finish(t)
      /\ UNCHANGED <<op, old, lease, credits, receipt, orphans>>
  BY DEF ShieldRefused, CallFails, Undecided, SettleClose, At, Deciding, SettlementAwaits
<1>2. DeciderInv' /\ ReplyInv' /\ AppenderInv'
  BY <1>1, DeciderLeaves, IdleFields DEF Finish, Deciding, SettlementAwaits, AppendAwaits
<1>3. op \in Ops /\ task[t].op = op /\ status = "TransferPending"
  BY <1>1, Decider DEF Inv, SettlementInv
<1>4. CASE CallFails(t) \/ Undecided(t)
  <2>1. UNCHANGED status
    BY <1>4 DEF CallFails, Undecided
  <2>2. LedgerInv'
    BY <1>1, <1>3, <2>1, LedgerWritten DEF Inv, SettlementInv
  <2>3. QED
    BY <1>2, <2>2 DEF SettlementInv
<1>5. CASE ShieldRefused(t)
  <2>1. task[t].pc = "transfer" /\ task[t].reply # "Applied" /\ status' = "Absent"
    BY <1>5 DEF ShieldRefused, At
  <2>2. receipt[op] = "None" /\ \A x \in orphans : x.op # op
    BY <2>1 DEF Inv, SettlementInv, ReplyInv, At
  <2>3. QED
    BY <1>1, <1>2, <1>3, <2>1, <2>2, RecordDropped DEF SettlementInv
<1>6. CASE SettleClose(t)
  <2>1. task[t].pc \in SettlementAwaits /\ task[t].reply = "Cancelled" /\ status' = "Absent"
    BY <1>6 DEF SettleClose, SettlementAwaits
  <2>2. receipt[op] = "Cancelled"
    BY <2>1 DEF Inv, SettlementInv, ReplyInv
  <2>3. QED
    BY <1>1, <1>2, <1>3, <2>1, <2>2, RecordDropped DEF SettlementInv
<1>7. QED
  BY <1>4, <1>5, <1>6

(* The call that takes the lease is the only one that appends. *)
LEMMA SnapshotTaken ==
  ASSUME Inv, NEW t \in Tasks, SnapshotClaimAndAppend(t),
         task[t].pc \notin AppendAwaits, op \in Ops,
         \A u \in Tasks : At(u, "append") => UNCHANGED <<status, op>>
  PROVE  /\ AppenderInv'
         /\ \E k : task' = [task EXCEPT ![t] = k] /\ k.pc \notin Deciding
<1>1. TypeOK /\ AppenderInv
  BY DEF Inv, TypeInv, SettlementInv
<1>2. CASE lease
  <2>1. task' = [task EXCEPT ![t] = IdleTask] /\ UNCHANGED lease
    BY <1>2 DEF SnapshotClaimAndAppend, Finish
  <2>2. IdleTask.pc \notin AppendAwaits /\ IdleTask.pc \notin Deciding
    BY IdleFields DEF AppendAwaits, Deciding, SettlementAwaits
  <2>3. task'[t] = IdleTask /\ \A u \in Tasks : u # t => task'[u] = task[u]
    BY <1>1, <2>1, TaskStep
  <2>4. AppenderInv'
    BY <1>1, <2>1, <2>2, <2>3, AppendersKept
  <2>5. QED
    BY <2>1, <2>2, <2>4
<1>3. CASE ~lease
  <2>. DEFINE k == [pc |-> "snapshot", op |-> op, reply |-> "none"]
  <2>1. task' = [task EXCEPT ![t] = k] /\ lease'
    BY <1>3 DEF SnapshotClaimAndAppend, Await
  <2>2. k.pc = "snapshot"
    OBVIOUS
  <2>. HIDE DEF k
  <2>3. task'[t] = k /\ \A u \in Tasks : u # t => task'[u] = task[u]
    BY <1>1, <2>1, TaskStep
  <2>4. \A u \in Tasks : u # t => task'[u].pc \notin AppendAwaits
    BY <1>1, <1>3, <2>3 DEF AppenderInv
  <2>5. AppenderInv'
    BY <2>1, <2>2, <2>3, <2>4 DEF AppenderInv, At
  <2>6. QED
    BY <2>1, <2>2, <2>5 DEF Deciding, SettlementAwaits
<1>4. QED
  BY <1>2, <1>3

LEMMA DeciderConfirms ==
  ASSUME Inv, NEW t \in Tasks, ShieldConfirmed(t) \/ SettleCredit(t)
  PROVE  SettlementInv'
<1>. USE DEF record, token
<1>1. /\ task[t].pc \in Deciding /\ task[t].reply = "Applied" /\ SnapshotClaimAndAppend(t)
      /\ UNCHANGED <<credits, receipt, orphans>>
  BY DEF ShieldConfirmed, SettleCredit, At, Deciding
<1>2. op \in Ops /\ task[t].op = op /\ status = "TransferPending"
  BY <1>1, Decider DEF Inv, SettlementInv
<1>3. status' = "TransferConfirmedCommitmentPending" /\ UNCHANGED op
  BY <1>2 DEF ShieldConfirmed, SettleCredit
<1>4. receipt[op] = "Applied"
  BY <1>1 DEF Inv, SettlementInv, ReplyInv, At, Deciding
<1>5. LedgerInv'
  BY <1>1, <1>2, <1>3, <1>4, RecordMoves DEF Inv, SettlementInv, LedgerInv
<1>6. \A u \in Tasks : ~At(u, "append")
  BY <1>2 DEF Inv, SettlementInv, AppenderInv, At, AppendAwaits
<1>7. AppenderInv' /\ \E k : task' = [task EXCEPT ![t] = k] /\ k.pc \notin Deciding
  BY <1>1, <1>2, <1>6, SnapshotTaken DEF Deciding, SettlementAwaits, AppendAwaits
<1>8. QED
  BY <1>1, <1>5, <1>7, DeciderLeaves DEF SettlementInv
-----------------------------------------------------------------------------
(* A call begins to decide, or asks the token again.                       *)

LEMMA PullSent ==
  ASSUME Inv, NEW t \in Tasks, ShieldDeposit(t)
  PROVE  SettlementInv'
<1>. USE DEF record, token
<1>1. /\ status = "Absent" /\ status' = "TransferPending" /\ ~old' /\ op' = op + 1 /\ op < MaxOps
      /\ UNCHANGED <<lease, credits, receipt, orphans>>
      /\ op \in Nat /\ orphans \subseteq [pc : {"transfer", "resubmit", "fence"}, op : Ops]
      /\ TypeOK
  BY SettlementAssumption DEF ShieldDeposit, Inv, TypeInv, TypeOK
<1>. DEFINE k == [pc |-> "transfer", op |-> op', reply |-> "none"]
<1>2. task' = [task EXCEPT ![t] = k]
  BY DEF ShieldDeposit, Await
<1>3. k.pc = "transfer" /\ k.op = op' /\ k.reply = "none"
  OBVIOUS
<1>. HIDE DEF k
<1>4. task'[t] = k /\ \A u \in Tasks : u # t => task'[u] = task[u]
  BY <1>1, <1>2, TaskStep
<1>5. op' \in Ops /\ receipt[op'] = "None" /\ \A x \in orphans : x.op # op'
  <2>1. op' \in Ops /\ op' > op
    BY <1>1, SettlementAssumption DEF Ops
  <2>2. \A x \in orphans : x.op \in Ops /\ x.op <= op
    BY <1>1 DEF Inv, SettlementInv, LedgerInv
  <2>3. \A x \in orphans : x.op # op'
    BY <1>1, <2>1, <2>2, SettlementAssumption DEF Ops
  <2>4. QED
    BY <2>1, <2>3 DEF Inv, SettlementInv, LedgerInv
<1>6. \A u \in Tasks : u # t => task'[u].pc \notin Deciding
  BY <1>1, <1>4 DEF Inv, SettlementInv, DeciderInv
<1>7. DeciderInv' /\ ReplyInv'
  BY <1>1, <1>3, <1>4, <1>5, <1>6, OneDecides, OneIsTold DEF SettlementAwaits
<1>8. AppenderInv'
  <2>1. \A u \in Tasks : ~At(u, "append")
    BY <1>1 DEF Inv, SettlementInv, AppenderInv, At, AppendAwaits
  <2>2. task'[t].pc \notin AppendAwaits
    BY <1>3, <1>4 DEF AppendAwaits
  <2>3. QED
    BY <1>1, <1>4, <2>1, <2>2, AppendersKept DEF Inv, SettlementInv
<1>9. LedgerInv'
  <2>1. \A o \in Ops : receipt[o] # "Applied"
    BY <1>1 DEF Inv, SettlementInv, LedgerInv, PulledHasRecord, Pulled
  <2>2. \A o \in Ops : o > op' => receipt[o] = "None"
    BY <1>1, SettlementAssumption DEF Inv, SettlementInv, LedgerInv, Ops
  <2>3. \A x \in orphans : x.op <= op' /\ (x.pc # "fence" => receipt[x.op] = "Cancelled")
    <3>1. \A x \in orphans : x.op <= op /\ x.op \in Int /\ (x.pc # "fence" => receipt[x.op] = "Cancelled")
      BY <1>1, SettlementAssumption DEF Inv, SettlementInv, LedgerInv, Ops
    <3>2. QED
      BY <1>1, <3>1
  <2>4. credits = 0
    BY <1>1 DEF Inv, SettlementInv, LedgerInv
  <2>5. QED
    BY <1>1, <2>1, <2>2, <2>3, <2>4 DEF LedgerInv, PulledHasRecord, Pulled
<1>10. QED
  BY <1>7, <1>8, <1>9 DEF SettlementInv

(* A settlement waits, its claim held, having been told nothing yet. *)
LEMMA SettlementAsks ==
  ASSUME Inv, NEW t \in Tasks, NEW pc \in SettlementAwaits, Await(t, pc, op),
         task[t].pc \notin AppendAwaits,
         \A u \in Tasks : u # t => task[u].pc \notin Deciding,
         status = "TransferPending", old, claim' = "held",
         UNCHANGED <<status, op, old, lease, credits, receipt, orphans>>
  PROVE  SettlementInv'
<1>1. TypeOK /\ AppenderInv
  BY DEF Inv, TypeInv, SettlementInv
<1>. DEFINE k == [pc |-> pc, op |-> op, reply |-> "none"]
<1>2. task' = [task EXCEPT ![t] = k]
  BY DEF Await
<1>3. k.pc = pc /\ k.op = op /\ k.reply = "none"
  OBVIOUS
<1>. HIDE DEF k
<1>4. task'[t] = k /\ \A u \in Tasks : u # t => task'[u] = task[u]
  BY <1>1, <1>2, TaskStep
<1>5. DeciderInv' /\ ReplyInv'
  BY <1>3, <1>4, OneDecides, OneIsTold DEF SettlementAwaits
<1>6. AppenderInv'
  BY <1>1, <1>3, <1>4, AppendersKept DEF SettlementAwaits, AppendAwaits
<1>7. op \in Ops
  BY OpGiven DEF Inv
<1>8. LedgerInv'
  BY <1>7, LedgerWritten DEF Inv, SettlementInv
<1>9. QED
  BY <1>5, <1>6, <1>8 DEF SettlementInv

LEMMA SettlementStarts ==
  ASSUME Inv, NEW t \in Tasks, SettleDepositTransfer(t)
  PROVE  SettlementInv'
<1>. USE DEF record, token
<1>1. /\ task[t].pc = "idle" /\ status = "TransferPending" /\ old /\ claim # "held"
      /\ claim' = "held" /\ Await(t, "receipt", op)
      /\ UNCHANGED <<status, op, old, lease, credits, receipt, orphans>>
  BY DEF SettleDepositTransfer, At
<1>2. \A u \in Tasks : task[u].pc \notin Deciding
  BY <1>1 DEF Inv, SettlementInv, DeciderInv, At, Deciding
<1>3. QED
  BY <1>1, <1>2, SettlementAsks DEF SettlementAwaits, AppendAwaits

LEMMA SettlementGoesOn ==
  ASSUME Inv, NEW t \in Tasks, Resubmit(t) \/ AskFence(t)
  PROVE  SettlementInv'
<1>. USE DEF record, token
<1>1. /\ task[t].pc \in SettlementAwaits
      /\ UNCHANGED <<status, op, old, claim, lease, credits, receipt, orphans>>
  BY DEF Resubmit, AskFence, At, SettlementAwaits
<1>2. /\ \A u \in Tasks : u # t => task[u].pc \notin Deciding
      /\ status = "TransferPending" /\ task[t].op = op /\ old /\ claim = "held"
  BY <1>1, Decider DEF Inv, SettlementInv, Deciding
<1>3. PICK pc \in SettlementAwaits : Await(t, pc, op)
  BY <1>2 DEF Resubmit, AskFence, SettlementAwaits
<1>4. QED
  BY <1>1, <1>2, <1>3, SettlementAsks DEF SettlementAwaits, AppendAwaits
-----------------------------------------------------------------------------
(* The append, one call at a time.                                         *)

LEMMA DecidersKept ==
  ASSUME DeciderInv, ReplyInv,
         \A u \in Tasks : task'[u] = task[u] \/ task'[u].pc \notin Deciding,
         UNCHANGED <<status, op, old, claim, receipt, orphans>>
  PROVE  DeciderInv' /\ ReplyInv'
<1>1. DeciderInv'
  BY DEF DeciderInv, At, Deciding, SettlementAwaits
<1>2. ReplyInv'
  BY DEF ReplyInv, At, Deciding, SettlementAwaits
<1>3. QED
  BY <1>1, <1>2

LEMMA AppendRetried ==
  ASSUME Inv, NEW t \in Tasks, RetryDepositCommitment(t)
  PROVE  SettlementInv'
<1>. USE DEF record, token
<1>1. /\ task[t].pc = "idle" /\ status = "TransferConfirmedCommitmentPending"
      /\ SnapshotClaimAndAppend(t)
      /\ UNCHANGED <<status, op, credits, receipt, orphans>>
  BY DEF RetryDepositCommitment, At
<1>2. op \in Ops /\ TypeOK
  BY <1>1, OpGiven DEF Inv, TypeInv
<1>3. AppenderInv' /\ \E k : task' = [task EXCEPT ![t] = k] /\ k.pc \notin Deciding
  BY <1>1, <1>2, SnapshotTaken DEF AppendAwaits
<1>4. \A u \in Tasks : task'[u].pc \notin Deciding
  BY <1>1, <1>2, <1>3, TaskStep DEF Inv, SettlementInv, DeciderInv
<1>5. LedgerInv'
  BY <1>1, RecordMoves DEF Inv, SettlementInv, LedgerInv
<1>6. QED
  BY <1>3, <1>4, <1>5, NobodyDecides DEF SettlementInv

(* The call that holds the lease gives it up. *)
LEMMA LeaseReturned ==
  ASSUME Inv, NEW t \in Tasks, task[t].pc \in AppendAwaits, Finish(t)
  PROVE  AppenderInv' /\ task'[t] = IdleTask /\ \A u \in Tasks : u # t => task'[u] = task[u]
<1>1. task'[t] = IdleTask /\ \A u \in Tasks : u # t => task'[u] = task[u]
  BY TaskStep DEF Inv, TypeInv, Finish
<1>2. \A u \in Tasks : task'[u].pc \notin AppendAwaits
  BY <1>1, IdleFields DEF Inv, SettlementInv, AppenderInv, AppendAwaits
<1>3. QED
  BY <1>1, <1>2 DEF AppenderInv

LEMMA AppendClaimed ==
  ASSUME Inv, NEW t \in Tasks, ClaimDepositAppend(t)
  PROVE  SettlementInv'
<1>. USE DEF record, token
<1>1. task[t].pc = "snapshot" /\ UNCHANGED <<op, old, claim, credits, receipt, orphans>>
  BY DEF ClaimDepositAppend, At
<1>2. TypeOK
  BY DEF Inv, TypeInv
<1>3. CASE status = "TransferConfirmedCommitmentPending"
  <2>. DEFINE k == [pc |-> "append", op |-> op, reply |-> "none"]
  <2>1. task' = [task EXCEPT ![t] = k] /\ status' = "CommitmentAppendInFlight" /\ UNCHANGED lease
    BY <1>3 DEF ClaimDepositAppend, Await
  <2>2. k.pc = "append" /\ k.op = op
    OBVIOUS
  <2>. HIDE DEF k
  <2>3. task'[t] = k /\ \A u \in Tasks : u # t => task'[u] = task[u]
    BY <1>2, <2>1, TaskStep
  <2>4. \A u \in Tasks : u # t => task'[u].pc \notin AppendAwaits
    BY <1>1, <2>3 DEF Inv, SettlementInv, AppenderInv, AppendAwaits
  <2>5. lease
    BY <1>1 DEF Inv, SettlementInv, AppenderInv, AppendAwaits
  <2>6. AppenderInv'
    BY <1>1, <2>1, <2>2, <2>3, <2>4, <2>5 DEF AppenderInv, At
  <2>7. \A u \in Tasks : task'[u].pc \notin Deciding
    BY <1>3, <2>2, <2>3 DEF Inv, SettlementInv, DeciderInv, Deciding, SettlementAwaits
  <2>8. LedgerInv'
    BY <1>1, <1>3, <2>1, RecordMoves DEF Inv, SettlementInv, LedgerInv
  <2>9. QED
    BY <2>6, <2>7, <2>8, NobodyDecides DEF SettlementInv
<1>4. CASE status # "TransferConfirmedCommitmentPending"
  <2>1. Finish(t) /\ UNCHANGED status
    BY <1>4 DEF ClaimDepositAppend
  <2>2. AppenderInv' /\ task'[t] = IdleTask /\ \A u \in Tasks : u # t => task'[u] = task[u]
    BY <1>1, <2>1, LeaseReturned DEF AppendAwaits
  <2>3. DeciderInv' /\ ReplyInv'
    BY <1>1, <2>1, <2>2, DecidersKept, IdleFields
    DEF Inv, SettlementInv, Deciding, SettlementAwaits
  <2>4. LedgerInv'
    BY <1>1, <2>1 DEF Inv, SettlementInv, LedgerInv, PulledHasRecord, Pulled
  <2>5. QED
    BY <2>2, <2>3, <2>4 DEF SettlementInv
<1>5. QED
  BY <1>3, <1>4

LEMMA AppendEnds ==
  ASSUME Inv, NEW t \in Tasks, AppendDone(t) \/ AppendRejected(t)
  PROVE  SettlementInv'
<1>. USE DEF record, token
<1>1. /\ task[t].pc = "append" /\ Finish(t) /\ UNCHANGED <<receipt, orphans>>
      /\ status = "CommitmentAppendInFlight" /\ task[t].op = op
  BY DEF AppendDone, AppendRejected, At, Inv, SettlementInv, AppenderInv, AppendAwaits
<1>2. AppenderInv' /\ task'[t] = IdleTask /\ \A u \in Tasks : u # t => task'[u] = task[u]
  BY <1>1, LeaseReturned DEF AppendAwaits
<1>3. \A u \in Tasks : task'[u].pc \notin Deciding
  BY <1>1, <1>2, IdleFields DEF Inv, SettlementInv, DeciderInv, Deciding, SettlementAwaits
<1>4. receipt[op] = "Applied" /\ credits = 0
  BY <1>1 DEF Inv, SettlementInv, LedgerInv
<1>5. /\ status' \in {"CommitmentAppended", "TransferConfirmedCommitmentPending"} /\ UNCHANGED op
      /\ credits' = IF status' = "CommitmentAppended" THEN 1 ELSE 0
  BY <1>1, <1>4 DEF AppendDone, AppendRejected
<1>6. LedgerInv'
  BY <1>1, <1>4, <1>5, RecordMoves
<1>7. QED
  BY <1>2, <1>3, <1>6, NobodyDecides DEF SettlementInv
-----------------------------------------------------------------------------
(* Time passes, the pool is upgraded, a dropped request is executed.       *)

LEMMA TimePasses ==
  ASSUME Inv, NoLateSettlement,
         RecordAges \/ ClaimExpires \/ \E o \in Ops : WindowCloses(o)
  PROVE  SettlementInv'
<1>. USE DEF record, token
<1>1. UNCHANGED <<status, op, lease, credits, receipt, task, orphans>>
  BY DEF RecordAges, ClaimExpires, WindowCloses
<1>2. AppenderInv' /\ LedgerInv'
  BY <1>1 DEF Inv, SettlementInv, AppenderInv, LedgerInv, PulledHasRecord, Pulled, At
<1>3. CASE RecordAges
  <2>1. \A t \in Tasks : task'[t].pc \notin Deciding
    BY <1>1, <1>3 DEF RecordAges, Inv, SettlementInv, DeciderInv, Deciding, At
  <2>2. QED
    BY <1>2, <2>1, NobodyDecides DEF SettlementInv
<1>4. CASE ClaimExpires
  <2>1. \A t \in Tasks : task[t].pc \notin SettlementAwaits
    BY <1>4 DEF ClaimExpires, NoLateSettlement
  <2>2. UNCHANGED old
    BY <1>4 DEF ClaimExpires
  <2>3. DeciderInv'
    BY <1>1, <2>1, <2>2 DEF Inv, SettlementInv, DeciderInv, At
  <2>4. ReplyInv'
    BY <1>1 DEF Inv, SettlementInv, ReplyInv, At
  <2>5. QED
    BY <1>2, <2>3, <2>4 DEF SettlementInv
<1>5. CASE \E o \in Ops : WindowCloses(o)
  <2>1. UNCHANGED <<old, claim>>
    BY <1>5 DEF WindowCloses
  <2>2. QED
    BY <1>1, <1>2, <2>1, DecidersKept DEF Inv, SettlementInv
<1>6. QED
  BY <1>3, <1>4, <1>5

LEMMA CallbacksDropped ==
  ASSUME Inv, Upgrade
  PROVE  SettlementInv'
<1>. USE DEF record, token
<1>1. /\ UNCHANGED <<op, credits, receipt>>
      /\ \A t \in Tasks : task'[t] = IdleTask
      /\ status' = IF status = "CommitmentAppendInFlight"
                   THEN "TransferConfirmedCommitmentPending" ELSE status
  BY DEF Upgrade
<1>2. DeciderInv' /\ ReplyInv'
  BY <1>1, NobodyDecides, IdleFields DEF Deciding, SettlementAwaits
<1>3. AppenderInv'
  BY <1>1, IdleFields DEF AppenderInv, AppendAwaits
<1>4. \A x \in orphans' : x \in orphans \/ (x.op = op /\ op \in Nat /\ status = "TransferPending")
  <2>1. \A u \in Tasks : task[u].pc \in {"transfer", "resubmit", "fence"} =>
           task[u].op = op /\ op \in Nat /\ status = "TransferPending"
    BY SettlementAssumption
    DEF Inv, TypeInv, TypeOK, SettlementInv, DeciderInv, Deciding, SettlementAwaits
  <2>2. QED
    BY <2>1 DEF Upgrade
<1>5. \A x \in orphans' :
         /\ x.op <= op
         /\ x.pc # "fence" => receipt[x.op] = "Cancelled" \/ (x.op = op /\ status # "Absent")
  BY <1>4 DEF Inv, SettlementInv, LedgerInv
<1>6. LedgerInv'
  BY <1>1, <1>5 DEF Inv, SettlementInv, LedgerInv, PulledHasRecord, Pulled
<1>7. QED
  BY <1>2, <1>3, <1>6 DEF SettlementInv

(* A request without a callback writes no receipt anybody was told of. *)
LEMMA OrphanExecuted ==
  ASSUME Inv, NEW x \in orphans, DeliverOrphan(x)
  PROVE  SettlementInv'
<1>. USE DEF record, token
<1>1. /\ UNCHANGED <<status, op, old, claim, lease, credits, task>>
      /\ orphans' \subseteq orphans
      /\ TypeOK /\ x.op \in Ops /\ x.op <= op
  BY DEF DeliverOrphan, Inv, TypeInv, TypeOK, SettlementInv, LedgerInv
<1>2. \/ UNCHANGED receipt
      \/ receipt[x.op] = "None" /\ receipt' = [receipt EXCEPT ![x.op] = "Cancelled"]
      \/ /\ receipt[x.op] = "None" /\ x.op = op /\ status # "Absent"
         /\ receipt' = [receipt EXCEPT ![x.op] = "Applied"]
  <2>1. CASE x.pc = "fence"
    BY <1>1, <2>1, FenceOutcome DEF DeliverOrphan
  <2>2. CASE x.pc # "fence"
    <3>1. receipt[x.op] = "Cancelled" \/ (x.op = op /\ status # "Absent")
      BY <2>2 DEF Inv, SettlementInv, LedgerInv
    <3>2. PICK r \in {"Applied", "Rejected", "Unclear"} : TransferFrom(x.op, r)
      BY <2>2 DEF DeliverOrphan
    <3>3. QED
      BY <1>1, <3>1, <3>2, PullOutcome
  <2>3. QED
    BY <2>1, <2>2
<1>3. LedgerInv'
  BY <1>1, <1>2, LedgerWritten DEF Inv, SettlementInv
<1>4. AppenderInv' /\ DeciderInv'
  BY <1>1 DEF Inv, SettlementInv, AppenderInv, DeciderInv, At
<1>5. \A o \in Ops : receipt'[o] = receipt[o] \/ (o = x.op /\ receipt[o] = "None")
  BY <1>1, <1>2 DEF TypeOK
<1>6. ReplyInv'
  <2>1. SUFFICES ASSUME NEW t \in Tasks, task[t].pc \in Deciding
                 PROVE  (/\ At(t, "transfer") =>
                              /\ \A y \in orphans : y.op # op
                              /\ receipt[op] = IF task[t].reply = "Applied" THEN "Applied" ELSE "None"
                         /\ task[t].pc \in SettlementAwaits /\ task[t].reply \in {"Applied", "Cancelled"} =>
                              receipt[op] = task[t].reply)'
    BY <1>1 DEF ReplyInv, At, Deciding
  <2>2. op \in Ops
    BY <2>1, Decider DEF Inv, SettlementInv
  <2>3. CASE At(t, "transfer")
    BY <1>1, <1>5, <2>2, <2>3 DEF Inv, SettlementInv, ReplyInv, At, SettlementAwaits
  <2>4. CASE task[t].pc \in SettlementAwaits
    BY <1>1, <1>5, <2>2, <2>4 DEF Inv, SettlementInv, ReplyInv, At, SettlementAwaits
  <2>5. QED
    BY <2>1, <2>3, <2>4 DEF At, Deciding
<1>7. QED
  BY <1>3, <1>4, <1>6 DEF SettlementInv
-----------------------------------------------------------------------------
(* The invariant.                                                          *)

LEMMA InvInit == Init => Inv
<1>. SUFFICES ASSUME Init PROVE Inv
  OBVIOUS
<1>1. TypeInv
  <2>1. 0 \in Nat /\ 0 \in 0..MaxOps /\ 0 \in 0..MaxFaults /\ "Absent" \in Statuses
    BY SettlementAssumption DEF Statuses
  <2>2. QED
    BY <2>1, IdleFields DEF Init, TypeInv, TypeOK, Started
<1>2. \A t \in Tasks : task[t].pc = "idle"
  BY IdleFields DEF Init
<1>3. DeciderInv /\ AppenderInv /\ ReplyInv
  BY <1>2 DEF DeciderInv, AppenderInv, ReplyInv, Deciding, SettlementAwaits, AppendAwaits, At
<1>4. LedgerInv
  BY DEF Init, LedgerInv, PulledHasRecord, Pulled
<1>5. QED
  BY <1>1, <1>3, <1>4 DEF Inv, SettlementInv

LEMMA TypeStep ==
  ASSUME TypeInv, [Next]_vars
  PROVE  TypeInv'
<1>1. CASE UNCHANGED vars
  BY <1>1 DEF vars, record, token, TypeInv, TypeOK, Started
<1>2. CASE Next
  BY <1>2, TokenStepTypes, CallStepTypes, OutsideStepTypes DEF Next, CallStep, Settle, Retry
<1>3. QED
  BY <1>1, <1>2

LEMMA InvStep ==
  ASSUME NoLateSettlement, Inv, [Next]_vars
  PROVE  Inv'
<1>1. SUFFICES SettlementInv'
  BY TypeStep DEF Inv
<1>2. CASE UNCHANGED vars
  <2>1. UNCHANGED <<status, op, old, claim, lease, credits, receipt, task, orphans>>
    BY <1>2 DEF vars, record, token
  <2>2. DeciderInv' /\ ReplyInv'
    BY <2>1, DecidersKept DEF Inv, SettlementInv
  <2>3. AppenderInv' /\ LedgerInv'
    BY <2>1 DEF Inv, SettlementInv, AppenderInv, LedgerInv, PulledHasRecord, Pulled, At
  <2>4. QED
    BY <2>2, <2>3 DEF SettlementInv
<1>3. ASSUME NEW t \in Tasks, ShieldDeposit(t) \/ CallStep(t) \/ CallFails(t) \/ TokenUnavailable(t)
                              \/ AppendRejected(t)
      PROVE  SettlementInv'
  BY <1>3, TransferAnswered, ResubmitAnswered, ReceiptTold, FenceWritten, PullSent,
     SettlementGoesOn, DeciderFinishes, DeciderConfirms, AppendClaimed, AppendEnds DEF CallStep
<1>4. CASE Settle \/ Retry
  BY <1>4, SettlementStarts, AppendRetried DEF Settle, Retry
<1>5. CASE RecordAges \/ ClaimExpires \/ (\E o \in Ops : WindowCloses(o)) \/ Upgrade
           \/ \E x \in orphans : DeliverOrphan(x)
  BY <1>5, TimePasses, CallbacksDropped, OrphanExecuted
<1>6. CASE Next
  BY <1>3, <1>4, <1>5, <1>6 DEF Next
<1>7. QED
  BY <1>2, <1>6

LEMMA CreditsBacked == Inv => CreditedOncePerPull
<1>. SUFFICES ASSUME Inv PROVE CreditedOncePerPull
  OBVIOUS
<1>1. IsFiniteSet(Ops) /\ Pulled \subseteq Ops
  BY SettlementAssumption, FS_Interval DEF Ops, Pulled
<1>2. IsFiniteSet(Pulled) /\ Cardinality(Pulled) \in Nat
  BY <1>1, FS_Subset, FS_CardinalityType
<1>3. CASE status = "CommitmentAppended"
  <2>1. op \in Pulled /\ credits = 1
    BY <1>3, OpGiven DEF Inv, SettlementInv, LedgerInv, Pulled
  <2>2. Cardinality(Pulled) # 0
    BY <1>2, <2>1, FS_EmptySet
  <2>3. QED
    BY <1>2, <2>1, <2>2 DEF CreditedOncePerPull
<1>4. CASE status # "CommitmentAppended"
  BY <1>2, <1>4 DEF Inv, SettlementInv, LedgerInv, CreditedOncePerPull
<1>5. QED
  BY <1>3, <1>4
-----------------------------------------------------------------------------
(* What a step may do to the record, and its abstract step.                *)

ReceiptsKept == \A o \in Ops : receipt[o] # "None" => receipt'[o] = receipt[o]

Reserves == status = "Absent" /\ status' = "TransferPending"
Confirms == /\ status = "TransferPending" /\ receipt[op] = "Applied"
            /\ status' = "TransferConfirmedCommitmentPending"
Drops == status = "TransferPending" /\ receipt[op] # "Applied" /\ status' = "Absent"
Appending == {"TransferConfirmedCommitmentPending", "CommitmentAppendInFlight"}

LEMMA StepKinds ==
  ASSUME Inv, Next
  PROVE  \/ UNCHANGED <<status, op, credits>> /\ ReceiptsKept
         \/ UNCHANGED <<credits, receipt>> /\ (Reserves \/ Confirms \/ Drops)
         \/ UNCHANGED <<credits, receipt>> /\ status \in Appending /\ status' \in Appending
         \/ /\ UNCHANGED receipt /\ credits' = credits + 1
            /\ status = "CommitmentAppendInFlight" /\ status' = "CommitmentAppended"
<1>. USE DEF record, token
<1>0. TypeOK
  BY DEF Inv, TypeInv
<1>1. ASSUME NEW o \in Ops, NEW r \in {"Applied", "Rejected", "Unclear"}, TransferFrom(o, r)
      PROVE  ReceiptsKept
  BY <1>0, <1>1, PullOutcome DEF ReceiptsKept, TypeOK
<1>2. ASSUME NEW o \in Ops, receipt' = Fenced(o) PROVE ReceiptsKept
  BY <1>0, <1>2, FenceOutcome DEF ReceiptsKept, TypeOK
<1>3. UNCHANGED receipt => ReceiptsKept
  BY DEF ReceiptsKept
<1>4. ASSUME NEW t \in Tasks,
             \/ TokenTransferFrom(t) \/ TokenResubmit(t) \/ TokenUnavailable(t)
             \/ TokenGetReceipt(t) \/ TokenClose(t)
      PROVE  UNCHANGED <<status, op, credits>> /\ ReceiptsKept
  <2>1. UNCHANGED <<status, op, credits>> /\ task[t].op \in Ops
    BY <1>4, OpGiven DEF Inv, TokenTransferFrom, TokenResubmit, TokenUnavailable, TokenGetReceipt,
                         TokenClose, At
  <2>2. \/ UNCHANGED receipt \/ receipt' = Fenced(task[t].op)
        \/ \E r \in {"Applied", "Rejected", "Unclear"} : TransferFrom(task[t].op, r)
    BY <1>4 DEF TokenTransferFrom, TokenResubmit, TokenUnavailable, TokenGetReceipt, TokenClose
  <2>3. QED
    BY <1>1, <1>2, <1>3, <2>1, <2>2
<1>5. ASSUME NEW x \in orphans, DeliverOrphan(x)
      PROVE  UNCHANGED <<status, op, credits>> /\ ReceiptsKept
  <2>1. UNCHANGED <<status, op, credits>> /\ x.op \in Ops
    BY <1>0, <1>5 DEF DeliverOrphan, TypeOK
  <2>2. \/ receipt' = Fenced(x.op)
        \/ \E r \in {"Applied", "Rejected", "Unclear"} : TransferFrom(x.op, r)
    BY <1>5 DEF DeliverOrphan
  <2>3. QED
    BY <1>1, <1>2, <2>1, <2>2
<1>6. ASSUME NEW t \in Tasks,
             \/ CallFails(t) \/ SettleDepositTransfer(t) \/ Resubmit(t) \/ AskFence(t) \/ Undecided(t)
             \/ RetryDepositCommitment(t)
      PROVE  UNCHANGED <<status, op, credits, receipt>>
  BY <1>6 DEF CallFails, SettleDepositTransfer, Resubmit, AskFence, Undecided, RetryDepositCommitment
<1>7. RecordAges \/ ClaimExpires \/ (\E o \in Ops : WindowCloses(o)) =>
         UNCHANGED <<status, op, credits, receipt>>
  BY DEF RecordAges, ClaimExpires, WindowCloses
<1>8. ASSUME NEW t \in Tasks, ShieldDeposit(t)
      PROVE  UNCHANGED <<credits, receipt>> /\ Reserves
  BY <1>8 DEF ShieldDeposit, Reserves
<1>9. ASSUME NEW t \in Tasks, ShieldConfirmed(t) \/ SettleCredit(t)
      PROVE  UNCHANGED <<credits, receipt>> /\ Confirms
  <2>1. task[t].pc \in Deciding /\ task[t].reply = "Applied"
    BY <1>9 DEF ShieldConfirmed, SettleCredit, At, Deciding
  <2>2. status = "TransferPending" /\ receipt[op] = "Applied"
    BY <2>1, Decider DEF Inv, SettlementInv, ReplyInv, At, Deciding
  <2>3. QED
    BY <1>9, <2>2 DEF ShieldConfirmed, SettleCredit, Confirms
<1>10. ASSUME NEW t \in Tasks, ShieldRefused(t) \/ SettleClose(t)
       PROVE  UNCHANGED <<credits, receipt>> /\ Drops
  <2>1. /\ task[t].pc \in Deciding
        /\ \/ task[t].pc = "transfer" /\ task[t].reply # "Applied"
           \/ task[t].pc \in SettlementAwaits /\ task[t].reply = "Cancelled"
    BY <1>10 DEF ShieldRefused, SettleClose, At, Deciding, SettlementAwaits
  <2>2. status = "TransferPending" /\ receipt[op] # "Applied"
    BY <2>1, Decider DEF Inv, SettlementInv, ReplyInv, At
  <2>3. QED
    BY <1>10, <2>2 DEF ShieldRefused, SettleClose, Drops
<1>11. ASSUME NEW t \in Tasks, ClaimDepositAppend(t)
       PROVE  /\ UNCHANGED <<op, credits, receipt>>
              /\ UNCHANGED status \/ (status \in Appending /\ status' \in Appending)
  BY <1>11 DEF ClaimDepositAppend, Appending
<1>12. Upgrade => /\ UNCHANGED <<op, credits, receipt>>
                  /\ UNCHANGED status \/ (status \in Appending /\ status' \in Appending)
  BY DEF Upgrade, Appending
<1>13. ASSUME NEW t \in Tasks, AppendDone(t) \/ AppendRejected(t)
       PROVE  \/ UNCHANGED <<credits, receipt>> /\ status \in Appending /\ status' \in Appending
              \/ /\ UNCHANGED receipt /\ credits' = credits + 1
                 /\ status = "CommitmentAppendInFlight" /\ status' = "CommitmentAppended"
  <2>1. status = "CommitmentAppendInFlight"
    BY <1>13 DEF AppendDone, AppendRejected, At, Inv, SettlementInv, AppenderInv, AppendAwaits
  <2>2. QED
    BY <1>13, <2>1 DEF AppendDone, AppendRejected, Appending
<1>14. QED
  BY <1>3, <1>4, <1>5, <1>6, <1>7, <1>8, <1>9, <1>10, <1>11, <1>12, <1>13
  DEF Next, CallStep, Settle, Retry
LEMMA FinalStep ==
  ASSUME Inv, [Next]_vars
  PROVE  /\ status = "CommitmentAppended" => status' = status
         /\ \A o \in Ops : receipt[o] # "None" => receipt'[o] = receipt[o]
<1>1. CASE UNCHANGED vars
  BY <1>1 DEF vars, record, token
<1>2. CASE Next
  BY <1>2, StepKinds DEF ReceiptsKept, Reserves, Confirms, Drops, Appending
<1>3. QED
  BY <1>1, <1>2

(* The pull of a record is the only one that moved tokens. *)
LEMMA PaidMeans ==
  ASSUME Inv
  PROVE  Pulled # {} <=> status # "Absent" /\ receipt[op] = "Applied"
<1>1. status # "Absent" /\ receipt[op] = "Applied" => op \in Pulled
  BY OpGiven DEF Inv, Pulled
<1>2. \A o \in Pulled : o = op /\ status # "Absent" /\ receipt[o] = "Applied"
  BY DEF Inv, SettlementInv, LedgerInv, PulledHasRecord, Pulled
<1>3. QED
  BY <1>1, <1>2

LEMMA LegInit == Init => Leg!Init
<1>. SUFFICES ASSUME Init PROVE Leg!Init
  OBVIOUS
<1>1. Pulled = {} /\ LegState = "None" /\ credits = 0
  BY DEF Init, Pulled, LegState
<1>2. QED
  BY <1>1 DEF Leg!Init

LEMMA LegStep ==
  ASSUME Inv, Inv', [Next]_vars
  PROVE  [Leg!Next]_Leg!vars
<1>1. CASE UNCHANGED vars
  BY <1>1 DEF vars, record, token, Leg!vars, LegState, Pulled
<1>2. CASE UNCHANGED <<status, op, credits>> /\ ReceiptsKept
  <2>1. LegState' = LegState /\ credits' = credits
    BY <1>2 DEF LegState
  <2>2. (Pulled # {})' <=> (status # "Absent" /\ receipt'[op] = "Applied")
    <3>1. status # "Absent" /\ receipt'[op] = "Applied" => op \in Pulled'
      BY OpGiven DEF Inv, Pulled
    <3>2. \A o \in Pulled' : o = op /\ status # "Absent" /\ receipt'[o] = "Applied"
      BY <1>2 DEF Inv, SettlementInv, LedgerInv, PulledHasRecord, Pulled
    <3>3. QED
      BY <3>1, <3>2
  <2>3. Pulled # {} => (Pulled # {})'
    <3>1. ASSUME Pulled # {} PROVE status # "Absent" /\ op \in Ops /\ receipt[op] = "Applied"
      BY <3>1, PaidMeans, OpGiven DEF Inv
    <3>2. ASSUME Pulled # {} PROVE receipt'[op] = "Applied"
      BY <1>2, <3>1, <3>2 DEF ReceiptsKept
    <3>3. QED
      BY <2>2, <3>1, <3>2
  <2>4. CASE Pulled = {} /\ (Pulled # {})'
    <3>1. status = "TransferPending"
      BY <2>2, <2>4, PaidMeans DEF Inv, SettlementInv, LedgerInv
    <3>2. LegState = "Waiting"
      BY <3>1 DEF LegState
    <3>3. QED
      BY <2>1, <2>4, <3>2 DEF Leg!Next, Leg!Pay
  <2>5. CASE (Pulled # {})' <=> Pulled # {}
    <3>1. (Pulled # {})' = (Pulled # {})
      BY <2>5
    <3>2. QED
      BY <2>1, <3>1 DEF Leg!vars
  <2>6. QED
    BY <2>3, <2>4, <2>5
<1>3. CASE UNCHANGED <<credits, receipt>> /\ (Reserves \/ Confirms \/ Drops)
  <2>1. Pulled' = Pulled
    BY <1>3 DEF Pulled
  <2>2. CASE Reserves
    <3>1. LegState = "None" /\ LegState' = "Waiting"
      BY <2>2 DEF Reserves, LegState
    <3>2. QED
      BY <1>3, <2>1, <3>1 DEF Leg!Next, Leg!Reserve
  <2>3. CASE Confirms
    <3>1. LegState = "Waiting" /\ LegState' = "Confirmed" /\ Pulled # {}
      BY <2>3, PaidMeans DEF Confirms, LegState
    <3>2. QED
      BY <1>3, <2>1, <3>1 DEF Leg!Next, Leg!Confirm
  <2>4. CASE Drops
    <3>1. LegState = "Waiting" /\ LegState' = "None" /\ Pulled = {}
      BY <2>4, PaidMeans DEF Drops, LegState
    <3>2. QED
      BY <1>3, <2>1, <3>1 DEF Leg!Next, Leg!Drop
  <2>5. QED
    BY <1>3, <2>2, <2>3, <2>4
<1>4. CASE UNCHANGED <<credits, receipt>> /\ status \in Appending /\ status' \in Appending
  BY <1>4 DEF Appending, LegState, Pulled, Leg!vars
<1>5. CASE /\ UNCHANGED receipt /\ credits' = credits + 1
           /\ status = "CommitmentAppendInFlight" /\ status' = "CommitmentAppended"
  <2>1. LegState = "Confirmed" /\ LegState' = "Settled" /\ Pulled' = Pulled
    BY <1>5 DEF LegState, Pulled
  <2>2. QED
    BY <1>5, <2>1 DEF Leg!Next, Leg!Settle
<1>6. QED
  BY <1>1, <1>2, <1>3, <1>4, <1>5, StepKinds

-----------------------------------------------------------------------------
(* The theorems.  Without NoLateSettlement they are false: a settlement    *)
(* that wakes up after its claim was taken over credits a pull twice.      *)

(* No refusal, fence or new deposit drops the record of tokens that moved. *)
THEOREM PulledNeverLost ==
  ASSUME NoLateSettlement
  PROVE  Spec => []PulledHasRecord
<1>1. Inv => PulledHasRecord
  BY DEF Inv, SettlementInv, LedgerInv
<1>2. QED
  BY <1>1, InvInit, InvStep, PTL DEF Spec

(* One pull, one leaf: retries, takeovers of dropped claims and upgrades   *)
(* credit nothing twice.                                                   *)
THEOREM NoPullCreditedTwice ==
  ASSUME NoLateSettlement
  PROVE  Spec => []CreditedOncePerPull
BY CreditsBacked, InvInit, InvStep, PTL DEF Spec

(* A settled record is never put back, a receipt is never overwritten.     *)
THEOREM DecisionsStand ==
  ASSUME NoLateSettlement
  PROVE  Spec => DecisionsAreFinal
<1>1. Inv /\ [Next]_vars =>
        [/\ status = "CommitmentAppended" => status' = status
         /\ \A o \in Ops : receipt[o] # "None" => receipt'[o] = receipt[o]]_vars
  BY FinalStep
<1>2. QED
  BY <1>1, InvInit, InvStep, PTL DEF Spec, DecisionsAreFinal

(* The settlement implements the leg ShieldedPool takes as one step.       *)
THEOREM LegImplemented ==
  ASSUME NoLateSettlement
  PROVE  Spec => ImplementsDepositLeg
BY LegInit, LegStep, InvInit, InvStep, PTL DEF Spec, ImplementsDepositLeg, Leg!Spec
=============================================================================
