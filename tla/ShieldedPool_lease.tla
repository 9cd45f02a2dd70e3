-------------------------- MODULE ShieldedPool_lease --------------------------
(***************************************************************************)
(* The append lease, the tree and the books, for every set of deposits,    *)
(* spends and calls.                                                       *)
(*                                                                         *)
(* LeaseInv ties the lease to the three places that act on it: the one     *)
(* call that runs under it, the record that owns it, and the tree, whose   *)
(* leaves beyond the accepted head are nothing or the owner's whole batch. *)
(* On top of it, BookInv says what every record has put into the tree and  *)
(* into the accounting words.                                              *)
(***************************************************************************)
EXTENDS ShieldedPool_proofs, FiniteSums

(* The awaits of a call that holds the lease, and the phases in which an   *)
(* append has been decided.                                                *)
OwnerPCs == {"snapshot", "append", "recCount", "recLeaf", "spLeaf",
             "spCountHit", "spCountMiss", "spRest"}
Unsettled == {"AppendInFlight", "AppendUnknown", "ReconcileInFlight",
              "AppendConfirmedRootPending"}

(* The statuses of a record whose leaves are in an accepted tree. *)
Closed == {"CommitmentRootAccepted", "PayoutPending", "Finalized"}

(* The tree beyond the accepted head: nothing, or the batch of r. *)
NothingNew == Len(leaves) = head
Appended(r) ==
    /\ Len(leaves) = head + Len(Items(r))
    /\ \A j \in 1..Len(Items(r)) : leaves[head + j] = Items(r)[j]

(* The statuses of the owner, by the phase of its lease. *)
ReconcileStatus(r) ==
    IF r \in Deposits THEN "CommitmentReconcileInFlight" ELSE "ActiveAppendUnknown"
PhaseStatuses(r, p) ==
    CASE p = "Snapshotting" -> Appendable
      [] p = "AppendInFlight" -> {AppendInFlight(r)}
      [] p = "AppendUnknown" -> {AppendUnknown(r)}
      [] p = "ReconcileInFlight" -> {ReconcileStatus(r)}
      [] OTHER -> {AppendConfirmed(r)}

OneOwner ==
    \A t, u \in Tasks : task[t].pc \in OwnerPCs /\ task[u].pc \in OwnerPCs => t = u

StatusInv ==
    /\ lease # NoLease => status[lease.owner] \in PhaseStatuses(lease.owner, lease.phase)
    /\ LeaseFreeSweepPasses

GenInv == lease.gen < nextGen

TreeInv ==
    IF lease.phase \in Unsettled
    THEN /\ index[lease.owner] = head
         /\ NothingNew \/ Appended(lease.owner)
         /\ lease.phase = "AppendConfirmedRootPending" => Appended(lease.owner)
    ELSE NothingNew

(* What the owner's call has read, or will conclude, is still so. *)
ReadAt(t) ==
    /\ At(t, "snapshot") /\ task[t].reply = "ok" => task[t].num = head
    /\ At(t, "append") /\ task[t].reply = "ok" => task[t].num = head /\ Appended(task[t].id)
    /\ At(t, "append") /\ task[t].reply # "ok" => NothingNew
    /\ At(t, "recCount") /\ task[t].reply = "ok" =>
          TreeQueueClear /\ task[t].num = Len(leaves)
    /\ At(t, "recLeaf") \/ At(t, "spRest") =>
          Appended(task[t].id) /\ task[t].reply # "miss"
    /\ At(t, "spLeaf") /\ task[t].reply = "hit" => Appended(task[t].id)
    /\ At(t, "spLeaf") /\ task[t].reply = "miss" => NothingNew /\ TreeQueueClear
    /\ At(t, "spCountHit") => Appended(task[t].id)
    /\ At(t, "spCountMiss") =>
          NothingNew /\ TreeQueueClear /\ (task[t].reply = "ok" => task[t].num = head)
ReadInv == \A t \in Tasks : ReadAt(t)

(* A call that reads the scan head may be stale, but not under the lease   *)
(* it names.                                                               *)
ScanAt(t) ==
    At(t, "scanHead") =>
        /\ task[t].gen < nextGen
        /\ lease # NoLease /\ task[t].gen = lease.gen =>
              /\ lease.owner = task[t].id /\ lease.phase = "AppendConfirmedRootPending"
              /\ task[t].reply = "ok" => task[t].num = Len(leaves)
ScanInv == \A t \in Tasks : ScanAt(t)

(* A late append is the owner's, and the owner waits for its outcome. *)
LateAppendInv ==
    \A o \in orphans : o.kind = "append" =>
        /\ lease.owner = o.id /\ lease.phase \in {"AppendUnknown", "ReconcileInFlight"}
        /\ NothingNew

HeadInv ==
    /\ head > 0 => head \in accepted
    /\ head = 0 => accepted = {}
    /\ \A a \in accepted : a <= head

(* One pull per deposit, of a record that is still to be settled. *)
PullAt(t) ==
    At(t, "transfer") =>
        /\ status[task[t].id] = "TransferPending"
        /\ task[t].reply = "ok" => task[t].id \in pulled
        /\ \A u \in Tasks : At(u, "transfer") /\ task[u].id = task[t].id => u = t
PullInv == \A t \in Tasks : PullAt(t)

LeaseInv ==
    /\ OneOwner /\ ResumedCallOwnsLease /\ StatusInv /\ GenInv /\ TreeInv /\ ReadInv
    /\ ScanInv /\ LateAppendInv /\ HeadInv /\ PullInv

-----------------------------------------------------------------------------
(* Facts about the parts. *)

(* The statuses a record has before it needs the lease, or after it failed. *)
Early == {"Absent", "TransferPending", "VerificationPending", "OutputsStaged",
          "NullifierInsertUnknown", "NullifierReconcileInFlight",
          "FailedBeforeStateChange", "FailedAfterOutputsStaged"}

LEMMA ItemsFacts ==
  ASSUME NEW r \in Records
  PROVE  /\ Items(r) \in Seq(Notes) /\ Len(Items(r)) \in Nat /\ Len(Items(r)) >= 1
         /\ \A j \in 1..Len(Items(r)) : Items(r)[j] \in Notes /\ Items(r)[j] # NoRecord
<1>1. Items(r) \in Seq(Notes)
  BY DataTypes
<1>2. Len(Items(r)) \in Nat /\ \A j \in 1..Len(Items(r)) : Items(r)[j] \in Notes
  BY <1>1
<1>3. Items(r) # <<>>
  BY DataAssumption DEF Items, Records
<1>4. Len(Items(r)) >= 1
  BY <1>1, <1>2, <1>3
<1>5. QED
  BY <1>1, <1>2, <1>4, RecordAssumption

(* A batch goes behind the leaves that are there. *)
LEMMA Concatenated ==
  ASSUME NEW s \in Seq(Notes), NEW m \in Seq(Notes)
  PROVE  /\ s \o m \in Seq(Notes) /\ Len(s \o m) = Len(s) + Len(m)
         /\ \A i \in 1..Len(s) : (s \o m)[i] = s[i]
         /\ \A j \in 1..Len(m) : (s \o m)[Len(s) + j] = m[j]
  OBVIOUS

LEMMA LeaseFacts ==
  ASSUME TypeOK
  PROVE  /\ lease = NoLease \/ (lease.owner \in Records /\ lease.phase \in LeasePhases /\ lease.gen \in Nat)
         /\ lease.gen \in Nat /\ nextGen \in Nat /\ head \in Nat /\ Len(leaves) \in Nat
         /\ NoLease.owner = NoRecord /\ NoLease.phase = "Free" /\ NoLease.gen = 0
         /\ NoRecord \notin Records /\ "Free" \notin LeasePhases
         /\ lease = [owner |-> lease.owner, phase |-> lease.phase, gen |-> lease.gen]
  BY RecordAssumption DEF TypeOK, LeaseType, NoLease, LeasePhases

(* A lease that is held by r in a phase. *)
LEMMA Held ==
  ASSUME TypeOK, NEW r \in Records, NEW g, NEW p, LeaseExpect(r, g, p)
  PROVE  lease # NoLease /\ lease.owner = r /\ lease.phase = p /\ lease.gen = g
  BY RecordAssumption DEF LeaseExpect, NoLease, Records

LEMMA Owner ==
  ASSUME TypeOK, LeaseInv, NEW t \in Tasks, task[t].pc \in OwnerPCs
  PROVE  /\ task[t].id \in Records /\ task[t].gen \in Nat
         /\ LeaseExpect(task[t].id, task[t].gen, PhaseAt(task[t].pc))
         /\ lease # NoLease /\ lease.owner = task[t].id /\ lease.gen = task[t].gen
         /\ lease.phase = PhaseAt(task[t].pc)
         /\ status[task[t].id] \in PhaseStatuses(task[t].id, lease.phase)
         /\ \A u \in Tasks : u # t => task[u].pc \notin OwnerPCs
<1>1. task[t].id \in Records /\ task[t].gen \in Nat
  BY TaskInfo DEF OwnerPCs
<1>2. LeaseExpect(task[t].id, task[t].gen, PhaseAt(task[t].pc))
  BY DEF LeaseInv, ResumedCallOwnsLease, OwnerPCs
<1>3. /\ lease # NoLease /\ lease.owner = task[t].id /\ lease.gen = task[t].gen
      /\ lease.phase = PhaseAt(task[t].pc)
  BY <1>1, <1>2, Held
<1>4. status[task[t].id] \in PhaseStatuses(task[t].id, lease.phase)
  BY <1>3 DEF LeaseInv, StatusInv
<1>5. \A u \in Tasks : u # t => task[u].pc \notin OwnerPCs
  BY DEF LeaseInv, OneOwner
<1>6. QED
  BY <1>1, <1>2, <1>3, <1>4, <1>5

LEMMA PhaseStatusFacts ==
  ASSUME NEW r \in Records, NEW p \in LeasePhases
  PROVE  /\ \A st \in PhaseStatuses(r, p) : st \notin Early
         /\ p = "Snapshotting" => PhaseStatuses(r, p) = Appendable
         /\ p = "AppendInFlight" => PhaseStatuses(r, p) = {AppendInFlight(r)}
         /\ p = "AppendUnknown" => PhaseStatuses(r, p) = {AppendUnknown(r)}
         /\ p = "ReconcileInFlight" => PhaseStatuses(r, p) = {ReconcileStatus(r)}
         /\ p = "AppendConfirmedRootPending" => PhaseStatuses(r, p) = {AppendConfirmed(r)}
  BY DEF PhaseStatuses, LeasePhases, Early, Appendable, AppendInFlight, AppendUnknown,
     ReconcileStatus, AppendConfirmed

(* The pull of a deposit is over, or still that of another call. *)
LEMMA PullFrame ==
  ASSUME TypeOK, LeaseInv, NEW t \in Tasks, NEW r,
         \A u \in Tasks : u # t => task'[u] = task[u],
         task'[t].pc # "transfer",
         \A x \in Records : x # r => status'[x] = status[x],
         status'[r] = status[r] \/ status[r] # "TransferPending" \/ (At(t, "transfer") /\ task[t].id = r),
         pulled \subseteq pulled'
  PROVE  PullInv'
<1>1. ASSUME NEW u \in Tasks, task'[u].pc = "transfer" PROVE PullAt(u)'
  <2>1. u # t /\ task'[u] = task[u] /\ At(u, "transfer") /\ PullAt(u)
    BY <1>1 DEF LeaseInv, PullInv, At
  <2>2. task[u].id \in Records
    BY <2>1, TaskInfo DEF At
  <2>3. status'[task[u].id] = status[task[u].id]
    BY <2>1, <2>2 DEF PullAt
  <2>4. QED
    BY <2>1, <2>3 DEF PullAt, At
<1>2. QED
  BY <1>1 DEF PullInv, PullAt, At

-----------------------------------------------------------------------------
(* The frames: what a step has to show for LeaseInv to survive it.         *)

(* A step of the owner's call: it keeps the lease, hands it on or frees it. *)
LEMMA OwnerStep ==
  ASSUME TypeOK, LeaseInv, NEW t \in Tasks, NEW r \in Records,
         task[t].pc \in OwnerPCs, r = task[t].id,
         \A u \in Tasks : u # t => task'[u] = task[u],
         task'[t].pc # "transfer",
         \A x \in Records : x # r => status'[x] = status[x],
         UNCHANGED <<nextGen, head, accepted>>, pulled \subseteq pulled',
         \/ lease' = NoLease /\ status'[r] \notin RequiresLease
         \/ /\ lease'.owner = r /\ lease'.gen = lease.gen /\ lease' # NoLease
            /\ status'[r] \in PhaseStatuses(r, lease'.phase),
         task'[t].pc \in OwnerPCs =>
            /\ task'[t].id = r /\ task'[t].gen = lease.gen
            /\ lease' = [owner |-> r, phase |-> PhaseAt(task'[t].pc), gen |-> lease.gen],
         task'[t].pc = "scanHead" =>
            /\ task'[t].id = r /\ task'[t].gen = lease.gen /\ task'[t].reply = "none"
            /\ lease'.phase = "AppendConfirmedRootPending" /\ lease' # NoLease,
         ReadAt(t)', TreeInv', LateAppendInv'
  PROVE  LeaseInv'
<1>0. /\ r \in Records /\ lease # NoLease /\ lease.owner = r
      /\ lease.phase = PhaseAt(task[t].pc)
      /\ status[r] \in PhaseStatuses(r, lease.phase) /\ lease.phase \in LeasePhases
      /\ \A u \in Tasks : u # t => task[u].pc \notin OwnerPCs
  BY Owner, LeaseFacts
<1>1. OneOwner'
  BY <1>0 DEF OneOwner
<1>2. ResumedCallOwnsLease'
  <2>1. ASSUME NEW u \in Tasks, task'[u].pc \in OwnerPCs
        PROVE  LeaseExpect(task[u].id, task[u].gen, PhaseAt(task[u].pc))'
    <3>1. u = t
      BY <1>0, <2>1
    <3>2. QED
      BY <2>1, <3>1 DEF LeaseExpect
  <2>2. QED
    BY <2>1 DEF ResumedCallOwnsLease, OwnerPCs
<1>3. StatusInv'
  <2>1. lease' # NoLease => status'[lease'.owner] \in PhaseStatuses(lease'.owner, lease'.phase)
    OBVIOUS
  <2>2. LeaseFreeSweepPasses'
    <3>1. ASSUME NEW x \in Records, status'[x] \in RequiresLease PROVE lease'.owner = x
      <4>1. CASE x = r
        BY <3>1, <4>1
      <4>2. CASE x # r
        BY <1>0, <3>1, <4>2 DEF LeaseInv, StatusInv, LeaseFreeSweepPasses
      <4>3. QED
        BY <4>1, <4>2
    <3>2. QED
      BY <3>1 DEF LeaseFreeSweepPasses
  <2>3. QED
    BY <2>1, <2>2 DEF StatusInv, PhaseStatuses, AppendInFlight, AppendUnknown, ReconcileStatus, AppendConfirmed
<1>4. GenInv'
  <2>1. lease.gen < nextGen /\ lease.gen \in Nat /\ nextGen \in Nat
    BY LeaseFacts DEF LeaseInv, GenInv
  <2>2. lease'.gen = lease.gen \/ lease'.gen = 0
    BY LeaseFacts
  <2>3. QED
    BY <2>1, <2>2 DEF GenInv
<1>5. ReadInv'
  <2>1. ASSUME NEW u \in Tasks, u # t PROVE ReadAt(u)'
    BY <1>0, <2>1 DEF ReadAt, At, OwnerPCs
  <2>2. QED
    BY <2>1 DEF ReadInv
<1>6. ScanInv'
  <2>1. ASSUME NEW u \in Tasks, u # t PROVE ScanAt(u)'
    <3>1. ScanAt(u) /\ task'[u] = task[u]
      BY <2>1 DEF LeaseInv, ScanInv
    <3>2. lease.phase # "AppendConfirmedRootPending"
      BY <1>0 DEF PhaseAt, OwnerPCs
    <3>3. QED
      BY <1>0, <3>1, <3>2 DEF ScanAt, At
  <2>2. ScanAt(t)'
    BY <1>0 DEF ScanAt, At, LeaseInv, GenInv
  <2>3. QED
    BY <2>1, <2>2 DEF ScanInv
<1>7. HeadInv'
  BY DEF LeaseInv, HeadInv
<1>8. PullInv'
  <2>1. status[r] # "TransferPending"
    BY <1>0, PhaseStatusFacts DEF Early
  <2>2. QED
    BY <2>1, PullFrame
<1>9. QED
  BY <1>1, <1>2, <1>3, <1>4, <1>5, <1>6, <1>7, <1>8 DEF LeaseInv

(* A step of a call that has no part in the append protocol, or only reads *)
(* the scan head: it moves records that do not need the lease.             *)
LEMMA BystanderStep ==
  ASSUME TypeOK, LeaseInv, NEW t \in Tasks,
         \A u \in Tasks : u # t => task'[u] = task[u],
         task[t].pc \notin OwnerPCs, task'[t].pc \notin OwnerPCs,
         \A x \in Records : status'[x] = status[x]
                             \/ (status[x] \in Early /\ status'[x] \notin RequiresLease),
         \A x \in Records : index'[x] = index[x] \/ status[x] \in Early,
         UNCHANGED <<lease, nextGen, head, accepted, leaves, orphans>>,
         ScanAt(t)', PullInv'
  PROVE  LeaseInv'
<1>1. OneOwner'
  BY DEF LeaseInv, OneOwner
<1>2. ResumedCallOwnsLease'
  <2>1. \A u \in Tasks : task'[u].pc \in OwnerPCs =>
           LeaseExpect(task'[u].id, task'[u].gen, PhaseAt(task'[u].pc))
    BY DEF LeaseInv, ResumedCallOwnsLease, OwnerPCs
  <2>2. QED
    BY <2>1 DEF ResumedCallOwnsLease, LeaseExpect, OwnerPCs
<1>3. ASSUME lease # NoLease
      PROVE  /\ lease.owner \in Records /\ lease.phase \in LeasePhases
             /\ status[lease.owner] \in PhaseStatuses(lease.owner, lease.phase)
             /\ status[lease.owner] \notin Early
  BY <1>3, LeaseFacts, PhaseStatusFacts DEF LeaseInv, StatusInv
<1>4. StatusInv'
  <2>1. LeaseFreeSweepPasses'
    BY DEF LeaseInv, StatusInv, LeaseFreeSweepPasses, RequiresLease, Early
  <2>2. lease' # NoLease => status'[lease'.owner] \in PhaseStatuses(lease'.owner, lease'.phase)
    BY <1>3
  <2>3. QED
    BY <2>1, <2>2 DEF StatusInv, PhaseStatuses, AppendInFlight, AppendUnknown, ReconcileStatus,
       AppendConfirmed
<1>5. TreeInv'
  <2>1. lease.phase \in Unsettled => index'[lease.owner] = index[lease.owner]
    BY <1>3, LeaseFacts DEF Unsettled
  <2>2. QED
    BY <2>1 DEF LeaseInv, TreeInv, NothingNew, Appended, Items
<1>6. ReadInv'
  <2>1. ASSUME NEW u \in Tasks PROVE ReadAt(u)'
    <3>1. CASE u = t
      BY <3>1 DEF ReadAt, At, OwnerPCs
    <3>2. CASE u # t
      <4>1. task'[u] = task[u] /\ ReadAt(u)
        BY <3>2 DEF LeaseInv, ReadInv
      <4>2. NothingNew' = NothingNew /\ TreeQueueClear' = TreeQueueClear
        BY DEF NothingNew, TreeQueueClear
      <4>3. Appended(task[u].id)' = Appended(task[u].id)
        BY <4>1 DEF Appended, Items
      <4>4. QED
        BY <4>1, <4>2, <4>3 DEF ReadAt, At
    <3>3. QED
      BY <3>1, <3>2
  <2>2. QED
    BY <2>1 DEF ReadInv
<1>7. ScanInv'
  BY DEF LeaseInv, ScanInv, ScanAt, At
<1>8. (GenInv /\ LateAppendInv /\ HeadInv)'
  BY DEF LeaseInv, GenInv, LateAppendInv, HeadInv, NothingNew
<1>9. QED
  BY <1>1, <1>2, <1>4, <1>5, <1>6, <1>7, <1>8 DEF LeaseInv

-----------------------------------------------------------------------------
(* What the building blocks of the actions do to the call that runs. *)

LEMMA Awaits ==
  ASSUME TypeOK, NEW t \in Tasks, NEW pc, NEW r, NEW g, NEW guard, Await(t, Call(pc, r, g, guard))
  PROVE  /\ \A u \in Tasks : u # t => task'[u] = task[u]
         /\ task'[t].pc = pc /\ task'[t].id = r /\ task'[t].gen = g /\ task'[t].reply = "none"
<1>. DEFINE k == Call(pc, r, g, guard)
<1>1. task'[t] = k /\ \A u \in Tasks : u # t => task'[u] = task[u]
  BY TaskUpdate DEF Await
<1>2. k.pc = pc /\ k.id = r /\ k.gen = g /\ k.reply = "none"
  BY DEF Call
<1>3. QED
  BY <1>1, <1>2

LEMMA Finishes ==
  ASSUME TypeOK, NEW t \in Tasks, Finish(t)
  PROVE  (\A u \in Tasks : u # t => task'[u] = task[u]) /\ task'[t].pc = "idle"
<1>1. task'[t] = IdleTask /\ \A u \in Tasks : u # t => task'[u] = task[u]
  BY TaskUpdate DEF Finish
<1>2. QED
  BY <1>1 DEF IdleTask, Call

LEMMA Answers ==
  ASSUME TypeOK, NEW t \in Tasks, NEW rep, NEW n,
         Answer(t, rep) \/ (rep = "ok" /\ AnswerCount(t, n))
  PROVE  /\ \A u \in Tasks : u # t => task'[u] = task[u]
         /\ task'[t].pc = task[t].pc /\ task'[t].id = task[t].id /\ task'[t].gen = task[t].gen
         /\ task'[t].reply = rep /\ task'[t].anchor = task[t].anchor
         /\ AnswerCount(t, n) => task'[t].num = n
<1>. DEFINE k == [task[t] EXCEPT !.reply = rep]
            l == [task[t] EXCEPT !.reply = "ok", !.num = n]
<1>1. task[t] \in TaskType
  BY TaskInfo
<1>2. /\ k.pc = task[t].pc /\ k.id = task[t].id /\ k.gen = task[t].gen /\ k.reply = rep
      /\ k.anchor = task[t].anchor
      /\ l.pc = task[t].pc /\ l.id = task[t].id /\ l.gen = task[t].gen /\ l.reply = "ok" /\ l.num = n
      /\ l.anchor = task[t].anchor
  BY <1>1 DEF TaskType
<1>3. /\ Answer(t, rep) => task' = [task EXCEPT ![t] = k]
      /\ AnswerCount(t, n) => task' = [task EXCEPT ![t] = l]
  BY DEF Answer, AnswerCount, TypeOK
<1>4. /\ Answer(t, rep) => task'[t] = k
      /\ AnswerCount(t, n) => task'[t] = l
      /\ \A u \in Tasks : u # t => task'[u] = task[u]
  BY <1>3, TaskUpdate
<1>5. QED
  BY <1>2, <1>4

-----------------------------------------------------------------------------
(* The steps of the owner's call. *)

(* The call asks, or is answered, and the pool itself stays as it was. *)
LEMMA OwnerReads ==
  ASSUME TypeOK, LeaseInv, NEW t \in Tasks, task[t].pc \in OwnerPCs,
         \A u \in Tasks : u # t => task'[u] = task[u],
         task'[t].pc \in OwnerPCs, PhaseAt(task'[t].pc) = PhaseAt(task[t].pc),
         task'[t].id = task[t].id, task'[t].gen = task[t].gen,
         UNCHANGED <<pool, outside>>, ReadAt(t)'
  PROVE  LeaseInv'
<1>. DEFINE r == task[t].id
<1>1. /\ r \in Records /\ lease # NoLease /\ lease.owner = r /\ lease.gen = task[t].gen
      /\ lease.phase = PhaseAt(task[t].pc) /\ status[r] \in PhaseStatuses(r, lease.phase)
      /\ lease = [owner |-> r, phase |-> PhaseAt(task[t].pc), gen |-> lease.gen]
  BY Owner, LeaseFacts
<1>2. TreeInv'
  BY DEF LeaseInv, TreeInv, NothingNew, Appended, Items, pool, outside
<1>3. LateAppendInv'
  BY DEF LeaseInv, LateAppendInv, NothingNew, pool, outside
<1>4. UNCHANGED <<status, lease, nextGen, head, accepted, pulled>>
  BY DEF pool, outside
<1>. HIDE DEF r
<1>5. QED
  BY <1>1, <1>2, <1>3, <1>4, OwnerStep DEF OwnerPCs, r

(* The phase of the lease moves; the tree, the head and the late requests  *)
(* stay.  The record goes to a status of the new phase.                    *)
LEMMA OwnerMoves ==
  ASSUME TypeOK, LeaseInv, NEW t \in Tasks, task[t].pc \in OwnerPCs, NEW r \in Records,
         r = task[t].id, NEW p \in Unsettled,
         \A u \in Tasks : u # t => task'[u] = task[u],
         \A x \in Records : x # r => status'[x] = status[x],
         status'[r] \in PhaseStatuses(r, p),
         lease' = [lease EXCEPT !.phase = p], index'[r] = head,
         UNCHANGED <<nextGen, head, accepted, leaves, pulled, orphans>>,
         NothingNew \/ Appended(r), p = "AppendConfirmedRootPending" => Appended(r),
         p \in {"AppendUnknown", "ReconcileInFlight"} \/ TreeQueueClear,
         \/ task'[t].pc = "idle"
         \/ /\ task'[t].pc = "append" \/ task'[t].pc = "scanHead"
            /\ task'[t].id = r /\ task'[t].gen = lease.gen /\ task'[t].reply = "none"
            /\ task'[t].pc = "append" => p = "AppendInFlight" /\ NothingNew
            /\ task'[t].pc = "scanHead" => p = "AppendConfirmedRootPending"
  PROVE  LeaseInv'
<1>1. lease # NoLease /\ lease.owner = r /\ lease.phase \in LeasePhases
  BY Owner, LeaseFacts
<1>2. lease' = [owner |-> r, phase |-> p, gen |-> lease.gen]
  BY <1>1, LeaseFacts
<1>3. lease'.owner = r /\ lease'.gen = lease.gen /\ lease'.phase = p /\ lease' # NoLease
  BY <1>2 DEF NoLease, Unsettled
<1>4. NothingNew' = NothingNew /\ Appended(r)' = Appended(r)
  BY DEF NothingNew, Appended, Items
<1>5. TreeInv'
  <2>1. index'[lease'.owner] = head'
    BY <1>3
  <2>2. Appended(lease.owner)' = Appended(r)
    BY <1>3 DEF Appended, Items
  <2>3. QED
    BY <1>3, <1>4, <2>1, <2>2 DEF TreeInv
<1>6. LateAppendInv'
  <2>1. ASSUME NEW o \in orphans, o.kind = "append"
        PROVE  lease.owner = o.id /\ NothingNew /\ p \in {"AppendUnknown", "ReconcileInFlight"}
    BY <2>1 DEF LeaseInv, LateAppendInv, TreeQueueClear
  <2>2. QED
    BY <1>1, <1>3, <1>4, <2>1 DEF LateAppendInv
<1>7. ReadAt(t)'
  BY <1>4 DEF ReadAt, At
<1>8. task'[t].pc \in OwnerPCs => task'[t].pc = "append" /\ PhaseAt(task'[t].pc) = p
  BY DEF OwnerPCs, PhaseAt
<1>9. QED
  BY <1>2, <1>3, <1>5, <1>6, <1>7, <1>8, OwnerStep

(* The lease goes back, with nothing new in the tree. *)
LEMMA OwnerReleases ==
  ASSUME TypeOK, LeaseInv, NEW t \in Tasks, task[t].pc \in OwnerPCs, NEW r \in Records,
         r = task[t].id, Finish(t), LeaseRelease(r, task[t].gen),
         \A x \in Records : x # r => status'[x] = status[x],
         status'[r] \notin RequiresLease,
         UNCHANGED <<nextGen, head, accepted, leaves, pulled, orphans>>,
         NothingNew, TreeQueueClear
  PROVE  LeaseInv'
<1>1. lease' = NoLease
  BY Owner DEF LeaseRelease
<1>2. (\A u \in Tasks : u # t => task'[u] = task[u]) /\ task'[t].pc = "idle"
  BY Finishes
<1>3. TreeInv'
  BY <1>1, LeaseFacts DEF TreeInv, Unsettled, NothingNew
<1>4. LateAppendInv'
  BY DEF LateAppendInv, TreeQueueClear
<1>5. ReadAt(t)'
  BY <1>2 DEF ReadAt, At
<1>6. QED
  BY <1>1, <1>2, <1>3, <1>4, <1>5, OwnerStep DEF OwnerPCs

(* Before the lease is in doubt no late append is under way. *)
LEMMA QueueClear ==
  ASSUME TypeOK, LeaseInv, lease.phase \notin {"AppendUnknown", "ReconcileInFlight"}
  PROVE  TreeQueueClear
  BY DEF LeaseInv, LateAppendInv, TreeQueueClear

(* The tree answers the owner's reads: what it says stays true under the   *)
(* lease, for nobody else appends.                                         *)
LEMMA TreeCountKeeps ==
  ASSUME TypeOK, LeaseInv, NEW t \in Tasks, TreeCount(t)
  PROVE  LeaseInv'
<1>. DEFINE n == Len(leaves)
<1>1. /\ \A u \in Tasks : u # t => task'[u] = task[u]
      /\ task'[t].pc = task[t].pc /\ task'[t].id = task[t].id /\ task'[t].gen = task[t].gen
      /\ task'[t].reply = "ok" /\ task'[t].num = n
  BY Answers DEF TreeCount
<1>2. UNCHANGED <<pool, outside>> /\ TreeQueueClear /\ TreeQueueClear'
      /\ task[t].pc \in {"snapshot", "scanHead", "recCount", "spCountHit", "spCountMiss"}
  BY DEF TreeCount, TreeQueueClear, outside
<1>3. UNCHANGED <<status, index, lease, nextGen, head, accepted, leaves, pulled, orphans>>
  BY <1>2 DEF pool, outside
<1>4. NothingNew' = NothingNew /\ Appended(task[t].id)' = Appended(task[t].id)
  <2>1. Appended(task[t].id)' = Appended(task[t].id)
    BY <1>1, <1>3 DEF Appended, Items
  <2>2. QED
    BY <1>3, <2>1 DEF NothingNew
<1>5. CASE task[t].pc = "scanHead"
  <2>1. ScanAt(t)'
    BY <1>1, <1>3, <1>5 DEF LeaseInv, ScanInv, ScanAt, At
  <2>2. PullInv'
    BY <1>1, <1>3, <1>5, PullFrame
  <2>3. QED
    BY <1>1, <1>3, <1>5, <2>1, <2>2, BystanderStep DEF OwnerPCs
<1>6. CASE task[t].pc # "scanHead"
  <2>1. task[t].pc \in OwnerPCs /\ ReadAt(t)
    BY <1>2, <1>6 DEF OwnerPCs, LeaseInv, ReadInv
  <2>2. task[t].pc = "snapshot" => NothingNew
    BY <2>1, Owner DEF LeaseInv, TreeInv, PhaseAt, Unsettled
  <2>3. task[t].pc = "spCountMiss" => NothingNew
    BY <2>1 DEF ReadAt, At
  <2>5. ReadAt(t)'
    <3>1. task'[t].pc = "spCountHit" => Appended(task[t].id)'
      BY <1>1, <1>4, <2>1 DEF ReadAt, At
    <3>2. task'[t].pc \in {"snapshot", "spCountMiss"} => task'[t].num = head' /\ NothingNew'
      BY <1>1, <1>3, <1>4, <2>2, <2>3 DEF NothingNew
    <3>3. QED
      BY <1>1, <1>2, <1>3, <3>1, <3>2 DEF ReadAt, At
  <2>6. QED
    BY <1>1, <1>2, <2>1, <2>5, OwnerReads
<1>7. QED
  BY <1>5, <1>6

(* The leaf the reconciliation asks for is ours exactly if the append ran. *)
LEMMA LeafAnswer ==
  ASSUME TypeOK, LeaseInv, NEW r \in Records, lease.phase = "ReconcileInFlight", lease.owner = r
  PROVE  /\ FirstLeafIsOurs(r) <=> Appended(r)
         /\ Appended(r) => OtherLeavesAreOurs(r)
         /\ ~Appended(r) => NothingNew
<1>1. index[r] = head /\ (NothingNew \/ Appended(r))
  BY DEF LeaseInv, TreeInv, Unsettled
<1>2. /\ Len(Items(r)) \in Nat /\ Len(Items(r)) >= 1 /\ head \in Nat /\ Len(leaves) \in Nat
      /\ \A j \in 1..Len(Items(r)) : Items(r)[j] # NoRecord
  BY ItemsFacts, LeaseFacts
<1>3. Appended(r) => \A j \in 1..Len(Items(r)) : LeafAt(index[r] + j) = Items(r)[j]
  <2>1. ASSUME Appended(r), NEW j \in 1..Len(Items(r))
        PROVE  head + j \in 1..Len(leaves) /\ leaves[head + j] = Items(r)[j]
    BY <1>2, <2>1 DEF Appended
  <2>2. QED
    BY <1>1, <2>1 DEF LeafAt
<1>4. NothingNew => LeafAt(index[r] + 1) = NoRecord
  BY <1>1, <1>2 DEF NothingNew, LeafAt
<1>5. 1 \in 1..Len(Items(r)) /\ \A j \in 2..Len(Items(r)) : j \in 1..Len(Items(r))
  BY <1>2
<1>6. QED
  BY <1>1, <1>2, <1>3, <1>4, <1>5 DEF FirstLeafIsOurs, OtherLeavesAreOurs

LEMMA TreeLeafKeeps ==
  ASSUME TypeOK, LeaseInv, NEW t \in Tasks, TreeLeaf(t)
  PROVE  LeaseInv'
<1>. DEFINE r == task[t].id
            ours == IF At(t, "spRest") THEN OtherLeavesAreOurs(r) ELSE FirstLeafIsOurs(r)
            rep == IF ours THEN "hit" ELSE "miss"
<1>1. Answer(t, rep) /\ UNCHANGED <<pool, outside>> /\ TreeQueueClear
      /\ task[t].pc \in {"recLeaf", "spLeaf", "spRest"}
  BY DEF TreeLeaf
<1>. HIDE DEF rep
<1>2. /\ \A u \in Tasks : u # t => task'[u] = task[u]
      /\ task'[t].pc = task[t].pc /\ task'[t].id = r /\ task'[t].gen = task[t].gen
      /\ task'[t].reply = rep
  BY <1>1, Answers
<1>3. task[t].pc \in OwnerPCs /\ ReadAt(t)
  BY <1>1 DEF OwnerPCs, LeaseInv, ReadInv
<1>4. r \in Records /\ lease.phase = "ReconcileInFlight" /\ lease.owner = r
  BY <1>1, <1>3, Owner DEF PhaseAt
<1>5. /\ task[t].pc # "spLeaf" => Appended(r) /\ rep # "miss"
      /\ task[t].pc = "spLeaf" /\ rep = "hit" => Appended(r)
      /\ task[t].pc = "spLeaf" /\ rep = "miss" => NothingNew
  BY <1>1, <1>3, <1>4, LeafAnswer DEF rep, ReadAt, At
<1>6. UNCHANGED <<head, leaves, orphans>>
  BY <1>1 DEF pool, outside
<1>7. NothingNew' = NothingNew /\ TreeQueueClear' = TreeQueueClear
  BY <1>6 DEF NothingNew, TreeQueueClear
<1>8. Appended(task[t].id)' = Appended(task[t].id)
  BY <1>2, <1>6 DEF Appended, Items
<1>9. ReadAt(t)'
  BY <1>1, <1>2, <1>5, <1>7, <1>8 DEF ReadAt, At
<1>10. QED
  BY <1>1, <1>2, <1>3, <1>9, OwnerReads

(* The append itself: the whole batch, or nothing. *)
LEMMA TreeAppendKeeps ==
  ASSUME TypeOK, LeaseInv, NEW t \in Tasks, TreeAppend(t)
  PROVE  LeaseInv'
<1>. DEFINE r == task[t].id
            full == ~TreeHasRoom(r)
            rep == IF full THEN "err" ELSE "ok"
<1>1. /\ task[t].pc = "append" /\ task[t].reply = "none" /\ task[t].pc \in OwnerPCs
      /\ UNCHANGED <<pool, spentBy, pulled, orphans>>
      /\ Answer(t, rep) \/ (rep = "ok" /\ AnswerCount(t, Len(leaves)))
      /\ ~full => AnswerCount(t, Len(leaves))
      /\ leaves' = IF full THEN leaves ELSE leaves \o Items(r)
  BY DEF TreeAppend, At, OwnerPCs
<1>. HIDE DEF rep, full
<1>2. /\ \A u \in Tasks : u # t => task'[u] = task[u]
      /\ task'[t].pc = "append" /\ task'[t].id = r /\ task'[t].gen = task[t].gen
      /\ task'[t].reply = rep /\ (~full => task'[t].num = Len(leaves))
  BY <1>1, Answers
<1>3. /\ r \in Records /\ lease.owner = r /\ lease.phase = "AppendInFlight" /\ lease # NoLease
      /\ status[r] \in PhaseStatuses(r, lease.phase)
      /\ lease.gen = task[t].gen
      /\ lease = [owner |-> r, phase |-> PhaseAt("append"), gen |-> lease.gen]
  BY <1>1, Owner, LeaseFacts DEF PhaseAt
<1>4. NothingNew /\ index[r] = head /\ TreeQueueClear
  BY <1>1, <1>3, QueueClear DEF LeaseInv, ReadInv, ReadAt, TreeInv, Unsettled, At
<1>5. UNCHANGED <<status, index, lease, nextGen, head, accepted, pulled, orphans>>
  BY <1>1 DEF pool
<1>6. Len(Items(r)) \in Nat /\ Items(r) \in Seq(Notes) /\ leaves \in Seq(Notes) /\ head \in Nat
  BY <1>3, ItemsFacts DEF TypeOK
<1>7. full => NothingNew'
  BY <1>1, <1>4, <1>5 DEF NothingNew
<1>8. ~full => /\ Len(leaves') = head' + Len(Items(r))
               /\ \A j \in 1..Len(Items(r)) : leaves'[head' + j] = Items(r)[j]
  BY <1>1, <1>4, <1>5, <1>6 DEF NothingNew
<1>9. ~full => Appended(task[t].id)'
  BY <1>2, <1>8 DEF Appended, Items
<1>10. ReadAt(t)'
  BY <1>2, <1>4, <1>5, <1>7, <1>9 DEF ReadAt, At, NothingNew, rep
<1>11. TreeInv'
  <2>1. index'[lease'.owner] = head' /\ lease'.phase = "AppendInFlight"
    BY <1>3, <1>4, <1>5
  <2>2. ~full => Appended(lease.owner)'
    BY <1>3, <1>5, <1>8 DEF Appended, Items
  <2>3. QED
    BY <1>7, <2>1, <2>2 DEF TreeInv, Unsettled
<1>12. LateAppendInv'
  BY <1>4, <1>5 DEF LateAppendInv, TreeQueueClear
<1>. HIDE DEF r
<1>13. QED
  BY <1>1, <1>2, <1>3, <1>5, <1>10, <1>11, <1>12, OwnerStep DEF r

LEMMA AppendableFacts ==
  /\ Appendable \cap RequiresLease = {} /\ Appendable \cap Early = {}
  /\ \A x \in Early : x \notin RequiresLease
  BY DEF Appendable, RequiresLease, Early

LEMMA ClaimAppendKeeps ==
  ASSUME TypeOK, LeaseInv, NEW t \in Tasks, ClaimAppend(t)
  PROVE  LeaseInv'
<1>. DEFINE r == task[t].id
            ready == status[r] \in Appendable /\ (r \in Spends => r \in staged)
<1>1. /\ task[t].pc = "snapshot" /\ task[t].reply = "ok" /\ task[t].pc \in OwnerPCs
      /\ UNCHANGED <<nextGen, head, accepted, leaves, pulled, orphans>>
  BY DEF ClaimAppend, At, OwnerPCs, outside
<1>2. /\ r \in Records /\ lease.owner = r /\ lease.phase = "Snapshotting"
      /\ LeaseExpect(r, task[t].gen, "Snapshotting") /\ lease.gen = task[t].gen
      /\ status[r] \in Appendable
  BY <1>1, Owner, PhaseStatusFacts DEF PhaseAt, LeasePhases
<1>3. NothingNew /\ TreeQueueClear /\ task[t].num = head
  BY <1>1, <1>2, QueueClear DEF LeaseInv, ReadInv, ReadAt, TreeInv, Unsettled, At
<1>4. CASE ready
  <2>1. /\ index' = [index EXCEPT ![r] = task[t].num]
        /\ SetStatus(r, AppendInFlight(r))
        /\ lease' = [lease EXCEPT !.phase = "AppendInFlight"]
        /\ Await(t, Call("append", r, task[t].gen, task[t].guard))
    BY <1>2, <1>4 DEF ClaimAppend, LeaseTransition
  <2>2. index'[r] = head
    BY <1>2, <1>3, <2>1 DEF TypeOK
  <2>3. status'[r] = AppendInFlight(r) /\ \A x \in Records : x # r => status'[x] = status[x]
    BY <1>2, <2>1, StatusUpdate
  <2>4. /\ \A u \in Tasks : u # t => task'[u] = task[u]
        /\ task'[t].pc = "append" /\ task'[t].id = r /\ task'[t].gen = lease.gen
        /\ task'[t].reply = "none"
    BY <1>2, <2>1, Awaits
  <2>5. AppendInFlight(r) \in PhaseStatuses(r, "AppendInFlight")
    BY <1>2, PhaseStatusFacts DEF LeasePhases
  <2>6. QED
    BY <1>1, <1>2, <1>3, <2>1, <2>2, <2>3, <2>4, <2>5, OwnerMoves DEF Unsettled
<1>5. CASE ~ready
  <2>1. LeaseRelease(r, task[t].gen) /\ Finish(t) /\ UNCHANGED status
    BY <1>5 DEF ClaimAppend
  <2>2. QED
    BY <1>1, <1>2, <1>3, <2>1, AppendableFacts, OwnerReleases
<1>6. QED
  BY <1>4, <1>5

LEMMA SnapshotFailsKeeps ==
  ASSUME TypeOK, LeaseInv, NEW t \in Tasks, SnapshotFails(t)
  PROVE  LeaseInv'
<1>1. /\ task[t].pc = "snapshot" /\ task[t].pc \in OwnerPCs
      /\ UNCHANGED <<status, nextGen, head, accepted, leaves, pulled, orphans>>
      /\ LeaseRelease(task[t].id, task[t].gen) /\ Finish(t)
  BY DEF SnapshotFails, At, OwnerPCs, outside
<1>2. /\ task[t].id \in Records /\ lease.phase = "Snapshotting"
      /\ status[task[t].id] \in Appendable
  BY <1>1, Owner, PhaseStatusFacts DEF PhaseAt, LeasePhases
<1>3. NothingNew /\ TreeQueueClear
  BY <1>2, QueueClear DEF LeaseInv, TreeInv, Unsettled
<1>4. QED
  BY <1>1, <1>2, <1>3, AppendableFacts, OwnerReleases

(* The reply of the append: confirmed, refused, or lost. *)
LEMMA AppendCall ==
  ASSUME TypeOK, LeaseInv, NEW t \in Tasks, task[t].pc = "append"
  PROVE  /\ task[t].pc \in OwnerPCs /\ task[t].id \in Records
         /\ lease # NoLease /\ lease.owner = task[t].id /\ lease.gen = task[t].gen
         /\ lease.phase = "AppendInFlight" /\ LeaseExpect(task[t].id, task[t].gen, "AppendInFlight")
         /\ status[task[t].id] = AppendInFlight(task[t].id)
         /\ TreeQueueClear /\ index[task[t].id] = head
         /\ IF task[t].reply = "ok" THEN task[t].num = head /\ Appended(task[t].id) ELSE NothingNew
<1>1. task[t].pc \in OwnerPCs
  BY DEF OwnerPCs
<1>2. /\ task[t].id \in Records /\ lease # NoLease /\ lease.owner = task[t].id
      /\ lease.gen = task[t].gen /\ lease.phase = "AppendInFlight"
      /\ LeaseExpect(task[t].id, task[t].gen, "AppendInFlight")
      /\ status[task[t].id] \in PhaseStatuses(task[t].id, "AppendInFlight")
  BY <1>1, Owner DEF PhaseAt
<1>3. status[task[t].id] = AppendInFlight(task[t].id)
  BY <1>2, PhaseStatusFacts DEF LeasePhases
<1>4. QED
  BY <1>1, <1>2, <1>3, QueueClear DEF LeaseInv, ReadInv, ReadAt, TreeInv, Unsettled, At

LEMMA CreditKeeps ==
  ASSUME TypeOK, LeaseInv, NEW t \in Tasks, NEW d \in Deposits, d = task[t].id,
         task[t].pc \in OwnerPCs, NEW i, i = head, NEW phase, CreditDeposit(t, d, i, phase),
         Appended(d), TreeQueueClear,
         UNCHANGED <<nextGen, head, accepted, leaves, pulled, orphans>>
  PROVE  LeaseInv'
<1>1. d \in Records /\ lease.gen = task[t].gen
  BY Owner
<1>2. /\ lease' = [lease EXCEPT !.phase = "AppendConfirmedRootPending"]
      /\ index' = [index EXCEPT ![d] = i] /\ SetStatus(d, "CommitmentAppended")
      /\ Await(t, Call("scanHead", d, task[t].gen, {}))
  BY DEF CreditDeposit, LeaseTo
<1>3. index'[d] = head
  BY <1>1, <1>2 DEF TypeOK
<1>4. status'[d] = "CommitmentAppended" /\ \A x \in Records : x # d => status'[x] = status[x]
  BY <1>1, <1>2, StatusUpdate
<1>5. /\ \A u \in Tasks : u # t => task'[u] = task[u]
      /\ task'[t].pc = "scanHead" /\ task'[t].id = d /\ task'[t].gen = lease.gen
      /\ task'[t].reply = "none"
  BY <1>1, <1>2, Awaits
<1>6. "CommitmentAppended" \in PhaseStatuses(d, "AppendConfirmedRootPending")
  BY DEF PhaseStatuses, AppendConfirmed
<1>7. QED
  BY <1>1, <1>2, <1>3, <1>4, <1>5, <1>6, OwnerMoves DEF Unsettled

LEMMA DepositAppendedKeeps ==
  ASSUME TypeOK, LeaseInv, NEW t \in Tasks, DepositAppended(t)
  PROVE  LeaseInv'
<1>1. task[t].pc = "append" /\ task[t].reply = "ok" /\ task[t].id \in Deposits
      /\ UNCHANGED <<nextGen, head, accepted, leaves, pulled, orphans>>
      /\ CreditDeposit(t, task[t].id, task[t].num, "AppendInFlight")
  BY DEF DepositAppended, At, outside
<1>2. QED
  BY <1>1, AppendCall, CreditKeeps

(* A spend whose append is confirmed, by the reply or by a reconciliation. *)
LEMMA ConfirmKeeps ==
  ASSUME TypeOK, LeaseInv, NEW t \in Tasks, NEW s \in Spends, s = task[t].id,
         task[t].pc \in OwnerPCs, SetStatus(s, "ActiveRootPending"),
         LeaseTo("AppendConfirmedRootPending"), NEW guard,
         Await(t, Call("scanHead", s, task[t].gen, guard)),
         Appended(s), TreeQueueClear, index[s] = head,
         UNCHANGED <<index, nextGen, head, accepted, leaves, pulled, orphans>>
  PROVE  LeaseInv'
<1>1. s \in Records /\ lease.gen = task[t].gen /\ s \notin Deposits
  BY Owner, SpendFacts
<1>2. lease' = [lease EXCEPT !.phase = "AppendConfirmedRootPending"]
  BY DEF LeaseTo
<1>3. status'[s] = "ActiveRootPending" /\ \A x \in Records : x # s => status'[x] = status[x]
  BY <1>1, StatusUpdate
<1>4. /\ \A u \in Tasks : u # t => task'[u] = task[u]
      /\ task'[t].pc = "scanHead" /\ task'[t].id = s /\ task'[t].gen = lease.gen
      /\ task'[t].reply = "none"
  BY <1>1, Awaits
<1>5. "ActiveRootPending" \in PhaseStatuses(s, "AppendConfirmedRootPending")
  BY <1>1 DEF PhaseStatuses, AppendConfirmed
<1>6. QED
  BY <1>1, <1>2, <1>3, <1>4, <1>5, OwnerMoves DEF Unsettled

LEMMA SpendAppendedKeeps ==
  ASSUME TypeOK, LeaseInv, NEW t \in Tasks, SpendAppended(t)
  PROVE  LeaseInv'
<1>1. task[t].pc = "append" /\ task[t].reply = "ok" /\ task[t].id \in Spends
      /\ UNCHANGED <<index, nextGen, head, accepted, leaves, pulled, orphans>>
      /\ SetStatus(task[t].id, "ActiveRootPending") /\ LeaseTo("AppendConfirmedRootPending")
      /\ Await(t, Call("scanHead", task[t].id, task[t].gen, task[t].guard))
  BY DEF SpendAppended, At, outside
<1>2. QED
  BY <1>1, AppendCall, ConfirmKeeps

LEMMA RevertKeeps ==
  ASSUME TypeOK, LeaseInv, NEW t \in Tasks,
         AppendRejected(t) \/ SpendAppendDefinitelyNot(t)
  PROVE  LeaseInv'
<1>. DEFINE r == task[t].id
<1>1. /\ task[t].pc = "append" /\ task[t].reply # "ok"
      /\ UNCHANGED <<nextGen, head, accepted, leaves, pulled, orphans>>
      /\ RevertRejectedAppend(t)
  BY DEF AppendRejected, SpendAppendDefinitelyNot, At, outside
<1>2. /\ \E st \in Appendable : SetStatus(r, st)
      /\ LeaseRelease(r, task[t].gen) /\ Finish(t)
  BY <1>1 DEF RevertRejectedAppend, Appendable
<1>3. r \in Records /\ NothingNew /\ TreeQueueClear /\ task[t].pc \in OwnerPCs
  BY <1>1, AppendCall
<1>4. status'[r] \in Appendable /\ \A x \in Records : x # r => status'[x] = status[x]
  BY <1>2, <1>3, StatusUpdate
<1>5. QED
  BY <1>1, <1>2, <1>3, <1>4, AppendableFacts, OwnerReleases

LEMMA AppendOutcomeUnknownKeeps ==
  ASSUME TypeOK, LeaseInv, NEW t \in Tasks, AppendOutcomeUnknown(t)
  PROVE  LeaseInv'
<1>. DEFINE r == task[t].id
<1>1. /\ task[t].pc = "append" /\ Finish(t) /\ SetStatus(r, AppendUnknown(r))
      /\ LeaseTransition(r, task[t].gen, "AppendInFlight", "AppendUnknown")
      /\ UNCHANGED <<index, nextGen, head, accepted, leaves, pulled, orphans>>
  BY DEF AppendOutcomeUnknown, At, outside
<1>2. /\ task[t].pc \in OwnerPCs /\ r \in Records /\ index[r] = head
      /\ LeaseExpect(r, task[t].gen, "AppendInFlight") /\ (NothingNew \/ Appended(r))
  BY <1>1, AppendCall
<1>3. lease' = [lease EXCEPT !.phase = "AppendUnknown"]
  BY <1>1, <1>2 DEF LeaseTransition
<1>4. status'[r] = AppendUnknown(r) /\ \A x \in Records : x # r => status'[x] = status[x]
  BY <1>1, <1>2, StatusUpdate
<1>5. (\A u \in Tasks : u # t => task'[u] = task[u]) /\ task'[t].pc = "idle"
  BY <1>1, Finishes
<1>6. AppendUnknown(r) \in PhaseStatuses(r, "AppendUnknown")
  BY <1>2, PhaseStatusFacts DEF LeasePhases
<1>7. QED
  BY <1>1, <1>2, <1>3, <1>4, <1>5, <1>6, OwnerMoves DEF Unsettled

-----------------------------------------------------------------------------
(* The steps of a reconciliation. *)

ReconcilePCs == {"recCount", "recLeaf", "spLeaf", "spCountHit", "spCountMiss", "spRest"}

LEMMA ReconcileCall ==
  ASSUME TypeOK, LeaseInv, NEW t \in Tasks, task[t].pc \in ReconcilePCs
  PROVE  /\ task[t].pc \in OwnerPCs /\ task[t].id \in Records
         /\ lease # NoLease /\ lease.owner = task[t].id /\ lease.gen = task[t].gen
         /\ lease.phase = "ReconcileInFlight"
         /\ LeaseExpect(task[t].id, task[t].gen, "ReconcileInFlight")
         /\ status[task[t].id] = ReconcileStatus(task[t].id)
         /\ index[task[t].id] = head /\ (NothingNew \/ Appended(task[t].id))
         /\ ReadAt(t)
<1>1. task[t].pc \in OwnerPCs /\ PhaseAt(task[t].pc) = "ReconcileInFlight"
  BY DEF OwnerPCs, ReconcilePCs, PhaseAt
<1>2. /\ task[t].id \in Records /\ lease # NoLease /\ lease.owner = task[t].id
      /\ lease.gen = task[t].gen /\ lease.phase = "ReconcileInFlight"
      /\ LeaseExpect(task[t].id, task[t].gen, "ReconcileInFlight")
      /\ status[task[t].id] \in PhaseStatuses(task[t].id, "ReconcileInFlight")
  BY <1>1, Owner
<1>3. status[task[t].id] = ReconcileStatus(task[t].id)
  BY <1>2, PhaseStatusFacts DEF LeasePhases
<1>4. QED
  BY <1>1, <1>2, <1>3 DEF LeaseInv, ReadInv, TreeInv, Unsettled

(* An append that is found leaves no late request behind. *)
LEMMA AppendedClears ==
  ASSUME TypeOK, LeaseInv, NEW r \in Records, Appended(r)
  PROVE  TreeQueueClear /\ ~NothingNew /\ Len(leaves) = head + Len(Items(r)) /\ Len(leaves) > head
<1>1. Len(Items(r)) \in Nat /\ Len(Items(r)) >= 1 /\ head \in Nat /\ Len(leaves) \in Nat
  BY ItemsFacts, LeaseFacts
<1>2. Len(leaves) = head + Len(Items(r)) /\ Len(leaves) > head
  BY <1>1 DEF Appended
<1>3. ~NothingNew
  BY <1>1, <1>2 DEF NothingNew
<1>4. QED
  BY <1>2, <1>3 DEF LeaseInv, LateAppendInv, TreeQueueClear

(* The reconciliation asks its next question. *)
LEMMA AskKeeps ==
  ASSUME TypeOK, LeaseInv, NEW t \in Tasks,
         DepositAskLeaf(t) \/ SpendAskCount(t) \/ SpendAskRest(t)
  PROVE  LeaseInv'
<1>. DEFINE r == task[t].id
<1>1. /\ task[t].pc \in {"recCount", "spLeaf", "spCountHit"} /\ UNCHANGED <<pool, outside>>
      /\ \E pc \in {"recLeaf", "spCountHit", "spCountMiss", "spRest"} :
            /\ Await(t, Call(pc, r, task[t].gen, {}))
            /\ pc = "recLeaf" => At(t, "recCount") /\ task[t].reply = "ok" /\ task[t].num > index[r]
            /\ pc = "spCountHit" => At(t, "spLeaf") /\ task[t].reply = "hit"
            /\ pc = "spCountMiss" => At(t, "spLeaf") /\ task[t].reply = "miss"
            /\ pc = "spRest" => At(t, "spCountHit")
  <2>1. CASE DepositAskLeaf(t)
    BY <2>1 DEF DepositAskLeaf, At
  <2>2. CASE SpendAskCount(t)
    <3>1. /\ At(t, "spLeaf") /\ UNCHANGED <<pool, outside>>
          /\ \/ task[t].reply = "hit" /\ Await(t, Call("spCountHit", r, task[t].gen, {}))
             \/ task[t].reply = "miss" /\ Await(t, Call("spCountMiss", r, task[t].gen, {}))
      BY <2>2 DEF SpendAskCount
    <3>2. QED
      BY <3>1 DEF At
  <2>3. CASE SpendAskRest(t)
    BY <2>3 DEF SpendAskRest, At
  <2>4. QED
    BY <2>1, <2>2, <2>3
<1>2. PICK pc \in {"recLeaf", "spCountHit", "spCountMiss", "spRest"} :
            /\ Await(t, Call(pc, r, task[t].gen, {}))
            /\ pc = "recLeaf" => At(t, "recCount") /\ task[t].reply = "ok" /\ task[t].num > index[r]
            /\ pc = "spCountHit" => At(t, "spLeaf") /\ task[t].reply = "hit"
            /\ pc = "spCountMiss" => At(t, "spLeaf") /\ task[t].reply = "miss"
            /\ pc = "spRest" => At(t, "spCountHit")
  BY <1>1
<1>3. /\ task[t].pc \in OwnerPCs /\ r \in Records /\ PhaseAt(task[t].pc) = "ReconcileInFlight"
      /\ index[r] = head /\ (NothingNew \/ Appended(r)) /\ ReadAt(t)
  BY <1>1, ReconcileCall DEF ReconcilePCs, PhaseAt
<1>4. /\ \A u \in Tasks : u # t => task'[u] = task[u]
      /\ task'[t].pc = pc /\ task'[t].id = r /\ task'[t].gen = task[t].gen /\ task'[t].reply = "none"
  BY <1>2, Awaits
<1>5. pc # "spCountMiss" => Appended(r)
  <2>1. task[t].num > index[r] /\ task[t].num = Len(leaves) => ~NothingNew
    BY <1>3, LeaseFacts DEF NothingNew
  <2>2. QED
    BY <1>2, <1>3, <2>1 DEF ReadAt, At
<1>6. pc = "spCountMiss" => NothingNew /\ TreeQueueClear
  BY <1>2, <1>3 DEF ReadAt, At
<1>7. UNCHANGED <<head, leaves, orphans>>
  BY <1>1 DEF pool, outside
<1>8. NothingNew' = NothingNew /\ TreeQueueClear' = TreeQueueClear
  BY <1>7 DEF NothingNew, TreeQueueClear
<1>9. Appended(task[t].id)' = Appended(task[t].id)
  BY <1>4, <1>7 DEF Appended, Items
<1>10. ReadAt(t)'
  BY <1>4, <1>5, <1>6, <1>8, <1>9 DEF ReadAt, At
<1>11. task'[t].pc \in OwnerPCs /\ PhaseAt(task'[t].pc) = "ReconcileInFlight"
  BY <1>4 DEF OwnerPCs, PhaseAt
<1>12. QED
  BY <1>1, <1>3, <1>4, <1>10, <1>11, OwnerReads

LEMMA NotAppendedKeeps ==
  ASSUME TypeOK, LeaseInv, NEW t \in Tasks, DepositNotAppended(t) \/ SpendNotAppended(t)
  PROVE  LeaseInv'
<1>. DEFINE r == task[t].id
<1>1. /\ At(t, "recCount") \/ At(t, "spCountMiss")
      /\ task[t].pc \in ReconcilePCs /\ task[t].reply = "ok" /\ task[t].num <= index[r]
      /\ \E st \in Appendable : SetStatus(r, st)
      /\ Finish(t) /\ LeaseRelease(r, task[t].gen)
      /\ UNCHANGED <<nextGen, head, accepted, leaves, pulled, orphans>>
  BY DEF DepositNotAppended, SpendNotAppended, At, outside, ReconcilePCs, Appendable
<1>2. /\ task[t].pc \in OwnerPCs /\ r \in Records
      /\ index[r] = head /\ (NothingNew \/ Appended(r)) /\ ReadAt(t)
  BY <1>1, ReconcileCall
<1>3. NothingNew /\ TreeQueueClear
  <2>1. CASE At(t, "spCountMiss")
    BY <1>2, <2>1 DEF ReadAt
  <2>2. CASE At(t, "recCount")
    <3>1. TreeQueueClear /\ Len(leaves) <= head
      BY <1>1, <1>2, <2>2 DEF ReadAt
    <3>2. ~Appended(r)
      BY <1>2, <3>1, AppendedClears, LeaseFacts
    <3>3. QED
      BY <1>2, <3>1, <3>2
  <2>3. QED
    BY <1>1, <2>1, <2>2
<1>4. status'[r] \in Appendable /\ \A x \in Records : x # r => status'[x] = status[x]
  BY <1>1, <1>2, StatusUpdate
<1>5. QED
  BY <1>1, <1>2, <1>3, <1>4, AppendableFacts, OwnerReleases

LEMMA FoundAppendedKeeps ==
  ASSUME TypeOK, LeaseInv, NEW t \in Tasks, DepositFoundAppended(t) \/ SpendFoundAppended(t)
  PROVE  LeaseInv'
<1>. DEFINE r == task[t].id
<1>1. /\ At(t, "recLeaf") \/ At(t, "spRest") \/ At(t, "spCountHit")
      /\ task[t].pc \in ReconcilePCs
      /\ UNCHANGED <<nextGen, head, accepted, leaves, pulled, orphans>>
  BY DEF DepositFoundAppended, SpendFoundAppended, At, outside, ReconcilePCs
<1>2. task[t].pc \in OwnerPCs /\ r \in Records /\ index[r] = head /\ ReadAt(t)
  BY <1>1, ReconcileCall
<1>3. Appended(r) /\ TreeQueueClear
  BY <1>1, <1>2, AppendedClears DEF ReadAt
<1>4. CASE DepositFoundAppended(t)
  <2>1. CreditDeposit(t, r, index[r], "ReconcileInFlight") /\ r \in Deposits
    BY <1>4, TaskInfo DEF DepositFoundAppended, At
  <2>2. QED
    BY <1>1, <1>2, <1>3, <2>1, CreditKeeps
<1>5. CASE SpendFoundAppended(t)
  <2>1. /\ SetStatus(r, "ActiveRootPending") /\ LeaseTo("AppendConfirmedRootPending")
        /\ Await(t, Call("scanHead", r, task[t].gen, {}))
        /\ r \in Spends /\ UNCHANGED index
    BY <1>5, TaskInfo DEF SpendFoundAppended, At
  <2>2. QED
    BY <1>1, <1>2, <1>3, <2>1, ConfirmKeeps
<1>6. QED
  BY <1>4, <1>5

LEMMA ReconcileAppendFailsKeeps ==
  ASSUME TypeOK, LeaseInv, NEW t \in Tasks, ReconcileAppendFails(t)
  PROVE  LeaseInv'
<1>. DEFINE r == task[t].id
<1>1. /\ task[t].pc \in ReconcilePCs /\ Finish(t) /\ SetStatus(r, AppendUnknown(r))
      /\ LeaseTransition(r, task[t].gen, "ReconcileInFlight", "AppendUnknown")
      /\ UNCHANGED <<index, nextGen, head, accepted, leaves, pulled, orphans>>
  BY DEF ReconcileAppendFails, ReconcilePCs, outside
<1>2. /\ task[t].pc \in OwnerPCs /\ r \in Records /\ index[r] = head
      /\ LeaseExpect(r, task[t].gen, "ReconcileInFlight") /\ (NothingNew \/ Appended(r))
  BY <1>1, ReconcileCall
<1>3. lease' = [lease EXCEPT !.phase = "AppendUnknown"]
  BY <1>1, <1>2 DEF LeaseTransition
<1>4. status'[r] = AppendUnknown(r) /\ \A x \in Records : x # r => status'[x] = status[x]
  BY <1>1, <1>2, StatusUpdate
<1>5. (\A u \in Tasks : u # t => task'[u] = task[u]) /\ task'[t].pc = "idle"
  BY <1>1, Finishes
<1>6. AppendUnknown(r) \in PhaseStatuses(r, "AppendUnknown")
  BY <1>2, PhaseStatusFacts DEF LeasePhases
<1>7. QED
  BY <1>1, <1>2, <1>3, <1>4, <1>5, <1>6, OwnerMoves DEF Unsettled

-----------------------------------------------------------------------------
(* The confirmed append: publication, and the reads that lead to it. *)

(* Once the append is confirmed, or its outcome unknown, no call owns the  *)
(* lease.                                                                  *)
LEMMA NobodyOwns ==
  ASSUME TypeOK, LeaseInv,
         lease = NoLease \/ lease.phase \in {"AppendUnknown", "AppendConfirmedRootPending"}
  PROVE  \A u \in Tasks : task[u].pc \notin OwnerPCs
<1>1. ASSUME NEW u \in Tasks, task[u].pc \in OwnerPCs PROVE FALSE
  <2>1. lease # NoLease /\ lease.phase = PhaseAt(task[u].pc)
    BY <1>1, Owner
  <2>2. QED
    BY <2>1 DEF PhaseAt
<1>2. QED
  BY <1>1

(* A call that read the scan head under the lease it names. *)
LEMMA ScanCall ==
  ASSUME TypeOK, LeaseInv, NEW t \in Tasks, task[t].pc = "scanHead",
         LeaseExpect(task[t].id, task[t].gen, "AppendConfirmedRootPending")
  PROVE  /\ task[t].id \in Records /\ lease # NoLease /\ lease.owner = task[t].id
         /\ lease.gen = task[t].gen /\ lease.phase = "AppendConfirmedRootPending"
         /\ status[task[t].id] = AppendConfirmed(task[t].id)
         /\ index[task[t].id] = head /\ Appended(task[t].id)
         /\ task[t].reply = "ok" => task[t].num = Len(leaves)
<1>1. task[t].id \in Records
  BY TaskInfo
<1>2. /\ lease # NoLease /\ lease.owner = task[t].id
      /\ lease.gen = task[t].gen /\ lease.phase = "AppendConfirmedRootPending"
  BY <1>1, Held
<1>3. status[task[t].id] = AppendConfirmed(task[t].id)
  BY <1>1, <1>2, PhaseStatusFacts DEF LeaseInv, StatusInv, LeasePhases
<1>4. QED
  BY <1>1, <1>2, <1>3 DEF LeaseInv, TreeInv, Unsettled, ScanInv, ScanAt, At

LEMMA PublishKeeps ==
  ASSUME TypeOK, LeaseInv, NEW t \in Tasks, NEW r \in Records, r = task[t].id,
         task[t].pc = "scanHead", task[t].reply = "ok",
         LeaseExpect(r, task[t].gen, "AppendConfirmedRootPending"),
         CommitAcceptedRootHead(task[t].num), LeaseRelease(r, task[t].gen), Finish(t),
         \A x \in Records : x # r => status'[x] = status[x],
         status'[r] \in Closed, UNCHANGED <<nextGen, leaves, pulled, orphans>>
  PROVE  LeaseInv'
<1>1. /\ lease.owner = r /\ lease.gen = task[t].gen /\ lease.phase = "AppendConfirmedRootPending"
      /\ status[r] = AppendConfirmed(r) /\ Appended(r) /\ task[t].num = Len(leaves)
      /\ \A u \in Tasks : task[u].pc \notin OwnerPCs
  BY ScanCall, NobodyOwns
<1>2. lease' = NoLease
  BY <1>1 DEF LeaseRelease
<1>3. (\A u \in Tasks : u # t => task'[u] = task[u]) /\ task'[t].pc = "idle"
  BY Finishes
<1>4. Len(leaves) \in Nat /\ head \in Nat /\ Len(leaves) > head /\ TreeQueueClear
  BY <1>1, AppendedClears, LeaseFacts
<1>5. head' = Len(leaves) /\ accepted' = accepted \cup {Len(leaves)}
  BY <1>1 DEF CommitAcceptedRootHead
<1>6. \A u \in Tasks : task'[u].pc \notin OwnerPCs
  BY <1>1, <1>3 DEF OwnerPCs
<1>7. (OneOwner /\ ResumedCallOwnsLease)'
  BY <1>6 DEF OneOwner, ResumedCallOwnsLease, OwnerPCs
<1>8. StatusInv'
  <2>1. ASSUME NEW x \in Records PROVE status'[x] \notin RequiresLease
    <3>1. CASE x = r
      BY <3>1 DEF Closed, RequiresLease
    <3>2. CASE x # r
      BY <1>1, <3>2 DEF LeaseInv, StatusInv, LeaseFreeSweepPasses
    <3>3. QED
      BY <3>1, <3>2
  <2>2. QED
    BY <1>2, <2>1 DEF StatusInv, LeaseFreeSweepPasses
<1>9. GenInv'
  <2>1. 0 < nextGen
    BY LeaseFacts DEF LeaseInv, GenInv
  <2>2. QED
    BY <1>2, <2>1 DEF GenInv, NoLease
<1>10. TreeInv'
  BY <1>2, <1>5, LeaseFacts DEF TreeInv, NothingNew, Unsettled
<1>11. ReadInv'
  BY <1>6 DEF ReadInv, ReadAt, At, OwnerPCs
<1>12. ScanInv'
  BY <1>2, <1>3 DEF LeaseInv, ScanInv, ScanAt, At
<1>13. LateAppendInv'
  BY <1>4 DEF LateAppendInv, TreeQueueClear
<1>14. HeadInv'
  <2>1. \A a \in accepted : a <= head /\ a \in Nat
    BY DEF LeaseInv, HeadInv, TypeOK
  <2>2. QED
    BY <1>4, <1>5, <2>1 DEF HeadInv
<1>15. PullInv'
  <2>1. status[r] # "TransferPending"
    BY <1>1 DEF AppendConfirmed
  <2>2. QED
    BY <1>3, <2>1, PullFrame
<1>16. QED
  BY <1>7, <1>8, <1>9, <1>10, <1>11, <1>12, <1>13, <1>14, <1>15 DEF LeaseInv

LEMMA RootAcceptedKeeps ==
  ASSUME TypeOK, LeaseInv, NEW t \in Tasks, DepositRootAccepted(t) \/ SpendRootAccepted(t)
  PROVE  LeaseInv'
<1>. DEFINE r == task[t].id
<1>1. /\ task[t].pc = "scanHead" /\ task[t].reply = "ok"
      /\ LeaseExpect(r, task[t].gen, "AppendConfirmedRootPending")
      /\ CommitAcceptedRootHead(task[t].num) /\ LeaseRelease(r, task[t].gen) /\ Finish(t)
      /\ \E st \in Closed : SetStatus(r, st)
      /\ UNCHANGED <<nextGen, leaves, pulled, orphans>>
  <2>1. CASE DepositRootAccepted(t)
    BY <2>1 DEF DepositRootAccepted, At, outside, Closed
  <2>2. CASE SpendRootAccepted(t)
    BY <2>2 DEF SpendRootAccepted, At, outside, Closed
  <2>3. QED
    BY <2>1, <2>2
<1>2. r \in Records
  BY <1>1, TaskInfo
<1>3. status'[r] \in Closed /\ \A x \in Records : x # r => status'[x] = status[x]
  BY <1>1, <1>2, StatusUpdate
<1>4. QED
  BY <1>1, <1>2, <1>3, PublishKeeps

(* A read of the scan head begins under the lease it names, or ends. *)
LEMMA ScanMovesKeep ==
  ASSUME TypeOK, LeaseInv, NEW t \in Tasks,
         \/ ScanHeadStale(t) \/ ScanHeadFails(t)
         \/ \E r \in Records : ReconcileRootPending(t, r)
  PROVE  LeaseInv'
<1>1. task[t].pc \in {"idle", "scanHead"} /\ UNCHANGED <<pool, outside>>
  BY DEF ScanHeadStale, ScanHeadFails, ReconcileRootPending, At
<1>2. UNCHANGED <<status, index, lease, nextGen, head, accepted, leaves, orphans, pulled>>
  BY <1>1 DEF pool, outside
<1>3. /\ \A u \in Tasks : u # t => task'[u] = task[u]
      /\ task'[t].pc \in {"idle", "scanHead"} /\ ScanAt(t)'
  <2>1. CASE Finish(t)
    BY <2>1, Finishes DEF ScanAt, At
  <2>2. ASSUME NEW r \in Records, ReconcileRootPending(t, r)
        PROVE  /\ \A u \in Tasks : u # t => task'[u] = task[u]
               /\ task'[t].pc = "scanHead" /\ ScanAt(t)'
    <3>1. /\ LeaseOwnedIn(r, "AppendConfirmedRootPending")
          /\ Await(t, Call("scanHead", r, lease.gen, {}))
      BY <2>2 DEF ReconcileRootPending
    <3>2. /\ \A u \in Tasks : u # t => task'[u] = task[u]
          /\ task'[t].pc = "scanHead" /\ task'[t].id = r /\ task'[t].gen = lease.gen
          /\ task'[t].reply = "none"
      BY <3>1, Awaits
    <3>3. QED
      BY <1>2, <3>1, <3>2 DEF ScanAt, At, LeaseInv, GenInv, LeaseOwnedIn
  <2>3. QED
    BY <2>1, <2>2 DEF ScanHeadStale, ScanHeadFails
<1>4. PullInv'
  BY <1>2, <1>3, PullFrame
<1>5. QED
  BY <1>1, <1>2, <1>3, <1>4, BystanderStep DEF OwnerPCs

(* The operator takes an append in doubt in hand: one call at a time. *)
LEMMA ReconcileAppendUnknownKeeps ==
  ASSUME TypeOK, LeaseInv, NEW t \in Tasks, NEW r \in Records, ReconcileAppendUnknown(t, r)
  PROVE  LeaseInv'
<1>. DEFINE pc == IF r \in Deposits THEN "recCount" ELSE "spLeaf"
            st == IF r \in Deposits THEN "CommitmentReconcileInFlight" ELSE status[r]
<1>1. /\ status[r] = AppendUnknown(r) /\ LeaseOwnedIn(r, "AppendUnknown")
      /\ LeaseTo("ReconcileInFlight") /\ SetStatus(r, st)
      /\ Await(t, Call(pc, r, lease.gen, {}))
      /\ UNCHANGED <<index, nextGen, head, accepted, leaves, orphans, pulled>>
  BY DEF ReconcileAppendUnknown, outside
<1>2. lease.owner = r /\ lease.phase = "AppendUnknown" /\ lease # NoLease
      /\ lease' = [owner |-> r, phase |-> "ReconcileInFlight", gen |-> lease.gen]
  BY <1>1, OwnedLease, LeaseFacts DEF LeaseTo, LeaseOwnedIn
<1>3. /\ status'[r] = ReconcileStatus(r)
      /\ \A x \in Records : x # r => status'[x] = status[x]
  BY <1>1, StatusUpdate DEF ReconcileStatus, AppendUnknown
<1>4. /\ \A u \in Tasks : u # t => task'[u] = task[u]
      /\ task'[t].pc = pc /\ task'[t].id = r /\ task'[t].gen = lease.gen /\ task'[t].reply = "none"
  BY <1>1, Awaits
<1>5. pc \in {"recCount", "spLeaf"} /\ PhaseAt(pc) = "ReconcileInFlight"
  BY DEF PhaseAt
<1>. HIDE DEF pc, st
<1>6. \A u \in Tasks : task[u].pc \notin OwnerPCs
  BY <1>2, NobodyOwns
<1>7. OneOwner'
  BY <1>4, <1>6 DEF OneOwner
<1>8. ResumedCallOwnsLease'
  <2>1. ASSUME NEW u \in Tasks, task'[u].pc \in OwnerPCs
        PROVE  lease' = [owner |-> task'[u].id, phase |-> PhaseAt(task'[u].pc), gen |-> task'[u].gen]
    <3>1. u = t
      BY <1>4, <1>6, <2>1
    <3>2. QED
      BY <1>2, <1>4, <1>5, <3>1
  <2>2. QED
    BY <2>1 DEF ResumedCallOwnsLease, LeaseExpect, OwnerPCs
<1>9. StatusInv'
  <2>1. LeaseFreeSweepPasses'
    BY <1>2, <1>3 DEF LeaseInv, StatusInv, LeaseFreeSweepPasses
  <2>2. status'[r] \in PhaseStatuses(r, "ReconcileInFlight")
    BY <1>3, PhaseStatusFacts DEF LeasePhases
  <2>3. status'[lease'.owner] \in PhaseStatuses(lease'.owner, lease'.phase)
    BY <1>2, <2>2
  <2>4. QED
    BY <2>1, <2>3 DEF StatusInv, PhaseStatuses, AppendInFlight, AppendUnknown, ReconcileStatus,
       AppendConfirmed
<1>10. TreeInv' /\ LateAppendInv'
  <2>1. NothingNew' = NothingNew /\ Appended(r)' = Appended(r)
    BY <1>1 DEF NothingNew, Appended, Items
  <2>2. Appended(lease.owner)' = Appended(r)
    BY <1>1, <1>2 DEF Appended, Items
  <2>3. index'[lease'.owner] = head' /\ (NothingNew \/ Appended(r))
    BY <1>1, <1>2 DEF LeaseInv, TreeInv, Unsettled
  <2>4. TreeInv'
    BY <1>2, <2>1, <2>2, <2>3 DEF TreeInv, Unsettled
  <2>5. LateAppendInv'
    BY <1>1, <1>2, <2>1 DEF LeaseInv, LateAppendInv
  <2>6. QED
    BY <2>4, <2>5
<1>11. ReadInv'
  BY <1>4, <1>5, <1>6 DEF ReadInv, ReadAt, At, OwnerPCs
<1>12. ScanInv'
  <2>1. ASSUME NEW u \in Tasks, task'[u].pc = "scanHead"
        PROVE  task'[u].gen < nextGen /\ task'[u].gen # lease.gen
    <3>1. task'[u] = task[u]
      BY <1>4, <1>5, <2>1
    <3>2. QED
      BY <1>2, <2>1, <3>1 DEF LeaseInv, ScanInv, ScanAt, At
  <2>2. QED
    BY <1>1, <1>2, <2>1 DEF ScanInv, ScanAt, At
<1>13. (GenInv /\ HeadInv)'
  BY <1>1, <1>2 DEF LeaseInv, GenInv, HeadInv
<1>14. PullInv'
  <2>1. status[r] # "TransferPending"
    BY <1>1 DEF AppendUnknown
  <2>2. task'[t].pc # "transfer"
    BY <1>4, <1>5
  <2>3. QED
    BY <1>1, <1>3, <1>4, <2>1, <2>2, PullFrame
<1>15. QED
  BY <1>7, <1>8, <1>9, <1>10, <1>11, <1>12, <1>13, <1>14 DEF LeaseInv

-----------------------------------------------------------------------------
(* Acquiring the lease. *)

LEMMA AcquireKeeps ==
  ASSUME TypeOK, LeaseInv, NEW t \in Tasks, NEW r \in Records, task[t].pc \notin OwnerPCs,
         AcquireAndSnapshot(t, r),
         \A x \in Records : x # r => status'[x] = status[x],
         status'[r] \in Appendable, status'[r] = status[r] \/ status[r] \in Early,
         status'[r] = status[r] \/ status[r] # "TransferPending" \/ (At(t, "transfer") /\ task[t].id = r)
            \/ (\A u \in Tasks : ~(At(u, "transfer") /\ task[u].id = r)),
         UNCHANGED <<index, accepted, head, leaves, orphans, pulled>>
  PROVE  LeaseInv'
<1>1. status'[r] \notin RequiresLease
  BY AppendableFacts
<1>2. /\ \A u \in Tasks : u # t => task'[u] = task[u]
      /\ \/ /\ lease = NoLease /\ lease' = [owner |-> r, phase |-> "Snapshotting", gen |-> nextGen]
            /\ nextGen' = nextGen + 1
            /\ task'[t].pc = "snapshot" /\ task'[t].id = r /\ task'[t].gen = nextGen
            /\ task'[t].reply = "none"
         \/ /\ lease # NoLease /\ UNCHANGED <<lease, nextGen>> /\ task'[t].pc = "idle"
  <2>1. CASE lease = NoLease
    BY <2>1, Awaits DEF AcquireAndSnapshot
  <2>2. CASE lease # NoLease
    BY <2>2, Finishes DEF AcquireAndSnapshot
  <2>3. QED
    BY <2>1, <2>2
<1>3. PullInv'
  <2>1. CASE status'[r] = status[r] \/ status[r] # "TransferPending" \/ (At(t, "transfer") /\ task[t].id = r)
    BY <1>2, <2>1, PullFrame
  <2>2. CASE \A u \in Tasks : ~(At(u, "transfer") /\ task[u].id = r)
    <3>1. ASSUME NEW u \in Tasks, task'[u].pc = "transfer" PROVE PullAt(u)'
      <4>1. u # t /\ task'[u] = task[u] /\ task[u].id # r /\ PullAt(u) /\ At(u, "transfer")
        BY <1>2, <2>2, <3>1 DEF LeaseInv, PullInv, At
      <4>2. task[u].id \in Records
        BY <4>1, TaskInfo DEF At
      <4>3. status'[task[u].id] = status[task[u].id]
        BY <4>1, <4>2
      <4>4. ASSUME NEW v \in Tasks, task'[v].pc = "transfer", task'[v].id = task[u].id PROVE v = u
        BY <1>2, <4>1, <4>4 DEF PullAt, At
      <4>5. QED
        BY <4>1, <4>3, <4>4 DEF PullAt, At
    <3>2. QED
      BY <3>1 DEF PullInv, PullAt, At
  <2>3. QED
    BY <2>1, <2>2
<1>4. CASE lease # NoLease
  <2>1. UNCHANGED <<lease, nextGen>> /\ task'[t].pc = "idle"
    BY <1>2, <1>4
  <2>2. ScanAt(t)'
    BY <2>1 DEF ScanAt, At
  <2>3. \A x \in Records : status'[x] = status[x] \/ (status[x] \in Early /\ status'[x] \notin RequiresLease)
    BY <1>1
  <2>4. QED
    BY <1>2, <1>3, <2>1, <2>2, <2>3, BystanderStep DEF OwnerPCs
<1>5. CASE lease = NoLease
  <2>1. /\ lease' = [owner |-> r, phase |-> "Snapshotting", gen |-> nextGen]
        /\ nextGen' = nextGen + 1
        /\ task'[t].pc = "snapshot" /\ task'[t].id = r /\ task'[t].gen = nextGen
        /\ task'[t].reply = "none"
    BY <1>2, <1>5
  <2>2. \A u \in Tasks : task[u].pc \notin OwnerPCs
    BY <1>5, NobodyOwns
  <2>3. lease.phase = "Free" /\ lease.owner = NoRecord /\ nextGen \in Nat /\ nextGen > 0
    BY <1>5, LeaseFacts DEF LeaseInv, GenInv
  <2>4. OneOwner'
    BY <1>2, <2>2 DEF OneOwner
  <2>5. ResumedCallOwnsLease'
    <3>1. ASSUME NEW u \in Tasks, task'[u].pc \in OwnerPCs
          PROVE  lease' = [owner |-> task'[u].id, phase |-> PhaseAt(task'[u].pc), gen |-> task'[u].gen]
      <4>1. u = t
        BY <1>2, <2>2, <3>1
      <4>2. QED
        BY <2>1, <4>1 DEF PhaseAt
    <3>2. QED
      BY <3>1 DEF ResumedCallOwnsLease, LeaseExpect, OwnerPCs
  <2>6. StatusInv'
    <3>1. ASSUME NEW x \in Records PROVE status'[x] \notin RequiresLease
      BY <1>1, <2>3, LeaseFacts DEF LeaseInv, StatusInv, LeaseFreeSweepPasses
    <3>2. status'[lease'.owner] \in PhaseStatuses(lease'.owner, lease'.phase)
      BY <2>1 DEF PhaseStatuses
    <3>3. QED
      BY <3>1, <3>2 DEF StatusInv, LeaseFreeSweepPasses, PhaseStatuses, AppendInFlight, AppendUnknown,
         ReconcileStatus, AppendConfirmed
  <2>7. TreeInv'
    <3>1. NothingNew
      BY <2>3 DEF LeaseInv, TreeInv, Unsettled
    <3>2. QED
      BY <2>1, <3>1 DEF TreeInv, NothingNew, Unsettled
  <2>8. ReadInv'
    BY <1>2, <2>1, <2>2 DEF ReadInv, ReadAt, At, OwnerPCs
  <2>9. ScanInv'
    <3>1. ASSUME NEW u \in Tasks, task'[u].pc = "scanHead"
          PROVE  task'[u].gen < nextGen /\ task'[u].gen \in Nat
      BY <1>2, <2>1, <3>1, TaskInfo DEF LeaseInv, ScanInv, ScanAt, At
    <3>2. QED
      BY <2>1, <2>3, <3>1 DEF ScanInv, ScanAt, At
  <2>10. LateAppendInv'
    <3>1. TreeQueueClear
      BY <2>3, QueueClear
    <3>2. QED
      BY <3>1 DEF LateAppendInv, TreeQueueClear
  <2>11. (GenInv /\ HeadInv)'
    BY <2>1, <2>3 DEF LeaseInv, GenInv, HeadInv
  <2>12. QED
    BY <1>3, <2>4, <2>5, <2>6, <2>7, <2>8, <2>9, <2>10, <2>11 DEF LeaseInv
<1>6. QED
  BY <1>4, <1>5

LEMMA AcquiringStepsKeep ==
  ASSUME TypeOK, NullifierInv, LeaseInv, NEW t \in Tasks, NEW r \in Records,
         \/ r = task[t].id /\ (TransferConfirmed(t) \/ NullifierInserted(t) \/ ReconciledCommitted(t))
         \/ r \in Deposits /\ SettleDepositTransfer(t, r) /\ r \in pulled
         \/ r \in Deposits /\ RetryDepositCommitment(t, r)
         \/ r \in Spends /\ ReconcilePendingSpend(t, r)
  PROVE  LeaseInv'
<1>1. AcquireAndSnapshot(t, r) /\ task[t].pc \in {"idle", "transfer", "insert", "recNull"}
      /\ UNCHANGED <<index, accepted, head, leaves, orphans, pulled>>
  BY DEF TransferConfirmed, NullifierInserted, ReconciledCommitted, SettleDepositTransfer,
     RetryDepositCommitment, ReconcilePendingSpend, At, outside
<1>2. CASE r = task[t].id /\ TransferConfirmed(t)
  <2>1. At(t, "transfer") /\ SetStatus(r, "TransferConfirmedCommitmentPending") /\ PullAt(t)
    BY <1>2 DEF TransferConfirmed, LeaseInv, PullInv
  <2>2. status'[r] = "TransferConfirmedCommitmentPending"
        /\ \A x \in Records : x # r => status'[x] = status[x]
    BY <2>1, StatusUpdate
  <2>3. status[r] = "TransferPending"
    BY <1>2, <2>1 DEF PullAt
  <2>4. QED
    BY <1>1, <1>2, <2>1, <2>2, <2>3, AcquireKeeps DEF Appendable, Early, OwnerPCs, At
<1>3. CASE r = task[t].id /\ (NullifierInserted(t) \/ ReconciledCommitted(t))
  <2>1. SetStatus(r, "NullifierFinalizedOutputsPending") /\ task[t].pc \in {"insert", "recNull"}
    BY <1>3 DEF NullifierInserted, ReconciledCommitted, At
  <2>2. status'[r] = "NullifierFinalizedOutputsPending"
        /\ \A x \in Records : x # r => status'[x] = status[x]
    BY <2>1, StatusUpdate
  <2>3. status[r] \in {"OutputsStaged", "NullifierReconcileInFlight"}
    BY <1>3, <2>1, CriticalStatus DEF Critical, Guarding
  <2>4. QED
    BY <1>1, <2>1, <2>2, <2>3, AcquireKeeps DEF Appendable, Early, OwnerPCs
<1>4. CASE r \in Deposits /\ SettleDepositTransfer(t, r) /\ r \in pulled
  <2>1. /\ status[r] = "TransferPending" /\ At(t, "idle")
        /\ \A u \in Tasks : ~(At(u, "transfer") /\ task[u].id = r)
        /\ SetStatus(r, "TransferConfirmedCommitmentPending")
    BY <1>4 DEF SettleDepositTransfer
  <2>2. status'[r] = "TransferConfirmedCommitmentPending"
        /\ \A x \in Records : x # r => status'[x] = status[x]
    BY <2>1, StatusUpdate
  <2>3. QED
    BY <1>1, <2>1, <2>2, AcquireKeeps DEF Appendable, Early, OwnerPCs, At
<1>5. CASE \/ r \in Deposits /\ RetryDepositCommitment(t, r)
           \/ r \in Spends /\ ReconcilePendingSpend(t, r)
  <2>1. status[r] \in Appendable /\ UNCHANGED status /\ At(t, "idle")
    BY <1>5 DEF RetryDepositCommitment, ReconcilePendingSpend, Appendable
  <2>2. QED
    BY <1>1, <2>1, AcquireKeeps DEF OwnerPCs, At
<1>6. QED
  BY <1>2, <1>3, <1>4, <1>5

-----------------------------------------------------------------------------
(* The token leg. *)

LEMMA ShieldDepositKeeps ==
  ASSUME TypeOK, LeaseInv, NEW t \in Tasks, NEW d \in Deposits, ShieldDeposit(t, d)
  PROVE  LeaseInv'
<1>1. /\ At(t, "idle") /\ status[d] = "Absent" /\ SetStatus(d, "TransferPending") /\ d \in Records
      /\ UNCHANGED <<index, lease, nextGen, head, accepted, leaves, orphans, pulled>>
  BY DataTypes DEF ShieldDeposit, outside
<1>2. status'[d] = "TransferPending" /\ \A x \in Records : x # d => status'[x] = status[x]
  BY <1>1, StatusUpdate
<1>3. /\ \A u \in Tasks : u # t => task'[u] = task[u]
      /\ task'[t].pc = "transfer" /\ task'[t].id = d /\ task'[t].reply = "none"
  BY Awaits DEF ShieldDeposit
<1>4. PullInv'
  <2>1. ASSUME NEW u \in Tasks, u # t, task'[u].pc = "transfer"
        PROVE  /\ task'[u] = task[u] /\ task[u].id # d /\ task[u].id \in Records /\ PullAt(u)
               /\ status'[task[u].id] = "TransferPending"
    <3>1. task'[u] = task[u] /\ PullAt(u) /\ At(u, "transfer")
      BY <1>3, <2>1 DEF LeaseInv, PullInv, At
    <3>2. task[u].id # d /\ task[u].id \in Records
      BY <1>1, <3>1, TaskInfo DEF PullAt, At
    <3>3. QED
      BY <1>2, <3>1, <3>2 DEF PullAt
  <2>2. ASSUME NEW u \in Tasks PROVE PullAt(u)'
    <3>1. CASE u = t
      BY <1>2, <1>3, <2>1, <3>1 DEF PullAt, At
    <3>2. CASE u # t
      BY <1>1, <1>3, <2>1, <3>2 DEF PullAt, At
    <3>3. QED
      BY <3>1, <3>2
  <2>3. QED
    BY <2>2 DEF PullInv
<1>5. ScanAt(t)'
  BY <1>3 DEF ScanAt, At
<1>6. QED
  BY <1>1, <1>2, <1>3, <1>4, <1>5, BystanderStep DEF OwnerPCs, At, Early, RequiresLease

LEMMA LedgerKeeps ==
  ASSUME TypeOK, LeaseInv, NEW t \in Tasks, LedgerTransferFrom(t)
  PROVE  LeaseInv'
<1>1. /\ At(t, "transfer") /\ UNCHANGED <<pool, leaves, spentBy, orphans>>
      /\ \/ Answer(t, "ok") /\ pulled' = pulled \cup {task[t].id}
         \/ Answer(t, "err") /\ pulled' = pulled
  BY DEF LedgerTransferFrom
<1>2. UNCHANGED <<status, index, lease, nextGen, head, accepted, leaves, orphans>>
  BY <1>1 DEF pool
<1>3. /\ \A u \in Tasks : u # t => task'[u] = task[u]
      /\ task'[t].pc = "transfer" /\ task'[t].id = task[t].id
      /\ task'[t].reply = "ok" => task[t].id \in pulled'
      /\ pulled \subseteq pulled'
  BY <1>1, Answers DEF At
<1>4. PullInv'
  <2>1. \A u \in Tasks : PullAt(u) /\ task'[u].pc = task[u].pc /\ task'[u].id = task[u].id
    BY <1>1, <1>3 DEF LeaseInv, PullInv, At
  <2>2. ASSUME NEW u \in Tasks PROVE PullAt(u)'
    BY <1>2, <1>3, <2>1 DEF PullAt, At
  <2>3. QED
    BY <2>2 DEF PullInv
<1>5. ScanAt(t)'
  BY <1>3 DEF ScanAt, At
<1>6. QED
  BY <1>1, <1>2, <1>3, <1>4, <1>5, BystanderStep DEF OwnerPCs, At

(* The pull is refused, its reply lost, or its record found not to have run. *)
LEMMA PullEndsKeeps ==
  ASSUME TypeOK, LeaseInv, NEW t \in Tasks, NEW d \in Deposits,
         \/ d = task[t].id /\ (TransferRefused(t) \/ TransferUnknown(t))
         \/ SettleDepositTransfer(t, d) /\ d \notin pulled
  PROVE  LeaseInv'
<1>1. /\ d \in Records
      /\ UNCHANGED <<index, lease, nextGen, head, accepted, leaves, orphans, pulled>>
      /\ SetStatus(d, "Absent") \/ UNCHANGED status
  BY DataTypes DEF TransferRefused, TransferUnknown, SettleDepositTransfer, pool, outside
<1>2. (status'[d] = "Absent" \/ status'[d] = status[d])
      /\ \A x \in Records : x # d => status'[x] = status[x]
  BY <1>1, StatusUpdate
<1>3. CASE d = task[t].id /\ (TransferRefused(t) \/ TransferUnknown(t))
  <2>1. At(t, "transfer") /\ Finish(t)
    BY <1>3 DEF TransferRefused, TransferUnknown
  <2>2. (\A u \in Tasks : u # t => task'[u] = task[u]) /\ task'[t].pc = "idle"
    BY <2>1, Finishes
  <2>3. status[d] = "TransferPending"
    BY <1>3, <2>1 DEF LeaseInv, PullInv, PullAt
  <2>4. PullInv'
    BY <1>1, <1>2, <1>3, <2>1, <2>2, PullFrame
  <2>5. ScanAt(t)'
    BY <2>2 DEF ScanAt, At
  <2>6. QED
    BY <1>1, <1>2, <2>1, <2>2, <2>3, <2>4, <2>5, BystanderStep DEF OwnerPCs, At, Early, RequiresLease
<1>4. CASE SettleDepositTransfer(t, d) /\ d \notin pulled
  <2>1. /\ At(t, "idle") /\ status[d] = "TransferPending" /\ UNCHANGED task
        /\ \A u \in Tasks : ~(At(u, "transfer") /\ task[u].id = d)
    BY <1>4 DEF SettleDepositTransfer
  <2>2. PullInv'
    <3>1. ASSUME NEW u \in Tasks, task[u].pc = "transfer" PROVE status'[task[u].id] = status[task[u].id]
      <4>1. task[u].id \in Records /\ task[u].id # d
        BY <2>1, <3>1, TaskInfo DEF At
      <4>2. QED
        BY <1>2, <4>1
    <3>2. QED
      BY <1>1, <2>1, <3>1 DEF LeaseInv, PullInv, PullAt, At
  <2>3. ScanAt(t)'
    BY <2>1 DEF ScanAt, At
  <2>4. QED
    BY <1>1, <1>2, <2>1, <2>2, <2>3, BystanderStep DEF OwnerPCs, At, Early, RequiresLease
<1>5. QED
  BY <1>3, <1>4

-----------------------------------------------------------------------------
(* A spend before its append, the registry and the verifier. *)

QuietPCs == {"idle", "precheck", "admit", "verify", "recheck", "commit", "insert", "recNull"}

LEMMA QuietStep ==
  ASSUME TypeOK, LeaseInv, NEW t \in Tasks, NEW s \in Spends,
         \A u \in Tasks : u # t => task'[u] = task[u],
         task[t].pc \in QuietPCs, task'[t].pc \in QuietPCs,
         UNCHANGED status \/ (\E st \in Early : SetStatus(s, st)),
         status[s] \in Early \/ UNCHANGED status,
         status[s] # "TransferPending" \/ UNCHANGED status,
         UNCHANGED index \/ (status[s] \in Early /\ \E i : index' = [index EXCEPT ![s] = i]),
         UNCHANGED <<lease, nextGen, head, accepted, leaves, orphans, pulled>>
  PROVE  LeaseInv'
<1>1. /\ \A x \in Records : x # s => status'[x] = status[x]
      /\ status'[s] = status[s] \/ (status[s] \in Early /\ status'[s] \in Early)
  BY StatusUpdate, SpendFacts
<1>2. \A x \in Records : index'[x] = index[x] \/ status[x] \in Early
  BY DEF TypeOK
<1>3. PullInv'
  <2>1. status'[s] = status[s] \/ status[s] # "TransferPending"
    OBVIOUS
  <2>2. QED
    BY <1>1, <2>1, PullFrame DEF QuietPCs
<1>4. ScanAt(t)'
  BY DEF ScanAt, At, QuietPCs
<1>5. \A x \in Records : status'[x] = status[x] \/ (status[x] \in Early /\ status'[x] \notin RequiresLease)
  BY <1>1, AppendableFacts
<1>6. task[t].pc \notin OwnerPCs /\ task'[t].pc \notin OwnerPCs
  BY DEF QuietPCs, OwnerPCs
<1>7. QED
  BY <1>2, <1>3, <1>4, <1>5, <1>6, BystanderStep

LEMMA QueryAwaits ==
  ASSUME TypeOK, NEW t \in Tasks, NEW pc, NEW r, NEW nfs, NEW guard, NEW a, NEW e,
         Await(t, QueryCall(pc, r, nfs, guard, a, e))
  PROVE  /\ \A u \in Tasks : u # t => task'[u] = task[u]
         /\ task'[t].pc = pc /\ task'[t].id = r /\ task'[t].anchor = a
<1>. DEFINE k == QueryCall(pc, r, nfs, guard, a, e)
<1>1. task'[t] = k /\ \A u \in Tasks : u # t => task'[u] = task[u]
  BY TaskUpdate DEF Await
<1>2. k.pc = pc /\ k.id = r /\ k.anchor = a
  BY DEF QueryCall, Call
<1>3. QED
  BY <1>1, <1>2

LEMMA Proceeds ==
  ASSUME TypeOK, NEW t \in Tasks, NEW pc, NEW guard, Proceed(t, pc, guard)
  PROVE  /\ \A u \in Tasks : u # t => task'[u] = task[u]
         /\ task'[t].pc = pc /\ task'[t].id = task[t].id /\ task'[t].anchor = task[t].anchor
<1>. DEFINE k == [task[t] EXCEPT !.pc = pc, !.guard = guard]
<1>1. task' = [task EXCEPT ![t] = k] /\ task[t] \in TaskType
  BY TaskInfo DEF Proceed, TypeOK
<1>2. k.pc = pc /\ k.id = task[t].id /\ k.anchor = task[t].anchor
  BY <1>1 DEF TaskType
<1>3. QED
  BY <1>1, <1>2, TaskUpdate

LEMMA Contains ==
  ASSUME TypeOK, NEW t \in Tasks, RegistryContains(t)
  PROVE  /\ \A u \in Tasks : u # t => task'[u] = task[u]
         /\ task'[t].pc = task[t].pc /\ task'[t].id = task[t].id /\ task'[t].anchor = task[t].anchor
<1>1. PICK n \in task[t].todo :
         task' = [task EXCEPT ![t].todo = @ \ {n}, ![t].seen = @ \cup ({n} \cap Spent)]
  BY DEF RegistryContains
<1>. DEFINE k == [task[t] EXCEPT !.todo = task[t].todo \ {n}, !.seen = task[t].seen \cup ({n} \cap Spent)]
<1>2. task' = [task EXCEPT ![t] = k] /\ task[t] \in TaskType
  BY <1>1, TaskInfo DEF TypeOK
<1>3. k.pc = task[t].pc /\ k.id = task[t].id /\ k.anchor = task[t].anchor
  BY <1>2 DEF TaskType
<1>4. QED
  BY <1>2, <1>3, TaskUpdate

(* What the steps of a spend before its append do to its call and record.  *)
EarlyStep(t) ==
    \/ RegistryContains(t) \/ PrecheckRefuses(t) \/ PrecheckPasses(t) \/ AdmitSpend(t)
    \/ VerifierAccepts(t) \/ VerifierRejects(t) \/ VerifierUnavailable(t)
    \/ RecheckFails(t) \/ RecheckPasses(t) \/ NullifierQueryFails(t)
    \/ PayoutPreconditionFails(t) \/ EpochChanged(t) \/ CommitSpend(t) \/ RegistryInsert(t)
    \/ InsertRejected(t) \/ InsertOutcomeUnknown(t)
    \/ ReconciledNotCommitted(t) \/ ReconcileNullifierFails(t)

LEMMA EarlyStepMoves ==
  ASSUME TypeOK, NullifierInv, NEW t \in Tasks, EarlyStep(t)
  PROVE  /\ task[t].id \in Spends
         /\ \A u \in Tasks : u # t => task'[u] = task[u]
         /\ task[t].pc \in QuietPCs /\ task'[t].pc \in QuietPCs
         /\ UNCHANGED status \/ (\E st \in Early : SetStatus(task[t].id, st))
         /\ UNCHANGED status \/ status[task[t].id] \in Early \ {"TransferPending"}
         /\ UNCHANGED index \/ (/\ status[task[t].id] = "VerificationPending"
                                /\ index' = [index EXCEPT ![task[t].id] = -1])
         /\ UNCHANGED <<lease, nextGen, head, accepted, leaves, orphans, pulled, acct>>
<1>. DEFINE s == task[t].id
<1>1. task[t].pc \in {"precheck", "admit", "verify", "recheck", "commit", "insert", "recNull"}
  BY DEF EarlyStep, RegistryContains, PrecheckRefuses, PrecheckPasses, AdmitSpend, VerifierAccepts,
     VerifierRejects, VerifierUnavailable, RecheckFails, RecheckPasses, NullifierQueryFails,
     PayoutPreconditionFails, EpochChanged, CommitSpend, RegistryInsert, InsertRejected,
     InsertOutcomeUnknown, ReconciledNotCommitted, ReconcileNullifierFails, At
<1>2. s \in Spends
  BY <1>1, TaskInfo
<1>3. UNCHANGED <<lease, nextGen, head, accepted, leaves, orphans, pulled, acct>>
  BY DEF EarlyStep, RegistryContains, PrecheckRefuses, PrecheckPasses, AdmitSpend, VerifierAccepts,
     VerifierRejects, VerifierUnavailable, RecheckFails, RecheckPasses, NullifierQueryFails,
     PayoutPreconditionFails, EpochChanged, CommitSpend, RegistryInsert, InsertRejected,
     InsertOutcomeUnknown, ReconciledNotCommitted, ReconcileNullifierFails, pool, outside
<1>4. UNCHANGED status \/ (\E st \in Early : SetStatus(s, st))
  BY DEF EarlyStep, RegistryContains, PrecheckRefuses, PrecheckPasses, AdmitSpend, VerifierAccepts,
     VerifierRejects, VerifierUnavailable, RecheckFails, RecheckPasses, NullifierQueryFails,
     PayoutPreconditionFails, EpochChanged, CommitSpend, RegistryInsert, InsertRejected,
     DiscardUncommitted, InsertOutcomeUnknown, ReconciledNotCommitted, ReconcileNullifierFails,
     pool, Early
<1>5. UNCHANGED status \/ status[s] \in Early \ {"TransferPending"}
  <2>1. CASE task[t].pc \in Critical
    BY <2>1, CriticalStatus DEF Early
  <2>2. CASE task[t].pc = "precheck"
    BY <2>2 DEF EarlyStep, RegistryContains, PrecheckRefuses, PrecheckPasses, AdmitSpend,
       VerifierAccepts, VerifierRejects, VerifierUnavailable, RecheckFails, RecheckPasses,
       NullifierQueryFails, PayoutPreconditionFails, EpochChanged, CommitSpend, RegistryInsert,
       InsertRejected, InsertOutcomeUnknown, ReconciledNotCommitted, ReconcileNullifierFails, At, pool
  <2>3. CASE task[t].pc = "admit"
    <3>1. AdmitSpend(t)
      BY <2>3 DEF EarlyStep, RegistryContains, PrecheckRefuses, PrecheckPasses,
         VerifierAccepts, VerifierRejects, VerifierUnavailable, RecheckFails, RecheckPasses,
         NullifierQueryFails, PayoutPreconditionFails, EpochChanged, CommitSpend, RegistryInsert,
         InsertRejected, InsertOutcomeUnknown, ReconciledNotCommitted, ReconcileNullifierFails, At
    <3>2. QED
      BY <3>1 DEF AdmitSpend, Early
  <2>4. QED
    BY <1>1, <2>1, <2>2, <2>3 DEF Critical, Guarding, Admitted
<1>6. UNCHANGED index \/ (status[s] = "VerificationPending" /\ index' = [index EXCEPT ![s] = -1])
  BY DEF EarlyStep, RegistryContains, PrecheckRefuses, PrecheckPasses, AdmitSpend, VerifierAccepts,
     VerifierRejects, VerifierUnavailable, RecheckFails, RecheckPasses, NullifierQueryFails,
     PayoutPreconditionFails, EpochChanged, CommitSpend, RegistryInsert, InsertRejected,
     InsertOutcomeUnknown, ReconciledNotCommitted, ReconcileNullifierFails, pool
<1>7. (\A u \in Tasks : u # t => task'[u] = task[u]) /\ task'[t].pc \in QuietPCs
  <2>1. CASE Finish(t)
    BY <2>1, Finishes DEF QuietPCs
  <2>2. CASE RegistryContains(t)
    BY <1>1, <2>2, Contains DEF QuietPCs
  <2>3. CASE PrecheckPasses(t) \/ RecheckPasses(t)
    BY <2>3, Proceeds DEF PrecheckPasses, RecheckPasses, QuietPCs
  <2>4. CASE AdmitSpend(t) /\ ~Finish(t)
    BY <2>4, Proceeds DEF AdmitSpend, QuietPCs
  <2>5. CASE VerifierAccepts(t)
    BY <2>5, QueryAwaits DEF VerifierAccepts, QuietPCs
  <2>6. CASE CommitSpend(t) /\ ~Finish(t)
    BY <2>6, Awaits DEF CommitSpend, QuietPCs
  <2>7. CASE RegistryInsert(t)
    <3>1. Answer(t, "ok") \/ Answer(t, "err")
      BY <2>7 DEF RegistryInsert
    <3>2. QED
      BY <1>1, <3>1, Answers DEF QuietPCs
  <2>8. QED
    BY <2>1, <2>2, <2>3, <2>4, <2>5, <2>6, <2>7 DEF EarlyStep, PrecheckRefuses, VerifierRejects,
       VerifierUnavailable, RecheckFails, NullifierQueryFails, PayoutPreconditionFails, EpochChanged,
       InsertRejected, DiscardUncommitted, InsertOutcomeUnknown, ReconciledNotCommitted,
       ReconcileNullifierFails
<1>8. task[t].pc \in QuietPCs
  BY <1>1 DEF QuietPCs
<1>9. QED
  BY <1>2, <1>3, <1>4, <1>5, <1>6, <1>7, <1>8

LEMMA EarlyStepKeeps ==
  ASSUME TypeOK, NullifierInv, LeaseInv, NEW t \in Tasks, EarlyStep(t)
  PROVE  LeaseInv'
<1>1. "VerificationPending" \in Early
  BY DEF Early
<1>2. QED
  BY <1>1, EarlyStepMoves, QuietStep

LEMMA SpendBeginsKeeps ==
  ASSUME TypeOK, LeaseInv, NEW t \in Tasks, NEW s \in Spends,
         PrivateSpend(t, s) \/ ReconcileNullifierInsert(t, s)
  PROVE  LeaseInv'
<1>1. /\ At(t, "idle")
      /\ UNCHANGED <<index, lease, nextGen, head, accepted, leaves, orphans, pulled>>
  BY DEF PrivateSpend, ReconcileNullifierInsert, pool, outside
<1>2. (\A u \in Tasks : u # t => task'[u] = task[u]) /\ task'[t].pc \in QuietPCs
  <2>1. CASE PrivateSpend(t, s)
    <3>1. PICK a \in accepted : Await(t, QueryCall("precheck", s, Inputs[s], {}, a, epoch))
      BY <2>1 DEF PrivateSpend
    <3>2. QED
      BY <3>1, QueryAwaits DEF QuietPCs
  <2>2. CASE ReconcileNullifierInsert(t, s)
    BY <2>2, QueryAwaits DEF ReconcileNullifierInsert, QuietPCs
  <2>3. QED
    BY <2>1, <2>2
<1>3. /\ UNCHANGED status \/ (\E st \in Early : SetStatus(s, st))
      /\ UNCHANGED status \/ status[s] \in Early \ {"TransferPending"}
  BY DEF PrivateSpend, ReconcileNullifierInsert, Early, pool
<1>4. QED
  BY <1>1, <1>2, <1>3, QuietStep DEF At, QuietPCs

-----------------------------------------------------------------------------
(* Late requests and upgrades. *)

(* A request that does not reach the tree, or leaves it as it is. *)
LEMMA OrphanGoes ==
  ASSUME TypeOK, LeaseInv, orphans' \subseteq orphans, pulled \subseteq pulled',
         UNCHANGED <<pool, task, leaves>>
  PROVE  LeaseInv'
<1>1. UNCHANGED <<status, index, lease, nextGen, head, accepted>>
  BY DEF pool
<1>2. NothingNew' = NothingNew /\ (TreeQueueClear => TreeQueueClear')
  BY <1>1 DEF NothingNew, TreeQueueClear
<1>3. ReadInv'
  <2>1. ASSUME NEW u \in Tasks PROVE ReadAt(u)'
    <3>1. ReadAt(u)
      BY DEF LeaseInv, ReadInv
    <3>2. Appended(task[u].id)' = Appended(task[u].id)
      BY <1>1 DEF Appended, Items
    <3>3. QED
      BY <1>1, <1>2, <3>1, <3>2 DEF ReadAt, At
  <2>2. QED
    BY <2>1 DEF ReadInv
<1>4. TreeInv'
  BY <1>1 DEF LeaseInv, TreeInv, NothingNew, Appended, Items
<1>5. StatusInv'
  BY <1>1 DEF LeaseInv, StatusInv, LeaseFreeSweepPasses, PhaseStatuses, AppendInFlight, AppendUnknown,
     ReconcileStatus, AppendConfirmed
<1>6. (OneOwner /\ ResumedCallOwnsLease /\ GenInv /\ ScanInv /\ LateAppendInv /\ HeadInv)'
  BY <1>1, <1>2 DEF LeaseInv, OneOwner, ResumedCallOwnsLease, LeaseExpect, GenInv, ScanInv, ScanAt, At,
     LateAppendInv, HeadInv
<1>7. PullInv'
  BY <1>1 DEF LeaseInv, PullInv, PullAt, At
<1>8. QED
  BY <1>3, <1>4, <1>5, <1>6, <1>7 DEF LeaseInv

(* The late append of an owner in doubt reaches the tree. *)
LEMMA LateAppendKeeps ==
  ASSUME TypeOK, LeaseInv, NEW o \in orphans, o.kind = "append",
         leaves' = leaves \o Items(o.id), orphans' = orphans \ {o}, pulled' = pulled,
         UNCHANGED <<pool, task>>
  PROVE  LeaseInv'
<1>. DEFINE r == o.id
<1>1. UNCHANGED <<status, index, lease, nextGen, head, accepted>>
  BY DEF pool
<1>2. /\ lease.owner = r /\ lease.phase \in {"AppendUnknown", "ReconcileInFlight"} /\ NothingNew
      /\ ~TreeQueueClear
  BY DEF LeaseInv, LateAppendInv, TreeQueueClear
<1>3. r \in Records
  BY OrphanFields DEF TypeOK, Records
<1>4. Len(Items(r)) \in Nat /\ Items(r) \in Seq(Notes) /\ leaves \in Seq(Notes) /\ head \in Nat
  BY <1>3, ItemsFacts DEF TypeOK
<1>5. /\ Len(leaves') = head' + Len(Items(r))
      /\ \A j \in 1..Len(Items(r)) : leaves'[head' + j] = Items(r)[j]
  BY <1>1, <1>2, <1>4, Concatenated DEF NothingNew
<1>6. TreeInv'
  <2>1. Appended(lease.owner)'
    BY <1>1, <1>2, <1>5 DEF Appended, Items
  <2>2. index'[lease'.owner] = head' /\ lease'.phase \in Unsettled
    BY <1>1, <1>2 DEF LeaseInv, TreeInv, Unsettled
  <2>3. QED
    BY <2>1, <2>2 DEF TreeInv
<1>7. ReadInv'
  <2>1. ASSUME NEW u \in Tasks PROVE ReadAt(u)'
    <3>1. CASE task[u].pc \notin OwnerPCs
      BY <3>1 DEF ReadAt, At, OwnerPCs
    <3>2. CASE task[u].pc \in OwnerPCs
      <4>1. /\ task[u].id = r /\ task[u].pc \notin {"snapshot", "append"} /\ ReadAt(u)
        BY <1>2, <3>2, Owner DEF LeaseInv, ReadInv, PhaseAt
      <4>2. ~Appended(r)
        BY <1>2, <1>3, AppendedClears
      <4>3. QED
        BY <1>2, <4>1, <4>2 DEF ReadAt, At
    <3>3. QED
      BY <3>1, <3>2
  <2>2. QED
    BY <2>1 DEF ReadInv
<1>8. LateAppendInv'
  <2>1. ASSUME NEW p \in orphans, p.kind = "append" PROVE p = o
    <3>1. p.id = r
      BY <1>2, <2>1 DEF LeaseInv, LateAppendInv
    <3>2. \A q \in orphans : q.kind = "append" => q = [kind |-> "append", id |-> q.id]
      BY DEF TypeOK, OrphanType
    <3>3. QED
      BY <2>1, <3>1, <3>2
  <2>2. QED
    BY <2>1 DEF LateAppendInv
<1>9. StatusInv'
  BY <1>1 DEF LeaseInv, StatusInv, LeaseFreeSweepPasses, PhaseStatuses, AppendInFlight, AppendUnknown,
     ReconcileStatus, AppendConfirmed
<1>10. (OneOwner /\ ResumedCallOwnsLease /\ GenInv /\ HeadInv /\ PullInv)'
  BY <1>1 DEF LeaseInv, OneOwner, ResumedCallOwnsLease, LeaseExpect, GenInv, HeadInv, PullInv, PullAt, At
<1>11. ScanInv'
  BY <1>1, <1>2 DEF LeaseInv, ScanInv, ScanAt, At
<1>12. QED
  BY <1>6, <1>7, <1>8, <1>9, <1>10, <1>11 DEF LeaseInv

LEMMA OrphanKeeps ==
  ASSUME TypeOK, LeaseInv, NEW o \in orphans, DeliverOrphan(o) \/ RejectOrphan(o)
  PROVE  LeaseInv'
<1>1. /\ UNCHANGED <<pool, task>> /\ orphans' = orphans \ {o} /\ pulled \subseteq pulled'
      /\ o.kind = "append" => pulled' = pulled
  BY DEF DeliverOrphan, RejectOrphan
<1>2. CASE UNCHANGED leaves
  BY <1>1, <1>2, OrphanGoes
<1>3. CASE leaves' = leaves \o Items(o.id) /\ o.kind = "append"
  BY <1>1, <1>3, LateAppendKeeps
<1>4. QED
  BY <1>2, <1>3 DEF DeliverOrphan, RejectOrphan

(* An upgrade drops every call.  The owner keeps the lease unless it was   *)
(* only taking its snapshot, and its outcome is unknown until the requests *)
(* left under way are gone.                                                *)
LEMMA UpgradeLeaseKeeps ==
  ASSUME TypeOK, LeaseInv, Upgrade
  PROVE  LeaseInv'
<1>1. /\ \A r \in Records : status'[r] = UpgradedStatus(status[r])
      /\ lease' = UpgradedLease /\ orphans' = orphans \cup Undelivered
      /\ \A t \in Tasks : task'[t].pc = "idle"
      /\ UNCHANGED <<index, nextGen, accepted, head, leaves, pulled>>
  BY DEF Upgrade, IdleTask, Call
<1>2. CASE lease = NoLease \/ lease.phase = "Snapshotting"
  <2>1. lease' = NoLease /\ NothingNew
    BY <1>1, <1>2, LeaseFacts DEF UpgradedLease, LeaseInv, TreeInv, Unsettled
  <2>2. ASSUME NEW r \in Records PROVE status'[r] \notin RequiresLease
    <3>1. status[r] \notin RequiresLease
      <4>1. CASE lease = NoLease
        BY <4>1, LeaseFacts DEF LeaseInv, StatusInv, LeaseFreeSweepPasses
      <4>2. CASE lease # NoLease
        <5>1. lease.owner \in Records /\ status[lease.owner] \in Appendable
          BY <1>2, <4>2, LeaseFacts, PhaseStatusFacts DEF LeaseInv, StatusInv
        <5>2. QED
          BY <5>1, AppendableFacts DEF LeaseInv, StatusInv, LeaseFreeSweepPasses
      <4>3. QED
        BY <4>1, <4>2
    <3>2. QED
      BY <1>1, <3>1 DEF UpgradedStatus, RequiresLease
  <2>3. StatusInv'
    BY <2>1, <2>2 DEF StatusInv, LeaseFreeSweepPasses
  <2>4. TreeInv'
    BY <1>1, <2>1, LeaseFacts DEF TreeInv, NothingNew, Unsettled
  <2>5. LateAppendInv'
    <3>1. \A t \in Tasks : task[t].pc # "append"
      <4>1. ASSUME NEW t \in Tasks, task[t].pc = "append" PROVE FALSE
        BY <1>2, <4>1, AppendCall
      <4>2. QED
        BY <4>1
    <3>2. TreeQueueClear
      BY <1>2, QueueClear, LeaseFacts
    <3>3. \A o \in Undelivered : o.kind # "append"
      BY <3>1 DEF Undelivered
    <3>4. QED
      BY <1>1, <3>2, <3>3 DEF LateAppendInv, TreeQueueClear
  <2>6. GenInv'
    <3>1. 0 < nextGen
      BY LeaseFacts DEF LeaseInv, GenInv
    <3>2. QED
      BY <1>1, <2>1, <3>1 DEF GenInv, NoLease
  <2>7. (OneOwner /\ ResumedCallOwnsLease /\ ReadInv /\ ScanInv /\ PullInv /\ HeadInv)'
    BY <1>1 DEF OneOwner, ResumedCallOwnsLease, ReadInv, ReadAt, ScanInv, ScanAt, PullInv, PullAt, At,
       LeaseInv, HeadInv, OwnerPCs
  <2>8. QED
    BY <2>3, <2>4, <2>5, <2>6, <2>7 DEF LeaseInv
<1>3. CASE lease # NoLease /\ lease.phase # "Snapshotting"
  <2>. DEFINE r == lease.owner
              p == IF lease.phase = "AppendConfirmedRootPending" THEN lease.phase ELSE "AppendUnknown"
  <2>1. /\ r \in Records /\ lease.phase \in Unsettled
        /\ status[r] \in PhaseStatuses(r, lease.phase) /\ lease.phase \in LeasePhases
        /\ lease = [owner |-> r, phase |-> lease.phase, gen |-> lease.gen]
    BY <1>3, LeaseFacts DEF LeaseInv, StatusInv, Unsettled, LeasePhases
  <2>2. lease' = [owner |-> r, phase |-> p, gen |-> lease.gen]
    BY <1>1, <1>3, <2>1 DEF UpgradedLease, Unsettled
  <2>3. status'[r] \in PhaseStatuses(r, p)
    <3>1. CASE lease.phase = "AppendConfirmedRootPending"
      BY <1>1, <2>1, <3>1 DEF PhaseStatuses, AppendConfirmed, UpgradedStatus
    <3>2. CASE lease.phase # "AppendConfirmedRootPending"
      <4>1. status[r] \in {AppendInFlight(r), AppendUnknown(r), ReconcileStatus(r)}
        BY <2>1, <3>2, PhaseStatusFacts DEF Unsettled
      <4>2. status'[r] = AppendUnknown(r)
        BY <1>1, <2>1, <4>1 DEF AppendInFlight, AppendUnknown, ReconcileStatus, UpgradedStatus
      <4>3. QED
        BY <2>1, <3>2, <4>2, PhaseStatusFacts DEF LeasePhases
    <3>3. QED
      BY <3>1, <3>2
  <2>4. LeaseFreeSweepPasses'
    <3>1. ASSUME NEW x \in Records, status'[x] \in RequiresLease PROVE x = r
      <4>1. status[x] \in RequiresLease
        BY <1>1, <3>1 DEF UpgradedStatus, RequiresLease
      <4>2. QED
        BY <4>1 DEF LeaseInv, StatusInv, LeaseFreeSweepPasses
    <3>2. QED
      BY <2>2, <3>1 DEF LeaseFreeSweepPasses
  <2>5. StatusInv'
    BY <2>2, <2>3, <2>4 DEF StatusInv, PhaseStatuses, AppendInFlight, AppendUnknown, ReconcileStatus,
       AppendConfirmed
  <2>6. TreeInv'
    <3>1. /\ index[r] = head /\ (NothingNew \/ Appended(r))
          /\ p = "AppendConfirmedRootPending" => Appended(r)
      BY <2>1 DEF LeaseInv, TreeInv
    <3>2. NothingNew' = NothingNew /\ Appended(r)' = Appended(lease.owner)'
      BY <1>1 DEF NothingNew
    <3>3. Appended(r) => Appended(lease.owner)'
      BY <1>1, <2>2 DEF Appended, Items
    <3>4. index'[lease'.owner] = head' /\ lease'.phase \in Unsettled /\ lease'.phase = p
      BY <1>1, <2>2, <3>1 DEF Unsettled
    <3>5. QED
      BY <3>1, <3>2, <3>3, <3>4 DEF TreeInv
  <2>7. LateAppendInv'
    <3>1. ASSUME NEW o \in orphans', o.kind = "append"
          PROVE  /\ o.id = r /\ NothingNew /\ lease.phase # "AppendConfirmedRootPending"
      <4>1. CASE o \in orphans
        BY <3>1, <4>1 DEF LeaseInv, LateAppendInv
      <4>2. CASE o \in Undelivered
        <5>1. PICK t \in Tasks : task[t].pc = "append" /\ task[t].reply = "none" /\ o.id = task[t].id
          BY <3>1, <4>2 DEF Undelivered
        <5>2. QED
          BY <5>1, AppendCall
      <4>3. QED
        BY <1>1, <3>1, <4>1, <4>2
    <3>2. QED
      BY <1>1, <2>2, <3>1 DEF LateAppendInv, NothingNew
  <2>8. GenInv'
    BY <1>1, <2>2 DEF LeaseInv, GenInv
  <2>9. (OneOwner /\ ResumedCallOwnsLease /\ ReadInv /\ ScanInv /\ PullInv /\ HeadInv)'
    BY <1>1 DEF OneOwner, ResumedCallOwnsLease, ReadInv, ReadAt, ScanInv, ScanAt, PullInv, PullAt, At,
       LeaseInv, HeadInv, OwnerPCs
  <2>10. QED
    BY <2>5, <2>6, <2>7, <2>8, <2>9 DEF LeaseInv
<1>4. QED
  BY <1>2, <1>3

-----------------------------------------------------------------------------
(* The inductive invariant of the lease. *)

LEMMA LeaseInit == Init => LeaseInv
<1>. SUFFICES ASSUME Init PROVE LeaseInv
  OBVIOUS
<1>1. /\ \A t \in Tasks : task[t].pc = "idle"
      /\ lease = NoLease /\ orphans = {} /\ leaves = <<>> /\ head = 0 /\ accepted = {} /\ nextGen = 1
      /\ \A r \in Records : status[r] = "Absent"
      /\ NoLease.phase = "Free" /\ NoLease.gen = 0
  BY DEF Init, IdleTask, Call, NoLease
<1>2. TreeInv /\ GenInv /\ LateAppendInv
  BY <1>1 DEF TreeInv, Unsettled, NothingNew, GenInv, LateAppendInv
<1>3. StatusInv /\ HeadInv
  BY <1>1 DEF StatusInv, LeaseFreeSweepPasses, RequiresLease, HeadInv
<1>4. OneOwner /\ ResumedCallOwnsLease /\ ReadInv /\ ScanInv /\ PullInv
  BY <1>1 DEF OneOwner, ResumedCallOwnsLease, ReadInv, ReadAt, ScanInv, ScanAt, PullInv, PullAt, At, OwnerPCs
<1>5. QED
  BY <1>2, <1>3, <1>4 DEF LeaseInv

LEMMA CallStepLease ==
  ASSUME TypeOK, NullifierInv, LeaseInv, NEW t \in Tasks, CallStep(t)
  PROVE  LeaseInv'
<1>1. CASE LedgerTransferFrom(t) \/ TransferConfirmed(t) \/ TransferRefused(t)
  <2>1. TransferConfirmed(t) \/ TransferRefused(t) => task[t].id \in Deposits /\ task[t].id \in Records
    BY TaskInfo DEF TransferConfirmed, TransferRefused, At
  <2>2. QED
    BY <1>1, <2>1, LedgerKeeps, PullEndsKeeps, AcquiringStepsKeep
<1>2. CASE NullifierInserted(t) \/ ReconciledCommitted(t)
  <2>1. task[t].id \in Records
    BY <1>2, TaskInfo DEF NullifierInserted, ReconciledCommitted, At
  <2>2. QED
    BY <1>2, <2>1, AcquiringStepsKeep
<1>3. CASE EarlyStep(t)
  BY <1>3, EarlyStepKeeps
<1>4. QED
  BY <1>1, <1>2, <1>3, TreeCountKeeps, TreeLeafKeeps, TreeAppendKeeps, ClaimAppendKeeps,
     DepositAppendedKeeps, SpendAppendedKeeps, RevertKeeps, RootAcceptedKeeps, ScanMovesKeep,
     AskKeeps, NotAppendedKeeps, FoundAppendedKeeps
  DEF CallStep, EarlyStep

LEMMA CallFailureLease ==
  ASSUME TypeOK, NullifierInv, LeaseInv, NEW t \in Tasks, CallFailure(t)
  PROVE  LeaseInv'
<1>1. CASE TransferUnknown(t)
  <2>1. task[t].id \in Deposits
    BY <1>1, TaskInfo DEF TransferUnknown, At
  <2>2. QED
    BY <1>1, <2>1, PullEndsKeeps
<1>2. CASE EarlyStep(t)
  BY <1>2, EarlyStepKeeps
<1>3. QED
  BY <1>1, <1>2, SnapshotFailsKeeps, RevertKeeps, AppendOutcomeUnknownKeeps, ScanMovesKeep,
     ReconcileAppendFailsKeeps
  DEF CallFailure, EarlyStep

LEMMA RecoverLease ==
  ASSUME TypeOK, NullifierInv, LeaseInv, NEW t \in Tasks, NEW r \in Records, Recover(t, r)
  PROVE  LeaseInv'
<1>1. CASE r \in Deposits /\ SettleDepositTransfer(t, r)
  BY <1>1, PullEndsKeeps, AcquiringStepsKeep
<1>2. CASE \/ r \in Deposits /\ RetryDepositCommitment(t, r)
           \/ r \in Spends /\ ReconcilePendingSpend(t, r)
  BY <1>2, AcquiringStepsKeep
<1>3. CASE r \in Spends /\ ReconcileNullifierInsert(t, r)
  BY <1>3, SpendBeginsKeeps
<1>4. QED
  BY <1>1, <1>2, <1>3, ScanMovesKeep, ReconcileAppendUnknownKeeps DEF Recover

LEMMA LeaseNext == TypeOK /\ NullifierInv /\ LeaseInv /\ [Next]_vars => LeaseInv'
<1>. SUFFICES ASSUME TypeOK, NullifierInv, LeaseInv, [Next]_vars PROVE LeaseInv'
  OBVIOUS
<1>1. ASSUME NEW t \in Tasks, NEW d \in Deposits, ShieldDeposit(t, d) PROVE LeaseInv'
  BY <1>1, ShieldDepositKeeps
<1>2. ASSUME NEW t \in Tasks, NEW s \in Spends, PrivateSpend(t, s) PROVE LeaseInv'
  BY <1>2, SpendBeginsKeeps
<1>3. ASSUME NEW t \in Tasks, NEW r \in Records, Recover(t, r) PROVE LeaseInv'
  BY <1>3, RecoverLease
<1>4. ASSUME NEW t \in Tasks, CallStep(t) \/ CallFailure(t) PROVE LeaseInv'
  BY <1>4, CallStepLease, CallFailureLease
<1>5. ASSUME NEW o \in orphans, DeliverOrphan(o) \/ RejectOrphan(o) PROVE LeaseInv'
  BY <1>5, OrphanKeeps
<1>6. CASE ActivatePendingVk \/ UNCHANGED vars
  <2>1. UNCHANGED <<status, index, lease, nextGen, accepted, head, task, leaves, pulled, orphans>>
    BY <1>6 DEF ActivatePendingVk, vars, pool, outside
  <2>2. ReadInv' /\ TreeInv'
    BY <2>1 DEF LeaseInv, ReadInv, ReadAt, TreeInv, Appended, NothingNew, TreeQueueClear, Items, At
  <2>3. StatusInv'
    BY <2>1 DEF LeaseInv, StatusInv, LeaseFreeSweepPasses, PhaseStatuses, AppendInFlight, AppendUnknown,
       ReconcileStatus, AppendConfirmed
  <2>4. (OneOwner /\ ResumedCallOwnsLease /\ GenInv /\ ScanInv /\ LateAppendInv /\ HeadInv /\ PullInv)'
    BY <2>1 DEF LeaseInv, OneOwner, ResumedCallOwnsLease, LeaseExpect, GenInv, ScanInv, ScanAt,
       LateAppendInv, NothingNew, HeadInv, PullInv, PullAt, At
  <2>5. QED
    BY <2>2, <2>3, <2>4 DEF LeaseInv
<1>7. QED
  BY <1>1, <1>2, <1>3, <1>4, <1>5, <1>6, UpgradeLeaseKeeps DEF Next

(* One call at a time holds the lease, and lease, record, tree and late    *)
(* requests agree on what it is held for.                                  *)
THEOREM LeaseInvariant == Spec => []LeaseInv
<1>1. Init => LeaseInv
  BY LeaseInit
<1>2. TypeOK /\ NullifierInv /\ LeaseInv /\ [Next]_vars => LeaseInv'
  BY LeaseNext
<1>3. QED
  BY <1>1, <1>2, TypeCorrect, NullifierInvariant, PTL DEF Spec

(* post_upgrade traps on no state the pool can be in: whoever holds the    *)
(* lease rests in a status its phase allows, nobody else rests in a status *)
(* that needs it, and the head is an accepted root.                        *)
LEMMA UpgradeableNow == TypeOK /\ LeaseInv => AlwaysUpgradeable
<1>. SUFFICES ASSUME TypeOK, LeaseInv PROVE AlwaysUpgradeable
  OBVIOUS
<1>1. LeaseTupleLegal
  <2>1. CASE lease = NoLease
    BY <2>1, LeaseFacts DEF LeaseTupleLegal
  <2>2. CASE lease # NoLease
    <3>1. /\ lease.owner \in Records /\ lease.phase \in LeasePhases
          /\ status[lease.owner] \in PhaseStatuses(lease.owner, lease.phase)
      BY <2>2, LeaseFacts DEF LeaseInv, StatusInv
    <3>2. QED
      BY <3>1 DEF LeaseTupleLegal, PhaseStatuses, LeasePhases, ReconcileStatus
  <2>3. QED
    BY <2>1, <2>2
<1>2. QED
  BY <1>1 DEF LeaseInv, StatusInv, HeadInv, AlwaysUpgradeable, UpgradeAccepted

(* post_upgrade traps on no reachable state: whenever an upgrade strikes,  *)
(* every record that needs the lease owns it, in the phase its status says.*)
THEOREM AlwaysUpgradeableTheorem == Spec => []AlwaysUpgradeable
  BY LeaseInvariant, TypeCorrect, UpgradeableNow, PTL

(* The append lease is exclusive where it counts: the published head is    *)
(* that of the caller's own append, no lease_expect refuses a call that    *)
(* resumes, and a reconciliation never meets somebody else's leaf.         *)
LEMMA ExclusiveNow == TypeOK /\ LeaseInv => LeaseIsExclusive
<1>. SUFFICES ASSUME TypeOK, LeaseInv PROVE LeaseIsExclusive
  OBVIOUS
<1>1. HeadNeverTraps
  <2>1. ASSUME NEW t \in Tasks, At(t, "scanHead"), task[t].reply = "ok",
               LeaseExpect(task[t].id, task[t].gen, "AppendConfirmedRootPending")
        PROVE  HeadCommittable(task[t].num, ExpectedCount(task[t].id))
    <3>1. /\ task[t].id \in Records /\ index[task[t].id] = head /\ Appended(task[t].id)
          /\ task[t].num = Len(leaves)
      BY <2>1, ScanCall DEF At
    <3>2. Len(leaves) = head + Len(Items(task[t].id)) /\ Len(leaves) > head
      BY <3>1, AppendedClears
    <3>3. QED
      BY <3>1, <3>2, LeaseFacts DEF HeadCommittable, ExpectedCount
  <2>2. QED
    BY <2>1 DEF HeadNeverTraps
<1>2. ASSUME NEW t \in Tasks, AmbiguousTree(t) PROVE FALSE
  <2>1. /\ task[t].pc \in ReconcilePCs
        /\ \/ task[t].pc \in {"recLeaf", "spRest"} /\ task[t].reply = "miss"
           \/ task[t].pc = "spCountMiss" /\ task[t].reply = "ok" /\ task[t].num > index[task[t].id]
    BY <1>2 DEF AmbiguousTree, At, ReconcilePCs
  <2>2. ReadAt(t) /\ index[task[t].id] = head
    BY <2>1, ReconcileCall
  <2>3. QED
    BY <2>1, <2>2, LeaseFacts DEF ReadAt, At
<1>3. QED
  BY <1>1, <1>2 DEF LeaseIsExclusive, LeaseInv

(* The lease is exclusive where it counts: publishing a head never traps,  *)
(* a call that resumes with an outcome still owns the lease, and a         *)
(* reconciliation never finds somebody else's leaf at its record's place.  *)
THEOREM LeaseIsExclusiveTheorem == Spec => []LeaseIsExclusive
  BY LeaseInvariant, TypeCorrect, ExclusiveNow, PTL

-----------------------------------------------------------------------------
(* The books: what every record has put into the tree and the accounting   *)
(* words.                                                                  *)

Unpulled == {"Absent", "TransferPending"}
Anchored == ReservesNullifiers \cup Committed
Booked == Credited \cup Promoted
ItemsOf(r) == {Items(r)[j] : j \in 1..Len(Items(r))}

(* A record whose leaves are in an accepted tree. *)
ClosedRecord(r) ==
    IF r \in Deposits THEN status[r] = "CommitmentRootAccepted" ELSE status[r] \in Promoted

(* A call of a spend is anchored in the accepted tree, and once the proof  *)
(* was verified its inputs are leaves of it.                               *)
AnchorAt(t) ==
    /\ task[t].pc \in {"precheck", "admit", "verify"} => task[t].anchor <= head
    /\ task[t].pc \in {"recheck", "commit"} => Provable(task[t].id, head)

AnchorInv ==
    /\ \A t \in Tasks : AnchorAt(t)
    /\ \A s \in Spends : status[s] \in Anchored => Provable(s, head)

(* A deposit record past its pull has been paid for. *)
PaidInv == \A d \in Deposits : status[d] \notin Unpulled => d \in pulled

(* The accepted tree is the leaves of closed records. *)
HeadClosed == \A i \in 1..head : \E r \in Records : ClosedRecord(r) /\ leaves[i] \in ItemsOf(r)

(* The notes that the books have let in, those they have let out, and the  *)
(* liability for the difference.                                           *)
NotesIn == CreditedDeposits \cup UNION {OutputsOf(s) : s \in PromotedSpends}
NotesOut == UNION {Inputs[s] : s \in PromotedSpends}
CoverInv == SumOver(Amount, NotesIn \ NotesOut) <= acct.liability

BookInv ==
    /\ AnchorInv /\ PaidInv /\ HeadClosed /\ EveryLeafPaidFor
    /\ CoverInv /\ AccountingMatchesRecords

(* Commitments are fresh: no two outputs or deposits share one. *)
FreshCommitments ==
    /\ \A r \in Records : \A i, j \in 1..Len(Items(r)) : Items(r)[i] = Items(r)[j] => i = j
    /\ \A r, q \in Records : r # q => ItemsOf(r) \cap ItemsOf(q) = {}

-----------------------------------------------------------------------------
(* What a step does to the tree, the registry and the ledger. *)

LeavesGrow ==
    \/ leaves' = leaves
    \/ /\ NothingNew /\ lease.owner \in Records /\ lease.phase \in Unsettled
       /\ status[lease.owner] \in PhaseStatuses(lease.owner, lease.phase)
       /\ leaves' = leaves \o Items(lease.owner)
       /\ UNCHANGED <<status, acct, head, spentBy, pulled>>

OutsideGrows ==
    /\ LeavesGrow /\ pulled \subseteq pulled'
    /\ \A n \in Notes : spentBy[n] # NoRecord => spentBy'[n] = spentBy[n]

(* The call that appends runs under the lease. *)
LEMMA TreeAppendGrows ==
  ASSUME TypeOK, LeaseInv, NEW t \in Tasks, TreeAppend(t)
  PROVE  LeavesGrow
<1>1. task[t].pc = "append" /\ task[t].reply = "none"
  BY DEF TreeAppend, At
<1>2. /\ task[t].id \in Records /\ lease.owner = task[t].id /\ lease.phase = "AppendInFlight"
      /\ status[task[t].id] = AppendInFlight(task[t].id) /\ NothingNew
  BY <1>1, AppendCall
<1>3. lease.phase \in Unsettled
  BY <1>2 DEF Unsettled
<1>4. status[lease.owner] \in PhaseStatuses(lease.owner, lease.phase)
  BY <1>2, PhaseStatusFacts DEF LeasePhases
<1>5. UNCHANGED <<status, acct, head, spentBy, pulled>>
  BY DEF TreeAppend, pool
<1>6. leaves' = leaves \/ leaves' = leaves \o Items(task[t].id)
  BY DEF TreeAppend
<1>7. QED
  BY <1>2, <1>3, <1>4, <1>5, <1>6 DEF LeavesGrow

LEMMA LateAppendGrows ==
  ASSUME TypeOK, LeaseInv, NEW o \in orphans, DeliverOrphan(o)
  PROVE  LeavesGrow
<1>1. CASE o.kind # "append"
  BY <1>1 DEF DeliverOrphan, LeavesGrow
<1>2. CASE o.kind = "append"
  <2>1. /\ lease.owner = o.id /\ lease.phase \in {"AppendUnknown", "ReconcileInFlight"}
        /\ NothingNew
    BY <1>2 DEF LeaseInv, LateAppendInv
  <2>2. lease # NoLease
    BY <2>1, LeaseFacts
  <2>3. /\ lease.owner \in Records /\ lease.phase \in Unsettled
        /\ status[lease.owner] \in PhaseStatuses(lease.owner, lease.phase)
    BY <2>1, <2>2, LeaseFacts DEF LeaseInv, StatusInv, Unsettled
  <2>4. UNCHANGED <<status, acct, head, spentBy, pulled>>
    BY <1>2 DEF DeliverOrphan, pool
  <2>5. leaves' = leaves \/ leaves' = leaves \o Items(lease.owner)
    BY <2>1 DEF DeliverOrphan
  <2>6. QED
    BY <2>1, <2>3, <2>4, <2>5 DEF LeavesGrow
<1>3. QED
  BY <1>1, <1>2

(* insert_batch never takes a nullifier that is spent. *)
LEMMA FreshInserts ==
  ASSUME TypeOK, NEW s, Fresh(s)
  PROVE  \A n \in Notes : spentBy[n] # NoRecord => Inserted(s)[n] = spentBy[n]
  BY DEF Fresh, Inserted, Spent

LEMMA CallStepGrows ==
  ASSUME TypeOK, LeaseInv, NEW t \in Tasks, CallStep(t)
  PROVE  OutsideGrows
<1>1. CASE TreeAppend(t)
  BY <1>1, TreeAppendGrows DEF OutsideGrows, TreeAppend
<1>2. CASE LedgerTransferFrom(t)
  BY <1>2 DEF LedgerTransferFrom, OutsideGrows, LeavesGrow
<1>3. CASE RegistryInsert(t)
  BY <1>3, FreshInserts DEF RegistryInsert, OutsideGrows, LeavesGrow
<1>4. CASE \/ TransferConfirmed(t) \/ TransferRefused(t) \/ TreeCount(t) \/ TreeLeaf(t)
           \/ ClaimAppend(t) \/ DepositAppended(t) \/ SpendAppended(t) \/ AppendRejected(t)
  <2>1. UNCHANGED outside
    BY <1>4 DEF TransferConfirmed, TransferRefused, TreeCount, TreeLeaf, ClaimAppend, DepositAppended,
       SpendAppended, AppendRejected
  <2>2. QED
    BY <2>1 DEF outside, OutsideGrows, LeavesGrow
<1>5. CASE \/ DepositRootAccepted(t) \/ SpendRootAccepted(t) \/ ScanHeadStale(t)
           \/ DepositNotAppended(t) \/ DepositAskLeaf(t) \/ DepositFoundAppended(t)
           \/ SpendAskCount(t) \/ SpendAskRest(t) \/ SpendFoundAppended(t) \/ SpendNotAppended(t)
  <2>1. UNCHANGED outside
    BY <1>5 DEF DepositRootAccepted, SpendRootAccepted, ScanHeadStale, DepositNotAppended,
       DepositAskLeaf, DepositFoundAppended, SpendAskCount, SpendAskRest, SpendFoundAppended,
       SpendNotAppended
  <2>2. QED
    BY <2>1 DEF outside, OutsideGrows, LeavesGrow
<1>6. CASE \/ RegistryContains(t) \/ PrecheckRefuses(t) \/ PrecheckPasses(t) \/ AdmitSpend(t)
           \/ VerifierAccepts(t) \/ VerifierRejects(t) \/ RecheckFails(t) \/ RecheckPasses(t)
           \/ EpochChanged(t) \/ CommitSpend(t) \/ NullifierInserted(t)
           \/ ReconciledCommitted(t) \/ ReconciledNotCommitted(t)
  <2>1. UNCHANGED outside
    BY <1>6 DEF RegistryContains, PrecheckRefuses, PrecheckPasses, AdmitSpend, VerifierAccepts,
       VerifierRejects, RecheckFails, RecheckPasses, EpochChanged, CommitSpend, NullifierInserted,
       ReconciledCommitted, ReconciledNotCommitted
  <2>2. QED
    BY <2>1 DEF outside, OutsideGrows, LeavesGrow
<1>7. QED
  BY <1>1, <1>2, <1>3, <1>4, <1>5, <1>6 DEF CallStep

LEMMA NextGrows ==
  ASSUME TypeOK, LeaseInv, [Next]_vars
  PROVE  OutsideGrows
<1>1. ASSUME NEW t \in Tasks, CallFailure(t) PROVE UNCHANGED outside
  BY <1>1 DEF CallFailure, TransferUnknown, SnapshotFails, SpendAppendDefinitelyNot,
     AppendOutcomeUnknown, ScanHeadFails, ReconcileAppendFails, VerifierUnavailable,
     NullifierQueryFails, PayoutPreconditionFails, InsertRejected, InsertOutcomeUnknown,
     ReconcileNullifierFails
<1>2. ASSUME NEW t \in Tasks, NEW r \in Records, Recover(t, r) PROVE UNCHANGED outside
  BY <1>2 DEF Recover, SettleDepositTransfer, RetryDepositCommitment, ReconcileRootPending,
     ReconcileAppendUnknown, ReconcileNullifierInsert, ReconcilePendingSpend
<1>3. ASSUME NEW t \in Tasks, \/ \E d \in Deposits : ShieldDeposit(t, d)
                              \/ \E s \in Spends : PrivateSpend(t, s)
      PROVE UNCHANGED outside
  BY <1>3 DEF ShieldDeposit, PrivateSpend
<1>4. Upgrade \/ ActivatePendingVk \/ UNCHANGED vars => UNCHANGED <<leaves, spentBy, pulled>>
  BY DEF Upgrade, ActivatePendingVk, vars, outside
<1>5. ASSUME NEW o \in orphans, DeliverOrphan(o) PROVE OutsideGrows
  <2>1. LeavesGrow
    BY <1>5, LateAppendGrows
  <2>2. pulled \subseteq pulled'
    BY <1>5 DEF DeliverOrphan
  <2>3. \A n \in Notes : spentBy[n] # NoRecord => spentBy'[n] = spentBy[n]
    BY <1>5, FreshInserts DEF DeliverOrphan
  <2>4. QED
    BY <2>1, <2>2, <2>3 DEF OutsideGrows
<1>6. ASSUME NEW o \in orphans, RejectOrphan(o) PROVE UNCHANGED <<leaves, spentBy, pulled>>
  BY <1>6 DEF RejectOrphan
<1>7. UNCHANGED <<leaves, spentBy, pulled>> => OutsideGrows
  BY DEF OutsideGrows, LeavesGrow
<1>8. UNCHANGED outside => UNCHANGED <<leaves, spentBy, pulled>>
  BY DEF outside
<1>9. QED
  BY <1>1, <1>2, <1>3, <1>4, <1>5, <1>6, <1>7, <1>8, CallStepGrows DEF Next

-----------------------------------------------------------------------------
(* What a step does to the books: it leaves them alone, credits a deposit  *)
(* or publishes the tree with the lease owner's leaves.                    *)

MayMove(r, old, new) ==
    /\ old \notin Terminal \cup Booked /\ new \notin Booked
    /\ r \in Deposits /\ old \in Unpulled => new \in Unpulled \/ r \in pulled
    /\ r \in Spends /\ new \in Anchored => old \in Anchored \/ Provable(r, head)

Quiet ==
    /\ UNCHANGED <<acct, head, accepted>>
    /\ \A r \in Records : status'[r] = status[r] \/ MayMove(r, status[r], status'[r])

Credits(d) ==
    /\ status[d] \in {"CommitmentAppendInFlight", "CommitmentReconcileInFlight"}
    /\ status'[d] = "CommitmentAppended"
    /\ \A r \in Records : r # d => status'[r] = status[r]
    /\ acct' = [acct EXCEPT !.liability = @ + Amount[d], !.escrow = @ + Amount[d]]
    /\ UNCHANGED <<head, accepted, leaves, spentBy, pulled>>

Publishes(r) ==
    /\ status[r] = AppendConfirmed(r) /\ Appended(r)
    /\ head' = Len(leaves) /\ accepted' = accepted \cup {Len(leaves)}
    /\ \A x \in Records : x # r => status'[x] = status[x]
    /\ UNCHANGED <<leaves, spentBy, pulled>>
    /\ IF r \in Deposits
       THEN status'[r] = "CommitmentRootAccepted" /\ UNCHANGED acct
       ELSE /\ status'[r] \in Promoted
            /\ acct' = [liability |-> Debited(acct.liability, Debit(r)),
                        escrow |-> Debited(acct.escrow, Debit(r)),
                        reserves |-> acct.reserves + Fee[r]]

BookStep == Quiet \/ (\E d \in Deposits : Credits(d)) \/ (\E r \in Records : Publishes(r))

(* The statuses between the pull and the credit, or between insert_batch   *)
(* and promotion.                                                          *)
Underway == {"TransferConfirmedCommitmentPending", "CommitmentAppendInFlight",
             "CommitmentAppendUnknown", "CommitmentReconcileInFlight"}
Appending == {"NullifierFinalizedOutputsPending", "ActiveAppendInFlight", "ActiveAppendUnknown",
              "ActiveAppendRejected", "ActiveRootPending"}

LEMMA QuietMove ==
  ASSUME TypeOK, NEW r \in Records, NEW st, SetStatus(r, st),
         st = status[r] \/ MayMove(r, status[r], st), UNCHANGED <<acct, head, accepted>>
  PROVE  BookStep
  BY StatusUpdate DEF BookStep, Quiet

LEMMA QuietStill ==
  ASSUME UNCHANGED <<status, acct, head, accepted>>
  PROVE  BookStep
  BY DEF BookStep, Quiet

(* The moves of a record that is being appended. *)
LEMMA DepositMoves ==
  ASSUME NEW d \in Deposits, NEW old \in Underway, NEW st \in Underway
  PROVE  MayMove(d, old, st)
  BY RecordAssumption DEF MayMove, Underway, Unpulled, Terminal, Booked, Credited, Promoted

LEMMA SpendMoves ==
  ASSUME NEW s \in Spends, NEW old \in Appending, NEW st \in Appending
  PROVE  MayMove(s, old, st)
  BY RecordAssumption DEF MayMove, Appending, Anchored, Committed, Terminal, Booked, Credited, Promoted

(* The status of a record whose append is under way. *)
LEMMA AppendStatuses ==
  ASSUME NEW r \in Records
  PROVE  /\ r \in Deposits => /\ AppendInFlight(r) \in Underway /\ AppendUnknown(r) \in Underway
                              /\ ReconcileStatus(r) \in Underway
         /\ r \notin Deposits => /\ r \in Spends
                                 /\ AppendInFlight(r) \in Appending /\ AppendUnknown(r) \in Appending
                                 /\ ReconcileStatus(r) \in Appending
  BY DEF Records, AppendInFlight, AppendUnknown, ReconcileStatus, Underway, Appending

LEMMA UnderwayMove ==
  ASSUME TypeOK, NEW r \in Records, NEW st, SetStatus(r, st), UNCHANGED <<acct, head, accepted>>,
         IF r \in Deposits THEN status[r] \in Underway /\ st \in Underway
                           ELSE status[r] \in Appending /\ st \in Appending
  PROVE  BookStep
<1>1. r \notin Deposits => r \in Spends
  BY DEF Records
<1>2. MayMove(r, status[r], st)
  BY <1>1, DepositMoves, SpendMoves
<1>3. QED
  BY <1>2, QuietMove

LEMMA ClaimAppendBooks ==
  ASSUME TypeOK, NullifierInv, LeaseInv, NEW t \in Tasks, ClaimAppend(t)
  PROVE  BookStep
<1>. DEFINE r == task[t].id
<1>1. /\ task[t].pc = "snapshot" /\ task[t].pc \in OwnerPCs /\ UNCHANGED <<acct, head, accepted>>
      /\ UNCHANGED status \/ (status[r] \in Appendable /\ SetStatus(r, AppendInFlight(r)))
  BY DEF ClaimAppend, At, OwnerPCs
<1>2. r \in Records /\ (r \notin Deposits => r \in Spends)
  BY <1>1, Owner DEF Records
<1>3. r \in Spends => status[r] \in Committed
  BY <1>1 DEF NullifierInv, AppendInv, AppendPCs
<1>4. r \notin Deposits /\ status[r] \in Appendable => status[r] \in Appending
  BY <1>2, <1>3 DEF Appendable, Appending, Committed
<1>5. CASE UNCHANGED status
  BY <1>1, <1>5, QuietStill
<1>6. CASE status[r] \in Appendable /\ SetStatus(r, AppendInFlight(r)) /\ r \notin Deposits
  BY <1>1, <1>2, <1>4, <1>6, AppendStatuses, UnderwayMove
<1>7. CASE status[r] \in Appendable /\ SetStatus(r, AppendInFlight(r)) /\ r \in Deposits
  <2>1. MayMove(r, status[r], AppendInFlight(r))
    BY <1>7, RecordAssumption DEF MayMove, AppendInFlight, Appendable, Unpulled, Terminal, Booked,
       Credited, Promoted
  <2>2. QED
    BY <1>1, <1>2, <1>7, <2>1, QuietMove
<1>8. QED
  BY <1>1, <1>5, <1>6, <1>7

LEMMA AppendReplyBooks ==
  ASSUME TypeOK, LeaseInv, NEW t \in Tasks,
         \/ SpendAppended(t) \/ AppendRejected(t) \/ SpendAppendDefinitelyNot(t)
         \/ AppendOutcomeUnknown(t)
  PROVE  BookStep
<1>. DEFINE r == task[t].id
<1>1. /\ task[t].pc = "append" /\ UNCHANGED <<acct, head, accepted>>
      /\ \E st : /\ SetStatus(r, st)
                 /\ \/ r \in Spends /\ st \in {"ActiveRootPending", "ActiveAppendRejected"}
                    \/ r \in Deposits /\ st = "TransferConfirmedCommitmentPending"
                    \/ r \notin Deposits /\ st = "ActiveAppendRejected"
                    \/ st = AppendUnknown(r)
  <2>1. CASE SpendAppended(t)
    BY <2>1 DEF SpendAppended, At
  <2>2. CASE AppendRejected(t) \/ SpendAppendDefinitelyNot(t)
    BY <2>2 DEF AppendRejected, SpendAppendDefinitelyNot, RevertRejectedAppend, At
  <2>3. CASE AppendOutcomeUnknown(t)
    BY <2>3 DEF AppendOutcomeUnknown, At
  <2>4. QED
    BY <2>1, <2>2, <2>3
<1>2. r \in Records /\ status[r] = AppendInFlight(r)
  BY <1>1, AppendCall
<1>3. PICK st : /\ SetStatus(r, st)
                /\ \/ r \in Spends /\ st \in {"ActiveRootPending", "ActiveAppendRejected"}
                   \/ r \in Deposits /\ st = "TransferConfirmedCommitmentPending"
                   \/ r \notin Deposits /\ st = "ActiveAppendRejected"
                   \/ st = AppendUnknown(r)
  BY <1>1
<1>4. IF r \in Deposits THEN st \in Underway ELSE st \in Appending
  BY <1>2, <1>3, AppendStatuses, SpendFacts DEF Underway, Appending
<1>5. QED
  BY <1>1, <1>2, <1>3, <1>4, AppendStatuses, UnderwayMove

LEMMA ReconcileBooks ==
  ASSUME TypeOK, LeaseInv, NEW t \in Tasks,
         \/ DepositNotAppended(t) \/ SpendNotAppended(t) \/ SpendFoundAppended(t)
         \/ ReconcileAppendFails(t)
  PROVE  BookStep
<1>. DEFINE r == task[t].id
<1>1. /\ task[t].pc \in ReconcilePCs /\ UNCHANGED <<acct, head, accepted>>
      /\ \E st : /\ SetStatus(r, st)
                 /\ \/ task[t].pc = "recCount" /\ st = "TransferConfirmedCommitmentPending"
                    \/ /\ task[t].pc \in {"spRest", "spCountHit", "spCountMiss"}
                       /\ st \in {"ActiveRootPending", "NullifierFinalizedOutputsPending"}
                    \/ st = AppendUnknown(r)
  <2>1. CASE DepositNotAppended(t)
    BY <2>1 DEF DepositNotAppended, At, ReconcilePCs
  <2>2. CASE SpendNotAppended(t)
    BY <2>2 DEF SpendNotAppended, At, ReconcilePCs
  <2>3. CASE SpendFoundAppended(t)
    BY <2>3 DEF SpendFoundAppended, At, ReconcilePCs
  <2>4. CASE ReconcileAppendFails(t)
    BY <2>4 DEF ReconcileAppendFails, ReconcilePCs
  <2>5. QED
    BY <2>1, <2>2, <2>3, <2>4
<1>2. r \in Records /\ status[r] = ReconcileStatus(r)
  BY <1>1, ReconcileCall
<1>3. PICK st : /\ SetStatus(r, st)
                /\ \/ task[t].pc = "recCount" /\ st = "TransferConfirmedCommitmentPending"
                   \/ /\ task[t].pc \in {"spRest", "spCountHit", "spCountMiss"}
                      /\ st \in {"ActiveRootPending", "NullifierFinalizedOutputsPending"}
                   \/ st = AppendUnknown(r)
  BY <1>1
<1>4. /\ task[t].pc = "recCount" => r \in Deposits
      /\ task[t].pc \in {"spRest", "spCountHit", "spCountMiss"} => r \in Spends /\ r \notin Deposits
  BY TaskInfo, SpendFacts
<1>5. IF r \in Deposits THEN st \in Underway ELSE st \in Appending
  BY <1>2, <1>3, <1>4, AppendStatuses DEF Underway, Appending
<1>6. QED
  BY <1>1, <1>2, <1>3, <1>5, AppendStatuses, UnderwayMove

LEMMA ReconcileBegins ==
  ASSUME TypeOK, NEW t \in Tasks, NEW r \in Records, ReconcileAppendUnknown(t, r)
  PROVE  BookStep
<1>1. /\ status[r] = AppendUnknown(r) /\ SetStatus(r, ReconcileStatus(r))
      /\ UNCHANGED <<acct, head, accepted>>
  BY DEF ReconcileAppendUnknown, ReconcileStatus, AppendUnknown
<1>2. QED
  BY <1>1, AppendStatuses, UnderwayMove

(* The credit of a deposit whose leaf is in the tree. *)
LEMMA CreditBooks ==
  ASSUME TypeOK, LeaseInv, NEW t \in Tasks, DepositAppended(t) \/ DepositFoundAppended(t)
  PROVE  BookStep
<1>. DEFINE d == task[t].id
<1>1. /\ \E i, phase : CreditDeposit(t, d, i, phase)
      /\ UNCHANGED <<head, accepted, leaves, spentBy, pulled>>
      /\ task[t].pc \in {"append", "recLeaf"}
      /\ task[t].pc = "append" => d \in Deposits
  BY DEF DepositAppended, DepositFoundAppended, At, outside
<1>2. d \in Deposits /\ d \in Records
  BY <1>1, TaskInfo DEF Records
<1>3. status[d] \in {"CommitmentAppendInFlight", "CommitmentReconcileInFlight"}
  <2>1. CASE task[t].pc = "append"
    BY <1>2, <2>1, AppendCall DEF AppendInFlight
  <2>2. CASE task[t].pc = "recLeaf"
    BY <1>2, <2>2, ReconcileCall DEF ReconcileStatus, ReconcilePCs
  <2>3. QED
    BY <1>1, <2>1, <2>2
<1>4. /\ acct' = [acct EXCEPT !.liability = @ + Amount[d], !.escrow = @ + Amount[d]]
      /\ SetStatus(d, "CommitmentAppended")
  BY <1>1 DEF CreditDeposit
<1>5. status'[d] = "CommitmentAppended" /\ \A r \in Records : r # d => status'[r] = status[r]
  BY <1>2, <1>4, StatusUpdate
<1>6. Credits(d)
  BY <1>1, <1>3, <1>4, <1>5 DEF Credits
<1>7. QED
  BY <1>2, <1>6 DEF BookStep

(* The publication of the tree closes the record that owns the lease. *)
LEMMA PublishBooks ==
  ASSUME TypeOK, LeaseInv, NEW t \in Tasks, DepositRootAccepted(t) \/ SpendRootAccepted(t)
  PROVE  BookStep
<1>. DEFINE r == task[t].id
<1>1. /\ task[t].pc = "scanHead" /\ task[t].reply = "ok"
      /\ LeaseExpect(r, task[t].gen, "AppendConfirmedRootPending")
      /\ CommitAcceptedRootHead(task[t].num)
      /\ UNCHANGED <<leaves, spentBy, pulled>>
  BY DEF DepositRootAccepted, SpendRootAccepted, At, outside
<1>2. /\ r \in Records /\ status[r] = AppendConfirmed(r) /\ Appended(r)
      /\ task[t].num = Len(leaves)
  BY <1>1, ScanCall
<1>3. head' = Len(leaves) /\ accepted' = accepted \cup {Len(leaves)}
  BY <1>1, <1>2 DEF CommitAcceptedRootHead
<1>4. CASE DepositRootAccepted(t)
  <2>1. r \in Deposits /\ SetStatus(r, "CommitmentRootAccepted") /\ UNCHANGED acct
    BY <1>4 DEF DepositRootAccepted
  <2>2. status'[r] = "CommitmentRootAccepted" /\ \A x \in Records : x # r => status'[x] = status[x]
    BY <1>2, <2>1, StatusUpdate
  <2>3. Publishes(r)
    BY <1>1, <1>2, <1>3, <2>1, <2>2 DEF Publishes
  <2>4. QED
    BY <1>2, <2>3 DEF BookStep
<1>5. CASE SpendRootAccepted(t)
  <2>1. /\ r \in Spends /\ \E st \in Promoted : SetStatus(r, st)
        /\ acct' = [liability |-> Debited(acct.liability, Debit(r)),
                    escrow |-> Debited(acct.escrow, Debit(r)),
                    reserves |-> acct.reserves + Fee[r]]
    BY <1>5 DEF SpendRootAccepted, Promoted
  <2>2. status'[r] \in Promoted /\ \A x \in Records : x # r => status'[x] = status[x]
    BY <1>2, <2>1, StatusUpdate
  <2>3. r \notin Deposits
    BY <2>1, SpendFacts
  <2>4. Publishes(r)
    BY <1>1, <1>2, <1>3, <2>1, <2>2, <2>3 DEF Publishes
  <2>5. QED
    BY <1>2, <2>4 DEF BookStep
<1>6. QED
  BY <1>4, <1>5

(* A deposit before its append. *)
LEMMA PullMove ==
  ASSUME TypeOK, NEW d \in Deposits, NEW st, SetStatus(d, st), UNCHANGED <<acct, head, accepted>>,
         status[d] \in Unpulled, st \in Unpulled \/ (st \in Underway /\ d \in pulled)
  PROVE  BookStep
<1>1. MayMove(d, status[d], st)
  BY RecordAssumption DEF MayMove, Unpulled, Underway, Terminal, Booked, Credited, Promoted
<1>2. QED
  BY <1>1, QuietMove DEF Records

LEMMA PullBooks ==
  ASSUME TypeOK, LeaseInv, NEW t \in Tasks,
         \/ TransferConfirmed(t) \/ TransferRefused(t) \/ TransferUnknown(t)
         \/ \E d \in Deposits : ShieldDeposit(t, d) \/ SettleDepositTransfer(t, d)
  PROVE  BookStep
<1>1. CASE TransferConfirmed(t) \/ TransferRefused(t)
  <2>1. /\ task[t].id \in Deposits /\ status[task[t].id] = "TransferPending"
        /\ task[t].reply = "ok" => task[t].id \in pulled
    BY <1>1, TaskInfo DEF TransferConfirmed, TransferRefused, At, LeaseInv, PullInv, PullAt
  <2>2. /\ \/ SetStatus(task[t].id, "Absent")
           \/ task[t].reply = "ok" /\ SetStatus(task[t].id, "TransferConfirmedCommitmentPending")
        /\ UNCHANGED <<acct, head, accepted>>
    BY <1>1 DEF TransferConfirmed, TransferRefused
  <2>3. QED
    BY <2>1, <2>2, PullMove DEF Unpulled, Underway
<1>2. CASE TransferUnknown(t)
  BY <1>2, QuietStill DEF TransferUnknown, pool
<1>3. ASSUME NEW d \in Deposits, ShieldDeposit(t, d) PROVE BookStep
  BY <1>3, PullMove DEF ShieldDeposit, Unpulled
<1>4. ASSUME NEW d \in Deposits, SettleDepositTransfer(t, d) PROVE BookStep
  <2>1. /\ status[d] = "TransferPending" /\ UNCHANGED <<acct, head, accepted>>
        /\ \/ SetStatus(d, "Absent")
           \/ d \in pulled /\ SetStatus(d, "TransferConfirmedCommitmentPending")
    BY <1>4 DEF SettleDepositTransfer
  <2>2. QED
    BY <2>1, PullMove DEF Unpulled, Underway
<1>5. QED
  BY <1>1, <1>2, <1>3, <1>4

(* A spend whose nullifiers are spent: by its reply, or as reconciled. *)
LEMMA InsertedBooks ==
  ASSUME TypeOK, NullifierInv, NEW t \in Tasks, NullifierInserted(t) \/ ReconciledCommitted(t)
  PROVE  BookStep
<1>. DEFINE s == task[t].id
<1>1. /\ task[t].pc \in {"insert", "recNull"} /\ UNCHANGED <<acct, head, accepted>>
      /\ SetStatus(s, "NullifierFinalizedOutputsPending")
  BY DEF NullifierInserted, ReconciledCommitted, At
<1>2. /\ s \in Spends /\ s \in Records
      /\ status[s] \in {"OutputsStaged", "NullifierReconcileInFlight"}
  BY <1>1, CriticalStatus DEF Critical, Guarding
<1>3. MayMove(s, status[s], "NullifierFinalizedOutputsPending")
  BY <1>2, SpendFacts DEF MayMove, Terminal, Booked, Credited, Promoted, Anchored, ReservesNullifiers
<1>4. QED
  BY <1>1, <1>2, <1>3, QuietMove

(* A spend before its insert_batch is known to have run. *)
LEMMA EarlyMove ==
  ASSUME TypeOK, NEW s \in Spends, NEW st \in Early, SetStatus(s, st),
         UNCHANGED <<acct, head, accepted>>,
         status[s] \in Early \ Terminal,
         st \in ReservesNullifiers => status[s] \in ReservesNullifiers \/ Provable(s, head)
  PROVE  BookStep
<1>1. s \notin Deposits /\ s \in Records
  BY SpendFacts
<1>2. MayMove(s, status[s], st)
  BY <1>1 DEF MayMove, Early, Terminal, Booked, Credited, Promoted, Anchored, ReservesNullifiers,
     Committed
<1>3. QED
  BY <1>1, <1>2, QuietMove

LEMMA EarlyBooks ==
  ASSUME TypeOK, NullifierInv, AnchorInv, NEW t \in Tasks, EarlyStep(t)
  PROVE  BookStep
<1>. DEFINE s == task[t].id
<1>1. /\ s \in Spends /\ UNCHANGED <<acct, head, accepted>>
      /\ UNCHANGED status \/ (\E st \in Early : SetStatus(s, st))
      /\ UNCHANGED status \/ status[s] \in Early
  BY EarlyStepMoves
<1>2. CASE UNCHANGED status
  BY <1>1, <1>2, QuietStill
<1>3. ASSUME NEW st \in Early, SetStatus(s, st), ~ UNCHANGED status PROVE BookStep
  <2>1. CASE task[t].pc \in {"insert", "recNull"}
    <3>1. status[s] \in ReservesNullifiers /\ status[s] \in Early \ Terminal
      BY <2>1, CriticalStatus DEF Critical, Guarding, ReservesNullifiers, Early, Terminal
    <3>2. QED
      BY <1>1, <1>3, <3>1, EarlyMove
  <2>2. CASE task[t].pc = "commit"
    <3>1. Provable(s, head)
      BY <2>2 DEF AnchorInv, AnchorAt
    <3>2. status[s] \in Early \ Terminal
      BY <2>2, CriticalStatus DEF Critical, Guarding, Admitted, Early, Terminal
    <3>3. QED
      BY <1>1, <1>3, <3>1, <3>2, EarlyMove
  <2>3. CASE task[t].pc \in {"verify", "recheck"}
    <3>1. status[s] \in Early \ Terminal
      BY <2>3, CriticalStatus DEF Critical, Guarding, Admitted, Early, Terminal
    <3>2. \E new \in Early \ ReservesNullifiers : SetStatus(s, new)
      BY <1>3, <2>3 DEF EarlyStep, RegistryContains, PrecheckRefuses, PrecheckPasses, AdmitSpend,
         VerifierAccepts, VerifierRejects, VerifierUnavailable, RecheckFails, RecheckPasses,
         NullifierQueryFails, PayoutPreconditionFails, EpochChanged, CommitSpend, RegistryInsert,
         InsertRejected, InsertOutcomeUnknown, ReconciledNotCommitted, ReconcileNullifierFails, At,
         pool, Early, ReservesNullifiers
    <3>3. QED
      BY <1>1, <3>1, <3>2, EarlyMove
  <2>4. CASE task[t].pc \notin {"verify", "recheck", "commit", "insert", "recNull"}
    <3>1. AdmitSpend(t)
      BY <1>3, <2>4 DEF EarlyStep, RegistryContains, PrecheckRefuses, PrecheckPasses,
         VerifierAccepts, VerifierRejects, VerifierUnavailable, RecheckFails, RecheckPasses,
         NullifierQueryFails, PayoutPreconditionFails, EpochChanged, CommitSpend, RegistryInsert,
         InsertRejected, InsertOutcomeUnknown, ReconciledNotCommitted, ReconcileNullifierFails, At,
         pool
    <3>2. status[s] = "Absent" /\ SetStatus(s, "VerificationPending")
      BY <1>3, <3>1 DEF AdmitSpend
    <3>3. QED
      BY <1>1, <3>2, EarlyMove DEF Early, Terminal, ReservesNullifiers
  <2>5. QED
    BY <2>1, <2>2, <2>3, <2>4
<1>4. QED
  BY <1>1, <1>2, <1>3

LEMMA ReconcileNullifierBooks ==
  ASSUME TypeOK, NEW t \in Tasks, NEW s \in Spends, ReconcileNullifierInsert(t, s)
  PROVE  BookStep
  BY EarlyMove DEF ReconcileNullifierInsert, Early, Terminal, ReservesNullifiers

(* post_upgrade moves no record into or out of the books. *)
LEMMA UpgradeBooks ==
  ASSUME TypeOK, Upgrade
  PROVE  BookStep
<1>1. UNCHANGED <<acct, head, accepted>> /\ \A r \in Records : status'[r] = UpgradedStatus(status[r])
  BY DEF Upgrade
<1>2. ASSUME NEW r \in Records, status'[r] # status[r] PROVE MayMove(r, status[r], status'[r])
  <2>1. \/ status[r] \in {"CommitmentAppendInFlight", "CommitmentReconcileInFlight"}
              /\ status'[r] = "CommitmentAppendUnknown"
        \/ status[r] = "ActiveAppendInFlight" /\ status'[r] = "ActiveAppendUnknown"
        \/ status[r] = "VerificationPending" /\ status'[r] = "Absent"
        \/ status[r] \in {"OutputsStaged", "NullifierReconcileInFlight"}
              /\ status'[r] = "NullifierInsertUnknown"
    BY <1>1, <1>2 DEF UpgradedStatus
  <2>2. QED
    BY <2>1 DEF MayMove, Terminal, Booked, Credited, Promoted, Unpulled, Anchored,
       ReservesNullifiers, Committed
<1>3. QED
  BY <1>1, <1>2 DEF BookStep, Quiet

LEMMA CallStepBooks ==
  ASSUME TypeOK, NullifierInv, LeaseInv, AnchorInv, NEW t \in Tasks, CallStep(t)
  PROVE  BookStep
<1>1. CASE EarlyStep(t)
  BY <1>1, EarlyBooks
<1>2. CASE \/ LedgerTransferFrom(t) \/ TreeCount(t) \/ TreeLeaf(t) \/ TreeAppend(t)
           \/ ScanHeadStale(t) \/ DepositAskLeaf(t) \/ SpendAskCount(t) \/ SpendAskRest(t)
  <2>1. UNCHANGED pool
    BY <1>2 DEF LedgerTransferFrom, TreeCount, TreeLeaf, TreeAppend, ScanHeadStale, DepositAskLeaf,
       SpendAskCount, SpendAskRest
  <2>2. QED
    BY <2>1, QuietStill DEF pool
<1>3. QED
  BY <1>1, <1>2, PullBooks, ClaimAppendBooks, CreditBooks, AppendReplyBooks, PublishBooks,
     ReconcileBooks, InsertedBooks DEF CallStep, EarlyStep

LEMMA CallFailureBooks ==
  ASSUME TypeOK, NullifierInv, LeaseInv, AnchorInv, NEW t \in Tasks, CallFailure(t)
  PROVE  BookStep
<1>1. CASE EarlyStep(t)
  BY <1>1, EarlyBooks
<1>2. CASE SnapshotFails(t) \/ ScanHeadFails(t)
  BY <1>2, QuietStill DEF SnapshotFails, ScanHeadFails, pool
<1>3. QED
  BY <1>1, <1>2, PullBooks, AppendReplyBooks, ReconcileBooks DEF CallFailure, EarlyStep

LEMMA RecoverBooks ==
  ASSUME TypeOK, LeaseInv, NEW t \in Tasks, NEW r \in Records, Recover(t, r)
  PROVE  BookStep
<1>1. CASE RetryDepositCommitment(t, r) \/ ReconcileRootPending(t, r) \/ ReconcilePendingSpend(t, r)
  BY <1>1, QuietStill DEF RetryDepositCommitment, ReconcileRootPending, ReconcilePendingSpend, pool
<1>2. QED
  BY <1>1, PullBooks, ReconcileBegins, ReconcileNullifierBooks DEF Recover

LEMMA NextBooks ==
  ASSUME TypeOK, NullifierInv, LeaseInv, AnchorInv, [Next]_vars
  PROVE  BookStep
<1>1. ASSUME NEW t \in Tasks, NEW s \in Spends, PrivateSpend(t, s) PROVE BookStep
  BY <1>1, QuietStill DEF PrivateSpend, pool
<1>2. ASSUME NEW o \in orphans, DeliverOrphan(o) \/ RejectOrphan(o) PROVE BookStep
  BY <1>2, QuietStill DEF DeliverOrphan, RejectOrphan, pool
<1>3. CASE ActivatePendingVk \/ UNCHANGED vars
  BY <1>3, QuietStill DEF ActivatePendingVk, vars, pool
<1>4. QED
  BY <1>1, <1>2, <1>3, UpgradeBooks, PullBooks, CallStepBooks, CallFailureBooks, RecoverBooks DEF Next

-----------------------------------------------------------------------------
(* The anchors of the calls. *)

AnchorPCs == {"precheck", "admit", "verify", "recheck", "commit"}

(* A call after the step is where it was, or anchored in the tree of now.  *)
AnchorsAt(u) ==
    \/ task'[u] = task[u]
    \/ /\ task'[u].pc \in {"precheck", "admit", "verify"} => task'[u].anchor <= head
       /\ task'[u].pc \in {"recheck", "commit"} => Provable(task'[u].id, head)
Anchors == \A u \in Tasks : AnchorsAt(u)

LEMMA ElsewhereAnchors ==
  ASSUME NEW t \in Tasks, \A u \in Tasks : u # t => task'[u] = task[u],
         task'[t].pc \notin AnchorPCs
  PROVE  Anchors
  BY DEF Anchors, AnchorsAt, AnchorPCs

LEMMA FinishAnchors == ASSUME TypeOK, NEW t \in Tasks, Finish(t) PROVE Anchors
  BY Finishes, ElsewhereAnchors DEF AnchorPCs

LEMMA AwaitAnchors ==
  ASSUME TypeOK, NEW t \in Tasks, NEW pc, pc \notin AnchorPCs, NEW r, NEW g, NEW guard,
         Await(t, Call(pc, r, g, guard))
  PROVE  Anchors
  BY Awaits, ElsewhereAnchors

LEMMA AcquireAnchors ==
  ASSUME TypeOK, NEW t \in Tasks, NEW r, AcquireAndSnapshot(t, r)
  PROVE  Anchors
  BY FinishAnchors, AwaitAnchors DEF AcquireAndSnapshot, AnchorPCs

LEMMA AnswerAnchors ==
  ASSUME TypeOK, NEW t \in Tasks, task[t].pc \notin AnchorPCs, NEW rep, NEW n,
         Answer(t, rep) \/ (rep = "ok" /\ AnswerCount(t, n))
  PROVE  Anchors
  BY Answers, ElsewhereAnchors

LEMMA AdmissionAnchors ==
  ASSUME TypeOK, AnchorInv, NEW t \in Tasks,
         \/ RegistryContains(t) \/ PrecheckPasses(t) \/ AdmitSpend(t) \/ VerifierAccepts(t)
         \/ RecheckPasses(t) \/ CommitSpend(t)
  PROVE  Anchors
<1>1. AnchorAt(t)
  BY DEF AnchorInv
<1>2. ASSUME /\ \A u \in Tasks : u # t => task'[u] = task[u]
             /\ task'[t].id = task[t].id /\ task'[t].anchor = task[t].anchor
             /\ task'[t].pc \in {"admit", "verify"} => task[t].pc \in {"precheck", "admit", "verify"}
             /\ task'[t].pc = "precheck" => task[t].pc = "precheck"
             /\ task'[t].pc \in {"recheck", "commit"} => task[t].pc \in {"recheck", "commit"}
      PROVE  Anchors
  BY <1>1, <1>2 DEF Anchors, AnchorsAt, AnchorAt
<1>3. CASE RegistryContains(t)
  <2>1. task[t].pc \in {"precheck", "recheck", "recNull"}
    BY <1>3 DEF RegistryContains
  <2>2. QED
    BY <1>2, <1>3, <2>1, Contains
<1>4. CASE PrecheckPasses(t) \/ RecheckPasses(t)
  <2>1. \/ At(t, "precheck") /\ Proceed(t, "admit", {})
        \/ At(t, "recheck") /\ Proceed(t, "commit", task[t].guard)
    BY <1>4 DEF PrecheckPasses, RecheckPasses
  <2>2. QED
    BY <1>2, <2>1, Proceeds DEF At
<1>5. CASE AdmitSpend(t)
  <2>1. At(t, "admit") /\ (Finish(t) \/ Proceed(t, "verify", Inputs[task[t].id]))
    BY <1>5 DEF AdmitSpend
  <2>2. QED
    BY <1>2, <2>1, Proceeds, FinishAnchors DEF At
<1>6. CASE VerifierAccepts(t)
  <2>1. /\ task[t].pc = "verify" /\ Provable(task[t].id, task[t].anchor)
        /\ Await(t, QueryCall("recheck", task[t].id, Inputs[task[t].id], task[t].guard, 0, task[t].epoch))
    BY <1>6 DEF VerifierAccepts, At
  <2>2. /\ \A u \in Tasks : u # t => task'[u] = task[u]
        /\ task'[t].pc = "recheck" /\ task'[t].id = task[t].id
    BY <2>1, QueryAwaits
  <2>3. task[t].anchor <= head /\ task[t].anchor \in Nat /\ head \in Nat
    BY <1>1, <2>1, TaskInfo, LeaseFacts DEF AnchorAt
  <2>4. Provable(task[t].id, head)
    <3>1. \A i \in 1..Len(leaves) : i <= task[t].anchor => i <= head
      BY <2>3
    <3>2. QED
      BY <2>1, <3>1 DEF Provable
  <2>5. QED
    BY <2>2, <2>4 DEF Anchors, AnchorsAt
<1>7. CASE CommitSpend(t)
  <2>1. Finish(t) \/ Await(t, Call("insert", task[t].id, 0, task[t].guard))
    BY <1>7 DEF CommitSpend
  <2>2. QED
    BY <2>1, FinishAnchors, AwaitAnchors DEF AnchorPCs
<1>8. QED
  BY <1>3, <1>4, <1>5, <1>6, <1>7

LEMMA CallStepAnchors ==
  ASSUME TypeOK, AnchorInv, NEW t \in Tasks, CallStep(t)
  PROVE  Anchors
<1>1. CASE LedgerTransferFrom(t) \/ TreeCount(t) \/ TreeLeaf(t) \/ TreeAppend(t) \/ RegistryInsert(t)
  <2>1. /\ task[t].pc \notin AnchorPCs
        /\ \E rep : Answer(t, rep) \/ (rep = "ok" /\ \E n : AnswerCount(t, n))
    <3>1. CASE LedgerTransferFrom(t)
      BY <3>1 DEF LedgerTransferFrom, At, AnchorPCs
    <3>2. CASE TreeCount(t)
      BY <3>2 DEF TreeCount, AnchorPCs
    <3>3. CASE TreeLeaf(t)
      BY <3>3 DEF TreeLeaf, AnchorPCs
    <3>4. CASE TreeAppend(t)
      BY <3>4 DEF TreeAppend, At, AnchorPCs
    <3>5. CASE RegistryInsert(t)
      BY <3>5 DEF RegistryInsert, At, AnchorPCs
    <3>6. QED
      BY <1>1, <3>1, <3>2, <3>3, <3>4, <3>5
  <2>2. QED
    BY <2>1, AnswerAnchors
<1>2. CASE \/ TransferConfirmed(t) \/ NullifierInserted(t) \/ ReconciledCommitted(t)
  BY <1>2, AcquireAnchors DEF TransferConfirmed, NullifierInserted, ReconciledCommitted
<1>3. CASE \/ TransferRefused(t) \/ AppendRejected(t) \/ DepositRootAccepted(t) \/ SpendRootAccepted(t)
           \/ ScanHeadStale(t) \/ DepositNotAppended(t) \/ SpendNotAppended(t) \/ PrecheckRefuses(t)
           \/ VerifierRejects(t) \/ RecheckFails(t) \/ EpochChanged(t) \/ ReconciledNotCommitted(t)
  <2>1. Finish(t)
    BY <1>3 DEF TransferRefused, AppendRejected, RevertRejectedAppend, DepositRootAccepted,
       SpendRootAccepted, ScanHeadStale, DepositNotAppended, SpendNotAppended, PrecheckRefuses,
       VerifierRejects, RecheckFails, EpochChanged, ReconciledNotCommitted, DiscardUncommitted
  <2>2. QED
    BY <2>1, FinishAnchors
<1>4. CASE \/ ClaimAppend(t) \/ DepositAppended(t) \/ SpendAppended(t) \/ DepositAskLeaf(t)
           \/ DepositFoundAppended(t) \/ SpendAskCount(t) \/ SpendAskRest(t) \/ SpendFoundAppended(t)
  <2>1. Finish(t) \/ \E pc, r, g, guard : pc \notin AnchorPCs /\ Await(t, Call(pc, r, g, guard))
    <3>1. CASE ClaimAppend(t)
      BY <3>1 DEF ClaimAppend, AnchorPCs
    <3>2. CASE DepositAppended(t) \/ DepositFoundAppended(t)
      BY <3>2 DEF DepositAppended, DepositFoundAppended, CreditDeposit, AnchorPCs
    <3>3. CASE SpendAppended(t) \/ SpendFoundAppended(t)
      BY <3>3 DEF SpendAppended, SpendFoundAppended, AnchorPCs
    <3>4. CASE DepositAskLeaf(t) \/ SpendAskRest(t)
      BY <3>4 DEF DepositAskLeaf, SpendAskRest, AnchorPCs
    <3>5. CASE SpendAskCount(t)
      <4>1. (IF task[t].reply = "hit" THEN "spCountHit" ELSE "spCountMiss") \notin AnchorPCs
        BY DEF AnchorPCs
      <4>2. QED
        BY <3>5, <4>1 DEF SpendAskCount
    <3>6. QED
      BY <1>4, <3>1, <3>2, <3>3, <3>4, <3>5
  <2>2. QED
    BY <2>1, FinishAnchors, AwaitAnchors
<1>5. QED
  BY <1>1, <1>2, <1>3, <1>4, AdmissionAnchors DEF CallStep

LEMMA RecoverAnchors ==
  ASSUME TypeOK, NEW t \in Tasks, NEW r \in Records, Recover(t, r)
  PROVE  Anchors
<1>1. CASE RetryDepositCommitment(t, r) \/ ReconcilePendingSpend(t, r)
  BY <1>1, AcquireAnchors DEF RetryDepositCommitment, ReconcilePendingSpend
<1>2. CASE SettleDepositTransfer(t, r)
  <2>1. AcquireAndSnapshot(t, r) \/ UNCHANGED task
    BY <1>2 DEF SettleDepositTransfer
  <2>2. QED
    BY <2>1, AcquireAnchors DEF Anchors, AnchorsAt
<1>3. CASE ReconcileRootPending(t, r)
  BY <1>3, AwaitAnchors DEF ReconcileRootPending, AnchorPCs
<1>4. CASE ReconcileAppendUnknown(t, r)
  <2>1. (IF r \in Deposits THEN "recCount" ELSE "spLeaf") \notin AnchorPCs
    BY DEF AnchorPCs
  <2>2. QED
    BY <1>4, <2>1, AwaitAnchors DEF ReconcileAppendUnknown
<1>5. CASE ReconcileNullifierInsert(t, r)
  <2>1. /\ \A u \in Tasks : u # t => task'[u] = task[u]
        /\ task'[t].pc = "recNull"
    BY <1>5, QueryAwaits DEF ReconcileNullifierInsert
  <2>2. QED
    BY <2>1, ElsewhereAnchors DEF AnchorPCs
<1>6. QED
  BY <1>1, <1>2, <1>3, <1>4, <1>5 DEF Recover

LEMMA NextAnchors ==
  ASSUME TypeOK, LeaseInv, AnchorInv, [Next]_vars
  PROVE  Anchors
<1>1. ASSUME NEW t \in Tasks, NEW d \in Deposits, ShieldDeposit(t, d) PROVE Anchors
  BY <1>1, AwaitAnchors DEF ShieldDeposit, AnchorPCs
<1>2. ASSUME NEW t \in Tasks, NEW s \in Spends, PrivateSpend(t, s) PROVE Anchors
  <2>1. PICK a \in accepted : Await(t, QueryCall("precheck", s, Inputs[s], {}, a, epoch))
    BY <1>2 DEF PrivateSpend
  <2>2. a <= head
    BY DEF LeaseInv, HeadInv
  <2>3. /\ \A u \in Tasks : u # t => task'[u] = task[u]
        /\ task'[t].pc = "precheck" /\ task'[t].anchor = a
    BY <2>1, QueryAwaits
  <2>4. QED
    BY <2>2, <2>3 DEF Anchors, AnchorsAt
<1>3. ASSUME NEW t \in Tasks, CallFailure(t) PROVE Anchors
  <2>1. Finish(t)
    BY <1>3 DEF CallFailure, TransferUnknown, SnapshotFails, SpendAppendDefinitelyNot,
       RevertRejectedAppend, AppendOutcomeUnknown, ScanHeadFails, ReconcileAppendFails,
       VerifierUnavailable, NullifierQueryFails, PayoutPreconditionFails, InsertRejected,
       DiscardUncommitted, InsertOutcomeUnknown, ReconcileNullifierFails
  <2>2. QED
    BY <2>1, FinishAnchors
<1>4. CASE Upgrade
  <2>1. \A u \in Tasks : task'[u].pc = "idle"
    BY <1>4 DEF Upgrade, IdleTask, Call
  <2>2. QED
    BY <2>1 DEF Anchors, AnchorsAt
<1>5. ASSUME UNCHANGED task PROVE Anchors
  BY <1>5 DEF Anchors, AnchorsAt
<1>6. ASSUME NEW o \in orphans, DeliverOrphan(o) \/ RejectOrphan(o) PROVE Anchors
  BY <1>5, <1>6 DEF DeliverOrphan, RejectOrphan
<1>7. CASE ActivatePendingVk \/ UNCHANGED vars
  BY <1>5, <1>7 DEF ActivatePendingVk, vars
<1>8. QED
  BY <1>1, <1>2, <1>3, <1>4, <1>6, <1>7, CallStepAnchors, RecoverAnchors DEF Next

-----------------------------------------------------------------------------
(* The tree grows behind its accepted head. *)

LEMMA OwnerItems ==
  ASSUME TypeOK, LeaseInv
  PROVE  /\ head \in Nat /\ Len(leaves) \in Nat /\ head <= Len(leaves)
         /\ lease.phase \in Unsettled => lease.owner \in Records
<1>1. lease.phase \in Unsettled => lease.owner \in Records
  BY LeaseFacts DEF Unsettled
<1>2. CASE NothingNew
  BY <1>1, <1>2, LeaseFacts DEF NothingNew
<1>3. CASE lease.phase \in Unsettled /\ Appended(lease.owner)
  BY <1>1, <1>3, AppendedClears, LeaseFacts
<1>4. QED
  BY <1>1, <1>2, <1>3 DEF LeaseInv, TreeInv

LEMMA LeavesStay ==
  ASSUME TypeOK, LeaseInv, OutsideGrows
  PROVE  \A i \in 1..Len(leaves) : leaves'[i] = leaves[i] /\ i \in 1..Len(leaves')
<1>1. leaves \in Seq(Notes) /\ Len(leaves) \in Nat
  BY DEF TypeOK
<1>2. CASE leaves' = leaves
  BY <1>2
<1>3. CASE lease.owner \in Records /\ leaves' = leaves \o Items(lease.owner)
  <2>1. Items(lease.owner) \in Seq(Notes) /\ Len(Items(lease.owner)) \in Nat
    BY <1>3, ItemsFacts
  <2>2. Len(leaves') = Len(leaves) + Len(Items(lease.owner)) /\ \A i \in 1..Len(leaves) : leaves'[i] = leaves[i]
    BY <1>1, <1>3, <2>1, Concatenated
  <2>3. QED
    BY <1>1, <2>1, <2>2
<1>4. QED
  BY <1>2, <1>3 DEF OutsideGrows, LeavesGrow

LEMMA HeadGrows ==
  ASSUME TypeOK, LeaseInv, BookStep
  PROVE  head <= head' /\ accepted \subseteq accepted'
<1>1. CASE Quiet \/ \E d \in Deposits : Credits(d)
  <2>1. head' = head /\ accepted' = accepted
    BY <1>1 DEF Quiet, Credits
  <2>2. QED
    BY <2>1, OwnerItems
<1>2. ASSUME NEW r \in Records, Publishes(r) PROVE head <= head' /\ accepted \subseteq accepted'
  <2>1. head' = Len(leaves) /\ accepted' = accepted \cup {Len(leaves)}
    BY <1>2 DEF Publishes
  <2>2. QED
    BY <2>1, OwnerItems
<1>3. QED
  BY <1>1, <1>2 DEF BookStep

LEMMA ProvableGrows ==
  ASSUME TypeOK, LeaseInv, TypeOK', OutsideGrows, BookStep, NEW s, Provable(s, head)
  PROVE  Provable(s, head)'
<1>1. head \in Nat /\ head' \in Nat /\ head <= head'
  BY HeadGrows DEF TypeOK
<1>2. ASSUME NEW n \in Inputs[s] PROVE \E i \in 1..Len(leaves') : i <= head' /\ leaves'[i] = n
  <2>1. PICK i \in 1..Len(leaves) : i <= head /\ leaves[i] = n
    BY <1>2 DEF Provable
  <2>2. i \in 1..Len(leaves') /\ leaves'[i] = n /\ i <= head'
    BY <1>1, <2>1, LeavesStay
  <2>3. QED
    BY <2>2
<1>3. QED
  BY <1>2 DEF Provable

LEMMA AnchorNext ==
  ASSUME TypeOK, TypeOK', LeaseInv, OutsideGrows, BookStep, AnchorInv, Anchors
  PROVE  AnchorInv'
<1>1. head \in Nat /\ head' \in Nat /\ head <= head'
  BY HeadGrows DEF TypeOK
<1>2. ASSUME NEW u \in Tasks PROVE AnchorAt(u)'
  <2>1. /\ task'[u].pc \in {"precheck", "admit", "verify"} => task'[u].anchor <= head
        /\ task'[u].pc \in {"recheck", "commit"} => Provable(task'[u].id, head)
    BY DEF Anchors, AnchorsAt, AnchorInv, AnchorAt
  <2>2. task'[u].pc \in {"recheck", "commit"} => Provable(task[u].id, head)'
    BY <2>1, ProvableGrows
  <2>3. task'[u].anchor \in Nat
    BY DEF TypeOK, TaskType
  <2>4. QED
    BY <1>1, <2>1, <2>2, <2>3 DEF AnchorAt
<1>3. ASSUME NEW s \in Spends, status'[s] \in Anchored PROVE Provable(s, head)'
  <2>1. status[s] \in Anchored \/ Provable(s, head)
    <3>1. s \in Records /\ s \notin Deposits
      BY SpendFacts
    <3>2. CASE Quiet
      BY <1>3, <3>1, <3>2 DEF Quiet, MayMove
    <3>3. ASSUME NEW d \in Deposits, Credits(d) PROVE status[s] \in Anchored
      BY <1>3, <3>1, <3>3 DEF Credits
    <3>4. ASSUME NEW r \in Records, Publishes(r) PROVE status[s] \in Anchored
      BY <1>3, <3>1, <3>4 DEF Publishes, AppendConfirmed, Anchored, Committed
    <3>5. QED
      BY <3>2, <3>3, <3>4 DEF BookStep
  <2>2. Provable(s, head)
    BY <2>1 DEF AnchorInv
  <2>3. QED
    BY <2>2, ProvableGrows
<1>4. QED
  BY <1>2, <1>3 DEF AnchorInv

LEMMA PaidNext ==
  ASSUME TypeOK, LeaseInv, OutsideGrows, BookStep, PaidInv
  PROVE  PaidInv'
<1>1. ASSUME NEW d \in Deposits, status'[d] \notin Unpulled PROVE d \in pulled
  <2>1. d \in Records
    BY DEF Records
  <2>2. CASE Quiet
    BY <1>1, <2>1, <2>2 DEF Quiet, MayMove, PaidInv
  <2>3. ASSUME NEW c \in Deposits, Credits(c) PROVE d \in pulled
    BY <1>1, <2>1, <2>3 DEF Credits, PaidInv, Unpulled
  <2>4. ASSUME NEW r \in Records, Publishes(r) PROVE d \in pulled
    BY <1>1, <2>1, <2>4 DEF Publishes, PaidInv, Unpulled, AppendConfirmed
  <2>5. QED
    BY <2>2, <2>3, <2>4 DEF BookStep
<1>2. QED
  BY <1>1 DEF PaidInv, OutsideGrows

(* A record that is closed stays closed. *)
LEMMA ClosedStays ==
  ASSUME TypeOK, BookStep, NEW r \in Records, ClosedRecord(r)
  PROVE  ClosedRecord(r)'
<1>1. CASE Quiet
  BY <1>1 DEF Quiet, MayMove, ClosedRecord, Booked, Credited
<1>2. ASSUME NEW d \in Deposits, Credits(d) PROVE ClosedRecord(r)'
  BY <1>2 DEF Credits, ClosedRecord
<1>3. ASSUME NEW x \in Records, Publishes(x) PROVE ClosedRecord(r)'
  BY <1>3 DEF Publishes, ClosedRecord
<1>4. QED
  BY <1>1, <1>2, <1>3 DEF BookStep

LEMMA HeadClosedNext ==
  ASSUME TypeOK, LeaseInv, OutsideGrows, BookStep, HeadClosed
  PROVE  HeadClosed'
<1>1. ASSUME NEW i \in 1..head
      PROVE  \E r \in Records : ClosedRecord(r)' /\ leaves'[i] \in ItemsOf(r)
  <2>1. PICK r \in Records : ClosedRecord(r) /\ leaves[i] \in ItemsOf(r)
    BY DEF HeadClosed
  <2>2. i \in 1..Len(leaves)
    BY OwnerItems
  <2>3. QED
    BY <2>1, <2>2, LeavesStay, ClosedStays
<1>2. CASE head' = head
  BY <1>1, <1>2 DEF HeadClosed, ItemsOf, Items
<1>3. ASSUME NEW r \in Records, Publishes(r) PROVE HeadClosed'
  <2>1. head \in Nat /\ Len(Items(r)) \in Nat /\ head' = head + Len(Items(r)) /\ leaves' = leaves
    BY <1>3, OwnerItems, ItemsFacts DEF Publishes, Appended
  <2>2. ClosedRecord(r)'
    BY <1>3 DEF Publishes, ClosedRecord
  <2>3. ASSUME NEW i \in 1..head' PROVE \E x \in Records : ClosedRecord(x)' /\ leaves'[i] \in ItemsOf(x)
    <3>1. CASE i \in 1..head
      BY <1>1, <3>1
    <3>2. CASE i \notin 1..head
      <4>1. i - head \in 1..Len(Items(r)) /\ i = head + (i - head)
        BY <2>1, <3>2
      <4>2. leaves[i] = Items(r)[i - head]
        BY <1>3, <4>1 DEF Publishes, Appended
      <4>3. leaves'[i] \in ItemsOf(r)
        BY <2>1, <4>1, <4>2 DEF ItemsOf
      <4>4. QED
        BY <2>2, <4>3
    <3>3. QED
      BY <3>1, <3>2
  <2>4. QED
    BY <2>3 DEF HeadClosed, ItemsOf, Items
<1>4. QED
  BY <1>2, <1>3 DEF BookStep, Quiet, Credits

(* The leaves of a record that is being appended are paid for. *)
LEMMA PaidForNext ==
  ASSUME TypeOK, NullifierInv, LeaseInv, OutsideGrows, PaidInv, EveryLeafPaidFor
  PROVE  EveryLeafPaidFor'
<1>. DEFINE Paid(n) == n \in pulled' \/ \E s \in Spends : n \in OutputsOf(s) /\ \A m \in Inputs[s] : spentBy'[m] = s
<1>0. /\ \A m \in Notes : spentBy[m] # NoRecord => spentBy'[m] = spentBy[m]
      /\ \A s \in Spends : Inputs[s] \subseteq Notes /\ s # NoRecord
      /\ pulled \subseteq pulled'
  BY SpendFacts DEF OutsideGrows
<1>1. ASSUME NEW i \in 1..Len(leaves) PROVE Paid(leaves'[i])
  <2>1. leaves'[i] = leaves[i]
    BY LeavesStay
  <2>2. CASE leaves[i] \in pulled
    BY <1>0, <2>1, <2>2
  <2>3. ASSUME NEW s \in Spends, leaves[i] \in OutputsOf(s), \A n \in Inputs[s] : spentBy[n] = s
        PROVE  Paid(leaves'[i])
    <3>1. \A n \in Inputs[s] : spentBy'[n] = s
      BY <1>0, <2>3
    <3>2. QED
      BY <2>1, <2>3, <3>1
  <2>4. QED
    BY <2>2, <2>3 DEF EveryLeafPaidFor
<1>2. CASE leaves' = leaves
  <2>1. Len(leaves') = Len(leaves)
    BY <1>2
  <2>2. QED
    BY <1>1, <2>1 DEF EveryLeafPaidFor, OutputsOf
<1>3. ASSUME lease.owner \in Records, lease.phase \in Unsettled,
             status[lease.owner] \in PhaseStatuses(lease.owner, lease.phase),
             leaves' = leaves \o Items(lease.owner)
      PROVE  EveryLeafPaidFor'
  <2>. DEFINE r == lease.owner
  <2>1. /\ leaves \in Seq(Notes) /\ Items(r) \in Seq(Notes) /\ Len(Items(r)) \in Nat /\ Len(leaves) \in Nat
    BY <1>3, ItemsFacts DEF TypeOK
  <2>2. ASSUME NEW j \in 1..Len(Items(r)) PROVE Paid(Items(r)[j])
    <3>1. CASE r \in Deposits
      <4>1. status[r] \notin Unpulled
        BY <1>3, <3>1 DEF PhaseStatuses, Unsettled, Unpulled, AppendInFlight, AppendUnknown, ReconcileStatus,
           AppendConfirmed
      <4>2. Items(r)[j] = r
        BY <2>2, <3>1 DEF Items
      <4>3. QED
        BY <1>0, <3>1, <4>1, <4>2 DEF PaidInv
    <3>2. CASE r \notin Deposits
      <4>1. r \in Spends
        BY <1>3, <3>2 DEF Records
      <4>2. status[r] \in Committed
        BY <1>3, <3>2 DEF PhaseStatuses, Unsettled, Committed, AppendInFlight, AppendUnknown, ReconcileStatus,
           AppendConfirmed
      <4>3. \A n \in Inputs[r] : spentBy[n] = r
        BY <4>1, <4>2 DEF NullifierInv, NoDoubleSpend
      <4>4. \A n \in Inputs[r] : spentBy'[n] = r
        BY <1>0, <4>1, <4>3
      <4>5. Items(r)[j] \in OutputsOf(r)
        BY <2>1, <3>2 DEF Items, OutputsOf
      <4>6. QED
        BY <4>1, <4>4, <4>5
    <3>3. QED
      BY <3>1, <3>2
  <2>. HIDE DEF r
  <2>3. /\ Len(leaves') = Len(leaves) + Len(Items(r))
        /\ \A j \in 1..Len(Items(r)) : leaves'[Len(leaves) + j] = Items(r)[j]
    BY <1>3, <2>1, Concatenated DEF r
  <2>4. ASSUME NEW i \in 1..Len(leaves') PROVE Paid(leaves'[i])
    <3>1. CASE i \in 1..Len(leaves)
      BY <1>1, <3>1
    <3>2. CASE i \notin 1..Len(leaves)
      <4>1. i - Len(leaves) \in 1..Len(Items(r)) /\ i = Len(leaves) + (i - Len(leaves))
        BY <2>1, <2>3, <3>2
      <4>2. leaves'[i] = Items(r)[i - Len(leaves)]
        BY <2>3, <4>1
      <4>3. QED
        BY <2>2, <4>1, <4>2
    <3>3. QED
      BY <3>1, <3>2
  <2>5. QED
    BY <2>4 DEF EveryLeafPaidFor, OutputsOf
<1>4. QED
  BY <1>2, <1>3 DEF OutsideGrows, LeavesGrow

-----------------------------------------------------------------------------
(* The accounting words. *)

DebitOf == [s \in Spends |-> Debit(s)]

LEMMA Valuations ==
  /\ IsFiniteSet(Deposits) /\ IsFiniteSet(Spends) /\ IsFiniteSet(Notes)
  /\ Deposits \subseteq Notes /\ \A s \in Spends : OutputsOf(s) \subseteq Notes
  /\ \A n \in Notes : Amount[n] \in Nat
  /\ \A s \in Spends : DebitOf[s] = Debit(s) /\ Debit(s) \in Nat /\ Fee[s] \in Nat
  BY FinitenessAssumption, DataAssumption, DataTypes DEF Notes, DebitOf

LEMMA AccountingIs ==
  ASSUME TypeOK
  PROVE  AccountingMatchesRecords <=>
            /\ acct.escrow = acct.liability
            /\ acct.liability + SumOver(DebitOf, PromotedSpends) = SumOver(Amount, CreditedDeposits)
            /\ acct.reserves = SumOver(Fee, PromotedSpends)
  BY DEF AccountingMatchesRecords, Total, SumOver, DebitOf

(* The books of the records: who is credited, who is promoted. *)
LEMMA QuietSets ==
  ASSUME Quiet
  PROVE  CreditedDeposits' = CreditedDeposits /\ PromotedSpends' = PromotedSpends
<1>1. \A r \in Records : status'[r] \in Booked \/ status[r] \in Booked => status'[r] = status[r]
  BY DEF Quiet, MayMove
<1>2. QED
  BY <1>1 DEF CreditedDeposits, PromotedSpends, Records, Booked

LEMMA CreditSets ==
  ASSUME NEW d \in Deposits, Credits(d)
  PROVE  /\ CreditedDeposits' = CreditedDeposits \cup {d} /\ d \notin CreditedDeposits
         /\ PromotedSpends' = PromotedSpends
<1>1. \A r \in Records : r # d => status'[r] = status[r]
  BY DEF Credits
<1>2. status[d] \notin Credited /\ status'[d] \in Credited
  BY DEF Credits, Credited
<1>3. CreditedDeposits' = CreditedDeposits \cup {d} /\ d \notin CreditedDeposits
  BY <1>1, <1>2 DEF CreditedDeposits, Records
<1>4. PromotedSpends' = PromotedSpends
  BY <1>1, SpendFacts DEF PromotedSpends
<1>5. QED
  BY <1>3, <1>4

LEMMA PublishDepositSets ==
  ASSUME NEW d \in Deposits, Publishes(d)
  PROVE  CreditedDeposits' = CreditedDeposits /\ PromotedSpends' = PromotedSpends
<1>1. \A r \in Records : r # d => status'[r] = status[r]
  BY DEF Publishes
<1>2. status[d] \in Credited /\ status'[d] \in Credited
  BY DEF Publishes, Credited, AppendConfirmed
<1>3. CreditedDeposits' = CreditedDeposits
  BY <1>1, <1>2 DEF CreditedDeposits, Records
<1>4. PromotedSpends' = PromotedSpends
  BY <1>1, SpendFacts DEF PromotedSpends
<1>5. QED
  BY <1>3, <1>4

LEMMA PromotionSets ==
  ASSUME NEW s \in Spends, Publishes(s)
  PROVE  /\ CreditedDeposits' = CreditedDeposits
         /\ PromotedSpends' = PromotedSpends \cup {s} /\ s \notin PromotedSpends
         /\ acct' = [liability |-> Debited(acct.liability, Debit(s)),
                     escrow |-> Debited(acct.escrow, Debit(s)),
                     reserves |-> acct.reserves + Fee[s]]
<1>0. s \notin Deposits /\ s \in Records
  BY SpendFacts
<1>1. \A r \in Records : r # s => status'[r] = status[r]
  BY DEF Publishes
<1>2. status[s] \notin Promoted /\ status'[s] \in Promoted
  BY <1>0 DEF Publishes, Promoted, AppendConfirmed
<1>3. CreditedDeposits' = CreditedDeposits
  BY <1>0, <1>1 DEF CreditedDeposits, Records
<1>4. PromotedSpends' = PromotedSpends \cup {s} /\ s \notin PromotedSpends
  BY <1>1, <1>2, SpendFacts DEF PromotedSpends
<1>5. QED
  BY <1>0, <1>3, <1>4 DEF Publishes

(* A leaf of the accepted tree has been let into the books. *)
LEMMA HeadIsIn ==
  ASSUME TypeOK, HeadClosed, NEW i \in 1..head
  PROVE  leaves[i] \in NotesIn
<1>1. PICK r \in Records : ClosedRecord(r) /\ leaves[i] \in ItemsOf(r)
  BY DEF HeadClosed
<1>2. PICK j \in 1..Len(Items(r)) : leaves[i] = Items(r)[j]
  BY <1>1 DEF ItemsOf
<1>3. CASE r \in Deposits
  BY <1>1, <1>2, <1>3 DEF Items, ClosedRecord, NotesIn, CreditedDeposits, Credited
<1>4. CASE r \notin Deposits
  <2>1. r \in Spends /\ r \in PromotedSpends
    BY <1>1, <1>4 DEF ClosedRecord, PromotedSpends, Records
  <2>2. Items(r) \in Seq(Notes) /\ Items(r) = Outputs[r]
    BY <1>4, ItemsFacts DEF Items
  <2>3. leaves[i] \in OutputsOf(r)
    BY <1>2, <2>2 DEF OutputsOf
  <2>4. QED
    BY <2>1, <2>3 DEF NotesIn
<1>5. QED
  BY <1>3, <1>4

(* What a spend that is promoted takes out: notes that are in, and that no *)
(* other spend has taken.                                                  *)
LEMMA InputsAreCovered ==
  ASSUME TypeOK, NullifierInv, AnchorInv, HeadClosed, NEW s \in Spends, status[s] \in Committed,
         s \notin PromotedSpends
  PROVE  Inputs[s] \subseteq NotesIn \ NotesOut
<1>1. Provable(s, head)
  BY DEF AnchorInv, Anchored
<1>2. ASSUME NEW n \in Inputs[s] PROVE n \in NotesIn
  <2>1. PICK i \in 1..Len(leaves) : i <= head /\ leaves[i] = n
    BY <1>1, <1>2 DEF Provable
  <2>2. i \in 1..head
    BY <2>1 DEF TypeOK
  <2>3. QED
    BY <2>1, <2>2, HeadIsIn
<1>3. ASSUME NEW n \in Inputs[s], n \in NotesOut PROVE FALSE
  <2>1. PICK x \in PromotedSpends : n \in Inputs[x]
    BY <1>3 DEF NotesOut
  <2>2. spentBy[n] = s
    BY <1>3 DEF NullifierInv, NoDoubleSpend
  <2>3. spentBy[n] = x
    BY <2>1 DEF NullifierInv, NoDoubleSpend, PromotedSpends, Promoted, Committed
  <2>4. QED
    BY <2>1, <2>2, <2>3
<1>4. QED
  BY <1>2, <1>3

LEMMA NotesInOut ==
  /\ NotesIn \subseteq Notes /\ IsFiniteSet(NotesIn \ NotesOut) /\ NotesIn \ NotesOut \subseteq Notes
<1>1. NotesIn \subseteq Notes
  BY Valuations DEF NotesIn, CreditedDeposits, PromotedSpends
<1>2. NotesIn \ NotesOut \subseteq Notes
  BY <1>1
<1>3. QED
  BY <1>1, <1>2, Valuations, FS_Subset

(* The promotion of a spend replaces its inputs by its outputs, and the    *)
(* liability falls by the difference.                                      *)
LEMMA PromotionCovered ==
  ASSUME TypeOK, NullifierInv, AnchorInv, HeadClosed, CoverInv, NEW s \in Spends, Publishes(s)
  PROVE  /\ SumOver(Amount, (NotesIn \ NotesOut)') <= acct.liability - Debit(s)
         /\ Debit(s) <= acct.liability
<1>. DEFINE N == NotesIn \ NotesOut
            I == Inputs[s]
            O == OutputsOf(s)
            M == (NotesIn \ NotesOut)'
<1>1. /\ CreditedDeposits' = CreditedDeposits
      /\ PromotedSpends' = PromotedSpends \cup {s} /\ s \notin PromotedSpends
  BY PromotionSets
<1>2. I \subseteq N
  <2>1. status[s] \in Committed
    BY SpendFacts DEF Publishes, AppendConfirmed, Committed
  <2>2. QED
    BY <1>1, <2>1, InputsAreCovered
<1>3. M \subseteq (N \ I) \cup O
  BY <1>1 DEF NotesIn, NotesOut, OutputsOf
<1>4. /\ N \subseteq Notes /\ O \subseteq Notes /\ IsFiniteSet(Notes) /\ \A n \in Notes : Amount[n] \in Nat
      /\ Debit(s) \in Nat
  BY NotesInOut, Valuations
<1>5. SumOver(Amount, N) <= acct.liability /\ acct.liability \in Nat
  BY DEF CoverInv, TypeOK
<1>6. SumOver(Amount, I) = SumOver(Amount, O) + Debit(s)
  BY SumBalance DEF Total, SumOver
<1>. HIDE DEF N, I, O, M
<1>7. /\ IsFiniteSet(N) /\ IsFiniteSet(I) /\ IsFiniteSet(N \ I) /\ IsFiniteSet(O)
      /\ IsFiniteSet((N \ I) \cup O) /\ M \in SUBSET ((N \ I) \cup O)
      /\ I \subseteq Notes /\ N \ I \subseteq Notes /\ (N \ I) \cup O \subseteq Notes
      /\ I \cap (N \ I) = {} /\ I \cup (N \ I) = N
  <2>1. /\ I \subseteq Notes /\ N \ I \subseteq Notes /\ (N \ I) \cup O \subseteq Notes
        /\ M \in SUBSET ((N \ I) \cup O) /\ I \cap (N \ I) = {} /\ I \cup (N \ I) = N
    BY <1>2, <1>3, <1>4
  <2>2. QED
    BY <1>4, <2>1, FS_Subset
<1>8. SumOver(Amount, M) <= SumOver(Amount, (N \ I) \cup O)
  BY <1>4, <1>7, SumOverGrows
<1>9. SumOver(Amount, (N \ I) \cup O) <= SumOver(Amount, N \ I) + SumOver(Amount, O)
  BY <1>4, <1>7, SumOverJoined
<1>10. SumOver(Amount, N) = SumOver(Amount, I) + SumOver(Amount, N \ I)
  <2>1. \A x \in I \cup (N \ I) : Amount[x] \in Int
    BY <1>4, <1>7
  <2>2. SumOver(Amount, I \cup (N \ I)) = SumOver(Amount, I) + SumOver(Amount, N \ I)
    BY <1>7, <2>1, SumOverDisjoint
  <2>3. QED
    BY <1>7, <2>2
<1>11. /\ SumOver(Amount, N) \in Nat /\ SumOver(Amount, I) \in Nat /\ SumOver(Amount, N \ I) \in Nat
       /\ SumOver(Amount, O) \in Nat /\ SumOver(Amount, (N \ I) \cup O) \in Nat
  BY <1>4, <1>7, SumOverNat
<1>12. SumOver(Amount, M) \in Nat
  BY <1>4, <1>7, SumOverGrows
<1>13. SumOver(Amount, M) <= acct.liability - Debit(s) /\ Debit(s) <= acct.liability
  BY <1>4, <1>5, <1>6, <1>8, <1>9, <1>10, <1>11, <1>12
<1>14. QED
  BY <1>13 DEF M

LEMMA CoverNext ==
  ASSUME TypeOK, NullifierInv, LeaseInv, AnchorInv, HeadClosed, CoverInv, BookStep
  PROVE  CoverInv'
<1>. DEFINE N == NotesIn \ NotesOut
<1>0. /\ acct \in [liability : Nat, escrow : Nat, reserves : Nat] /\ acct.liability \in Nat
      /\ SumOver(Amount, N) <= acct.liability
  BY DEF TypeOK, CoverInv
<1>1. ASSUME CreditedDeposits' = CreditedDeposits, PromotedSpends' = PromotedSpends, acct' = acct
      PROVE  CoverInv'
  <2>1. N' = N
    BY <1>1 DEF NotesIn, NotesOut, OutputsOf
  <2>. HIDE DEF N
  <2>2. SumOver(Amount, N') <= acct'.liability
    BY <1>0, <1>1, <2>1
  <2>3. QED
    BY <2>2 DEF CoverInv, N
<1>2. ASSUME NEW d \in Deposits, Credits(d) PROVE CoverInv'
  <2>1. CreditedDeposits' = CreditedDeposits \cup {d} /\ PromotedSpends' = PromotedSpends
    BY <1>2, CreditSets
  <2>2. N' \subseteq N \cup {d}
    BY <2>1 DEF NotesIn, NotesOut, OutputsOf
  <2>3. IsFiniteSet(N) /\ N \subseteq Notes /\ d \in Notes /\ \A n \in Notes : Amount[n] \in Nat
    BY NotesInOut, Valuations
  <2>. HIDE DEF N
  <2>4. IsFiniteSet(N \cup {d}) /\ IsFiniteSet({d}) /\ N \cup {d} \subseteq Notes
    BY <2>3, FS_AddElement, FS_Singleton
  <2>5. SumOver(Amount, N') <= SumOver(Amount, N \cup {d}) /\ SumOver(Amount, N') \in Nat
        /\ SumOver(Amount, N \cup {d}) \in Nat
    BY <2>2, <2>3, <2>4, SumOverGrows
  <2>6. SumOver(Amount, N \cup {d}) <= SumOver(Amount, N) + SumOver(Amount, {d})
    BY <2>3, <2>4, SumOverJoined
  <2>7. SumOver(Amount, {d}) = Amount[d] + SumOver(Amount, {})
    <3>1. IsFiniteSet({}) /\ d \notin {} /\ {} \cup {d} = {d} /\ \A x \in {} \cup {d} : Amount[x] \in Int
      BY <2>3, FS_EmptySet
    <3>2. SumOver(Amount, {} \cup {d}) = Amount[d] + SumOver(Amount, {})
      BY <3>1, SumOverAdded
    <3>3. QED
      BY <3>1, <3>2
  <2>8. SumOver(Amount, {}) = 0 /\ SumOver(Amount, N) \in Nat /\ Amount[d] \in Nat
    BY <2>3, SumOverEmpty, SumOverNat
  <2>9. acct'.liability = acct.liability + Amount[d]
    BY <1>0, <1>2 DEF Credits
  <2>10. SumOver(Amount, N') <= acct'.liability
    BY <1>0, <2>5, <2>6, <2>7, <2>8, <2>9
  <2>11. QED
    BY <2>10 DEF CoverInv, N
<1>3. ASSUME NEW s \in Spends, Publishes(s) PROVE CoverInv'
  <2>1. SumOver(Amount, N') <= acct.liability - Debit(s) /\ Debit(s) <= acct.liability
    BY <1>3, PromotionCovered
  <2>2. acct'.liability = acct.liability - Debit(s)
    BY <1>0, <1>3, <2>1, PromotionSets, Valuations DEF Debited
  <2>3. QED
    BY <2>1, <2>2 DEF CoverInv
<1>4. ASSUME NEW d \in Deposits, Publishes(d) PROVE CoverInv'
  BY <1>1, <1>4, PublishDepositSets DEF Publishes
<1>5. CASE Quiet
  BY <1>1, <1>5, QuietSets DEF Quiet
<1>6. QED
  BY <1>2, <1>3, <1>4, <1>5 DEF BookStep, Records

LEMMA AccountingNext ==
  ASSUME TypeOK, TypeOK', NullifierInv, LeaseInv, AnchorInv, HeadClosed, CoverInv,
         AccountingMatchesRecords, BookStep
  PROVE  AccountingMatchesRecords'
<1>. DEFINE C == CreditedDeposits
            P == PromotedSpends
            Matches == /\ acct.escrow = acct.liability
                       /\ acct.liability + SumOver(DebitOf, P) = SumOver(Amount, C)
                       /\ acct.reserves = SumOver(Fee, P)
<1>0. /\ acct \in [liability : Nat, escrow : Nat, reserves : Nat]
      /\ acct.liability \in Nat /\ acct.escrow \in Nat /\ acct.reserves \in Nat
  BY DEF TypeOK
<1>1. Matches
  BY AccountingIs
<1>2. Matches' => AccountingMatchesRecords'
  BY DEF AccountingMatchesRecords, Total, SumOver, DebitOf, Debit
<1>3. /\ IsFiniteSet(C) /\ IsFiniteSet(P) /\ C \subseteq Notes /\ P \subseteq Spends
  <2>1. C \subseteq Deposits /\ P \subseteq Spends
    BY DEF CreditedDeposits, PromotedSpends
  <2>2. QED
    BY <2>1, Valuations, FS_Subset
<1>4. /\ \A n \in Notes : Amount[n] \in Nat
      /\ \A s \in Spends : DebitOf[s] = Debit(s) /\ Debit(s) \in Nat /\ Fee[s] \in Nat
  BY Valuations
<1>5. /\ SumOver(Amount, C) \in Nat /\ SumOver(DebitOf, P) \in Nat /\ SumOver(Fee, P) \in Nat
  <2>1. /\ \A x \in C : Amount[x] \in Nat
        /\ \A x \in P : DebitOf[x] \in Nat /\ Fee[x] \in Nat
    BY <1>3, <1>4
  <2>2. QED
    BY <1>3, <2>1, SumOverNat
<1>6. ASSUME C' = C, P' = P, acct' = acct PROVE Matches'
  <2>. HIDE DEF C, P
  <2>1. QED
    BY <1>1, <1>6
<1>7. ASSUME NEW d \in Deposits, Credits(d) PROVE Matches'
  <2>1. C' = C \cup {d} /\ d \notin C /\ P' = P
    BY <1>7, CreditSets
  <2>2. d \in Notes /\ Amount[d] \in Nat
    BY <1>4 DEF Notes
  <2>. HIDE DEF C, P
  <2>3. SumOver(Amount, C \cup {d}) = Amount[d] + SumOver(Amount, C)
    <3>1. \A x \in C \cup {d} : Amount[x] \in Int
      BY <1>3, <1>4, <2>2
    <3>2. QED
      BY <1>3, <2>1, <3>1, SumOverAdded
  <2>4. /\ acct'.liability = acct.liability + Amount[d] /\ acct'.escrow = acct.escrow + Amount[d]
        /\ acct'.reserves = acct.reserves
    BY <1>0, <1>7 DEF Credits
  <2>5. SumOver(Amount, C') = Amount[d] + SumOver(Amount, C)
    BY <2>1, <2>3
  <2>6. SumOver(DebitOf, P') = SumOver(DebitOf, P) /\ SumOver(Fee, P') = SumOver(Fee, P)
    BY <2>1
  <2>7. QED
    BY <1>0, <1>1, <1>5, <2>2, <2>4, <2>5, <2>6
<1>8. ASSUME NEW s \in Spends, Publishes(s) PROVE Matches'
  <2>1. /\ C' = C /\ P' = P \cup {s} /\ s \notin P
        /\ acct' = [liability |-> Debited(acct.liability, Debit(s)),
                    escrow |-> Debited(acct.escrow, Debit(s)),
                    reserves |-> acct.reserves + Fee[s]]
    BY <1>8, PromotionSets
  <2>2. Debit(s) <= acct.liability
    BY <1>8, PromotionCovered
  <2>3. /\ acct'.liability = acct.liability - Debit(s) /\ acct'.escrow = acct.escrow - Debit(s)
        /\ acct'.reserves = acct.reserves + Fee[s]
    BY <1>0, <1>1, <1>4, <2>1, <2>2 DEF Debited
  <2>. HIDE DEF C, P
  <2>4. /\ SumOver(DebitOf, P \cup {s}) = DebitOf[s] + SumOver(DebitOf, P)
        /\ SumOver(Fee, P \cup {s}) = Fee[s] + SumOver(Fee, P)
    <3>1. \A x \in P \cup {s} : DebitOf[x] \in Int /\ Fee[x] \in Int
      BY <1>3, <1>4
    <3>2. QED
      BY <1>3, <2>1, <3>1, SumOverAdded
  <2>5. /\ SumOver(Amount, C') = SumOver(Amount, C)
        /\ SumOver(DebitOf, P') = Debit(s) + SumOver(DebitOf, P)
        /\ SumOver(Fee, P') = Fee[s] + SumOver(Fee, P)
    BY <1>4, <2>1, <2>4
  <2>6. QED
    BY <1>0, <1>1, <1>4, <1>5, <2>2, <2>3, <2>5
<1>. HIDE DEF Matches, C, P
<1>9. ASSUME NEW d \in Deposits, Publishes(d) PROVE Matches'
  <2>1. C' = C /\ P' = P /\ acct' = acct
    BY <1>9, PublishDepositSets DEF Publishes, C, P
  <2>2. QED
    BY <1>6, <2>1
<1>10. ASSUME Quiet PROVE Matches'
  <2>1. C' = C /\ P' = P /\ acct' = acct
    BY <1>10, QuietSets DEF Quiet, C, P
  <2>2. QED
    BY <1>6, <2>1
<1>11. Matches'
  BY <1>7, <1>8, <1>9, <1>10 DEF BookStep, Records
<1>12. QED
  BY <1>2, <1>11

-----------------------------------------------------------------------------
(* The books as a whole. *)

LEMMA BookInit == Init => BookInv
<1>. SUFFICES ASSUME Init PROVE BookInv
  OBVIOUS
<1>1. /\ \A t \in Tasks : task[t].pc = "idle"
      /\ leaves = <<>> /\ head = 0 /\ \A r \in Records : status[r] = "Absent"
      /\ acct.liability = 0 /\ acct.escrow = 0 /\ acct.reserves = 0
  BY DEF Init, IdleTask, Call
<1>2. AnchorInv
  BY <1>1, SpendFacts DEF AnchorInv, AnchorAt, Anchored, ReservesNullifiers, Committed
<1>3. PaidInv /\ HeadClosed /\ EveryLeafPaidFor
  BY <1>1 DEF PaidInv, Unpulled, Records, HeadClosed, EveryLeafPaidFor
<1>4. CreditedDeposits = {} /\ PromotedSpends = {}
  BY <1>1 DEF CreditedDeposits, PromotedSpends, Records, Credited, Promoted
<1>5. NotesIn \ NotesOut = {}
  BY <1>4 DEF NotesIn
<1>6. CoverInv
  BY <1>1, <1>5, SumOverEmpty DEF CoverInv
<1>7. AccountingMatchesRecords
  <2>1. SumOver(DebitOf, {}) = 0 /\ SumOver(Amount, {}) = 0 /\ SumOver(Fee, {}) = 0
    BY SumOverEmpty
  <2>2. QED
    BY <1>1, <1>4, <2>1 DEF AccountingMatchesRecords, Total, SumOver, DebitOf
<1>8. QED
  BY <1>2, <1>3, <1>6, <1>7 DEF BookInv

LEMMA BookNext ==
  TypeOK /\ TypeOK' /\ NullifierInv /\ LeaseInv /\ BookInv /\ [Next]_vars => BookInv'
<1>. SUFFICES ASSUME TypeOK, TypeOK', NullifierInv, LeaseInv, BookInv, [Next]_vars PROVE BookInv'
  OBVIOUS
<1>1. /\ AnchorInv /\ PaidInv /\ HeadClosed /\ EveryLeafPaidFor /\ CoverInv
      /\ AccountingMatchesRecords
  BY DEF BookInv
<1>2. OutsideGrows /\ BookStep /\ Anchors
  BY <1>1, NextGrows, NextBooks, NextAnchors
<1>3. QED
  BY <1>1, <1>2, AnchorNext, PaidNext, HeadClosedNext, PaidForNext, CoverNext, AccountingNext
     DEF BookInv

(* A record, the leaves that have its commitments, the one account and   *)
(* the head under construction agree after every segment of every call:   *)
(* what a spend has taken from and put into the books is a function of    *)
(* its record's status and of whether its commitments are leaves, so that *)
(* neither a trap, an upgrade nor a resumed reconcile can apply a debit   *)
(* or a deposit's credit a second time.                                   *)
THEOREM BookInvariant == Spec => []BookInv
<1>1. Init => BookInv
  BY BookInit
<1>2. TypeOK /\ TypeOK' /\ NullifierInv /\ LeaseInv /\ BookInv /\ [Next]_vars => BookInv'
  BY BookNext
<1>3. QED
  BY <1>1, <1>2, TypeCorrect, NullifierInvariant, LeaseInvariant, PTL DEF Spec

(* The liability, escrow and reserve words are always what the records say *)
(* they are: each deposit credited once, each promoted spend debited once, *)
(* whichever call, retry or reconciliation booked it, and no subtraction   *)
(* saturated.                                                              *)
THEOREM AccountingTheorem == Spec => []AccountingMatchesRecords
<1>1. BookInv => AccountingMatchesRecords
  BY DEF BookInv
<1>2. QED
  BY <1>1, BookInvariant, PTL

LEMMA BackedNow == TypeOK /\ NullifierInv /\ BookInv => SpendableNotesBacked
<1>. SUFFICES ASSUME TypeOK, NullifierInv, BookInv PROVE SpendableNotesBacked
  OBVIOUS
<1>1. SpendableNotes \in SUBSET (NotesIn \ NotesOut)
  <2>1. ASSUME NEW i \in 1..head, spentBy[leaves[i]] = NoRecord
        PROVE  leaves[i] \in NotesIn \ NotesOut
    <3>1. leaves[i] \in NotesIn
      BY HeadIsIn DEF BookInv
    <3>2. ASSUME leaves[i] \in NotesOut PROVE FALSE
      <4>1. PICK s \in PromotedSpends : leaves[i] \in Inputs[s]
        BY <3>2 DEF NotesOut
      <4>2. spentBy[leaves[i]] = s /\ s \in Spends
        BY <4>1 DEF NullifierInv, NoDoubleSpend, PromotedSpends, Promoted, Committed
      <4>3. QED
        BY <2>1, <4>2, SpendFacts
    <3>3. QED
      BY <3>1, <3>2
  <2>2. QED
    BY <2>1 DEF SpendableNotes
<1>2. /\ IsFiniteSet(NotesIn \ NotesOut)
      /\ \A n \in NotesIn \ NotesOut : Amount[n] \in Nat
  BY NotesInOut, Valuations
<1>3. /\ SumOver(Amount, SpendableNotes) <= SumOver(Amount, NotesIn \ NotesOut)
      /\ SumOver(Amount, SpendableNotes) \in Nat /\ SumOver(Amount, NotesIn \ NotesOut) \in Nat
  BY <1>1, <1>2, SumOverGrows
<1>4. SumOver(Amount, SpendableNotes) <= acct.liability
  BY <1>3 DEF BookInv, CoverInv, TypeOK
<1>5. QED
  BY <1>4 DEF SpendableNotesBacked, Total, SumOver

(* The liability word covers every note that can still be spent against an *)
(* accepted root: a note leaves the cover only when its spend is debited,  *)
(* and a leaf enters it only after its deposit or its spend paid for it.   *)
THEOREM SpendableNotesBackedTheorem == Spec => []SpendableNotesBacked
  BY BackedNow, BookInvariant, TypeCorrect, NullifierInvariant, PTL

(* Finality. *)
LEMMA FinalStep ==
  TypeOK /\ LeaseInv /\ NullifierInv /\ BookInv /\ [Next]_vars =>
    [/\ accepted \subseteq accepted' /\ head <= head'
     /\ \A r \in Records : status[r] \in Terminal => status'[r] = status[r]]_vars
<1>. SUFFICES ASSUME TypeOK, LeaseInv, NullifierInv, BookInv, [Next]_vars
              PROVE  /\ accepted \subseteq accepted' /\ head <= head'
                     /\ \A r \in Records : status[r] \in Terminal => status'[r] = status[r]
  OBVIOUS
<1>1. BookStep
  BY NextBooks DEF BookInv
<1>2. accepted \subseteq accepted' /\ head <= head'
  BY <1>1, HeadGrows
<1>3. ASSUME NEW r \in Records, status[r] \in Terminal PROVE status'[r] = status[r]
  <2>1. CASE Quiet
    BY <1>3, <2>1 DEF Quiet, MayMove
  <2>2. ASSUME NEW d \in Deposits, Credits(d) PROVE status'[r] = status[r]
    BY <1>3, <2>2 DEF Credits, Terminal
  <2>3. ASSUME NEW x \in Records, Publishes(x) PROVE status'[r] = status[r]
    BY <1>3, <2>3 DEF Publishes, AppendConfirmed, Terminal
  <2>4. QED
    BY <1>1, <2>1, <2>2, <2>3 DEF BookStep
<1>4. QED
  BY <1>2, <1>3

(* An accepted root stays accepted, the head never goes back, and no call, *)
(* callback or upgrade takes a record out of a terminal status: a handler  *)
(* that resumes after an await reads the status again before it writes it. *)
THEOREM FinalityIsForeverTheorem == Spec => FinalityIsForever
  BY FinalStep, BookInvariant, LeaseInvariant, TypeCorrect, NullifierInvariant, PTL
     DEF Spec, FinalityIsForever

-----------------------------------------------------------------------------
(* No leaf twice, when no two records name the same commitment: whoever    *)
(* appends is not closed, and what the tree holds before it is the leaves  *)
(* of closed records.                                                      *)

LEMMA UniqueNext ==
  ASSUME FreshCommitments, TypeOK, LeaseInv, OutsideGrows, HeadClosed, NoLeafTwice
  PROVE  NoLeafTwice'
<1>1. CASE leaves' = leaves
  BY <1>1 DEF NoLeafTwice
<1>2. ASSUME NothingNew, lease.owner \in Records, lease.phase \in Unsettled,
             status[lease.owner] \in PhaseStatuses(lease.owner, lease.phase),
             leaves' = leaves \o Items(lease.owner)
      PROVE  NoLeafTwice'
  <2>. DEFINE r == lease.owner
  <2>1. /\ leaves \in Seq(Notes) /\ Items(r) \in Seq(Notes) /\ Len(Items(r)) \in Nat
        /\ Len(leaves) \in Nat /\ Len(leaves) = head
    BY <1>2, ItemsFacts DEF TypeOK, NothingNew
  <2>2. ~ClosedRecord(r)
    BY <1>2 DEF ClosedRecord, PhaseStatuses, Unsettled, Promoted, AppendInFlight, AppendUnknown,
       ReconcileStatus, AppendConfirmed
  <2>. HIDE DEF r
  <2>3. /\ Len(leaves') = Len(leaves) + Len(Items(r))
        /\ \A i \in 1..Len(leaves) : leaves'[i] = leaves[i]
        /\ \A j \in 1..Len(Items(r)) : leaves'[Len(leaves) + j] = Items(r)[j]
    BY <1>2, <2>1, Concatenated DEF r
  <2>4. \A i \in 1..Len(leaves') : i \in 1..head \/ i - head \in 1..Len(Items(r))
    BY <2>1, <2>3
  <2>5. \A i \in 1..head : leaves'[i] = leaves[i]
    BY <2>1, <2>3
  <2>6. ASSUME NEW i \in 1..Len(leaves'), i - head \in 1..Len(Items(r))
        PROVE  leaves'[i] = Items(r)[i - head] /\ leaves'[i] \in ItemsOf(r)
    <3>1. i = Len(leaves) + (i - head)
      BY <2>1
    <3>2. leaves'[i] = Items(r)[i - head]
      BY <2>3, <2>6, <3>1
    <3>3. QED
      BY <2>6, <3>2 DEF ItemsOf
  <2>7. ASSUME NEW i \in 1..head PROVE leaves'[i] \notin ItemsOf(r)
    <3>1. PICK q \in Records : ClosedRecord(q) /\ leaves[i] \in ItemsOf(q)
      BY DEF HeadClosed
    <3>2. q # r /\ r \in Records
      BY <1>2, <2>2, <3>1 DEF r
    <3>3. ItemsOf(q) \cap ItemsOf(r) = {}
      BY <3>2 DEF FreshCommitments
    <3>4. QED
      BY <2>5, <3>1, <3>3
  <2>8. ASSUME NEW i \in 1..Len(leaves'), NEW j \in 1..Len(leaves'), leaves'[i] = leaves'[j]
        PROVE  i = j
    <3>1. CASE i \in 1..head /\ j \in 1..head
      <4>1. leaves[i] = leaves[j] /\ i \in 1..Len(leaves) /\ j \in 1..Len(leaves)
        BY <2>1, <2>5, <2>8, <3>1
      <4>2. QED
        BY <4>1 DEF NoLeafTwice
    <3>2. CASE i - head \in 1..Len(Items(r)) /\ j - head \in 1..Len(Items(r))
      <4>1. Items(r)[i - head] = Items(r)[j - head]
        BY <2>6, <2>8, <3>2
      <4>2. i - head = j - head
        BY <1>2, <3>2, <4>1 DEF FreshCommitments, r
      <4>3. QED
        BY <2>1, <4>2
    <3>3. CASE i \in 1..head /\ j - head \in 1..Len(Items(r))
      BY <2>6, <2>7, <2>8, <3>3
    <3>4. CASE j \in 1..head /\ i - head \in 1..Len(Items(r))
      BY <2>6, <2>7, <2>8, <3>4
    <3>5. QED
      BY <2>4, <3>1, <3>2, <3>3, <3>4
  <2>9. QED
    BY <2>8 DEF NoLeafTwice
<1>3. QED
  BY <1>1, <1>2 DEF OutsideGrows, LeavesGrow

(* Every leaf of the tree is paid for, and no commitment becomes two       *)
(* leaves, provided no two outputs or deposits share a commitment: an      *)
(* append whose reply was lost is recognised by its place in the tree and  *)
(* never sent again over leaves it already made.                           *)
THEOREM LeavesPaidOnceTheorem ==
  ASSUME FreshCommitments
  PROVE  Spec => []LeavesPaidOnce
<1>1. Init => NoLeafTwice
  BY DEF Init, NoLeafTwice
<1>2. TypeOK /\ LeaseInv /\ BookInv /\ NoLeafTwice /\ [Next]_vars => NoLeafTwice'
  <2>1. ASSUME TypeOK, LeaseInv, BookInv, NoLeafTwice, [Next]_vars PROVE NoLeafTwice'
    <3>1. OutsideGrows /\ HeadClosed
      BY <2>1, NextGrows DEF BookInv
    <3>2. QED
      BY <2>1, <3>1, UniqueNext
  <2>2. QED
    BY <2>1
<1>3. BookInv /\ NoLeafTwice => LeavesPaidOnce
  BY DEF BookInv, LeavesPaidOnce
<1>4. QED
  BY <1>1, <1>2, <1>3, BookInvariant, LeaseInvariant, TypeCorrect, PTL DEF Spec
=============================================================================
