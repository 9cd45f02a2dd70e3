----------------------------- MODULE CustodyRing -----------------------------
(***************************************************************************)
(* The custody ring: the Vault and the Upgrader, each the only controller  *)
(* of the other.  The Vault upgrades itself through the Upgrader           *)
(* (trigger_vault_upgrade) and upgrades the Upgrader itself (install_code);*)
(* recovery members upgrade the Vault through the Upgrader without it.  An *)
(* upgrade whose outcome is not known is settled by a reconciliation with  *)
(* evidence: the module that was seen to run.                              *)
(*                                                                         *)
(* Signers' approvals are one step, the one that reaches the quorum.       *)
(* Evidence is observed when the reconciliation is proposed.  A            *)
(* reconciliation is a slot, used again by the next proposal of its kind:  *)
(* its own terminal outcome, which nothing reads, is that the slot is      *)
(* free.  Requests of the Vault reach the Upgrader in order; an upgrade of *)
(* a canister drops its callbacks, and nobody else upgrades the two.       *)
(*                                                                         *)
(* The Upgrader keys an intent by its origin and an id: that of the Vault's*)
(* proposal, or of its own.  The two canisters count independently, so Id, *)
(* the id that an intent gets when it is recorded, is arbitrary but for    *)
(* each of them not using a number twice.                                  *)
(***************************************************************************)
EXTENDS Integers, FiniteSets, Sequences

CONSTANTS
    VaultUpgrades,       \* Vault proposals: upgrade the Vault via the Upgrader
    UpgraderUpgrades,    \* Vault proposals: upgrade the Upgrader
    Triggers,            \* recovery proposals: upgrade the Vault
    VaultReconciles,     \* Vault proposals: reconcile one of VaultUpgrades
    UpgraderReconciles,  \* Vault proposals: reconcile one of UpgraderUpgrades
    RecoveryReconciles,  \* recovery proposals: reconcile an intent
    Id,                  \* the id of an intent, unique within its origin
    Wasm,                \* the module an upgrade installs
    FirstModule,         \* the modules at the start, by canister
    None,                \* the absent value
    MaxFaults            \* bound: lost requests and rejected installs

Canisters == {"vault", "upgrader"}
Intents == VaultUpgrades \cup Triggers
Upgrades == Intents \cup UpgraderUpgrades
Reconciles == VaultReconciles \cup UpgraderReconciles \cup RecoveryReconciles
VaultProposals == VaultUpgrades \cup UpgraderUpgrades \cup VaultReconciles \cup UpgraderReconciles
RecoveryProposals == Triggers \cup RecoveryReconciles
RingCalls == VaultUpgrades \cup VaultReconciles
Modules == {Wasm[k] : k \in Upgrades} \cup {FirstModule[c] : c \in Canisters}

(* What a reconciliation's evidence says: of which upgrade, the module that*)
(* its target was seen to run, and whether that was after it was recorded. *)
Observations == [of : Upgrades, module : Modules, after : BOOLEAN]

VARIABLES
    outcome,     \* Vault: PROPOSALS, their outcomes
    awaiting,    \* Vault: the proposals whose execution holds a callback
    intent,      \* Upgrader: UPGRADE_INTENTS, their outcomes
    recovery,    \* Upgrader: RECOVERY_PROPOSALS, their outcomes
    serving,     \* Upgrader: the calls it is in the middle of
    evidence,    \* what the reconciliation of each slot observed, and of whom
    queue,       \* requests of the Vault on their way to the Upgrader
    reply,       \* answers on their way back, by proposal
    installing,  \* install_code requests under way, by upgrade
    result,      \* their answers on the way to the canister that asked
    module,      \* the module each canister runs
    since,       \* modules that ran since an upgrade was recorded (history)
    faults

vault == <<outcome, awaiting>>
upgrader == <<intent, recovery, serving>>
network == <<queue, reply>>
management == <<installing, result, module, since>>
vars == <<vault, upgrader, evidence, network, management, faults>>

ASSUME RingAssumption ==
    /\ MaxFaults \in Nat /\ Id \in [Intents -> Nat]
    /\ \A j, k \in VaultUpgrades : Id[j] = Id[k] => j = k
    /\ \A j, k \in Triggers : Id[j] = Id[k] => j = k
    /\ FirstModule \in [Canisters -> Modules] /\ None \notin Observations
    /\ LET Kinds == <<VaultUpgrades, UpgraderUpgrades, Triggers, VaultReconciles,
                      UpgraderReconciles, RecoveryReconciles>>
       IN \A i, j \in 1..6 : i # j => Kinds[i] \cap Kinds[j] = {}

Terminal == {"Executed", "Failed", "Withdrawn"}
HoldsSingleFlight == {"Executing", "OutcomeUnknown"}
Nonterminal == {"Pending", "Executing", "OutcomeUnknown"}

Target(k) == IF k \in UpgraderUpgrades THEN "upgrader" ELSE "vault"

Fault == faults < MaxFaults /\ faults' = faults + 1

NotServing == [at |-> "none", answer |-> None]

(* The history of k starts with what runs when its intent is recorded.     *)
Recorded(k) == since' = [since EXCEPT ![k] = @ \cup {module[Target(k)]}]

(* The request of the install_code of k.                                   *)
BeginInstall(k) ==
    /\ installing' = installing \cup {k} /\ Recorded(k)
    /\ UNCHANGED <<result, module>>

-----------------------------------------------------------------------------
(******************************** The Vault ********************************)

Finalize(p, o) == outcome' = [outcome EXCEPT ![p] = o]

(* open_mutating_intent: the executing or undecided upgrades of a canister.*)
OpenMutatingIntents(c) ==
    {p \in VaultUpgrades \cup UpgraderUpgrades :
        Target(p) = c /\ outcome[p] \in HoldsSingleFlight}

ProposeUpgrade(p) ==
    /\ outcome[p] = "none" /\ OpenMutatingIntents(Target(p)) = {}
    /\ Finalize(p, "Pending")
    /\ UNCHANGED <<awaiting, upgrader, evidence, network, management, faults>>

(* What can be seen of an upgrade: the module its target runs, and whether *)
(* that was after the intent was recorded.                                 *)
Observe(r, k) ==
    evidence' = [evidence EXCEPT ![r] =
        [of |-> k, module |-> module[Target(k)],
         after |-> k \in Intents => intent[k] # "none"]]

Ended(r) == evidence' = [evidence EXCEPT ![r] = None]

(* The slot's last proposal is over, or nothing will ever move it.         *)
SlotFree(r) ==
    /\ outcome[r] # "Pending" /\ r \notin awaiting
    /\ r \in VaultReconciles =>
          serving[r] = NotServing /\ \A i \in 1..Len(queue) : queue[i] # r

ProposeReconcileVaultUpgrade(r, v) ==
    /\ SlotFree(r) /\ outcome[v] \in {"OutcomeUnknown", "Executing"}
    /\ Finalize(r, "Pending") /\ Observe(r, v)
    /\ UNCHANGED <<awaiting, upgrader, network, management, faults>>

ProposeReconcileUpgraderUpgrade(r, u) ==
    /\ SlotFree(r) /\ outcome[u] = "OutcomeUnknown"
    /\ Finalize(r, "Pending") /\ Observe(r, u)
    /\ UNCHANGED <<awaiting, upgrader, network, management, faults>>

(* Cancelled by the proposer or expired.                                   *)
Withdraw(p) ==
    /\ outcome[p] = "Pending"
    /\ \/ /\ p \in VaultUpgrades \cup UpgraderUpgrades
          /\ Finalize(p, "Withdrawn")
          /\ UNCHANGED evidence
       \/ /\ p \in VaultReconciles \cup UpgraderReconciles
          /\ Finalize(p, "none") /\ Ended(p)
    /\ UNCHANGED <<awaiting, upgrader, network, management, faults>>

Call(p) ==
    /\ Finalize(p, "Executing")
    /\ awaiting' = awaiting \cup {p}
    /\ queue' = Append(queue, p)

(* The approval that reaches the threshold executes in its own segment, up *)
(* to the first await.                                                     *)
ApproveVaultUpgrade(v) ==
    /\ outcome[v] = "Pending"
    /\ \/ /\ OpenMutatingIntents("vault") = {}
          /\ Call(v)
       \/ /\ OpenMutatingIntents("vault") # {}
          /\ Finalize(v, "Failed")
          /\ UNCHANGED <<awaiting, queue>>
    /\ UNCHANGED <<upgrader, evidence, reply, management, faults>>

ApproveUpgraderUpgrade(u) ==
    /\ outcome[u] = "Pending"
    /\ \/ /\ OpenMutatingIntents("upgrader") = {}
          /\ Finalize(u, "Executing")
          /\ awaiting' = awaiting \cup {u}
          /\ BeginInstall(u)
       \/ /\ OpenMutatingIntents("upgrader") # {}
          /\ Finalize(u, "Failed")
          /\ UNCHANGED <<awaiting, management>>
    /\ UNCHANGED <<upgrader, evidence, network, faults>>

ApproveVaultReconcileOfUnknown(r) ==
    /\ outcome[r] = "Pending"
    /\ \/ /\ outcome[evidence[r].of] = "OutcomeUnknown"
          /\ Call(r) /\ UNCHANGED evidence
       \/ /\ outcome[evidence[r].of] # "OutcomeUnknown"
          /\ Finalize(r, "none") /\ Ended(r)
          /\ UNCHANGED <<awaiting, queue>>
    /\ UNCHANGED <<upgrader, reply, management, faults>>

ApproveVaultReconcile(r) ==
    /\ outcome[r] = "Pending"
    /\ \/ /\ outcome[evidence[r].of] \in {"OutcomeUnknown", "Executing"}
          /\ Call(r) /\ UNCHANGED evidence
       \/ /\ outcome[evidence[r].of] \notin {"OutcomeUnknown", "Executing"}
          /\ Finalize(r, "none") /\ Ended(r)
          /\ UNCHANGED <<awaiting, queue>>
    /\ UNCHANGED <<upgrader, reply, management, faults>>

Decision(r, k) == IF evidence[r].module = Wasm[k] THEN "Executed" ELSE "Failed"

(* The Upgrader's upgrade is decided without a call.                       *)
ApproveUpgraderReconcile(r) ==
    LET u == evidence[r].of
    IN /\ outcome[r] = "Pending"
       /\ \/ /\ outcome[u] = "OutcomeUnknown"
             /\ outcome' = [outcome EXCEPT ![u] = Decision(r, u), ![r] = "none"]
          \/ /\ outcome[u] # "OutcomeUnknown"
             /\ Finalize(r, "none")
       /\ Ended(r)
       /\ UNCHANGED <<awaiting, upgrader, network, management, faults>>

Resume(p) ==
    /\ p \in awaiting
    /\ awaiting' = awaiting \ {p}

(* The trigger's answer; finalize does not look at the outcome it finds.   *)
VaultUpgradeReply(v) ==
    /\ reply[v] # None /\ Resume(v)
    /\ Finalize(v, CASE reply[v] = "Executed" -> "Executed"
                     [] reply[v] \in {"Failed", "refused"} -> "Failed"
                     [] OTHER -> "OutcomeUnknown")
    /\ reply' = [reply EXCEPT ![v] = None]
    /\ UNCHANGED <<upgrader, evidence, queue, management, faults>>

VaultReconcileReplyAnyError(r) ==
    LET v == evidence[r].of
    IN /\ reply[r] # None /\ Resume(r)
       /\ \/ /\ reply[r] = "Executed"
             /\ outcome' = [outcome EXCEPT ![v] = "Executed", ![r] = "none"]
          \/ /\ reply[r] \in {"Failed", "UnknownProposal", "refused"}
             /\ outcome' = [outcome EXCEPT ![v] = "Failed", ![r] = "none"]
          \/ /\ reply[r] = "transport"
             /\ Finalize(r, "none")
       /\ Ended(r)
       /\ reply' = [reply EXCEPT ![r] = None]
       /\ UNCHANGED <<upgrader, queue, management, faults>>

(* The Upgrader's word settles the target; an id it never heard of was     *)
(* never admitted.                                                         *)
VaultReconcileReply(r) ==
    LET v == evidence[r].of
    IN /\ reply[r] # None /\ Resume(r)
       /\ \/ /\ reply[r] = "Executed"
             /\ outcome' = [outcome EXCEPT ![v] = "Executed", ![r] = "none"]
          \/ /\ reply[r] \in {"Failed", "UnknownProposal"}
             /\ outcome' = [outcome EXCEPT ![v] = "Failed", ![r] = "none"]
          \/ /\ reply[r] \in {"refused", "transport"}
             /\ Finalize(r, "none")
       /\ Ended(r)
       /\ reply' = [reply EXCEPT ![r] = None]
       /\ UNCHANGED <<upgrader, queue, management, faults>>

UpgraderUpgradeReply(u) ==
    /\ result[u] # None /\ Resume(u)
    /\ Finalize(u, IF result[u] = "ok" THEN "Executed" ELSE "OutcomeUnknown")
    /\ result' = [result EXCEPT ![u] = None]
    /\ UNCHANGED <<upgrader, evidence, network, installing, module, since, faults>>

-----------------------------------------------------------------------------
(****************************** The Upgrader *******************************)

SetIntent(k, o) == intent' = [intent EXCEPT ![k] = o]

(* nonterminal_intent_in_flight, over both origins; a trigger that is only *)
(* proposed counts.                                                        *)
NonterminalIntents == {k \in Intents : intent[k] \in Nonterminal}

Answer(p, a) == reply' = [reply EXCEPT ![p] = IF p \in awaiting THEN a ELSE None]

(* trigger_vault_upgrade up to the install; the replay of a request id     *)
(* that is known is left out, since the Vault sends each of them once.     *)
TriggerBegin(v) ==
    /\ queue # <<>> /\ Head(queue) = v
    /\ queue' = Tail(queue)
    /\ \/ /\ NonterminalIntents = {}
          /\ SetIntent(v, "Executing")
          /\ serving' = [serving EXCEPT ![v].at = "install"]
          /\ BeginInstall(v)
          /\ UNCHANGED reply
       \/ /\ NonterminalIntents # {}
          /\ Answer(v, "refused")
          /\ UNCHANGED <<intent, serving, management>>
    /\ UNCHANGED <<vault, recovery, evidence, faults>>

FinishIntent(k) ==
    LET o == IF result[k] = "ok" THEN "Executed" ELSE "OutcomeUnknown"
    IN /\ serving[k].at = "install" /\ result[k] # None
       /\ SetIntent(k, o)
       /\ serving' = [serving EXCEPT ![k] = [at |-> "refresh", answer |-> o]]
       /\ result' = [result EXCEPT ![k] = None]
       /\ UNCHANGED <<vault, recovery, evidence, network, installing, module, since, faults>>

(* The two status calls after an install or a reconciliation have come     *)
(* back: only then is the Vault answered or the recovery proposal closed.  *)
RefreshDone(k) ==
    /\ serving[k].at = "refresh"
    /\ serving' = [serving EXCEPT ![k] = NotServing]
    /\ \/ /\ k \in RingCalls
          /\ Answer(k, serving[k].answer)
          /\ UNCHANGED recovery
       \/ /\ k \in Triggers
          /\ recovery' = [recovery EXCEPT ![k] = serving[k].answer]
          /\ UNCHANGED reply
    /\ UNCHANGED <<vault, intent, evidence, queue, management, faults>>

AcceptableAtAnyTime(r, k) == intent[k] = "OutcomeUnknown"

(* validate_evidence: what was seen before the intent proves nothing.      *)
Acceptable(r, k) == intent[k] = "OutcomeUnknown" /\ evidence[r].after

(* reconcile_vault_upgrade for the Vault: a terminal intent is replayed.   *)
ReconcileForVault(r) ==
    LET k == evidence[r].of
        Refuse(a) == Answer(r, a) /\ UNCHANGED <<intent, serving>>
        Settle(o) == /\ serving' = [serving EXCEPT ![r] = [at |-> "refresh", answer |-> o]]
                     /\ UNCHANGED reply
    IN /\ queue # <<>> /\ Head(queue) = r
       /\ queue' = Tail(queue)
       /\ \/ intent[k] = "none" /\ Refuse("UnknownProposal")
          \/ intent[k] \in {"Executed", "Failed"} /\ Settle(intent[k]) /\ UNCHANGED intent
          \/ Acceptable(r, k) /\ Settle(Decision(r, k)) /\ SetIntent(k, Decision(r, k))
          \/ /\ intent[k] \in Nonterminal /\ ~Acceptable(r, k)
             /\ Refuse("refused")
       /\ UNCHANGED <<vault, recovery, evidence, management, faults>>

ProposeTrigger(t) ==
    /\ recovery[t] = "none" /\ NonterminalIntents = {}
    /\ recovery' = [recovery EXCEPT ![t] = "Pending"]
    /\ SetIntent(t, "Pending")
    /\ Recorded(t)
    /\ UNCHANGED <<vault, serving, evidence, network, installing, result, module, faults>>

ApproveTrigger(t) ==
    /\ recovery[t] = "Pending" /\ NonterminalIntents \ {t} = {}
    /\ recovery' = [recovery EXCEPT ![t] = "Executing"]
    /\ SetIntent(t, "Executing")
    /\ serving' = [serving EXCEPT ![t].at = "install"]
    /\ BeginInstall(t)
    /\ UNCHANGED <<vault, evidence, network, faults>>

(* resolve_intent without an origin: the recorded intents that have an id, *)
(* at most one of each origin.  Intents are never removed.                 *)
Named(i) == {k \in Intents : Id[k] = i /\ intent[k] # "none"}

(* Proposed with an id, of a nonterminal intent k that has it; of any      *)
(* other intent it is always refused.  k stays among the named ones.       *)
ProposeRecoveryReconcile(r, k) ==
    /\ recovery[r] = "none" /\ k \in NonterminalIntents
    /\ recovery' = [recovery EXCEPT ![r] = "Pending"]
    /\ Observe(r, k)
    /\ UNCHANGED <<vault, intent, serving, network, management, faults>>

(* Decided in the approval's segment, of the only intent with the id; a    *)
(* terminal intent is not replayed.                                        *)
ApproveRecoveryReconcile(r) ==
    LET k == evidence[r].of
    IN /\ recovery[r] = "Pending"
       /\ \/ /\ Named(Id[k]) = {k} /\ Acceptable(r, k)
             /\ SetIntent(k, Decision(r, k))
          \/ /\ Named(Id[k]) # {k} \/ ~Acceptable(r, k)
             /\ UNCHANGED intent
       /\ recovery' = [recovery EXCEPT ![r] = "none"]
       /\ Ended(r)
       /\ UNCHANGED <<vault, serving, network, management, faults>>

WithdrawProposalOnly(p) ==
    /\ recovery[p] = "Pending"
    /\ \/ /\ p \in Triggers
          /\ recovery' = [recovery EXCEPT ![p] = "Withdrawn"]
          /\ UNCHANGED <<intent, evidence>>
       \/ /\ p \in RecoveryReconciles
          /\ recovery' = [recovery EXCEPT ![p] = "none"]
          /\ Ended(p)
          /\ UNCHANGED intent
    /\ UNCHANGED <<vault, serving, network, management, faults>>

(* A pending proposal is withdrawn together with its pending intent.       *)
WithdrawRecovery(p) ==
    /\ recovery[p] = "Pending"
    /\ \/ /\ p \in Triggers
          /\ recovery' = [recovery EXCEPT ![p] = "Withdrawn"]
          /\ SetIntent(p, "Withdrawn")
          /\ UNCHANGED evidence
       \/ /\ p \in RecoveryReconciles
          /\ recovery' = [recovery EXCEPT ![p] = "none"]
          /\ Ended(p)
          /\ UNCHANGED intent
    /\ UNCHANGED <<vault, serving, network, management, faults>>

(* A rotation of the members fails whatever is pending, in its message.    *)
Rotate ==
    /\ \E p \in RecoveryProposals : recovery[p] = "Pending"
    /\ recovery' = [p \in RecoveryProposals |->
          IF p \in RecoveryReconciles THEN "none"
          ELSE IF recovery[p] = "Pending" THEN "Failed" ELSE recovery[p]]
    /\ evidence' = [r \in Reconciles |-> IF r \in RecoveryReconciles THEN None ELSE evidence[r]]
    /\ intent' = [k \in Intents |->
          IF k \in Triggers /\ recovery[k] = "Pending" THEN "Failed" ELSE intent[k]]
    /\ UNCHANGED <<vault, serving, network, management, faults>>

-----------------------------------------------------------------------------
(************************ Upgrades and the network *************************)

(* post_upgrade of the Vault sweeps no upgrade: an executing one stays so. *)
VaultUpgraded ==
    /\ awaiting' = {}
    /\ reply' = [p \in RingCalls |-> None]
    /\ UNCHANGED <<outcome, intent, serving>>

(* Whoever waits for a call that is cut off is told that it failed.        *)
ServedCallsFail ==
    /\ serving' = [k \in RingCalls \cup Triggers |-> NotServing]
    /\ reply' = [p \in RingCalls |->
                    IF serving[p] # NotServing /\ p \in awaiting THEN "transport" ELSE reply[p]]
    /\ UNCHANGED <<outcome, awaiting>>

UpgraderUpgradedSweeping ==
    /\ intent' = [k \in Intents |->
                     IF intent[k] = "Executing" THEN "OutcomeUnknown" ELSE intent[k]]
    /\ ServedCallsFail

(* post_upgrade of the Upgrader does not sweep them either.                *)
UpgraderUpgraded ==
    /\ UNCHANGED intent
    /\ ServedCallsFail

HasCaller(k) == IF k \in UpgraderUpgrades THEN k \in awaiting ELSE serving[k].at = "install"

(* The install runs, and the canister loses the answers it waited for.     *)
InstallLands(k) ==
    LET c == Target(k)
        Answered(a) == result' = [j \in Upgrades |->
            CASE j = k -> IF HasCaller(k) THEN a ELSE None
              [] Target(j) # c -> None
              [] OTHER -> result[j]]
    IN /\ k \in installing
       /\ installing' = installing \ {k}
       /\ module' = [module EXCEPT ![c] = Wasm[k]]
       /\ since' = [j \in Upgrades |->
                       IF Target(j) = c /\ since[j] # {} THEN since[j] \cup {Wasm[k]} ELSE since[j]]
       /\ \/ Answered("ok") /\ UNCHANGED faults
          \/ Answered("rejected") /\ Fault
       /\ IF c = "vault" THEN VaultUpgraded ELSE UpgraderUpgraded
       /\ UNCHANGED <<recovery, evidence, queue>>

InstallRejected(k) ==
    /\ k \in installing /\ Fault
    /\ installing' = installing \ {k}
    /\ result' = [result EXCEPT ![k] = IF HasCaller(k) THEN "rejected" ELSE None]
    /\ UNCHANGED <<vault, upgrader, evidence, network, module, since>>

RequestLost ==
    /\ queue # <<>> /\ Fault
    /\ queue' = Tail(queue)
    /\ Answer(Head(queue), "transport")
    /\ UNCHANGED <<vault, upgrader, evidence, management>>

-----------------------------------------------------------------------------
Init ==
    /\ outcome = [p \in VaultProposals |-> "none"] /\ awaiting = {}
    /\ intent = [k \in Intents |-> "none"]
    /\ recovery = [p \in RecoveryProposals |-> "none"]
    /\ serving = [k \in RingCalls \cup Triggers |-> NotServing]
    /\ evidence = [r \in Reconciles |-> None]
    /\ queue = <<>> /\ reply = [p \in RingCalls |-> None]
    /\ installing = {} /\ result = [k \in Upgrades |-> None]
    /\ module = FirstModule /\ since = [k \in Upgrades |-> {}]
    /\ faults = 0

ProposeVaultReconcile(r) == \E v \in VaultUpgrades : ProposeReconcileVaultUpgrade(r, v)
ProposeUpgraderReconcile(r) == \E u \in UpgraderUpgrades : ProposeReconcileUpgraderUpgrade(r, u)

VaultStep ==
    \/ \E p \in VaultUpgrades \cup UpgraderUpgrades : ProposeUpgrade(p)
    \/ \E p \in VaultProposals : Withdraw(p)
    \/ \E v \in VaultUpgrades : ApproveVaultUpgrade(v) \/ VaultUpgradeReply(v)
    \/ \E u \in UpgraderUpgrades : ApproveUpgraderUpgrade(u) \/ UpgraderUpgradeReply(u)
    \/ \E r \in VaultReconciles :
          ProposeVaultReconcile(r) \/ ApproveVaultReconcile(r) \/ VaultReconcileReply(r)
    \/ \E r \in UpgraderReconciles : ProposeUpgraderReconcile(r) \/ ApproveUpgraderReconcile(r)

UpgraderStep ==
    \/ \E v \in VaultUpgrades : TriggerBegin(v)
    \/ \E k \in Intents : FinishIntent(k)
    \/ \E k \in RingCalls \cup Triggers : RefreshDone(k)
    \/ \E r \in VaultReconciles : ReconcileForVault(r)
    \/ \E t \in Triggers : ProposeTrigger(t) \/ ApproveTrigger(t)
    \/ \E r \in RecoveryReconciles :
          \/ \E k \in Intents : ProposeRecoveryReconcile(r, k)
          \/ ApproveRecoveryReconcile(r)
    \/ \E p \in RecoveryProposals : WithdrawRecovery(p)
    \/ Rotate

PlatformStep ==
    \/ \E k \in Upgrades : InstallLands(k) \/ InstallRejected(k)
    \/ RequestLost

Next == VaultStep \/ UpgraderStep \/ PlatformStep

Spec == Init /\ [][Next]_vars

(* Calls are delivered, executed and answered; the signers propose a       *)
(* reconciliation of whatever stays undecided again and again, and approve *)
(* one of each upgrade in the end.                                         *)
CallProceeds(k) ==
    \/ k \in VaultUpgrades /\ (TriggerBegin(k) \/ VaultUpgradeReply(k))
    \/ k \in UpgraderUpgrades /\ UpgraderUpgradeReply(k)
    \/ k \in Intents /\ FinishIntent(k)
    \/ k \in RingCalls \cup Triggers /\ RefreshDone(k)
    \/ k \in VaultReconciles /\ (ReconcileForVault(k) \/ VaultReconcileReply(k))
    \/ k \in Upgrades /\ InstallLands(k)

LiveSpec ==
    /\ Spec
    /\ \A k \in Upgrades \cup VaultReconciles : WF_vars(CallProceeds(k))
    /\ \A r \in VaultReconciles :
          /\ SF_vars(\E v \in VaultUpgrades : ProposeReconcileVaultUpgrade(r, v))
          /\ SF_vars(ApproveVaultReconcile(r))
    /\ \A r \in UpgraderReconciles :
          /\ SF_vars(\E u \in UpgraderUpgrades : ProposeReconcileUpgraderUpgrade(r, u))
          /\ SF_vars(ApproveUpgraderReconcile(r))
    /\ \A r \in RecoveryReconciles :
          /\ SF_vars(\E k \in Intents : ProposeRecoveryReconcile(r, k))
          /\ SF_vars(ApproveRecoveryReconcile(r))

-----------------------------------------------------------------------------
Outcomes == Terminal \cup Nonterminal \cup {"none"}
Answers == {"Executed", "Failed", "OutcomeUnknown", "refused", "UnknownProposal", "transport", None}

(* The types, and the link that a rotation of the members relies on: a     *)
(* trigger is pending exactly as long as its intent is.                    *)
TypeOK ==
    /\ outcome \in [VaultProposals -> Outcomes] /\ awaiting \subseteq VaultProposals
    /\ intent \in [Intents -> Outcomes] /\ recovery \in [RecoveryProposals -> Outcomes]
    /\ serving \in [RingCalls \cup Triggers ->
                        [at : {"none", "install", "refresh"}, answer : Answers]]
    /\ evidence \in [Reconciles -> Observations \cup {None}]
    /\ queue \in Seq(RingCalls) /\ reply \in [RingCalls -> Answers]
    /\ installing \subseteq Upgrades /\ result \in [Upgrades -> {"ok", "rejected", None}]
    /\ module \in [Canisters -> Modules] /\ since \in [Upgrades -> SUBSET Modules]
    /\ faults \in 0..MaxFaults
    /\ \A t \in Triggers : recovery[t] = "Pending" <=> intent[t] = "Pending"

(* While an install may still land, its proposal or intent holds the lock  *)
(* of the target, alone: also when the canister that asked for it was      *)
(* upgraded meanwhile, when a reconciliation is decided, and across the    *)
(* two origins of a Vault upgrade.  Two nonterminal intents would make the *)
(* Upgrader's post_upgrade trap.                                           *)
InstallHoldsLock ==
    /\ \A k \in installing \cap Intents : intent[k] = "Executing"
    /\ \A u \in installing \cap UpgraderUpgrades : outcome[u] = "Executing"
    /\ Cardinality(NonterminalIntents) <= 1
    /\ Cardinality(OpenMutatingIntents("upgrader")) <= 1

(* The two planes agree: the Vault calls an upgrade executed only if the   *)
(* Upgrader's intent is, and failed only if the Upgrader never admitted it *)
(* or found it failed, whichever of the trigger's and the reconciliations' *)
(* answers comes last.                                                     *)
PlanesAgree ==
    \A v \in VaultUpgrades :
        /\ outcome[v] = "Executed" => intent[v] = "Executed"
        /\ outcome[v] = "Failed" => intent[v] \in {"none", "Failed"}

(* An upgrade is called executed only if its module ran at some time since *)
(* it was recorded; evidence from before must not decide it.               *)
ExecutedWasLive ==
    /\ \A k \in Intents : intent[k] = "Executed" => Wasm[k] \in since[k]
    /\ \A u \in UpgraderUpgrades : outcome[u] = "Executed" => Wasm[u] \in since[u]

(* The ways in which an upgrade is never decided, and holds its lock for   *)
(* ever.  It executes, and the canister that would hear of its end was     *)
(* upgraded by the other one meanwhile: no reconciliation accepts that     *)
(* state.  Or the end of a recovery upgrade is not known, and the Vault    *)
(* upgraded itself under the same id before: only the members may decide   *)
(* it, and their reconciliation is refused as ambiguous.                   *)
Orphaned(k) ==
    IF k \in UpgraderUpgrades THEN outcome[k] = "Executing" /\ k \notin awaiting
    ELSE intent[k] = "Executing" /\ serving[k] = NotServing
Ambiguous(k) ==
    k \in Triggers /\ intent[k] = "OutcomeUnknown" /\ Named(Id[k]) # {k}
Stranded(k) == Orphaned(k) \/ Ambiguous(k)

Undecided(k) ==
    \/ k \in VaultUpgrades \cup UpgraderUpgrades /\ outcome[k] \in HoldsSingleFlight
    \/ k \in Triggers /\ intent[k] \in HoldsSingleFlight

(* Every upgrade that was begun is decided, on both planes, by its answer  *)
(* or by a reconciliation, unless it is stranded: again and again nothing  *)
(* else holds a lock.                                                      *)
RingSettles == []<>(\A k \in Upgrades : ~Undecided(k) \/ Stranded(k))
=============================================================================
