------------------------- MODULE CustodyRing_proofs -------------------------
(***************************************************************************)
(* The custody ring is safe for any number of upgrades, reconciliations,   *)
(* lost requests and rejected installs.  Four invariants, each relative to *)
(* those before it: LockInv, who holds the lock of a canister; CallsInv,   *)
(* where a call of the Vault is; PlaneInv, what the Vault, the Upgrader    *)
(* and the messages between them hold of a Vault upgrade; HistoryInv, what *)
(* ran since an upgrade was recorded.                                      *)
(***************************************************************************)
EXTENDS CustodyRing, FiniteSetTheorems, TLAPS

(* What the argument needs of the types.                                   *)
RingTypes ==
    /\ outcome \in [VaultProposals -> Outcomes]
    /\ intent \in [Intents -> Outcomes] /\ recovery \in [RecoveryProposals -> Outcomes]
    /\ serving \in [RingCalls \cup Triggers ->
                        [at : {"none", "install", "refresh"}, answer : Answers]]
    /\ result \in [Upgrades -> {"ok", "rejected", None}]
    /\ DOMAIN evidence = Reconciles

(* An upgrade of the Vault under way: its intent is executing, and only    *)
(* the call that asked for the install hears of it.                        *)
IntentBacks ==
    \A k \in Intents :
        /\ k \in installing => intent[k] = "Executing" /\ result[k] = None
        /\ serving[k].at = "install" => intent[k] = "Executing"
        /\ result[k] # None => serving[k].at = "install"

(* The same of an upgrade of the Upgrader and the Vault's proposal.        *)
ProposalBacks ==
    \A u \in UpgraderUpgrades :
        /\ u \in installing => outcome[u] = "Executing" /\ result[u] = None
        /\ u \in awaiting => outcome[u] = "Executing"
        /\ result[u] # None => u \in awaiting

OneIntent == \A j, k \in NonterminalIntents : j = k
OneProposal == \A u, w \in OpenMutatingIntents("upgrader") : u = w

(* A trigger is pending exactly as long as its intent is, and one that is  *)
(* served is past that.                                                    *)
TriggersLinked ==
    \A t \in Triggers :
        /\ recovery[t] = "Pending" <=> intent[t] = "Pending"
        /\ serving[t].at # "none" => recovery[t] = "Executing"
        /\ serving[t].at = "refresh" => serving[t].answer \in {"Executed", "OutcomeUnknown"}

(* A reconciliation that is pending, or waits for the Upgrader, is about   *)
(* an upgrade of its kind.                                                 *)
ReconcilesAimed ==
    /\ \A r \in VaultReconciles :
          /\ outcome[r] = "Pending" \/ r \in awaiting => evidence[r].of \in VaultUpgrades
          /\ r \in awaiting => outcome[r] = "Executing"
    /\ \A r \in UpgraderReconciles : outcome[r] = "Pending" => evidence[r].of \in UpgraderUpgrades

LockInv ==
    /\ RingTypes /\ IntentBacks /\ ProposalBacks /\ OneIntent /\ OneProposal
    /\ TriggersLinked /\ ReconcilesAimed

(* No two kinds of proposals meet.                                         *)
LEMMA Distinct ==
    /\ VaultUpgrades \cap UpgraderUpgrades = {}
    /\ VaultUpgrades \cap Triggers = {}
    /\ VaultUpgrades \cap VaultReconciles = {}
    /\ VaultUpgrades \cap UpgraderReconciles = {}
    /\ VaultUpgrades \cap RecoveryReconciles = {}
    /\ UpgraderUpgrades \cap Triggers = {}
    /\ UpgraderUpgrades \cap VaultReconciles = {}
    /\ UpgraderUpgrades \cap UpgraderReconciles = {}
    /\ UpgraderUpgrades \cap RecoveryReconciles = {}
    /\ Triggers \cap VaultReconciles = {}
    /\ Triggers \cap UpgraderReconciles = {}
    /\ Triggers \cap RecoveryReconciles = {}
    /\ VaultReconciles \cap UpgraderReconciles = {}
    /\ VaultReconciles \cap RecoveryReconciles = {}
    /\ UpgraderReconciles \cap RecoveryReconciles = {}
  BY RingAssumption DEF RingAssumption

LEMMA ProposeUpgradeKeeps ==
    ASSUME LockInv, NEW p \in VaultUpgrades \cup UpgraderUpgrades, ProposeUpgrade(p)
    PROVE  LockInv'
  <1>1. UNCHANGED <<intent, recovery, serving, installing, result>>
    BY DEF ProposeUpgrade, Finalize, upgrader, network, management
  <1>2. RingTypes'
    BY Distinct DEF ProposeUpgrade, Finalize, upgrader, management, LockInv, RingTypes, Outcomes,
       Answers, Terminal, Nonterminal, VaultProposals
  <1>3. ProposalBacks'
    BY Distinct DEF ProposeUpgrade, Finalize, management, LockInv, RingTypes, ProposalBacks,
       VaultProposals
  <1>4. OneProposal'
    BY Distinct DEF ProposeUpgrade, Finalize, LockInv, RingTypes, OneProposal,
       OpenMutatingIntents, HoldsSingleFlight, Target, VaultProposals
  <1>5. ReconcilesAimed'
    BY Distinct DEF ProposeUpgrade, Finalize, LockInv, RingTypes, ReconcilesAimed, VaultProposals
  <1> QED BY <1>1, <1>2, <1>3, <1>4, <1>5 DEF LockInv, RingTypes, IntentBacks, OneIntent,
     NonterminalIntents, Nonterminal, TriggersLinked

LEMMA WithdrawKeeps ==
    ASSUME LockInv, NEW p \in VaultProposals, Withdraw(p)
    PROVE  LockInv'
  <1>1. UNCHANGED <<intent, recovery, serving, installing, result>>
    BY DEF Withdraw, Finalize, Ended, upgrader, network, management
  <1>2. RingTypes'
    BY Distinct DEF Withdraw, Finalize, Ended, upgrader, management, LockInv, RingTypes, Outcomes,
       Answers, Terminal, Nonterminal, VaultProposals, Reconciles
  <1>3. ProposalBacks'
    BY Distinct DEF Withdraw, Finalize, management, LockInv, RingTypes, ProposalBacks,
       VaultProposals
  <1>4. OneProposal'
    BY Distinct DEF Withdraw, Finalize, LockInv, RingTypes, OneProposal, OpenMutatingIntents,
       HoldsSingleFlight, Target, VaultProposals
  <1>5. ReconcilesAimed'
    BY Distinct DEF Withdraw, Finalize, Ended, LockInv, RingTypes, ReconcilesAimed,
       VaultProposals, Reconciles
  <1> QED BY <1>1, <1>2, <1>3, <1>4, <1>5 DEF LockInv, RingTypes, IntentBacks, OneIntent,
     NonterminalIntents, Nonterminal, TriggersLinked

(* The recheck of the single-flight rule is in the segment that executes.  *)
LEMMA ApproveVaultUpgradeKeeps ==
    ASSUME LockInv, NEW p \in VaultUpgrades, ApproveVaultUpgrade(p)
    PROVE  LockInv'
  <1>1. UNCHANGED <<intent, recovery, serving, installing, result>>
    BY DEF ApproveVaultUpgrade, Finalize, Call, upgrader, management
  <1>2. RingTypes'
    BY Distinct DEF ApproveVaultUpgrade, Finalize, Call, upgrader, management, LockInv, RingTypes,
       Outcomes, Answers, Terminal, Nonterminal, VaultProposals
  <1>3. ProposalBacks'
    BY Distinct DEF ApproveVaultUpgrade, Finalize, Call, management, LockInv, RingTypes,
       ProposalBacks, VaultProposals
  <1>4. OneProposal'
    BY Distinct DEF ApproveVaultUpgrade, Finalize, Call, LockInv, RingTypes, OneProposal,
       OpenMutatingIntents, HoldsSingleFlight, Target, VaultProposals
  <1>5. ReconcilesAimed'
    BY Distinct DEF ApproveVaultUpgrade, Finalize, Call, LockInv, RingTypes, ReconcilesAimed,
       VaultProposals
  <1> QED BY <1>1, <1>2, <1>3, <1>4, <1>5 DEF LockInv, RingTypes, IntentBacks, OneIntent,
     NonterminalIntents, Nonterminal, TriggersLinked

LEMMA VaultUpgradeReplyKeeps ==
    ASSUME LockInv, NEW p \in VaultUpgrades, VaultUpgradeReply(p)
    PROVE  LockInv'
  <1>1. UNCHANGED <<intent, recovery, serving, installing, result>>
    BY DEF VaultUpgradeReply, Finalize, Resume, upgrader, management
  <1>2. RingTypes'
    BY Distinct DEF VaultUpgradeReply, Finalize, upgrader, management, LockInv, RingTypes,
       Outcomes, Answers, Terminal, Nonterminal, VaultProposals
  <1>3. ProposalBacks'
    BY Distinct DEF VaultUpgradeReply, Finalize, Resume, management, LockInv, RingTypes,
       ProposalBacks, VaultProposals
  <1>4. OneProposal'
    BY Distinct DEF VaultUpgradeReply, Finalize, LockInv, RingTypes, OneProposal,
       OpenMutatingIntents, HoldsSingleFlight, Target, VaultProposals
  <1>5. ReconcilesAimed'
    BY Distinct DEF VaultUpgradeReply, Finalize, Resume, LockInv, RingTypes, ReconcilesAimed,
       VaultProposals
  <1> QED BY <1>1, <1>2, <1>3, <1>4, <1>5 DEF LockInv, RingTypes, IntentBacks, OneIntent,
     NonterminalIntents, Nonterminal, TriggersLinked

(* The install is asked for only while no other upgrade is undecided.      *)
LEMMA ApproveUpgraderUpgradeKeeps ==
    ASSUME LockInv, NEW p \in UpgraderUpgrades, ApproveUpgraderUpgrade(p)
    PROVE  LockInv'
  <1>1. UNCHANGED <<intent, recovery, serving>>
    BY DEF ApproveUpgraderUpgrade, Finalize, BeginInstall, Recorded, upgrader, network, management
  <1>2. RingTypes'
    BY Distinct DEF ApproveUpgraderUpgrade, Finalize, BeginInstall, upgrader, management, LockInv,
       RingTypes, Outcomes, Answers, Terminal, Nonterminal, VaultProposals
  <1>3. IntentBacks'
    BY Distinct DEF ApproveUpgraderUpgrade, BeginInstall, upgrader, management, LockInv,
       RingTypes, IntentBacks, Intents
  <1>4. ProposalBacks'
    BY Distinct DEF ApproveUpgraderUpgrade, Finalize, BeginInstall, management, LockInv,
       RingTypes, ProposalBacks, VaultProposals
  <1>5. OneProposal'
    BY Distinct DEF ApproveUpgraderUpgrade, Finalize, LockInv, RingTypes, OneProposal,
       OpenMutatingIntents, HoldsSingleFlight, Target, VaultProposals
  <1>6. ReconcilesAimed'
    BY Distinct DEF ApproveUpgraderUpgrade, Finalize, LockInv, RingTypes, ReconcilesAimed,
       VaultProposals
  <1> QED BY <1>1, <1>2, <1>3, <1>4, <1>5, <1>6 DEF LockInv, RingTypes, OneIntent,
     NonterminalIntents, Nonterminal, TriggersLinked

(* The answer of an install: it is over, and nobody decided it meanwhile.  *)
LEMMA UpgraderUpgradeReplyKeeps ==
    ASSUME LockInv, NEW p \in UpgraderUpgrades, UpgraderUpgradeReply(p)
    PROVE  LockInv'
  <1>1. UNCHANGED <<intent, recovery, serving>>
    BY DEF UpgraderUpgradeReply, Finalize, Resume, upgrader, network
  <1>2. RingTypes'
    BY Distinct DEF UpgraderUpgradeReply, Finalize, upgrader, LockInv, RingTypes, Outcomes,
       Answers, Terminal, Nonterminal, VaultProposals, Intents, Upgrades
  <1>3. IntentBacks'
    BY Distinct DEF UpgraderUpgradeReply, upgrader, LockInv, RingTypes, IntentBacks, Intents,
       Upgrades
  <1>4. ProposalBacks'
    BY Distinct DEF UpgraderUpgradeReply, Finalize, Resume, LockInv, RingTypes, ProposalBacks,
       VaultProposals, Intents, Upgrades
  <1>5. OneProposal'
    BY Distinct DEF UpgraderUpgradeReply, Finalize, LockInv, RingTypes, OneProposal,
       OpenMutatingIntents, HoldsSingleFlight, Target, ProposalBacks, VaultProposals
  <1>6. ReconcilesAimed'
    BY Distinct DEF UpgraderUpgradeReply, Finalize, Resume, LockInv, RingTypes, ReconcilesAimed,
       VaultProposals
  <1> QED BY <1>1, <1>2, <1>3, <1>4, <1>5, <1>6 DEF LockInv, RingTypes, OneIntent,
     NonterminalIntents, Nonterminal, TriggersLinked

LEMMA ProposeVaultReconcileKeeps ==
    ASSUME LockInv, NEW p \in VaultReconciles, ProposeVaultReconcile(p)
    PROVE  LockInv'
  <1>1. UNCHANGED <<intent, recovery, serving, installing, result>>
    BY DEF ProposeVaultReconcile, ProposeReconcileVaultUpgrade, SlotFree, Finalize, Observe,
       upgrader, network, management
  <1>2. RingTypes'
    BY Distinct DEF ProposeVaultReconcile, ProposeReconcileVaultUpgrade, SlotFree, Finalize,
       Observe, upgrader, management, LockInv, RingTypes, Outcomes, Answers, Terminal,
       Nonterminal, VaultProposals, Reconciles
  <1>3. ProposalBacks'
    BY Distinct DEF ProposeVaultReconcile, ProposeReconcileVaultUpgrade, SlotFree, Finalize,
       management, LockInv, RingTypes, ProposalBacks, VaultProposals
  <1>4. OneProposal'
    BY Distinct DEF ProposeVaultReconcile, ProposeReconcileVaultUpgrade, Finalize, LockInv,
       RingTypes, OneProposal, OpenMutatingIntents, HoldsSingleFlight, Target, VaultProposals
  <1>5. ReconcilesAimed'
    BY Distinct DEF ProposeVaultReconcile, ProposeReconcileVaultUpgrade, SlotFree, Finalize,
       Observe, LockInv, RingTypes, ReconcilesAimed, VaultProposals, Reconciles
  <1> QED BY <1>1, <1>2, <1>3, <1>4, <1>5 DEF LockInv, RingTypes, IntentBacks, OneIntent,
     NonterminalIntents, Nonterminal, TriggersLinked

LEMMA ApproveVaultReconcileKeeps ==
    ASSUME LockInv, NEW p \in VaultReconciles, ApproveVaultReconcile(p)
    PROVE  LockInv'
  <1>1. UNCHANGED <<intent, recovery, serving, installing, result>>
    BY DEF ApproveVaultReconcile, Finalize, Call, Ended, upgrader, management
  <1>2. RingTypes'
    BY Distinct DEF ApproveVaultReconcile, Finalize, Call, Ended, upgrader, management, LockInv,
       RingTypes, Outcomes, Answers, Terminal, Nonterminal, VaultProposals, Reconciles
  <1>3. ProposalBacks'
    BY Distinct DEF ApproveVaultReconcile, Finalize, Call, management, LockInv, RingTypes,
       ProposalBacks, VaultProposals
  <1>4. OneProposal'
    BY Distinct DEF ApproveVaultReconcile, Finalize, Call, LockInv, RingTypes, OneProposal,
       OpenMutatingIntents, HoldsSingleFlight, Target, VaultProposals
  <1>5. ReconcilesAimed'
    BY Distinct DEF ApproveVaultReconcile, Finalize, Call, Ended, LockInv, RingTypes,
       ReconcilesAimed, VaultProposals, Reconciles
  <1> QED BY <1>1, <1>2, <1>3, <1>4, <1>5 DEF LockInv, RingTypes, IntentBacks, OneIntent,
     NonterminalIntents, Nonterminal, TriggersLinked

(* The Upgrader's word settles a Vault upgrade, never one of the Upgrader. *)
LEMMA VaultReconcileReplyKeeps ==
    ASSUME LockInv, NEW p \in VaultReconciles, VaultReconcileReply(p)
    PROVE  LockInv'
  <1>1. UNCHANGED <<intent, recovery, serving, installing, result>>
    BY DEF VaultReconcileReply, Finalize, Resume, Ended, upgrader, management
  <1>2. RingTypes'
    BY Distinct DEF VaultReconcileReply, Finalize, Ended, upgrader, management, LockInv,
       RingTypes, Outcomes, Answers, Terminal, Nonterminal, VaultProposals, Reconciles
  <1>3. ProposalBacks'
    BY Distinct DEF VaultReconcileReply, Finalize, Resume, management, LockInv, RingTypes,
       ProposalBacks, ReconcilesAimed, VaultProposals
  <1>4. OneProposal'
    BY Distinct DEF VaultReconcileReply, Finalize, LockInv, RingTypes, OneProposal,
       OpenMutatingIntents, HoldsSingleFlight, Target, VaultProposals
  <1>5. ReconcilesAimed'
    BY Distinct DEF VaultReconcileReply, Finalize, Resume, Ended, LockInv, RingTypes,
       ReconcilesAimed, VaultProposals, Reconciles
  <1> QED BY <1>1, <1>2, <1>3, <1>4, <1>5 DEF LockInv, RingTypes, IntentBacks, OneIntent,
     NonterminalIntents, Nonterminal, TriggersLinked

LEMMA ProposeUpgraderReconcileKeeps ==
    ASSUME LockInv, NEW p \in UpgraderReconciles, ProposeUpgraderReconcile(p)
    PROVE  LockInv'
  <1>1. UNCHANGED <<intent, recovery, serving, installing, result>>
    BY DEF ProposeUpgraderReconcile, ProposeReconcileUpgraderUpgrade, SlotFree, Finalize, Observe,
       upgrader, network, management
  <1>2. RingTypes'
    BY Distinct DEF ProposeUpgraderReconcile, ProposeReconcileUpgraderUpgrade, SlotFree, Finalize,
       Observe, upgrader, management, LockInv, RingTypes, Outcomes, Answers, Terminal,
       Nonterminal, VaultProposals, Reconciles
  <1>3. ProposalBacks'
    BY Distinct DEF ProposeUpgraderReconcile, ProposeReconcileUpgraderUpgrade, SlotFree, Finalize,
       management, LockInv, RingTypes, ProposalBacks, VaultProposals
  <1>4. OneProposal'
    BY Distinct DEF ProposeUpgraderReconcile, ProposeReconcileUpgraderUpgrade, Finalize, LockInv,
       RingTypes, OneProposal, OpenMutatingIntents, HoldsSingleFlight, Target, VaultProposals
  <1>5. ReconcilesAimed'
    BY Distinct DEF ProposeUpgraderReconcile, ProposeReconcileUpgraderUpgrade, SlotFree, Finalize,
       Observe, LockInv, RingTypes, ReconcilesAimed, VaultProposals, Reconciles
  <1> QED BY <1>1, <1>2, <1>3, <1>4, <1>5 DEF LockInv, RingTypes, IntentBacks, OneIntent,
     NonterminalIntents, Nonterminal, TriggersLinked

LEMMA ApproveUpgraderReconcileKeeps ==
    ASSUME LockInv, NEW p \in UpgraderReconciles, ApproveUpgraderReconcile(p)
    PROVE  LockInv'
  <1>1. UNCHANGED <<intent, recovery, serving, installing, result>>
    BY DEF ApproveUpgraderReconcile, Finalize, Decision, Ended, upgrader, network, management
  <1>2. RingTypes'
    BY Distinct DEF ApproveUpgraderReconcile, Finalize, Decision, Ended, upgrader, management,
       LockInv, RingTypes, Outcomes, Answers, Terminal, Nonterminal, VaultProposals, Reconciles
  <1>3. ProposalBacks'
    BY Distinct DEF ApproveUpgraderReconcile, Finalize, Decision, management, LockInv, RingTypes,
       ProposalBacks, VaultProposals
  <1>4. OneProposal'
    BY Distinct DEF ApproveUpgraderReconcile, Finalize, Decision, LockInv, RingTypes, OneProposal,
       OpenMutatingIntents, HoldsSingleFlight, Target, VaultProposals
  <1>5. ReconcilesAimed'
    BY Distinct DEF ApproveUpgraderReconcile, Finalize, Decision, Ended, LockInv, RingTypes,
       ReconcilesAimed, VaultProposals, Reconciles
  <1> QED BY <1>1, <1>2, <1>3, <1>4, <1>5 DEF LockInv, RingTypes, IntentBacks, OneIntent,
     NonterminalIntents, Nonterminal, TriggersLinked

(* A trigger finds no nonterminal intent, so its own is not executing.     *)
LEMMA TriggerBeginKeeps ==
    ASSUME LockInv, NEW p \in VaultUpgrades, TriggerBegin(p)
    PROVE  LockInv'
  <1>1. UNCHANGED <<outcome, awaiting, evidence>>
    BY DEF TriggerBegin, SetIntent, BeginInstall, Recorded, vault, management
  <1>2. RingTypes'
    <2>1. intent' \in [Intents -> Outcomes]
      BY DEF LockInv, RingTypes, TriggerBegin, SetIntent, Outcomes, Nonterminal
    <2>2. serving' = serving \/ serving' = [serving EXCEPT ![p] = [serving[p] EXCEPT !.at = "install"]]
      BY DEF TriggerBegin
    <2>3. ASSUME NEW c \in [at : {"none", "install", "refresh"}, answer : Answers]
          PROVE  [c EXCEPT !.at = "install"] \in [at : {"none", "install", "refresh"}, answer : Answers]
      OBVIOUS
    <2>4. serving' \in [RingCalls \cup Triggers -> [at : {"none", "install", "refresh"}, answer : Answers]]
      BY <2>2, <2>3 DEF LockInv, RingTypes, RingCalls
    <2>5. UNCHANGED <<outcome, recovery, result, evidence>>
      BY DEF TriggerBegin, BeginInstall, management, vault
    <2> QED BY <2>1, <2>4, <2>5 DEF LockInv, RingTypes
  <1>3. IntentBacks'
    BY Distinct DEF TriggerBegin, SetIntent, BeginInstall, LockInv, RingTypes, IntentBacks,
       NonterminalIntents, Nonterminal, management, RingCalls, Intents
  <1>4. ProposalBacks'
    BY Distinct DEF TriggerBegin, BeginInstall, vault, LockInv, RingTypes, ProposalBacks, management
  <1>5. OneIntent'
    BY Distinct DEF TriggerBegin, SetIntent, LockInv, RingTypes, OneIntent, NonterminalIntents,
       Nonterminal, Intents
  <1>6. TriggersLinked'
    BY Distinct DEF TriggerBegin, SetIntent, LockInv, RingTypes, TriggersLinked,
       RecoveryProposals, RingCalls, Intents
  <1> QED BY <1>1, <1>2, <1>3, <1>4, <1>5, <1>6 DEF LockInv, RingTypes, OneProposal,
     OpenMutatingIntents, HoldsSingleFlight, Target, ReconcilesAimed

LEMMA FinishIntentKeeps ==
    ASSUME LockInv, NEW p \in Intents, FinishIntent(p)
    PROVE  LockInv'
  <1>1. UNCHANGED <<outcome, awaiting, evidence>>
    BY DEF FinishIntent, SetIntent, vault, network
  <1>2. RingTypes'
    BY Distinct DEF FinishIntent, SetIntent, vault, LockInv, RingTypes, Outcomes, Answers,
       Terminal, Nonterminal, RingCalls, Intents, Upgrades
  <1>3. IntentBacks'
    BY Distinct DEF FinishIntent, SetIntent, LockInv, RingTypes, IntentBacks, RingCalls, Intents,
       Upgrades
  <1>4. ProposalBacks'
    BY Distinct DEF FinishIntent, vault, LockInv, RingTypes, ProposalBacks, Intents, Upgrades
  <1>5. OneIntent'
    BY Distinct DEF FinishIntent, SetIntent, LockInv, RingTypes, OneIntent, NonterminalIntents,
       Nonterminal, IntentBacks, Intents
  <1>6. TriggersLinked'
    BY Distinct DEF FinishIntent, SetIntent, LockInv, RingTypes, TriggersLinked,
       RecoveryProposals, RingCalls, Intents
  <1> QED BY <1>1, <1>2, <1>3, <1>4, <1>5, <1>6 DEF LockInv, RingTypes, OneProposal,
     OpenMutatingIntents, HoldsSingleFlight, Target, ReconcilesAimed

(* A recovery proposal is closed with the answer its install gave.         *)
LEMMA RefreshDoneKeeps ==
    ASSUME LockInv, NEW p \in RingCalls \cup Triggers, RefreshDone(p)
    PROVE  LockInv'
  <1>1. UNCHANGED <<outcome, awaiting, intent, evidence, installing, result>>
    BY DEF RefreshDone, vault, management
  <1>2. RingTypes'
    BY Distinct DEF RefreshDone, vault, management, LockInv, RingTypes, Outcomes, Answers,
       Terminal, Nonterminal, TriggersLinked, NotServing, RecoveryProposals, RingCalls
  <1>3. IntentBacks'
    BY Distinct DEF RefreshDone, management, LockInv, RingTypes, IntentBacks, NotServing, RingCalls
  <1>4. TriggersLinked'
    BY Distinct DEF RefreshDone, LockInv, RingTypes, TriggersLinked, NotServing,
       RecoveryProposals, RingCalls, Intents
  <1> QED BY <1>1, <1>2, <1>3, <1>4 DEF LockInv, RingTypes, ProposalBacks, OneIntent,
     NonterminalIntents, Nonterminal, OneProposal, OpenMutatingIntents, HoldsSingleFlight, Target,
     ReconcilesAimed

LEMMA ReconcileForVaultKeeps ==
    ASSUME LockInv, NEW p \in VaultReconciles, ReconcileForVault(p)
    PROVE  LockInv'
  <1>1. UNCHANGED <<outcome, awaiting, evidence, installing, result>>
    BY DEF ReconcileForVault, SetIntent, Acceptable, Decision, vault, management
  <1>2. RingTypes'
    BY Distinct DEF ReconcileForVault, SetIntent, Acceptable, Decision, vault, management,
       LockInv, RingTypes, Outcomes, Answers, Terminal, Nonterminal, RingCalls, Intents
  <1>3. IntentBacks'
    BY Distinct DEF ReconcileForVault, SetIntent, Acceptable, Decision, management, LockInv,
       RingTypes, IntentBacks, RingCalls, Intents
  <1>4. OneIntent'
    BY Distinct DEF ReconcileForVault, SetIntent, Acceptable, Decision, LockInv, RingTypes,
       OneIntent, NonterminalIntents, Nonterminal, Intents
  <1>5. TriggersLinked'
    BY Distinct DEF ReconcileForVault, SetIntent, Acceptable, Decision, LockInv, RingTypes,
       TriggersLinked, RecoveryProposals, RingCalls, Intents
  <1> QED BY <1>1, <1>2, <1>3, <1>4, <1>5 DEF LockInv, RingTypes, ProposalBacks, OneProposal,
     OpenMutatingIntents, HoldsSingleFlight, Target, ReconcilesAimed

LEMMA ProposeTriggerKeeps ==
    ASSUME LockInv, NEW p \in Triggers, ProposeTrigger(p)
    PROVE  LockInv'
  <1>1. UNCHANGED <<outcome, awaiting, evidence, installing, result>>
    BY DEF ProposeTrigger, SetIntent, Recorded, vault, network
  <1>2. RingTypes'
    BY Distinct DEF ProposeTrigger, SetIntent, vault, LockInv, RingTypes, Outcomes, Answers,
       Terminal, Nonterminal, RecoveryProposals, Intents
  <1>3. IntentBacks'
    BY Distinct DEF ProposeTrigger, SetIntent, LockInv, RingTypes, IntentBacks,
       NonterminalIntents, Nonterminal, Intents
  <1>4. OneIntent'
    BY Distinct DEF ProposeTrigger, SetIntent, LockInv, RingTypes, OneIntent, NonterminalIntents,
       Nonterminal, Intents
  <1>5. TriggersLinked'
    BY Distinct DEF ProposeTrigger, SetIntent, LockInv, RingTypes, TriggersLinked,
       RecoveryProposals, RingCalls, Intents
  <1> QED BY <1>1, <1>2, <1>3, <1>4, <1>5 DEF LockInv, RingTypes, ProposalBacks, OneProposal,
     OpenMutatingIntents, HoldsSingleFlight, Target, ReconcilesAimed

(* A trigger of the members: its pending intent kept all others out.       *)
LEMMA ApproveTriggerKeeps ==
    ASSUME LockInv, NEW p \in Triggers, ApproveTrigger(p)
    PROVE  LockInv'
  <1>1. UNCHANGED <<outcome, awaiting, evidence>>
    BY DEF ApproveTrigger, SetIntent, BeginInstall, Recorded, vault, network
  <1>2. RingTypes'
    BY Distinct DEF ApproveTrigger, SetIntent, BeginInstall, vault, LockInv, RingTypes, Outcomes,
       Answers, Terminal, Nonterminal, RecoveryProposals, RingCalls, Intents
  <1>3. IntentBacks'
    BY Distinct DEF ApproveTrigger, SetIntent, BeginInstall, LockInv, RingTypes, IntentBacks,
       TriggersLinked, RingCalls, Intents
  <1>4. ProposalBacks'
    BY Distinct DEF ApproveTrigger, BeginInstall, vault, LockInv, RingTypes, ProposalBacks
  <1>5. OneIntent'
    BY Distinct DEF ApproveTrigger, SetIntent, LockInv, RingTypes, OneIntent, NonterminalIntents,
       Nonterminal, Intents
  <1>6. TriggersLinked'
    BY Distinct DEF ApproveTrigger, SetIntent, LockInv, RingTypes, TriggersLinked,
       RecoveryProposals, RingCalls, Intents
  <1> QED BY <1>1, <1>2, <1>3, <1>4, <1>5, <1>6 DEF LockInv, RingTypes, OneProposal,
     OpenMutatingIntents, HoldsSingleFlight, Target, ReconcilesAimed

LEMMA ProposeRecoveryReconcileKeeps ==
    ASSUME LockInv, NEW p \in RecoveryReconciles, NEW k \in Intents, ProposeRecoveryReconcile(p, k)
    PROVE  LockInv'
  <1>1. UNCHANGED <<outcome, awaiting, intent, serving, installing, result>>
    BY DEF ProposeRecoveryReconcile, Observe, vault, network, management
  <1>2. RingTypes'
    BY Distinct DEF ProposeRecoveryReconcile, Observe, vault, management, LockInv, RingTypes,
       Outcomes, Answers, Terminal, Nonterminal, RecoveryProposals, Reconciles
  <1>3. TriggersLinked'
    BY Distinct DEF ProposeRecoveryReconcile, LockInv, RingTypes, TriggersLinked,
       RecoveryProposals, RingCalls, Intents
  <1>4. ReconcilesAimed'
    BY Distinct DEF ProposeRecoveryReconcile, Observe, vault, LockInv, RingTypes, ReconcilesAimed,
       Reconciles
  <1> QED BY <1>1, <1>2, <1>3, <1>4 DEF LockInv, RingTypes, IntentBacks, ProposalBacks, OneIntent,
     NonterminalIntents, Nonterminal, OneProposal, OpenMutatingIntents, HoldsSingleFlight, Target

LEMMA ApproveRecoveryReconcileKeeps ==
    ASSUME LockInv, NEW p \in RecoveryReconciles, ApproveRecoveryReconcile(p)
    PROVE  LockInv'
  <1>1. UNCHANGED <<outcome, awaiting, installing, result>>
    BY DEF ApproveRecoveryReconcile, SetIntent, Acceptable, Decision, Ended, vault, network,
       management
  <1>2. RingTypes'
    BY Distinct DEF ApproveRecoveryReconcile, SetIntent, Acceptable, Decision, Ended, vault,
       management, LockInv, RingTypes, Outcomes, Answers, Terminal, Nonterminal,
       RecoveryProposals, Intents, Reconciles
  <1>3. IntentBacks'
    BY Distinct DEF ApproveRecoveryReconcile, SetIntent, Acceptable, Decision, management,
       LockInv, RingTypes, IntentBacks, Intents
  <1>4. OneIntent'
    BY Distinct DEF ApproveRecoveryReconcile, SetIntent, Acceptable, Decision, LockInv, RingTypes,
       OneIntent, NonterminalIntents, Nonterminal, Intents
  <1>5. TriggersLinked'
    BY Distinct DEF ApproveRecoveryReconcile, SetIntent, Acceptable, Decision, LockInv, RingTypes,
       TriggersLinked, RecoveryProposals, RingCalls, Intents
  <1>6. ReconcilesAimed'
    BY Distinct DEF ApproveRecoveryReconcile, Decision, Ended, vault, LockInv, RingTypes,
       ReconcilesAimed, Reconciles
  <1> QED BY <1>1, <1>2, <1>3, <1>4, <1>5, <1>6 DEF LockInv, RingTypes, ProposalBacks,
     OneProposal, OpenMutatingIntents, HoldsSingleFlight, Target

(* What is still pending has no install.                                   *)
LEMMA WithdrawRecoveryKeeps ==
    ASSUME LockInv, NEW p \in RecoveryProposals, WithdrawRecovery(p)
    PROVE  LockInv'
  <1>1. UNCHANGED <<outcome, awaiting, installing, result>>
    BY DEF WithdrawRecovery, SetIntent, Ended, vault, network, management
  <1>2. RingTypes'
    BY Distinct DEF WithdrawRecovery, SetIntent, Ended, vault, management, LockInv, RingTypes,
       Outcomes, Answers, Terminal, Nonterminal, RecoveryProposals, Intents, Reconciles
  <1>3. IntentBacks'
    BY Distinct DEF WithdrawRecovery, SetIntent, management, LockInv, RingTypes, IntentBacks,
       TriggersLinked, Intents
  <1>4. OneIntent'
    BY Distinct DEF WithdrawRecovery, SetIntent, LockInv, RingTypes, OneIntent,
       NonterminalIntents, Nonterminal, Intents
  <1>5. TriggersLinked'
    BY Distinct DEF WithdrawRecovery, SetIntent, LockInv, RingTypes, TriggersLinked,
       RecoveryProposals, RingCalls, Intents
  <1>6. ReconcilesAimed'
    BY Distinct DEF WithdrawRecovery, Ended, vault, LockInv, RingTypes, ReconcilesAimed, Reconciles
  <1> QED BY <1>1, <1>2, <1>3, <1>4, <1>5, <1>6 DEF LockInv, RingTypes, ProposalBacks,
     OneProposal, OpenMutatingIntents, HoldsSingleFlight, Target

(* A rotation fails only pending intents, which have no install.           *)
LEMMA RotateKeeps ==
    ASSUME LockInv, Rotate
    PROVE  LockInv'
  <1>1. UNCHANGED <<outcome, awaiting, installing, result>>
    BY DEF Rotate, vault, network, management
  <1>2. RingTypes'
    BY Distinct DEF Rotate, vault, management, LockInv, RingTypes, Outcomes, Answers, Terminal,
       Nonterminal, RecoveryProposals, Intents, Reconciles
  <1>3. IntentBacks'
    BY Distinct DEF Rotate, management, LockInv, RingTypes, IntentBacks, TriggersLinked, Intents
  <1>4. OneIntent'
    BY Distinct DEF Rotate, LockInv, RingTypes, OneIntent, NonterminalIntents, Nonterminal, Intents
  <1>5. TriggersLinked'
    BY Distinct DEF Rotate, LockInv, RingTypes, TriggersLinked, RecoveryProposals, RingCalls,
       Intents
  <1>6. ReconcilesAimed'
    BY Distinct DEF Rotate, vault, LockInv, RingTypes, ReconcilesAimed, Reconciles
  <1> QED BY <1>1, <1>2, <1>3, <1>4, <1>5, <1>6 DEF LockInv, RingTypes, ProposalBacks,
     OneProposal, OpenMutatingIntents, HoldsSingleFlight, Target

(* The install ends; whoever asked for it may have been upgraded away.     *)
LEMMA InstallLandsKeeps ==
    ASSUME LockInv, NEW p \in Upgrades, InstallLands(p)
    PROVE  LockInv'
  <1>1. UNCHANGED <<outcome, intent>>
    BY DEF InstallLands, Target, HasCaller, VaultUpgraded, UpgraderUpgraded, ServedCallsFail,
       NotServing
  <1>2. RingTypes'
    BY Distinct DEF InstallLands, Target, HasCaller, VaultUpgraded, UpgraderUpgraded,
       ServedCallsFail, NotServing, LockInv, RingTypes, Outcomes, Answers, Terminal, Nonterminal,
       RingCalls, Intents, Upgrades
  <1>3. IntentBacks'
    BY Distinct DEF InstallLands, Target, HasCaller, VaultUpgraded, UpgraderUpgraded,
       ServedCallsFail, NotServing, LockInv, RingTypes, IntentBacks, RingCalls, Intents, Upgrades
  <1>4. ProposalBacks'
    BY Distinct DEF InstallLands, Target, HasCaller, VaultUpgraded, UpgraderUpgraded,
       ServedCallsFail, LockInv, RingTypes, ProposalBacks, Intents, Upgrades
  <1>5. TriggersLinked'
    BY Distinct DEF InstallLands, Target, VaultUpgraded, UpgraderUpgraded, ServedCallsFail,
       NotServing, LockInv, RingTypes, TriggersLinked, RecoveryProposals, RingCalls, Intents
  <1>6. ReconcilesAimed'
    BY Distinct DEF InstallLands, Target, VaultUpgraded, UpgraderUpgraded, ServedCallsFail,
       LockInv, RingTypes, ReconcilesAimed
  <1> QED BY <1>1, <1>2, <1>3, <1>4, <1>5, <1>6 DEF LockInv, RingTypes, OneIntent,
     NonterminalIntents, Nonterminal, OneProposal, OpenMutatingIntents, HoldsSingleFlight, Target

LEMMA InstallRejectedKeeps ==
    ASSUME LockInv, NEW p \in Upgrades, InstallRejected(p)
    PROVE  LockInv'
  <1>1. UNCHANGED <<outcome, awaiting, intent, recovery, serving, evidence>>
    BY DEF InstallRejected, HasCaller, vault, upgrader
  <1>2. RingTypes'
    BY Distinct DEF InstallRejected, HasCaller, vault, upgrader, LockInv, RingTypes, Outcomes,
       Answers, Terminal, Nonterminal, Intents, Upgrades
  <1>3. IntentBacks'
    BY Distinct DEF InstallRejected, HasCaller, upgrader, LockInv, RingTypes, IntentBacks,
       Intents, Upgrades
  <1>4. ProposalBacks'
    BY Distinct DEF InstallRejected, HasCaller, vault, LockInv, RingTypes, ProposalBacks, Intents,
       Upgrades
  <1> QED BY <1>1, <1>2, <1>3, <1>4 DEF LockInv, RingTypes, OneIntent, NonterminalIntents,
     Nonterminal, OneProposal, OpenMutatingIntents, HoldsSingleFlight, Target, TriggersLinked,
     ReconcilesAimed

LEMMA RequestLostKeeps ==
    ASSUME LockInv, RequestLost
    PROVE  LockInv'
  <1>1. UNCHANGED <<outcome, awaiting, intent, recovery, serving, evidence, installing, result>>
    BY DEF RequestLost, vault, upgrader, management
  <1> QED BY <1>1 DEF LockInv, RingTypes, Outcomes, Answers, Terminal, Nonterminal, IntentBacks,
     ProposalBacks, OneIntent, NonterminalIntents, OneProposal, OpenMutatingIntents,
     HoldsSingleFlight, Target, TriggersLinked, ReconcilesAimed

-----------------------------------------------------------------------------
LEMMA InitLocked == Init => LockInv
  <1> SUFFICES ASSUME Init PROVE LockInv
    OBVIOUS
  <1>1. RingTypes
    BY DEF Init, RingTypes, Outcomes, Answers, Terminal, Nonterminal, NotServing, RingCalls,
       VaultProposals, RecoveryProposals
  <1>2. \A k \in RingCalls \cup Triggers : serving[k].at = "none"
    BY DEF Init, NotServing
  <1>3. IntentBacks /\ OneIntent /\ TriggersLinked
    BY <1>2 DEF Init, IntentBacks, OneIntent, NonterminalIntents, Nonterminal, TriggersLinked,
       Intents, Upgrades, RecoveryProposals, RingCalls
  <1>4. ProposalBacks /\ OneProposal /\ ReconcilesAimed
    BY DEF Init, ProposalBacks, OneProposal, OpenMutatingIntents, HoldsSingleFlight,
       ReconcilesAimed, VaultProposals, Upgrades
  <1> QED BY <1>1, <1>3, <1>4 DEF LockInv

LEMMA StutterKeeps == LockInv /\ UNCHANGED vars => LockInv'
  BY DEF LockInv, vars, vault, upgrader, management, RingTypes, IntentBacks, ProposalBacks,
     OneIntent, OneProposal, NonterminalIntents, OpenMutatingIntents, TriggersLinked,
     ReconcilesAimed

LEMMA NextLocked == LockInv /\ [Next]_vars => LockInv'
  <1> SUFFICES ASSUME LockInv, [Next]_vars PROVE LockInv'
    OBVIOUS
  <1>1. CASE VaultStep
    BY <1>1, ProposeUpgradeKeeps, WithdrawKeeps, ApproveVaultUpgradeKeeps, VaultUpgradeReplyKeeps,
       ApproveUpgraderUpgradeKeeps, UpgraderUpgradeReplyKeeps, ProposeVaultReconcileKeeps,
       ApproveVaultReconcileKeeps, VaultReconcileReplyKeeps, ProposeUpgraderReconcileKeeps,
       ApproveUpgraderReconcileKeeps DEF VaultStep
  <1>2. CASE UpgraderStep
    BY <1>2, TriggerBeginKeeps, FinishIntentKeeps, RefreshDoneKeeps, ReconcileForVaultKeeps,
       ProposeTriggerKeeps, ApproveTriggerKeeps, ProposeRecoveryReconcileKeeps,
       ApproveRecoveryReconcileKeeps, WithdrawRecoveryKeeps, RotateKeeps DEF UpgraderStep
  <1>3. CASE PlatformStep
    BY <1>3, InstallLandsKeeps, InstallRejectedKeeps, RequestLostKeeps DEF PlatformStep
  <1> QED BY <1>1, <1>2, <1>3, StutterKeeps DEF Next

LEMMA AtMostOne ==
    ASSUME NEW S, \A x, y \in S : x = y
    PROVE  Cardinality(S) <= 1
  <1>1. CASE S = {}
    BY <1>1, FS_EmptySet
  <1>2. CASE S # {}
    <2>1. PICK x \in S : S = {x}
      BY <1>2
    <2> QED BY <2>1, FS_Singleton
  <1> QED BY <1>1, <1>2

(* The inductive invariant of the lock.                                    *)
THEOREM LockInvariant == Spec => []LockInv
  BY InitLocked, NextLocked, PTL DEF Spec

(* While an install may still land, its proposal or intent holds the lock  *)
(* of the target, alone: trigger_begin, the recovery members' triggers,    *)
(* the single-flight recheck of the Vault and the hooks of an upgrade keep *)
(* it so for every number of each.                                         *)
THEOREM InstallHoldsLockAlways == Spec => []InstallHoldsLock
  <1>1. LockInv => InstallHoldsLock
    BY AtMostOne DEF LockInv, IntentBacks, ProposalBacks, OneIntent, OneProposal, InstallHoldsLock
  <1> QED BY <1>1, LockInvariant, PTL

-----------------------------------------------------------------------------
(***************************************************************************)
(* The calls between the two canisters.                                    *)
(***************************************************************************)
Listed(q, p) == \E i \in 1..Len(q) : q[i] = p
NoneTwice(q) == \A i, j \in 1..Len(q) : q[i] = q[j] => i = j

(* In q, no occurrence of b is behind one of a.                            *)
AheadOf(q, b, a) == \A i, j \in 1..Len(q) : q[i] = a /\ q[j] = b => j < i

LEMMA Pushed ==
    ASSUME NEW S, NEW q \in Seq(S), NEW x \in S, NoneTwice(q), ~Listed(q, x)
    PROVE  /\ Append(q, x) \in Seq(S) /\ NoneTwice(Append(q, x))
           /\ \A p : Listed(Append(q, x), p) <=> Listed(q, p) \/ p = x
           /\ \A a, b : AheadOf(q, b, a) /\ b # x => AheadOf(Append(q, x), b, a)
  <1> DEFINE w == Append(q, x)
  <1>1. w \in Seq(S) /\ Len(w) = Len(q) + 1 /\ Len(q) \in Nat
    OBVIOUS
  <1>2. \A i \in 1..Len(w) : w[i] = IF i \in 1..Len(q) THEN q[i] ELSE x
    OBVIOUS
  <1>3. \A i \in 1..Len(w) : i \notin 1..Len(q) => i = Len(q) + 1
    BY <1>1
  <1>4. Len(q) + 1 \in 1..Len(w) /\ Len(q) + 1 \notin 1..Len(q) /\ 1..Len(q) \subseteq 1..Len(w)
    BY <1>1
  <1>5. \A i \in 1..Len(q) : i < Len(q) + 1
    BY <1>1
  <1> HIDE DEF w
  <1>6. NoneTwice(w)
    BY <1>2, <1>3, <1>4 DEF NoneTwice, Listed
  <1>7. ASSUME NEW p PROVE Listed(w, p) <=> Listed(q, p) \/ p = x
    BY <1>2, <1>3, <1>4 DEF Listed
  <1>8. ASSUME NEW a, NEW b, AheadOf(q, b, a), b # x PROVE AheadOf(w, b, a)
    BY <1>2, <1>3, <1>4, <1>5, <1>8 DEF AheadOf
  <1> QED BY <1>1, <1>6, <1>7, <1>8 DEF w

LEMMA Popped ==
    ASSUME NEW S, NEW q \in Seq(S), q # <<>>, NoneTwice(q)
    PROVE  /\ Tail(q) \in Seq(S) /\ NoneTwice(Tail(q)) /\ Head(q) \in S
           /\ \A p : Listed(Tail(q), p) <=> Listed(q, p) /\ p # Head(q)
           /\ Listed(q, Head(q))
           /\ \A a, b : AheadOf(q, b, a) => AheadOf(Tail(q), b, a)
           /\ \A b : AheadOf(q, b, Head(q)) => ~Listed(q, b)
  <1> DEFINE w == Tail(q)
  <1>1. w \in Seq(S) /\ Len(w) = Len(q) - 1 /\ Len(q) \in Nat \ {0} /\ Head(q) = q[1] /\ q[1] \in S
    OBVIOUS
  <1>2. \A i \in 1..Len(w) : w[i] = q[i + 1] /\ i + 1 \in 1..Len(q) /\ i + 1 # 1 /\ i \in Int
    BY <1>1
  <1>3. \A i \in 1..Len(q) : i = 1 \/ (i - 1 \in 1..Len(w) /\ w[i - 1] = q[i])
    <2>1. \A i \in 1..Len(q) : i = 1 \/ (i - 1 \in 1..Len(w) /\ (i - 1) + 1 = i)
      BY <1>1
    <2> QED BY <2>1, <1>2
  <1>4. 1 \in 1..Len(q) /\ \A j \in 1..Len(q) : ~(j < 1)
    BY <1>1
  <1>5. \A i, j \in Int : (i + 1 = j + 1 <=> i = j) /\ (i + 1 < j + 1 <=> i < j)
    OBVIOUS
  <1> HIDE DEF w
  <1>6. NoneTwice(w)
    BY <1>2, <1>5 DEF NoneTwice
  <1>7. ASSUME NEW p PROVE Listed(w, p) <=> Listed(q, p) /\ p # q[1]
    BY <1>2, <1>3, <1>4 DEF Listed, NoneTwice
  <1>8. ASSUME NEW a, NEW b, AheadOf(q, b, a) PROVE AheadOf(w, b, a)
    BY <1>2, <1>5, <1>8 DEF AheadOf
  <1>9. ASSUME NEW b, AheadOf(q, b, q[1]) PROVE ~Listed(q, b)
    BY <1>4, <1>9 DEF AheadOf, Listed
  <1>10. Listed(q, q[1])
    BY <1>4 DEF Listed
  <1> QED BY <1>1, <1>6, <1>7, <1>8, <1>9, <1>10 DEF w

InQueue(p) == Listed(queue, p)
Busy(p) == serving[p] # NotServing
Quiet(p) == ~InQueue(p) /\ ~Busy(p) /\ reply[p] = None /\ p \notin awaiting

CallTypes ==
    /\ awaiting \subseteq VaultProposals /\ queue \in Seq(RingCalls)
    /\ reply \in [RingCalls -> Answers]

(* A call of the Vault is in one place: on its way, served or answered.    *)
OneCall(p) ==
    /\ InQueue(p) => ~Busy(p) /\ reply[p] = None
    /\ Busy(p) => reply[p] = None
    /\ reply[p] # None => p \in awaiting
    /\ outcome[p] \in {"none", "Pending"} => Quiet(p)

CallsInv == CallTypes /\ NoneTwice(queue) /\ \A p \in RingCalls : OneCall(p)

LEMMA ServingTyped ==
    ASSUME LockInv, NEW p \in RingCalls \cup Triggers
    PROVE  /\ serving[p] \in [at : {"none", "install", "refresh"}, answer : Answers]
           /\ serving[p].at # "none" => serving[p] # NotServing
  BY DEF LockInv, RingTypes, NotServing

(* Steps that leave the calls where they are.                              *)
CallsKept ==
    /\ UNCHANGED <<queue, reply>>
    /\ \A p \in RingCalls : serving'[p] = serving[p]
    /\ awaiting' \subseteq VaultProposals
    /\ \A p \in RingCalls : p \in awaiting' <=> p \in awaiting
    /\ \A p \in RingCalls :
          \/ outcome[p] \in {"none", "Pending"} \/ outcome'[p] = outcome[p]
          \/ outcome'[p] \notin {"none", "Pending"} \/ Quiet(p)

LEMMA KeptCalls == CallsInv /\ CallsKept => CallsInv'
  BY DEF CallsInv, CallsKept, CallTypes, OneCall, InQueue, Busy, Quiet, NotServing

(* The Vault sends a call.                                                 *)
LEMMA CalledCalls ==
    ASSUME LockInv, CallsInv, NEW p \in RingCalls, outcome[p] = "Pending", Call(p),
           UNCHANGED <<serving, reply>>
    PROVE  CallsInv'
  <1>1. Quiet(p)
    BY DEF CallsInv, OneCall
  <1>2. /\ queue' \in Seq(RingCalls) /\ NoneTwice(queue')
        /\ \A q : Listed(queue', q) <=> Listed(queue, q) \/ q = p
    BY <1>1, Pushed DEF CallsInv, CallTypes, Quiet, InQueue, Call
  <1>3. \A q \in RingCalls : outcome'[q] = IF q = p THEN "Executing" ELSE outcome[q]
    BY DEF Call, Finalize, LockInv, RingTypes, RingCalls, VaultProposals
  <1>4. awaiting' = awaiting \cup {p} /\ p \in VaultProposals
    BY DEF Call, RingCalls, VaultProposals
  <1>5. ASSUME NEW q \in RingCalls PROVE OneCall(q)'
    BY <1>1, <1>2, <1>3, <1>4 DEF CallsInv, OneCall, InQueue, Busy, Quiet, NotServing
  <1> QED BY <1>2, <1>4, <1>5 DEF CallsInv, CallTypes

(* The Vault hears the answer of a call.                                   *)
LEMMA HeardCalls ==
    ASSUME LockInv, CallsInv, NEW p \in RingCalls, reply[p] # None, Resume(p),
           reply' = [reply EXCEPT ![p] = None], UNCHANGED <<serving, queue>>,
           \A q \in RingCalls : q = p \/ outcome'[q] = outcome[q] \/ outcome'[q] \notin {"none", "Pending"}
    PROVE  CallsInv'
  <1>1. ~InQueue(p) /\ ~Busy(p)
    BY DEF CallsInv, OneCall
  <1>2. reply' \in [RingCalls -> Answers] /\ \A q \in RingCalls : reply'[q] = IF q = p THEN None ELSE reply[q]
    BY DEF CallsInv, CallTypes, Answers
  <1>3. ASSUME NEW q \in RingCalls PROVE OneCall(q)'
    BY <1>1, <1>2 DEF CallsInv, OneCall, InQueue, Busy, Quiet, NotServing, Resume
  <1> QED BY <1>2, <1>3 DEF CallsInv, CallTypes, Resume

(* A call leaves the queue: it is served, answered at once, or lost.       *)
LEMMA TakenCalls ==
    ASSUME LockInv, CallsInv, queue # <<>>, queue' = Tail(queue), NEW p, p = Head(queue),
           UNCHANGED <<outcome, awaiting>>,
           \A q \in RingCalls : q # p => serving'[q] = serving[q],
           \/ UNCHANGED reply
           \/ UNCHANGED serving /\ \E a \in Answers : Answer(p, a)
    PROVE  CallsInv'
  <1>1. /\ queue' \in Seq(RingCalls) /\ NoneTwice(queue') /\ p \in RingCalls
        /\ \A q : Listed(queue', q) <=> Listed(queue, q) /\ q # p
        /\ InQueue(p)
    BY Popped DEF CallsInv, CallTypes, InQueue
  <1>2. reply' \in [RingCalls -> Answers]
    BY <1>1 DEF CallsInv, CallTypes, Answer, Answers
  <1>3. \A q \in RingCalls : q # p => reply'[q] = reply[q]
    BY <1>1 DEF CallsInv, CallTypes, Answer
  <1>4. reply'[p] # None => p \in awaiting /\ UNCHANGED serving
    BY <1>1 DEF CallsInv, CallTypes, Answer, OneCall
  <1>5. ~Busy(p) /\ outcome[p] \notin {"none", "Pending"} /\ reply[p] = None
    BY <1>1 DEF CallsInv, OneCall, Quiet
  <1>6. ASSUME NEW q \in RingCalls PROVE OneCall(q)'
    <2>1. CASE q = p
      BY <2>1, <1>1, <1>4, <1>5 DEF CallsInv, OneCall, InQueue, Busy, Quiet, NotServing
    <2>2. CASE q # p
      BY <2>2, <1>1, <1>3 DEF CallsInv, OneCall, InQueue, Busy, Quiet, NotServing
    <2> QED BY <2>1, <2>2
  <1> QED BY <1>1, <1>2, <1>6 DEF CallsInv, CallTypes

(* A served call is answered.                                              *)
LEMMA AnsweredCalls ==
    ASSUME LockInv, CallsInv, NEW p \in RingCalls, Busy(p),
           serving' = [serving EXCEPT ![p] = NotServing], Answer(p, serving[p].answer),
           UNCHANGED <<outcome, awaiting, queue>>
    PROVE  CallsInv'
  <1>1. /\ reply' \in [RingCalls -> Answers]
        /\ \A q \in RingCalls : q # p => reply'[q] = reply[q]
        /\ reply'[p] # None => p \in awaiting
    BY ServingTyped DEF CallsInv, CallTypes, Answer, Answers
  <1>2. \A q \in RingCalls : serving'[q] = IF q = p THEN NotServing ELSE serving[q]
    BY DEF LockInv, RingTypes
  <1>3. ASSUME NEW q \in RingCalls PROVE OneCall(q)'
    BY <1>1, <1>2 DEF CallsInv, OneCall, InQueue, Busy, Quiet, NotServing
  <1> QED BY <1>1, <1>3 DEF CallsInv, CallTypes

(* An upgrade of the Vault drops its callbacks, and with them the answers. *)
LEMMA DroppedCalls ==
    ASSUME LockInv, CallsInv, VaultUpgraded, UNCHANGED queue
    PROVE  CallsInv'
  BY DEF CallsInv, CallTypes, Answers, VaultUpgraded, OneCall, InQueue, Busy, Quiet, NotServing

(* An upgrade of the Upgrader cuts off the calls it is serving.            *)
LEMMA CutCalls ==
    ASSUME LockInv, CallsInv, ServedCallsFail, UNCHANGED queue
    PROVE  CallsInv'
  <1>1. \A q \in RingCalls : /\ serving'[q] = NotServing
                             /\ reply'[q] = IF Busy(q) /\ q \in awaiting THEN "transport" ELSE reply[q]
    BY DEF ServedCallsFail, Busy
  <1>2. reply' \in [RingCalls -> Answers]
    BY DEF CallsInv, CallTypes, Answers, ServedCallsFail
  <1>3. ASSUME NEW q \in RingCalls PROVE OneCall(q)'
    BY <1>1 DEF CallsInv, ServedCallsFail, OneCall, InQueue, Busy, Quiet, NotServing
  <1> QED BY <1>2, <1>3 DEF CallsInv, CallTypes, ServedCallsFail

LEMMA VaultStepCalls ==
    ASSUME LockInv, CallsInv, VaultStep
    PROVE  CallsInv'
  <1> USE Distinct
  <1>1. ASSUME NEW p \in VaultUpgrades \cup UpgraderUpgrades, ProposeUpgrade(p) PROVE CallsInv'
    <2>1. CallsKept
      BY <1>1 DEF ProposeUpgrade, Finalize, upgrader, network, CallsKept, CallsInv, CallTypes,
         OneCall, LockInv, RingTypes, RingCalls, VaultProposals
    <2> QED BY <2>1, KeptCalls
  <1>2. ASSUME NEW p \in VaultProposals, Withdraw(p) PROVE CallsInv'
    <2>1. CallsKept
      BY <1>2 DEF Withdraw, Finalize, upgrader, network, CallsKept, CallsInv, CallTypes,
         OneCall, LockInv, RingTypes, RingCalls, VaultProposals
    <2> QED BY <2>1, KeptCalls
  <1>3. ASSUME NEW v \in VaultUpgrades, ApproveVaultUpgrade(v) PROVE CallsInv'
    <2>1. UNCHANGED <<serving, reply>>
      BY <1>3 DEF ApproveVaultUpgrade, upgrader
    <2>2. ASSUME Call(v) PROVE CallsInv'
      BY <1>3, <2>1, <2>2, CalledCalls DEF ApproveVaultUpgrade, RingCalls
    <2>3. ASSUME Finalize(v, "Failed"), UNCHANGED <<awaiting, queue>> PROVE CallsInv'
      <3>1. CallsKept
        BY <2>1, <2>3 DEF Finalize, CallsKept, CallsInv, CallTypes, LockInv, RingTypes,
           RingCalls, VaultProposals
      <3> QED BY <3>1, KeptCalls
    <2> QED BY <1>3, <2>2, <2>3 DEF ApproveVaultUpgrade
  <1>4. ASSUME NEW v \in VaultUpgrades, VaultUpgradeReply(v) PROVE CallsInv'
    <2>1. \A q \in RingCalls : q = v \/ outcome'[q] = outcome[q]
      BY <1>4 DEF VaultUpgradeReply, Finalize, LockInv, RingTypes, RingCalls, VaultProposals
    <2>2. UNCHANGED <<serving, queue>>
      BY <1>4 DEF VaultUpgradeReply, upgrader
    <2>3. v \in RingCalls /\ outcome'[v] \notin {"none", "Pending"}
      BY <1>4 DEF VaultUpgradeReply, Finalize, LockInv, RingTypes, RingCalls, VaultProposals
    <2> QED BY <1>4, <2>1, <2>2, <2>3, HeardCalls DEF VaultUpgradeReply
  <1>5. ASSUME NEW u \in UpgraderUpgrades, ApproveUpgraderUpgrade(u) \/ UpgraderUpgradeReply(u)
        PROVE  CallsInv'
    <2>1. CallsKept
      BY <1>5 DEF ApproveUpgraderUpgrade, UpgraderUpgradeReply, Finalize, Resume, upgrader,
         network, CallsKept, CallsInv, CallTypes, LockInv, RingTypes, RingCalls, VaultProposals
    <2> QED BY <2>1, KeptCalls
  <1>6. ASSUME NEW r \in VaultReconciles, ProposeVaultReconcile(r) PROVE CallsInv'
    <2>1. Quiet(r)
      BY <1>6 DEF ProposeVaultReconcile, ProposeReconcileVaultUpgrade, SlotFree, Quiet, InQueue,
         Listed, Busy, CallsInv, OneCall, RingCalls
    <2>2. CallsKept
      BY <1>6, <2>1 DEF ProposeVaultReconcile, ProposeReconcileVaultUpgrade, Finalize, upgrader,
         network, CallsKept, CallsInv, CallTypes, LockInv, RingTypes, RingCalls, VaultProposals
    <2> QED BY <2>2, KeptCalls
  <1>7. ASSUME NEW r \in VaultReconciles, ApproveVaultReconcile(r) PROVE CallsInv'
    <2>1. UNCHANGED <<serving, reply>>
      BY <1>7 DEF ApproveVaultReconcile, upgrader
    <2>2. ASSUME Call(r) PROVE CallsInv'
      BY <1>7, <2>1, <2>2, CalledCalls DEF ApproveVaultReconcile, RingCalls
    <2>3. ASSUME Finalize(r, "none"), UNCHANGED <<awaiting, queue>> PROVE CallsInv'
      <3>1. CallsKept
        BY <1>7, <2>1, <2>3 DEF ApproveVaultReconcile, Finalize, CallsKept, CallsInv, CallTypes,
           LockInv, RingTypes, RingCalls, VaultProposals
      <3> QED BY <3>1, KeptCalls
    <2> QED BY <1>7, <2>2, <2>3 DEF ApproveVaultReconcile
  <1>8. ASSUME NEW r \in VaultReconciles, VaultReconcileReply(r) PROVE CallsInv'
    <2>1. \A q \in RingCalls : q = r \/ outcome'[q] = outcome[q] \/ outcome'[q] \notin {"none", "Pending"}
      BY <1>8 DEF VaultReconcileReply, Finalize, LockInv, RingTypes, RingCalls, VaultProposals
    <2>2. UNCHANGED <<serving, queue>>
      BY <1>8 DEF VaultReconcileReply, upgrader
    <2> QED BY <1>8, <2>1, <2>2, HeardCalls DEF VaultReconcileReply, RingCalls
  <1>9. ASSUME NEW r \in UpgraderReconciles, ProposeUpgraderReconcile(r) \/ ApproveUpgraderReconcile(r)
        PROVE  CallsInv'
    <2>1. CallsKept
      BY <1>9 DEF ProposeUpgraderReconcile, ProposeReconcileUpgraderUpgrade,
         ApproveUpgraderReconcile, Finalize, upgrader, network, CallsKept, CallsInv, CallTypes,
         LockInv, RingTypes, ReconcilesAimed, RingCalls, VaultProposals
    <2> QED BY <2>1, KeptCalls
  <1> QED BY <1>1, <1>2, <1>3, <1>4, <1>5, <1>6, <1>7, <1>8, <1>9 DEF VaultStep

LEMMA UpgraderStepCalls ==
    ASSUME LockInv, CallsInv, UpgraderStep
    PROVE  CallsInv'
  <1> USE Distinct
  <1>1. ASSUME NEW v \in VaultUpgrades, TriggerBegin(v) PROVE CallsInv'
    <2>1. queue # <<>> /\ v = Head(queue) /\ queue' = Tail(queue) /\ UNCHANGED <<outcome, awaiting>>
      BY <1>1 DEF TriggerBegin, vault
    <2>2. \A q \in RingCalls : q # v => serving'[q] = serving[q]
      BY <1>1 DEF TriggerBegin, LockInv, RingTypes
    <2>3. UNCHANGED reply \/ (UNCHANGED serving /\ Answer(v, "refused"))
      BY <1>1 DEF TriggerBegin
    <2> QED BY <2>1, <2>2, <2>3, TakenCalls DEF Answers
  <1>2. ASSUME NEW k \in Intents, FinishIntent(k) PROVE CallsInv'
    <2>1. UNCHANGED <<outcome, awaiting, queue, reply>>
      BY <1>2 DEF FinishIntent, vault, network
    <2>2. CASE k \in RingCalls
      <3>1. Busy(k)
        BY <1>2, <2>2, ServingTyped DEF FinishIntent, Busy
      <3>2. \A q \in RingCalls : q # k => serving'[q] = serving[q]
        BY <1>2 DEF FinishIntent, LockInv, RingTypes
      <3> QED BY <2>1, <3>1, <3>2 DEF CallsInv, CallTypes, OneCall, InQueue, Busy, Quiet, NotServing
    <2>3. CASE k \notin RingCalls
      <3>1. \A q \in RingCalls : serving'[q] = serving[q]
        BY <1>2, <2>3 DEF FinishIntent, LockInv, RingTypes
      <3>2. CallsKept
        BY <2>1, <3>1 DEF CallsKept, CallsInv, CallTypes
      <3> QED BY <3>2, KeptCalls
    <2> QED BY <2>2, <2>3
  <1>3. ASSUME NEW k \in RingCalls \cup Triggers, RefreshDone(k) PROVE CallsInv'
    <2>1. UNCHANGED <<outcome, awaiting, queue>> /\ serving' = [serving EXCEPT ![k] = NotServing]
      BY <1>3 DEF RefreshDone, vault
    <2>2. CASE k \in RingCalls
      <3>1. Busy(k)
        BY <1>3, <2>2, ServingTyped DEF RefreshDone, Busy
      <3>2. Answer(k, serving[k].answer)
        BY <1>3, <2>2 DEF RefreshDone, RingCalls
      <3> QED BY <2>1, <2>2, <3>1, <3>2, AnsweredCalls
    <2>3. CASE k \notin RingCalls
      <3>1. \A q \in RingCalls : serving'[q] = serving[q]
        BY <2>1, <2>3 DEF LockInv, RingTypes
      <3>2. CallsKept
        BY <1>3, <2>1, <2>3, <3>1 DEF RefreshDone, CallsKept, CallsInv, CallTypes
      <3> QED BY <3>2, KeptCalls
    <2> QED BY <2>2, <2>3
  <1>4. ASSUME NEW r \in VaultReconciles, ReconcileForVault(r) PROVE CallsInv'
    <2>1. queue # <<>> /\ r = Head(queue) /\ queue' = Tail(queue) /\ UNCHANGED <<outcome, awaiting>>
      BY <1>4 DEF ReconcileForVault, vault
    <2>2. \A q \in RingCalls : q # r => serving'[q] = serving[q]
      BY <1>4 DEF ReconcileForVault, LockInv, RingTypes
    <2>3. UNCHANGED reply \/ (UNCHANGED serving /\ \E a \in Answers : Answer(r, a))
      BY <1>4 DEF ReconcileForVault, Answers
    <2> QED BY <2>1, <2>2, <2>3, TakenCalls
  <1>5. ASSUME NEW t \in Triggers, ProposeTrigger(t) \/ ApproveTrigger(t) PROVE CallsInv'
    <2>1. CallsKept
      BY <1>5 DEF ProposeTrigger, ApproveTrigger, vault, network, CallsKept, CallsInv, CallTypes,
         LockInv, RingTypes, RingCalls
    <2> QED BY <2>1, KeptCalls
  <1>6. ASSUME NEW r \in RecoveryReconciles,
               (\E k \in Intents : ProposeRecoveryReconcile(r, k)) \/ ApproveRecoveryReconcile(r)
        PROVE  CallsInv'
    <2>1. CallsKept
      BY <1>6 DEF ProposeRecoveryReconcile, ApproveRecoveryReconcile, vault, network, CallsKept,
         CallsInv, CallTypes
    <2> QED BY <2>1, KeptCalls
  <1>7. ASSUME (\E p \in RecoveryProposals : WithdrawRecovery(p)) \/ Rotate PROVE CallsInv'
    <2>1. CallsKept
      BY <1>7 DEF WithdrawRecovery, Rotate, vault, network, CallsKept, CallsInv, CallTypes
    <2> QED BY <2>1, KeptCalls
  <1> QED BY <1>1, <1>2, <1>3, <1>4, <1>5, <1>6, <1>7 DEF UpgraderStep

LEMMA PlatformStepCalls ==
    ASSUME LockInv, CallsInv, PlatformStep
    PROVE  CallsInv'
  <1>1. ASSUME NEW k \in Upgrades, InstallLands(k) PROVE CallsInv'
    BY <1>1, DroppedCalls, CutCalls DEF InstallLands, UpgraderUpgraded
  <1>2. ASSUME NEW k \in Upgrades, InstallRejected(k) PROVE CallsInv'
    BY <1>2, KeptCalls DEF InstallRejected, vault, upgrader, network, CallsKept, CallsInv, CallTypes
  <1>3. ASSUME RequestLost PROVE CallsInv'
    <2> DEFINE p == Head(queue)
    <2>1. queue # <<>> /\ queue' = Tail(queue) /\ UNCHANGED <<outcome, awaiting, serving>>
      BY <1>3 DEF RequestLost, vault, upgrader
    <2>2. Answer(p, "transport")
      BY <1>3 DEF RequestLost
    <2>3. \E a \in Answers : Answer(p, a)
      BY <2>2 DEF Answers
    <2> HIDE DEF p
    <2> QED BY <2>1, <2>3, TakenCalls DEF p
  <1> QED BY <1>1, <1>2, <1>3 DEF PlatformStep

LEMMA NextCalls == LockInv /\ CallsInv /\ [Next]_vars => CallsInv'
  <1>1. CallsInv /\ UNCHANGED vars => CallsInv'
    BY KeptCalls DEF CallsKept, vars, vault, upgrader, network, CallsInv, CallTypes
  <1> QED BY <1>1, VaultStepCalls, UpgraderStepCalls, PlatformStepCalls DEF Next

LEMMA InitCalls == Init => CallsInv
  BY DEF Init, CallsInv, CallTypes, Answers, NoneTwice, OneCall, InQueue, Listed, Busy, Quiet,
     RingCalls, VaultProposals

(* A call of the Vault to the Upgrader is in one place.                    *)
THEOREM CallsInvariant == Spec => []CallsInv
  BY InitCalls, NextCalls, LockInvariant, PTL DEF Spec

-----------------------------------------------------------------------------
(***************************************************************************)
(* The types of the rest.                                                  *)
(***************************************************************************)
RestTypes ==
    /\ installing \subseteq Upgrades /\ module \in [Canisters -> Modules]
    /\ since \in [Upgrades -> SUBSET Modules]
    /\ evidence \in [Reconciles -> Observations \cup {None}] /\ faults \in 0..MaxFaults

LEMMA TargetRuns ==
    ASSUME RestTypes, NEW k \in Upgrades
    PROVE  Target(k) \in Canisters /\ module[Target(k)] \in Modules /\ Wasm[k] \in Modules
  BY DEF RestTypes, Target, Canisters, Modules

LEMMA RecordedTypes ==
    ASSUME RestTypes, NEW k \in Upgrades, Recorded(k)
    PROVE  since' \in [Upgrades -> SUBSET Modules]
  BY TargetRuns DEF RestTypes, Recorded

LEMMA ObservedTypes ==
    ASSUME RestTypes, NEW r \in Reconciles, NEW k \in Upgrades, Observe(r, k)
    PROVE  /\ evidence' \in [Reconciles -> Observations \cup {None}]
           /\ evidence'[r] \in Observations /\ evidence'[r] # None
  <1> DEFINE o == [of |-> k, module |-> module[Target(k)],
                   after |-> k \in Intents => intent[k] # "none"]
  <1>1. (k \in Intents => intent[k] # "none") \in BOOLEAN
    OBVIOUS
  <1>2. o \in Observations
    BY <1>1, TargetRuns DEF Observations
  <1>3. evidence' = [evidence EXCEPT ![r] = o]
    BY DEF Observe
  <1> HIDE DEF o
  <1> QED BY <1>2, <1>3, RingAssumption DEF RestTypes, RingAssumption

LEMMA EndedTypes ==
    ASSUME RestTypes, NEW r, Ended(r)
    PROVE  evidence' \in [Reconciles -> Observations \cup {None}]
  BY DEF RestTypes, Ended

LEMMA FaultTypes == RestTypes /\ Fault => faults' \in 0..MaxFaults
  BY RingAssumption DEF RestTypes, Fault, RingAssumption

LEMMA VaultStepTypes ==
    ASSUME LockInv, RestTypes, VaultStep
    PROVE  RestTypes'
  <1>1. UNCHANGED <<module, faults>>
    BY DEF VaultStep, ProposeUpgrade, Withdraw, ApproveVaultUpgrade, VaultUpgradeReply,
       ApproveUpgraderUpgrade, BeginInstall, UpgraderUpgradeReply, ProposeVaultReconcile,
       ProposeReconcileVaultUpgrade, ApproveVaultReconcile, VaultReconcileReply,
       ProposeUpgraderReconcile, ProposeReconcileUpgraderUpgrade, ApproveUpgraderReconcile,
       management
  <1>2. \/ UNCHANGED <<installing, since>>
        \/ \E k \in Upgrades : BeginInstall(k)
    BY DEF VaultStep, ProposeUpgrade, Withdraw, ApproveVaultUpgrade, VaultUpgradeReply,
       ApproveUpgraderUpgrade, UpgraderUpgradeReply, ProposeVaultReconcile,
       ProposeReconcileVaultUpgrade, ApproveVaultReconcile, VaultReconcileReply,
       ProposeUpgraderReconcile, ProposeReconcileUpgraderUpgrade, ApproveUpgraderReconcile,
       management, Upgrades
  <1>3. \/ UNCHANGED evidence
        \/ \E r : Ended(r)
        \/ \E r \in Reconciles : \E k \in Upgrades : Observe(r, k)
    BY DEF VaultStep, ProposeUpgrade, Withdraw, ApproveVaultUpgrade, VaultUpgradeReply,
       ApproveUpgraderUpgrade, UpgraderUpgradeReply, ProposeVaultReconcile,
       ProposeReconcileVaultUpgrade, ApproveVaultReconcile, VaultReconcileReply,
       ProposeUpgraderReconcile, ProposeReconcileUpgraderUpgrade, ApproveUpgraderReconcile,
       Reconciles, Upgrades, Intents
  <1>4. installing' \subseteq Upgrades /\ since' \in [Upgrades -> SUBSET Modules]
    BY <1>2, RecordedTypes DEF RestTypes, BeginInstall
  <1>5. evidence' \in [Reconciles -> Observations \cup {None}]
    BY <1>3, EndedTypes, ObservedTypes DEF RestTypes
  <1> QED BY <1>1, <1>4, <1>5 DEF RestTypes

LEMMA UpgraderStepTypes ==
    ASSUME LockInv, RestTypes, UpgraderStep
    PROVE  RestTypes'
  <1>1. UNCHANGED <<module, faults>>
    BY DEF UpgraderStep, TriggerBegin, FinishIntent, RefreshDone, ReconcileForVault,
       ProposeTrigger, ApproveTrigger, BeginInstall, ProposeRecoveryReconcile,
       ApproveRecoveryReconcile, WithdrawRecovery, Rotate, management
  <1>2. \/ UNCHANGED <<installing, since>>
        \/ \E k \in Upgrades : BeginInstall(k)
        \/ UNCHANGED installing /\ \E k \in Upgrades : Recorded(k)
    BY DEF UpgraderStep, TriggerBegin, FinishIntent, RefreshDone, ReconcileForVault,
       ProposeTrigger, ApproveTrigger, ProposeRecoveryReconcile, ApproveRecoveryReconcile,
       WithdrawRecovery, Rotate, management, network, Upgrades, Intents
  <1>3. \/ UNCHANGED evidence
        \/ \E r : Ended(r)
        \/ \E r \in Reconciles : \E k \in Upgrades : Observe(r, k)
        \/ Rotate
    BY DEF UpgraderStep, TriggerBegin, FinishIntent, RefreshDone, ReconcileForVault,
       ProposeTrigger, ApproveTrigger, ProposeRecoveryReconcile, ApproveRecoveryReconcile,
       WithdrawRecovery, Reconciles, Upgrades
  <1>4. installing' \subseteq Upgrades /\ since' \in [Upgrades -> SUBSET Modules]
    BY <1>2, RecordedTypes DEF RestTypes, BeginInstall
  <1>5. Rotate => evidence' \in [Reconciles -> Observations \cup {None}]
    BY DEF Rotate, RestTypes
  <1>6. evidence' \in [Reconciles -> Observations \cup {None}]
    BY <1>3, <1>5, EndedTypes, ObservedTypes DEF RestTypes
  <1> QED BY <1>1, <1>4, <1>6 DEF RestTypes

LEMMA PlatformStepTypes ==
    ASSUME LockInv, RestTypes, PlatformStep
    PROVE  RestTypes'
  <1>1. ASSUME NEW k \in Upgrades, InstallLands(k) PROVE RestTypes'
    <2>1. faults' \in 0..MaxFaults
      BY <1>1, FaultTypes DEF InstallLands, RestTypes
    <2>2. module' \in [Canisters -> Modules]
      BY <1>1, TargetRuns DEF InstallLands, RestTypes
    <2>3. since' \in [Upgrades -> SUBSET Modules]
      BY <1>1, TargetRuns DEF InstallLands, RestTypes
    <2> QED BY <1>1, <2>1, <2>2, <2>3 DEF InstallLands, RestTypes
  <1>2. ASSUME NEW k \in Upgrades, InstallRejected(k) PROVE RestTypes'
    BY <1>2, FaultTypes DEF InstallRejected, RestTypes
  <1>3. ASSUME RequestLost PROVE RestTypes'
    BY <1>3, FaultTypes DEF RequestLost, RestTypes, management
  <1> QED BY <1>1, <1>2, <1>3 DEF PlatformStep

LEMMA NextTypes == LockInv /\ RestTypes /\ [Next]_vars => RestTypes'
  <1>1. RestTypes /\ UNCHANGED vars => RestTypes'
    BY DEF RestTypes, vars, management
  <1> QED BY <1>1, VaultStepTypes, UpgraderStepTypes, PlatformStepTypes DEF Next

LEMMA InitTypes == Init => RestTypes
  BY RingAssumption DEF RingAssumption, Init, RestTypes

LEMMA RestTyped == Spec => []RestTypes
  BY InitTypes, NextTypes, LockInvariant, PTL DEF Spec

(* The types, and that a trigger of the recovery members is pending exactly*)
(* as long as its intent is, which a rotation of the members relies on.    *)
THEOREM TypesAlways == Spec => []TypeOK
  <1>1. LockInv /\ CallsInv /\ RestTypes => TypeOK
    BY DEF LockInv, RingTypes, TriggersLinked, CallsInv, CallTypes, RestTypes, TypeOK
  <1> QED BY <1>1, LockInvariant, CallsInvariant, RestTyped, PTL

-----------------------------------------------------------------------------
(***************************************************************************)
(* The two planes: what the Vault, the Upgrader and the messages between   *)
(* them hold of a Vault upgrade.                                           *)
(***************************************************************************)
Told(p, a) == reply[p] # None /\ reply[p] = a

(* What was said of v, and what the Vault made of it, still stands.        *)
UpgradeAgrees(v) ==
    /\ InQueue(v) \/ outcome[v] \in {"none", "Pending"} => intent[v] = "none"
    /\ serving[v].at = "refresh" => serving[v].answer \in {"Executed", "OutcomeUnknown"}
    /\ serving[v].at = "refresh" /\ serving[v].answer = "Executed" => intent[v] = "Executed"
    /\ reply[v] # None => reply[v] \in {"Executed", "OutcomeUnknown", "refused", "transport"}
    /\ Told(v, "Executed") => intent[v] = "Executed"
    /\ Told(v, "refused") => intent[v] = "none"
    /\ outcome[v] = "Executed" => intent[v] = "Executed"
    /\ outcome[v] = "Failed" => intent[v] = "Failed" \/ (intent[v] = "none" /\ ~InQueue(v))

Active(r) == outcome[r] = "Pending" \/ ~Quiet(r)

(* Of a reconciliation of v that is proposed or under way.  The request of *)
(* v is ahead of it, so an id that is unknown to it stays unknown.         *)
ReconcileAgrees(r, v) ==
    /\ evidence[r] # None /\ v \in VaultUpgrades /\ outcome[v] \notin {"none", "Pending"}
    /\ Busy(r) => /\ serving[r].at = "refresh" /\ serving[r].answer \in {"Executed", "Failed"}
                  /\ intent[v] = serving[r].answer
    /\ \A a \in {"Executed", "Failed"} : Told(r, a) => intent[v] = a
    /\ Told(r, "UnknownProposal") => intent[v] = "none" /\ ~InQueue(v)
    /\ AheadOf(queue, v, r)

PlaneInv ==
    /\ \A v \in VaultUpgrades : UpgradeAgrees(v)
    /\ \A r \in VaultReconciles : Active(r) => ReconcileAgrees(r, evidence[r].of)

(* A step that answers nothing of v, settles at most an undecided intent,  *)
(* and decides an outcome only as the intent is.                           *)
UpgradeKept(v) ==
    /\ serving'[v] \in {serving[v], NotServing} /\ reply'[v] \in {reply[v], None, "transport"}
    /\ InQueue(v)' => InQueue(v)
    /\ intent'[v] = intent[v] \/ intent[v] \in HoldsSingleFlight
    /\ \/ outcome'[v] = outcome[v]
       \/ outcome'[v] \in {"Executing", "OutcomeUnknown", "Withdrawn"}
       \/ outcome'[v] = "Pending" /\ outcome[v] = "none"
       \/ outcome'[v] = "Executed" /\ intent[v] = "Executed"
       \/ outcome'[v] = "Failed" /\ (intent[v] = "Failed" \/ (intent[v] = "none" /\ ~InQueue(v)))

(* A step that answers nothing of a reconciliation r of v.                 *)
ReconcileKept(r, v) ==
    /\ evidence'[r] = evidence[r] /\ (Active(r)' => Active(r))
    /\ serving'[r] \in {serving[r], NotServing} /\ reply'[r] \in {reply[r], None, "transport", "refused"}
    /\ v \in VaultUpgrades /\ outcome[v] \notin {"none", "Pending"} =>
          /\ AheadOf(queue, v, r) => AheadOf(queue', v, r)
          /\ InQueue(v)' => InQueue(v)
          /\ outcome'[v] \notin {"none", "Pending"}
          /\ intent'[v] = intent[v] \/ intent[v] \in HoldsSingleFlight \/ (InQueue(v) /\ intent[v] = "none")

LEMMA PlaneSteps ==
    ASSUME PlaneInv,
           \A v \in VaultUpgrades : UpgradeKept(v) \/ UpgradeAgrees(v)',
           \A r \in VaultReconciles : \A v : v = evidence[r].of =>
              \/ ReconcileKept(r, v)
              \/ Active(r)' => \A w : w = evidence'[r].of => ReconcileAgrees(r, w)'
    PROVE  PlaneInv'
  <1>1. ASSUME NEW v \in VaultUpgrades PROVE UpgradeAgrees(v)'
    BY DEF PlaneInv, UpgradeAgrees, UpgradeKept, Told, NotServing, HoldsSingleFlight
  <1>2. ASSUME NEW r \in VaultReconciles, Active(r)', NEW v, v = evidence[r].of, ReconcileKept(r, v)
        PROVE  ReconcileAgrees(r, v)' /\ v = evidence'[r].of
    BY <1>2 DEF PlaneInv, ReconcileAgrees, ReconcileKept, Told, Busy, NotServing, HoldsSingleFlight
  <1>3. ASSUME NEW r \in VaultReconciles, Active(r)', NEW w, w = evidence'[r].of
        PROVE  ReconcileAgrees(r, w)'
    BY <1>2, <1>3
  <1>4. ASSUME NEW r \in VaultReconciles, Active(r)' PROVE ReconcileAgrees(r, evidence[r].of)'
    BY <1>3, <1>4 DEF ReconcileAgrees
  <1> QED BY <1>1, <1>4 DEF PlaneInv

(* What the helpers of the actions assign, element by element.            *)
LEMMA Fields ==
    ASSUME LockInv, CallsInv
    PROVE  /\ \A p \in VaultProposals : \A o : Finalize(p, o) =>
                \A q \in VaultProposals : outcome'[q] = IF q = p THEN o ELSE outcome[q]
           /\ \A k \in Intents : \A o : SetIntent(k, o) =>
                \A j \in Intents : intent'[j] = IF j = k THEN o ELSE intent[j]
           /\ \A r : Ended(r) => \A q \in Reconciles : q # r => evidence'[q] = evidence[q]
           /\ \A r \in RingCalls : \A a : Answer(r, a) =>
                \A q \in RingCalls : reply'[q] = IF q # r THEN reply[q] ELSE IF r \in awaiting THEN a ELSE None
  BY DEF LockInv, CallsInv, CallTypes, RingTypes, Finalize, SetIntent, Ended, Answer

LEMMA ProposeUpgradePlane ==
    ASSUME LockInv, CallsInv, PlaneInv, NEW p \in VaultUpgrades \cup UpgraderUpgrades,
           ProposeUpgrade(p)
    PROVE  PlaneInv'
  <1>1. /\ UNCHANGED <<awaiting, intent, serving, evidence, queue, reply>> /\ outcome[p] = "none"
        /\ \A q \in VaultProposals : outcome'[q] = IF q = p THEN "Pending" ELSE outcome[q]
    BY Fields DEF ProposeUpgrade, upgrader, network, VaultProposals
  <1>2. \A v \in VaultUpgrades : UpgradeKept(v)
    BY <1>1 DEF UpgradeKept, InQueue, VaultProposals
  <1>3. \A r \in VaultReconciles : \A v : ReconcileKept(r, v)
    BY <1>1, Distinct DEF ReconcileKept, Active, Quiet, InQueue, Busy, NotServing, VaultProposals
  <1> QED BY <1>2, <1>3, PlaneSteps

LEMMA WithdrawPlane ==
    ASSUME LockInv, CallsInv, PlaneInv, NEW p \in VaultProposals, Withdraw(p)
    PROVE  PlaneInv'
  <1>1. UNCHANGED <<awaiting, intent, serving, queue, reply>> /\ outcome[p] = "Pending"
    BY DEF Withdraw, upgrader, network
  <1>2. CASE p \in VaultUpgrades \cup UpgraderUpgrades
    <2>1. /\ UNCHANGED evidence
          /\ \A q \in VaultProposals : outcome'[q] = IF q = p THEN "Withdrawn" ELSE outcome[q]
      BY <1>2, Fields, Distinct DEF Withdraw, VaultProposals
    <2>2. \A v \in VaultUpgrades : UpgradeKept(v)
      BY <1>1, <2>1 DEF UpgradeKept, InQueue, VaultProposals
    <2>3. \A r \in VaultReconciles : \A v : ReconcileKept(r, v)
      BY <1>1, <1>2, <2>1, Distinct DEF ReconcileKept, Active, Quiet, InQueue, Busy, NotServing, VaultProposals
    <2> QED BY <2>2, <2>3, PlaneSteps
  <1>3. CASE p \in VaultReconciles \cup UpgraderReconciles
    <2>1. /\ \A q \in Reconciles : q # p => evidence'[q] = evidence[q]
          /\ \A q \in VaultProposals : outcome'[q] = IF q = p THEN "none" ELSE outcome[q]
      BY <1>3, Fields, Distinct DEF Withdraw, VaultProposals
    <2>2. \A v \in VaultUpgrades : UpgradeKept(v)
      BY <1>1, <1>3, <2>1, Distinct DEF UpgradeKept, InQueue, VaultProposals
    <2>3. \A r \in VaultReconciles : r # p => \A v : ReconcileKept(r, v)
      BY <1>1, <1>3, <2>1, Distinct DEF ReconcileKept, Active, Quiet, InQueue, Busy, NotServing,
         VaultProposals, Reconciles
    <2>4. p \in VaultReconciles => ~Active(p)'
      BY <1>1, <2>1 DEF CallsInv, OneCall, Active, Quiet, InQueue, Busy, NotServing, RingCalls
    <2> QED BY <2>2, <2>3, <2>4, PlaneSteps
  <1> QED BY <1>2, <1>3 DEF VaultProposals

LEMMA ApproveVaultUpgradePlane ==
    ASSUME LockInv, CallsInv, PlaneInv, NEW v \in VaultUpgrades, ApproveVaultUpgrade(v)
    PROVE  PlaneInv'
  <1>1. UNCHANGED <<intent, serving, evidence, reply>> /\ outcome[v] = "Pending"
    BY DEF ApproveVaultUpgrade, upgrader
  <1>2. Quiet(v) /\ intent[v] = "none" /\ v \in VaultProposals /\ v \in RingCalls
    BY <1>1 DEF CallsInv, OneCall, PlaneInv, UpgradeAgrees, RingCalls, VaultProposals
  <1>3. ASSUME Call(v) PROVE PlaneInv'
    <2>1. /\ \A q \in VaultProposals : outcome'[q] = IF q = v THEN "Executing" ELSE outcome[q]
          /\ awaiting' = awaiting \cup {v}
      BY <1>2, <1>3, Fields DEF Call
    <2>2. /\ \A q : Listed(queue', q) <=> Listed(queue, q) \/ q = v
          /\ \A a, b : AheadOf(queue, b, a) /\ b # v => AheadOf(queue', b, a)
      BY <1>2, <1>3, Pushed DEF CallsInv, CallTypes, Quiet, InQueue, Call
    <2>3. UpgradeAgrees(v)'
      BY <1>1, <1>2, <2>1 DEF UpgradeAgrees, Told, Quiet, Busy, NotServing
    <2>4. \A w \in VaultUpgrades : w # v => UpgradeKept(w)
      BY <1>1, <2>1, <2>2 DEF UpgradeKept, InQueue, VaultProposals
    <2>5. \A r \in VaultReconciles : \A w : ReconcileKept(r, w)
      BY <1>1, <2>1, <2>2, Distinct DEF ReconcileKept, Active, Quiet, InQueue, Busy, NotServing, VaultProposals
    <2> QED BY <2>3, <2>4, <2>5, PlaneSteps
  <1>4. ASSUME Finalize(v, "Failed"), UNCHANGED <<awaiting, queue>> PROVE PlaneInv'
    <2>1. \A q \in VaultProposals : outcome'[q] = IF q = v THEN "Failed" ELSE outcome[q]
      BY <1>2, <1>4, Fields
    <2>2. \A w \in VaultUpgrades : UpgradeKept(w)
      BY <1>1, <1>2, <1>4, <2>1 DEF UpgradeKept, InQueue, Quiet, VaultProposals
    <2>3. \A r \in VaultReconciles : \A w : ReconcileKept(r, w)
      BY <1>1, <1>4, <2>1, Distinct DEF ReconcileKept, Active, Quiet, InQueue, Busy, NotServing, VaultProposals
    <2> QED BY <2>2, <2>3, PlaneSteps
  <1> QED BY <1>3, <1>4 DEF ApproveVaultUpgrade

(* The Vault makes of the trigger's answer what the intent is.             *)
LEMMA VaultUpgradeReplyPlane ==
    ASSUME LockInv, CallsInv, PlaneInv, NEW v \in VaultUpgrades, VaultUpgradeReply(v)
    PROVE  PlaneInv'
  <1>1. UNCHANGED <<intent, serving, evidence, queue>> /\ reply[v] # None
    BY DEF VaultUpgradeReply, upgrader
  <1>2. v \in VaultProposals /\ v \in RingCalls
    BY DEF RingCalls, VaultProposals
  <1>3. ~InQueue(v) /\ ~Busy(v) /\ outcome[v] \notin {"none", "Pending"}
    BY <1>1, <1>2 DEF CallsInv, OneCall, Quiet
  <1>4. /\ outcome'[v] = CASE reply[v] = "Executed" -> "Executed"
                           [] reply[v] \in {"Failed", "refused"} -> "Failed"
                           [] OTHER -> "OutcomeUnknown"
        /\ \A q \in VaultProposals : q # v => outcome'[q] = outcome[q]
    BY <1>2, Fields DEF VaultUpgradeReply
  <1>5. /\ awaiting' = awaiting \ {v}
        /\ \A q \in RingCalls : reply'[q] = IF q = v THEN None ELSE reply[q]
    BY DEF VaultUpgradeReply, Resume, CallsInv, CallTypes
  <1>6. UpgradeAgrees(v)'
    BY <1>1, <1>2, <1>3, <1>4, <1>5 DEF PlaneInv, UpgradeAgrees, Told, InQueue, Busy, NotServing
  <1>7. \A w \in VaultUpgrades : w # v => UpgradeKept(w)
    BY <1>1, <1>4, <1>5 DEF UpgradeKept, InQueue, VaultProposals, RingCalls
  <1>8. outcome'[v] \notin {"none", "Pending"}
    BY <1>4
  <1>9. \A r \in VaultReconciles : \A w : ReconcileKept(r, w)
    BY <1>1, <1>4, <1>5, <1>8, Distinct DEF ReconcileKept, Active, Quiet, InQueue, Busy, NotServing,
       VaultProposals, RingCalls
  <1> QED BY <1>6, <1>7, <1>9, PlaneSteps

LEMMA UpgraderUpgradePlane ==
    ASSUME LockInv, CallsInv, PlaneInv, NEW u \in UpgraderUpgrades,
           ApproveUpgraderUpgrade(u) \/ UpgraderUpgradeReply(u)
    PROVE  PlaneInv'
  <1>1. UNCHANGED <<intent, serving, evidence, queue, reply>>
    BY DEF ApproveUpgraderUpgrade, UpgraderUpgradeReply, upgrader, network
  <1>2. /\ \A q \in VaultProposals : q # u => outcome'[q] = outcome[q]
        /\ \A q \in VaultProposals : q # u => (q \in awaiting' <=> q \in awaiting)
    BY Fields DEF ApproveUpgraderUpgrade, UpgraderUpgradeReply, Resume, VaultProposals
  <1>3. \A w \in VaultUpgrades : UpgradeKept(w)
    BY <1>1, <1>2, Distinct DEF UpgradeKept, InQueue, VaultProposals
  <1>4. \A r \in VaultReconciles : \A w : ReconcileKept(r, w)
    BY <1>1, <1>2, Distinct DEF ReconcileKept, Active, Quiet, InQueue, Busy, NotServing, VaultProposals
  <1> QED BY <1>3, <1>4, PlaneSteps

LEMMA UpgraderReconcilePlane ==
    ASSUME LockInv, CallsInv, PlaneInv, NEW r \in UpgraderReconciles,
           ProposeUpgraderReconcile(r) \/ ApproveUpgraderReconcile(r)
    PROVE  PlaneInv'
  <1>1. UNCHANGED <<awaiting, intent, serving, queue, reply>>
    BY DEF ProposeUpgraderReconcile, ProposeReconcileUpgraderUpgrade, ApproveUpgraderReconcile,
       upgrader, network
  <1>2. /\ \A q \in RingCalls : outcome'[q] = outcome[q]
        /\ \A q \in VaultReconciles : evidence'[q] = evidence[q]
    BY Distinct DEF ProposeUpgraderReconcile, ProposeReconcileUpgraderUpgrade, Observe,
       ApproveUpgraderReconcile, Ended, Finalize, LockInv, RingTypes, ReconcilesAimed,
       VaultProposals, RingCalls, Reconciles
  <1>3. \A w \in VaultUpgrades : UpgradeKept(w)
    BY <1>1, <1>2, Distinct DEF UpgradeKept, InQueue, RingCalls
  <1>4. \A q \in VaultReconciles : \A w : ReconcileKept(q, w)
    BY <1>1, <1>2, Distinct DEF ReconcileKept, Active, Quiet, InQueue, Busy, NotServing, RingCalls
  <1> QED BY <1>3, <1>4, PlaneSteps

LEMMA ProposeVaultReconcilePlane ==
    ASSUME LockInv, CallsInv, RestTypes, PlaneInv, NEW r \in VaultReconciles, NEW v \in VaultUpgrades,
           ProposeReconcileVaultUpgrade(r, v)
    PROVE  PlaneInv'
  <1>1. /\ UNCHANGED <<awaiting, intent, serving, queue, reply>> /\ SlotFree(r)
        /\ outcome[v] \in {"OutcomeUnknown", "Executing"}
    BY DEF ProposeReconcileVaultUpgrade, upgrader, network
  <1>2. /\ \A q \in VaultProposals : outcome'[q] = IF q = r THEN "Pending" ELSE outcome[q]
        /\ \A q \in Reconciles : q # r => evidence'[q] = evidence[q]
        /\ evidence'[r].of = v
    BY Fields, Distinct DEF ProposeReconcileVaultUpgrade, Observe, LockInv, RingTypes,
       VaultProposals, Reconciles
  <1>3. Quiet(r)
    BY <1>1 DEF SlotFree, Quiet, InQueue, Listed, Busy, CallsInv, OneCall, RingCalls
  <1>4. ReconcileAgrees(r, v)'
    <2>1. evidence'[r] # None
      BY ObservedTypes DEF ProposeReconcileVaultUpgrade, Reconciles, Upgrades, Intents
    <2> QED BY <1>1, <1>2, <1>3, <2>1, Distinct DEF ReconcileAgrees, Told, Quiet, InQueue, Listed, AheadOf, Busy,
       NotServing, VaultProposals
  <1>5. \A w \in VaultUpgrades : UpgradeKept(w)
    BY <1>1, <1>2, Distinct DEF UpgradeKept, InQueue, VaultProposals
  <1>6. \A q \in VaultReconciles : q # r => \A w : ReconcileKept(q, w)
    BY <1>1, <1>2, Distinct DEF ReconcileKept, Active, Quiet, InQueue, Busy, NotServing, VaultProposals,
       Reconciles
  <1> QED BY <1>2, <1>4, <1>5, <1>6, PlaneSteps

LEMMA ApproveVaultReconcilePlane ==
    ASSUME LockInv, CallsInv, PlaneInv, NEW r \in VaultReconciles, ApproveVaultReconcile(r)
    PROVE  PlaneInv'
  <1>1. UNCHANGED <<intent, serving, reply>> /\ outcome[r] = "Pending"
    BY DEF ApproveVaultReconcile, upgrader
  <1>2. Quiet(r) /\ Active(r) /\ r \in VaultProposals /\ r \in RingCalls
    BY <1>1 DEF CallsInv, OneCall, Active, RingCalls, VaultProposals
  <1>3. ASSUME Call(r), UNCHANGED evidence PROVE PlaneInv'
    <2>1. /\ \A q \in VaultProposals : outcome'[q] = IF q = r THEN "Executing" ELSE outcome[q]
          /\ awaiting' = awaiting \cup {r}
      BY <1>2, <1>3, Fields DEF Call
    <2>2. /\ \A q : Listed(queue', q) <=> Listed(queue, q) \/ q = r
          /\ \A a, b : AheadOf(queue, b, a) /\ b # r => AheadOf(queue', b, a)
      BY <1>2, <1>3, Pushed DEF CallsInv, CallTypes, Quiet, InQueue, Call
    <2>3. \A w \in VaultUpgrades : UpgradeKept(w)
      BY <1>1, <2>1, <2>2, Distinct DEF UpgradeKept, InQueue, VaultProposals
    <2>4. \A q \in VaultReconciles : \A w : ReconcileKept(q, w)
      BY <1>1, <1>2, <1>3, <2>1, <2>2, Distinct DEF ReconcileKept, Active, Quiet, InQueue, Busy, NotServing,
         VaultProposals
    <2> QED BY <2>3, <2>4, PlaneSteps
  <1>4. ASSUME Finalize(r, "none"), Ended(r), UNCHANGED <<awaiting, queue>> PROVE PlaneInv'
    <2>1. /\ \A q \in VaultProposals : outcome'[q] = IF q = r THEN "none" ELSE outcome[q]
          /\ \A q \in Reconciles : q # r => evidence'[q] = evidence[q]
      BY <1>2, <1>4, Fields
    <2>2. \A w \in VaultUpgrades : UpgradeKept(w)
      BY <1>1, <1>4, <2>1, Distinct DEF UpgradeKept, InQueue, VaultProposals
    <2>3. \A q \in VaultReconciles : q # r => \A w : ReconcileKept(q, w)
      BY <1>1, <1>4, <2>1, Distinct DEF ReconcileKept, Active, Quiet, InQueue, Busy, NotServing,
         VaultProposals, Reconciles
    <2>4. ~Active(r)'
      BY <1>1, <1>2, <1>4, <2>1 DEF Active, Quiet, InQueue, Busy, NotServing
    <2> QED BY <2>2, <2>3, <2>4, PlaneSteps
  <1> QED BY <1>3, <1>4 DEF ApproveVaultReconcile

(* The Upgrader's word settles the target of a reconciliation.             *)
LEMMA VaultReconcileReplyPlane ==
    ASSUME LockInv, CallsInv, PlaneInv, NEW r \in VaultReconciles, VaultReconcileReply(r)
    PROVE  PlaneInv'
  <1> DEFINE v == evidence[r].of
  <1>1. UNCHANGED <<intent, serving, queue>> /\ reply[r] # None
    BY DEF VaultReconcileReply, upgrader
  <1>2. r \in RingCalls /\ ~InQueue(r) /\ ~Busy(r) /\ Active(r)
    BY <1>1 DEF CallsInv, OneCall, Active, Quiet, RingCalls
  <1>3. /\ v \in VaultUpgrades /\ outcome[v] \notin {"none", "Pending"}
        /\ \A a \in {"Executed", "Failed"} : reply[r] = a => intent[v] = a
        /\ reply[r] = "UnknownProposal" => intent[v] = "none" /\ ~InQueue(v)
    BY <1>1, <1>2 DEF PlaneInv, ReconcileAgrees, Told
  <1>4. /\ awaiting' = awaiting \ {r}
        /\ \A q \in RingCalls : reply'[q] = IF q = r THEN None ELSE reply[q]
        /\ \A q \in Reconciles : q # r => evidence'[q] = evidence[q]
    BY Fields DEF VaultReconcileReply, Resume, CallsInv, CallTypes
  <1>5. /\ \A q \in VaultProposals : q # r /\ q # v => outcome'[q] = outcome[q]
        /\ outcome'[r] = "none"
        /\ \/ outcome'[v] = outcome[v]
           \/ outcome'[v] = "Executed" /\ intent[v] = "Executed"
           \/ outcome'[v] = "Failed" /\ (intent[v] = "Failed" \/ (intent[v] = "none" /\ ~InQueue(v)))
    BY <1>3, Distinct DEF VaultReconcileReply, Finalize, LockInv, RingTypes, VaultProposals
  <1> HIDE DEF v
  <1>6. \A w \in VaultUpgrades : UpgradeKept(w)
    BY <1>1, <1>3, <1>4, <1>5, Distinct DEF UpgradeKept, InQueue, VaultProposals, RingCalls
  <1>7. \A q \in VaultReconciles : q # r => \A w : ReconcileKept(q, w)
    BY <1>1, <1>3, <1>4, <1>5, Distinct DEF ReconcileKept, Active, Quiet, InQueue, Busy, NotServing,
       VaultProposals, RingCalls, Reconciles
  <1>8. ~Active(r)'
    BY <1>1, <1>2, <1>4, <1>5 DEF Active, Quiet, InQueue, Busy, NotServing
  <1> QED BY <1>6, <1>7, <1>8, PlaneSteps

(* A trigger is admitted or refused while nobody has heard of it.          *)
LEMMA TriggerBeginPlane ==
    ASSUME LockInv, CallsInv, PlaneInv, NEW v \in VaultUpgrades, TriggerBegin(v)
    PROVE  PlaneInv'
  <1>1. /\ UNCHANGED <<outcome, awaiting, evidence>>
        /\ queue # <<>> /\ Head(queue) = v /\ queue' = Tail(queue)
    BY DEF TriggerBegin, vault
  <1>2. /\ \A q : Listed(queue', q) <=> Listed(queue, q) /\ q # v
        /\ \A a, b : AheadOf(queue, b, a) => AheadOf(queue', b, a)
        /\ InQueue(v) /\ v \in RingCalls
    BY <1>1, Popped DEF CallsInv, CallTypes, InQueue
  <1>3. ~Busy(v) /\ reply[v] = None /\ outcome[v] \notin {"none", "Pending"} /\ intent[v] = "none"
    BY <1>2 DEF CallsInv, OneCall, Quiet, PlaneInv, UpgradeAgrees
  <1>4. outcome[v] \notin {"Executed", "Failed"}
    BY <1>2, <1>3 DEF PlaneInv, UpgradeAgrees
  <1>5. \A k \in Intents : k # v => intent'[k] = intent[k]
    BY Fields DEF TriggerBegin, Intents
  <1>6. \A q \in RingCalls : q # v => serving'[q] = serving[q] /\ reply'[q] = reply[q]
    BY <1>2, Fields DEF TriggerBegin, LockInv, RingTypes
  <1>7. \/ intent'[v] = "Executing" /\ serving'[v].at = "install" /\ reply'[v] = None
        \/ intent'[v] = "none" /\ serving'[v] = serving[v] /\ reply'[v] \in {None, "refused"}
    BY <1>2, <1>3, Fields DEF TriggerBegin, SetIntent, Intents, LockInv, RingTypes
  <1>8. UpgradeAgrees(v)'
    BY <1>1, <1>2, <1>3, <1>4, <1>7 DEF UpgradeAgrees, InQueue, Told, Busy, NotServing
  <1>9. \A w \in VaultUpgrades : w # v => UpgradeKept(w)
    BY <1>1, <1>2, <1>5, <1>6 DEF UpgradeKept, InQueue, Intents, RingCalls
  <1>10. \A r \in VaultReconciles : \A w : ReconcileKept(r, w)
    BY <1>1, <1>2, <1>3, <1>5, <1>6, Distinct DEF ReconcileKept, Active, Quiet, InQueue, Busy,
       NotServing, Intents, RingCalls
  <1> QED BY <1>8, <1>9, <1>10, PlaneSteps

(* The install's answer decides an executing intent, and nobody called it  *)
(* executed before.                                                        *)
LEMMA FinishIntentPlane ==
    ASSUME LockInv, CallsInv, PlaneInv, NEW k \in Intents, FinishIntent(k)
    PROVE  PlaneInv'
  <1>1. UNCHANGED <<outcome, awaiting, evidence, queue, reply>>
    BY DEF FinishIntent, vault, network
  <1>2. intent[k] = "Executing" /\ serving[k].at = "install"
    BY DEF FinishIntent, LockInv, IntentBacks
  <1>3. PICK o \in {"Executed", "OutcomeUnknown"} :
           SetIntent(k, o) /\ serving' = [serving EXCEPT ![k] = [at |-> "refresh", answer |-> o]]
    BY DEF FinishIntent
  <1>4. /\ \A j \in Intents : intent'[j] = IF j = k THEN o ELSE intent[j]
        /\ k \in RingCalls \cup Triggers
        /\ \A q \in RingCalls \cup Triggers :
              serving'[q] = IF q = k THEN [at |-> "refresh", answer |-> o] ELSE serving[q]
    BY <1>3, Fields DEF LockInv, RingTypes, Intents, RingCalls
  <1>5. \A w \in VaultUpgrades : w # k => UpgradeKept(w)
    BY <1>1, <1>4 DEF UpgradeKept, InQueue, Intents, RingCalls
  <1>6. k \in VaultUpgrades => UpgradeAgrees(k)'
    <2> SUFFICES ASSUME k \in VaultUpgrades PROVE UpgradeAgrees(k)'
      OBVIOUS
    <2>1. Busy(k) /\ ~InQueue(k) /\ reply[k] = None
      BY <1>2, ServingTyped DEF Busy, CallsInv, OneCall, RingCalls
    <2> QED BY <1>1, <1>2, <1>4, <2>1 DEF PlaneInv, UpgradeAgrees, InQueue, Told
  <1>7. \A r \in VaultReconciles : \A w : ReconcileKept(r, w)
    BY <1>1, <1>2, <1>4, Distinct DEF ReconcileKept, Active, Quiet, InQueue, Busy, NotServing,
       Intents, RingCalls, HoldsSingleFlight
  <1> QED BY <1>5, <1>6, <1>7, PlaneSteps

LEMMA RefreshDonePlane ==
    ASSUME LockInv, CallsInv, PlaneInv, NEW k \in RingCalls \cup Triggers, RefreshDone(k)
    PROVE  PlaneInv'
  <1>1. /\ UNCHANGED <<outcome, awaiting, intent, evidence, queue>> /\ serving[k].at = "refresh"
        /\ \A q \in RingCalls \cup Triggers :
              serving'[q] = IF q = k THEN NotServing ELSE serving[q]
    BY DEF RefreshDone, vault, LockInv, RingTypes
  <1>2. /\ \A q \in RingCalls : q # k => reply'[q] = reply[q]
        /\ k \in RingCalls => reply'[k] \in {None, serving[k].answer}
    BY Distinct, Fields DEF RefreshDone, RingCalls
  <1>3. k \in RingCalls => Busy(k) /\ ~InQueue(k) /\ outcome[k] \notin {"none", "Pending"}
    BY <1>1, ServingTyped DEF Busy, CallsInv, OneCall, Quiet
  <1>4. \A w \in VaultUpgrades : w # k => UpgradeKept(w)
    BY <1>1, <1>2 DEF UpgradeKept, InQueue, RingCalls
  <1>5. k \in VaultUpgrades => UpgradeAgrees(k)'
    <2> SUFFICES ASSUME k \in VaultUpgrades PROVE UpgradeAgrees(k)'
      OBVIOUS
    <2>1. k \in RingCalls /\ UpgradeAgrees(k)
      BY DEF RingCalls, PlaneInv
    <2> QED BY <1>1, <1>2, <1>3, <2>1 DEF UpgradeAgrees, InQueue, Told, NotServing
  <1>6. \A r \in VaultReconciles : r # k => \A w : ReconcileKept(r, w)
    BY <1>1, <1>2 DEF ReconcileKept, Active, Quiet, InQueue, Busy, NotServing, RingCalls
  <1>7. ASSUME k \in VaultReconciles, NEW v, v = evidence'[k].of PROVE ReconcileAgrees(k, v)'
    <2>1. k \in RingCalls /\ v = evidence[k].of
      BY <1>1, <1>7 DEF RingCalls
    <2>2. ReconcileAgrees(k, v)
      BY <1>3, <1>7, <2>1 DEF PlaneInv, Active, Quiet
    <2> QED BY <1>1, <1>2, <1>3, <2>1, <2>2 DEF ReconcileAgrees, Busy, Told, InQueue, NotServing
  <1> QED BY <1>4, <1>5, <1>6, <1>7, PlaneSteps

(* The Upgrader's word on a reconciliation: what the intent is, from then  *)
(* on; an id is unknown only when its request is not on its way either.    *)
LEMMA ReconcileForVaultPlane ==
    ASSUME LockInv, CallsInv, PlaneInv, NEW r \in VaultReconciles, ReconcileForVault(r)
    PROVE  PlaneInv'
  <1>1. /\ UNCHANGED <<outcome, awaiting, evidence>>
        /\ queue # <<>> /\ Head(queue) = r /\ queue' = Tail(queue)
    BY DEF ReconcileForVault, vault
  <1>2. /\ \A q : Listed(queue', q) <=> Listed(queue, q) /\ q # r
        /\ \A a, b : AheadOf(queue, b, a) => AheadOf(queue', b, a)
        /\ \A b : AheadOf(queue, b, r) => ~Listed(queue, b)
        /\ InQueue(r) /\ r \in RingCalls
    BY <1>1, Popped DEF CallsInv, CallTypes, InQueue
  <1>3. ~Busy(r) /\ reply[r] = None /\ Active(r)
    BY <1>2 DEF CallsInv, OneCall, Quiet, Active
  <1>4. PICK v : v = evidence[r].of
    OBVIOUS
  <1>5. ReconcileAgrees(r, v)
    BY <1>3, <1>4 DEF PlaneInv
  <1>6. v \in VaultUpgrades /\ v \in Intents /\ v # r /\ ~InQueue(v)
    BY <1>2, <1>5, Distinct DEF ReconcileAgrees, Intents, InQueue
  <1>7. \A q \in RingCalls : q # r => serving'[q] = serving[q] /\ reply'[q] = reply[q]
    BY <1>2, Fields DEF ReconcileForVault, LockInv, RingTypes
  <1>8. /\ \A k \in Intents : k # v => intent'[k] = intent[k]
        /\ intent'[v] = intent[v] \/ intent[v] = "OutcomeUnknown"
    <2>1. UNCHANGED intent \/ (intent[v] = "OutcomeUnknown" /\ SetIntent(v, Decision(r, v)))
      BY <1>4 DEF ReconcileForVault, Acceptable
    <2> QED BY <1>6, <2>1, Fields
  <1>9. \/ /\ serving'[r] = serving[r]
           /\ reply'[r] \in {None, "refused"} \/ (reply'[r] \in {None, "UnknownProposal"} /\ intent'[v] = "none")
        \/ /\ serving'[r].at = "refresh" /\ serving'[r].answer \in {"Executed", "Failed"}
           /\ intent'[v] = serving'[r].answer /\ reply'[r] = None
    <2>1. ASSUME NEW a, Answer(r, a), UNCHANGED <<intent, serving>>,
                 a = "refused" \/ (a = "UnknownProposal" /\ intent[v] = "none")
          PROVE  /\ serving'[r] = serving[r]
                 /\ reply'[r] \in {None, "refused"} \/ (reply'[r] \in {None, "UnknownProposal"} /\ intent'[v] = "none")
      BY <1>2, <2>1, Fields
    <2>2. ASSUME NEW o \in {"Executed", "Failed"}, UNCHANGED reply, intent'[v] = o,
                 serving' = [serving EXCEPT ![r] = [at |-> "refresh", answer |-> o]]
          PROVE  /\ serving'[r].at = "refresh" /\ serving'[r].answer \in {"Executed", "Failed"}
                 /\ intent'[v] = serving'[r].answer /\ reply'[r] = None
      BY <1>2, <1>3, <2>2 DEF LockInv, RingTypes
    <2>3. Decision(r, v) \in {"Executed", "Failed"}
      BY DEF Decision
    <2>4. CASE intent[v] = "none" /\ Answer(r, "UnknownProposal") /\ UNCHANGED <<intent, serving>>
      BY <2>1, <2>4
    <2>5. CASE /\ intent[v] \in {"Executed", "Failed"} /\ UNCHANGED <<intent, reply>>
               /\ serving' = [serving EXCEPT ![r] = [at |-> "refresh", answer |-> intent[v]]]
      BY <2>2, <2>5
    <2>6. CASE /\ SetIntent(v, Decision(r, v)) /\ UNCHANGED reply
               /\ serving' = [serving EXCEPT ![r] = [at |-> "refresh", answer |-> Decision(r, v)]]
      BY <1>6, <2>2, <2>3, <2>6, Fields
    <2>7. CASE Answer(r, "refused") /\ UNCHANGED <<intent, serving>>
      BY <2>1, <2>7
    <2> QED BY <1>4, <2>4, <2>5, <2>6, <2>7 DEF ReconcileForVault
  <1>10. ReconcileAgrees(r, v)'
    BY <1>1, <1>2, <1>3, <1>5, <1>6, <1>9 DEF ReconcileAgrees, Busy, Told, InQueue, NotServing
  <1>11. \A w \in VaultUpgrades : UpgradeKept(w)
    BY <1>1, <1>2, <1>6, <1>7, <1>8, Distinct DEF UpgradeKept, InQueue, Intents, RingCalls, HoldsSingleFlight
  <1>12. \A q \in VaultReconciles : q # r => \A w : ReconcileKept(q, w)
    BY <1>1, <1>2, <1>7, <1>8 DEF ReconcileKept, Active, Quiet, InQueue, Busy, NotServing,
       Intents, RingCalls, HoldsSingleFlight
  <1> QED BY <1>1, <1>4, <1>10, <1>11, <1>12, PlaneSteps

(* The recovery members' steps: they decide an intent only if it is        *)
(* undecided, and tell the Vault nothing.                                  *)
LEMMA RecoveryPlane ==
    ASSUME LockInv, CallsInv, PlaneInv,
           UNCHANGED <<outcome, awaiting, queue, reply>>,
           \A q \in RingCalls : serving'[q] = serving[q],
           \A r \in VaultReconciles : evidence'[r] = evidence[r],
           \A v \in VaultUpgrades : intent'[v] = intent[v] \/ intent[v] = "OutcomeUnknown"
    PROVE  PlaneInv'
  <1>1. \A w \in VaultUpgrades : UpgradeKept(w)
    BY DEF UpgradeKept, InQueue, RingCalls, HoldsSingleFlight
  <1>2. \A q \in VaultReconciles : \A w : ReconcileKept(q, w)
    BY DEF ReconcileKept, Active, Quiet, InQueue, Busy, NotServing, RingCalls, HoldsSingleFlight
  <1> QED BY <1>1, <1>2, PlaneSteps

LEMMA UpgraderStepPlane ==
    ASSUME LockInv, CallsInv, PlaneInv, UpgraderStep
    PROVE  PlaneInv'
  <1>1. ASSUME NEW t \in Triggers, ProposeTrigger(t) \/ ApproveTrigger(t) PROVE PlaneInv'
    BY <1>1, RecoveryPlane, Distinct DEF ProposeTrigger, ApproveTrigger, SetIntent, vault, network,
       LockInv, RingTypes, RingCalls, Intents
  <1>2. ASSUME NEW r \in RecoveryReconciles, NEW k \in Intents, ProposeRecoveryReconcile(r, k)
        PROVE  PlaneInv'
    BY <1>2, RecoveryPlane, Distinct DEF ProposeRecoveryReconcile, Observe, vault, network,
       LockInv, RingTypes, Reconciles
  <1>3. ASSUME NEW r \in RecoveryReconciles, ApproveRecoveryReconcile(r) PROVE PlaneInv'
    BY <1>3, RecoveryPlane, Distinct DEF ApproveRecoveryReconcile, SetIntent, Acceptable, Decision,
       Ended, vault, network, LockInv, RingTypes, Reconciles, Intents
  <1>4. ASSUME NEW p \in RecoveryProposals, WithdrawRecovery(p) PROVE PlaneInv'
    BY <1>4, RecoveryPlane, Distinct DEF WithdrawRecovery, SetIntent, Ended, vault, network,
       LockInv, RingTypes, RecoveryProposals, Reconciles, Intents
  <1>5. ASSUME Rotate PROVE PlaneInv'
    BY <1>5, RecoveryPlane, Distinct DEF Rotate, vault, network, LockInv, RingTypes,
       RecoveryProposals, Reconciles, Intents
  <1> QED BY <1>1, <1>2, <1>3, <1>4, <1>5, TriggerBeginPlane, FinishIntentPlane, RefreshDonePlane,
     ReconcileForVaultPlane DEF UpgraderStep

LEMMA PlatformStepPlane ==
    ASSUME LockInv, CallsInv, PlaneInv, PlatformStep
    PROVE  PlaneInv'
  <1>1. ASSUME UNCHANGED <<outcome, intent, evidence, queue>>, VaultUpgraded \/ ServedCallsFail
        PROVE  PlaneInv'
    <2>1. \A q \in RingCalls : /\ serving'[q] \in {serving[q], NotServing}
                               /\ reply'[q] \in {reply[q], None, "transport"}
      BY <1>1 DEF VaultUpgraded, ServedCallsFail
    <2>2. \A q \in RingCalls : ~Quiet(q)' => ~Quiet(q)
      BY <1>1 DEF VaultUpgraded, ServedCallsFail, Quiet, InQueue, Busy, NotServing
    <2>3. \A w \in VaultUpgrades : UpgradeKept(w)
      BY <1>1, <2>1 DEF UpgradeKept, InQueue, RingCalls
    <2>4. \A q \in VaultReconciles : \A w : ReconcileKept(q, w)
      BY <1>1, <2>1, <2>2 DEF ReconcileKept, Active, InQueue, RingCalls
    <2> QED BY <2>3, <2>4, PlaneSteps
  <1>2. ASSUME NEW k \in Upgrades, InstallLands(k) PROVE PlaneInv'
    BY <1>1, <1>2 DEF InstallLands, UpgraderUpgraded, VaultUpgraded, ServedCallsFail
  <1>3. ASSUME NEW k \in Upgrades, InstallRejected(k) PROVE PlaneInv'
    BY <1>3, RecoveryPlane DEF InstallRejected, vault, upgrader, network
  <1>4. ASSUME RequestLost PROVE PlaneInv'
    <2>1. /\ UNCHANGED <<outcome, awaiting, intent, serving, evidence>>
          /\ queue # <<>> /\ queue' = Tail(queue) /\ Answer(Head(queue), "transport")
      BY <1>4 DEF RequestLost, vault, upgrader
    <2>2. /\ \A q : Listed(queue', q) <=> Listed(queue, q) /\ q # Head(queue)
          /\ \A a, b : AheadOf(queue, b, a) => AheadOf(queue', b, a)
          /\ Head(queue) \in RingCalls /\ InQueue(Head(queue))
      BY <2>1, Popped DEF CallsInv, CallTypes, InQueue
    <2>3. \A q \in RingCalls : /\ reply'[q] \in {reply[q], None, "transport"}
                               /\ ~Quiet(q)' => ~Quiet(q)
      BY <2>1, <2>2, Fields DEF Quiet, InQueue, Busy, NotServing
    <2>4. \A w \in VaultUpgrades : UpgradeKept(w)
      BY <2>1, <2>2, <2>3 DEF UpgradeKept, InQueue, RingCalls
    <2>5. \A q \in VaultReconciles : \A w : ReconcileKept(q, w)
      BY <2>1, <2>2, <2>3 DEF ReconcileKept, Active, InQueue, RingCalls
    <2> QED BY <2>4, <2>5, PlaneSteps
  <1> QED BY <1>2, <1>3, <1>4 DEF PlatformStep

LEMMA NextPlane == LockInv /\ CallsInv /\ RestTypes /\ PlaneInv /\ [Next]_vars => PlaneInv'
  <1> SUFFICES ASSUME LockInv, CallsInv, RestTypes, PlaneInv, [Next]_vars PROVE PlaneInv'
    OBVIOUS
  <1>1. CASE VaultStep
    BY <1>1, ProposeUpgradePlane, WithdrawPlane, ApproveVaultUpgradePlane, VaultUpgradeReplyPlane,
       UpgraderUpgradePlane, UpgraderReconcilePlane, ProposeVaultReconcilePlane,
       ApproveVaultReconcilePlane, VaultReconcileReplyPlane DEF VaultStep, ProposeVaultReconcile
  <1>2. CASE UNCHANGED vars
    BY <1>2, RecoveryPlane DEF vars, vault, upgrader, network
  <1> QED BY <1>1, <1>2, UpgraderStepPlane, PlatformStepPlane DEF Next

LEMMA InitPlane == Init => PlaneInv
  BY DEF Init, PlaneInv, UpgradeAgrees, Active, Quiet, InQueue, Listed, Told, Busy, NotServing,
     Intents, RingCalls, VaultProposals

LEMMA PlaneInvariant == Spec => []PlaneInv
  BY InitPlane, NextPlane, LockInvariant, CallsInvariant, RestTyped, PTL DEF Spec

(* The two planes agree: the Vault calls an upgrade executed only if the   *)
(* Upgrader's intent is, and failed only if the Upgrader never admitted it *)
(* or found it failed.                                                     *)
THEOREM PlanesAgreeAlways == Spec => []PlanesAgree
  <1>1. PlaneInv => PlanesAgree
    BY DEF PlaneInv, UpgradeAgrees, PlanesAgree
  <1> QED BY <1>1, PlaneInvariant, PTL

-----------------------------------------------------------------------------
(***************************************************************************)
(* What an upgrade that is called executed ran.                            *)
(***************************************************************************)
Began(u) == outcome[u] \in {"Executing", "OutcomeUnknown", "Executed"}

(* Since k was recorded its history holds what its target runs; an install *)
(* that may still land, or landed, is of a recorded upgrade.               *)
RanSince(k) ==
    /\ since[k] # {} => module[Target(k)] \in since[k]
    /\ k \in installing => since[k] # {}
    /\ result[k] # None /\ result[k] = "ok" => Wasm[k] \in since[k]
    /\ k \in Intents /\ intent[k] # "none" => since[k] # {}
    /\ k \in Intents /\ intent[k] = "Executed" => Wasm[k] \in since[k]
    /\ k \in UpgraderUpgrades /\ Began(k) => since[k] # {}
    /\ k \in UpgraderUpgrades /\ outcome[k] = "Executed" => Wasm[k] \in since[k]

(* Evidence that is accepted, and that of an upgrade of the Upgrader, is   *)
(* of a module that ran since the upgrade was recorded.                    *)
Sound(r) ==
    evidence[r] # None =>
        /\ evidence[r].after => evidence[r].module \in since[evidence[r].of]
        /\ evidence[r].of \in UpgraderUpgrades => evidence[r].after

(* Whatever is pending has evidence, of an upgrade of its plane.           *)
Evidenced(r) ==
    /\ r \in UpgraderReconciles /\ outcome[r] = "Pending" => evidence[r] # None
    /\ r \in RecoveryReconciles /\ recovery[r] = "Pending" =>
          evidence[r] # None /\ evidence[r].of \in Intents

HistoryInv ==
    /\ \A k \in Upgrades : RanSince(k)
    /\ \A r \in Reconciles : Sound(r) /\ Evidenced(r)

(* A step that records nothing but what k's target runs, and decides k     *)
(* only if its module ran.                                                 *)
RanKept(k) ==
    /\ since'[k] \in {since[k], since[k] \cup {module[Target(k)]}}
    /\ module'[Target(k)] = module[Target(k)]
    /\ k \in installing' => k \in installing \/ since'[k] # {}
    /\ result'[k] \in {result[k], None, "rejected"}
    /\ k \in Intents => \/ intent'[k] = intent[k]
                        \/ /\ intent[k] # "none" \/ since'[k] # {}
                           /\ intent'[k] = "Executed" => Wasm[k] \in since[k]
    /\ k \in UpgraderUpgrades => \/ outcome'[k] = outcome[k]
                                 \/ /\ Began(k)' => Began(k) \/ since'[k] # {}
                                    /\ outcome'[k] = "Executed" => Wasm[k] \in since[k]

EvidenceKept(r) ==
    /\ evidence'[r] = evidence[r]
    /\ r \in UpgraderReconciles /\ outcome'[r] = "Pending" => outcome[r] = "Pending"
    /\ r \in RecoveryReconciles /\ recovery'[r] = "Pending" => recovery[r] = "Pending"

EvidenceGone(r) ==
    /\ evidence'[r] = None
    /\ r \in UpgraderReconciles => outcome'[r] # "Pending"
    /\ r \in RecoveryReconciles => recovery'[r] # "Pending"

LEMMA RanStays ==
    ASSUME NEW k \in Upgrades, RanSince(k), RanKept(k)
    PROVE  RanSince(k)'
  <1>1. since[k] \subseteq since'[k] /\ (since'[k] # {} => module'[Target(k)] \in since'[k])
    BY DEF RanSince, RanKept
  <1>2. Target(k)' = Target(k)
    BY DEF Target
  <1> QED BY <1>1, <1>2 DEF RanSince, RanKept, Began

LEMMA HistorySteps ==
    ASSUME RestTypes, HistoryInv, \A k \in Upgrades : RanKept(k),
           \A r \in Reconciles : EvidenceKept(r) \/ EvidenceGone(r)
    PROVE  HistoryInv'
  <1>1. \A k \in Upgrades : RanSince(k)'
    BY RanStays DEF HistoryInv
  <1>2. \A k \in Upgrades : since[k] \subseteq since'[k]
    BY DEF RanKept
  <1>3. ASSUME NEW r \in Reconciles PROVE Sound(r)' /\ Evidenced(r)'
    <2>1. CASE EvidenceGone(r)
      BY <2>1, Distinct DEF EvidenceGone, Sound, Evidenced, Reconciles
    <2>2. CASE EvidenceKept(r)
      <3>1. evidence[r] # None => evidence[r] \in Observations /\ evidence[r].of \in Upgrades
        BY DEF RestTypes, Observations
      <3> QED BY <2>2, <3>1, <1>2 DEF EvidenceKept, HistoryInv, Sound, Evidenced
    <2> QED BY <2>1, <2>2
  <1> QED BY <1>1, <1>3 DEF HistoryInv

(* Nothing of the Upgrader's upgrades and nothing of the installs moves.   *)
LEMMA SameHistory ==
    ASSUME RestTypes, HistoryInv, UNCHANGED <<intent, installing, result, module, since>>,
           \A u \in UpgraderUpgrades :
              \/ outcome'[u] = outcome[u] \/ ~Began(u)'
              \/ Began(u) /\ (outcome'[u] = "Executed" => Wasm[u] \in since[u]),
           \A r \in Reconciles : EvidenceKept(r) \/ EvidenceGone(r)
    PROVE  HistoryInv'
  <1>1. \A k \in Upgrades : RanKept(k)
    BY DEF RanKept, Began
  <1> QED BY <1>1, HistorySteps

(* A reconciliation is proposed: what is seen after its upgrade was        *)
(* recorded ran since then.                                                *)
LEMMA ObservedHistory ==
    ASSUME LockInv, RestTypes, HistoryInv, NEW r \in Reconciles, NEW k \in Upgrades, Observe(r, k),
           UNCHANGED <<intent, installing, result, module, since>>,
           k \in UpgraderUpgrades => Began(k),
           r \in RecoveryReconciles => k \in Intents,
           \A u \in UpgraderUpgrades : outcome'[u] = outcome[u],
           \A q \in UpgraderReconciles : q # r => outcome'[q] = outcome[q],
           \A q \in RecoveryReconciles : q # r => recovery'[q] = recovery[q]
    PROVE  HistoryInv'
  <1>1. \A j \in Upgrades : RanSince(j)'
    BY RanStays DEF HistoryInv, RanKept, Began
  <1> DEFINE after == k \in Intents => intent[k] # "none"
  <1>2. evidence'[r] = [of |-> k, module |-> module[Target(k)], after |-> after]
    BY DEF Observe, RestTypes
  <1>3. evidence'[r] # None /\ \A q \in Reconciles : q # r => evidence'[q] = evidence[q]
    BY ObservedTypes DEF Observe, RestTypes
  <1>4. evidence'[r].of = k /\ evidence'[r].module = module[Target(k)]
    BY <1>2
  <1>5. evidence'[r].after => after
    <2> HIDE DEF after
    <2>1. evidence'[r].after = after
      BY <1>2
    <2> QED BY <2>1
  <1>6. k \notin Intents => evidence'[r].after
    <2>1. k \notin Intents => after = TRUE
      OBVIOUS
    <2> HIDE DEF after
    <2>2. evidence'[r].after = after
      BY <1>2
    <2> QED BY <2>1, <2>2
  <1>7. k \notin Intents => k \in UpgraderUpgrades
    BY DEF Upgrades
  <1>8. k \in UpgraderUpgrades => k \notin Intents
    BY Distinct DEF Intents
  <1>9. Sound(r)'
    <2>1. evidence'[r].after => module[Target(k)] \in since[k]
      BY <1>7, <1>5 DEF HistoryInv, RanSince
    <2> QED BY <1>4, <1>8, <1>6, <2>1 DEF Sound
  <1>10. Evidenced(r)'
    BY <1>3, <1>4 DEF Evidenced
  <1>11. ASSUME NEW q \in Reconciles, q # r PROVE Sound(q)' /\ Evidenced(q)'
    BY <1>3, <1>11 DEF HistoryInv, Sound, Evidenced
  <1> QED BY <1>1, <1>9, <1>10, <1>11 DEF HistoryInv

(* The evidence that is looked at when a reconciliation is decided.        *)
LEMMA DecidedRan ==
    ASSUME HistoryInv, NEW r \in Reconciles, evidence[r] # None, NEW k, k = evidence[r].of,
           evidence[r].after, Decision(r, k) = "Executed"
    PROVE  Wasm[k] \in since[k]
  BY DEF HistoryInv, Sound, Decision

LEMMA UpgraderUpgradeHistory ==
    ASSUME LockInv, RestTypes, HistoryInv, NEW u \in UpgraderUpgrades,
           ApproveUpgraderUpgrade(u) \/ UpgraderUpgradeReply(u)
    PROVE  HistoryInv'
  <1>1. UNCHANGED <<intent, recovery, evidence, module>>
    BY DEF ApproveUpgraderUpgrade, UpgraderUpgradeReply, BeginInstall, upgrader, management
  <1>2. u \in VaultProposals /\ u \in Upgrades /\ u \notin UpgraderReconciles
    BY Distinct DEF VaultProposals, Upgrades
  <1>3. \A q \in VaultProposals : q # u => outcome'[q] = outcome[q]
    BY Fields, <1>2 DEF ApproveUpgraderUpgrade, UpgraderUpgradeReply, Finalize, LockInv, RingTypes
  <1>4. \A r \in Reconciles : EvidenceKept(r)
    BY <1>1, <1>2, <1>3 DEF EvidenceKept, VaultProposals
  <1>5. ASSUME NEW k \in Upgrades, k # u PROVE RanKept(k)
    BY <1>1, <1>3, <1>5 DEF ApproveUpgraderUpgrade, UpgraderUpgradeReply, BeginInstall, Recorded,
       management, RanKept, Began, VaultProposals, RestTypes, LockInv, RingTypes
  <1>6. RanKept(u)
    <2>1. CASE ApproveUpgraderUpgrade(u)
      <3>1. since'[u] \in {since[u], since[u] \cup {module[Target(u)]}}
        BY <1>2, <2>1 DEF ApproveUpgraderUpgrade, BeginInstall, Recorded, management, RestTypes
      <3>2. \/ since'[u] = since[u] \cup {module[Target(u)]} /\ outcome'[u] = "Executing"
            \/ UNCHANGED installing /\ outcome'[u] = "Failed"
        BY <1>2, <2>1 DEF ApproveUpgraderUpgrade, BeginInstall, Recorded, management, RestTypes,
           Finalize, LockInv, RingTypes
      <3>3. UNCHANGED result
        BY <2>1 DEF ApproveUpgraderUpgrade, BeginInstall, management
      <3> QED BY <1>1, <1>2, <3>1, <3>2, <3>3, Distinct DEF RanKept, Began, Intents
    <2>2. CASE UpgraderUpgradeReply(u)
      <3>1. /\ UNCHANGED <<since, installing>> /\ result'[u] = None /\ result[u] # None
            /\ outcome'[u] = IF result[u] = "ok" THEN "Executed" ELSE "OutcomeUnknown"
        BY <1>2, <2>2 DEF UpgraderUpgradeReply, Finalize, LockInv, RingTypes
      <3>2. Began(u)
        BY <3>1 DEF LockInv, ProposalBacks, Began
      <3>3. outcome'[u] = "Executed" => Wasm[u] \in since[u]
        BY <1>2, <3>1 DEF HistoryInv, RanSince
      <3> QED BY <1>1, <1>2, <3>1, <3>2, <3>3, Distinct DEF RanKept, Intents
    <2> QED BY <2>1, <2>2
  <1> QED BY <1>4, <1>5, <1>6, HistorySteps

(* The evidence of an upgrade of the Upgrader is from after it began.      *)
LEMMA UpgraderReconcileHistory ==
    ASSUME LockInv, RestTypes, HistoryInv, NEW r \in UpgraderReconciles, ApproveUpgraderReconcile(r)
    PROVE  HistoryInv'
  <1>1. PICK u : u = evidence[r].of
    OBVIOUS
  <1>2. /\ UNCHANGED <<intent, recovery, installing, result, module, since>>
        /\ outcome[r] = "Pending" /\ Ended(r)
    BY DEF ApproveUpgraderReconcile, upgrader, management
  <1>3. /\ u \in UpgraderUpgrades /\ evidence[r] # None /\ r \in Reconciles /\ evidence[r].after
        /\ r \in VaultProposals /\ u \in VaultProposals /\ u # r
    BY <1>1, <1>2, Distinct DEF LockInv, ReconcilesAimed, HistoryInv, Sound, Evidenced, Reconciles,
       VaultProposals
  <1>4. /\ \A q \in VaultProposals : q # u /\ q # r => outcome'[q] = outcome[q]
        /\ outcome'[r] = "none"
        /\ \/ outcome'[u] = outcome[u]
           \/ outcome[u] = "OutcomeUnknown" /\ outcome'[u] = Decision(r, u)
    BY <1>1, <1>3 DEF ApproveUpgraderReconcile, Finalize, LockInv, RingTypes
  <1>5. Decision(r, u) = "Executed" => Wasm[u] \in since[u]
    BY <1>1, <1>3, DecidedRan
  <1>6. ASSUME NEW q \in Reconciles PROVE EvidenceKept(q) \/ EvidenceGone(q)
    <2>1. CASE q = r
      BY <1>2, <1>3, <1>4, <2>1, Distinct DEF Ended, EvidenceGone, RestTypes
    <2>2. CASE q # r
      BY <1>2, <1>3, <1>4, <2>2, Distinct DEF Ended, EvidenceKept, RestTypes, VaultProposals
    <2> QED BY <2>1, <2>2
  <1>7. \A w \in UpgraderUpgrades :
              \/ outcome'[w] = outcome[w] \/ ~Began(w)'
              \/ Began(w) /\ (outcome'[w] = "Executed" => Wasm[w] \in since[w])
    BY <1>3, <1>4, <1>5, Distinct DEF Began, VaultProposals
  <1> QED BY <1>2, <1>6, <1>7, SameHistory

LEMMA VaultStepHistory ==
    ASSUME LockInv, RestTypes, HistoryInv, CallsInv, VaultStep
    PROVE  HistoryInv'
  <1>1. ASSUME NEW p \in VaultUpgrades \cup UpgraderUpgrades, ProposeUpgrade(p) PROVE HistoryInv'
    <2>1. /\ UNCHANGED <<intent, recovery, evidence, installing, result, module, since>>
          /\ \A q \in VaultProposals : outcome'[q] = IF q = p THEN "Pending" ELSE outcome[q]
      BY <1>1, Fields DEF ProposeUpgrade, upgrader, management, VaultProposals
    <2>2. \A r \in Reconciles : EvidenceKept(r)
      BY <2>1, Distinct DEF EvidenceKept, VaultProposals
    <2>3. \A u \in UpgraderUpgrades : outcome'[u] = outcome[u] \/ ~Began(u)'
      BY <2>1 DEF Began, VaultProposals
    <2> QED BY <2>1, <2>2, <2>3, SameHistory
  <1>2. ASSUME NEW p \in VaultProposals, Withdraw(p) PROVE HistoryInv'
    <2>1. /\ UNCHANGED <<intent, recovery, installing, result, module, since>>
          /\ \A q \in VaultProposals : q # p => outcome'[q] = outcome[q]
          /\ outcome'[p] \in {"Withdrawn", "none"}
          /\ \A q \in Reconciles : q # p => evidence'[q] = evidence[q]
          /\ p \in Reconciles => evidence'[p] = None
      BY <1>2, Distinct DEF Withdraw, Finalize, Ended, upgrader, management, VaultProposals,
         Reconciles, LockInv, RingTypes
    <2>2. ASSUME NEW r \in Reconciles PROVE EvidenceKept(r) \/ EvidenceGone(r)
      <3>1. CASE r = p
        BY <2>1, <3>1, Distinct DEF EvidenceGone, VaultProposals
      <3>2. CASE r # p
        BY <2>1, <3>2 DEF EvidenceKept, VaultProposals
      <3> QED BY <3>1, <3>2
    <2>3. \A u \in UpgraderUpgrades : outcome'[u] = outcome[u] \/ ~Began(u)'
      BY <2>1 DEF Began, VaultProposals
    <2> QED BY <2>1, <2>2, <2>3, SameHistory
  <1>3. ASSUME NEW v \in VaultUpgrades, ApproveVaultUpgrade(v) \/ VaultUpgradeReply(v)
        PROVE  HistoryInv'
    <2>1. /\ UNCHANGED <<intent, recovery, evidence, installing, result, module, since>>
          /\ \A q \in VaultProposals : q # v => outcome'[q] = outcome[q]
      BY <1>3, Fields DEF ApproveVaultUpgrade, Call, VaultUpgradeReply, upgrader, management,
         VaultProposals
    <2>2. \A r \in Reconciles : EvidenceKept(r)
      BY <2>1, Distinct DEF EvidenceKept, VaultProposals
    <2>3. \A u \in UpgraderUpgrades : outcome'[u] = outcome[u]
      BY <2>1, Distinct DEF VaultProposals
    <2> QED BY <2>1, <2>2, <2>3, SameHistory
  <1>4. ASSUME NEW r \in VaultReconciles, ApproveVaultReconcile(r) \/ VaultReconcileReply(r)
        PROVE  HistoryInv'
    <2>1. /\ UNCHANGED <<intent, recovery, installing, result, module, since>>
          /\ UNCHANGED evidence \/ Ended(r)
      BY <1>4 DEF ApproveVaultReconcile, VaultReconcileReply, upgrader, management
    <2>2. \A q \in UpgraderUpgrades \cup UpgraderReconciles : outcome'[q] = outcome[q]
      <3>1. CASE ApproveVaultReconcile(r)
        BY <3>1, Fields, Distinct DEF ApproveVaultReconcile, Call, VaultProposals
      <3>2. CASE VaultReconcileReply(r)
        <4>1. evidence[r].of \in VaultUpgrades
          BY <3>2 DEF VaultReconcileReply, Resume, LockInv, ReconcilesAimed
        <4> QED BY <3>2, <4>1, Distinct DEF VaultReconcileReply, Finalize, LockInv, RingTypes,
               VaultProposals
      <3> QED BY <1>4, <3>1, <3>2
    <2>3. ASSUME NEW q \in Reconciles PROVE EvidenceKept(q) \/ EvidenceGone(q)
      <3>1. CASE evidence'[q] = evidence[q]
        BY <2>1, <2>2, <3>1 DEF EvidenceKept
      <3>2. CASE evidence'[q] # evidence[q]
        BY <2>1, <3>2, Distinct DEF Ended, EvidenceGone, RestTypes
      <3> QED BY <3>1, <3>2
    <2> QED BY <2>1, <2>2, <2>3, SameHistory
  <1>5. ASSUME NEW r \in VaultReconciles, NEW v \in VaultUpgrades, ProposeReconcileVaultUpgrade(r, v)
        PROVE  HistoryInv'
    <2>1. /\ UNCHANGED <<intent, recovery, installing, result, module, since>> /\ Observe(r, v)
          /\ \A q \in VaultProposals : q # r => outcome'[q] = outcome[q]
      BY <1>5, Fields DEF ProposeReconcileVaultUpgrade, upgrader, management, VaultProposals
    <2> QED BY <2>1, ObservedHistory, Distinct DEF VaultProposals, Reconciles, Upgrades, Intents
  <1>6. ASSUME NEW r \in UpgraderReconciles, NEW u \in UpgraderUpgrades,
               ProposeReconcileUpgraderUpgrade(r, u)
        PROVE  HistoryInv'
    <2>1. /\ UNCHANGED <<intent, recovery, installing, result, module, since>> /\ Observe(r, u)
          /\ \A q \in VaultProposals : q # r => outcome'[q] = outcome[q]
          /\ Began(u)
      BY <1>6, Fields DEF ProposeReconcileUpgraderUpgrade, Began, upgrader, management, VaultProposals
    <2> QED BY <2>1, ObservedHistory, Distinct DEF VaultProposals, Reconciles, Upgrades
  <1> QED BY <1>1, <1>2, <1>3, <1>4, <1>5, <1>6, UpgraderUpgradeHistory, UpgraderReconcileHistory
        DEF VaultStep, ProposeVaultReconcile, ProposeUpgraderReconcile

(* The Upgrader changes one intent: it is decided executed only if its     *)
(* module ran, and recorded when it is begun.                              *)
LEMMA IntentHistory ==
    ASSUME RestTypes, HistoryInv, NEW k \in Intents, UNCHANGED <<outcome, module>>,
           \A j \in Intents : j # k => intent'[j] = intent[j],
           \A j \in Upgrades : since'[j] \in {since[j], since[j] \cup {module[Target(j)]}},
           installing' \in {installing, installing \cup {k}},
           \A j \in Upgrades : result'[j] \in {result[j], None},
           \/ intent'[k] = intent[k] /\ installing' = installing
           \/ since'[k] = since[k] \cup {module[Target(k)]} /\ intent'[k] # "Executed"
           \/ /\ intent[k] # "none" /\ installing' = installing
              /\ intent'[k] = "Executed" => Wasm[k] \in since[k],
           \A r \in Reconciles : EvidenceKept(r) \/ EvidenceGone(r)
    PROVE  HistoryInv'
  <1>1. \A j \in Upgrades : RanKept(j)
    BY DEF RanKept, Began, Upgrades
  <1> QED BY <1>1, HistorySteps

LEMMA BegunHistory ==
    ASSUME RestTypes, NEW k \in Upgrades, BeginInstall(k) \/ (Recorded(k) /\ UNCHANGED <<installing, result, module>>)
    PROVE  /\ \A j \in Upgrades : since'[j] \in {since[j], since[j] \cup {module[Target(j)]}}
           /\ since'[k] = since[k] \cup {module[Target(k)]}
           /\ installing' \in {installing, installing \cup {k}} /\ UNCHANGED <<result, module>>
  BY DEF BeginInstall, Recorded, RestTypes

LEMMA TriggerHistory ==
    ASSUME LockInv, RestTypes, HistoryInv, NEW k \in Intents,
           \/ k \in VaultUpgrades /\ TriggerBegin(k)
           \/ k \in Triggers /\ (ProposeTrigger(k) \/ ApproveTrigger(k))
    PROVE  HistoryInv'
  <1>1. /\ UNCHANGED <<outcome, evidence>> /\ k \in Upgrades
        /\ \A j \in Intents : j # k => intent'[j] = intent[j]
        /\ \A r \in RecoveryReconciles : recovery'[r] = recovery[r]
    BY Distinct DEF TriggerBegin, ProposeTrigger, ApproveTrigger, SetIntent, vault, Upgrades,
       RecoveryProposals, LockInv, RingTypes
  <1>2. \/ /\ BeginInstall(k) \/ (Recorded(k) /\ UNCHANGED <<installing, result, module>>)
           /\ intent'[k] # "Executed"
        \/ UNCHANGED <<intent, installing, result, module, since>>
    BY DEF TriggerBegin, ProposeTrigger, ApproveTrigger, SetIntent, management, LockInv, RingTypes
  <1>3. \A r \in Reconciles : EvidenceKept(r)
    BY <1>1 DEF EvidenceKept
  <1>4. ASSUME BeginInstall(k) \/ (Recorded(k) /\ UNCHANGED <<installing, result, module>>),
               intent'[k] # "Executed"
        PROVE  HistoryInv'
    BY <1>1, <1>3, <1>4, BegunHistory, IntentHistory
  <1>5. ASSUME UNCHANGED <<intent, installing, result, module, since>> PROVE HistoryInv'
    BY <1>1, <1>3, <1>5, SameHistory
  <1> QED BY <1>2, <1>4, <1>5

(* An install that answers ok ran.                                         *)
LEMMA FinishIntentHistory ==
    ASSUME LockInv, RestTypes, HistoryInv, NEW k \in Intents, FinishIntent(k)
    PROVE  HistoryInv'
  <1>1. /\ UNCHANGED <<outcome, recovery, evidence, installing, module, since>> /\ k \in Upgrades
        /\ \A j \in Intents : j # k => intent'[j] = intent[j]
        /\ \A j \in Upgrades : result'[j] \in {result[j], None}
    BY DEF FinishIntent, SetIntent, vault, Upgrades, LockInv, RingTypes
  <1>2. intent[k] = "Executing" /\ result[k] # None
    BY DEF FinishIntent, LockInv, IntentBacks
  <1>3. intent'[k] = "Executed" => result[k] = "ok"
    BY DEF FinishIntent, SetIntent, LockInv, RingTypes
  <1>4. intent'[k] = "Executed" => Wasm[k] \in since[k]
    BY <1>1, <1>2, <1>3 DEF HistoryInv, RanSince
  <1>5. \A r \in Reconciles : EvidenceKept(r)
    BY <1>1 DEF EvidenceKept
  <1> QED BY <1>1, <1>2, <1>4, <1>5, IntentHistory

(* Evidence is accepted of an intent only if it is from after its record.  *)
LEMMA ReconcileForVaultHistory ==
    ASSUME LockInv, CallsInv, RestTypes, PlaneInv, HistoryInv, NEW r \in VaultReconciles,
           ReconcileForVault(r)
    PROVE  HistoryInv'
  <1>1. UNCHANGED <<outcome, recovery, evidence, installing, result, module, since>>
    BY DEF ReconcileForVault, vault, management
  <1>2. InQueue(r)
    BY Popped DEF ReconcileForVault, CallsInv, CallTypes, InQueue
  <1>3. PICK k : k = evidence[r].of
    OBVIOUS
  <1>4. evidence[r] # None /\ k \in Intents /\ r \in Reconciles
    BY <1>2, <1>3 DEF PlaneInv, Active, Quiet, ReconcileAgrees, Intents, Reconciles
  <1>5. \/ UNCHANGED intent
        \/ Acceptable(r, k) /\ SetIntent(k, Decision(r, k))
    BY <1>3 DEF ReconcileForVault
  <1>6. \A j \in Intents : j # k => intent'[j] = intent[j]
    BY <1>4, <1>5, Fields
  <1>7. \/ intent'[k] = intent[k]
        \/ intent[k] # "none" /\ (intent'[k] = "Executed" => Wasm[k] \in since[k])
    BY <1>3, <1>4, <1>5, DecidedRan, Fields DEF Acceptable
  <1>8. \A q \in Reconciles : EvidenceKept(q)
    BY <1>1 DEF EvidenceKept
  <1> QED BY <1>1, <1>4, <1>6, <1>7, <1>8, IntentHistory

LEMMA ApproveRecoveryReconcileHistory ==
    ASSUME LockInv, CallsInv, RestTypes, HistoryInv, NEW r \in RecoveryReconciles,
           ApproveRecoveryReconcile(r)
    PROVE  HistoryInv'
  <1>1. UNCHANGED <<outcome, installing, result, module, since>> /\ Ended(r) /\ recovery[r] = "Pending"
    BY DEF ApproveRecoveryReconcile, vault, management
  <1>2. PICK k : k = evidence[r].of
    OBVIOUS
  <1>3. evidence[r] # None /\ k \in Intents /\ r \in Reconciles
    BY <1>1, <1>2 DEF HistoryInv, Evidenced, Reconciles
  <1>4. \/ UNCHANGED intent
        \/ Acceptable(r, k) /\ SetIntent(k, Decision(r, k))
    BY <1>2 DEF ApproveRecoveryReconcile
  <1>5. \A j \in Intents : j # k => intent'[j] = intent[j]
    BY <1>3, <1>4, Fields
  <1>6. \/ intent'[k] = intent[k]
        \/ intent[k] # "none" /\ (intent'[k] = "Executed" => Wasm[k] \in since[k])
    BY <1>2, <1>3, <1>4, DecidedRan, Fields DEF Acceptable
  <1>7. \A q \in RecoveryProposals : recovery'[q] = IF q = r THEN "none" ELSE recovery[q]
    BY DEF ApproveRecoveryReconcile, LockInv, RingTypes
  <1>8. ASSUME NEW q \in Reconciles PROVE EvidenceKept(q) \/ EvidenceGone(q)
    <2>1. CASE q = r
      BY <1>1, <1>3, <1>7, <2>1, Distinct DEF Ended, EvidenceGone, RestTypes, RecoveryProposals
    <2>2. CASE q # r
      BY <1>1, <1>7, <2>2 DEF Ended, EvidenceKept, RestTypes, RecoveryProposals
    <2> QED BY <2>1, <2>2
  <1> QED BY <1>1, <1>3, <1>5, <1>6, <1>8, IntentHistory

(* What is withdrawn, or failed by a rotation, was recorded and is not     *)
(* called executed.                                                        *)
LEMMA ClosedHistory ==
    ASSUME LockInv, RestTypes, HistoryInv,
           Rotate \/ \E p \in RecoveryProposals : WithdrawRecovery(p)
    PROVE  HistoryInv'
  <1>1. UNCHANGED <<outcome, installing, result, module, since>>
    BY DEF Rotate, WithdrawRecovery, vault, management
  <1>2. \A k \in Intents : intent'[k] = intent[k] \/ (intent[k] # "none" /\ intent'[k] # "Executed")
    BY DEF Rotate, WithdrawRecovery, SetIntent, LockInv, RingTypes, TriggersLinked
  <1>3. \A k \in Upgrades : RanKept(k)
    BY <1>1, <1>2 DEF RanKept, Began
  <1>4. ASSUME NEW q \in Reconciles PROVE EvidenceKept(q) \/ EvidenceGone(q)
    <2>1. CASE Rotate
      <3>1. evidence'[q] = IF q \in RecoveryReconciles THEN None ELSE evidence[q]
        BY <2>1 DEF Rotate
      <3>2. q \in RecoveryReconciles => recovery'[q] = "none"
        BY <2>1 DEF Rotate, RecoveryProposals
      <3> QED BY <1>1, <3>1, <3>2, Distinct DEF EvidenceKept, EvidenceGone
    <2>2. ASSUME NEW p \in RecoveryProposals, WithdrawRecovery(p)
          PROVE  EvidenceKept(q) \/ EvidenceGone(q)
      <3>1. \A j \in RecoveryProposals : j # p => recovery'[j] = recovery[j]
        BY <2>2 DEF WithdrawRecovery, LockInv, RingTypes
      <3>2. \/ p \in Triggers /\ UNCHANGED evidence
            \/ p \in RecoveryReconciles /\ Ended(p) /\ recovery'[p] = "none"
        BY <2>2 DEF WithdrawRecovery, LockInv, RingTypes
      <3>3. CASE q = p
        BY <1>1, <3>2, <3>3, Distinct DEF Ended, EvidenceGone, RestTypes, Reconciles
      <3>4. CASE q # p
        BY <1>1, <3>1, <3>2, <3>4 DEF Ended, EvidenceKept, RestTypes, RecoveryProposals
      <3> QED BY <3>3, <3>4
    <2> QED BY <2>1, <2>2
  <1> QED BY <1>3, <1>4, HistorySteps

LEMMA UpgraderStepHistory ==
    ASSUME LockInv, CallsInv, RestTypes, PlaneInv, HistoryInv, UpgraderStep
    PROVE  HistoryInv'
  <1>1. ASSUME NEW k \in RingCalls \cup Triggers, RefreshDone(k) PROVE HistoryInv'
    <2>1. /\ UNCHANGED <<outcome, intent, evidence, installing, result, module, since>>
          /\ \A r \in RecoveryReconciles : recovery'[r] = recovery[r]
      BY <1>1, Distinct DEF RefreshDone, vault, management, LockInv, RingTypes, RecoveryProposals
    <2>2. \A r \in Reconciles : EvidenceKept(r)
      BY <2>1 DEF EvidenceKept
    <2> QED BY <2>1, <2>2, SameHistory
  <1>2. ASSUME NEW r \in RecoveryReconciles, NEW k \in Intents, ProposeRecoveryReconcile(r, k)
        PROVE  HistoryInv'
    <2>1. /\ UNCHANGED <<outcome, intent, installing, result, module, since>> /\ Observe(r, k)
          /\ \A q \in RecoveryReconciles : q # r => recovery'[q] = recovery[q]
      BY <1>2 DEF ProposeRecoveryReconcile, vault, management, LockInv, RingTypes, RecoveryProposals
    <2> QED BY <2>1, ObservedHistory, Distinct DEF Reconciles, Upgrades, Intents
  <1>3. ASSUME NEW v \in VaultUpgrades, TriggerBegin(v) PROVE HistoryInv'
    BY <1>3, TriggerHistory DEF Intents
  <1>4. ASSUME NEW t \in Triggers, ProposeTrigger(t) \/ ApproveTrigger(t) PROVE HistoryInv'
    BY <1>4, TriggerHistory DEF Intents
  <1> QED BY <1>1, <1>2, <1>3, <1>4, FinishIntentHistory, ReconcileForVaultHistory,
     ApproveRecoveryReconcileHistory, ClosedHistory DEF UpgraderStep

(* An install that lands runs, and everything recorded before saw it run.  *)
LEMMA InstallLandsHistory ==
    ASSUME LockInv, RestTypes, HistoryInv, NEW k \in Upgrades, InstallLands(k)
    PROVE  HistoryInv'
  <1>1. UNCHANGED <<outcome, intent, recovery, evidence>> /\ installing' = installing \ {k}
    BY DEF InstallLands, VaultUpgraded, UpgraderUpgraded, ServedCallsFail
  <1>2. \A j \in Upgrades :
           /\ since'[j] = IF Target(j) = Target(k) /\ since[j] # {} THEN since[j] \cup {Wasm[k]} ELSE since[j]
           /\ module'[Target(j)] = IF Target(j) = Target(k) THEN Wasm[k] ELSE module[Target(j)]
    BY TargetRuns DEF InstallLands, RestTypes
  <1>3. \A j \in Upgrades : j # k => result'[j] \in {result[j], None}
    BY DEF InstallLands
  <1>4. since[k] # {}
    BY DEF InstallLands, HistoryInv, RanSince
  <1>5. \A j \in Upgrades : Target(j)' = Target(j)
    BY DEF Target
  <1>6. ASSUME NEW j \in Upgrades PROVE RanSince(j)'
    <2>1. since[j] \subseteq since'[j] /\ (since'[j] # {} => since[j] # {} /\ module'[Target(j)] \in since'[j])
      BY <1>2 DEF HistoryInv, RanSince
    <2>2. result'[j] # None /\ result'[j] = "ok" => Wasm[j] \in since'[j]
      <3>1. CASE j = k
        BY <1>2, <1>4, <3>1
      <3>2. CASE j # k
        BY <1>3, <2>1, <3>2 DEF HistoryInv, RanSince
      <3> QED BY <3>1, <3>2
    <2> QED BY <1>1, <1>5, <2>1, <2>2 DEF HistoryInv, RanSince, Began
  <1>7. ASSUME NEW r \in Reconciles PROVE Sound(r)' /\ Evidenced(r)'
    <2>1. evidence[r] # None => evidence[r].of \in Upgrades
      BY DEF RestTypes, Observations
    <2>2. \A j \in Upgrades : since[j] \subseteq since'[j]
      BY <1>2
    <2>3. Sound(r)'
      BY <1>1, <2>1, <2>2 DEF HistoryInv, Sound
    <2> QED BY <1>1, <2>3 DEF HistoryInv, Evidenced
  <1> QED BY <1>6, <1>7 DEF HistoryInv

LEMMA PlatformStepHistory ==
    ASSUME LockInv, RestTypes, HistoryInv, PlatformStep
    PROVE  HistoryInv'
  <1>1. ASSUME NEW k \in Upgrades, InstallRejected(k) PROVE HistoryInv'
    <2>1. /\ UNCHANGED <<outcome, intent, recovery, evidence, module, since>> /\ installing' = installing \ {k}
          /\ \A j \in Upgrades : result'[j] \in {result[j], None, "rejected"}
      BY <1>1 DEF InstallRejected, vault, upgrader, LockInv, RingTypes
    <2>2. \A j \in Upgrades : RanKept(j)
      BY <2>1 DEF RanKept, Began
    <2>3. \A r \in Reconciles : EvidenceKept(r)
      BY <2>1 DEF EvidenceKept
    <2> QED BY <2>2, <2>3, HistorySteps
  <1>2. ASSUME RequestLost PROVE HistoryInv'
    <2>1. UNCHANGED <<outcome, intent, recovery, evidence, installing, result, module, since>>
      BY <1>2 DEF RequestLost, vault, upgrader, management
    <2>2. \A r \in Reconciles : EvidenceKept(r)
      BY <2>1 DEF EvidenceKept
    <2> QED BY <2>1, <2>2, SameHistory
  <1> QED BY <1>1, <1>2, InstallLandsHistory DEF PlatformStep

LEMMA NextHistory ==
    LockInv /\ CallsInv /\ RestTypes /\ PlaneInv /\ HistoryInv /\ [Next]_vars => HistoryInv'
  <1>1. ASSUME RestTypes, HistoryInv, UNCHANGED vars PROVE HistoryInv'
    <2>1. \A r \in Reconciles : EvidenceKept(r)
      BY <1>1 DEF EvidenceKept, vars, vault, upgrader
    <2> QED BY <1>1, <2>1, SameHistory DEF vars, vault, upgrader, management
  <1> QED BY <1>1, VaultStepHistory, UpgraderStepHistory, PlatformStepHistory DEF Next

LEMMA InitHistory == Init => HistoryInv
  BY Distinct DEF Init, HistoryInv, RanSince, Began, Sound, Evidenced, VaultProposals,
     RecoveryProposals, Intents, Upgrades, Reconciles

LEMMA HistoryInvariant == Spec => []HistoryInv
  BY InitHistory, NextHistory, LockInvariant, CallsInvariant, RestTyped, PlaneInvariant, PTL DEF Spec

(* An upgrade is called executed, by the Upgrader or of the Upgrader, only *)
(* if its module ran at some time since it was recorded: whether its own   *)
(* install answered or evidence decided it.                                *)
THEOREM ExecutedWasLiveAlways == Spec => []ExecutedWasLive
  <1>1. HistoryInv => ExecutedWasLive
    BY DEF HistoryInv, RanSince, ExecutedWasLive, Upgrades
  <1> QED BY <1>1, HistoryInvariant, PTL
=============================================================================
