------------------------ MODULE TreasuryFlow_proofs ------------------------
(***************************************************************************)
(* The withdrawals and the fee reports, for any number of proposals,       *)
(* calls, fees, failures, upgrades and wrong answers of the operator.      *)
(*                                                                         *)
(* Paid at most once: a request for a payment leaves the pool only under a *)
(* record that says PendingTransfer; a record of which a request left is   *)
(* removed only by an answer that refuses it, or with a tombstone, and     *)
(* under either the record or the tombstone the pool sends no second one.  *)
(*                                                                         *)
(* Losses are visible: a report is awaited and counted until its callback  *)
(* or the upgrade that drops the callback takes it off the count.          *)
(*                                                                         *)
(* The money: every step leaves reserve, bucket and records alone, or is   *)
(* a fee earned, a fee credited, a debit taken, given back, or booked by   *)
(* the treasury (MoneyStep).  A debit is booked at the total it was taken  *)
(* at, because a call knows its record's fee (FeeInv), an answer tells the *)
(* truth (AnswerInv) and a turn its call's total (LinkInv); the bucket     *)
(* covers it, because it covers all it has admitted (RoomInv).             *)
(***************************************************************************)
EXTENDS TreasuryFlow, FiniteSums, TLAPS

CallRecords ==
    [pc : {"free", "sent", "validation", "transfer", "answered", "replied"},
     p : Proposals \cup {None}, fee : Int \cup {None}, awaited : BOOLEAN,
     stamp : Int \cup {None},
     reply : {"settled", "refused", "window", "lost", "executed", "retired", "conflict",
              "failed", "transport", None}]
Reservations == [status : Statuses, total : Int \cup {None}]
Turns == [pc : {"idle", "fee", "pool"}, retry : BOOLEAN, frozen : Int \cup {None},
          total : Int \cup {None}, call : Calls \cup {None}]

(* What the argument needs of the types.                                   *)
Types ==
    /\ rec \in [Proposals -> Disbursements \cup {None}]
    /\ tomb \in [Proposals -> Verdicts \cup {None}]
    /\ call \in [Calls -> CallRecords]
    /\ rsv \in [Proposals -> Reservations] /\ turn \in [Proposals -> Turns]
    /\ stamps \in [Proposals -> Int] /\ fee \in Fees
    /\ \A h \in Calls : call[h].pc # "free" => call[h].p \in Proposals
    /\ \A p \in Proposals : turn[p].pc = "pool" => turn[p].call \in Calls

Live(h) == call[h].pc \in {"validation", "transfer", "answered"}
Sent == ledger \cup orphans

(* A call that works on a disbursement has a record without tombstone.     *)
LiveHasRecord ==
    \A h \in Calls : Live(h) =>
        /\ tomb[call[h].p] = None /\ rec[call[h].p] # None
        /\ rec[call[h].p].status =
              IF call[h].pc = "validation" THEN "PendingValidation" ELSE "PendingTransfer"

OneLiveCall ==
    \A h, g \in Calls : Live(h) /\ Live(g) /\ call[h].p = call[g].p => h = g

(* Whatever was requested is remembered.                                   *)
SentIsKnown ==
    \A q \in Sent :
        /\ q.p \in Proposals
        /\ tomb[q.p] # None \/ (rec[q.p] # None /\ rec[q.p].status # "PendingValidation")

(* A call that is about to request a payment, or was refused, is the first.*)
FirstRequest ==
    \A h \in Calls :
        call[h].pc = "transfer" \/ (call[h].pc = "answered" /\ call[h].reply = "refused") =>
            \A q \in Sent : q.p # call[h].p

SentOnce == \A q1, q2 \in Sent : q1.p = q2.p => q1 = q2

PaidInv == LiveHasRecord /\ OneLiveCall /\ SentIsKnown /\ FirstRequest /\ SentOnce

books == <<rec, tomb, call, ledger, orphans>>

-----------------------------------------------------------------------------
(* A call replaced by a well-formed one.                                   *)
LEMMA CallUpdate ==
    ASSUME Types, NEW h \in Calls, NEW c \in CallRecords, c.pc # "free" => c.p \in Proposals,
           call' = [call EXCEPT ![h] = c]
    PROVE  /\ call' \in [Calls -> CallRecords]
           /\ \A g \in Calls : call'[g].pc # "free" => call'[g].p \in Proposals
  BY DEF Types

(* The record a reply leaves of its call.                                  *)
LEMMA AnsweredTypes ==
    ASSUME Types, NEW h \in Calls, NEW r, Answered(h, r), call[h].pc # "free",
           r \in {"executed", "retired", "conflict", "failed", "transport"}
    PROVE  /\ call' \in [Calls -> CallRecords]
           /\ \A g \in Calls : call'[g].pc # "free" => call'[g].p \in Proposals
  <1> DEFINE new == IF call[h].awaited THEN [call[h] EXCEPT !.pc = "replied", !.reply = r]
                    ELSE FreeCall
  <1>1. call \in [Calls -> CallRecords] /\ call[h].p \in Proposals
    BY DEF Types
  <1>2. call' = [call EXCEPT ![h] = new]
    BY DEF Answered
  <1>3. new \in CallRecords /\ (new.pc # "free" => new.p \in Proposals)
    <2>1. CASE call[h].awaited
      BY <1>1, <2>1 DEF CallRecords
    <2>2. CASE ~call[h].awaited
      BY <2>2 DEF CallRecords, FreeCall
    <2> QED BY <2>1, <2>2
  <1> HIDE DEF new
  <1> QED BY <1>1, <1>2, <1>3 DEF Types

(* The answer of a call ends it, and touches no other one.                 *)
LEMMA AnsweredIsOver ==
    ASSUME Types, NEW h \in Calls, NEW r, Answered(h, r)
    PROVE  /\ call'[h].pc \in {"free", "replied"}
           /\ \A g \in Calls : g # h => call'[g] = call[g]
  BY DEF Types, Answered, CallRecords, FreeCall

-----------------------------------------------------------------------------
LEMMA InitTypes == Init => Types
  BY TreasuryAssumption DEF Init, Types, NoReservation, IdleTurn, FreeCall, CallRecords,
     Reservations, Turns, Statuses

(* The steps of the treasury.                                              *)
LEMMA TreasuryTypes ==
    ASSUME Types, NEW p \in Proposals, TreasuryStep(p)
    PROVE  Types'
  <1>1. CASE Propose(p)
    BY <1>1 DEF Types, Propose, disbursal, token
  <1>2. CASE Execute(p)
    <2>1. rsv' \in [Proposals -> Reservations]
      BY <1>2 DEF Types, Execute, Settle, Reservations, Statuses
    <2>2. turn' \in [Proposals -> Turns]
      BY <1>2 DEF Types, Execute, IdleTurn, Turns, Reservations
    <2>3. \A q \in Proposals : turn'[q].pc = "pool" => turn'[q].call \in Calls
      BY <1>2 DEF Types, Execute, IdleTurn
    <2> QED BY <1>2, <2>1, <2>2, <2>3 DEF Types, Execute, disbursal, token
  <1>3. CASE FeeFails(p)
    <2>1. rsv' \in [Proposals -> Reservations]
      BY <1>3 DEF Types, FeeFails, LocalRefusal, Settle, Reservations, Statuses
    <2>2. turn' \in [Proposals -> Turns]
      BY <1>3 DEF Types, FeeFails, LocalRefusal, IdleTurn, Turns
    <2>3. \A q \in Proposals : turn'[q].pc = "pool" => turn'[q].call \in Calls
      BY <1>3 DEF Types, FeeFails, LocalRefusal, IdleTurn
    <2> QED BY <1>3, <2>1, <2>2, <2>3 DEF Types, FeeFails, disbursal, token
  <1>4. CASE FeeReply(p)
    <2> DEFINE total == TotalDebit(p)
    <2>1. total \in Int /\ total - Amount[p] \in Int
      BY TreasuryAssumption DEF Types, TotalDebit, Turns
    <2>2. CASE Admitted(p, total)
      <3>1. PICK h \in Calls :
              /\ call' = [call EXCEPT ![h] =
                    [pc |-> "sent", p |-> p, fee |-> total - Amount[p], awaited |-> TRUE,
                     stamp |-> None, reply |-> None]]
              /\ turn' = [turn EXCEPT ![p].pc = "pool", ![p].total = total, ![p].call = h]
              /\ rsv' = [rsv EXCEPT ![p].total = total]
        BY <1>4, <2>2 DEF FeeReply
      <3> HIDE DEF total
      <3>2. rsv' \in [Proposals -> Reservations]
        BY <3>1, <2>1 DEF Types, Reservations
      <3>3. /\ turn' \in [Proposals -> Turns]
            /\ \A q \in Proposals : turn'[q].pc = "pool" => turn'[q].call \in Calls
        <4> DEFINE new == [turn[p] EXCEPT !.pc = "pool", !.total = total, !.call = h]
        <4>1. turn' = [turn EXCEPT ![p] = new]
          BY <3>1 DEF Types
        <4>2. ASSUME NEW c \in Turns, NEW n \in Int
              PROVE  LET d == [c EXCEPT !.pc = "pool", !.total = n, !.call = h]
                     IN d \in Turns /\ d.call \in Calls
          BY DEF Turns
        <4>3. turn[p] \in Turns
          BY DEF Types
        <4>4. new \in Turns /\ new.call \in Calls
          BY <2>1, <4>2, <4>3
        <4> HIDE DEF new
        <4> QED BY <4>1, <4>4 DEF Types
      <3>4. /\ call' \in [Calls -> CallRecords]
            /\ \A g \in Calls : call'[g].pc # "free" => call'[g].p \in Proposals
        BY <3>1, <2>1 DEF Types, CallRecords
      <3>5. UNCHANGED <<rec, tomb, stamps, fee>>
        BY <1>4 DEF FeeReply, token
      <3> QED BY <3>2, <3>3, <3>4, <3>5 DEF Types
    <2>3. CASE ~Admitted(p, total)
      <3>1. LocalRefusal(p) /\ UNCHANGED call
        BY <1>4, <2>3 DEF FeeReply
      <3>2. rsv' \in [Proposals -> Reservations]
        BY <3>1 DEF Types, LocalRefusal, Settle, Reservations, Statuses
      <3>3. turn' \in [Proposals -> Turns]
        BY <3>1 DEF Types, LocalRefusal, IdleTurn, Turns
      <3>4. \A q \in Proposals : turn'[q].pc = "pool" => turn'[q].call \in Calls
        BY <3>1 DEF Types, LocalRefusal, IdleTurn
      <3> QED BY <1>4, <3>1, <3>2, <3>3, <3>4 DEF Types, FeeReply, token
    <2> QED BY <2>2, <2>3
  <1>5. CASE PoolReply(p)
    <2>1. \E s \in Statuses : rsv' = [rsv EXCEPT ![p].status = s]
      BY <1>5 DEF PoolReply, Settle, Statuses
    <2>2. rsv' \in [Proposals -> Reservations]
      BY <2>1 DEF Types, Reservations
    <2>3. turn' \in [Proposals -> Turns]
      BY <1>5 DEF Types, PoolReply, IdleTurn, Turns
    <2>4. \A q \in Proposals : turn'[q].pc = "pool" => turn'[q].call \in Calls
      BY <1>5 DEF Types, PoolReply, IdleTurn
    <2>5. /\ call' \in [Calls -> CallRecords]
          /\ \A g \in Calls : call'[g].pc # "free" => call'[g].p \in Proposals
      BY <1>5 DEF Types, PoolReply, FreeCall, CallRecords
    <2> QED BY <1>5, <2>2, <2>3, <2>4, <2>5 DEF Types, PoolReply, token
  <1>6. CASE Reject(p)
    BY <1>6 DEF Types, Reject, disbursal, token
  <1> QED BY <1>1, <1>2, <1>3, <1>4, <1>5, <1>6 DEF TreasuryStep

(* The reports of fees touch neither the withdrawals nor the token.        *)
LEMMA FeesApart ==
    FeeStep => UNCHANGED <<rec, tomb, call, ledger, orphans, rsv, turn, stamps, fee>>
  BY DEF FeeStep, EarnShieldFee, EarnSpendFee, FlushFeeAccrual, ReceiveFeeSplit, NoticeFails,
     NoticeReply, treasury, disbursal, token

(* The steps of the pool.                                                  *)
LEMMA PoolTypes ==
    ASSUME Types, LiveHasRecord, NEW h \in Calls, PoolStep(h)
    PROVE  Types'
  <1> DEFINE p == call[h].p
  <1>0. call[h].pc # "free" => p \in Proposals
    BY DEF Types
  <1>1. CASE TreasuryDisburse(h)
    <2>1. CASE Known(p)
      <3>1. Answered(h, PriorAnswer(p, call[h].fee))
        BY <1>1, <2>1 DEF TreasuryDisburse
      <3>2. PriorAnswer(p, call[h].fee) \in {"executed", "retired", "conflict", "failed", "transport"}
        BY DEF PriorAnswer
      <3>3. /\ call' \in [Calls -> CallRecords]
            /\ \A g \in Calls : call'[g].pc # "free" => call'[g].p \in Proposals
        BY <1>1, <3>1, <3>2, AnsweredTypes DEF TreasuryDisburse
      <3> QED BY <1>1, <2>1, <3>3 DEF Types, TreasuryDisburse, treasury, token
    <2>2. CASE ~Known(p)
      <3>1. rec' \in [Proposals -> Disbursements \cup {None}]
        BY <1>1, <2>2 DEF Types, TreasuryDisburse, CallRecords, Disbursements
      <3>2. /\ call' \in [Calls -> CallRecords]
            /\ \A g \in Calls : call'[g].pc # "free" => call'[g].p \in Proposals
        BY <1>0, <1>1, <2>2 DEF Types, TreasuryDisburse, CallRecords
      <3> QED BY <1>1, <2>2, <3>1, <3>2 DEF Types, TreasuryDisburse, treasury, token
    <2> QED BY <2>1, <2>2
  <1>2. CASE Validated(h)
    <2> DEFINE total == Amount[p] + call[h].fee
               valid == call[h].fee = fee /\ total <= reserve
    <2>1. CASE valid
      <3>1. /\ stamps' = [stamps EXCEPT ![p] = @ + 1]
            /\ rec' = [rec EXCEPT ![p].status = "PendingTransfer", ![p].stamp = stamps[p] + 1]
            /\ call' = [call EXCEPT ![h].pc = "transfer", ![h].stamp = stamps[p] + 1]
            /\ call[h].pc = "validation"
        BY <1>2, <2>1 DEF Validated
      <3>2. p \in Proposals /\ stamps[p] + 1 \in Int
        BY <1>0, <3>1 DEF Types
      <3>3. stamps' \in [Proposals -> Int]
        BY <3>1, <3>2 DEF Types
      <3>4. rec[p] # None
        BY <3>1, <3>2 DEF LiveHasRecord, Live
      <3>5. rec' \in [Proposals -> Disbursements \cup {None}]
        BY <3>1, <3>2, <3>4 DEF Types, Disbursements
      <3>6. /\ call' \in [Calls -> CallRecords]
            /\ \A g \in Calls : call'[g].pc # "free" => call'[g].p \in Proposals
        <4> DEFINE new == [call[h] EXCEPT !.pc = "transfer", !.stamp = stamps[p] + 1]
        <4>1. call' = [call EXCEPT ![h] = new]
          BY <3>1 DEF Types
        <4>2. new \in CallRecords /\ new.p \in Proposals
          BY <3>2 DEF Types, CallRecords
        <4> HIDE DEF new
        <4> QED BY <4>1, <4>2, CallUpdate
      <3>7. UNCHANGED <<tomb, rsv, turn, fee>>
        BY <1>2 DEF Validated, treasury, token
      <3> QED BY <3>3, <3>5, <3>6, <3>7 DEF Types
    <2>2. CASE ~valid
      <3>1. Remove(p) /\ Answered(h, "failed") /\ UNCHANGED stamps /\ call[h].pc # "free"
        BY <1>2, <2>2 DEF Validated
      <3>2. UNCHANGED <<tomb, rsv, turn, fee>>
        BY <1>2 DEF Validated, treasury, token
      <3> QED BY <3>1, <3>2, AnsweredTypes DEF Types, Remove
    <2> QED BY <2>1, <2>2
  <1>3. CASE ValidationFails(h)
    <2>1. Remove(p) /\ Answered(h, "failed") /\ UNCHANGED stamps /\ call[h].pc # "free"
      BY <1>3 DEF ValidationFails
    <2>2. UNCHANGED <<tomb, rsv, turn, fee>>
      BY <1>3 DEF ValidationFails, treasury, token
    <2> QED BY <2>1, <2>2, AnsweredTypes DEF Types, Remove
  <1>4. CASE TransferReply(h)
    <2>1. UNCHANGED <<tomb, rsv, turn, fee, stamps>> /\ call[h].pc # "free" /\ p \in Proposals
      BY <1>0, <1>4 DEF TransferReply, treasury, token
    <2>2. Answered(h, "executed") \/ Answered(h, "failed")
      BY <1>4 DEF TransferReply
    <2>3. /\ call' \in [Calls -> CallRecords]
          /\ \A g \in Calls : call'[g].pc # "free" => call'[g].p \in Proposals
      BY <2>1, <2>2, AnsweredTypes
    <2>4. SetStatus(p, "Executed") \/ SetStatus(p, "TransportUnknown") \/ Remove(p)
      BY <1>4 DEF TransferReply
    <2>5. rec' \in [Proposals -> Disbursements \cup {None}]
      BY <2>1, <2>4 DEF Types, SetStatus, Remove, Disbursements
    <2> QED BY <2>1, <2>3, <2>5 DEF Types
  <1>5. CASE CallbackTraps(h)
    <2>1. UNCHANGED <<rec, tomb, rsv, turn, fee, stamps>> /\ call[h].pc # "free"
      BY <1>5 DEF CallbackTraps, treasury, token
    <2>2. Answered(h, "transport")
      BY <1>5 DEF CallbackTraps
    <2> QED BY <2>1, <2>2, AnsweredTypes DEF Types
  <1> QED BY <1>1, <1>2, <1>3, <1>4, <1>5 DEF PoolStep

(* The steps of the token and of the network.                              *)
LEMMA TokenTypes ==
    ASSUME Types, NEW h \in Calls, TokenStep(h)
    PROVE  Types'
  <1>0. ASSUME NEW r \in {"settled", "refused", "window", "lost"}, call[h].pc # "free",
               call' = [call EXCEPT ![h].pc = "answered", ![h].reply = r]
        PROVE  /\ call' \in [Calls -> CallRecords]
               /\ \A g \in Calls : call'[g].pc # "free" => call'[g].p \in Proposals
    <2> DEFINE new == [call[h] EXCEPT !.pc = "answered", !.reply = r]
    <2>1. call' = [call EXCEPT ![h] = new]
      BY <1>0 DEF Types
    <2>2. call[h] \in CallRecords /\ call[h].p \in Proposals
      BY <1>0 DEF Types
    <2>3. new \in CallRecords /\ new.p \in Proposals
      BY <1>0, <2>2 DEF CallRecords
    <2> HIDE DEF new
    <2> QED BY <2>1, <2>3, CallUpdate
  <1>1. CASE LedgerTransfer(h)
    <2>1. /\ call[h].pc # "free"
          /\ \/ call' = [call EXCEPT ![h].pc = "answered", ![h].reply = "refused"]
             \/ call' = [call EXCEPT ![h].pc = "answered", ![h].reply = "settled"]
      BY <1>1 DEF LedgerTransfer
    <2>2. UNCHANGED <<rec, tomb, rsv, turn, fee, stamps>>
      BY <1>1 DEF LedgerTransfer, treasury
    <2> QED BY <1>0, <2>1, <2>2 DEF Types
  <1>2. CASE LedgerRefuses(h, "refused") \/ LedgerRefuses(h, "window")
    <2>1. /\ call[h].pc # "free"
          /\ \/ call' = [call EXCEPT ![h].pc = "answered", ![h].reply = "refused"]
             \/ call' = [call EXCEPT ![h].pc = "answered", ![h].reply = "window"]
      BY <1>2 DEF LedgerRefuses
    <2>2. UNCHANGED <<rec, tomb, rsv, turn, fee, stamps>>
      BY <1>2 DEF LedgerRefuses, treasury, token
    <2> QED BY <1>0, <2>1, <2>2 DEF Types
  <1>3. CASE CallFails(h)
    <2>1. UNCHANGED <<rec, tomb, rsv, turn, fee, stamps>> /\ call[h].pc # "free"
      BY <1>3 DEF CallFails, treasury, token
    <2>2. \/ Answered(h, "transport")
          \/ call' = [call EXCEPT ![h].pc = "answered", ![h].reply = "lost"]
      BY <1>3 DEF CallFails
    <2> QED BY <1>0, <2>1, <2>2, AnsweredTypes DEF Types
  <1> QED BY <1>1, <1>2, <1>3 DEF TokenStep

(* The operator's decision about a record.                                 *)
LEMMA DecideTypes ==
    ASSUME Types, NEW p \in Proposals, Decide(p)
    PROVE  Types'
  <1>1. PICK outcome \in Verdicts : Reconcile(p, outcome)
    BY DEF Decide, Verdicts
  <1>2. UNCHANGED <<call, rsv, turn, fee, stamps>>
    BY <1>1 DEF Reconcile, treasury, token
  <1>3. tomb' \in [Proposals -> Verdicts \cup {None}]
    BY <1>1 DEF Reconcile, Types
  <1>4. Remove(p) \/ SetStatus(p, "Executed")
    BY <1>1 DEF Reconcile
  <1>5. rec' \in [Proposals -> Disbursements \cup {None}]
    BY <1>4 DEF Types, Remove, SetStatus, Disbursements
  <1> QED BY <1>2, <1>3, <1>5 DEF Types

LEMMA TreasuryUpgradeTypes == Types /\ TreasuryUpgrade => Types'
  <1> SUFFICES ASSUME Types, TreasuryUpgrade PROVE Types'
    OBVIOUS
  <1>1. rsv' \in [Proposals -> Reservations]
    BY DEF Types, TreasuryUpgrade, Reservations, Statuses
  <1>2. /\ turn' \in [Proposals -> Turns]
        /\ \A p \in Proposals : turn'[p].pc # "pool"
    BY DEF TreasuryUpgrade, IdleTurn, Turns
  <1>3. /\ call' \in [Calls -> CallRecords]
        /\ \A g \in Calls : call'[g].pc # "free" => call'[g].p \in Proposals
    <2>1. FreeCall \in CallRecords /\ FreeCall.pc = "free"
      BY DEF CallRecords, FreeCall
    <2>2. ASSUME NEW c \in CallRecords
          PROVE  LET d == [c EXCEPT !.awaited = FALSE]
                 IN d \in CallRecords /\ d.p = c.p /\ d.pc = c.pc
      BY DEF CallRecords
    <2>3. /\ call' = [g \in Calls |-> call'[g]]
          /\ \A g \in Calls :
                call'[g] = FreeCall \/ call'[g] = [call[g] EXCEPT !.awaited = FALSE]
      BY DEF TreasuryUpgrade
    <2>4. ASSUME NEW g \in Calls
          PROVE  call'[g] \in CallRecords /\ (call'[g].pc # "free" => call'[g].p \in Proposals)
      <3>1. call[g] \in CallRecords /\ (call[g].pc # "free" => call[g].p \in Proposals)
        BY DEF Types
      <3> QED BY <2>1, <2>2, <2>3, <3>1
    <2> QED BY <2>3, <2>4
  <1> QED BY <1>1, <1>2, <1>3 DEF Types, TreasuryUpgrade, token

LEMMA PoolUpgradeTypes == Types /\ PoolUpgrade => Types'
  <1> SUFFICES ASSUME Types, PoolUpgrade PROVE Types'
    OBVIOUS
  <1>1. rec' \in [Proposals -> Disbursements \cup {None}]
    BY DEF Types, PoolUpgrade
  <1>2. /\ call' \in [Calls -> CallRecords]
        /\ \A g \in Calls : call'[g].pc # "free" => call'[g].p \in Proposals
    <2>0. FreeCall \in CallRecords /\ FreeCall.pc = "free"
      BY DEF CallRecords, FreeCall
    <2>1. ASSUME NEW c \in CallRecords
          PROVE  LET new == [c EXCEPT !.pc = "replied", !.reply = "transport"]
                 IN new \in CallRecords /\ new.p = c.p
      BY DEF CallRecords
    <2>2. /\ call' = [g \in Calls |-> call'[g]]
          /\ \A g \in Calls :
            \/ call'[g] = call[g]
            \/ call'[g] = FreeCall
            \/ /\ call'[g] = [call[g] EXCEPT !.pc = "replied", !.reply = "transport"]
               /\ call[g].pc # "free"
      BY DEF PoolUpgrade
    <2>3. ASSUME NEW g \in Calls
          PROVE  call'[g] \in CallRecords /\ (call'[g].pc # "free" => call'[g].p \in Proposals)
      <3>1. call[g] \in CallRecords /\ (call[g].pc # "free" => call[g].p \in Proposals)
        BY DEF Types
      <3> QED BY <2>0, <2>1, <2>2, <3>1
    <2> QED BY <2>2, <2>3
  <1> QED BY <1>1, <1>2 DEF Types, PoolUpgrade, treasury

LEMMA NextTypes == Types /\ LiveHasRecord /\ [Next]_vars => Types'
  <1> SUFFICES ASSUME Types, LiveHasRecord, [Next]_vars PROVE Types'
    OBVIOUS
  <1>1. CASE UNCHANGED vars
    BY <1>1 DEF Types, vars, treasury, disbursal, token
  <1>2. ASSUME NEW p \in Proposals, TreasuryStep(p) \/ Decide(p) PROVE Types'
    BY <1>2, TreasuryTypes, DecideTypes
  <1>3. ASSUME NEW h \in Calls, PoolStep(h) \/ TokenStep(h) PROVE Types'
    BY <1>3, PoolTypes, TokenTypes
  <1>4. CASE FeeStep
    BY <1>4, FeesApart DEF Types
  <1>5. ASSUME NEW q \in orphans, LateTransfer(q) PROVE Types'
    BY <1>5 DEF Types, LateTransfer, treasury, disbursal
  <1>6. ASSUME NEW f \in Fees, SetLedgerFee(f) PROVE Types'
    BY <1>6 DEF Types, SetLedgerFee, treasury, disbursal
  <1> QED BY <1>1, <1>2, <1>3, <1>4, <1>5, <1>6, TreasuryUpgradeTypes, PoolUpgradeTypes
          DEF Next

-----------------------------------------------------------------------------
(* Calls that end, or keep what the argument looks at.                     *)
LEMMA CallsEnd ==
    ASSUME PaidInv, UNCHANGED <<rec, tomb, ledger, orphans>>,
           \A g \in Calls : \/ ~Live(g)'
                            \/ /\ call'[g].pc = call[g].pc /\ call'[g].p = call[g].p
                               /\ call'[g].reply = call[g].reply
    PROVE  PaidInv'
  <1>1. \A g \in Calls : Live(g)' => Live(g) /\ call'[g].pc = call[g].pc /\ call'[g].p = call[g].p
                                      /\ call'[g].reply = call[g].reply
    BY DEF Live
  <1>2. LiveHasRecord'
    BY <1>1 DEF PaidInv, LiveHasRecord
  <1>3. OneLiveCall'
    BY <1>1 DEF PaidInv, OneLiveCall
  <1>4. SentIsKnown' /\ SentOnce'
    BY DEF PaidInv, SentIsKnown, SentOnce, Sent
  <1>5. FirstRequest'
    <2>1. \A g \in Calls : call'[g].pc \in {"transfer", "answered"} => Live(g)'
      BY DEF Live
    <2> QED BY <1>1, <2>1 DEF PaidInv, FirstRequest, Sent
  <1> QED BY <1>2, <1>3, <1>4, <1>5 DEF PaidInv

(* A live call that ends and takes the record with it: nothing was sent.   *)
LEMMA CallRemoves ==
    ASSUME Types, PaidInv, NEW h \in Calls, Live(h), ~Live(h)',
           \A g \in Calls \ {h} : call'[g] = call[g],
           Remove(call[h].p), UNCHANGED <<tomb, ledger, orphans>>,
           \A q \in Sent : q.p # call[h].p
    PROVE  PaidInv'
  <1>1. \A g \in Calls : Live(g)' => /\ g # h /\ call'[g] = call[g] /\ Live(g)
                                     /\ call[g].p # call[h].p /\ call[g].p \in Proposals
    BY DEF PaidInv, OneLiveCall, Live, Types
  <1>2. \A p \in Proposals : p # call[h].p => rec'[p] = rec[p]
    BY DEF Remove, Types
  <1>3. LiveHasRecord'
    BY <1>1, <1>2 DEF PaidInv, LiveHasRecord
  <1>4. OneLiveCall'
    BY <1>1 DEF PaidInv, OneLiveCall
  <1>5. SentIsKnown' /\ SentOnce'
    BY <1>2 DEF PaidInv, SentIsKnown, SentOnce, Sent
  <1>6. FirstRequest'
    <2>1. \A g \in Calls : call'[g].pc \in {"transfer", "answered"} => Live(g)'
      BY DEF Live
    <2> QED BY <1>1, <2>1 DEF PaidInv, FirstRequest, Sent
  <1> QED BY <1>3, <1>4, <1>5, <1>6 DEF PaidInv

(* A live call that ends and leaves the record with its outcome.           *)
LEMMA CallSettles ==
    ASSUME Types, PaidInv, NEW h \in Calls, Live(h), ~Live(h)',
           \A g \in Calls \ {h} : call'[g] = call[g],
           NEW s \in {"Executed", "TransportUnknown"}, SetStatus(call[h].p, s),
           UNCHANGED <<tomb, ledger, orphans>>
    PROVE  PaidInv'
  <1>1. \A g \in Calls : Live(g)' => /\ g # h /\ call'[g] = call[g] /\ Live(g)
                                     /\ call[g].p # call[h].p /\ call[g].p \in Proposals
    BY DEF PaidInv, OneLiveCall, Live, Types
  <1>2. call[h].p \in Proposals /\ rec[call[h].p] \in Disbursements
    BY DEF PaidInv, LiveHasRecord, Live, Types
  <1>3. rec' = [rec EXCEPT ![call[h].p] = [rec[call[h].p] EXCEPT !.status = s]]
    BY <1>2, TreasuryAssumption DEF SetStatus, Types
  <1>4. \A p \in Proposals : p # call[h].p => rec'[p] = rec[p]
    BY <1>3 DEF Types
  <1>5. /\ rec'[call[h].p].status = s /\ rec'[call[h].p] # None
        /\ s # "PendingValidation"
    <2>1. rec'[call[h].p] = [rec[call[h].p] EXCEPT !.status = s]
      BY <1>2, <1>3 DEF Types
    <2>2. /\ [rec[call[h].p] EXCEPT !.status = s] \in Disbursements
          /\ [rec[call[h].p] EXCEPT !.status = s].status = s
      BY <1>2 DEF Disbursements
    <2> QED BY <2>1, <2>2, TreasuryAssumption
  <1>6. LiveHasRecord'
    BY <1>1, <1>4 DEF PaidInv, LiveHasRecord
  <1>7. OneLiveCall'
    BY <1>1 DEF PaidInv, OneLiveCall
  <1>8. SentIsKnown' /\ SentOnce'
    BY <1>4, <1>5 DEF PaidInv, SentIsKnown, SentOnce, Sent
  <1>9. FirstRequest'
    <2>1. \A g \in Calls : call'[g].pc \in {"transfer", "answered"} => Live(g)'
      BY DEF Live
    <2> QED BY <1>1, <2>1 DEF PaidInv, FirstRequest, Sent
  <1> QED BY <1>6, <1>7, <1>8, <1>9 DEF PaidInv

-----------------------------------------------------------------------------
LEMMA InitPaid == Init => PaidInv
  BY DEF Init, PaidInv, LiveHasRecord, OneLiveCall, SentIsKnown, FirstRequest, SentOnce, Sent,
     Live, FreeCall

(* The treasury gives out and takes back calls that are not live.          *)
LEMMA TreasuryPaid ==
    ASSUME Types, PaidInv, NEW p \in Proposals, TreasuryStep(p)
    PROVE  PaidInv'
  <1>1. CASE Propose(p) \/ Execute(p) \/ FeeFails(p) \/ Reject(p)
    <2>1. UNCHANGED books
      BY <1>1 DEF Propose, Execute, FeeFails, Reject, disbursal, token, books
    <2> QED BY <2>1, CallsEnd DEF books
  <1>2. CASE FeeReply(p)
    <2>1. UNCHANGED <<rec, tomb, ledger, orphans>>
      BY <1>2 DEF FeeReply, token
    <2>2. UNCHANGED call \/ \E h \in Calls : \E f :
            call' = [call EXCEPT ![h] = [pc |-> "sent", p |-> p, fee |-> f, awaited |-> TRUE,
                                         stamp |-> None, reply |-> None]]
      BY <1>2 DEF FeeReply
    <2>3. \A g \in Calls : ~Live(g)' \/ call'[g] = call[g]
      BY <2>2 DEF Types, Live
    <2> QED BY <2>1, <2>3, CallsEnd
  <1>3. CASE PoolReply(p)
    <2>1. UNCHANGED <<rec, tomb, ledger, orphans>>
      BY <1>3 DEF PoolReply, token
    <2>2. call' = [call EXCEPT ![turn[p].call] = FreeCall]
      BY <1>3 DEF PoolReply
    <2>3. \A g \in Calls : ~Live(g)' \/ call'[g] = call[g]
      BY <2>2 DEF Types, Live, FreeCall
    <2> QED BY <2>1, <2>3, CallsEnd
  <1> QED BY <1>1, <1>2, <1>3 DEF TreasuryStep

(* An upgrade of the treasury drops answers and nothing else.              *)
LEMMA TreasuryUpgradePaid == Types /\ PaidInv /\ TreasuryUpgrade => PaidInv'
  <1> SUFFICES ASSUME Types, PaidInv, TreasuryUpgrade PROVE PaidInv'
    OBVIOUS
  <1>1. UNCHANGED <<rec, tomb, ledger, orphans>>
    BY DEF TreasuryUpgrade, token
  <1>2. ASSUME NEW g \in Calls
        PROVE  \/ ~Live(g)'
               \/ /\ call'[g].pc = call[g].pc /\ call'[g].p = call[g].p
                  /\ call'[g].reply = call[g].reply
    BY DEF TreasuryUpgrade, Types, CallRecords, Live, FreeCall
  <1> QED BY <1>1, <1>2, CallsEnd

(* The pool sends a request only under a new record.                       *)
LEMMA PoolPaid ==
    ASSUME Types, PaidInv, NEW h \in Calls, PoolStep(h)
    PROVE  PaidInv'
  <1> DEFINE p == call[h].p
  <1>0. call[h].pc # "free" => p \in Proposals
    BY DEF Types
  <1>1. CASE TreasuryDisburse(h)
    <2>1. CASE Known(p)
      <3>1. Answered(h, PriorAnswer(p, call[h].fee)) /\ UNCHANGED <<rec, tomb, ledger, orphans>>
        BY <1>1, <2>1 DEF TreasuryDisburse, token
      <3>2. \A g \in Calls : ~Live(g)' \/ call'[g] = call[g]
        BY <3>1, AnsweredIsOver DEF Live
      <3> QED BY <3>1, <3>2, CallsEnd
    <2>2. CASE ~Known(p)
      <3>1. /\ rec' = [rec EXCEPT ![p] = [status |-> "PendingValidation",
                                          fee |-> call[h].fee, stamp |-> None]]
            /\ call' = [call EXCEPT ![h].pc = "validation"]
            /\ UNCHANGED <<tomb, ledger, orphans>>
            /\ p \in Proposals /\ rec[p] = None /\ tomb[p] = None
        BY <1>0, <1>1, <2>2 DEF TreasuryDisburse, Known, token
      <3>2. /\ call'[h].pc = "validation" /\ call'[h].p = p
            /\ \A g \in Calls : g # h => call'[g] = call[g]
        BY <3>1 DEF Types, CallRecords
      <3>3. \A q \in Proposals : q # p => rec'[q] = rec[q]
        BY <3>1 DEF Types
      <3>4. rec'[p] \in Disbursements /\ rec'[p].status = "PendingValidation"
        BY <3>1 DEF Types, Disbursements, CallRecords
      <3>5. \A g \in Calls : g # h /\ Live(g)' =>
               Live(g) /\ call[g].p # p /\ call[g].p \in Proposals
        BY <3>1, <3>2 DEF PaidInv, LiveHasRecord, Live, Types
      <3>6. \A q \in Sent : q.p # p
        BY <3>1 DEF PaidInv, SentIsKnown
      <3>7. LiveHasRecord'
        BY <3>1, <3>2, <3>3, <3>4, <3>5, TreasuryAssumption DEF PaidInv, LiveHasRecord, Live
      <3>8. OneLiveCall'
        BY <3>2, <3>5 DEF PaidInv, OneLiveCall
      <3>9. SentIsKnown' /\ SentOnce'
        BY <3>1, <3>3, <3>6 DEF PaidInv, SentIsKnown, SentOnce, Sent
      <3>10. FirstRequest'
        BY <3>1, <3>2 DEF PaidInv, FirstRequest, Sent
      <3> QED BY <3>7, <3>8, <3>9, <3>10 DEF PaidInv
    <2> QED BY <2>1, <2>2
  <1>2. CASE Validated(h)
    <2>1. /\ Live(h) /\ p \in Proposals /\ UNCHANGED <<tomb, ledger, orphans>>
          /\ tomb[p] = None /\ rec[p] # None /\ rec[p].status = "PendingValidation"
          /\ call[h].pc = "validation"
      BY <1>0, <1>2 DEF Validated, PaidInv, LiveHasRecord, Live, token
    <2>2. \A q \in Sent : q.p # p
      BY <2>1 DEF PaidInv, SentIsKnown
    <2>3. CASE Remove(p) /\ Answered(h, "failed")
      BY <2>1, <2>2, <2>3, AnsweredIsOver, CallRemoves DEF Live
    <2>4. CASE ~(Remove(p) /\ Answered(h, "failed"))
      <3>1. /\ rec' = [rec EXCEPT ![p].status = "PendingTransfer", ![p].stamp = stamps[p] + 1]
            /\ call' = [call EXCEPT ![h].pc = "transfer", ![h].stamp = stamps[p] + 1]
        BY <1>2, <2>4 DEF Validated
      <3>2. /\ call'[h].pc = "transfer" /\ call'[h].p = p
            /\ \A g \in Calls : g # h => call'[g] = call[g]
        BY <3>1 DEF Types, CallRecords
      <3>3. \A q \in Proposals : q # p => rec'[q] = rec[q]
        BY <3>1 DEF Types
      <3>4. rec'[p] # None /\ rec'[p].status = "PendingTransfer"
        <4>1. rec[p] \in Disbursements /\ stamps[p] + 1 \in Int
          BY <2>1 DEF Types
        <4>2. rec'[p] = [rec[p] EXCEPT !.status = "PendingTransfer", !.stamp = stamps[p] + 1]
          BY <2>1, <3>1 DEF Types
        <4>3. rec'[p] \in Disbursements /\ rec'[p].status = "PendingTransfer"
          BY <4>1, <4>2 DEF Disbursements
        <4> QED BY <4>3, TreasuryAssumption
      <3>5. \A g \in Calls : g # h /\ Live(g)' =>
               Live(g) /\ call[g].p # p /\ call[g].p \in Proposals
        BY <2>1, <3>2 DEF PaidInv, OneLiveCall, Live, Types
      <3>6. LiveHasRecord'
        BY <2>1, <3>2, <3>3, <3>4, <3>5 DEF PaidInv, LiveHasRecord, Live
      <3>7. OneLiveCall'
        BY <3>2, <3>5 DEF PaidInv, OneLiveCall
      <3>8. SentIsKnown' /\ SentOnce'
        BY <2>1, <2>2, <3>3 DEF PaidInv, SentIsKnown, SentOnce, Sent
      <3>9. FirstRequest'
        BY <2>1, <2>2, <3>2 DEF PaidInv, FirstRequest, Sent
      <3> QED BY <3>6, <3>7, <3>8, <3>9 DEF PaidInv
    <2> QED BY <2>3, <2>4
  <1>3. CASE ValidationFails(h)
    <2>1. /\ Live(h) /\ UNCHANGED <<tomb, ledger, orphans>>
          /\ tomb[p] = None /\ rec[p].status = "PendingValidation"
          /\ Remove(p) /\ Answered(h, "failed")
      BY <1>3 DEF ValidationFails, PaidInv, LiveHasRecord, Live, token
    <2>2. \A q \in Sent : q.p # p
      BY <2>1 DEF PaidInv, SentIsKnown
    <2> QED BY <2>1, <2>2, AnsweredIsOver, CallRemoves DEF Live
  <1>4. CASE TransferReply(h)
    <2>1. Live(h) /\ UNCHANGED <<tomb, ledger, orphans>>
      BY <1>4 DEF TransferReply, Live, token
    <2>2. CASE call[h].reply = "refused"
      <3>1. Remove(p) /\ Answered(h, "failed") /\ call[h].pc = "answered"
        BY <1>4, <2>2 DEF TransferReply
      <3>2. \A q \in Sent : q.p # p
        BY <2>2, <3>1 DEF PaidInv, FirstRequest
      <3> QED BY <2>1, <3>1, <3>2, AnsweredIsOver, CallRemoves DEF Live
    <2>3. CASE call[h].reply # "refused"
      <3>1. \/ SetStatus(p, "Executed") /\ Answered(h, "executed")
            \/ SetStatus(p, "TransportUnknown") /\ Answered(h, "failed")
        BY <1>4, <2>3 DEF TransferReply
      <3> QED BY <2>1, <3>1, AnsweredIsOver, CallSettles DEF Live
    <2> QED BY <2>2, <2>3
  <1>5. CASE CallbackTraps(h)
    <2>1. Answered(h, "transport") /\ UNCHANGED <<rec, tomb, ledger, orphans>>
      BY <1>5 DEF CallbackTraps, token
    <2>2. \A g \in Calls : ~Live(g)' \/ call'[g] = call[g]
      BY <2>1, AnsweredIsOver DEF Live
    <2> QED BY <2>1, <2>2, CallsEnd
  <1> QED BY <1>1, <1>2, <1>3, <1>4, <1>5 DEF PoolStep

(* A call at the token, or with the token's answer, gets an answer.        *)
LEMMA AnswerArrives ==
    ASSUME Types, NEW h \in Calls, NEW r \in {"settled", "refused", "window", "lost"},
           call[h].pc \in {"transfer", "answered"},
           call' = [call EXCEPT ![h].pc = "answered", ![h].reply = r]
    PROVE  /\ Live(h) /\ Live(h)' /\ call[h].p \in Proposals
           /\ call'[h].pc = "answered" /\ call'[h].p = call[h].p /\ call'[h].reply = r
           /\ \A g \in Calls : g # h => call'[g] = call[g]
  BY DEF Types, CallRecords, Live

(* The token executes a request at most once: only the first one finds no  *)
(* other, and a refusal is an answer to the first.                         *)
LEMMA TokenPaid ==
    ASSUME Types, PaidInv, NEW h \in Calls, TokenStep(h)
    PROVE  PaidInv'
  <1> DEFINE p == call[h].p
  <1>1. ASSUME NEW r \in {"settled", "refused", "window", "lost"},
               call[h].pc = "transfer" \/ (call[h].pc = "answered" /\ r # "refused"),
               call' = [call EXCEPT ![h].pc = "answered", ![h].reply = r],
               UNCHANGED <<rec, tomb, orphans>>,
               ledger' = ledger \/ (call[h].pc = "transfer" /\ r # "refused"
                                    /\ ledger' = ledger \cup {Request(h)})
        PROVE  PaidInv'
    <2>0. call[h].pc \in {"transfer", "answered"}
      BY <1>1
    <2>1. /\ Live(h) /\ Live(h)' /\ p \in Proposals
          /\ call'[h].pc = "answered" /\ call'[h].p = p /\ call'[h].reply = r
          /\ \A g \in Calls : g # h => call'[g] = call[g]
      BY <1>1, <2>0, AnswerArrives
    <2>2. /\ tomb[p] = None /\ rec[p] # None /\ rec[p].status = "PendingTransfer"
      BY <1>1, <2>1 DEF PaidInv, LiveHasRecord
    <2>3. \A g \in Calls : g # h /\ Live(g)' => Live(g) /\ call[g].p # p
      BY <2>1 DEF PaidInv, OneLiveCall, Live
    <2>4. LiveHasRecord'
      BY <1>1, <2>1, <2>2, <2>3 DEF PaidInv, LiveHasRecord
    <2>5. OneLiveCall'
      BY <2>1, <2>3 DEF PaidInv, OneLiveCall
    <2>6. CASE Sent' = Sent
      <3>1. SentIsKnown' /\ SentOnce'
        BY <1>1, <2>6 DEF PaidInv, SentIsKnown, SentOnce
      <3>2. FirstRequest'
        BY <1>1, <2>1, <2>6 DEF PaidInv, FirstRequest
      <3> QED BY <2>4, <2>5, <3>1, <3>2 DEF PaidInv
    <2>7. CASE Sent' # Sent
      <3>1. /\ call[h].pc = "transfer" /\ r # "refused"
            /\ Sent' = Sent \cup {Request(h)} /\ Request(h).p = p
        BY <1>1, <2>7 DEF Sent, Request
      <3>2. \A q \in Sent : q.p # p
        BY <3>1 DEF PaidInv, FirstRequest
      <3>3. SentIsKnown'
        BY <1>1, <2>1, <2>2, <3>1 DEF PaidInv, SentIsKnown
      <3>4. SentOnce'
        BY <3>1, <3>2 DEF PaidInv, SentOnce
      <3>5. FirstRequest'
        <4>1. \A g \in Calls : call'[g].pc \in {"transfer", "answered"} => Live(g)'
          BY DEF Live
        <4> QED BY <2>1, <2>3, <3>1, <4>1 DEF PaidInv, FirstRequest
      <3> QED BY <2>4, <2>5, <3>3, <3>4, <3>5 DEF PaidInv
    <2> QED BY <2>6, <2>7
  <1>2. CASE LedgerTransfer(h)
    <2>1. CASE call[h].fee # fee
      BY <1>1, <1>2, <2>1 DEF LedgerTransfer
    <2>2. CASE call[h].fee = fee
      <3>1. /\ call[h].pc = "transfer" /\ ledger' = ledger \cup {Request(h)}
            /\ call' = [call EXCEPT ![h].pc = "answered", ![h].reply = "settled"]
            /\ UNCHANGED <<rec, tomb, orphans>>
        BY <1>2, <2>2 DEF LedgerTransfer
      <3> QED BY <1>1, <3>1
    <2> QED BY <2>1, <2>2
  <1>3. CASE LedgerRefuses(h, "refused") \/ LedgerRefuses(h, "window")
    <2>1. /\ call[h].pc = "transfer" /\ UNCHANGED <<rec, tomb, orphans, ledger>>
          /\ \/ call' = [call EXCEPT ![h].pc = "answered", ![h].reply = "refused"]
             \/ call' = [call EXCEPT ![h].pc = "answered", ![h].reply = "window"]
      BY <1>3 DEF LedgerRefuses, token
    <2> QED BY <1>1, <2>1
  <1>4. CASE CallFails(h)
    <2>1. UNCHANGED <<rec, tomb, orphans, ledger>>
      BY <1>4 DEF CallFails, token
    <2>2. CASE Answered(h, "transport")
      <3>1. \A g \in Calls : ~Live(g)' \/ call'[g] = call[g]
        BY <2>2, AnsweredIsOver DEF Live
      <3> QED BY <2>1, <3>1, CallsEnd
    <2>3. CASE /\ call[h].pc \in {"transfer", "answered"}
               /\ call' = [call EXCEPT ![h].pc = "answered", ![h].reply = "lost"]
      BY <1>1, <2>1, <2>3
    <2> QED BY <1>4, <2>2, <2>3 DEF CallFails
  <1> QED BY <1>2, <1>3, <1>4 DEF TokenStep

(* The operator decides only about a record without a call, and forgets    *)
(* one that was debited only behind a tombstone.                           *)
LEMMA DecidePaid ==
    ASSUME Types, PaidInv, NEW p \in Proposals, Decide(p)
    PROVE  PaidInv'
  <1>1. PICK outcome \in Verdicts : Reconcile(p, outcome)
    BY DEF Decide, Verdicts
  <1>2. UNCHANGED <<call, ledger, orphans>>
    BY <1>1 DEF Reconcile, token
  <1>3. \A h \in Calls : Live(h) => call[h].p # p /\ call[h].p \in Proposals
    BY <1>1 DEF Reconcile, Live, Types
  <1>4. \A q \in Proposals : q # p => rec'[q] = rec[q] /\ tomb'[q] = tomb[q]
    BY <1>1 DEF Reconcile, Remove, SetStatus, Types
  <1>5. \/ tomb'[p] # None
        \/ rec[p].status = "PendingValidation" /\ tomb'[p] = tomb[p] /\ rec[p] # None
    BY <1>1, TreasuryAssumption DEF Reconcile, Types, Status
  <1>6. LiveHasRecord'
    BY <1>2, <1>3, <1>4 DEF PaidInv, LiveHasRecord, Live
  <1>7. OneLiveCall' /\ FirstRequest' /\ SentOnce'
    BY <1>2 DEF PaidInv, OneLiveCall, FirstRequest, SentOnce, Sent, Live
  <1>8. SentIsKnown'
    BY <1>2, <1>4, <1>5 DEF PaidInv, SentIsKnown, Sent
  <1> QED BY <1>6, <1>7, <1>8 DEF PaidInv

(* An upgrade of the pool leaves no call alive; what was at the token      *)
(* stays there, under a record that stays too.                             *)
LEMMA PoolUpgradePaid == Types /\ PaidInv /\ PoolUpgrade => PaidInv'
  <1> SUFFICES ASSUME Types, PaidInv, PoolUpgrade PROVE PaidInv'
    OBVIOUS
  <1>1. UNCHANGED <<tomb, ledger>>
    BY DEF PoolUpgrade
  <1>2. \A h \in Calls : ~Live(h)'
    <2> SUFFICES ASSUME NEW h \in Calls PROVE ~Live(h)'
      OBVIOUS
    <2>1. call[h] \in CallRecords
      BY DEF Types
    <2>2. \/ call'[h] = call[h] /\ call[h].pc \notin {"validation", "transfer", "answered"}
          \/ call'[h] = FreeCall
          \/ call'[h] = [call[h] EXCEPT !.pc = "replied", !.reply = "transport"]
      BY DEF PoolUpgrade
    <2>3. ASSUME NEW c \in CallRecords
          PROVE  [c EXCEPT !.pc = "replied", !.reply = "transport"].pc = "replied"
      BY DEF CallRecords
    <2>4. call'[h].pc \notin {"validation", "transfer", "answered"}
      <3>1. FreeCall.pc = "free"
        BY DEF FreeCall
      <3> QED BY <2>1, <2>2, <2>3, <3>1
    <2> QED BY <2>4 DEF Live
  <1>3. LiveHasRecord' /\ OneLiveCall'
    BY <1>2 DEF LiveHasRecord, OneLiveCall
  <1>4. FirstRequest'
    BY <1>2 DEF FirstRequest, Live
  <1>5. \A q \in Sent' : q \in Sent \/ \E h \in Calls : call[h].pc = "transfer" /\ q = Request(h)
    BY <1>1 DEF PoolUpgrade, Sent
  <1>6. \A h \in Calls : call[h].pc = "transfer" => Live(h) /\ Request(h).p = call[h].p
    BY DEF Live, Request
  <1>7. SentIsKnown'
    <2> SUFFICES ASSUME NEW q \in Sent'
                 PROVE  /\ q.p \in Proposals
                        /\ \/ tomb'[q.p] # None
                           \/ rec'[q.p] # None /\ rec'[q.p].status # "PendingValidation"
      BY DEF SentIsKnown
    <2>1. /\ q.p \in Proposals
          /\ tomb[q.p] # None \/ (rec[q.p] # None /\ rec[q.p].status # "PendingValidation")
      <3>1. CASE q \in Sent
        BY <3>1 DEF PaidInv, SentIsKnown
      <3>2. CASE q \notin Sent
        <4>1. PICK h \in Calls : call[h].pc = "transfer" /\ q = Request(h)
          BY <1>5, <3>2
        <4>2. Live(h) /\ q.p = call[h].p /\ call[h].p \in Proposals
          BY <1>6, <4>1 DEF Types
        <4> QED BY <4>1, <4>2 DEF PaidInv, LiveHasRecord
      <3> QED BY <3>1, <3>2
    <2>2. rec[q.p] # None /\ rec[q.p].status # "PendingValidation" => rec'[q.p] = rec[q.p]
      BY <2>1 DEF PoolUpgrade, Status
    <2> QED BY <1>1, <2>1, <2>2
  <1>8. SentOnce'
    <2> SUFFICES ASSUME NEW q1 \in Sent', NEW q2 \in Sent', q1.p = q2.p PROVE q1 = q2
      BY DEF SentOnce
    <2>1. CASE q1 \in Sent /\ q2 \in Sent
      BY <2>1 DEF PaidInv, SentOnce
    <2>2. CASE q1 \notin Sent /\ q2 \in Sent
      BY <1>5, <1>6, <2>2 DEF PaidInv, FirstRequest
    <2>3. CASE q1 \in Sent /\ q2 \notin Sent
      BY <1>5, <1>6, <2>3 DEF PaidInv, FirstRequest
    <2>4. CASE q1 \notin Sent /\ q2 \notin Sent
      BY <1>5, <1>6, <2>4 DEF PaidInv, OneLiveCall
    <2> QED BY <2>1, <2>2, <2>3, <2>4
  <1> QED BY <1>3, <1>4, <1>7, <1>8 DEF PaidInv

-----------------------------------------------------------------------------
LEMMA NextPaid == Types /\ PaidInv /\ [Next]_vars => PaidInv'
  <1> SUFFICES ASSUME Types, PaidInv, [Next]_vars PROVE PaidInv'
    OBVIOUS
  <1>1. CASE UNCHANGED books
    BY <1>1, CallsEnd DEF books
  <1>2. UNCHANGED vars => UNCHANGED books
    BY DEF vars, disbursal, token, books
  <1>3. ASSUME NEW p \in Proposals, TreasuryStep(p) \/ Decide(p) PROVE PaidInv'
    BY <1>3, TreasuryPaid, DecidePaid
  <1>4. ASSUME NEW h \in Calls, PoolStep(h) \/ TokenStep(h) PROVE PaidInv'
    BY <1>4, PoolPaid, TokenPaid
  <1>5. FeeStep => UNCHANGED books
    BY FeesApart DEF books
  <1>6. ASSUME NEW q \in orphans, LateTransfer(q) PROVE PaidInv'
    <2>1. UNCHANGED <<rec, tomb, call>> /\ Sent' \subseteq Sent
      BY <1>6 DEF LateTransfer, disbursal, Sent
    <2> QED BY <2>1 DEF PaidInv, LiveHasRecord, OneLiveCall, SentIsKnown, FirstRequest,
               SentOnce, Live
  <1>7. ASSUME NEW f \in Fees, SetLedgerFee(f) PROVE UNCHANGED books
    BY <1>7 DEF SetLedgerFee, disbursal, books
  <1> QED BY <1>1, <1>2, <1>3, <1>4, <1>5, <1>6, <1>7, TreasuryUpgradePaid, PoolUpgradePaid
          DEF Next

(* However often a withdrawal is executed, retried after unknown outcomes, *)
(* or declared not executed by an operator who is wrong, the ledger pays   *)
(* it at most once.                                                        *)
THEOREM PaidAtMostOnceAlways == Spec => []PaidAtMostOnce
  <1>1. Init => Types /\ PaidInv
    BY InitTypes, InitPaid
  <1>2. Types /\ PaidInv /\ [Next]_vars => (Types /\ PaidInv)'
    BY NextTypes, NextPaid DEF PaidInv
  <1>3. PaidInv => PaidAtMostOnce
    BY DEF PaidInv, SentOnce, Sent, PaidAtMostOnce
  <1> QED BY <1>1, <1>2, <1>3, PTL DEF Spec

-----------------------------------------------------------------------------
(* The reports of fees: where a fee is that was earned, and which counter  *)
(* answers for a report.                                                   *)
Notices == [fees : SUBSET Earnings, at : {"sent", "ok", "failed"}, awaited : BOOLEAN]
Gauges == [inFlight : Nat, failures : Nat, dropped : Nat]

IncomeTypes ==
    /\ notices \subseteq Notices /\ gauge \in Gauges
    /\ IsFiniteSet(notices) /\ IsFiniteSet(lost)

(* A fee is in the accrual, in one report, or was reported and no report   *)
(* under way has it again; only a request outlives its callback.           *)
NoticeInv ==
    /\ earned \subseteq Earnings /\ accrual \subseteq earned /\ credited \subseteq earned \ accrual
    /\ \A n \in notices : /\ n.fees # {} /\ n.fees \subseteq earned \ accrual
                          /\ n.at = "sent" => n.fees \cap credited = {}
                          /\ ~n.awaited => n.at = "sent"
    /\ \A n, m \in notices : n # m => n.fees \cap m.fees = {}

AwaitedNotices == {n \in notices : n.awaited}
DroppedNotices == {n \in notices : ~n.awaited}
FailedNotices == {n \in notices : n.at = "failed"}

(* A report whose callback an upgrade dropped was counted then, whatever   *)
(* becomes of it.                                                          *)
LossInv ==
    /\ Cardinality(AwaitedNotices) <= gauge.inFlight
    /\ Cardinality(lost) + Cardinality(DroppedNotices)
          <= gauge.failures + gauge.dropped + Cardinality(FailedNotices)

IncomeInv == IncomeTypes /\ NoticeInv /\ LossInv

LEMMA NoticeSetsFinite ==
    ASSUME IsFiniteSet(notices), IsFiniteSet(lost)
    PROVE  /\ IsFiniteSet(AwaitedNotices) /\ Cardinality(AwaitedNotices) \in Nat
           /\ IsFiniteSet(DroppedNotices) /\ Cardinality(DroppedNotices) \in Nat
           /\ IsFiniteSet(FailedNotices) /\ Cardinality(FailedNotices) \in Nat
           /\ Cardinality(lost) \in Nat
  BY FS_Subset, FS_CardinalityType DEF AwaitedNotices, DroppedNotices, FailedNotices

LEMMA CardinalityAdded ==
    ASSUME NEW S, IsFiniteSet(S), NEW x
    PROVE  /\ IsFiniteSet(S \cup {x}) /\ Cardinality(S \cup {x}) <= Cardinality(S) + 1
           /\ Cardinality(S \cup {x}) \in Nat /\ Cardinality(S) \in Nat
  <1>1. /\ IsFiniteSet(S \cup {x}) /\ Cardinality(S) \in Nat
        /\ Cardinality(S \cup {x}) = IF x \in S THEN Cardinality(S) ELSE Cardinality(S) + 1
    BY FS_AddElement, FS_CardinalityType
  <1>2. QED
    BY <1>1

LEMMA CardinalityJoined ==
    ASSUME NEW S, IsFiniteSet(S), NEW T, IsFiniteSet(T), S \cap T = {}
    PROVE  Cardinality(S \cup T) = Cardinality(S) + Cardinality(T)
  <1>1. Cardinality(S \cup T) = Cardinality(S) + Cardinality(T) - Cardinality({})
    BY FS_Union
  <1>2. Cardinality({}) = 0 /\ Cardinality(S) \in Nat /\ Cardinality(T) \in Nat
    BY FS_EmptySet, FS_CardinalityType
  <1>3. QED
    BY <1>1, <1>2

(* A new report is awaited and counted. *)
LEMMA NotifyKeeps ==
    ASSUME IncomeTypes, LossInv, NEW S \in SUBSET Earnings, Notify(S), UNCHANGED lost
    PROVE  IncomeTypes' /\ LossInv'
  <1> DEFINE new == [fees |-> S, at |-> "sent", awaited |-> TRUE]
  <1>1. new \in Notices /\ new.at = "sent" /\ new.awaited
    BY DEF Notices
  <1>2. notices' = notices \cup {new} /\ gauge' = [gauge EXCEPT !.inFlight = @ + 1]
    BY DEF Notify
  <1> HIDE DEF new
  <1>3. /\ gauge' \in Gauges /\ gauge'.inFlight = gauge.inFlight + 1
        /\ gauge'.failures = gauge.failures /\ gauge'.dropped = gauge.dropped
    BY <1>2 DEF IncomeTypes, Gauges
  <1>4. IncomeTypes'
    BY <1>1, <1>2, <1>3, FS_AddElement DEF IncomeTypes
  <1>5. /\ AwaitedNotices' = AwaitedNotices \cup {new}
        /\ DroppedNotices' = DroppedNotices /\ FailedNotices' = FailedNotices
    BY <1>1, <1>2 DEF AwaitedNotices, DroppedNotices, FailedNotices
  <1>6. Cardinality(AwaitedNotices)' <= Cardinality(AwaitedNotices) + 1
    BY <1>5, NoticeSetsFinite, CardinalityAdded DEF IncomeTypes
  <1>7. /\ Cardinality(AwaitedNotices) \in Nat /\ Cardinality(AwaitedNotices)' \in Nat
        /\ gauge.inFlight \in Nat /\ Cardinality(AwaitedNotices) <= gauge.inFlight
    BY <1>4, <1>5, NoticeSetsFinite, FS_AddElement, FS_CardinalityType DEF IncomeTypes, Gauges, LossInv
  <1>8. QED
    BY <1>3, <1>4, <1>5, <1>6, <1>7 DEF LossInv

(* A report that moves on: what is failed, or lost, is accounted for.      *)
LEMMA AdvanceKeeps ==
    ASSUME IncomeTypes, NoticeInv, LossInv, NEW n \in notices, NEW s \in {"ok", "failed"},
           n.at = "sent" \/ (n.at = "ok" /\ s = "failed"),
           Advance(n, s), UNCHANGED gauge,
           lost' = lost \/ (s = "failed" /\ lost' = lost \cup {n.fees})
    PROVE  IncomeTypes' /\ LossInv'
  <1>0. /\ n \in Notices /\ gauge \in Gauges /\ IsFiniteSet(notices) /\ IsFiniteSet(lost)
        /\ IsFiniteSet(notices \ {n})
    BY FS_RemoveElement DEF IncomeTypes
  <1>1. IsFiniteSet(lost') /\ Cardinality(lost') <= Cardinality(lost) + 1
        /\ Cardinality(lost') \in Nat /\ Cardinality(lost) \in Nat
        /\ (s = "ok" => lost' = lost)
    <2>1. CASE lost' = lost
      <3>1. IsFiniteSet(lost) /\ Cardinality(lost) \in Nat
        BY <1>0, FS_CardinalityType
      <3> QED BY <2>1, <3>1
    <2>2. CASE s = "failed" /\ lost' = lost \cup {n.fees}
      BY <1>0, <2>2, CardinalityAdded
    <2> QED BY <2>1, <2>2
  <1>2. /\ gauge.inFlight \in Nat /\ gauge.failures \in Nat /\ gauge.dropped \in Nat
    BY <1>0 DEF Gauges
  <1>3. CASE ~n.awaited
    <2>1. notices' = notices \ {n} /\ n.at = "sent"
      BY <1>3 DEF Advance, NoticeInv
    <2>2. /\ AwaitedNotices' = AwaitedNotices /\ FailedNotices' = FailedNotices
          /\ DroppedNotices' = DroppedNotices \ {n} /\ n \in DroppedNotices
      BY <1>3, <2>1 DEF AwaitedNotices, DroppedNotices, FailedNotices
    <2>3. IncomeTypes'
      BY <1>0, <1>1, <2>1 DEF IncomeTypes
    <2>4. Cardinality(DroppedNotices)' = Cardinality(DroppedNotices) - 1
      BY <1>0, <2>2, NoticeSetsFinite, FS_RemoveElement
    <2>5. Cardinality(DroppedNotices) \in Nat /\ Cardinality(FailedNotices) \in Nat
      BY <1>0, NoticeSetsFinite
    <2> QED BY <1>1, <1>2, <2>2, <2>3, <2>4, <2>5 DEF LossInv
  <1>4. CASE n.awaited
    <2> DEFINE new == [n EXCEPT !.at = s]
    <2>1. notices' = (notices \ {n}) \cup {new}
      BY <1>4 DEF Advance
    <2>2. new \in Notices /\ new.at = s /\ new.awaited = n.awaited /\ new.fees = n.fees
      BY <1>0 DEF Notices
    <2> HIDE DEF new
    <2>3. new \notin notices
      <3>1. new # n
        BY <2>2
      <3> QED BY <2>2, <3>1 DEF NoticeInv
    <2>4. /\ IsFiniteSet(notices') /\ IncomeTypes'
      BY <1>0, <1>1, <2>1, <2>2, FS_AddElement DEF IncomeTypes
    <2>5. /\ AwaitedNotices' = (AwaitedNotices \ {n}) \cup {new}
          /\ n \in AwaitedNotices /\ new \notin AwaitedNotices
          /\ DroppedNotices' = DroppedNotices
          /\ FailedNotices' = IF s = "failed" THEN FailedNotices \cup {new} ELSE FailedNotices
          /\ new \notin FailedNotices
      BY <1>4, <2>1, <2>2, <2>3 DEF AwaitedNotices, DroppedNotices, FailedNotices
    <2>6. Cardinality(AwaitedNotices)' = Cardinality(AwaitedNotices)
      <3>1. /\ IsFiniteSet(AwaitedNotices \ {n})
            /\ Cardinality(AwaitedNotices \ {n}) = Cardinality(AwaitedNotices) - 1
            /\ new \notin AwaitedNotices \ {n}
        BY <1>0, <2>5, NoticeSetsFinite, FS_RemoveElement
      <3>2. Cardinality(AwaitedNotices)' = Cardinality(AwaitedNotices \ {n}) + 1
        BY <2>5, <3>1, FS_AddElement
      <3>3. Cardinality(AwaitedNotices) \in Nat
        BY <1>0, NoticeSetsFinite
      <3> QED BY <3>1, <3>2, <3>3
    <2>7. Cardinality(FailedNotices)' = IF s = "failed" THEN Cardinality(FailedNotices) + 1
                                        ELSE Cardinality(FailedNotices)
      BY <1>0, <2>5, NoticeSetsFinite, FS_AddElement
    <2>8. Cardinality(DroppedNotices) \in Nat /\ Cardinality(FailedNotices) \in Nat
      BY <1>0, NoticeSetsFinite
    <2> QED BY <1>1, <1>2, <2>4, <2>5, <2>6, <2>7, <2>8 DEF LossInv
  <1> QED BY <1>3, <1>4

(* The callback of a report counts what failed. *)
LEMMA ReplyKeeps ==
    ASSUME IncomeTypes, NoticeInv, LossInv, NEW n \in notices, NoticeReply(n)
    PROVE  IncomeTypes' /\ LossInv'
  <1>0. /\ n \in Notices /\ gauge \in Gauges /\ IsFiniteSet(notices) /\ IsFiniteSet(lost)
        /\ IsFiniteSet(notices \ {n})
    BY FS_RemoveElement DEF IncomeTypes
  <1>1. /\ notices' = notices \ {n} /\ UNCHANGED lost
        /\ gauge' = [gauge EXCEPT !.inFlight = IF @ > 0 THEN @ - 1 ELSE 0,
                                  !.failures = IF n.at = "failed" THEN @ + 1 ELSE @]
        /\ n.at # "sent" /\ n.awaited
    BY DEF NoticeReply, NoticeInv
  <1>2. /\ gauge' \in Gauges /\ gauge'.dropped = gauge.dropped
        /\ gauge'.inFlight = IF gauge.inFlight > 0 THEN gauge.inFlight - 1 ELSE 0
        /\ gauge'.failures = IF n.at = "failed" THEN gauge.failures + 1 ELSE gauge.failures
        /\ gauge.inFlight \in Nat /\ gauge.failures \in Nat /\ gauge.dropped \in Nat
    <2> DEFINE a == IF gauge.inFlight > 0 THEN gauge.inFlight - 1 ELSE 0
               b == IF n.at = "failed" THEN gauge.failures + 1 ELSE gauge.failures
    <2>1. gauge.inFlight \in Nat /\ gauge.failures \in Nat /\ gauge.dropped \in Nat
      BY <1>0 DEF Gauges
    <2>2. a \in Nat /\ b \in Nat
      BY <2>1
    <2>3. gauge' = [gauge EXCEPT !.inFlight = a, !.failures = b]
      BY <1>0, <1>1 DEF Gauges
    <2> HIDE DEF a, b
    <2>4. gauge' \in Gauges /\ gauge'.dropped = gauge.dropped /\ gauge'.inFlight = a /\ gauge'.failures = b
      BY <1>0, <2>2, <2>3 DEF Gauges
    <2> QED BY <2>1, <2>4 DEF a, b
  <1>3. IncomeTypes'
    BY <1>0, <1>1, <1>2 DEF IncomeTypes
  <1>4. /\ AwaitedNotices' = AwaitedNotices \ {n} /\ n \in AwaitedNotices
        /\ DroppedNotices' = DroppedNotices /\ FailedNotices' = FailedNotices \ {n}
        /\ n \in FailedNotices <=> n.at = "failed"
    BY <1>1 DEF AwaitedNotices, DroppedNotices, FailedNotices
  <1>5. /\ Cardinality(AwaitedNotices)' = Cardinality(AwaitedNotices) - 1
        /\ Cardinality(FailedNotices)' = IF n.at = "failed" THEN Cardinality(FailedNotices) - 1
                                         ELSE Cardinality(FailedNotices)
        /\ Cardinality(AwaitedNotices) \in Nat /\ Cardinality(FailedNotices) \in Nat
        /\ Cardinality(DroppedNotices) \in Nat /\ Cardinality(lost) \in Nat
    BY <1>0, <1>4, NoticeSetsFinite, FS_RemoveElement
  <1>6. Cardinality(AwaitedNotices)' \in Nat
    BY <1>3, <1>4, <1>0, NoticeSetsFinite, FS_RemoveElement, FS_CardinalityType
  <1> QED BY <1>1, <1>2, <1>3, <1>4, <1>5, <1>6 DEF LossInv

(* An upgrade counts every callback it drops.                              *)
LEMMA RestoreKeeps ==
    ASSUME IncomeTypes, NoticeInv, LossInv, RestoreNotificationCounters, UNCHANGED lost
    PROVE  IncomeTypes' /\ LossInv'
  <1> DEFINE S == {m \in notices : m.at = "sent"}
             f == [m \in S |-> [m EXCEPT !.awaited = FALSE]]
  <1>0. /\ gauge \in Gauges /\ IsFiniteSet(notices) /\ IsFiniteSet(lost) /\ notices \subseteq Notices
        /\ IsFiniteSet(S)
    BY FS_Subset DEF IncomeTypes
  <1>1. /\ notices' = {[n EXCEPT !.awaited = FALSE] : n \in S}
        /\ gauge' = [gauge EXCEPT !.inFlight = 0, !.dropped = @ + gauge.inFlight]
    BY DEF RestoreNotificationCounters
  <1>2. f \in Surjection(S, notices')
    BY <1>1 DEF Surjection
  <1> HIDE DEF S, f
  <1>3. IsFiniteSet(notices') /\ Cardinality(notices') <= Cardinality(S)
    BY <1>0, <1>2, FS_Surjection
  <1>4. \A n \in notices' : n \in Notices /\ ~n.awaited /\ n.at = "sent"
    BY <1>0, <1>1 DEF S, Notices
  <1>5. /\ gauge' \in Gauges /\ gauge'.failures = gauge.failures
        /\ gauge'.inFlight = 0 /\ gauge'.dropped = gauge.dropped + gauge.inFlight
        /\ gauge.inFlight \in Nat /\ gauge.failures \in Nat /\ gauge.dropped \in Nat
    <2>1. gauge.inFlight \in Nat /\ gauge.failures \in Nat /\ gauge.dropped \in Nat
      BY <1>0 DEF Gauges
    <2> DEFINE b == gauge.dropped + gauge.inFlight
    <2>2. b \in Nat
      BY <2>1
    <2>3. gauge' = [gauge EXCEPT !.inFlight = 0, !.dropped = b]
      BY <1>0, <1>1 DEF Gauges
    <2> HIDE DEF b
    <2>4. gauge' \in Gauges /\ gauge'.failures = gauge.failures /\ gauge'.inFlight = 0 /\ gauge'.dropped = b
      BY <1>0, <2>2, <2>3 DEF Gauges
    <2> QED BY <2>1, <2>4 DEF b
  <1>6. IncomeTypes'
    BY <1>0, <1>3, <1>4, <1>5 DEF IncomeTypes
  <1>7. AwaitedNotices' = {} /\ FailedNotices' = {} /\ DroppedNotices' = notices'
    BY <1>4 DEF AwaitedNotices, DroppedNotices, FailedNotices
  <1> DEFINE A == {n \in AwaitedNotices : n.at = "sent"}
  <1>8. /\ S = A \cup DroppedNotices /\ A \cap DroppedNotices = {}
        /\ A \cup FailedNotices \subseteq AwaitedNotices /\ A \cap FailedNotices = {}
        /\ A \subseteq AwaitedNotices
    BY DEF S, AwaitedNotices, DroppedNotices, FailedNotices, NoticeInv
  <1> HIDE DEF A
  <1>9. /\ IsFiniteSet(A) /\ IsFiniteSet(DroppedNotices) /\ IsFiniteSet(FailedNotices)
        /\ IsFiniteSet(AwaitedNotices)
    BY <1>0, <1>8, NoticeSetsFinite, FS_Subset
  <1>10. Cardinality(S) = Cardinality(A) + Cardinality(DroppedNotices)
    BY <1>8, <1>9, CardinalityJoined
  <1>11. Cardinality(A) + Cardinality(FailedNotices) <= Cardinality(AwaitedNotices)
    <2>1. Cardinality(A \cup FailedNotices) = Cardinality(A) + Cardinality(FailedNotices)
      BY <1>8, <1>9, CardinalityJoined
    <2> QED BY <1>8, <1>9, <2>1, FS_Subset
  <1>12. /\ Cardinality(A) \in Nat /\ Cardinality(DroppedNotices) \in Nat
         /\ Cardinality(FailedNotices) \in Nat /\ Cardinality(AwaitedNotices) \in Nat
         /\ Cardinality(notices') \in Nat /\ Cardinality(lost) \in Nat /\ Cardinality({}) = 0
    BY <1>0, <1>3, <1>9, FS_CardinalityType, FS_EmptySet
  <1> QED BY <1>3, <1>5, <1>6, <1>7, <1>10, <1>11, <1>12 DEF LossInv

(* Only the reports of fees, and the upgrade of the pool, touch the        *)
(* income.                                                                 *)
LEMMA IncomeApart ==
    ASSUME [Next]_vars
    PROVE  UNCHANGED income \/ FeeStep \/ PoolUpgrade
  BY DEF Next, vars, TreasuryStep, Decide, PoolStep, TokenStep, Propose, Execute, FeeFails,
     FeeReply, PoolReply, Reject, Reconcile, TreasuryDisburse, Validated, ValidationFails,
     TransferReply, CallbackTraps, LedgerTransfer, LedgerRefuses, CallFails, LateTransfer,
     SetLedgerFee, TreasuryUpgrade

(* What a report becomes is about the same fees. *)
LEMMA AdvanceNotices ==
    ASSUME IncomeTypes, NoticeInv, NEW n \in notices, NEW s \in {"ok", "failed"}, Advance(n, s),
           UNCHANGED <<earned, accrual>>,
           credited' = credited \/ (s = "ok" /\ n.at = "sent" /\ credited' = credited \cup n.fees)
    PROVE  NoticeInv'
  <1> DEFINE new == [n EXCEPT !.at = s]
  <1>0. n \in Notices /\ new.at = s /\ new.fees = n.fees /\ new.awaited = n.awaited
    BY DEF IncomeTypes, Notices
  <1>1. notices' = (notices \ {n}) \cup IF n.awaited THEN {new} ELSE {}
    BY DEF Advance
  <1> HIDE DEF new
  <1>2. /\ earned' \subseteq Earnings /\ accrual' \subseteq earned'
        /\ credited' \subseteq earned' \ accrual'
    BY DEF NoticeInv
  <1>3. ASSUME NEW m \in notices'
        PROVE  /\ m.fees # {} /\ m.fees \subseteq earned' \ accrual'
               /\ m.at = "sent" => m.fees \cap credited' = {}
               /\ ~m.awaited => m.at = "sent"
    <2>1. CASE m = new /\ n.awaited
      BY <1>0, <2>1 DEF NoticeInv
    <2>2. CASE m \in notices /\ m # n
      BY <2>2 DEF NoticeInv
    <2> QED BY <1>1, <2>1, <2>2
  <1>4. \A m, k \in notices' : m # k => m.fees \cap k.fees = {}
    BY <1>0, <1>1 DEF NoticeInv
  <1> QED BY <1>2, <1>3, <1>4 DEF NoticeInv

(* A new report is of fees that no report is about. *)
LEMMA NotifyNotices ==
    ASSUME NoticeInv, NEW S, S # {}, Notify(S), credited' = credited, S \cap credited = {},
           \A n \in notices : S \cap n.fees = {},
           earned \subseteq earned', earned' \subseteq Earnings,
           accrual' \subseteq accrual, S \subseteq earned' \ accrual'
    PROVE  NoticeInv'
  <1> DEFINE new == [fees |-> S, at |-> "sent", awaited |-> TRUE]
  <1>1. notices' = notices \cup {new}
    BY DEF Notify
  <1>2. new.fees = S /\ new.at = "sent" /\ new.awaited
    OBVIOUS
  <1> HIDE DEF new
  <1>3. ASSUME NEW m \in notices'
        PROVE  /\ m.fees # {} /\ m.fees \subseteq earned' \ accrual'
               /\ m.at = "sent" => m.fees \cap credited' = {}
               /\ ~m.awaited => m.at = "sent"
    <2>1. CASE m = new
      BY <1>2, <2>1
    <2>2. CASE m \in notices
      BY <2>2 DEF NoticeInv
    <2> QED BY <1>1, <2>1, <2>2
  <1>4. \A m, k \in notices' : m # k => m.fees \cap k.fees = {}
    <2> SUFFICES ASSUME NEW m \in notices', NEW k \in notices', m # k
                 PROVE  m.fees \cap k.fees = {}
      OBVIOUS
    <2>1. CASE m \in notices /\ k \in notices
      BY <2>1 DEF NoticeInv
    <2>2. CASE m = new /\ k \in notices
      BY <1>2, <2>2
    <2>3. CASE m \in notices /\ k = new
      BY <1>2, <2>3
    <2> QED BY <1>1, <2>1, <2>2, <2>3
  <1>5. /\ earned' \subseteq Earnings /\ accrual' \subseteq earned'
        /\ credited' \subseteq earned' \ accrual'
    BY DEF NoticeInv
  <1> QED BY <1>3, <1>4, <1>5 DEF NoticeInv

LEMMA IncomeNext ==
    ASSUME IncomeInv, [Next]_vars
    PROVE  IncomeInv'
  <1>0. IncomeTypes /\ NoticeInv /\ LossInv
    BY DEF IncomeInv
  <1>1. CASE UNCHANGED income
    BY <1>0, <1>1 DEF income, IncomeInv, IncomeTypes, NoticeInv, LossInv, AwaitedNotices,
       DroppedNotices, FailedNotices
  <1>2. CASE PoolUpgrade
    <2>1. RestoreNotificationCounters /\ UNCHANGED <<earned, accrual, credited, lost>>
      BY <1>2 DEF PoolUpgrade
    <2>2. IncomeTypes' /\ LossInv'
      BY <1>0, <2>1, RestoreKeeps
    <2>3. \A n \in notices' : \E m \in notices :
             /\ n = [m EXCEPT !.awaited = FALSE] /\ m.at = "sent"
             /\ n.fees = m.fees /\ n.at = "sent" /\ ~n.awaited
      BY <1>0, <2>1 DEF RestoreNotificationCounters, IncomeTypes, Notices
    <2>4. NoticeInv'
      BY <1>0, <2>1, <2>3 DEF NoticeInv
    <2> QED BY <2>2, <2>4 DEF IncomeInv
  <1>3. ASSUME NEW e \in Earnings, EarnShieldFee(e) PROVE IncomeInv'
    <2>1. /\ e \notin earned /\ earned' = earned \cup {e} /\ Notify({e})
          /\ UNCHANGED <<accrual, credited, lost>>
      BY <1>3 DEF EarnShieldFee
    <2>2. IncomeTypes' /\ LossInv'
      <3>1. {e} \in SUBSET Earnings
        OBVIOUS
      <3> QED BY <1>0, <2>1, <3>1, NotifyKeeps
    <2>3. NoticeInv'
      BY <1>0, <2>1, NotifyNotices DEF NoticeInv
    <2> QED BY <2>2, <2>3 DEF IncomeInv
  <1>4. ASSUME NEW e \in Earnings, EarnSpendFee(e) PROVE IncomeInv'
    <2>1. /\ e \notin earned /\ earned' = earned \cup {e} /\ accrual' = accrual \cup {e}
          /\ UNCHANGED <<notices, gauge, credited, lost>>
      BY <1>4 DEF EarnSpendFee
    <2>2. IncomeTypes' /\ LossInv'
      BY <1>0, <2>1 DEF IncomeTypes, LossInv, AwaitedNotices, DroppedNotices, FailedNotices
    <2>3. NoticeInv'
      BY <1>0, <2>1 DEF NoticeInv
    <2> QED BY <2>2, <2>3 DEF IncomeInv
  <1>5. CASE FlushFeeAccrual
    <2>1. /\ accrual # {} /\ accrual' = {} /\ Notify(accrual)
          /\ UNCHANGED <<earned, credited, lost>>
      BY <1>5 DEF FlushFeeAccrual
    <2>2. IncomeTypes' /\ LossInv'
      BY <1>0, <2>1, NotifyKeeps DEF NoticeInv
    <2>3. NoticeInv'
      BY <1>0, <2>1, NotifyNotices DEF NoticeInv
    <2> QED BY <2>2, <2>3 DEF IncomeInv
  <1>6. ASSUME NEW n \in notices, ReceiveFeeSplit(n) PROVE IncomeInv'
    <2>1. /\ n.at = "sent" /\ credited' = credited \cup n.fees /\ Advance(n, "ok")
          /\ UNCHANGED <<earned, accrual, gauge, lost>>
      BY <1>6 DEF ReceiveFeeSplit
    <2> QED BY <1>0, <2>1, AdvanceKeeps, AdvanceNotices DEF IncomeInv
  <1>7. ASSUME NEW n \in notices, NoticeFails(n) PROVE IncomeInv'
    <2>1. /\ n.at = "sent" \/ n.at = "ok"
          /\ lost' = lost \/ lost' = lost \cup {n.fees}
          /\ Advance(n, "failed") /\ UNCHANGED <<earned, accrual, gauge, credited>>
      BY <1>7 DEF NoticeFails
    <2>2. IncomeTypes' /\ LossInv'
      BY <1>0, <2>1, AdvanceKeeps
    <2>3. NoticeInv'
      BY <1>0, <2>1, AdvanceNotices
    <2> QED BY <2>2, <2>3 DEF IncomeInv
  <1>8. ASSUME NEW n \in notices, NoticeReply(n) PROVE IncomeInv'
    <2>1. notices' = notices \ {n} /\ UNCHANGED <<earned, accrual, credited>>
      BY <1>8 DEF NoticeReply
    <2>2. NoticeInv'
      BY <1>0, <2>1 DEF NoticeInv
    <2> QED BY <1>0, <1>8, <2>2, ReplyKeeps DEF IncomeInv
  <1> QED BY <1>1, <1>2, <1>3, <1>4, <1>5, <1>6, <1>7, <1>8, IncomeApart DEF FeeStep

LEMMA IncomeInit == Init => IncomeInv
  <1> SUFFICES ASSUME Init PROVE IncomeInv
    OBVIOUS
  <1>1. /\ notices = {} /\ lost = {} /\ earned = {} /\ accrual = {} /\ credited = {}
        /\ gauge = [inFlight |-> 0, failures |-> 0, dropped |-> 0]
    BY DEF Init
  <1>2. IncomeTypes
    BY <1>1, FS_EmptySet DEF IncomeTypes, Gauges
  <1>3. NoticeInv
    BY <1>1 DEF NoticeInv
  <1>4. AwaitedNotices = {} /\ DroppedNotices = {} /\ FailedNotices = {} /\ Cardinality({}) = 0
    BY <1>1, FS_EmptySet DEF AwaitedNotices, DroppedNotices, FailedNotices
  <1>5. LossInv
    BY <1>1, <1>4 DEF LossInv
  <1> QED BY <1>2, <1>3, <1>5 DEF IncomeInv

(* Fees are reported once each and nothing is sent again: every report is  *)
(* of other fees than any other, and the counters know of each one whose   *)
(* answer will not come.                                                   *)
THEOREM IncomeInvariant == Spec => []IncomeInv
  <1>1. IncomeInv /\ [Next]_vars => IncomeInv'
    BY IncomeNext
  <1> QED BY <1>1, IncomeInit, PTL DEF Spec

(* A report that never arrives is not sent again; the failures counted by  *)
(* the callbacks and the callbacks an upgrade dropped cover every one.     *)
THEOREM LossIsVisibleAlways == Spec => []LossIsVisible
  <1>1. IncomeInv => LossIsVisible
    <2> SUFFICES ASSUME IncomeInv PROVE LossIsVisible
      OBVIOUS
    <2>1. /\ IsFiniteSet(notices) /\ IsFiniteSet(lost) /\ gauge \in Gauges
          /\ Cardinality(lost) + Cardinality(DroppedNotices)
                <= gauge.failures + gauge.dropped + Cardinality(FailedNotices)
      BY DEF IncomeInv, IncomeTypes, LossInv
    <2>2. gauge.failures \in Nat /\ gauge.dropped \in Nat
      BY <2>1 DEF Gauges
    <2>3. /\ Cardinality(lost) \in Nat /\ Cardinality(DroppedNotices) \in Nat
          /\ Cardinality(FailedNotices) \in Nat
      BY <2>1, NoticeSetsFinite
    <2>4. Cardinality(lost) <= gauge.failures + gauge.dropped + Cardinality(FailedNotices)
      BY <2>1, <2>2, <2>3
    <2> QED BY <2>4 DEF LossIsVisible, FailedNotices
  <1> QED BY <1>1, IncomeInvariant, PTL

-----------------------------------------------------------------------------
(* The pool's records: which fee a record was taken at, and what an answer *)
(* or a tombstone says of it.                                              *)
FeeInv == \A h \in Calls : Live(h) => rec[call[h].p].fee = call[h].fee

ToldExecuted(h) == call[h].pc = "replied" /\ call[h].reply = "executed"
AnswerTrue(h) ==
    \/ tomb[call[h].p] = "Executed"
    \/ Status(call[h].p) = "Executed" /\ rec[call[h].p].fee = call[h].fee
AnswerInv == \A h \in Calls : ToldExecuted(h) => AnswerTrue(h)

TombInv ==
    \A p \in Proposals : /\ tomb[p] = "Executed" => Status(p) = "Executed"
                         /\ tomb[p] = "NotExecuted" => rec[p] = None

FeesKnown ==
    /\ \A p \in Proposals : rec[p] # None => rec[p].fee \in Fees
    /\ \A h \in Calls : call[h].pc # "free" => call[h].fee \in Fees

PoolInv == FeesKnown /\ FeeInv /\ AnswerInv /\ TombInv

(* What a live call knows of its record. *)
LEMMA LiveFacts ==
    ASSUME Types, PaidInv, NEW h \in Calls, Live(h)
    PROVE  /\ call[h].p \in Proposals /\ tomb[call[h].p] = None
           /\ rec[call[h].p] \in Disbursements /\ rec[call[h].p] # None
           /\ Status(call[h].p) = rec[call[h].p].status
           /\ rec[call[h].p].status =
                 IF call[h].pc = "validation" THEN "PendingValidation" ELSE "PendingTransfer"
           /\ \A g \in Calls : g # h /\ Live(g) => call[g].p # call[h].p
  <1>1. call[h].pc # "free" /\ call[h].p \in Proposals
    BY DEF Live, Types
  <1> QED BY <1>1 DEF PaidInv, LiveHasRecord, OneLiveCall, Types, Status

(* The answer a call gets: it keeps what it asked. *)
LEMMA AnsweredIs ==
    ASSUME Types, NEW h \in Calls, NEW r, Answered(h, r)
    PROVE  /\ \A g \in Calls : g # h => call'[g] = call[g]
           /\ ~Live(h)'
           /\ \/ call'[h].pc = "free"
              \/ /\ call'[h].pc = "replied" /\ call'[h].reply = r /\ call[h].awaited
                 /\ call'[h].awaited
                 /\ call'[h].p = call[h].p /\ call'[h].fee = call[h].fee
           /\ call[h].awaited => call'[h].pc = "replied"
  BY DEF Types, Answered, CallRecords, FreeCall, Live

(* One call moves, and with it at most the record of one proposal that was *)
(* not decided yet.                                                        *)
LEMMA OneCallMoves ==
    ASSUME Types, PoolInv, NEW h \in Calls, NEW p \in Proposals,
           \A g \in Calls : g # h => call'[g] = call[g],
           \A q \in Proposals : q # p => rec'[q] = rec[q],
           tomb' = tomb,
           \/ rec'[p] = rec[p]
           \/ /\ Status(p) # "Executed" /\ tomb[p] = None
              /\ rec'[p] # None => rec'[p].fee \in Fees
              /\ \A g \in Calls : g # h /\ Live(g) => call[g].p # p,
           call'[h].pc # "free" => call'[h].fee \in Fees,
           Live(h)' => rec'[call'[h].p].fee = call'[h].fee,
           ToldExecuted(h)' => AnswerTrue(h)'
    PROVE  PoolInv'
  <1>0. FeesKnown /\ FeeInv /\ AnswerInv /\ TombInv
    BY DEF PoolInv
  <1>1. FeesKnown'
    <2>1. ASSUME NEW q \in Proposals, rec'[q] # None PROVE rec'[q].fee \in Fees
      BY <1>0, <2>1 DEF FeesKnown
    <2>2. ASSUME NEW g \in Calls, call'[g].pc # "free" PROVE call'[g].fee \in Fees
      BY <1>0, <2>2 DEF FeesKnown
    <2> QED BY <2>1, <2>2 DEF FeesKnown
  <1>2. FeeInv'
    <2> SUFFICES ASSUME NEW g \in Calls, Live(g)' PROVE rec'[call'[g].p].fee = call'[g].fee
      BY DEF FeeInv
    <2>1. CASE g = h
      BY <2>1
    <2>2. CASE g # h
      <3>1. call'[g] = call[g] /\ Live(g)
        BY <2>2 DEF Live
      <3>2. call[g].p \in Proposals
        BY <3>1 DEF Live, Types
      <3>3. rec'[call[g].p] = rec[call[g].p]
        BY <2>2, <3>1, <3>2
      <3> QED BY <1>0, <3>1, <3>3 DEF FeeInv
    <2> QED BY <2>1, <2>2
  <1>3. AnswerInv'
    <2> SUFFICES ASSUME NEW g \in Calls, ToldExecuted(g)' PROVE AnswerTrue(g)'
      BY DEF AnswerInv
    <2>1. CASE g # h
      <3>1. call'[g] = call[g] /\ ToldExecuted(g) /\ AnswerTrue(g)
        BY <1>0, <2>1 DEF ToldExecuted, AnswerInv
      <3>2. call[g].p \in Proposals
        BY <3>1 DEF ToldExecuted, Types
      <3>3. CASE tomb[call[g].p] = "Executed"
        BY <3>1, <3>3 DEF AnswerTrue
      <3>4. CASE Status(call[g].p) = "Executed" /\ rec[call[g].p].fee = call[g].fee
        <4>1. rec'[call[g].p] = rec[call[g].p]
          BY <3>2, <3>4
        <4> QED BY <3>1, <3>4, <4>1 DEF AnswerTrue, Status
      <3> QED BY <3>1, <3>3, <3>4 DEF AnswerTrue
    <2> QED BY <2>1
  <1>4. TombInv'
    <2> SUFFICES ASSUME NEW q \in Proposals
                 PROVE  /\ tomb'[q] = "Executed" => Status(q)' = "Executed"
                        /\ tomb'[q] = "NotExecuted" => rec'[q] = None
      BY DEF TombInv
    <2>1. CASE rec'[q] = rec[q]
      BY <1>0, <2>1 DEF TombInv, Status
    <2>2. CASE rec'[q] # rec[q]
      BY <2>2, TreasuryAssumption DEF Verdicts
    <2> QED BY <2>1, <2>2
  <1> QED BY <1>1, <1>2, <1>3, <1>4 DEF PoolInv

(* Calls that keep to what they asked, and learn nothing new.              *)
LEMMA CallsKeep ==
    ASSUME Types, PoolInv, UNCHANGED <<rec, tomb>>,
           \A g \in Calls :
              \/ call'[g].pc = "free"
              \/ /\ call'[g].pc # "free" /\ call[g].pc # "free"
                 /\ call'[g].p = call[g].p /\ call'[g].fee = call[g].fee
                 /\ Live(g)' => Live(g)
                 /\ ToldExecuted(g)' => ToldExecuted(g)
    PROVE  PoolInv'
  <1>0. FeesKnown /\ FeeInv /\ AnswerInv /\ TombInv
    BY DEF PoolInv
  <1>1. FeesKnown' /\ TombInv'
    BY <1>0 DEF FeesKnown, TombInv, Status
  <1>2. FeeInv'
    BY <1>0 DEF FeeInv, Live
  <1>3. AnswerInv'
    BY <1>0 DEF AnswerInv, AnswerTrue, ToldExecuted, Status
  <1> QED BY <1>1, <1>2, <1>3 DEF PoolInv

(* The turn of a proposal, its reservation, and its call of the pool.      *)
TotalsKnown ==
    \A p \in Proposals : /\ rsv[p].total \in Totals(p) /\ turn[p].total \in Totals(p)
                         /\ turn[p].frozen \in Totals(p)
TurnReserves ==
    \A p \in Proposals : turn[p].pc # "idle" =>
        /\ proposal[p] = "Pending"
        /\ rsv[p].status = IF turn[p].retry THEN "RetryingUnknown" ELSE "Reserved"

Linked(p, c) ==
    /\ c.pc # "free" /\ c.p = p /\ c.awaited
    /\ turn[p].total # None /\ c.fee = turn[p].total - Amount[p]
    /\ rsv[p].total = turn[p].total
LinkInv == \A p \in Proposals : turn[p].pc = "pool" => Linked(p, call[turn[p].call])

TurnInv == TotalsKnown /\ TurnReserves /\ LinkInv

LEMMA TotalDebitKnown ==
    ASSUME Types, TotalsKnown, NEW p \in Proposals
    PROVE  /\ TotalDebit(p) \in Totals(p) /\ TotalDebit(p) # None /\ TotalDebit(p) \in Nat
           /\ TotalDebit(p) - Amount[p] \in Fees
  <1>1. Amount[p] \in Nat /\ fee \in Fees /\ Fees \subseteq Nat /\ None \notin Int
    BY TreasuryAssumption DEF Types
  <1>2. /\ TotalDebit(p) \in Totals(p) /\ TotalDebit(p) # None
    BY <1>1 DEF TotalDebit, TotalsKnown, Totals
  <1>3. PICK f \in Fees : TotalDebit(p) = Amount[p] + f
    BY <1>2 DEF Totals
  <1>4. TotalDebit(p) \in Nat /\ TotalDebit(p) - Amount[p] = f
    BY <1>1, <1>3
  <1> QED BY <1>2, <1>3, <1>4

(* The request of an admitted turn. *)
LEMMA FeeReplySends ==
    ASSUME Types, NEW p \in Proposals, FeeReply(p), Admitted(p, TotalDebit(p))
    PROVE  \E h \in Calls :
             /\ call[h].pc = "free"
             /\ call' = [call EXCEPT ![h] =
                   [pc |-> "sent", p |-> p, fee |-> TotalDebit(p) - Amount[p], awaited |-> TRUE,
                    stamp |-> None, reply |-> None]]
             /\ turn' = [turn EXCEPT ![p].pc = "pool", ![p].total = TotalDebit(p), ![p].call = h]
             /\ rsv' = [rsv EXCEPT ![p].total = TotalDebit(p)]
  <1> DEFINE h == CHOOSE k \in Calls : call[k].pc = "free"
  <1>1. h \in Calls /\ call[h].pc = "free"
    BY DEF FeeReply
  <1> QED BY <1>1 DEF FeeReply

LEMMA TreasuryPool ==
    ASSUME Types, PoolInv, TotalsKnown, NEW p \in Proposals, TreasuryStep(p)
    PROVE  PoolInv'
  <1>1. CASE Propose(p) \/ Execute(p) \/ FeeFails(p) \/ Reject(p)
    <2>1. UNCHANGED <<rec, tomb, call>>
      BY <1>1 DEF Propose, Execute, FeeFails, Reject, disbursal
    <2> QED BY <2>1, CallsKeep DEF Live, ToldExecuted
  <1>2. CASE FeeReply(p)
    <2>1. UNCHANGED <<rec, tomb>>
      BY <1>2 DEF FeeReply
    <2>2. CASE ~Admitted(p, TotalDebit(p))
      <3>1. UNCHANGED call
        BY <1>2, <2>2 DEF FeeReply
      <3> QED BY <2>1, <3>1, CallsKeep DEF Live, ToldExecuted
    <2>3. CASE Admitted(p, TotalDebit(p))
      <3>1. PICK h \in Calls :
              call' = [call EXCEPT ![h] =
                   [pc |-> "sent", p |-> p, fee |-> TotalDebit(p) - Amount[p], awaited |-> TRUE,
                    stamp |-> None, reply |-> None]]
        BY <1>2, <2>3, FeeReplySends
      <3>2. /\ \A g \in Calls : g # h => call'[g] = call[g]
            /\ call'[h].fee = TotalDebit(p) - Amount[p] /\ call'[h].pc = "sent"
        BY <3>1 DEF Types
      <3>3. call'[h].fee \in Fees
        BY <3>2, TotalDebitKnown
      <3>4. ~Live(h)' /\ ~ToldExecuted(h)'
        BY <3>2 DEF Live, ToldExecuted
      <3> QED BY <2>1, <3>2, <3>3, <3>4, OneCallMoves
    <2> QED BY <2>2, <2>3
  <1>3. CASE PoolReply(p)
    <2>1. /\ UNCHANGED <<rec, tomb>>
          /\ call' = [call EXCEPT ![turn[p].call] = FreeCall]
      BY <1>3 DEF PoolReply
    <2>2. \A g \in Calls : call'[g].pc = "free" \/ call'[g] = call[g]
      BY <2>1 DEF Types, FreeCall
    <2> QED BY <2>1, <2>2, CallsKeep DEF Live, ToldExecuted
  <1> QED BY <1>1, <1>2, <1>3 DEF TreasuryStep

LEMMA PoolStepPool ==
    ASSUME Types, PaidInv, PoolInv, NEW h \in Calls, PoolStep(h)
    PROVE  PoolInv'
  <1> DEFINE p == call[h].p
  <1>0. /\ FeesKnown /\ FeeInv /\ AnswerInv /\ TombInv
        /\ call[h].pc # "free" => p \in Proposals /\ call[h].fee \in Fees
    BY DEF PoolInv, Types, FeesKnown
  <1>1. CASE TreasuryDisburse(h)
    <2>0. p \in Proposals /\ call[h].fee \in Fees /\ UNCHANGED tomb
      BY <1>0, <1>1 DEF TreasuryDisburse
    <2>1. CASE Known(p)
      <3>1. Answered(h, PriorAnswer(p, call[h].fee)) /\ UNCHANGED rec
        BY <1>1, <2>1 DEF TreasuryDisburse
      <3>2. PriorAnswer(p, call[h].fee) = "executed" =>
               \/ tomb[p] = "Executed"
               \/ Status(p) = "Executed" /\ rec[p].fee = call[h].fee
        BY <2>1 DEF PriorAnswer, Known, Status
      <3>3. ToldExecuted(h)' => AnswerTrue(h)'
        BY <2>0, <3>1, <3>2, AnsweredIs DEF ToldExecuted, AnswerTrue, Status
      <3> QED BY <2>0, <3>1, <3>3, AnsweredIs, OneCallMoves
    <2>2. CASE ~Known(p)
      <3>1. /\ rec' = [rec EXCEPT ![p] =
                  [status |-> "PendingValidation", fee |-> call[h].fee, stamp |-> None]]
            /\ call' = [call EXCEPT ![h].pc = "validation"]
            /\ rec[p] = None /\ tomb[p] = None
        BY <1>1, <2>2 DEF TreasuryDisburse, Known
      <3>2. /\ \A g \in Calls : g # h => call'[g] = call[g]
            /\ call'[h].pc = "validation" /\ call'[h].p = p /\ call'[h].fee = call[h].fee
        BY <3>1 DEF Types, CallRecords
      <3>3. /\ \A q \in Proposals : q # p => rec'[q] = rec[q]
            /\ rec'[p].fee = call[h].fee /\ Status(p) # "Executed"
        BY <2>0, <3>1 DEF Types, Status
      <3>4. \A g \in Calls : Live(g) => call[g].p # p
        BY <3>1, LiveFacts
      <3>5. ~ToldExecuted(h)'
        BY <3>2 DEF ToldExecuted
      <3> QED BY <2>0, <3>1, <3>2, <3>3, <3>4, <3>5, OneCallMoves
    <2> QED BY <2>1, <2>2
  <1>2. ASSUME Live(h), UNCHANGED tomb, NEW r \in {"failed", "transport"}, Answered(h, r),
               rec' = rec \/ Remove(p)
        PROVE  PoolInv'
    <2>1. /\ p \in Proposals /\ tomb[p] = None /\ Status(p) # "Executed"
          /\ \A g \in Calls : g # h /\ Live(g) => call[g].p # p
          /\ call[h].fee \in Fees
      BY <1>0, <1>2, LiveFacts DEF Live
    <2>2. /\ \A q \in Proposals : q # p => rec'[q] = rec[q]
          /\ rec'[p] = rec[p] \/ rec'[p] = None
      BY <1>2, <2>1 DEF Remove, Types
    <2>3. ~Live(h)' /\ ~ToldExecuted(h)'
      BY <1>2, AnsweredIs DEF ToldExecuted
    <2> QED BY <1>2, <2>1, <2>2, <2>3, AnsweredIs, OneCallMoves
  <1>3. CASE Validated(h)
    <2>0. Live(h) /\ UNCHANGED tomb
      BY <1>3 DEF Validated, Live
    <2>1. CASE Remove(p) /\ Answered(h, "failed")
      BY <1>2, <2>0, <2>1
    <2>2. CASE ~(Remove(p) /\ Answered(h, "failed"))
      <3>1. /\ rec' = [rec EXCEPT ![p].status = "PendingTransfer", ![p].stamp = stamps[p] + 1]
            /\ call' = [call EXCEPT ![h].pc = "transfer", ![h].stamp = stamps[p] + 1]
        BY <1>3, <2>2 DEF Validated
      <3>2. /\ \A g \in Calls : g # h => call'[g] = call[g]
            /\ call'[h].pc = "transfer" /\ call'[h].p = p /\ call'[h].fee = call[h].fee
        BY <3>1 DEF Types, CallRecords
      <3>3. /\ p \in Proposals /\ rec[p] \in Disbursements /\ tomb[p] = None
            /\ Status(p) # "Executed" /\ call[h].fee \in Fees /\ rec[p].fee = call[h].fee
            /\ \A g \in Calls : g # h /\ Live(g) => call[g].p # p
        BY <1>0, <2>0, LiveFacts DEF Live, FeeInv
      <3>4. \A q \in Proposals : q # p => rec'[q] = rec[q]
        BY <3>1, <3>3 DEF Types
      <3>5. rec'[p].fee = call[h].fee
        <4>1. rec'[p] = [rec[p] EXCEPT !.status = "PendingTransfer", !.stamp = stamps[p] + 1]
          BY <3>1, <3>3 DEF Types
        <4> QED BY <3>3, <4>1 DEF Disbursements
      <3>6. ~ToldExecuted(h)'
        BY <3>2 DEF ToldExecuted
      <3> QED BY <2>0, <3>2, <3>3, <3>4, <3>5, <3>6, OneCallMoves
    <2> QED BY <2>1, <2>2
  <1>4. CASE ValidationFails(h)
    <2>1. Live(h) /\ UNCHANGED tomb /\ Remove(p) /\ Answered(h, "failed")
      BY <1>4 DEF ValidationFails, Live
    <2> QED BY <1>2, <2>1
  <1>5. CASE TransferReply(h)
    <2>0. Live(h) /\ UNCHANGED tomb /\ call[h].pc = "answered"
      BY <1>5 DEF TransferReply, Live
    <2>1. CASE Remove(p) /\ Answered(h, "failed")
      BY <1>2, <2>0, <2>1
    <2>2. CASE ~(Remove(p) /\ Answered(h, "failed"))
      <3>1. \/ SetStatus(p, "Executed") /\ Answered(h, "executed")
            \/ SetStatus(p, "TransportUnknown") /\ Answered(h, "failed")
        BY <1>5, <2>2 DEF TransferReply
      <3>2. /\ p \in Proposals /\ rec[p] \in Disbursements /\ rec[p] # None /\ tomb[p] = None
            /\ Status(p) # "Executed" /\ call[h].fee \in Fees /\ rec[p].fee = call[h].fee
            /\ \A g \in Calls : g # h /\ Live(g) => call[g].p # p
        BY <1>0, <2>0, LiveFacts DEF Live, FeeInv
      <3>3. /\ \A q \in Proposals : q # p => rec'[q] = rec[q]
            /\ \E s : /\ rec'[p] = [rec[p] EXCEPT !.status = s]
                      /\ s = "Executed" \/ (s = "TransportUnknown" /\ Answered(h, "failed"))
                      /\ s \in {"Executed", "TransportUnknown"}
        BY <3>1, <3>2 DEF Types, SetStatus
      <3>4. /\ rec'[p].fee = call[h].fee /\ rec'[p] \in Disbursements
            /\ rec'[p].status = "Executed" \/ Answered(h, "failed")
        BY <3>2, <3>3 DEF Disbursements
      <3>5. /\ ToldExecuted(h)' => Status(p)' = "Executed"
            /\ ToldExecuted(h)' => call'[h].p = p /\ call'[h].fee = call[h].fee
        <4>1. Answered(h, "failed") => ~ToldExecuted(h)'
          BY AnsweredIs DEF ToldExecuted
        <4>2. rec'[p] # None
          BY <3>4, TreasuryAssumption
        <4>3. ToldExecuted(h)' => call'[h].p = p /\ call'[h].fee = call[h].fee
          BY <3>1, AnsweredIs DEF ToldExecuted
        <4> QED BY <3>4, <4>1, <4>2, <4>3 DEF Status
      <3>6. ToldExecuted(h)' => AnswerTrue(h)'
        BY <3>4, <3>5 DEF AnswerTrue
      <3>7. /\ \A g \in Calls : g # h => call'[g] = call[g]
            /\ ~Live(h)' /\ (call'[h].pc # "free" => call'[h].fee \in Fees)
        BY <3>1, <3>2, AnsweredIs
      <3> QED BY <2>0, <3>2, <3>3, <3>4, <3>6, <3>7, OneCallMoves
    <2> QED BY <2>1, <2>2
  <1>6. CASE CallbackTraps(h)
    <2>1. Live(h) /\ UNCHANGED <<rec, tomb>> /\ Answered(h, "transport")
      BY <1>6 DEF CallbackTraps, Live
    <2> QED BY <1>2, <2>1
  <1> QED BY <1>1, <1>3, <1>4, <1>5, <1>6 DEF PoolStep

(* What the token answers a call, or the network makes of it. *)
LEMMA TokenAnswers ==
    ASSUME Types, NEW h \in Calls, TokenStep(h)
    PROVE  /\ UNCHANGED <<rec, tomb, treasury, reserve, income, fee, stamps>>
           /\ call[h].pc # "free"
           /\ \/ Answered(h, "transport")
              \/ \E r \in {"settled", "refused", "window", "lost"} :
                    /\ call[h].pc \in {"transfer", "answered"}
                    /\ call' = [call EXCEPT ![h].pc = "answered", ![h].reply = r]
  <1>1. CASE LedgerTransfer(h)
    BY <1>1 DEF LedgerTransfer
  <1>2. CASE LedgerRefuses(h, "refused") \/ LedgerRefuses(h, "window")
    BY <1>2 DEF LedgerRefuses, token
  <1>3. CASE CallFails(h)
    BY <1>3 DEF CallFails, token
  <1> QED BY <1>1, <1>2, <1>3 DEF TokenStep

LEMMA TokenPool ==
    ASSUME Types, PoolInv, NEW h \in Calls, TokenStep(h)
    PROVE  PoolInv'
  <1>0. UNCHANGED <<rec, tomb>> /\ call[h].pc # "free"
    BY TokenAnswers
  <1>1. CASE Answered(h, "transport")
    <2>1. ~ToldExecuted(h)'
      BY <1>1, AnsweredIs DEF ToldExecuted
    <2> QED BY <1>0, <1>1, <2>1, AnsweredIs, CallsKeep DEF Live, ToldExecuted
  <1>2. ASSUME NEW r \in {"settled", "refused", "window", "lost"},
               call[h].pc \in {"transfer", "answered"},
               call' = [call EXCEPT ![h].pc = "answered", ![h].reply = r]
        PROVE  PoolInv'
    <2>1. /\ \A g \in Calls : g # h => call'[g] = call[g]
          /\ call'[h].pc = "answered" /\ call'[h].p = call[h].p /\ call'[h].fee = call[h].fee
          /\ Live(h)
      BY <1>2 DEF Types, CallRecords, Live
    <2> QED BY <1>0, <2>1, CallsKeep DEF Live, ToldExecuted
  <1> QED BY <1>1, <1>2, TokenAnswers

(* The operator's decision: what it makes of the record and its tombstone. *)
LEMMA DecideMoves ==
    ASSUME Types, TombInv, NEW p \in Proposals, Decide(p)
    PROVE  /\ UNCHANGED <<treasury, call, income, token, stamps>>
           /\ \A h \in Calls : Live(h) => call[h].p # p
           /\ \A q \in Proposals : q # p => rec'[q] = rec[q] /\ tomb'[q] = tomb[q]
           /\ rec[p] \in Disbursements /\ rec[p] # None /\ Status(p) = rec[p].status
           /\ tomb[p] = None
           /\ \/ /\ Status(p) = "PendingValidation" /\ rec'[p] = None /\ tomb'[p] = None
                 /\ UNCHANGED reserve
              \/ /\ Status(p) \in {"PendingTransfer", "TransportUnknown"}
                 /\ tomb'[p] = "Executed" /\ UNCHANGED reserve
                 /\ rec'[p] \in Disbursements /\ rec'[p] # None
                 /\ rec'[p].status = "Executed" /\ rec'[p].fee = rec[p].fee
              \/ /\ Status(p) \in {"PendingTransfer", "TransportUnknown"}
                 /\ tomb'[p] = "NotExecuted" /\ reserve' = reserve + Total(p)
                 /\ rec'[p] = None
  <1>1. PICK outcome \in Verdicts : Reconcile(p, outcome)
    BY DEF Decide, Verdicts
  <1>2. /\ UNCHANGED <<treasury, call, income, token, stamps>>
        /\ \A h \in Calls : Live(h) => call[h].p # p
    BY <1>1 DEF Reconcile, Live
  <1>3. /\ Status(p) \in {"PendingValidation", "PendingTransfer", "TransportUnknown"}
        /\ Remove(p) \/ SetStatus(p, "Executed")
    BY <1>1 DEF Reconcile
  <1>4. rec[p] \in Disbursements /\ rec[p] # None /\ Status(p) = rec[p].status
    BY <1>3 DEF Status, Types
  <1>5. tomb[p] = None
    BY <1>3, <1>4, TreasuryAssumption DEF TombInv, Types, Verdicts
  <1>6. \A q \in Proposals : q # p => rec'[q] = rec[q] /\ tomb'[q] = tomb[q]
    BY <1>1, <1>3 DEF Reconcile, Remove, SetStatus, Types
  <1>7. ASSUME SetStatus(p, "Executed")
        PROVE  /\ rec'[p] \in Disbursements /\ rec'[p] # None
               /\ rec'[p].status = "Executed" /\ rec'[p].fee = rec[p].fee
    <2>1. rec'[p] = [rec[p] EXCEPT !.status = "Executed"]
      BY <1>4, <1>7 DEF SetStatus, Types
    <2>2. rec'[p] \in Disbursements
      BY <1>4, <2>1 DEF Disbursements
    <2>3. rec'[p].status = "Executed" /\ rec'[p].fee = rec[p].fee
      BY <1>4, <2>1 DEF Disbursements
    <2> QED BY <2>2, <2>3, TreasuryAssumption
  <1>8. Remove(p) => rec'[p] = None
    BY DEF Remove, Types
  <1>9. CASE Status(p) = "PendingValidation"
    <2>1. Remove(p) /\ UNCHANGED <<tomb, reserve>>
      BY <1>1, <1>9 DEF Reconcile
    <2> QED BY <1>2, <1>4, <1>5, <1>6, <1>8, <1>9, <2>1
  <1>10. CASE Status(p) \in {"PendingTransfer", "TransportUnknown"}
    <2>1. tomb'[p] = outcome
      BY <1>1, <1>5, <1>10 DEF Reconcile, Types
    <2>2. \/ outcome = "Executed" /\ SetStatus(p, "Executed") /\ UNCHANGED reserve
          \/ outcome = "NotExecuted" /\ Remove(p) /\ reserve' = reserve + Total(p)
      BY <1>1, <1>10 DEF Reconcile
    <2> QED BY <1>2, <1>4, <1>5, <1>6, <1>7, <1>8, <1>10, <2>1, <2>2
  <1> QED BY <1>3, <1>9, <1>10

LEMMA DecidePool ==
    ASSUME Types, PoolInv, NEW p \in Proposals, Decide(p)
    PROVE  PoolInv'
  <1>0. FeesKnown /\ FeeInv /\ AnswerInv /\ TombInv
    BY DEF PoolInv
  <1>1. /\ UNCHANGED call /\ rec[p] # None /\ tomb[p] = None /\ Status(p) # "Executed"
        /\ \A h \in Calls : Live(h) => call[h].p # p
        /\ \A q \in Proposals : q # p => rec'[q] = rec[q] /\ tomb'[q] = tomb[q]
        /\ rec'[p] # None => rec'[p].fee = rec[p].fee
    BY <1>0, DecideMoves
  <1>2. FeesKnown'
    BY <1>0, <1>1 DEF FeesKnown
  <1>3. FeeInv'
    BY <1>0, <1>1 DEF FeeInv, Live, Types
  <1>4. AnswerInv'
    <2> SUFFICES ASSUME NEW g \in Calls, ToldExecuted(g)' PROVE AnswerTrue(g)'
      BY DEF AnswerInv
    <2>1. /\ call'[g] = call[g] /\ ToldExecuted(g) /\ AnswerTrue(g) /\ call[g].p \in Proposals
      BY <1>0, <1>1 DEF AnswerInv, ToldExecuted, Types
    <2>2. call[g].p # p
      BY <1>1, <2>1, TreasuryAssumption DEF AnswerTrue, Verdicts
    <2> QED BY <1>1, <2>1, <2>2 DEF AnswerTrue, Status
  <1>5. TombInv'
    <2> SUFFICES ASSUME NEW q \in Proposals
                 PROVE  /\ tomb'[q] = "Executed" => Status(q)' = "Executed"
                        /\ tomb'[q] = "NotExecuted" => rec'[q] = None
      BY DEF TombInv
    <2>1. CASE q # p
      BY <1>0, <1>1, <2>1 DEF TombInv, Status
    <2>2. CASE q = p
      BY <1>0, <2>2, DecideMoves, TreasuryAssumption DEF Status, Verdicts
    <2> QED BY <2>1, <2>2
  <1> QED BY <1>2, <1>3, <1>4, <1>5 DEF PoolInv

LEMMA TreasuryUpgradePool == Types /\ PoolInv /\ TreasuryUpgrade => PoolInv'
  <1> SUFFICES ASSUME Types, PoolInv, TreasuryUpgrade PROVE PoolInv'
    OBVIOUS
  <1>1. UNCHANGED <<rec, tomb>>
    BY DEF TreasuryUpgrade
  <1>2. ASSUME NEW g \in Calls
        PROVE  \/ call'[g].pc = "free"
               \/ /\ call'[g].pc # "free" /\ call[g].pc # "free"
                  /\ call'[g].p = call[g].p /\ call'[g].fee = call[g].fee
                  /\ Live(g)' => Live(g)
                  /\ ToldExecuted(g)' => ToldExecuted(g)
    <2>1. call'[g] = FreeCall \/ call'[g] = [call[g] EXCEPT !.awaited = FALSE]
      BY DEF TreasuryUpgrade
    <2>2. call[g] \in CallRecords
      BY DEF Types
    <2>3. CASE call'[g] = FreeCall
      BY <2>3 DEF FreeCall
    <2>4. CASE call'[g] = [call[g] EXCEPT !.awaited = FALSE]
      <3>1. /\ call'[g].pc = call[g].pc /\ call'[g].p = call[g].p
            /\ call'[g].fee = call[g].fee /\ call'[g].reply = call[g].reply
        BY <2>2, <2>4 DEF CallRecords
      <3> QED BY <3>1 DEF Live, ToldExecuted
    <2> QED BY <2>1, <2>3, <2>4
  <1> QED BY <1>1, <1>2, CallsKeep

(* An upgrade of the pool: what was not debited is gone, its calls with it.*)
LEMMA PoolUpgradeMoves ==
    ASSUME Types, PoolUpgrade
    PROVE  /\ UNCHANGED <<treasury, tomb, reserve, earned, credited, fee, stamps>>
           /\ \A p \in Proposals :
                 \/ Status(p) # "PendingValidation" /\ rec'[p] = rec[p]
                 \/ Status(p) = "PendingValidation" /\ rec'[p] = None
           /\ \A g \in Calls :
                 \/ call'[g].pc = "free" /\ ~call[g].awaited
                 \/ call'[g] = call[g] /\ ~Live(g)
                 \/ /\ Live(g) /\ call'[g].pc = "replied" /\ call'[g].reply = "transport"
                    /\ call'[g].p = call[g].p /\ call'[g].fee = call[g].fee
                    /\ call[g].awaited /\ call'[g].awaited
  <1>1. /\ UNCHANGED <<treasury, tomb, reserve, earned, credited, fee, stamps>>
        /\ \A p \in Proposals :
              \/ Status(p) # "PendingValidation" /\ rec'[p] = rec[p]
              \/ Status(p) = "PendingValidation" /\ rec'[p] = None
    BY DEF PoolUpgrade
  <1>2. ASSUME NEW g \in Calls
        PROVE  \/ call'[g].pc = "free" /\ ~call[g].awaited
               \/ call'[g] = call[g] /\ ~Live(g)
               \/ /\ Live(g) /\ call'[g].pc = "replied" /\ call'[g].reply = "transport"
                  /\ call'[g].p = call[g].p /\ call'[g].fee = call[g].fee
                  /\ call[g].awaited /\ call'[g].awaited
    <2>1. \/ call'[g] = call[g] /\ ~Live(g)
          \/ call'[g] = FreeCall /\ ~call[g].awaited
          \/ /\ call'[g] = [call[g] EXCEPT !.pc = "replied", !.reply = "transport"]
             /\ Live(g) /\ call[g].awaited
      BY DEF PoolUpgrade, Live
    <2>2. call[g] \in CallRecords
      BY DEF Types
    <2>3. ASSUME call'[g] = [call[g] EXCEPT !.pc = "replied", !.reply = "transport"]
          PROVE  /\ call'[g].pc = "replied" /\ call'[g].reply = "transport"
                 /\ call'[g].p = call[g].p /\ call'[g].fee = call[g].fee
                 /\ call'[g].awaited = call[g].awaited
      BY <2>2, <2>3 DEF CallRecords
    <2>4. FreeCall.pc = "free"
      BY DEF FreeCall
    <2> QED BY <2>1, <2>3, <2>4
  <1> QED BY <1>1, <1>2

LEMMA PoolUpgradePool == Types /\ PoolInv /\ PoolUpgrade => PoolInv'
  <1> SUFFICES ASSUME Types, PoolInv, PoolUpgrade PROVE PoolInv'
    OBVIOUS
  <1>0. FeesKnown /\ FeeInv /\ AnswerInv /\ TombInv
    BY DEF PoolInv
  <1>1. ASSUME NEW g \in Calls
        PROVE  ~Live(g)' /\ (ToldExecuted(g)' => ToldExecuted(g) /\ call'[g] = call[g])
               /\ (call'[g].pc # "free" => call'[g].fee \in Fees)
    <2>1. CASE call'[g].pc = "free"
      BY <2>1 DEF Live, ToldExecuted
    <2>2. CASE call'[g] = call[g] /\ ~Live(g)
      BY <1>0, <2>2 DEF Live, ToldExecuted, FeesKnown
    <2>3. CASE /\ Live(g) /\ call'[g].pc = "replied" /\ call'[g].reply = "transport"
               /\ call'[g].fee = call[g].fee
      BY <1>0, <2>3 DEF Live, ToldExecuted, FeesKnown
    <2> QED BY <2>1, <2>2, <2>3, PoolUpgradeMoves
  <1>2. FeesKnown' /\ FeeInv'
    BY <1>0, <1>1, PoolUpgradeMoves DEF FeesKnown, FeeInv
  <1>3. AnswerInv'
    <2> SUFFICES ASSUME NEW g \in Calls, ToldExecuted(g)' PROVE AnswerTrue(g)'
      BY DEF AnswerInv
    <2>1. ToldExecuted(g) /\ AnswerTrue(g) /\ call'[g] = call[g] /\ call[g].p \in Proposals
      BY <1>0, <1>1 DEF AnswerInv, ToldExecuted, Types
    <2> QED BY <2>1, PoolUpgradeMoves DEF AnswerTrue, Status
  <1>4. TombInv'
    BY <1>0, PoolUpgradeMoves DEF TombInv, Status
  <1> QED BY <1>2, <1>3, <1>4 DEF PoolInv

LEMMA PoolNext ==
    ASSUME Types, PaidInv, PoolInv, TotalsKnown, [Next]_vars
    PROVE  PoolInv'
  <1>1. CASE UNCHANGED <<rec, tomb, call>>
    BY <1>1, CallsKeep DEF Live, ToldExecuted
  <1>2. ASSUME NEW p \in Proposals, TreasuryStep(p) \/ Decide(p) PROVE PoolInv'
    BY <1>2, TreasuryPool, DecidePool
  <1>3. ASSUME NEW h \in Calls, PoolStep(h) \/ TokenStep(h) PROVE PoolInv'
    BY <1>3, PoolStepPool, TokenPool
  <1>4. ASSUME \/ UNCHANGED vars \/ FeeStep \/ (\E q \in orphans : LateTransfer(q))
               \/ (\E f \in Fees : SetLedgerFee(f))
        PROVE  UNCHANGED <<rec, tomb, call>>
    BY <1>4, FeesApart DEF vars, disbursal, LateTransfer, SetLedgerFee
  <1> QED BY <1>1, <1>2, <1>3, <1>4, TreasuryUpgradePool, PoolUpgradePool DEF Next

LEMMA PoolInit == Init => PoolInv
  BY TreasuryAssumption DEF Init, PoolInv, FeesKnown, FeeInv, AnswerInv, TombInv, Live,
     ToldExecuted, FreeCall, Verdicts, Status

-----------------------------------------------------------------------------
(* A call that the treasury waits for keeps what it asked until it is      *)
(* answered.                                                               *)
CallsStay ==
    \A g \in Calls : call[g].pc # "free" /\ call[g].awaited =>
        /\ call'[g].pc # "free" /\ call'[g].awaited
        /\ call'[g].p = call[g].p /\ call'[g].fee = call[g].fee

LEMMA PoolCallsStay ==
    ASSUME Types, NEW h \in Calls, PoolStep(h) \/ TokenStep(h)
    PROVE  CallsStay
  <1>1. CASE \E r : Answered(h, r)
    BY <1>1, AnsweredIs DEF CallsStay
  <1>2. CASE call' = [call EXCEPT ![h].pc = "validation"]
    BY <1>2 DEF CallsStay, Types, CallRecords
  <1>3. CASE call' = [call EXCEPT ![h].pc = "transfer", ![h].stamp = stamps[call[h].p] + 1]
    BY <1>3 DEF CallsStay, Types, CallRecords
  <1>4. CASE \E r : call' = [call EXCEPT ![h].pc = "answered", ![h].reply = r]
    BY <1>4 DEF CallsStay, Types, CallRecords
  <1>5. CASE PoolStep(h)
    BY <1>1, <1>2, <1>3, <1>5 DEF PoolStep, TreasuryDisburse, Validated, ValidationFails,
       TransferReply, CallbackTraps
  <1>6. CASE TokenStep(h)
    BY <1>1, <1>4, <1>6, TokenAnswers
  <1> QED BY <1>5, <1>6

(* Nothing but the treasury touches its turns. *)
LEMMA TurnsStay ==
    ASSUME Types, TurnInv, UNCHANGED <<turn, rsv, proposal>>, CallsStay
    PROVE  TurnInv'
  <1>1. TotalsKnown /\ TurnReserves /\ LinkInv
    BY DEF TurnInv
  <1>2. TotalsKnown' /\ TurnReserves'
    BY <1>1 DEF TotalsKnown, TurnReserves, Totals
  <1>3. LinkInv'
    <2> SUFFICES ASSUME NEW p \in Proposals, turn[p].pc = "pool"
                 PROVE  Linked(p, call[turn[p].call])'
      BY DEF LinkInv
    <2>1. turn[p].call \in Calls /\ Linked(p, call[turn[p].call])
      BY <1>1 DEF Types, LinkInv
    <2> QED BY <2>1 DEF Linked, CallsStay
  <1> QED BY <1>2, <1>3 DEF TurnInv

ProposalsKnown == proposal \in [Proposals -> {"none", "Pending", "Executed", "Rejected"}]

LEMMA ProposalsNext == ProposalsKnown /\ [Next]_vars => ProposalsKnown'
  <1> SUFFICES ASSUME ProposalsKnown, [Next]_vars PROVE ProposalsKnown'
    OBVIOUS
  <1>1. ASSUME NEW p \in Proposals, TreasuryStep(p) PROVE ProposalsKnown'
    BY <1>1 DEF TreasuryStep, Propose, Execute, FeeFails, FeeReply, PoolReply, Reject,
       ProposalsKnown
  <1>2. CASE UNCHANGED proposal
    BY <1>2 DEF ProposalsKnown
  <1>3. ASSUME NEW p \in Proposals, Decide(p) PROVE UNCHANGED proposal
    BY <1>3 DEF Decide, Reconcile, treasury
  <1>4. ASSUME NEW h \in Calls, PoolStep(h) \/ TokenStep(h) PROVE UNCHANGED proposal
    BY <1>4 DEF PoolStep, TokenStep, TreasuryDisburse, Validated, ValidationFails,
       TransferReply, CallbackTraps, LedgerTransfer, LedgerRefuses, CallFails, treasury
  <1>5. ASSUME \/ UNCHANGED vars \/ FeeStep \/ (\E q \in orphans : LateTransfer(q))
               \/ (\E f \in Fees : SetLedgerFee(f)) \/ TreasuryUpgrade \/ PoolUpgrade
        PROVE  UNCHANGED proposal
    BY <1>5 DEF vars, treasury, LateTransfer, SetLedgerFee, FeeStep, EarnShieldFee,
       EarnSpendFee, FlushFeeAccrual, ReceiveFeeSplit, NoticeFails, NoticeReply,
       TreasuryUpgrade, PoolUpgrade
  <1> QED BY <1>1, <1>2, <1>3, <1>4, <1>5 DEF Next

(* The turn of one proposal moves.                                         *)
LEMMA OneTurnMoves ==
    ASSUME Types, TurnInv, NEW p \in Proposals,
           \A q \in Proposals : q # p => /\ turn'[q] = turn[q] /\ rsv'[q] = rsv[q]
                                         /\ proposal'[q] = proposal[q],
           \A g \in Calls : \/ call'[g] = call[g] \/ call[g].pc = "free" \/ call[g].p = p,
           rsv'[p].total \in Totals(p), turn'[p].total \in Totals(p),
           turn'[p].frozen \in Totals(p),
           turn'[p].pc # "idle" =>
               /\ proposal'[p] = "Pending"
               /\ rsv'[p].status = IF turn'[p].retry THEN "RetryingUnknown" ELSE "Reserved",
           turn'[p].pc = "pool" => Linked(p, call[turn[p].call])'
    PROVE  TurnInv'
  <1>1. TotalsKnown /\ TurnReserves /\ LinkInv
    BY DEF TurnInv
  <1>2. TotalsKnown'
    <2>1. ASSUME NEW q \in Proposals
          PROVE  /\ rsv'[q].total \in Totals(q) /\ turn'[q].total \in Totals(q)
                 /\ turn'[q].frozen \in Totals(q)
      BY <1>1 DEF TotalsKnown
    <2> QED BY <2>1 DEF TotalsKnown, Totals
  <1>3. TurnReserves'
    BY <1>1 DEF TurnReserves
  <1>4. LinkInv'
    <2> SUFFICES ASSUME NEW q \in Proposals, turn'[q].pc = "pool"
                 PROVE  Linked(q, call[turn[q].call])'
      BY DEF LinkInv
    <2>1. CASE q = p
      BY <2>1
    <2>2. CASE q # p
      <3>1. turn'[q] = turn[q] /\ rsv'[q] = rsv[q] /\ turn[q].call \in Calls
            /\ Linked(q, call[turn[q].call])
        BY <1>1, <2>2 DEF Types, LinkInv
      <3>2. call'[turn[q].call] = call[turn[q].call]
        BY <2>2, <3>1 DEF Linked
      <3> QED BY <3>1, <3>2 DEF Linked
    <2> QED BY <2>1, <2>2
  <1> QED BY <1>2, <1>3, <1>4 DEF TurnInv

LEMMA LocalRefusalIs ==
    ASSUME Types, NEW p \in Proposals, LocalRefusal(p)
    PROVE  /\ \A q \in Proposals : q # p => turn'[q] = turn[q] /\ rsv'[q] = rsv[q]
           /\ turn'[p] = IdleTurn /\ rsv'[p].total = rsv[p].total
           /\ rsv'[p].status = IF turn[p].retry THEN "OutcomeUnknown" ELSE "Failed"
  BY DEF Types, LocalRefusal, Settle, Reservations

LEMMA TreasuryTurns ==
    ASSUME Types, ProposalsKnown, TurnInv, NEW p \in Proposals, TreasuryStep(p)
    PROVE  TurnInv'
  <1>0. /\ TotalsKnown /\ TurnReserves /\ LinkInv
        /\ rsv[p] \in Reservations /\ turn[p] \in Turns /\ rsv[p].total \in Totals(p)
        /\ None \in Totals(p) /\ IdleTurn.pc = "idle" /\ IdleTurn.total = None
        /\ IdleTurn.frozen = None
    BY DEF TurnInv, Types, TotalsKnown, Totals, IdleTurn
  <1>1. CASE Propose(p)
    <2>1. UNCHANGED <<rsv, turn, call>> /\ proposal[p] = "none"
          /\ \A q \in Proposals : q # p => proposal'[q] = proposal[q]
      BY <1>1 DEF Propose, disbursal, ProposalsKnown
    <2>2. turn[p].pc = "idle"
      BY <1>0, <2>1 DEF TurnReserves
    <2> QED BY <1>0, <2>1, <2>2, OneTurnMoves DEF TotalsKnown
  <1>2. CASE Execute(p)
    <2> DEFINE retry == rsv[p].status = "OutcomeUnknown"
               new == [IdleTurn EXCEPT !.pc = "fee", !.retry = retry,
                                       !.frozen = IF retry THEN rsv[p].total ELSE None]
    <2>1. /\ proposal[p] = "Pending" /\ UNCHANGED <<proposal, call>>
          /\ turn' = [turn EXCEPT ![p] = new]
          /\ rsv' = [rsv EXCEPT ![p].status = IF retry THEN "RetryingUnknown" ELSE "Reserved"]
      BY <1>2 DEF Execute, Settle, disbursal
    <2>2. /\ new.pc = "fee" /\ new.retry = retry /\ new.total = None
          /\ new.frozen = IF retry THEN rsv[p].total ELSE None
      BY DEF IdleTurn
    <2> HIDE DEF new
    <2>3. /\ \A q \in Proposals : q # p => turn'[q] = turn[q] /\ rsv'[q] = rsv[q]
          /\ turn'[p] = new /\ rsv'[p].total = rsv[p].total
          /\ rsv'[p].status = IF retry THEN "RetryingUnknown" ELSE "Reserved"
      BY <1>0, <2>1 DEF Types, Reservations
    <2>4. /\ turn'[p].pc = "fee" /\ turn'[p].retry = retry /\ turn'[p].total \in Totals(p)
          /\ turn'[p].frozen \in Totals(p) /\ rsv'[p].total \in Totals(p)
      BY <1>0, <2>2, <2>3
    <2> HIDE DEF retry
    <2> QED BY <2>1, <2>3, <2>4, OneTurnMoves
  <1>3. CASE FeeFails(p)
    <2>1. LocalRefusal(p) /\ UNCHANGED <<proposal, call>>
      BY <1>3 DEF FeeFails, disbursal
    <2> QED BY <1>0, <2>1, LocalRefusalIs, OneTurnMoves
  <1>4. CASE FeeReply(p)
    <2>1. turn[p].pc = "fee" /\ UNCHANGED proposal
      BY <1>4 DEF FeeReply
    <2>2. CASE ~Admitted(p, TotalDebit(p))
      <3>1. LocalRefusal(p) /\ UNCHANGED call
        BY <1>4, <2>2 DEF FeeReply
      <3> QED BY <1>0, <2>1, <3>1, LocalRefusalIs, OneTurnMoves
    <2>3. CASE Admitted(p, TotalDebit(p))
      <3> DEFINE total == TotalDebit(p)
      <3>1. PICK h \in Calls :
              /\ call[h].pc = "free"
              /\ call' = [call EXCEPT ![h] =
                    [pc |-> "sent", p |-> p, fee |-> total - Amount[p], awaited |-> TRUE,
                     stamp |-> None, reply |-> None]]
              /\ turn' = [turn EXCEPT ![p].pc = "pool", ![p].total = total, ![p].call = h]
              /\ rsv' = [rsv EXCEPT ![p].total = total]
        BY <1>4, <2>3, FeeReplySends
      <3>2. total \in Totals(p) /\ total # None
        BY <1>0, TotalDebitKnown
      <3> HIDE DEF total
      <3>3. /\ \A q \in Proposals : q # p => turn'[q] = turn[q] /\ rsv'[q] = rsv[q]
            /\ \A g \in Calls : g # h => call'[g] = call[g]
        BY <3>1 DEF Types
      <3>4. /\ turn'[p] = [turn[p] EXCEPT !.pc = "pool", !.total = total, !.call = h]
            /\ rsv'[p] = [rsv[p] EXCEPT !.total = total]
        BY <3>1 DEF Types
      <3>5. /\ turn'[p].pc = "pool" /\ turn'[p].total = total /\ turn'[p].call = h
            /\ turn'[p].retry = turn[p].retry /\ turn'[p].frozen = turn[p].frozen
        BY <1>0, <3>4 DEF Turns
      <3>6. rsv'[p].total = total /\ rsv'[p].status = rsv[p].status
        BY <1>0, <3>4 DEF Reservations
      <3>7. /\ call'[h].pc = "sent" /\ call'[h].p = p /\ call'[h].awaited
            /\ call'[h].fee = total - Amount[p]
        BY <3>1 DEF Types
      <3>8. Linked(p, call[turn[p].call])'
        BY <3>2, <3>5, <3>6, <3>7 DEF Linked
      <3>9. /\ proposal'[p] = "Pending" /\ turn'[p].frozen \in Totals(p)
            /\ rsv'[p].status = IF turn'[p].retry THEN "RetryingUnknown" ELSE "Reserved"
        BY <1>0, <2>1, <3>5, <3>6 DEF TotalsKnown, TurnReserves
      <3>10. /\ rsv'[p].total \in Totals(p) /\ turn'[p].total \in Totals(p)
             /\ \A g \in Calls : \/ call'[g] = call[g] \/ call[g].pc = "free"
        BY <3>1, <3>2, <3>3, <3>5, <3>6
      <3> QED BY <2>1, <3>3, <3>8, <3>9, <3>10, OneTurnMoves
    <2> QED BY <2>2, <2>3
  <1>5. CASE PoolReply(p)
    <2>1. /\ turn' = [turn EXCEPT ![p] = IdleTurn]
          /\ call' = [call EXCEPT ![turn[p].call] = FreeCall]
          /\ turn[p].pc = "pool" /\ turn[p].call \in Calls
      BY <1>5 DEF PoolReply, Types
    <2>2. call[turn[p].call].p = p
      BY <1>0, <2>1 DEF LinkInv, Linked
    <2>3. \E s : rsv' = [rsv EXCEPT ![p].status = s]
      BY <1>5 DEF PoolReply, Settle
    <2>4. /\ \A q \in Proposals : q # p => rsv'[q] = rsv[q]
          /\ rsv'[p].total = rsv[p].total
      <3>1. PICK s : rsv' = [rsv EXCEPT ![p].status = s]
        BY <2>3
      <3>2. /\ \A q \in Proposals : q # p => rsv'[q] = rsv[q]
            /\ rsv'[p] = [rsv[p] EXCEPT !.status = s]
        BY <3>1 DEF Types
      <3>3. rsv'[p].total = rsv[p].total
        BY <1>0, <3>2 DEF Reservations
      <3> QED BY <3>2, <3>3
    <2>5. \A q \in Proposals : q # p => turn'[q] = turn[q] /\ proposal'[q] = proposal[q]
      <3>1. proposal' = proposal \/ proposal' = [proposal EXCEPT ![p] = "Executed"]
        BY <1>5 DEF PoolReply
      <3>2. \A q \in Proposals : q # p => proposal'[q] = proposal[q]
        BY <3>1 DEF ProposalsKnown
      <3> QED BY <2>1, <3>2 DEF Types
    <2>6. turn'[p] = IdleTurn /\ \A g \in Calls : call'[g] = call[g] \/ call[g].p = p
      <3>1. turn'[p] = IdleTurn
        BY <2>1 DEF Types
      <3>2. \A g \in Calls : g # turn[p].call => call'[g] = call[g]
        BY <2>1 DEF Types
      <3> QED BY <2>2, <3>1, <3>2
    <2>7. /\ turn'[p].pc = "idle" /\ turn'[p].total \in Totals(p)
          /\ turn'[p].frozen \in Totals(p) /\ rsv'[p].total \in Totals(p)
      BY <1>0, <2>4, <2>6
    <2> QED BY <2>4, <2>5, <2>6, <2>7, OneTurnMoves
  <1>6. CASE Reject(p)
    <2>1. UNCHANGED <<rsv, turn, call>> /\ ~Active(p)
          /\ \A q \in Proposals : q # p => proposal'[q] = proposal[q]
      BY <1>6 DEF Reject, disbursal, ProposalsKnown
    <2>2. turn[p].pc = "idle"
      BY <1>0, <2>1 DEF TurnReserves, Active
    <2> QED BY <1>0, <2>1, <2>2, OneTurnMoves DEF TotalsKnown
  <1> QED BY <1>1, <1>2, <1>3, <1>4, <1>5, <1>6 DEF TreasuryStep

LEMMA TreasuryUpgradeTurns == Types /\ TurnInv /\ TreasuryUpgrade => TurnInv'
  <1> SUFFICES ASSUME Types, TurnInv, TreasuryUpgrade PROVE TurnInv'
    OBVIOUS
  <1>1. \A p \in Proposals : turn'[p] = IdleTurn
    BY DEF TreasuryUpgrade
  <1>2. \A p \in Proposals : rsv'[p].total = rsv[p].total
    BY DEF TreasuryUpgrade, Types, Reservations
  <1>3. IdleTurn.pc = "idle" /\ IdleTurn.total = None /\ IdleTurn.frozen = None
    BY DEF IdleTurn
  <1>4. TotalsKnown'
    BY <1>1, <1>2, <1>3 DEF TurnInv, TotalsKnown, Totals
  <1>5. TurnReserves' /\ LinkInv'
    BY <1>1, <1>3 DEF TurnReserves, LinkInv
  <1> QED BY <1>4, <1>5 DEF TurnInv

LEMMA TurnNext ==
    ASSUME Types, ProposalsKnown, TombInv, TurnInv, [Next]_vars
    PROVE  TurnInv'
  <1>1. CASE UNCHANGED <<turn, rsv, proposal, call>>
    BY <1>1, TurnsStay DEF CallsStay
  <1>2. ASSUME NEW p \in Proposals, TreasuryStep(p) PROVE TurnInv'
    BY <1>2, TreasuryTurns
  <1>3. ASSUME NEW p \in Proposals, Decide(p) PROVE UNCHANGED <<turn, rsv, proposal, call>>
    BY <1>3, DecideMoves DEF treasury
  <1>4. ASSUME NEW h \in Calls, PoolStep(h) \/ TokenStep(h) PROVE TurnInv'
    <2>1. UNCHANGED <<turn, rsv, proposal>>
      BY <1>4 DEF PoolStep, TokenStep, TreasuryDisburse, Validated, ValidationFails,
         TransferReply, CallbackTraps, LedgerTransfer, LedgerRefuses, CallFails, treasury
    <2> QED BY <1>4, <2>1, PoolCallsStay, TurnsStay
  <1>5. CASE PoolUpgrade
    <2>1. CallsStay /\ UNCHANGED <<turn, rsv, proposal>>
      BY <1>5, PoolUpgradeMoves DEF CallsStay, Live, treasury
    <2> QED BY <2>1, TurnsStay
  <1>6. ASSUME \/ UNCHANGED vars \/ FeeStep \/ (\E q \in orphans : LateTransfer(q))
               \/ (\E f \in Fees : SetLedgerFee(f))
        PROVE  UNCHANGED <<turn, rsv, proposal, call>>
    BY <1>6 DEF vars, treasury, disbursal, LateTransfer, SetLedgerFee, FeeStep, EarnShieldFee,
       EarnSpendFee, FlushFeeAccrual, ReceiveFeeSplit, NoticeFails, NoticeReply
  <1> QED BY <1>1, <1>2, <1>3, <1>4, <1>5, <1>6, TreasuryUpgradeTurns DEF Next

LEMMA TurnInit == Init => TurnInv
  BY DEF Init, TurnInv, TotalsKnown, Totals, TurnReserves, LinkInv, NoReservation, IdleTurn

-----------------------------------------------------------------------------
(* What requests are made of.                                              *)
RequestsKnown ==
    /\ stamps \in [Proposals -> Nat] /\ ledger \subseteq Requests /\ orphans \subseteq Requests
    /\ \A h \in Calls : call[h].pc = "transfer" => call[h].stamp \in Nat

NoNewTransfer == \A g \in Calls : call'[g].pc = "transfer" => call'[g] = call[g]

LEMMA AnsweredNoTransfer ==
    ASSUME Types, NEW h \in Calls, NEW r, Answered(h, r)
    PROVE  NoNewTransfer
  <1>1. \A g \in Calls : g # h => call'[g] = call[g]
    BY AnsweredIs
  <1>2. call'[h].pc # "transfer"
    BY AnsweredIs
  <1> QED BY <1>1, <1>2 DEF NoNewTransfer

LEMMA RequestsStay ==
    ASSUME RequestsKnown, UNCHANGED <<stamps, ledger, orphans>>, NoNewTransfer
    PROVE  RequestsKnown'
  BY DEF RequestsKnown, NoNewTransfer

LEMMA RequestIs ==
    ASSUME Types, FeesKnown, RequestsKnown, NEW h \in Calls, call[h].pc = "transfer"
    PROVE  Request(h) \in Requests
  BY DEF Types, FeesKnown, RequestsKnown, Request, Requests

LEMMA RequestsNext ==
    ASSUME Types, FeesKnown, RequestsKnown, [Next]_vars
    PROVE  RequestsKnown'
  <1>1. CASE UNCHANGED <<stamps, ledger, orphans, call>>
    BY <1>1, RequestsStay DEF NoNewTransfer
  <1>2. ASSUME NEW p \in Proposals, TreasuryStep(p) PROVE RequestsKnown'
    <2>1. UNCHANGED <<stamps, ledger, orphans>>
      BY <1>2 DEF TreasuryStep, Propose, Execute, FeeFails, FeeReply, PoolReply, Reject, token
    <2>2. \/ UNCHANGED call
          \/ \E h \in Calls : \E c : c.pc # "transfer" /\ call' = [call EXCEPT ![h] = c]
      <3>1. CASE Propose(p) \/ Execute(p) \/ FeeFails(p) \/ Reject(p)
        BY <3>1 DEF Propose, Execute, FeeFails, Reject, disbursal
      <3>2. CASE FeeReply(p)
        <4>1. CASE Admitted(p, TotalDebit(p))
          <5>1. PICK h \in Calls :
                  call' = [call EXCEPT ![h] =
                   [pc |-> "sent", p |-> p, fee |-> TotalDebit(p) - Amount[p], awaited |-> TRUE,
                    stamp |-> None, reply |-> None]]
            BY <3>2, <4>1, FeeReplySends
          <5> DEFINE c == [pc |-> "sent", p |-> p, fee |-> TotalDebit(p) - Amount[p],
                           awaited |-> TRUE, stamp |-> None, reply |-> None]
          <5>2. c.pc # "transfer" /\ call' = [call EXCEPT ![h] = c]
            BY <5>1
          <5> HIDE DEF c
          <5> QED BY <5>2
        <4>2. CASE ~Admitted(p, TotalDebit(p))
          BY <3>2, <4>2 DEF FeeReply
        <4> QED BY <4>1, <4>2
      <3>3. CASE PoolReply(p)
        <4>1. call' = [call EXCEPT ![turn[p].call] = FreeCall] /\ turn[p].call \in Calls
          BY <3>3 DEF PoolReply, Types
        <4>2. FreeCall.pc # "transfer"
          BY DEF FreeCall
        <4> QED BY <4>1, <4>2
      <3> QED BY <1>2, <3>1, <3>2, <3>3 DEF TreasuryStep
    <2>3. NoNewTransfer
      BY <2>2 DEF NoNewTransfer, Types
    <2> QED BY <2>1, <2>3, RequestsStay
  <1>3. ASSUME NEW p \in Proposals, Decide(p) PROVE UNCHANGED <<stamps, ledger, orphans, call>>
    BY <1>3 DEF Decide, Reconcile, token
  <1>4. ASSUME NEW h \in Calls, PoolStep(h) PROVE RequestsKnown'
    <2>1. CASE \E r : Answered(h, r) /\ UNCHANGED <<stamps, ledger, orphans>>
      BY <2>1, AnsweredNoTransfer, RequestsStay
    <2>2. CASE call' = [call EXCEPT ![h].pc = "validation"] /\ UNCHANGED <<stamps, ledger, orphans>>
      <3>1. NoNewTransfer
        BY <2>2 DEF NoNewTransfer, Types, CallRecords
      <3> QED BY <2>2, <3>1, RequestsStay
    <2>3. ASSUME call[h].pc = "validation",
                 stamps' = [stamps EXCEPT ![call[h].p] = @ + 1],
                 call' = [call EXCEPT ![h].pc = "transfer", ![h].stamp = stamps[call[h].p] + 1],
                 UNCHANGED <<ledger, orphans>>
          PROVE  RequestsKnown'
      <3>1. call[h].p \in Proposals /\ stamps[call[h].p] + 1 \in Nat
        BY <2>3 DEF Types, RequestsKnown
      <3>2. stamps' \in [Proposals -> Nat]
        BY <2>3, <3>1 DEF RequestsKnown
      <3>3. /\ \A g \in Calls : g # h => call'[g] = call[g]
            /\ call'[h].stamp = stamps[call[h].p] + 1
        BY <2>3 DEF Types, CallRecords
      <3> QED BY <2>3, <3>1, <3>2, <3>3 DEF RequestsKnown
    <2> QED BY <1>4, <2>1, <2>2, <2>3 DEF PoolStep, TreasuryDisburse, Validated,
               ValidationFails, TransferReply, CallbackTraps, token
  <1>5. ASSUME NEW h \in Calls, TokenStep(h) PROVE RequestsKnown'
    <2>1. NoNewTransfer /\ UNCHANGED stamps
      <3>1. ASSUME Answered(h, "transport") PROVE NoNewTransfer
        BY <3>1, AnsweredNoTransfer
      <3>2. ASSUME NEW r, call' = [call EXCEPT ![h].pc = "answered", ![h].reply = r]
            PROVE  NoNewTransfer
        BY <3>2 DEF NoNewTransfer, Types, CallRecords
      <3> QED BY <1>5, <3>1, <3>2, TokenAnswers
    <2>2. /\ UNCHANGED orphans
          /\ ledger' = ledger \/ (call[h].pc = "transfer" /\ ledger' = ledger \cup {Request(h)})
      BY <1>5 DEF TokenStep, LedgerTransfer, LedgerRefuses, CallFails, token
    <2>3. ledger' \subseteq Requests
      BY <2>2, RequestIs DEF RequestsKnown
    <2> QED BY <2>1, <2>2, <2>3 DEF RequestsKnown, NoNewTransfer
  <1>6. ASSUME NEW q \in orphans, LateTransfer(q) PROVE RequestsKnown'
    BY <1>6 DEF LateTransfer, disbursal, RequestsKnown
  <1>7. CASE PoolUpgrade
    <2>1. orphans' = orphans \cup {Request(h) : h \in {k \in Calls : call[k].pc = "transfer"}}
      BY <1>7 DEF PoolUpgrade
    <2>2. orphans' \subseteq Requests
      BY <2>1, RequestIs DEF RequestsKnown
    <2>3. UNCHANGED <<stamps, ledger>>
      BY <1>7 DEF PoolUpgrade
    <2>4. \A g \in Calls : call'[g].pc # "transfer"
      BY <1>7, PoolUpgradeMoves DEF Live
    <2> QED BY <2>2, <2>3, <2>4 DEF RequestsKnown
  <1>8. CASE TreasuryUpgrade
    <2>1. UNCHANGED <<stamps, ledger, orphans>>
      BY <1>8 DEF TreasuryUpgrade, token
    <2>2. ASSUME NEW g \in Calls, call'[g].pc = "transfer"
          PROVE  call[g].pc = "transfer" /\ call'[g].stamp = call[g].stamp
      <3>1. call'[g] = FreeCall \/ call'[g] = [call[g] EXCEPT !.awaited = FALSE]
        BY <1>8 DEF TreasuryUpgrade
      <3>2. call[g] \in CallRecords /\ FreeCall.pc = "free"
        BY DEF Types, FreeCall
      <3> QED BY <2>2, <3>1, <3>2 DEF CallRecords
    <2> QED BY <2>1, <2>2 DEF RequestsKnown
  <1>9. ASSUME UNCHANGED vars \/ FeeStep \/ (\E f \in Fees : SetLedgerFee(f))
        PROVE  UNCHANGED <<stamps, ledger, orphans, call>>
    BY <1>9, FeesApart DEF vars, disbursal, token, SetLedgerFee
  <1> QED BY <1>1, <1>2, <1>3, <1>4, <1>5, <1>6, <1>7, <1>8, <1>9 DEF Next

-----------------------------------------------------------------------------
(* The money: what every step does to the reserve, the bucket and the      *)
(* disbursements they answer for.                                          *)
DebitsIn(r, S) == SumOver([p \in S |-> Amount[p] + r[p].fee], S)

LEMMA DebitsAre == Debits(Held) = DebitsIn(rec, Held) /\ Debits(Owed) = DebitsIn(rec, Owed)
  BY DEF Debits, Total, SumOf, SumOver, DebitsIn

LEMMA WorthIs == ASSUME NEW S PROVE Worth(S) = SumOver(Share, S)
  BY DEF Worth, SumOf, SumOver

LEMMA ProposalsFinite == ASSUME NEW S \in SUBSET Proposals PROVE IsFiniteSet(S)
  BY TreasuryAssumption, FS_Subset

LEMMA DebitsSame ==
    ASSUME NEW S \in SUBSET Proposals, NEW r, NEW q, \A p \in S : r[p].fee = q[p].fee
    PROVE  DebitsIn(r, S) = DebitsIn(q, S)
  <1>1. [p \in S |-> Amount[p] + r[p].fee] = [p \in S |-> Amount[p] + q[p].fee]
    OBVIOUS
  <1> QED BY <1>1 DEF DebitsIn

LEMMA DebitsNat ==
    ASSUME NEW S \in SUBSET Proposals, NEW r, \A p \in S : r[p].fee \in Nat
    PROVE  DebitsIn(r, S) \in Nat
  <1> DEFINE v == [p \in S |-> Amount[p] + r[p].fee]
  <1>1. \A p \in S : v[p] \in Nat
    BY TreasuryAssumption
  <1>2. IsFiniteSet(S)
    BY ProposalsFinite
  <1> HIDE DEF v
  <1>3. SumOver(v, S) \in Nat
    BY <1>1, <1>2, SumOverNat
  <1> QED BY <1>3 DEF v, DebitsIn

LEMMA DebitsMember ==
    ASSUME NEW S \in SUBSET Proposals, NEW r, \A p \in S : r[p].fee \in Nat, NEW m \in S
    PROVE  /\ DebitsIn(r, S) = Amount[m] + r[m].fee + DebitsIn(r, S \ {m})
           /\ DebitsIn(r, S) \in Nat /\ DebitsIn(r, S \ {m}) \in Nat
           /\ Amount[m] + r[m].fee \in Nat
  <1> DEFINE v == [p \in S |-> Amount[p] + r[p].fee]
             w == [p \in S \ {m} |-> Amount[p] + r[p].fee]
  <1>1. \A p \in S : v[p] \in Int
    BY TreasuryAssumption
  <1>2. IsFiniteSet(S) /\ IsFiniteSet(S \ {m}) /\ v[m] = Amount[m] + r[m].fee
    BY ProposalsFinite
  <1>3. \A p \in S \ {m} : v[p] = w[p]
    OBVIOUS
  <1> HIDE DEF v, w
  <1>4. SumOver(v, S) = v[m] + SumOver(v, S \ {m})
    BY <1>1, <1>2, SumOverMember
  <1>5. SumOver(v, S \ {m}) = SumOver(w, S \ {m})
    BY <1>2, <1>3, SumOverSame
  <1>6. DebitsIn(r, S) = Amount[m] + r[m].fee + DebitsIn(r, S \ {m})
    BY <1>2, <1>4, <1>5 DEF DebitsIn, v, w
  <1>7. DebitsIn(r, S) \in Nat /\ DebitsIn(r, S \ {m}) \in Nat
    BY DebitsNat
  <1>8. Amount[m] + r[m].fee \in Nat
    BY TreasuryAssumption
  <1> QED BY <1>6, <1>7, <1>8

(* A withdrawal the treasury has debited is one the pool has executed.     *)
BookedInv == \A p \in Proposals : proposal[p] = "Executed" => Status(p) = "Executed"

Admissions == {p \in Proposals : turn[p].pc = "pool"}
AdmittedTotal(t, S) == SumOver([p \in S |-> t[p].total], S)

(* The bucket covers everything it has admitted and not debited yet, so    *)
(* no debit is cut off at zero.                                            *)
RoomInv == AdmittedTotal(turn, Admissions) <= balance

FeesSame(S) == \A p \in S : rec'[p].fee = rec[p].fee

Steady == Held' = Held /\ FeesSame(Held) /\ Owed' = Owed
MoneyQuiet == Steady /\ UNCHANGED <<reserve, balance, earned, credited>>
MoneyEarned(e) ==
    /\ Steady /\ e \in Earnings \ earned /\ earned' = earned \cup {e}
    /\ reserve' = reserve + Share[e] /\ UNCHANGED <<balance, credited>>
MoneyCredited(S) ==
    /\ Steady /\ S \subseteq earned \ credited /\ credited' = credited \cup S
    /\ balance' = balance + Worth(S) /\ UNCHANGED <<reserve, earned>>
MoneyTaken(p) ==
    /\ p \notin Held /\ Held' = Held \cup {p} /\ Owed' = Owed \cup {p} /\ FeesSame(Held)
    /\ Amount[p] + rec'[p].fee <= reserve /\ reserve' = reserve - (Amount[p] + rec'[p].fee)
    /\ UNCHANGED <<balance, earned, credited>>
MoneyReturned(p) ==
    /\ p \in Owed /\ Held' = Held \ {p} /\ Owed' = Owed \ {p} /\ FeesSame(Held \ {p})
    /\ reserve' = reserve + (Amount[p] + rec[p].fee)
    /\ UNCHANGED <<balance, earned, credited>>
MoneyBooked(p) ==
    /\ Held' = Held /\ FeesSame(Held) /\ Owed' = Owed \ {p} /\ p \in Owed
    /\ balance' = balance - turn[p].total /\ turn[p].total \in 0..balance
    /\ tomb[p] = None => turn[p].total = Amount[p] + rec[p].fee
    /\ UNCHANGED <<reserve, earned, credited>>

MoneyStep ==
    \/ MoneyQuiet
    \/ \E e \in Earnings : MoneyEarned(e)
    \/ \E n \in notices : MoneyCredited(n.fees)
    \/ \E p \in Proposals : MoneyTaken(p) \/ MoneyReturned(p) \/ MoneyBooked(p)

(* A step that changes no record the reserve answers for. *)
LEMMA RecordsSteady ==
    ASSUME Types, UNCHANGED proposal,
           \A p \in Proposals :
              \/ rec'[p] = rec[p]
              \/ ~DebitHeld(p) /\ ~DebitHeld(p)'
              \/ DebitHeld(p) /\ DebitHeld(p)' /\ rec'[p].fee = rec[p].fee
    PROVE  Steady
  <1>1. \A p \in Proposals : (DebitHeld(p)' <=> DebitHeld(p)) /\ (DebitHeld(p) => rec'[p].fee = rec[p].fee)
    BY DEF DebitHeld, Status
  <1>2. Held' = Held
    BY <1>1 DEF Held
  <1> QED BY <1>1, <1>2 DEF Steady, Held, Owed, FeesSame

LEMMA OnlyOneRecord ==
    ASSUME Types, NEW p \in Proposals, \A q \in Proposals : q # p => rec'[q] = rec[q],
           UNCHANGED proposal
    PROVE  /\ ~DebitHeld(p) /\ DebitHeld(p)' /\ proposal[p] # "Executed"
                 => /\ p \notin Held /\ Held' = Held \cup {p} /\ Owed' = Owed \cup {p}
                    /\ FeesSame(Held)
           /\ DebitHeld(p) /\ ~DebitHeld(p)' /\ proposal[p] # "Executed"
                 => /\ p \in Owed /\ Held' = Held \ {p} /\ Owed' = Owed \ {p}
                    /\ FeesSame(Held \ {p})
  <1>1. \A q \in Proposals : q # p => (DebitHeld(q)' <=> DebitHeld(q))
    BY DEF DebitHeld, Status
  <1>2. ASSUME ~DebitHeld(p), DebitHeld(p)', proposal[p] # "Executed"
        PROVE  /\ p \notin Held /\ Held' = Held \cup {p} /\ Owed' = Owed \cup {p}
               /\ FeesSame(Held)
    <2>1. p \notin Held /\ Held' = Held \cup {p}
      BY <1>1, <1>2 DEF Held
    <2> QED BY <1>2, <2>1 DEF Owed, FeesSame, Held
  <1>3. ASSUME DebitHeld(p), ~DebitHeld(p)', proposal[p] # "Executed"
        PROVE  /\ p \in Owed /\ Held' = Held \ {p} /\ Owed' = Owed \ {p}
               /\ FeesSame(Held \ {p})
    <2>1. p \in Held /\ Held' = Held \ {p}
      BY <1>1, <1>3 DEF Held
    <2> QED BY <1>3, <2>1 DEF Owed, FeesSame, Held
  <1> QED BY <1>2, <1>3

LEMMA DecideMoney ==
    ASSUME Types, TombInv, BookedInv, NEW p \in Proposals, Decide(p)
    PROVE  MoneyStep
  <1>0. /\ UNCHANGED <<proposal, balance, earned, credited>>
        /\ \A q \in Proposals : q # p => rec'[q] = rec[q]
        /\ Status(p) # "Executed" /\ proposal[p] # "Executed"
    BY DecideMoves DEF treasury, income, BookedInv
  <1>1. CASE Status(p) = "PendingValidation" /\ rec'[p] = None /\ UNCHANGED reserve
    <2>1. ~DebitHeld(p) /\ ~DebitHeld(p)'
      BY <1>1 DEF DebitHeld, Status
    <2> QED BY <1>0, <1>1, <2>1, RecordsSteady DEF MoneyStep, MoneyQuiet
  <1>2. CASE /\ Status(p) \in {"PendingTransfer", "TransportUnknown"} /\ UNCHANGED reserve
             /\ rec'[p] # None /\ rec'[p].status = "Executed" /\ rec'[p].fee = rec[p].fee
    <2>1. DebitHeld(p) /\ DebitHeld(p)'
      BY <1>2 DEF DebitHeld, Status
    <2> QED BY <1>0, <1>2, <2>1, RecordsSteady DEF MoneyStep, MoneyQuiet
  <1>3. CASE /\ Status(p) \in {"PendingTransfer", "TransportUnknown"} /\ rec'[p] = None
             /\ reserve' = reserve + Total(p)
    <2>1. DebitHeld(p) /\ ~DebitHeld(p)'
      BY <1>3 DEF DebitHeld, Status
    <2> QED BY <1>0, <1>3, <2>1, OnlyOneRecord DEF MoneyStep, MoneyReturned, Total
  <1> QED BY <1>1, <1>2, <1>3, DecideMoves

LEMMA PoolMoneyOf ==
    ASSUME Types, PaidInv, PoolInv, BookedInv, reserve \in Nat, NEW h \in Calls, PoolStep(h),
           NEW p \in Proposals, p = call[h].p
    PROVE  MoneyStep
  <1>0. /\ FeesKnown /\ FeeInv
        /\ UNCHANGED <<proposal, balance, earned, credited>>
    BY DEF PoolInv, PoolStep, TreasuryDisburse, Validated, ValidationFails, TransferReply,
       CallbackTraps, treasury, income
  <1>1. CASE TreasuryDisburse(h)
    <2>1. UNCHANGED reserve
      BY <1>1 DEF TreasuryDisburse
    <2>2. CASE Known(p)
      <3>1. UNCHANGED rec
        BY <1>1, <2>2 DEF TreasuryDisburse
      <3> QED BY <1>0, <2>1, <3>1, RecordsSteady DEF MoneyStep, MoneyQuiet
    <2>3. CASE ~Known(p)
      <3>1. /\ rec' = [rec EXCEPT ![p] =
                  [status |-> "PendingValidation", fee |-> call[h].fee, stamp |-> None]]
            /\ rec[p] = None /\ p \in Proposals
        BY <1>1, <2>3 DEF TreasuryDisburse, Known, Types
      <3>2. /\ \A q \in Proposals : q # p => rec'[q] = rec[q]
            /\ rec'[p].status = "PendingValidation" /\ rec'[p] \in Disbursements
        BY <1>0, <1>1, <3>1 DEF Types, Disbursements, FeesKnown, CallRecords, TreasuryDisburse
      <3>3. ~DebitHeld(p) /\ ~DebitHeld(p)'
        BY <3>1, <3>2 DEF DebitHeld, Status
      <3> QED BY <1>0, <2>1, <3>2, <3>3, RecordsSteady DEF MoneyStep, MoneyQuiet
    <2> QED BY <2>2, <2>3
  <1>2. ASSUME Live(h), call[h].pc = "validation", Remove(p), UNCHANGED reserve
        PROVE  MoneyStep
    <2>1. /\ p \in Proposals /\ rec'[p] = None /\ \A q \in Proposals : q # p => rec'[q] = rec[q]
          /\ Status(p) = "PendingValidation"
      BY <1>2, LiveFacts DEF Remove, Types
    <2>2. ~DebitHeld(p) /\ ~DebitHeld(p)'
      BY <2>1 DEF DebitHeld, Status
    <2> QED BY <1>0, <1>2, <2>1, <2>2, RecordsSteady DEF MoneyStep, MoneyQuiet
  <1>3. CASE Validated(h)
    <2>0. Live(h) /\ call[h].pc = "validation"
      BY <1>3 DEF Validated, Live
    <2> DEFINE total == Amount[p] + call[h].fee
    <2>1. CASE ~(call[h].fee = fee /\ total <= reserve)
      BY <1>2, <1>3, <2>0, <2>1 DEF Validated
    <2>2. CASE call[h].fee = fee /\ total <= reserve
      <3>1. /\ rec' = [rec EXCEPT ![p].status = "PendingTransfer", ![p].stamp = stamps[p] + 1]
            /\ reserve' = reserve - total
        BY <1>3, <2>2 DEF Validated
      <3>2. /\ p \in Proposals /\ rec[p] \in Disbursements /\ rec[p] # None
            /\ Status(p) = "PendingValidation" /\ rec[p].fee = call[h].fee
        BY <1>0, <2>0, LiveFacts DEF FeeInv
      <3>3. \A q \in Proposals : q # p => rec'[q] = rec[q]
        BY <3>1, <3>2 DEF Types
      <3>4. /\ rec'[p].status = "PendingTransfer" /\ rec'[p].fee = rec[p].fee
            /\ rec'[p] # None
        <4>1. rec'[p] = [rec[p] EXCEPT !.status = "PendingTransfer", !.stamp = stamps[p] + 1]
          BY <3>1, <3>2 DEF Types
        <4>2. stamps[p] + 1 \in Int
          BY <3>2 DEF Types
        <4>3. /\ rec'[p] \in Disbursements /\ rec'[p].status = "PendingTransfer"
              /\ rec'[p].fee = rec[p].fee
          BY <3>2, <4>1, <4>2 DEF Disbursements
        <4> QED BY <4>3, TreasuryAssumption
      <3>5. ~DebitHeld(p) /\ DebitHeld(p)' /\ proposal[p] # "Executed"
        BY <3>2, <3>4 DEF DebitHeld, Status, BookedInv
      <3>6. rec'[p].fee = call[h].fee /\ total = Amount[p] + rec'[p].fee
        BY <3>2, <3>4
      <3>7. /\ Amount[p] + rec'[p].fee <= reserve
            /\ reserve' = reserve - (Amount[p] + rec'[p].fee)
        BY <2>2, <3>1, <3>6
      <3>8. /\ p \notin Held /\ Held' = Held \cup {p} /\ Owed' = Owed \cup {p}
            /\ FeesSame(Held)
        BY <1>0, <3>3, <3>5, OnlyOneRecord
      <3>9. MoneyTaken(p)
        BY <1>0, <3>7, <3>8 DEF MoneyTaken
      <3> QED BY <3>9 DEF MoneyStep
    <2> QED BY <2>1, <2>2
  <1>4. CASE ValidationFails(h)
    BY <1>2, <1>4 DEF ValidationFails, Live
  <1>5. CASE TransferReply(h)
    <2>0. /\ Live(h) /\ call[h].pc = "answered"
      BY <1>5 DEF TransferReply, Live
    <2>1. /\ p \in Proposals /\ rec[p] \in Disbursements /\ rec[p] # None
          /\ Status(p) = "PendingTransfer" /\ rec[p].fee = call[h].fee
          /\ DebitHeld(p) /\ proposal[p] # "Executed"
      BY <1>0, <2>0, LiveFacts DEF FeeInv, DebitHeld, BookedInv
    <2>2. CASE call[h].reply = "refused"
      <3>1. Remove(p) /\ reserve' = reserve + Amount[p] + call[h].fee
        BY <1>5, <2>2 DEF TransferReply
      <3>2. /\ rec'[p] = None /\ \A q \in Proposals : q # p => rec'[q] = rec[q]
        BY <2>1, <3>1 DEF Remove, Types
      <3>3. ~DebitHeld(p)'
        BY <3>2 DEF DebitHeld, Status
      <3>4. call[h].fee \in Nat /\ Amount[p] \in Nat
        BY <1>0, <2>0, <2>1, TreasuryAssumption DEF FeesKnown, Live
      <3>5. reserve' = reserve + (Amount[p] + rec[p].fee)
        BY <2>1, <3>1, <3>4
      <3> QED BY <1>0, <2>1, <3>2, <3>3, <3>5, OnlyOneRecord DEF MoneyStep, MoneyReturned
    <2>3. CASE call[h].reply # "refused"
      <3>1. /\ \E s \in {"Executed", "TransportUnknown"} : SetStatus(p, s)
            /\ UNCHANGED reserve
        BY <1>5, <2>3 DEF TransferReply
      <3>2. PICK s \in {"Executed", "TransportUnknown"} :
              rec' = [rec EXCEPT ![p] = [rec[p] EXCEPT !.status = s]]
        BY <2>1, <3>1 DEF SetStatus, Types
      <3>3. \A q \in Proposals : q # p => rec'[q] = rec[q]
        BY <2>1, <3>2 DEF Types
      <3>4. rec'[p] # None /\ rec'[p].status = s /\ rec'[p].fee = rec[p].fee
        <4>1. rec'[p] = [rec[p] EXCEPT !.status = s]
          BY <2>1, <3>2 DEF Types
        <4>2. rec'[p] \in Disbursements /\ rec'[p].status = s /\ rec'[p].fee = rec[p].fee
          BY <2>1, <4>1 DEF Disbursements
        <4> QED BY <4>2, TreasuryAssumption
      <3>5. DebitHeld(p)'
        BY <3>4 DEF DebitHeld, Status
      <3> QED BY <1>0, <2>1, <3>1, <3>3, <3>4, <3>5, RecordsSteady DEF MoneyStep, MoneyQuiet
    <2> QED BY <2>2, <2>3
  <1>6. CASE CallbackTraps(h)
    <2>1. UNCHANGED <<rec, reserve>>
      BY <1>6 DEF CallbackTraps
    <2> QED BY <1>0, <2>1, RecordsSteady DEF MoneyStep, MoneyQuiet
  <1> QED BY <1>1, <1>3, <1>4, <1>5, <1>6 DEF PoolStep

LEMMA PoolMoney ==
    ASSUME Types, PaidInv, PoolInv, BookedInv, reserve \in Nat, NEW h \in Calls, PoolStep(h)
    PROVE  MoneyStep
  <1>1. call[h].p \in Proposals
    BY DEF Types, PoolStep, TreasuryDisburse, Validated, ValidationFails, TransferReply,
       CallbackTraps
  <1> QED BY <1>1, PoolMoneyOf

LEMMA RoomFor ==
    ASSUME Types, TurnInv, RoomInv, balance \in Nat, NEW p \in Admissions
    PROVE  /\ turn[p].total \in Nat /\ turn[p].total <= balance
           /\ AdmittedTotal(turn, Admissions \ {p}) <= balance - turn[p].total
           /\ AdmittedTotal(turn, Admissions \ {p}) \in Nat
  <1> DEFINE v == [q \in Admissions |-> turn[q].total]
             w == [q \in Admissions \ {p} |-> turn[q].total]
  <1>1. \A q \in Admissions : v[q] \in Nat
    <2> SUFFICES ASSUME NEW q \in Admissions PROVE turn[q].total \in Nat
      OBVIOUS
    <2>1. q \in Proposals /\ turn[q].total \in Totals(q) /\ turn[q].total # None
      BY DEF TurnInv, TotalsKnown, LinkInv, Linked, Admissions
    <2>2. Amount[q] \in Nat /\ Fees \subseteq Nat
      BY <2>1, TreasuryAssumption
    <2> QED BY <2>1, <2>2 DEF Totals
  <1>2. /\ IsFiniteSet(Admissions) /\ IsFiniteSet(Admissions \ {p})
    BY ProposalsFinite DEF Admissions
  <1>3. /\ v[p] = turn[p].total /\ \A q \in Admissions \ {p} : v[q] = w[q] /\ w[q] \in Nat
    BY <1>1
  <1>4. AdmittedTotal(turn, Admissions) = SumOver(v, Admissions)
        /\ AdmittedTotal(turn, Admissions \ {p}) = SumOver(w, Admissions \ {p})
    BY DEF AdmittedTotal
  <1> HIDE DEF v, w
  <1>5. SumOver(v, Admissions) = v[p] + SumOver(v, Admissions \ {p})
    BY <1>1, <1>2, SumOverMember
  <1>6. SumOver(v, Admissions \ {p}) = SumOver(w, Admissions \ {p})
    BY <1>2, <1>3, SumOverSame
  <1>7. SumOver(w, Admissions \ {p}) \in Nat
    BY <1>2, <1>3, SumOverNat
  <1>8. v[p] \in Nat
    BY <1>1
  <1> QED BY <1>3, <1>4, <1>5, <1>6, <1>7, <1>8 DEF RoomInv

(* What the treasury books was executed by the pool, at the very total it  *)
(* had admitted.                                                           *)
LEMMA ReplyExecuted ==
    ASSUME Types, PoolInv, TurnInv, NEW p \in Proposals, turn[p].pc = "pool",
           ToldExecuted(turn[p].call)
    PROVE  /\ Status(p) = "Executed" /\ p \in Owed
           /\ tomb[p] = None => turn[p].total = Amount[p] + rec[p].fee
  <1> DEFINE h == turn[p].call
  <1>1. h \in Calls /\ Linked(p, call[h]) /\ AnswerTrue(h)
    BY DEF Types, PoolInv, AnswerInv, TurnInv, LinkInv
  <1>2. call[h].p = p /\ call[h].fee = turn[p].total - Amount[p] /\ turn[p].total \in Int
    BY <1>1 DEF Linked, Types, Turns
  <1>3. Status(p) = "Executed"
    BY <1>1, <1>2 DEF AnswerTrue, PoolInv, TombInv
  <1>4. p \in Owed
    BY <1>3 DEF Owed, Held, DebitHeld, TurnInv, TurnReserves
  <1>5. tomb[p] = None => turn[p].total = Amount[p] + rec[p].fee
    <2>1. tomb[p] = None => rec[p].fee = turn[p].total - Amount[p]
      BY <1>1, <1>2, TreasuryAssumption DEF AnswerTrue, Verdicts
    <2> QED BY <1>2, <2>1, TreasuryAssumption
  <1> QED BY <1>3, <1>4, <1>5

LEMMA TreasuryMoney ==
    ASSUME Types, ProposalsKnown, PoolInv, TurnInv, BookedInv, RoomInv, balance \in Nat,
           NEW p \in Proposals, TreasuryStep(p)
    PROVE  MoneyStep
  <1>0. UNCHANGED <<rec, reserve, earned, credited>>
    BY DEF TreasuryStep, Propose, Execute, FeeFails, FeeReply, PoolReply, Reject, disbursal, income
  <1>1. ASSUME UNCHANGED balance,
               proposal' = proposal \/ (\E s : s # "Executed" /\ proposal[p] # "Executed"
                                               /\ proposal' = [proposal EXCEPT ![p] = s])
        PROVE  MoneyStep
    <2>1. Held' = Held /\ FeesSame(Held)
      BY <1>0 DEF Held, DebitHeld, Status, FeesSame
    <2>2. \A q \in Proposals : proposal'[q] # "Executed" <=> proposal[q] # "Executed"
      BY <1>1 DEF ProposalsKnown
    <2>3. Owed' = Owed
      BY <2>1, <2>2 DEF Owed, Held
    <2> QED BY <1>0, <1>1, <2>1, <2>3 DEF MoneyStep, MoneyQuiet, Steady
  <1>2. CASE PoolReply(p) /\ call[turn[p].call].reply = "executed"
    <2>1. /\ turn[p].pc = "pool" /\ ToldExecuted(turn[p].call)
          /\ proposal' = [proposal EXCEPT ![p] = "Executed"]
          /\ balance' = IF balance - turn[p].total < 0 THEN 0 ELSE balance - turn[p].total
      BY <1>2 DEF PoolReply, ToldExecuted
    <2>2. p \in Admissions
      BY <2>1 DEF Admissions
    <2>3. turn[p].total \in Nat /\ turn[p].total <= balance
      BY <2>2, RoomFor
    <2>4. balance' = balance - turn[p].total
      BY <2>1, <2>3
    <2>5. p \in Owed /\ (tomb[p] = None => turn[p].total = Amount[p] + rec[p].fee)
      BY <2>1, ReplyExecuted
    <2>6. Held' = Held /\ FeesSame(Held)
      BY <1>0 DEF Held, DebitHeld, Status, FeesSame
    <2>7. Owed' = Owed \ {p}
      BY <2>1, <2>6 DEF Owed, Held, ProposalsKnown
    <2>8. MoneyBooked(p)
      BY <1>0, <2>3, <2>4, <2>5, <2>6, <2>7 DEF MoneyBooked
    <2> QED BY <2>8 DEF MoneyStep
  <1>3. CASE PoolReply(p) /\ call[turn[p].call].reply # "executed"
    <2>1. UNCHANGED <<proposal, balance>>
      BY <1>3 DEF PoolReply
    <2> QED BY <1>1, <2>1
  <1>4. CASE Propose(p) \/ Execute(p) \/ FeeFails(p) \/ FeeReply(p) \/ Reject(p)
    <2>1. /\ UNCHANGED balance
          /\ \/ UNCHANGED proposal
             \/ proposal[p] = "none" /\ proposal' = [proposal EXCEPT ![p] = "Pending"]
             \/ proposal[p] = "Pending" /\ proposal' = [proposal EXCEPT ![p] = "Rejected"]
      BY <1>4 DEF Propose, Execute, FeeFails, FeeReply, Reject
    <2> QED BY <1>1, <2>1
  <1> QED BY <1>2, <1>3, <1>4 DEF TreasuryStep

(* The reports: a fee is told once, and only one that was earned.          *)
LEMMA FeeMoney ==
    ASSUME NoticeInv, FeeStep
    PROVE  MoneyStep
  <1>1. UNCHANGED <<rec, proposal>>
    BY DEF FeeStep, EarnShieldFee, EarnSpendFee, FlushFeeAccrual, ReceiveFeeSplit, NoticeFails,
       NoticeReply, treasury, disbursal
  <1>2. Steady
    BY <1>1 DEF Steady, Held, Owed, DebitHeld, Status, FeesSame
  <1>3. ASSUME NEW e \in Earnings, EarnShieldFee(e) \/ EarnSpendFee(e) PROVE MoneyStep
    <2>1. MoneyEarned(e)
      BY <1>2, <1>3 DEF MoneyEarned, EarnShieldFee, EarnSpendFee, treasury
    <2> QED BY <2>1 DEF MoneyStep
  <1>4. ASSUME FlushFeeAccrual \/ (\E n \in notices : NoticeFails(n) \/ NoticeReply(n))
        PROVE  MoneyStep
    BY <1>2, <1>4 DEF MoneyStep, MoneyQuiet, FlushFeeAccrual, NoticeFails, NoticeReply,
       treasury, disbursal
  <1>5. ASSUME NEW n \in notices, ReceiveFeeSplit(n) PROVE MoneyStep
    <2>1. n.fees \subseteq earned \ credited
      BY <1>5 DEF ReceiveFeeSplit, NoticeInv
    <2>2. MoneyCredited(n.fees)
      BY <1>2, <1>5, <2>1 DEF MoneyCredited, ReceiveFeeSplit, disbursal
    <2> QED BY <2>2 DEF MoneyStep
  <1> QED BY <1>3, <1>4, <1>5 DEF FeeStep

LEMMA MoneyNext ==
    ASSUME Types, PaidInv, ProposalsKnown, PoolInv, TurnInv, NoticeInv, BookedInv, RoomInv,
           balance \in Nat, reserve \in Nat, [Next]_vars
    PROVE  MoneyStep
  <1>1. ASSUME UNCHANGED <<rec, proposal, reserve, balance, earned, credited>> PROVE MoneyStep
    BY <1>1 DEF MoneyStep, MoneyQuiet, Steady, Held, Owed, DebitHeld, Status, FeesSame
  <1>2. ASSUME NEW p \in Proposals, TreasuryStep(p) \/ Decide(p) PROVE MoneyStep
    BY <1>2, TreasuryMoney, DecideMoney DEF PoolInv
  <1>3. ASSUME NEW h \in Calls, PoolStep(h) PROVE MoneyStep
    BY <1>3, PoolMoney
  <1>4. ASSUME NEW h \in Calls, TokenStep(h) PROVE MoneyStep
    BY <1>1, <1>4, TokenAnswers DEF treasury, income
  <1>5. CASE PoolUpgrade
    <2>1. \A p \in Proposals : rec'[p] = rec[p] \/ (~DebitHeld(p) /\ ~DebitHeld(p)')
      BY <1>5, PoolUpgradeMoves DEF DebitHeld, Status
    <2>2. UNCHANGED <<proposal, reserve, balance, earned, credited>>
      BY <1>5, PoolUpgradeMoves DEF treasury
    <2>3. Steady
      BY <2>1, <2>2, RecordsSteady
    <2> QED BY <2>2, <2>3 DEF MoneyStep, MoneyQuiet
  <1>6. ASSUME \/ UNCHANGED vars \/ TreasuryUpgrade \/ (\E q \in orphans : LateTransfer(q))
               \/ (\E f \in Fees : SetLedgerFee(f))
        PROVE  UNCHANGED <<rec, proposal, reserve, balance, earned, credited>>
    BY <1>6 DEF vars, treasury, disbursal, income, TreasuryUpgrade, LateTransfer, SetLedgerFee
  <1> QED BY <1>1, <1>2, <1>3, <1>4, <1>5, <1>6, FeeMoney DEF Next

(* What the pool has executed stays executed.                              *)
LEMMA ExecutedStays ==
    ASSUME Types, PaidInv, PoolInv, [Next]_vars, NEW p \in Proposals, Status(p) = "Executed"
    PROVE  rec'[p] = rec[p]
  <1>0. rec[p] # None /\ rec[p].status = "Executed" /\ TombInv
    BY DEF Status, PoolInv
  <1>1. ASSUME NEW q \in Proposals, Decide(q) PROVE rec'[p] = rec[p]
    BY <1>0, <1>1, DecideMoves
  <1>2. ASSUME NEW h \in Calls, PoolStep(h) PROVE rec'[p] = rec[p]
    <2>1. UNCHANGED rec \/ (call[h].p # p /\ call[h].p \in Proposals)
      <3>1. CASE TreasuryDisburse(h)
        BY <1>0, <3>1 DEF TreasuryDisburse, Known, Types
      <3>2. CASE Validated(h) \/ ValidationFails(h) \/ TransferReply(h)
        <4>1. Live(h)
          BY <3>2 DEF Validated, ValidationFails, TransferReply, Live
        <4> QED BY <1>0, <4>1, LiveFacts
      <3>3. CASE CallbackTraps(h)
        BY <3>3 DEF CallbackTraps
      <3> QED BY <1>2, <3>1, <3>2, <3>3 DEF PoolStep
    <2>2. \/ UNCHANGED rec
          \/ \E r : rec' = [rec EXCEPT ![call[h].p] = r]
      BY <1>2 DEF PoolStep, TreasuryDisburse, Validated, ValidationFails, TransferReply,
         CallbackTraps, SetStatus, Remove
    <2> QED BY <2>1, <2>2 DEF Types
  <1>3. ASSUME NEW h \in Calls, TokenStep(h) PROVE rec'[p] = rec[p]
    BY <1>3, TokenAnswers
  <1>4. PoolUpgrade => rec'[p] = rec[p]
    BY <1>0, PoolUpgradeMoves
  <1>5. ASSUME NEW q \in Proposals, TreasuryStep(q) PROVE rec'[p] = rec[p]
    BY <1>5 DEF TreasuryStep, Propose, Execute, FeeFails, FeeReply, PoolReply, Reject, disbursal
  <1>6. ASSUME \/ UNCHANGED vars \/ TreasuryUpgrade \/ (\E q \in orphans : LateTransfer(q))
               \/ (\E f \in Fees : SetLedgerFee(f))
        PROVE  rec'[p] = rec[p]
    BY <1>6 DEF vars, disbursal, TreasuryUpgrade, LateTransfer, SetLedgerFee
  <1> QED BY <1>1, <1>2, <1>3, <1>4, <1>5, <1>6, FeesApart DEF Next

LEMMA BookedNext ==
    ASSUME Types, PaidInv, ProposalsKnown, PoolInv, TurnInv, BookedInv, [Next]_vars
    PROVE  BookedInv'
  <1> SUFFICES ASSUME NEW p \in Proposals, proposal'[p] = "Executed" PROVE Status(p)' = "Executed"
    BY DEF BookedInv
  <1>1. CASE proposal[p] = "Executed"
    BY <1>1, ExecutedStays DEF BookedInv, Status
  <1>2. CASE proposal[p] # "Executed"
    <2>1. PoolReply(p) /\ call[turn[p].call].reply = "executed"
      <3>1. ASSUME NEW q \in Proposals, TreasuryStep(q)
            PROVE  PoolReply(p) /\ call[turn[p].call].reply = "executed"
        <4>1. \/ UNCHANGED proposal
              \/ \E s : s # "Executed" /\ proposal' = [proposal EXCEPT ![q] = s]
              \/ /\ PoolReply(q) /\ call[turn[q].call].reply = "executed"
                 /\ proposal' = [proposal EXCEPT ![q] = "Executed"]
          BY <3>1 DEF TreasuryStep, Propose, Execute, FeeFails, FeeReply, PoolReply, Reject
        <4> QED BY <1>2, <4>1 DEF ProposalsKnown
      <3>2. ASSUME NEW q \in Proposals, Decide(q) PROVE UNCHANGED proposal
        BY <3>2, DecideMoves DEF treasury, PoolInv
      <3>3. ASSUME NEW h \in Calls, PoolStep(h) \/ TokenStep(h) PROVE UNCHANGED proposal
        BY <3>3 DEF PoolStep, TokenStep, TreasuryDisburse, Validated, ValidationFails,
           TransferReply, CallbackTraps, LedgerTransfer, LedgerRefuses, CallFails, treasury
      <3>4. ASSUME \/ UNCHANGED vars \/ FeeStep \/ TreasuryUpgrade \/ PoolUpgrade
                   \/ (\E q \in orphans : LateTransfer(q)) \/ (\E f \in Fees : SetLedgerFee(f))
            PROVE  UNCHANGED proposal
        BY <3>4 DEF vars, treasury, TreasuryUpgrade, PoolUpgrade, LateTransfer, SetLedgerFee,
           FeeStep, EarnShieldFee, EarnSpendFee, FlushFeeAccrual, ReceiveFeeSplit, NoticeFails,
           NoticeReply
      <3> QED BY <1>2, <3>1, <3>2, <3>3, <3>4 DEF Next
    <2>2. Status(p) = "Executed"
      BY <2>1, ReplyExecuted DEF PoolReply, ToldExecuted
    <2> QED BY <2>2, ExecutedStays DEF Status
  <1> QED BY <1>1, <1>2

-----------------------------------------------------------------------------
(* The bucket covers what it has admitted.                                 *)
LEMMA AdmittedNat ==
    ASSUME Types, TurnInv, NEW S \in SUBSET Admissions
    PROVE  /\ \A q \in S : turn[q].total \in Nat
           /\ IsFiniteSet(S) /\ AdmittedTotal(turn, S) \in Nat
  <1> DEFINE v == [q \in S |-> turn[q].total]
  <1>1. ASSUME NEW q \in S PROVE turn[q].total \in Nat
    <2>1. q \in Proposals /\ turn[q].total \in Totals(q) /\ turn[q].total # None
      BY DEF TurnInv, TotalsKnown, LinkInv, Linked, Admissions
    <2>2. Amount[q] \in Nat /\ Fees \subseteq Nat
      BY <2>1, TreasuryAssumption
    <2> QED BY <2>1, <2>2 DEF Totals
  <1>2. IsFiniteSet(S)
    BY ProposalsFinite DEF Admissions
  <1>3. \A q \in S : v[q] \in Nat
    BY <1>1
  <1>4. AdmittedTotal(turn, S) = SumOver(v, S)
    BY DEF AdmittedTotal
  <1> HIDE DEF v
  <1>5. SumOver(v, S) \in Nat
    BY <1>2, <1>3, SumOverNat
  <1> QED BY <1>1, <1>2, <1>4, <1>5

LEMMA AdmittedSame ==
    ASSUME NEW S \in SUBSET Proposals, NEW t, NEW u, \A p \in S : t[p].total = u[p].total
    PROVE  AdmittedTotal(t, S) = AdmittedTotal(u, S)
  <1>1. [p \in S |-> t[p].total] = [p \in S |-> u[p].total]
    OBVIOUS
  <1> QED BY <1>1 DEF AdmittedTotal

(* The step that admits p: the other admissions are among what encumbers   *)
(* the bucket for it.                                                      *)
LEMMA EncumberedCovers ==
    ASSUME Types, TurnInv, NEW p \in Proposals, p \notin Admissions
    PROVE  AdmittedTotal(turn, Admissions) <= Encumbered(p) /\ Encumbered(p) \in Nat
  <1> DEFINE E == {q \in Proposals \ {p} : Active(q) /\ rsv[q].total # None}
             w == [q \in Proposals |-> rsv[q].total]
  <1>1. \A q \in Admissions : q \in E /\ rsv[q].total = turn[q].total
    BY DEF TurnInv, TurnReserves, LinkInv, Linked, Active, Admissions
  <1>2. IsFiniteSet(E) /\ Admissions \in SUBSET E
    BY <1>1, ProposalsFinite
  <1>3. ASSUME NEW q \in E PROVE w[q] \in Nat
    <2>1. rsv[q].total \in Totals(q) /\ rsv[q].total # None
      BY <1>3 DEF TurnInv, TotalsKnown
    <2>2. Amount[q] \in Nat /\ Fees \subseteq Nat
      BY <1>3, TreasuryAssumption
    <2> QED BY <1>3, <2>1, <2>2 DEF Totals
  <1>4. Encumbered(p) = SumOver(w, E)
    BY DEF Encumbered, SumOf, SumOver
  <1>5. \A q \in Admissions : w[q] = [r \in Admissions |-> turn[r].total][q]
    BY <1>1
  <1>6. AdmittedTotal(turn, Admissions) = SumOver([r \in Admissions |-> turn[r].total], Admissions)
    BY DEF AdmittedTotal
  <1>7. IsFiniteSet(Admissions)
    BY AdmittedNat
  <1> HIDE DEF E, w
  <1>8. SumOver(w, Admissions) = AdmittedTotal(turn, Admissions)
    BY <1>5, <1>6, <1>7, SumOverSame
  <1>9. SumOver(w, Admissions) <= SumOver(w, E) /\ SumOver(w, E) \in Nat
    BY <1>2, <1>3, SumOverGrows
  <1> QED BY <1>4, <1>8, <1>9

LEMMA RoomStays ==
    ASSUME Types, TurnInv, RoomInv, balance \in Nat, balance' \in Nat, balance' >= balance,
           Admissions' = Admissions, \A q \in Admissions : turn'[q].total = turn[q].total
    PROVE  RoomInv'
  <1>1. AdmittedTotal(turn', Admissions) = AdmittedTotal(turn, Admissions)
    BY AdmittedSame DEF Admissions
  <1>2. AdmittedTotal(turn, Admissions) \in Nat
    BY AdmittedNat
  <1>3. AdmittedTotal(turn, Admissions)' = AdmittedTotal(turn, Admissions)
    BY <1>1
  <1> QED BY <1>2, <1>3 DEF RoomInv

LEMMA TreasuryRoom ==
    ASSUME Types, TurnInv, RoomInv, balance \in Nat, NEW p \in Proposals, TreasuryStep(p)
    PROVE  RoomInv'
  <1>1. ASSUME UNCHANGED balance, \A q \in Proposals : q # p => turn'[q] = turn[q],
               turn[p].pc # "pool", turn'[p].pc # "pool"
        PROVE  RoomInv'
    <2>1. Admissions' = Admissions /\ \A q \in Admissions : turn'[q].total = turn[q].total
      BY <1>1 DEF Admissions
    <2> QED BY <1>1, <2>1, RoomStays
  <1>2. CASE Propose(p) \/ Reject(p)
    BY <1>2, RoomStays DEF Propose, Reject, Admissions
  <1>3. CASE Execute(p)
    <2>1. turn[p].pc # "pool"
      BY <1>3 DEF Execute, TurnInv, TurnReserves
    <2>2. /\ turn'[p].pc = "fee" /\ UNCHANGED balance
          /\ \A q \in Proposals : q # p => turn'[q] = turn[q]
      BY <1>3 DEF Execute, Types, IdleTurn
    <2> QED BY <1>1, <2>1, <2>2
  <1>4. CASE FeeFails(p) \/ (FeeReply(p) /\ ~Admitted(p, TotalDebit(p)))
    <2>1. LocalRefusal(p) /\ turn[p].pc = "fee" /\ UNCHANGED balance
      BY <1>4 DEF FeeFails, FeeReply
    <2>2. IdleTurn.pc = "idle"
      BY DEF IdleTurn
    <2> QED BY <1>1, <2>1, <2>2, LocalRefusalIs
  <1>5. CASE FeeReply(p) /\ Admitted(p, TotalDebit(p))
    <2> DEFINE total == TotalDebit(p)
    <2>1. turn[p].pc = "fee" /\ UNCHANGED balance /\ balance >= total + Encumbered(p)
      BY <1>5 DEF FeeReply, Admitted
    <2>2. total \in Nat
      BY TotalDebitKnown DEF TurnInv
    <2>3. PICK h \in Calls :
            turn' = [turn EXCEPT ![p].pc = "pool", ![p].total = total, ![p].call = h]
      BY <1>5, FeeReplySends
    <2> HIDE DEF total
    <2>4. /\ turn'[p] = [turn[p] EXCEPT !.pc = "pool", !.total = total, !.call = h]
          /\ \A q \in Proposals : q # p => turn'[q] = turn[q]
      BY <2>3 DEF Types
    <2>5. turn'[p].pc = "pool" /\ turn'[p].total = total /\ turn[p] \in Turns
      BY <2>4 DEF Types, Turns
    <2>6. p \notin Admissions /\ Admissions' = Admissions \cup {p}
      BY <2>1, <2>4, <2>5 DEF Admissions
    <2> DEFINE A == Admissions \cup {p}
               v == [q \in A |-> turn'[q].total]
               w == [q \in Admissions |-> turn[q].total]
    <2>7. /\ IsFiniteSet(Admissions) /\ \A q \in Admissions : turn[q].total \in Nat
          /\ AdmittedTotal(turn, Admissions) \in Nat
      BY AdmittedNat
    <2>8. \A q \in Admissions : v[q] = w[q] /\ v[q] \in Nat
      BY <2>4, <2>6, <2>7 DEF Admissions
    <2>9. v[p] = total /\ \A q \in Admissions \cup {p} : v[q] \in Int
      BY <2>2, <2>5, <2>8
    <2>10. AdmittedTotal(turn, Admissions)' = SumOver(v, Admissions \cup {p})
      BY <2>6 DEF AdmittedTotal
    <2>11. AdmittedTotal(turn, Admissions) = SumOver(w, Admissions)
      BY DEF AdmittedTotal
    <2> HIDE DEF v, w, A
    <2>12. SumOver(v, Admissions \cup {p}) = v[p] + SumOver(v, Admissions)
      BY <2>6, <2>7, <2>9, SumOverAdded
    <2>13. SumOver(v, Admissions) = SumOver(w, Admissions)
      BY <2>7, <2>8, SumOverSame
    <2>14. AdmittedTotal(turn, Admissions)' = total + AdmittedTotal(turn, Admissions)
      BY <2>9, <2>10, <2>11, <2>12, <2>13
    <2>15. AdmittedTotal(turn, Admissions) <= Encumbered(p) /\ Encumbered(p) \in Nat
      BY <2>6, EncumberedCovers
    <2> QED BY <2>1, <2>2, <2>7, <2>14, <2>15 DEF RoomInv
  <1>6. CASE PoolReply(p)
    <2>1. /\ turn[p].pc = "pool" /\ turn' = [turn EXCEPT ![p] = IdleTurn] /\ IdleTurn.pc = "idle"
          /\ \/ UNCHANGED balance
             \/ balance' = IF balance - turn[p].total < 0 THEN 0 ELSE balance - turn[p].total
      BY <1>6 DEF PoolReply, IdleTurn
    <2>2. p \in Admissions /\ Admissions' = Admissions \ {p}
          /\ \A q \in Admissions \ {p} : turn'[q] = turn[q]
      BY <2>1 DEF Types, Admissions
    <2>3. /\ turn[p].total \in Nat /\ turn[p].total <= balance
          /\ AdmittedTotal(turn, Admissions \ {p}) <= balance - turn[p].total
          /\ AdmittedTotal(turn, Admissions \ {p}) \in Nat
      BY <2>2, RoomFor
    <2>4. balance' \in Nat /\ balance' >= balance - turn[p].total
      BY <2>1, <2>3
    <2>5. AdmittedTotal(turn, Admissions)' = AdmittedTotal(turn', Admissions \ {p})
      BY <2>2
    <2>6. AdmittedTotal(turn', Admissions \ {p}) = AdmittedTotal(turn, Admissions \ {p})
      BY <2>2, AdmittedSame DEF Admissions
    <2> QED BY <2>3, <2>4, <2>5, <2>6 DEF RoomInv
  <1> QED BY <1>2, <1>3, <1>4, <1>5, <1>6 DEF TreasuryStep

LEMMA FeeRoom ==
    ASSUME Types, TurnInv, NoticeInv, RoomInv, balance \in Nat, FeeStep
    PROVE  RoomInv'
  <1>1. UNCHANGED turn
    BY FeesApart
  <1>2. UNCHANGED balance \/ \E n \in notices : balance' = balance + Worth(n.fees)
    BY DEF FeeStep, EarnShieldFee, EarnSpendFee, FlushFeeAccrual, ReceiveFeeSplit, NoticeFails,
       NoticeReply, treasury
  <1>3. \A n \in notices : Worth(n.fees) \in Nat
    <2> SUFFICES ASSUME NEW n \in notices PROVE Worth(n.fees) \in Nat
      OBVIOUS
    <2>1. n.fees \in SUBSET Earnings
      BY DEF NoticeInv
    <2>2. IsFiniteSet(n.fees) /\ \A e \in n.fees : Share[e] \in Nat
      BY <2>1, FS_Subset, TreasuryAssumption
    <2> QED BY <2>2, SumOverNat, WorthIs
  <1>4. balance' \in Nat /\ balance' >= balance
    BY <1>2, <1>3
  <1>5. Admissions' = Admissions /\ \A q \in Admissions : turn'[q].total = turn[q].total
    BY <1>1 DEF Admissions
  <1> QED BY <1>4, <1>5, RoomStays

LEMMA RoomNext ==
    ASSUME Types, TurnInv, TombInv, NoticeInv, RoomInv, balance \in Nat, [Next]_vars
    PROVE  RoomInv'
  <1>1. CASE UNCHANGED <<turn, balance>>
    BY <1>1, RoomStays DEF Admissions
  <1>2. ASSUME NEW p \in Proposals, Decide(p) PROVE UNCHANGED <<turn, balance>>
    BY <1>2, DecideMoves DEF treasury
  <1>3. ASSUME NEW h \in Calls, PoolStep(h) \/ TokenStep(h) PROVE UNCHANGED <<turn, balance>>
    BY <1>3 DEF PoolStep, TokenStep, TreasuryDisburse, Validated, ValidationFails,
       TransferReply, CallbackTraps, LedgerTransfer, LedgerRefuses, CallFails, treasury
  <1>4. CASE TreasuryUpgrade
    <2>1. Admissions' = {} /\ UNCHANGED balance
      BY <1>4 DEF TreasuryUpgrade, Admissions, IdleTurn
    <2>2. AdmittedTotal(turn, Admissions)' = SumOver([p \in {} |-> turn'[p].total], {})
      BY <2>1 DEF AdmittedTotal
    <2>3. AdmittedTotal(turn, Admissions)' = 0
      BY <2>2, SumOverEmpty
    <2> QED BY <2>1, <2>3 DEF RoomInv
  <1>5. ASSUME \/ UNCHANGED vars \/ PoolUpgrade \/ (\E q \in orphans : LateTransfer(q))
               \/ (\E f \in Fees : SetLedgerFee(f))
        PROVE  UNCHANGED <<turn, balance>>
    BY <1>5 DEF vars, treasury, PoolUpgrade, LateTransfer, SetLedgerFee
  <1> QED BY <1>1, <1>2, <1>3, <1>4, <1>5, TreasuryRoom, FeeRoom DEF Next

-----------------------------------------------------------------------------
(* The two equations, and how each kind of step keeps them.                *)
ReserveExact == reserve = Opening + Worth(earned) - Debits(Held)

MoneyInv ==
    /\ reserve \in Nat /\ balance \in Nat
    /\ ReserveExact /\ MirrorExact

LEMMA WorthNat == ASSUME NEW S \in SUBSET Earnings PROVE Worth(S) \in Nat /\ IsFiniteSet(S)
  <1>1. IsFiniteSet(S) /\ \A e \in S : Share[e] \in Nat
    BY FS_Subset, TreasuryAssumption
  <1> QED BY <1>1, SumOverNat, WorthIs

LEMMA WorthAdded ==
    ASSUME NEW S \in SUBSET Earnings, NEW e \in Earnings, e \notin S
    PROVE  Worth(S \cup {e}) = Worth(S) + Share[e] /\ Share[e] \in Nat
  <1>1. IsFiniteSet(S) /\ \A x \in S \cup {e} : Share[x] \in Int
    BY WorthNat, TreasuryAssumption
  <1>2. SumOver(Share, S \cup {e}) = Share[e] + SumOver(Share, S)
    BY <1>1, SumOverAdded
  <1>3. Worth(S) \in Nat /\ Share[e] \in Nat
    BY WorthNat, TreasuryAssumption
  <1> QED BY <1>2, <1>3, WorthIs

LEMMA WorthParts ==
    ASSUME NEW S \in SUBSET Earnings, NEW T \in SUBSET S
    PROVE  Worth(S) = Worth(T) + Worth(S \ T)
  <1>1. /\ IsFiniteSet(T) /\ IsFiniteSet(S \ T) /\ T \cap (S \ T) = {} /\ T \cup (S \ T) = S
        /\ \A x \in T \cup (S \ T) : Share[x] \in Int
    BY WorthNat, TreasuryAssumption
  <1>2. SumOver(Share, T \cup (S \ T)) = SumOver(Share, T) + SumOver(Share, S \ T)
    BY <1>1, SumOverDisjoint
  <1> QED BY <1>1, <1>2, WorthIs

LEMMA HeldFees ==
    ASSUME Types, FeesKnown
    PROVE  /\ Held \in SUBSET Proposals /\ Owed \in SUBSET Held
           /\ \A p \in Held : rec[p].fee \in Nat
  BY TreasuryAssumption DEF Held, Owed, DebitHeld, Status, FeesKnown

(* Debits(Held) and Debits(Owed) of the next state. *)
LEMMA DebitsNext ==
    /\ Debits(Held)' = DebitsIn(rec', Held')
    /\ Debits(Owed)' = DebitsIn(rec', Owed')
  <1>1. (Debits(Held) = DebitsIn(rec, Held) /\ Debits(Owed) = DebitsIn(rec, Owed))'
    BY DebitsAre, PTL
  <1> QED BY <1>1

LEMMA SteadyDebits ==
    ASSUME Types, FeesKnown, Steady
    PROVE  Debits(Held)' = Debits(Held) /\ Debits(Owed)' = Debits(Owed)
  <1>1. DebitsIn(rec', Held) = DebitsIn(rec, Held) /\ DebitsIn(rec', Owed) = DebitsIn(rec, Owed)
    BY HeldFees, DebitsSame DEF Steady, FeesSame
  <1> QED BY <1>1, DebitsAre, DebitsNext DEF Steady

LEMMA MoneyKeeps ==
    ASSUME Types, FeesKnown, FeesKnown', Types', NoticeInv, MoneyInv, MoneyStep,
           (\A p \in Proposals : tomb'[p] = None) => (\A p \in Proposals : tomb[p] = None)
    PROVE  MoneyInv'
  <1> DEFINE clear == \A p \in Proposals : tomb[p] = None
             h == Debits(Held)
             o == Debits(Owed)
             w == Worth(earned)
             d == Worth(earned \ credited)
  <1>1. /\ reserve \in Nat /\ balance \in Nat /\ h \in Nat /\ o \in Nat /\ w \in Nat /\ d \in Nat
        /\ Opening \in Nat /\ reserve = Opening + w - h
        /\ clear => reserve + o = balance + d
    <2>1. h \in Nat /\ o \in Nat
      BY HeldFees, DebitsAre, DebitsNat
    <2>2. w \in Nat /\ d \in Nat
      BY WorthNat DEF NoticeInv
    <2> QED BY <2>1, <2>2, TreasuryAssumption DEF MoneyInv, ReserveExact, MirrorExact
  <1>2. (clear)' => clear
    OBVIOUS
  <1>3. /\ earned \in SUBSET Earnings /\ Held \in SUBSET Proposals /\ Owed \in SUBSET Held
        /\ \A p \in Held : rec[p].fee \in Nat
        /\ Held' \in SUBSET Proposals /\ Owed' \in SUBSET Held'
        /\ \A p \in Held' : rec'[p].fee \in Nat
        /\ Fees \subseteq Nat
    <2>1. earned \in SUBSET Earnings /\ Fees \subseteq Nat
      BY TreasuryAssumption DEF NoticeInv
    <2>2. /\ Held' \in SUBSET Proposals /\ Owed' \in SUBSET Held'
          /\ \A p \in Held' : rec'[p].fee \in Nat
      BY TreasuryAssumption DEF Held, Owed, DebitHeld, Status, FeesKnown
    <2> QED BY <2>1, <2>2, HeldFees
  (* what remains to be shown of a step *)
  <1>4. ASSUME reserve' \in Nat, balance' \in Nat, (reserve = Opening + w - h)',
               (clear)' => (reserve + o = balance + d)'
        PROVE  MoneyInv'
    BY <1>4 DEF MoneyInv, ReserveExact, MirrorExact
  <1>5. CASE MoneyQuiet
    <2>1. h' = h /\ o' = o
      BY <1>5, SteadyDebits DEF MoneyQuiet
    <2>2. w' = w /\ d' = d /\ UNCHANGED <<reserve, balance>>
      BY <1>5 DEF MoneyQuiet
    <2> HIDE DEF h, o, w, d, clear
    <2> QED BY <1>1, <1>2, <1>4, <2>1, <2>2
  <1>6. ASSUME NEW e \in Earnings, MoneyEarned(e) PROVE MoneyInv'
    <2>1. h' = h /\ o' = o
      BY <1>6, SteadyDebits DEF MoneyEarned
    <2>2. /\ earned' = earned \cup {e} /\ e \notin earned /\ e \notin earned \ credited
          /\ earned' \ credited' = (earned \ credited) \cup {e}
          /\ reserve' = reserve + Share[e] /\ UNCHANGED balance
      <3>1. e \notin credited
        BY <1>6 DEF MoneyEarned, NoticeInv
      <3> QED BY <1>6, <3>1 DEF MoneyEarned
    <2>3. w' = w + Share[e] /\ Share[e] \in Nat
      BY <1>3, <2>2, WorthAdded
    <2>4. d' = d + Share[e]
      <3>1. Worth((earned \ credited) \cup {e}) = Worth(earned \ credited) + Share[e]
        BY <1>3, <2>2, WorthAdded
      <3> QED BY <2>2, <3>1
    <2> HIDE DEF h, o, w, d, clear
    <2>5. reserve' \in Nat /\ balance' \in Nat
      BY <1>1, <2>2, <2>3
    <2>6. reserve' = Opening + w' - h'
      BY <1>1, <2>1, <2>2, <2>3
    <2>7. clear => reserve' + o' = balance' + d'
      <3>1. CASE clear
        <4>1. reserve + o = balance + d
          BY <1>1, <3>1
        <4>2. o' = o /\ d' = d + Share[e] /\ reserve' = reserve + Share[e] /\ balance' = balance
          BY <2>1, <2>2, <2>4
        <4>3. (reserve + Share[e]) + o = balance + (d + Share[e])
          BY <1>1, <2>3, <4>1
        <4> QED BY <4>2, <4>3
      <3> QED BY <3>1
    <2> QED BY <1>2, <1>4, <2>5, <2>6, <2>7
  <1>7. ASSUME NEW n \in notices, MoneyCredited(n.fees) PROVE MoneyInv'
    <2>1. h' = h /\ o' = o
      BY <1>7, SteadyDebits DEF MoneyCredited
    <2>2. /\ n.fees \in SUBSET (earned \ credited) /\ UNCHANGED <<earned, reserve>>
          /\ earned' \ credited' = (earned \ credited) \ n.fees
          /\ balance' = balance + Worth(n.fees)
      BY <1>7 DEF MoneyCredited
    <2>3. d = Worth(n.fees) + d' /\ Worth(n.fees) \in Nat /\ d' \in Nat /\ w' = w
      <3>1. Worth(earned \ credited) = Worth(n.fees) + Worth((earned \ credited) \ n.fees)
        BY <1>3, <2>2, WorthParts
      <3>2. Worth(n.fees) \in Nat /\ Worth((earned \ credited) \ n.fees) \in Nat
        BY <1>3, <2>2, WorthNat
      <3> QED BY <2>2, <3>1, <3>2
    <2> DEFINE x == Worth(n.fees)
    <2> HIDE DEF h, o, w, d, clear, x
    <2>4. balance' = balance + x /\ d = x + d' /\ x \in Nat
      BY <2>2, <2>3 DEF x
    <2>5. reserve' \in Nat /\ balance' \in Nat /\ reserve' = Opening + w' - h'
      BY <1>1, <2>1, <2>2, <2>3, <2>4
    <2>6. clear => reserve' + o' = balance' + d'
      <3>1. CASE clear
        <4>1. reserve + o = balance + d
          BY <1>1, <3>1
        <4>2. reserve' + o' = balance' + d'
          BY <1>1, <2>1, <2>2, <2>3, <2>4, <4>1
        <4> QED BY <4>2
      <3> QED BY <3>1
    <2> QED BY <1>2, <1>4, <2>5, <2>6
  <1>8. ASSUME NEW p \in Proposals, MoneyTaken(p) PROVE MoneyInv'
    <2> DEFINE x == Amount[p] + rec'[p].fee
    <2>1. /\ p \notin Held /\ Held' = Held \cup {p} /\ Owed' = Owed \cup {p}
          /\ \A q \in Held : rec'[q].fee = rec[q].fee
          /\ x <= reserve /\ reserve' = reserve - x /\ UNCHANGED <<balance, earned, credited>>
      BY <1>8 DEF MoneyTaken, FeesSame
    <2>2. /\ p \in Held' /\ Held' \ {p} = Held /\ p \in Owed' /\ Owed' \ {p} = Owed
      BY <1>3, <2>1
    <2>3. h' = x + h /\ x \in Nat
      <3>1. DebitsIn(rec', Held') = x + DebitsIn(rec', Held' \ {p}) /\ x \in Nat
        BY <1>3, <2>2, DebitsMember
      <3>2. DebitsIn(rec', Held) = DebitsIn(rec, Held)
        BY <1>3, <2>1, DebitsSame
      <3> QED BY <2>2, <3>1, <3>2, DebitsAre, DebitsNext
    <2>4. o' = x + o
      <3>1. DebitsIn(rec', Owed') = x + DebitsIn(rec', Owed' \ {p})
        BY <1>3, <2>2, DebitsMember
      <3>2. DebitsIn(rec', Owed) = DebitsIn(rec, Owed)
        BY <1>3, <2>1, DebitsSame
      <3> QED BY <2>2, <3>1, <3>2, DebitsAre, DebitsNext
    <2>5. w' = w /\ d' = d
      BY <2>1
    <2> HIDE DEF h, o, w, d, clear, x
    <2>6. reserve' \in Nat /\ balance' \in Nat /\ reserve' = Opening + w' - h'
      BY <1>1, <2>1, <2>3, <2>5
    <2>7. clear => reserve' + o' = balance' + d'
      <3>1. CASE clear
        <4>1. reserve + o = balance + d
          BY <1>1, <3>1
        <4>2. reserve' + o' = balance' + d'
          BY <1>1, <2>1, <2>3, <2>4, <2>5, <4>1
        <4> QED BY <4>2
      <3> QED BY <3>1
    <2> QED BY <1>2, <1>4, <2>6, <2>7
  <1>9. ASSUME NEW p \in Proposals, MoneyReturned(p) PROVE MoneyInv'
    <2> DEFINE x == Amount[p] + rec[p].fee
    <2>1. /\ p \in Owed /\ p \in Held /\ Held' = Held \ {p} /\ Owed' = Owed \ {p}
          /\ \A q \in Held \ {p} : rec'[q].fee = rec[q].fee
          /\ reserve' = reserve + x /\ UNCHANGED <<balance, earned, credited>>
      BY <1>3, <1>9 DEF MoneyReturned, FeesSame
    <2>2. h = x + h' /\ x \in Nat
      <3>1. DebitsIn(rec, Held) = x + DebitsIn(rec, Held \ {p}) /\ x \in Nat
        BY <1>3, <2>1, DebitsMember
      <3>2. DebitsIn(rec', Held \ {p}) = DebitsIn(rec, Held \ {p})
        BY <1>3, <2>1, DebitsSame
      <3> QED BY <2>1, <3>1, <3>2, DebitsAre, DebitsNext
    <2>3. o = x + o'
      <3>1. DebitsIn(rec, Owed) = x + DebitsIn(rec, Owed \ {p})
        BY <1>3, <2>1, DebitsMember
      <3>2. DebitsIn(rec', Owed \ {p}) = DebitsIn(rec, Owed \ {p})
        BY <1>3, <2>1, DebitsSame
      <3> QED BY <2>1, <3>1, <3>2, DebitsAre, DebitsNext
    <2>4. w' = w /\ d' = d
      BY <2>1
    <2>5. h' \in Nat /\ o' \in Nat
      BY <1>3, DebitsNext, DebitsNat
    <2> HIDE DEF h, o, w, d, clear, x
    <2>6. reserve' \in Nat /\ balance' \in Nat /\ reserve' = Opening + w' - h'
      <3>1. reserve' = reserve + x /\ balance' = balance /\ w' = w
        BY <2>1, <2>4
      <3>2. /\ reserve \in Nat /\ Opening \in Nat /\ w \in Nat /\ h' \in Nat /\ x \in Nat
            /\ reserve = Opening + w - h /\ h = x + h'
        BY <1>1, <2>2, <2>5
      <3>3. \A k, n \in Nat : h = k + n => reserve + k = Opening + w - n /\ reserve + k \in Nat
        BY <1>1
      <3>4. reserve + x = Opening + w - h' /\ reserve + x \in Nat
        BY <3>2, <3>3
      <3> QED BY <1>1, <3>1, <3>4
    <2>7. clear => reserve' + o' = balance' + d'
      <3>1. CASE clear
        <4>1. reserve + o = balance + d
          BY <1>1, <3>1
        <4>2. reserve' = reserve + x /\ balance' = balance /\ d' = d
          BY <2>1, <2>4
        <4>3. /\ reserve \in Nat /\ x \in Nat /\ o' \in Nat /\ o = x + o'
          BY <1>1, <2>2, <2>3, <2>5
        <4>4. reserve + (x + o') = balance + d
          BY <4>1, <4>3
        <4>5. (reserve + x) + o' = balance + d
          BY <4>3, <4>4
        <4> QED BY <4>2, <4>5
      <3> QED BY <3>1
    <2> QED BY <1>2, <1>4, <2>6, <2>7
  <1>10. ASSUME NEW p \in Proposals, MoneyBooked(p) PROVE MoneyInv'
    <2> DEFINE x == Amount[p] + rec[p].fee
               t == turn[p].total
    <2>1. /\ p \in Owed /\ Held' = Held /\ Owed' = Owed \ {p}
          /\ \A q \in Held : rec'[q].fee = rec[q].fee
          /\ balance' = balance - t /\ t \in 0..balance /\ UNCHANGED <<reserve, earned, credited>>
          /\ tomb[p] = None => t = x
      BY <1>10 DEF MoneyBooked, FeesSame
    <2>2. h' = h
      <3>1. DebitsIn(rec', Held) = DebitsIn(rec, Held)
        BY <1>3, <2>1, DebitsSame
      <3> QED BY <2>1, <3>1, DebitsAre, DebitsNext
    <2>3. o = x + o' /\ x \in Nat
      <3>0. Owed \in SUBSET Proposals /\ p \in Owed /\ \A q \in Owed : rec[q].fee \in Nat
        BY <1>3, <2>1
      <3>1. DebitsIn(rec, Owed) = x + DebitsIn(rec, Owed \ {p}) /\ x \in Nat
        BY <3>0, DebitsMember
      <3>2. DebitsIn(rec', Owed \ {p}) = DebitsIn(rec, Owed \ {p})
        BY <1>3, <2>1, DebitsSame
      <3> QED BY <2>1, <3>1, <3>2, DebitsAre, DebitsNext
    <2>4. w' = w /\ d' = d
      BY <2>1
    <2>5. o' \in Nat
      BY <1>3, DebitsNext, DebitsNat
    <2>6. clear => t = x
      BY <2>1
    <2>7. t \in Nat
      BY <1>1, <2>1
    <2> HIDE DEF h, o, w, d, clear, x, t
    <2>8. reserve' \in Nat /\ balance' \in Nat /\ reserve' = Opening + w' - h'
      BY <1>1, <2>1, <2>2, <2>4, <2>7
    <2>9. clear => reserve' + o' = balance' + d'
      <3>1. CASE clear
        <4>1. reserve + o = balance + d /\ t = x
          BY <1>1, <2>6, <3>1
        <4>2. reserve' = reserve /\ balance' = balance - x /\ d' = d
          BY <2>1, <2>4, <4>1
        <4>3. /\ reserve \in Nat /\ x \in Nat /\ o' \in Nat /\ o = x + o'
              /\ balance \in Nat /\ d \in Nat
          BY <1>1, <2>3, <2>5
        <4>4. \A k, n \in Nat : o = k + n => reserve + n = (balance - k) + d
          BY <1>1, <4>1
        <4>5. reserve + o' = (balance - x) + d
          BY <4>3, <4>4
        <4> QED BY <4>2, <4>5
      <3> QED BY <3>1
    <2> QED BY <1>2, <1>4, <2>8, <2>9
  <1> QED BY <1>5, <1>6, <1>7, <1>8, <1>9, <1>10 DEF MoneyStep

-----------------------------------------------------------------------------
(* Only the operator's decisions set tombstones, and none takes one away.  *)
LEMMA TombsStay ==
    ASSUME Types, TombInv, [Next]_vars, \A p \in Proposals : tomb'[p] = None
    PROVE  \A p \in Proposals : tomb[p] = None
  <1>1. ASSUME NEW p \in Proposals, Decide(p)
        PROVE  \A q \in Proposals : tomb[q] = None
    <2>1. tomb[p] = None /\ \A q \in Proposals : q # p => tomb'[q] = tomb[q]
      BY <1>1, DecideMoves
    <2> QED BY <2>1
  <1>2. ASSUME NEW p \in Proposals, TreasuryStep(p) PROVE UNCHANGED tomb
    BY <1>2 DEF TreasuryStep, Propose, Execute, FeeFails, FeeReply, PoolReply, Reject, disbursal
  <1>3. ASSUME NEW h \in Calls, PoolStep(h) \/ TokenStep(h) PROVE UNCHANGED tomb
    BY <1>3, TokenAnswers DEF PoolStep, TreasuryDisburse, Validated, ValidationFails,
       TransferReply, CallbackTraps
  <1>4. ASSUME \/ UNCHANGED vars \/ TreasuryUpgrade \/ PoolUpgrade
               \/ (\E q \in orphans : LateTransfer(q)) \/ (\E f \in Fees : SetLedgerFee(f))
        PROVE  UNCHANGED tomb
    BY <1>4 DEF vars, disbursal, TreasuryUpgrade, PoolUpgrade, LateTransfer, SetLedgerFee
  <1> QED BY <1>1, <1>2, <1>3, <1>4, FeesApart DEF Next

TreasuryInv ==
    /\ Types /\ PaidInv /\ ProposalsKnown /\ PoolInv /\ TurnInv /\ RequestsKnown
    /\ IncomeInv /\ BookedInv /\ RoomInv /\ MoneyInv

LEMMA TreasuryInit == Init => TreasuryInv
  <1> SUFFICES ASSUME Init PROVE TreasuryInv
    OBVIOUS
  <1>1. Types /\ PaidInv /\ PoolInv /\ TurnInv /\ IncomeInv
    BY InitTypes, InitPaid, PoolInit, TurnInit, IncomeInit
  <1>2. ProposalsKnown /\ BookedInv
    BY DEF Init, ProposalsKnown, BookedInv
  <1>3. RequestsKnown
    BY DEF Init, RequestsKnown, FreeCall
  <1>4. Held = {} /\ Owed = {} /\ Admissions = {}
    BY DEF Init, Held, Owed, DebitHeld, Status, Admissions, IdleTurn
  <1>5. Debits(Held) = 0 /\ Debits(Owed) = 0
    <2>1. DebitsIn(rec, {}) = 0
      BY SumOverEmpty DEF DebitsIn
    <2> QED BY <1>4, <2>1, DebitsAre
  <1>6. Worth({}) = 0
    BY SumOverEmpty, WorthIs
  <1>7. /\ reserve = Opening /\ balance = Opening /\ Opening \in Nat
        /\ earned = {} /\ earned \ credited = {}
    BY TreasuryAssumption DEF Init
  <1>8. MoneyInv
    BY <1>5, <1>6, <1>7 DEF MoneyInv, ReserveExact, MirrorExact
  <1>9. RoomInv
    <2>1. AdmittedTotal(turn, {}) = 0
      BY SumOverEmpty DEF AdmittedTotal
    <2> QED BY <1>4, <1>7, <2>1 DEF RoomInv
  <1> QED BY <1>1, <1>2, <1>3, <1>8, <1>9 DEF TreasuryInv

LEMMA TreasuryNext == TreasuryInv /\ [Next]_vars => TreasuryInv'
  <1> SUFFICES ASSUME TreasuryInv, [Next]_vars PROVE TreasuryInv'
    OBVIOUS
  <1>1. /\ Types /\ PaidInv /\ ProposalsKnown /\ PoolInv /\ TurnInv /\ RequestsKnown
        /\ IncomeInv /\ BookedInv /\ RoomInv /\ MoneyInv
        /\ TombInv /\ FeesKnown /\ TotalsKnown /\ NoticeInv /\ LiveHasRecord
        /\ reserve \in Nat /\ balance \in Nat
    BY DEF TreasuryInv, PoolInv, TurnInv, IncomeInv, MoneyInv, PaidInv
  <1>2. Types' /\ PaidInv'
    BY <1>1, NextTypes, NextPaid
  <1>3. ProposalsKnown' /\ PoolInv' /\ TurnInv'
    BY <1>1, ProposalsNext, PoolNext, TurnNext
  <1>4. RequestsKnown' /\ IncomeInv'
    BY <1>1, RequestsNext, IncomeNext
  <1>5. BookedInv' /\ RoomInv'
    BY <1>1, BookedNext, RoomNext
  <1>6. MoneyInv'
    <2>1. MoneyStep
      BY <1>1, MoneyNext
    <2>2. FeesKnown'
      BY <1>3 DEF PoolInv
    <2>3. (\A p \in Proposals : tomb'[p] = None) => (\A p \in Proposals : tomb[p] = None)
      BY <1>1, TombsStay
    <2> QED BY <1>1, <1>2, <2>1, <2>2, <2>3, MoneyKeeps
  <1> QED BY <1>2, <1>3, <1>4, <1>5, <1>6 DEF TreasuryInv

(* The invariant of the whole protocol between treasury, pool and token.   *)
THEOREM TreasuryInvariant == Spec => []TreasuryInv
  <1> QED BY TreasuryInit, TreasuryNext, PTL DEF Spec

(* Every variable keeps its type; the reserve and the bucket stay naturals *)
(* although debits are taken from both.                                    *)
THEOREM TypesAlways == Spec => []TypeOK
  <1>1. TreasuryInv => TypeOK
    <2> SUFFICES ASSUME TreasuryInv PROVE TypeOK
      OBVIOUS
    <2>1. proposal \in [Proposals -> {"none", "Pending", "Executed", "Rejected"}]
      BY DEF TreasuryInv, ProposalsKnown
    <2>2. ASSUME NEW p \in Proposals
          PROVE  /\ rsv[p].status \in Statuses /\ rsv[p].total \in Totals(p)
                 /\ turn[p].pc \in {"idle", "fee", "pool"} /\ turn[p].total \in Totals(p)
                 /\ turn[p].pc # "idle" => rsv[p].status = IF turn[p].retry THEN "RetryingUnknown" ELSE "Reserved"
                 /\ rec[p] \in Disbursements \cup {None}
                 /\ tomb[p] \in Verdicts \cup {None}
                 /\ stamps[p] \in Nat
      <3>1. rsv[p] \in Reservations /\ turn[p] \in Turns
            /\ rec[p] \in Disbursements \cup {None} /\ tomb[p] \in Verdicts \cup {None}
        BY DEF TreasuryInv, Types
      <3>2. rsv[p].status \in Statuses /\ turn[p].pc \in {"idle", "fee", "pool"}
        BY <3>1 DEF Reservations, Turns
      <3>3. /\ rsv[p].total \in Totals(p) /\ turn[p].total \in Totals(p) /\ stamps[p] \in Nat
            /\ turn[p].pc # "idle" => rsv[p].status = IF turn[p].retry THEN "RetryingUnknown" ELSE "Reserved"
        BY DEF TreasuryInv, TurnInv, TotalsKnown, TurnReserves, RequestsKnown
      <3> QED BY <3>1, <3>2, <3>3
    <2>3. balance \in Nat /\ reserve \in Nat /\ ledger \subseteq Requests /\ orphans \subseteq Requests
      BY DEF TreasuryInv, MoneyInv, RequestsKnown
    <2> QED BY <2>1, <2>2, <2>3 DEF TypeOK
  <1> QED BY <1>1, TreasuryInvariant, PTL

(* treasury_disburse takes amount and fee from the reserve once for every  *)
(* disbursement that may have been paid, and gives them back exactly once  *)
(* for one that is forgotten.                                              *)
THEOREM ReserveDebitedOnceAlways == Spec => []ReserveDebitedOnce
  <1>1. TreasuryInv => ReserveDebitedOnce
    <2> SUFFICES ASSUME TreasuryInv PROVE ReserveDebitedOnce
      OBVIOUS
    <2>1. reserve = Opening + Worth(earned) - Debits(Held)
      BY DEF TreasuryInv, MoneyInv, ReserveExact
    <2>2. ASSUME NEW p \in Proposals, Paid(p) PROVE DebitHeld(p) \/ tomb[p] = "NotExecuted"
      <3>1. \/ tomb[p] # None
            \/ rec[p] # None /\ rec[p].status # "PendingValidation"
        BY <2>2 DEF Paid, TreasuryInv, PaidInv, SentIsKnown, Sent
      <3>2. CASE tomb[p] # None
        <4>1. tomb[p] = "Executed" \/ tomb[p] = "NotExecuted"
          BY <3>2 DEF TreasuryInv, Types, Verdicts
        <4> QED BY <4>1 DEF TreasuryInv, PoolInv, TombInv, DebitHeld
      <3>3. CASE rec[p] # None /\ rec[p].status # "PendingValidation"
        <4>1. rec[p] \in Disbursements
          BY <3>3 DEF TreasuryInv, Types
        <4> QED BY <3>3, <4>1 DEF Disbursements, DebitHeld, Status
      <3> QED BY <3>1, <3>2, <3>3
    <2> QED BY <2>1, <2>2 DEF ReserveDebitedOnce
  <1> QED BY <1>1, TreasuryInvariant, PTL

(* As long as no operator had to decide, the bucket in the treasury and    *)
(* the reserve in the pool differ by exactly what is on its way.           *)
THEOREM MirrorExactAlways == Spec => []MirrorExact
  <1>1. TreasuryInv => MirrorExact
    BY DEF TreasuryInv, MoneyInv
  <1> QED BY <1>1, TreasuryInvariant, PTL
=============================================================================
