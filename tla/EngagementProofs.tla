-------------------------- MODULE EngagementProofs --------------------------
(***************************************************************************)
(* Proofs about Engagement: a contract that escrow and disputes share, for *)
(* any milestones, coupons, requests, deliveries and disputes, and whether *)
(* or not requests fail and admins refund.                                 *)
(***************************************************************************)
EXTENDS Engagement, TLAPS

-----------------------------------------------------------------------------
(* Escrow and disputes over one contract                                   *)

Contracts == [status : D!ContractStatuses, completedAt : BOOLEAN]

(* Completed and yet open is impossible, now and when a request that has   *)
(* counted no open milestone writes the contract.                          *)
SettledInv ==
  /\ DOMAIN milestone = Milestones /\ DOMAIN req = Requests /\ contract \in Contracts
  /\ CompletedMeansSettled
  /\ \A r \in Requests :
       "at" \in DOMAIN req[r] /\ (req[r].at = "complete.update" => E!Open = {})

(* The slot a request moves to.                                            *)
Moves(r, slot) ==
  /\ req' = [req EXCEPT ![r] = slot]
  /\ "at" \in DOMAIN slot
  /\ slot.at = "complete.update" => E!Open = {}

(* No update of a milestone opens it again.                                *)
LEMMA MilestoneUpdates ==
  ASSUME DOMAIN milestone = Milestones, NEW m,
         \/ UNCHANGED milestone
         \/ E!MarkFunded(m)
         \/ milestone' = [milestone EXCEPT ![m] = "RELEASED"]
         \/ milestone' = [milestone EXCEPT ![m] = "REFUNDED"]
  PROVE  DOMAIN milestone' = Milestones /\ E!Open' \subseteq E!Open
  BY DEF E!MarkFunded, E!Open

(* Only the count of maybeCompleteContract goes on to its update.          *)
LEMMA SlotMoves ==
  ASSUME SettledInv, NEW r \in Requests, E!RequestStep(r)
  PROVE  \E slot : Moves(r, slot)
<1>0. DOMAIN req = Requests /\ "at" \in DOMAIN req[r]
  BY DEF SettledInv
<1>1. ASSUME NEW at, E!Goto(r, at), at = "complete.update" => E!Open = {}
      PROVE  \E slot : Moves(r, slot)
  <2>1. [req[r] EXCEPT !.at = at].at = at /\ "at" \in DOMAIN [req[r] EXCEPT !.at = at]
    BY <1>0
  <2>2. req' = [req EXCEPT ![r] = [req[r] EXCEPT !.at = at]]
    BY <1>0, <1>1 DEF E!Goto
  <2>. QED
    BY <1>1, <2>1, <2>2 DEF Moves
<1>2. ASSUME E!Return(r) PROVE \E slot : Moves(r, slot)
  <2>1. Moves(r, E!Idle)
    BY <1>2 DEF Moves, E!Return, E!Idle
  <2>. QED
    BY <2>1
<1>3. ASSUME NEW at, NEW key, NEW m, NEW code, E!Start(r, at, key, m, code),
             at # "complete.update"
      PROVE  \E slot : Moves(r, slot)
  <2>1. Moves(r, [at |-> at, key |-> key, m |-> m, code |-> code, reply |-> "none"])
    BY <1>3 DEF Moves, E!Start
  <2>. QED
    BY <2>1
<1>4. ASSUME NEW at \in {"fund.tx", "refund.stripe"}, NEW field \in {"reply", "code"},
             NEW value,
             req' = [req EXCEPT ![r] = [[req[r] EXCEPT !.at = at] EXCEPT ![field] = value]]
      PROVE  \E slot : Moves(r, slot)
  <2>. DEFINE slot == [[req[r] EXCEPT !.at = at] EXCEPT ![field] = value]
  <2>1. "at" \in DOMAIN slot /\ slot.at = at
    BY <1>0
  <2>2. Moves(r, slot)
    BY <1>4, <2>1 DEF Moves
  <2>. QED
    BY <2>2
<1>5. CASE (\E s \in E!StripePiStatuses : E!FundCharge(r, s)) \/ E!FundReplay(r)
  <2>1. PICK value :
          req' = [req EXCEPT ![r] = [[req[r] EXCEPT !.at = "fund.tx"] EXCEPT !["reply"] = value]]
    BY <1>0, <1>5 DEF E!FundCharge, E!FundReplay
  <2>. QED
    BY <1>4, <2>1
<1>6. CASE \E code \in E!Codes : E!RefundPick(r, code)
  <2>1. PICK value :
          req' = [req EXCEPT ![r] = [[req[r] EXCEPT !.at = "refund.stripe"] EXCEPT !["code"] = value]]
    BY <1>0, <1>6 DEF E!RefundPick
  <2>. QED
    BY <1>4, <2>1
<1>7. CASE \/ \E m \in Milestones, code \in E!Codes : E!FundStart(r, m, code)
           \/ \E m \in Milestones : E!ReleaseStart(r, m)
           \/ \E m \in Milestones, key \in E!RefundKeys : E!RefundStart(r, m, key)
  BY <1>3, <1>7 DEF E!FundStart, E!ReleaseStart, E!RefundStart
<1>8. CASE \/ E!FundTx(r) \/ E!FundTxRollback(r) \/ E!FundMark(r) \/ E!ReleaseTransfer(r)
           \/ E!ReleaseTx(r) \/ E!ReleaseTxConflict(r) \/ E!RefundNoPi(r)
           \/ E!RefundStripe(r) \/ E!RefundRejected(r) \/ E!RefundTx(r)
           \/ E!CompleteCount(r) \/ E!CompleteUpdate(r) \/ E!RequestFails(r)
  BY <1>1, <1>2, <1>8
  DEF E!FundTx, E!FundTxRollback, E!FundMark, E!ReleaseTransfer, E!ReleaseTx,
      E!ReleaseTxConflict, E!RefundNoPi, E!RefundStripe, E!RefundRejected, E!RefundTx,
      E!CompleteCount, E!CompleteUpdate, E!RequestFails
<1>. QED
  BY <1>5, <1>6, <1>7, <1>8 DEF E!RequestStep

(* Milestones stay settled, and the contract is completed by requests that *)
(* counted, if it is ACTIVE.                                               *)
EscrowMoves ==
  /\ DOMAIN milestone' = Milestones /\ E!Open' \subseteq E!Open
  /\ \/ UNCHANGED contract
     \/ D!Complete /\ \E r \in Requests : req[r].at = "complete.update"
  /\ req' = req \/ \E r \in Requests : \E slot : Moves(r, slot)

LEMMA EscrowStep ==
  ASSUME SettledInv, E!Next, UNCHANGED disputeOnly
  PROVE  EscrowMoves
<1>0. DOMAIN milestone = Milestones
  BY DEF SettledInv
<1>1. ASSUME NEW r \in Requests, E!RequestStep(r) PROVE EscrowMoves
  <2>1. DOMAIN milestone' = Milestones /\ E!Open' \subseteq E!Open
    BY <1>0, <1>1, MilestoneUpdates
    DEF E!RequestStep, E!FundStart, E!FundCharge, E!FundReplay, E!FundTx,
        E!FundTxRollback, E!FundMark, E!ReleaseStart, E!ReleaseTransfer, E!ReleaseTx,
        E!ReleaseTxConflict, E!RefundStart, E!RefundPick, E!RefundNoPi, E!RefundStripe,
        E!RefundRejected, E!RefundTx, E!CompleteCount, E!CompleteUpdate, E!RequestFails,
        E!dbVars
  <2>2. E!CompleteUpdate(r) =>
          req[r].at = "complete.update" /\ (UNCHANGED contract \/ D!Complete)
    BY DEF E!CompleteUpdate, D!Complete, disputeOnly
  <2>3. ~ E!CompleteUpdate(r) => UNCHANGED contract
    BY <1>1
    DEF E!RequestStep, E!FundStart, E!FundCharge, E!FundReplay, E!FundTx,
        E!FundTxRollback, E!FundMark, E!ReleaseStart, E!ReleaseTransfer, E!ReleaseTx,
        E!ReleaseTxConflict, E!RefundStart, E!RefundPick, E!RefundNoPi, E!RefundStripe,
        E!RefundRejected, E!RefundTx, E!CompleteCount, E!RequestFails, E!dbVars
  <2>. QED
    BY <1>1, <2>1, <2>2, <2>3, SlotMoves DEF EscrowMoves
<1>2. CASE E!StripeStep
  BY <1>0, <1>2, MilestoneUpdates
  DEF E!StripeStep, E!PiSucceeds, E!PiDeclined, E!PiCanceled, E!dbVars, EscrowMoves
<1>3. ASSUME NEW h \in Deliveries, E!HookStep(h) PROVE EscrowMoves
  BY <1>0, <1>3, MilestoneUpdates
  DEF E!HookStep, E!HookStart, E!HookMark, E!HookFund, E!HookDone, E!HookFails, E!dbVars,
      EscrowMoves
<1>. QED
  BY <1>1, <1>2, <1>3 DEF E!Next

(* What a step of the disputes may do to the contract.                     *)
LEMMA DisputeMoves ==
  ASSUME contract \in Contracts, D!DisputeStep
  PROVE  /\ contract' \in Contracts /\ contract'.completedAt = contract.completedAt
         /\ contract'.status = "COMPLETED" =>
              contract.status = "COMPLETED" \/ contract.completedAt
<1>1. PICK c \in Calls : D!CallStep(c)
  BY DEF D!DisputeStep
<1>2. \/ UNCHANGED contract
      \/ contract' = [contract EXCEPT !.status = "DISPUTED"]
      \/ \E disp : D!RestoreContract(disp)
  BY <1>1 DEF D!CallStep, D!RaiseRead, D!RaiseCheck, D!RaiseTx, D!RaiseConflict,
     D!WithdrawRead, D!WithdrawTx, D!AdminRead, D!AdminTx, D!UpdateRefused
<1>. QED
  BY <1>2 DEF D!RestoreContract, Contracts, D!ContractStatuses

LEMMA SettledKept == SettledInv /\ [Next]_vars => SettledInv'
<1>. SUFFICES ASSUME SettledInv, [Next]_vars PROVE SettledInv'
  OBVIOUS
<1>1. CASE E!Next /\ UNCHANGED disputeOnly
  <2>1. EscrowMoves
    BY <1>1, EscrowStep
  <2>2. \A r \in Requests :
          /\ "at" \in DOMAIN req'[r]
          /\ req'[r].at = "complete.update" => E!Open = {}
    BY <2>1 DEF EscrowMoves, Moves, SettledInv
  <2>3. contract' \in Contracts /\ DOMAIN req' = Requests
    <3>1. [status |-> "COMPLETED", completedAt |-> TRUE] \in Contracts
      BY DEF Contracts, D!ContractStatuses
    <3>2. contract' \in Contracts
      BY <2>1, <3>1 DEF EscrowMoves, SettledInv, D!Complete
    <3>3. DOMAIN req' = Requests
      BY <2>1 DEF EscrowMoves, Moves, SettledInv
    <3>. QED
      BY <3>2, <3>3
  <2>4. CompletedMeansSettled'
    <3>1. contract'.status = "COMPLETED" \/ contract'.completedAt => E!Open = {}
      BY <2>1 DEF EscrowMoves, SettledInv, CompletedMeansSettled
    <3>. QED
      BY <2>1, <3>1 DEF EscrowMoves, CompletedMeansSettled
  <2>. QED
    BY <2>1, <2>2, <2>3, <2>4 DEF EscrowMoves, SettledInv
<1>2. CASE D!DisputeStep /\ UNCHANGED escrowOnly
  <2>1. milestone' = milestone /\ req' = req /\ E!Open' = E!Open
    BY <1>2 DEF escrowOnly, E!Open
  <2>. QED
    BY <1>2, <2>1, DisputeMoves DEF SettledInv, CompletedMeansSettled
<1>3. CASE UNCHANGED vars
  BY <1>3 DEF vars, SettledInv, CompletedMeansSettled, E!Open
<1>. QED
  BY <1>1, <1>2, <1>3 DEF Next

LEMMA SettledFirst == Init => SettledInv
  BY DEF Init, E!Init, SettledInv, CompletedMeansSettled, Contracts, D!ContractStatuses,
     E!Idle

(* A contract that completed, or that the end of a dispute gives back as   *)
(* COMPLETED, has no open milestone, wherever maybeCompleteContract of the *)
(* payments and raise, withdraw and adminUpdate of the disputes meet.      *)
THEOREM CompletedStaysSettled == Spec => []CompletedMeansSettled
<1>1. SettledInv => CompletedMeansSettled
  BY DEF SettledInv
<1>. QED
  BY <1>1, SettledFirst, SettledKept, PTL DEF Spec

(* Each step of payments or disputes is a step of Disputes or leaves the   *)
(* contract and its disputes alone: beside disputes, the payments complete *)
(* an ACTIVE contract and do nothing else to it.                           *)
THEOREM DisputesImplemented == Spec => ImplementsDisputes
<1>1. Init => D!Init
  BY DEF Init
<1>2. SettledInv /\ [Next]_vars => [D!Next]_D!vars
  <2>. SUFFICES ASSUME SettledInv, [Next]_vars PROVE D!Next \/ UNCHANGED D!vars
    OBVIOUS
  <2>1. CASE E!Next /\ UNCHANGED disputeOnly
    BY <2>1, EscrowStep DEF EscrowMoves, disputeOnly, D!Next, D!vars
  <2>2. CASE D!DisputeStep
    BY <2>2 DEF D!Next
  <2>3. CASE UNCHANGED vars
    BY <2>3 DEF vars, D!vars
  <2>. QED
    BY <2>1, <2>2, <2>3 DEF Next
<1>. QED
  BY <1>1, <1>2, SettledFirst, SettledKept, PTL DEF Spec, D!Spec, ImplementsDisputes
=============================================================================
