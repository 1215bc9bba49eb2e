---------------------------- MODULE EscrowProofs ----------------------------
(***************************************************************************)
(* Proofs about Escrow, for any sets of milestones, coupons and slots, and *)
(* whether or not requests fail and admins refund.                         *)
(***************************************************************************)
EXTENDS EscrowHistory, FiniteSetTheorems, TLAPS

(* What a request knows at each step, and keeps knowing until it returns.  *)
ReqKnows(r) ==
  LET m == req[r].m  code == req[r].code  at == req[r].at IN
  /\ at \in {"fund.tx", "fund.mark"} =>
       /\ req[r].reply \in StripePiStatuses
       /\ req[r].reply = "succeeded" => stripePi[<<m, code>>] = "succeeded"
  /\ at = "fund.mark" => req[r].reply = "succeeded"
  /\ at \in {"release.transfer", "release.tx"} => milestone[m] # "PENDING"
  /\ at = "release.tx" => m \in transfers
  /\ at \in {"refund.pick", "refund.stripe", "refund.tx"} =>
       req[r].key \in RefundKeys /\ milestone[m] # "PENDING"
  /\ at \in {"refund.stripe", "refund.tx"} => stripePi[<<m, code>>] = "succeeded"
  /\ at = "refund.tx" => Returned(m, code)
  /\ at = "complete.update" => Open = {}

(* What a webhook delivery knows at each step.                             *)
HookKnows(h) ==
  LET e == hook[h].e IN
  /\ hook[h] # Idle => e \in events
  /\ hook[h].at = "hook.fund" => e.type = "succeeded"
  /\ hook[h].at = "hook.done" /\ e.type = "succeeded" => milestone[e.m] # "PENDING"

(* What Stripe says is true of Stripe: a replayed "succeeded" and a        *)
(* "succeeded" event are both about a PI that was charged.                 *)
StripeTellsTheTruth ==
  /\ \A pi \in PIs :
       /\ stripePi[pi] # "absent" => firstReply[pi] # "absent"
       /\ firstReply[pi] = "succeeded" => stripePi[pi] = "succeeded"
  /\ \A e \in events : e.type = "succeeded" => stripePi[<<e.m, e.code>>] = "succeeded"

IInv ==
  /\ TypeOK
  /\ MoneyOutNeedsMoneyIn
  /\ StatusBackedByStripe
  /\ SucceededRowIsCharged
  /\ AcknowledgedMeansFunded
  /\ CompletedMeansSettled
  /\ StripeTellsTheTruth
  /\ \A r \in Requests : ReqKnows(r)
  /\ \A h \in Deliveries : HookKnows(h)

(* What no step ever takes back.                                           *)
Kept ==
  /\ \A m \in Milestones : milestone[m] # "PENDING" => milestone'[m] # "PENDING"
  /\ \A pi \in PIs : stripePi[pi] = "succeeded" => stripePi'[pi] = "succeeded"
  /\ transfers \subseteq transfers'
  /\ refunds \subseteq refunds'
  /\ events \subseteq events'
  /\ Open' \subseteq Open

-----------------------------------------------------------------------------
(* A slot that is not idle holds a handler, and a busy one a delivery.      *)
LEMMA BusySlot ==
  ASSUME TypeOK
  PROVE  /\ \A r \in Requests : req[r].at # "idle" => req[r] \in Handlers
         /\ \A h \in Deliveries : hook[h].at # "idle" => hook[h] \in Hooks
  BY DEF TypeOK, Idle

(* A request that does not move keeps what it knows.                       *)
LEMMA OtherRequests ==
  ASSUME IInv, Kept, NEW s \in Requests, req'[s] = req[s]
  PROVE  ReqKnows(s)'
<1>1. ReqKnows(s)
  BY DEF IInv
<1>2. CASE req[s].at = "idle"
  BY <1>2 DEF ReqKnows
<1>3. CASE req[s].at # "idle"
  <2>1. req[s] \in Handlers
    BY <1>3, BusySlot DEF IInv
  <2>2. req[s].m \in Milestones /\ <<req[s].m, req[s].code>> \in PIs
    BY <2>1 DEF Handlers, PIs
  <2>. QED
    BY <1>1, <2>2 DEF ReqKnows, Kept, Returned
<1>. QED
  BY <1>2, <1>3

(* A delivery that does not move keeps what it knows.                      *)
LEMMA OtherDeliveries ==
  ASSUME IInv, Kept, NEW h \in Deliveries, hook'[h] = hook[h]
  PROVE  HookKnows(h)'
<1>1. HookKnows(h)
  BY DEF IInv
<1>2. CASE hook[h] = Idle
  BY <1>2 DEF HookKnows, Idle
<1>3. CASE hook[h] # Idle
  <2>1. hook[h].e \in Events /\ hook[h].e.m \in Milestones
    BY <1>3 DEF IInv, TypeOK, Hooks, Events
  <2>. QED
    BY <1>1, <2>1 DEF HookKnows, Kept
<1>. QED
  BY <1>2, <1>3

-----------------------------------------------------------------------------
(* A step that only moves a request, to a place where it knows enough.      *)
LEMMA RequestMoves ==
  ASSUME IInv, NEW r \in Requests, UNCHANGED <<dbVars, stripeVars, hook>>,
         NEW new \in Handlers \cup {Idle}, req' = [req EXCEPT ![r] = new],
         ReqKnows(r)'
  PROVE  IInv'
<1>1. Kept
  BY DEF Kept, dbVars, stripeVars, Open
<1>2. TypeOK'
  BY DEF IInv, TypeOK, dbVars, stripeVars
<1>3. \A s \in Requests : ReqKnows(s)'
  <2>1. \A s \in Requests : s # r => req'[s] = req[s]
    BY DEF IInv, TypeOK
  <2>. QED
    BY <1>1, <2>1, OtherRequests
<1>4. \A h \in Deliveries : HookKnows(h)'
  BY <1>1, OtherDeliveries
<1>5. (MoneyOutNeedsMoneyIn /\ StatusBackedByStripe /\ SucceededRowIsCharged)'
  BY DEF IInv, MoneyOutNeedsMoneyIn, StatusBackedByStripe, SucceededRowIsCharged,
         Charged, Returned, dbVars, stripeVars
<1>6. (AcknowledgedMeansFunded /\ CompletedMeansSettled /\ StripeTellsTheTruth)'
  BY DEF IInv, AcknowledgedMeansFunded, CompletedMeansSettled, Open,
         StripeTellsTheTruth, dbVars, stripeVars
<1>. QED
  BY <1>2, <1>3, <1>4, <1>5, <1>6 DEF IInv

(* fundMilestone: the transaction.                                         *)
LEMMA FundTxKeeps ==
  ASSUME IInv, NEW r \in Requests, FundTx(r)
  PROVE  IInv'
<1>. DEFINE m == req[r].m
            code == req[r].code
<1>1. req[r] \in Handlers /\ m \in Milestones /\ code \in Codes /\ <<m, code>> \in PIs
  BY BusySlot DEF IInv, FundTx, Handlers, PIs
<1>2. req[r].reply \in StripePiStatuses
  BY DEF IInv, FundTx, ReqKnows
<1>3. mapStripePiStatus[req[r].reply] \in PiRowStatuses
  BY <1>2 DEF StripePiStatuses, mapStripePiStatus, PiRowStatuses
<1>4. TypeOK'
  <2>1. req' \in [Requests -> Handlers \cup {Idle}]
    BY <1>1 DEF IInv, TypeOK, FundTx, Goto, Return, Handlers, Labels
  <2>2. piRow' \in [PIs -> PiRowStatuses \cup {"none"}]
    BY <1>1, <1>3 DEF IInv, TypeOK, FundTx, UpsertPi
  <2>3. piCreated' \in [PIs -> Nat] /\ clock' \in Nat
    <3>1. CASE piRow[<<m, code>>] = "none"
      BY <1>1, <3>1 DEF IInv, TypeOK, FundTx, UpsertPi
    <3>2. CASE piRow[<<m, code>>] # "none"
      BY <1>1, <3>2 DEF IInv, TypeOK, FundTx, UpsertPi
    <3>. QED
      BY <3>1, <3>2
  <2>4. redemption' \in [Milestones -> Codes]
    BY <1>1 DEF IInv, TypeOK, FundTx, ApplyCoupon
  <2>. QED
    BY <2>1, <2>2, <2>3, <2>4 DEF IInv, TypeOK, FundTx, stripeVars
<1>5. Kept
  BY DEF Kept, FundTx, stripeVars, Open
<1>6. ReqKnows(r)'
  <2>1. CASE req[r].reply = "succeeded"
    <3>1. req'[r] = [req[r] EXCEPT !.at = "fund.mark"]
      BY <2>1 DEF IInv, TypeOK, FundTx, Goto
    <3>2. stripePi'[<<m, code>>] = "succeeded"
      BY <2>1 DEF IInv, FundTx, ReqKnows, stripeVars
    <3>. QED
      BY <1>1, <1>2, <2>1, <3>1, <3>2 DEF ReqKnows, Handlers
  <2>2. CASE req[r].reply # "succeeded"
    <3>1. req'[r] = Idle
      BY <2>2 DEF IInv, TypeOK, FundTx, Return
    <3>. QED
      BY <3>1 DEF ReqKnows, Idle
  <2>. QED
    BY <2>1, <2>2
<1>7. \A s \in Requests : ReqKnows(s)'
  <2>1. \A s \in Requests : s # r => req'[s] = req[s]
    BY DEF IInv, TypeOK, FundTx, Goto, Return
  <2>. QED
    BY <1>5, <1>6, <2>1, OtherRequests
<1>8. \A h \in Deliveries : HookKnows(h)'
  BY <1>5, OtherDeliveries DEF FundTx
<1>9. SucceededRowIsCharged'
  <2>1. mapStripePiStatus[req[r].reply] = "SUCCEEDED" => req[r].reply = "succeeded"
    BY <1>2 DEF StripePiStatuses, mapStripePiStatus
  <2>2. req[r].reply = "succeeded" => stripePi[<<m, code>>] = "succeeded"
    BY DEF IInv, FundTx, ReqKnows
  <2>. QED
    BY <1>1, <2>1, <2>2 DEF IInv, TypeOK, SucceededRowIsCharged, FundTx, UpsertPi, stripeVars
<1>10. (MoneyOutNeedsMoneyIn /\ StatusBackedByStripe)'
  BY DEF IInv, FundTx, MoneyOutNeedsMoneyIn, StatusBackedByStripe, Charged,
         Returned, stripeVars
<1>11. (AcknowledgedMeansFunded /\ CompletedMeansSettled /\ StripeTellsTheTruth)'
  BY DEF IInv, FundTx, AcknowledgedMeansFunded, CompletedMeansSettled, Open,
         StripeTellsTheTruth, stripeVars
<1>. QED
  BY <1>4, <1>7, <1>8, <1>9, <1>10, <1>11 DEF IInv

(* fundMilestone: Stripe creates the PI.                                   *)
LEMMA FundChargeKeeps ==
  ASSUME IInv, NEW r \in Requests, NEW st \in StripePiStatuses, FundCharge(r, st)
  PROVE  IInv'
<1>. DEFINE m == req[r].m
            code == req[r].code
            e == [type |-> "succeeded", m |-> m, code |-> code]
<1>1. req[r] \in Handlers /\ m \in Milestones /\ code \in Codes /\ <<m, code>> \in PIs
  BY BusySlot DEF IInv, FundCharge, Handlers, PIs
<1>2. /\ stripePi'   = [stripePi EXCEPT ![<<m, code>>] = st]
      /\ firstReply' = [firstReply EXCEPT ![<<m, code>>] = st]
      /\ stripePi[<<m, code>>] = "absent"
      /\ st # "absent"
  BY DEF FundCharge, StripePiStatuses
<1>3. events' = events \/ (events' = events \cup {e} /\ st = "succeeded")
  BY DEF FundCharge, Emit
<1>4. e \in Events
  BY <1>1 DEF Events, EventStatus
<1>5. TypeOK'
  <2>1. req' \in [Requests -> Handlers \cup {Idle}]
    BY <1>1 DEF IInv, TypeOK, FundCharge, Handlers, Labels
  <2>2. events' \subseteq Events
    BY <1>3, <1>4 DEF IInv, TypeOK
  <2>3. /\ stripePi' \in [PIs -> StripePiStatuses \cup {"absent"}]
        /\ firstReply' \in [PIs -> StripePiStatuses \cup {"absent"}]
    BY <1>1, <1>2 DEF IInv, TypeOK
  <2>. QED
    BY <2>1, <2>2, <2>3 DEF IInv, TypeOK, FundCharge, dbVars
<1>6. Kept
  BY <1>2, <1>3 DEF IInv, TypeOK, Kept, FundCharge, dbVars, Open
<1>7. ReqKnows(r)'
  <2>1. req'[r] = [req[r] EXCEPT !.at = "fund.tx", !.reply = st]
    BY DEF IInv, TypeOK, FundCharge
  <2>. QED
    BY <1>1, <1>2, <2>1 DEF IInv, TypeOK, ReqKnows, Handlers
<1>8. \A s \in Requests : ReqKnows(s)'
  <2>1. \A s \in Requests : s # r => req'[s] = req[s]
    BY DEF IInv, TypeOK, FundCharge
  <2>. QED
    BY <1>6, <1>7, <2>1, OtherRequests
<1>9. \A h \in Deliveries : HookKnows(h)'
  BY <1>6, OtherDeliveries DEF FundCharge
<1>10. StripeTellsTheTruth'
  <2>1. \A pi \in PIs :
          /\ stripePi'[pi] # "absent" => firstReply'[pi] # "absent"
          /\ firstReply'[pi] = "succeeded" => stripePi'[pi] = "succeeded"
    BY <1>1, <1>2 DEF IInv, TypeOK, StripeTellsTheTruth
  <2>2. ASSUME NEW x \in events', x.type = "succeeded"
        PROVE  stripePi'[<<x.m, x.code>>] = "succeeded"
    <3>1. CASE x \in events
      <4>1. <<x.m, x.code>> \in PIs
        BY <3>1 DEF IInv, TypeOK, Events, PIs
      <4>2. stripePi[<<x.m, x.code>>] = "succeeded"
        BY <2>2, <3>1 DEF IInv, StripeTellsTheTruth
      <4>. QED
        BY <1>6, <4>1, <4>2 DEF Kept
    <3>2. CASE x = e /\ st = "succeeded"
      BY <1>1, <1>2, <3>2 DEF IInv, TypeOK
    <3>. QED
      BY <1>3, <3>1, <3>2
  <2>. QED
    BY <2>1, <2>2 DEF StripeTellsTheTruth
<1>11. (MoneyOutNeedsMoneyIn /\ SucceededRowIsCharged)'
  <2>1. \A n \in Milestones : Charged(n) => Charged(n)'
    BY <1>6 DEF Charged, Kept, PIs
  <2>2. \A x \in refunds : <<x.m, x.code>> \in PIs
    BY DEF IInv, TypeOK, Refunds, PIs
  <2>. QED
    BY <1>6, <2>1, <2>2
    DEF IInv, TypeOK, FundCharge, MoneyOutNeedsMoneyIn, SucceededRowIsCharged, Kept,
        dbVars
<1>12. (StatusBackedByStripe /\ AcknowledgedMeansFunded /\ CompletedMeansSettled)'
  BY DEF IInv, FundCharge, StatusBackedByStripe, AcknowledgedMeansFunded,
         CompletedMeansSettled, Open, Returned, dbVars
<1>. QED
  BY <1>5, <1>8, <1>9, <1>10, <1>11, <1>12 DEF IInv

(* A milestone is marked FUNDED only when it was charged.                  *)
LEMMA MarkFundedKeeps ==
  ASSUME IInv, NEW n \in Milestones, Charged(n), MarkFunded(n),
         UNCHANGED <<piRow, piCreated, clock, redemption, payout, contract,
                     stripeVars>>
  PROVE  /\ milestone' \in [Milestones -> MilestoneStatuses]
         /\ milestone'[n] # "PENDING"
         /\ Kept
         /\ (MoneyOutNeedsMoneyIn /\ StatusBackedByStripe /\ SucceededRowIsCharged)'
         /\ (CompletedMeansSettled /\ StripeTellsTheTruth)'
<1>1. milestone' \in [Milestones -> MilestoneStatuses]
  BY DEF IInv, TypeOK, MarkFunded, MilestoneStatuses
<1>2. /\ milestone'[n] = IF milestone[n] = "PENDING" THEN "FUNDED" ELSE milestone[n]
      /\ \A m \in Milestones : m # n => milestone'[m] = milestone[m]
  BY DEF IInv, TypeOK, MarkFunded
<1>3. Open' = Open
  BY <1>2 DEF Open
<1>4. Kept
  BY <1>2, <1>3 DEF Kept, stripeVars
<1>5. MoneyOutNeedsMoneyIn'
  BY <1>2 DEF IInv, MoneyOutNeedsMoneyIn, Charged, stripeVars
<1>6. (StatusBackedByStripe /\ SucceededRowIsCharged)'
  BY <1>2 DEF IInv, StatusBackedByStripe, SucceededRowIsCharged, Returned, stripeVars
<1>7. (CompletedMeansSettled /\ StripeTellsTheTruth)'
  BY <1>3 DEF IInv, CompletedMeansSettled, StripeTellsTheTruth, stripeVars
<1>. QED
  BY <1>1, <1>2, <1>4, <1>5, <1>6, <1>7

(* fundMilestone: the synchronous success path.                            *)
LEMMA FundMarkKeeps ==
  ASSUME IInv, NEW r \in Requests, FundMark(r)
  PROVE  IInv'
<1>. DEFINE m == req[r].m
            code == req[r].code
<1>1. req[r] \in Handlers /\ m \in Milestones /\ code \in Codes
  BY BusySlot DEF IInv, FundMark, Handlers
<1>2. Charged(m)
  BY <1>1 DEF IInv, FundMark, ReqKnows, Charged
<1>3. /\ milestone' \in [Milestones -> MilestoneStatuses]
      /\ Kept
      /\ (MoneyOutNeedsMoneyIn /\ StatusBackedByStripe /\ SucceededRowIsCharged)'
      /\ (CompletedMeansSettled /\ StripeTellsTheTruth)'
  BY <1>1, <1>2, MarkFundedKeeps DEF FundMark
<1>4. TypeOK'
  BY <1>3 DEF IInv, TypeOK, FundMark, Return, stripeVars
<1>5. ReqKnows(r)'
  <2>1. req'[r] = Idle
    BY DEF IInv, TypeOK, FundMark, Return
  <2>. QED
    BY <2>1 DEF ReqKnows, Idle
<1>6. \A s \in Requests : ReqKnows(s)'
  <2>1. \A s \in Requests : s # r => req'[s] = req[s]
    BY DEF IInv, TypeOK, FundMark, Return
  <2>. QED
    BY <1>3, <1>5, <2>1, OtherRequests
<1>7. \A h \in Deliveries : HookKnows(h)'
  BY <1>3, OtherDeliveries DEF FundMark
<1>8. AcknowledgedMeansFunded'
  BY <1>3 DEF IInv, TypeOK, FundMark, AcknowledgedMeansFunded, Kept, Events
<1>. QED
  BY <1>3, <1>4, <1>6, <1>7, <1>8 DEF IInv

-----------------------------------------------------------------------------
(* releaseMilestone: the transfer.                                         *)
LEMMA ReleaseTransferKeeps ==
  ASSUME IInv, NEW r \in Requests, ReleaseTransfer(r)
  PROVE  IInv'
<1>. DEFINE m == req[r].m
<1>1. req[r] \in Handlers /\ m \in Milestones
  BY BusySlot DEF IInv, ReleaseTransfer, Handlers
<1>2. milestone[m] # "PENDING" /\ Charged(m)
  BY <1>1 DEF IInv, ReleaseTransfer, ReqKnows, MoneyOutNeedsMoneyIn
<1>3. TypeOK'
  BY <1>1 DEF IInv, TypeOK, ReleaseTransfer, Goto, Handlers, Labels, dbVars
<1>4. Kept
  BY DEF Kept, ReleaseTransfer, dbVars, Open
<1>5. ReqKnows(r)'
  <2>1. req'[r] = [req[r] EXCEPT !.at = "release.tx"]
    BY DEF IInv, TypeOK, ReleaseTransfer, Goto
  <2>. QED
    BY <1>1, <1>2, <2>1 DEF ReqKnows, ReleaseTransfer, Handlers, dbVars
<1>6. \A s \in Requests : ReqKnows(s)'
  <2>1. \A s \in Requests : s # r => req'[s] = req[s]
    BY DEF IInv, TypeOK, ReleaseTransfer, Goto
  <2>. QED
    BY <1>4, <1>5, <2>1, OtherRequests
<1>7. \A h \in Deliveries : HookKnows(h)'
  BY <1>4, OtherDeliveries DEF ReleaseTransfer
<1>8. (MoneyOutNeedsMoneyIn /\ StatusBackedByStripe)'
  BY <1>2 DEF IInv, ReleaseTransfer, MoneyOutNeedsMoneyIn, StatusBackedByStripe,
              Charged, Returned, dbVars
<1>9. (SucceededRowIsCharged /\ AcknowledgedMeansFunded)'
  BY DEF IInv, ReleaseTransfer, SucceededRowIsCharged, AcknowledgedMeansFunded, dbVars
<1>10. (CompletedMeansSettled /\ StripeTellsTheTruth)'
  BY DEF IInv, ReleaseTransfer, CompletedMeansSettled, Open, StripeTellsTheTruth, dbVars
<1>. QED
  BY <1>3, <1>6, <1>7, <1>8, <1>9, <1>10 DEF IInv

(* Settling a milestone, whatever its status is by then, keeps what does   *)
(* not depend on which of RELEASED and REFUNDED it becomes.                *)
LEMMA SettleKeeps ==
  ASSUME IInv, NEW n \in Milestones, NEW st \in {"RELEASED", "REFUNDED"},
         milestone' = [milestone EXCEPT ![n] = st], Charged(n),
         UNCHANGED <<piRow, piCreated, clock, processed, contract, stripeVars>>
  PROVE  /\ milestone' \in [Milestones -> MilestoneStatuses]
         /\ Kept
         /\ (MoneyOutNeedsMoneyIn /\ SucceededRowIsCharged)'
         /\ (AcknowledgedMeansFunded /\ CompletedMeansSettled /\ StripeTellsTheTruth)'
<1>1. milestone' \in [Milestones -> MilestoneStatuses]
  BY DEF IInv, TypeOK, MilestoneStatuses
<1>2. /\ milestone'[n] = st
      /\ \A m \in Milestones : m # n => milestone'[m] = milestone[m]
  BY DEF IInv, TypeOK
<1>3. Open' \subseteq Open
  BY <1>2 DEF Open
<1>4. Kept
  BY <1>2, <1>3 DEF Kept, stripeVars
<1>5. (MoneyOutNeedsMoneyIn /\ SucceededRowIsCharged)'
  BY <1>2 DEF IInv, MoneyOutNeedsMoneyIn, SucceededRowIsCharged, Charged, stripeVars
<1>6. AcknowledgedMeansFunded'
  BY <1>4 DEF IInv, TypeOK, AcknowledgedMeansFunded, Kept, Events
<1>7. (CompletedMeansSettled /\ StripeTellsTheTruth)'
  BY <1>3 DEF IInv, CompletedMeansSettled, StripeTellsTheTruth, stripeVars
<1>. QED
  BY <1>1, <1>4, <1>5, <1>6, <1>7

(* releaseMilestone: the transaction.                                      *)
LEMMA ReleaseTxKeeps ==
  ASSUME IInv, NEW r \in Requests, ReleaseTx(r)
  PROVE  IInv'
<1>. DEFINE m == req[r].m
<1>1. req[r] \in Handlers /\ m \in Milestones
  BY BusySlot DEF IInv, ReleaseTx, Handlers
<1>2. m \in transfers /\ Charged(m)
  BY <1>1 DEF IInv, ReleaseTx, ReqKnows, MoneyOutNeedsMoneyIn
<1>3. /\ milestone' \in [Milestones -> MilestoneStatuses]
      /\ Kept
      /\ (MoneyOutNeedsMoneyIn /\ SucceededRowIsCharged)'
      /\ (AcknowledgedMeansFunded /\ CompletedMeansSettled /\ StripeTellsTheTruth)'
  BY <1>1, <1>2, SettleKeeps DEF ReleaseTx
<1>4. TypeOK'
  <2>1. req' \in [Requests -> Handlers \cup {Idle}]
    BY <1>1 DEF IInv, TypeOK, ReleaseTx, Goto, Handlers, Labels
  <2>2. payout' \in [Milestones -> {"none", "IN_TRANSIT"}]
    BY <1>1 DEF IInv, TypeOK, ReleaseTx
  <2>. QED
    BY <1>3, <2>1, <2>2 DEF IInv, TypeOK, ReleaseTx, stripeVars
<1>5. ReqKnows(r)'
  <2>1. req'[r] = [req[r] EXCEPT !.at = "complete.count"]
    BY DEF IInv, TypeOK, ReleaseTx, Goto
  <2>. QED
    BY <1>1, <2>1 DEF ReqKnows, Handlers
<1>6. \A s \in Requests : ReqKnows(s)'
  <2>1. \A s \in Requests : s # r => req'[s] = req[s]
    BY DEF IInv, TypeOK, ReleaseTx, Goto
  <2>. QED
    BY <1>3, <1>5, <2>1, OtherRequests
<1>7. \A h \in Deliveries : HookKnows(h)'
  BY <1>3, OtherDeliveries DEF ReleaseTx
<1>8. StatusBackedByStripe'
  BY <1>1, <1>2 DEF IInv, TypeOK, ReleaseTx, StatusBackedByStripe, Returned, stripeVars
<1>. QED
  BY <1>3, <1>4, <1>6, <1>7, <1>8 DEF IInv

(* refundMilestone: Stripe refunds the PI that was picked.                 *)
LEMMA RefundStripeKeeps ==
  ASSUME IInv, NEW r \in Requests, RefundStripe(r)
  PROVE  IInv'
<1>. DEFINE m == req[r].m
            code == req[r].code
            x == [key |-> req[r].key, m |-> m, code |-> code]
<1>1. req[r] \in Handlers /\ m \in Milestones /\ code \in Codes
  BY BusySlot DEF IInv, RefundStripe, Handlers
<1>2. /\ req[r].key \in RefundKeys /\ milestone[m] # "PENDING"
      /\ stripePi[<<m, code>>] = "succeeded"
  BY DEF IInv, RefundStripe, ReqKnows
<1>3. refunds' = refunds \cup {x} /\ x \in Refunds
  BY <1>1, <1>2 DEF RefundStripe, Refunds
<1>4. TypeOK'
  <2>1. req' \in [Requests -> Handlers \cup {Idle}]
    BY <1>1 DEF IInv, TypeOK, RefundStripe, Goto, Handlers, Labels
  <2>. QED
    BY <1>3, <2>1 DEF IInv, TypeOK, RefundStripe, dbVars
<1>5. Kept
  BY <1>3 DEF Kept, RefundStripe, dbVars, Open
<1>6. ReqKnows(r)'
  <2>1. req'[r] = [req[r] EXCEPT !.at = "refund.tx"]
    BY DEF IInv, TypeOK, RefundStripe, Goto
  <2>2. \E y \in refunds' : y.m = m /\ y.code = code
    BY <1>3
  <2>. QED
    BY <1>1, <1>2, <2>1, <2>2 DEF ReqKnows, RefundStripe, Returned, Handlers, dbVars
<1>7. \A s \in Requests : ReqKnows(s)'
  <2>1. \A s \in Requests : s # r => req'[s] = req[s]
    BY DEF IInv, TypeOK, RefundStripe, Goto
  <2>. QED
    BY <1>5, <1>6, <2>1, OtherRequests
<1>8. \A h \in Deliveries : HookKnows(h)'
  BY <1>5, OtherDeliveries DEF RefundStripe
<1>9. MoneyOutNeedsMoneyIn'
  BY <1>2, <1>3 DEF IInv, RefundStripe, MoneyOutNeedsMoneyIn, Charged, dbVars
<1>10. StatusBackedByStripe'
  BY <1>3 DEF IInv, RefundStripe, StatusBackedByStripe, Returned, dbVars
<1>11. (SucceededRowIsCharged /\ AcknowledgedMeansFunded)'
  BY DEF IInv, RefundStripe, SucceededRowIsCharged, AcknowledgedMeansFunded, dbVars
<1>12. (CompletedMeansSettled /\ StripeTellsTheTruth)'
  BY DEF IInv, RefundStripe, CompletedMeansSettled, Open, StripeTellsTheTruth, dbVars
<1>. QED
  BY <1>4, <1>7, <1>8, <1>9, <1>10, <1>11, <1>12 DEF IInv

(* refundMilestone: the transaction.                                       *)
LEMMA RefundTxKeeps ==
  ASSUME IInv, NEW r \in Requests, RefundTx(r)
  PROVE  IInv'
<1>. DEFINE m == req[r].m
            code == req[r].code
<1>1. req[r] \in Handlers /\ m \in Milestones /\ code \in Codes
  BY BusySlot DEF IInv, RefundTx, Handlers
<1>2. Returned(m, code) /\ stripePi[<<m, code>>] = "succeeded"
  BY DEF IInv, RefundTx, ReqKnows
<1>3. Charged(m)
  BY <1>1, <1>2 DEF Charged
<1>4. /\ milestone' \in [Milestones -> MilestoneStatuses]
      /\ Kept
      /\ (MoneyOutNeedsMoneyIn /\ SucceededRowIsCharged)'
      /\ (AcknowledgedMeansFunded /\ CompletedMeansSettled /\ StripeTellsTheTruth)'
  BY <1>1, <1>3, SettleKeeps DEF RefundTx
<1>5. TypeOK'
  <2>1. req' \in [Requests -> Handlers \cup {Idle}]
    BY <1>1 DEF IInv, TypeOK, RefundTx, Goto, Return, Handlers, Labels
  <2>2. redemption' \in [Milestones -> Codes]
    BY <1>1 DEF IInv, TypeOK, RefundTx, Codes
  <2>. QED
    BY <1>4, <2>1, <2>2 DEF IInv, TypeOK, RefundTx, stripeVars
<1>6. ReqKnows(r)'
  <2>1. req'[r] = Idle \/ req'[r] = [req[r] EXCEPT !.at = "complete.count"]
    BY DEF IInv, TypeOK, RefundTx, Goto, Return
  <2>. QED
    BY <1>1, <2>1 DEF ReqKnows, Handlers, Idle
<1>7. \A s \in Requests : ReqKnows(s)'
  <2>1. \A s \in Requests : s # r => req'[s] = req[s]
    BY DEF IInv, TypeOK, RefundTx, Goto, Return
  <2>. QED
    BY <1>4, <1>6, <2>1, OtherRequests
<1>8. \A h \in Deliveries : HookKnows(h)'
  BY <1>4, OtherDeliveries DEF RefundTx
<1>9. StatusBackedByStripe'
  BY <1>1, <1>2 DEF IInv, TypeOK, RefundTx, StatusBackedByStripe, Returned, stripeVars
<1>. QED
  BY <1>4, <1>5, <1>7, <1>8, <1>9 DEF IInv

(* maybeCompleteContract: the update after a count of zero.                *)
LEMMA CompleteUpdateKeeps ==
  ASSUME IInv, NEW r \in Requests, CompleteUpdate(r)
  PROVE  IInv'
<1>1. Open = {}
  BY DEF IInv, CompleteUpdate, ReqKnows
<1>2. TypeOK'
  <2>1. contract' \in [status : {"ACTIVE", "COMPLETED", "DISPUTED"},
                       completedAt : BOOLEAN]
    BY DEF IInv, TypeOK, CompleteUpdate
  <2>. QED
    BY <2>1 DEF IInv, TypeOK, CompleteUpdate, Return, stripeVars
<1>3. Kept
  BY DEF Kept, CompleteUpdate, stripeVars, Open
<1>4. ReqKnows(r)'
  <2>1. req'[r] = Idle
    BY DEF IInv, TypeOK, CompleteUpdate, Return
  <2>. QED
    BY <2>1 DEF ReqKnows, Idle
<1>5. \A s \in Requests : ReqKnows(s)'
  <2>1. \A s \in Requests : s # r => req'[s] = req[s]
    BY DEF IInv, TypeOK, CompleteUpdate, Return
  <2>. QED
    BY <1>3, <1>4, <2>1, OtherRequests
<1>6. \A h \in Deliveries : HookKnows(h)'
  BY <1>3, OtherDeliveries DEF CompleteUpdate
<1>7. CompletedMeansSettled'
  BY <1>1 DEF CompletedMeansSettled, CompleteUpdate, Open
<1>8. (MoneyOutNeedsMoneyIn /\ StatusBackedByStripe)'
  BY DEF IInv, CompleteUpdate, MoneyOutNeedsMoneyIn, StatusBackedByStripe, Charged,
         Returned, stripeVars
<1>9. (SucceededRowIsCharged /\ AcknowledgedMeansFunded /\ StripeTellsTheTruth)'
  BY DEF IInv, CompleteUpdate, SucceededRowIsCharged, AcknowledgedMeansFunded,
         StripeTellsTheTruth, stripeVars
<1>. QED
  BY <1>2, <1>5, <1>6, <1>7, <1>8, <1>9 DEF IInv

-----------------------------------------------------------------------------
(* Every step of a request.                                                *)
LEMMA RequestStepKeeps ==
  ASSUME IInv, NEW r \in Requests, RequestStep(r)
  PROVE  IInv'
<1>1. ASSUME NEW m \in Milestones, NEW code \in Codes, FundStart(r, m, code)
      PROVE  IInv'
  <2>. DEFINE new == [at |-> "fund.stripe", key |-> "fund", m |-> m, code |-> code,
                      reply |-> "none"]
  <2>1. new \in Handlers
    BY DEF Handlers, Labels
  <2>2. req' = [req EXCEPT ![r] = new]
    BY <1>1 DEF FundStart, Start
  <2>3. req'[r] = new
    BY <2>2 DEF IInv, TypeOK
  <2>4. ReqKnows(r)'
    BY <2>3 DEF ReqKnows
  <2>. QED
    BY <1>1, <2>1, <2>2, <2>4, RequestMoves DEF FundStart
<1>2. ASSUME NEW st \in StripePiStatuses, FundCharge(r, st)
      PROVE  IInv'
  BY <1>2, FundChargeKeeps
<1>3. CASE FundReplay(r)
  <2>. DEFINE pi == <<req[r].m, req[r].code>>
              new == [req[r] EXCEPT !.at = "fund.tx", !.reply = firstReply[pi]]
  <2>1. req[r] \in Handlers /\ pi \in PIs
    BY <1>3, BusySlot DEF IInv, FundReplay, Handlers, PIs
  <2>2. firstReply[pi] \in StripePiStatuses
    BY <1>3, <2>1 DEF IInv, TypeOK, StripeTellsTheTruth, FundReplay
  <2>3. new \in Handlers
    BY <2>1, <2>2 DEF Handlers, Labels
  <2>4. req' = [req EXCEPT ![r] = new]
    BY <1>3 DEF FundReplay
  <2>5. req'[r] = new
    BY <2>4 DEF IInv, TypeOK
  <2>6. /\ req'[r].at = "fund.tx" /\ req'[r].reply = firstReply[pi]
        /\ <<req'[r].m, req'[r].code>> = pi
    BY <2>1, <2>5 DEF Handlers
  <2>7. firstReply[pi] = "succeeded" => stripePi'[pi] = "succeeded"
    BY <1>3, <2>1 DEF IInv, StripeTellsTheTruth, FundReplay, stripeVars
  <2>8. ReqKnows(r)'
    BY <2>2, <2>6, <2>7 DEF ReqKnows
  <2>. QED
    BY <1>3, <2>3, <2>4, <2>8, RequestMoves DEF FundReplay
<1>4. CASE FundTx(r)
  BY <1>4, FundTxKeeps
<1>5. CASE FundMark(r)
  BY <1>5, FundMarkKeeps
<1>6. ASSUME NEW m \in Milestones, ReleaseStart(r, m)
      PROVE  IInv'
  <2>. DEFINE new == [at |-> "release.transfer", key |-> "release", m |-> m,
                      code |-> NoCoupon, reply |-> "none"]
  <2>1. new \in Handlers
    BY DEF Handlers, Labels, Codes
  <2>2. req' = [req EXCEPT ![r] = new]
    BY <1>6 DEF ReleaseStart, Start
  <2>3. req'[r] = new
    BY <2>2 DEF IInv, TypeOK
  <2>4. ReqKnows(r)'
    BY <1>6, <2>3 DEF ReqKnows, ReleaseStart, dbVars
  <2>. QED
    BY <1>6, <2>1, <2>2, <2>4, RequestMoves DEF ReleaseStart
<1>7. CASE ReleaseTransfer(r)
  BY <1>7, ReleaseTransferKeeps
<1>8. CASE ReleaseTx(r)
  BY <1>8, ReleaseTxKeeps
<1>9. ASSUME NEW m \in Milestones, NEW key \in RefundKeys, RefundStart(r, m, key)
      PROVE  IInv'
  <2>. DEFINE new == [at |-> "refund.pick", key |-> key, m |-> m,
                      code |-> NoCoupon, reply |-> "none"]
  <2>1. new \in Handlers
    BY DEF Handlers, Labels, Codes
  <2>2. req' = [req EXCEPT ![r] = new]
    BY <1>9 DEF RefundStart, Start
  <2>3. req'[r] = new
    BY <2>2 DEF IInv, TypeOK
  <2>4. ReqKnows(r)'
    BY <1>9, <2>3 DEF ReqKnows, RefundStart, dbVars
  <2>. QED
    BY <1>9, <2>1, <2>2, <2>4, RequestMoves DEF RefundStart
<1>10. ASSUME NEW code \in Codes, RefundPick(r, code)
       PROVE  IInv'
  <2>. DEFINE new == [req[r] EXCEPT !.at = "refund.stripe", !.code = code]
  <2>1. req[r] \in Handlers /\ <<req[r].m, code>> \in PIs
    BY <1>10, BusySlot DEF IInv, RefundPick, Handlers, PIs
  <2>2. stripePi[<<req[r].m, code>>] = "succeeded"
    BY <1>10, <2>1 DEF IInv, SucceededRowIsCharged, RefundPick, IsLastPi, Succeeded
  <2>3. new \in Handlers
    BY <2>1 DEF Handlers, Labels
  <2>4. req' = [req EXCEPT ![r] = new]
    BY <1>10 DEF RefundPick
  <2>5. req'[r] = new
    BY <2>4 DEF IInv, TypeOK
  <2>6. /\ req'[r].at = "refund.stripe" /\ req'[r].key = req[r].key
        /\ req'[r].m = req[r].m /\ req'[r].code = code
    BY <2>1, <2>5 DEF Handlers
  <2>7. req[r].key \in RefundKeys /\ milestone'[req[r].m] # "PENDING"
    BY <1>10 DEF IInv, RefundPick, ReqKnows, dbVars
  <2>8. stripePi'[<<req[r].m, code>>] = "succeeded"
    BY <1>10, <2>2 DEF RefundPick, stripeVars
  <2>9. ReqKnows(r)'
    BY <2>6, <2>7, <2>8 DEF ReqKnows
  <2>. QED
    BY <1>10, <2>3, <2>4, <2>9, RequestMoves DEF RefundPick
<1>11. CASE RefundStripe(r)
  BY <1>11, RefundStripeKeeps
<1>12. CASE RefundTx(r)
  BY <1>12, RefundTxKeeps
<1>13. CASE CompleteCount(r) /\ Open = {}
  <2>. DEFINE new == [req[r] EXCEPT !.at = "complete.update"]
  <2>1. req[r] \in Handlers
    BY <1>13, BusySlot DEF IInv, CompleteCount
  <2>2. new \in Handlers
    BY <2>1 DEF Handlers, Labels
  <2>3. req' = [req EXCEPT ![r] = new]
    BY <1>13 DEF CompleteCount, Goto
  <2>4. req'[r] = new
    BY <2>3 DEF IInv, TypeOK
  <2>5. ReqKnows(r)'
    BY <1>13, <2>1, <2>4 DEF CompleteCount, ReqKnows, Handlers, Open, dbVars
  <2>. QED
    BY <1>13, <2>2, <2>3, <2>5, RequestMoves DEF CompleteCount
<1>14. CASE CompleteUpdate(r)
  BY <1>14, CompleteUpdateKeeps
<1>15. CASE \/ FundTxRollback(r) \/ ReleaseTxConflict(r) \/ RefundNoPi(r)
            \/ RefundRejected(r) \/ RequestFails(r)
            \/ CompleteCount(r) /\ Open # {}
  <2>1. req' = [req EXCEPT ![r] = Idle] /\ UNCHANGED <<dbVars, stripeVars, hook>>
    BY <1>15 DEF FundTxRollback, ReleaseTxConflict, RefundNoPi, RefundRejected,
                 RequestFails, CompleteCount, Return
  <2>2. req'[r] = Idle
    BY <2>1 DEF IInv, TypeOK
  <2>3. ReqKnows(r)'
    BY <2>2 DEF ReqKnows, Idle
  <2>. QED
    BY <2>1, <2>3, RequestMoves
<1>. QED
  BY <1>1, <1>2, <1>3, <1>4, <1>5, <1>6, <1>7, <1>8, <1>9, <1>10, <1>11, <1>12,
     <1>13, <1>14, <1>15 DEF RequestStep

-----------------------------------------------------------------------------
(* Stripe's own steps: a PI that waits becomes st and an event is emitted. *)
LEMMA StripeMoves ==
  ASSUME IInv, NEW m \in Milestones, NEW code \in Codes,
         NEW st \in StripePiStatuses, NEW e \in Events,
         stripePi[<<m, code>>] = "requires_action",
         stripePi' = [stripePi EXCEPT ![<<m, code>>] = st],
         events' = events \cup {e}, e.m = m, e.code = code,
         e.type = "succeeded" => st = "succeeded",
         UNCHANGED <<dbVars, firstReply, transfers, refunds, req, hook>>
  PROVE  IInv'
<1>1. <<m, code>> \in PIs
  BY DEF PIs
<1>2. TypeOK'
  BY <1>1 DEF IInv, TypeOK, dbVars
<1>3. \A pi \in PIs : stripePi[pi] = "succeeded" => stripePi'[pi] = "succeeded"
  BY <1>1 DEF IInv, TypeOK
<1>4. Kept
  BY <1>3 DEF Kept, dbVars, Open
<1>5. \A s \in Requests : ReqKnows(s)'
  BY <1>4, OtherRequests
<1>6. \A h \in Deliveries : HookKnows(h)'
  BY <1>4, OtherDeliveries
<1>7. (MoneyOutNeedsMoneyIn /\ SucceededRowIsCharged)'
  <2>1. \A n \in Milestones : Charged(n) => Charged(n)'
    BY <1>3 DEF Charged, PIs
  <2>2. \A x \in refunds : <<x.m, x.code>> \in PIs
    BY DEF IInv, TypeOK, Refunds, PIs
  <2>. QED
    BY <1>3, <2>1, <2>2
    DEF IInv, TypeOK, MoneyOutNeedsMoneyIn, SucceededRowIsCharged, dbVars
<1>8. (StatusBackedByStripe /\ AcknowledgedMeansFunded /\ CompletedMeansSettled)'
  BY DEF IInv, StatusBackedByStripe, AcknowledgedMeansFunded, CompletedMeansSettled,
         Open, Returned, dbVars
<1>9. StripeTellsTheTruth'
  <2>1. \A pi \in PIs :
          /\ stripePi'[pi] # "absent" => firstReply'[pi] # "absent"
          /\ firstReply'[pi] = "succeeded" => stripePi'[pi] = "succeeded"
    BY <1>1, <1>3 DEF IInv, TypeOK, StripeTellsTheTruth, StripePiStatuses
  <2>2. ASSUME NEW x \in events', x.type = "succeeded"
        PROVE  stripePi'[<<x.m, x.code>>] = "succeeded"
    <3>1. CASE x \in events
      <4>1. <<x.m, x.code>> \in PIs /\ stripePi[<<x.m, x.code>>] = "succeeded"
        BY <2>2, <3>1 DEF IInv, TypeOK, StripeTellsTheTruth, Events, PIs
      <4>. QED
        BY <1>3, <4>1
    <3>2. CASE x = e
      BY <1>1, <2>2, <3>2 DEF IInv, TypeOK
    <3>. QED
      BY <3>1, <3>2
  <2>. QED
    BY <2>1, <2>2 DEF StripeTellsTheTruth
<1>. QED
  BY <1>2, <1>5, <1>6, <1>7, <1>8, <1>9 DEF IInv

LEMMA StripeStepKeeps ==
  ASSUME IInv, StripeStep
  PROVE  IInv'
<1>1. PICK m \in Milestones, code \in Codes :
        PiSucceeds(m, code) \/ PiDeclined(m, code) \/ PiCanceled(m, code)
  BY DEF StripeStep
<1>. DEFINE e(t) == [type |-> t, m |-> m, code |-> code]
<1>2. \A t \in DOMAIN EventStatus : e(t) \in Events
  BY DEF Events
<1>3. {"succeeded", "payment_failed", "canceled"} \subseteq DOMAIN EventStatus
  BY DEF EventStatus
<1>4. CASE PiSucceeds(m, code)
  <2>1. e("succeeded") \in Events
    BY <1>2, <1>3
  <2>. QED
    BY <1>4, <2>1, StripeMoves DEF PiSucceeds, Emit, StripePiStatuses
<1>5. CASE PiDeclined(m, code)
  <2>1. e("payment_failed") \in Events
    BY <1>2, <1>3
  <2>2. stripePi' = [stripePi EXCEPT ![<<m, code>>] = "requires_action"]
    BY <1>5 DEF PiDeclined, IInv, TypeOK
  <2>. QED
    BY <1>5, <2>1, <2>2, StripeMoves DEF PiDeclined, Emit, StripePiStatuses
<1>6. CASE PiCanceled(m, code)
  <2>1. e("canceled") \in Events
    BY <1>2, <1>3
  <2>. QED
    BY <1>6, <2>1, StripeMoves DEF PiCanceled, Emit, StripePiStatuses
<1>. QED
  BY <1>1, <1>4, <1>5, <1>6

-----------------------------------------------------------------------------
(* The webhook's steps.  A delivery that only moves, knowing enough.       *)
LEMMA DeliveryMoves ==
  ASSUME IInv, NEW h \in Deliveries, UNCHANGED <<dbVars, stripeVars, req>>,
         NEW new \in Hooks \cup {Idle}, hook' = [hook EXCEPT ![h] = new],
         HookKnows(h)'
  PROVE  IInv'
<1>1. Kept
  BY DEF Kept, dbVars, stripeVars, Open
<1>2. TypeOK'
  BY DEF IInv, TypeOK, dbVars, stripeVars
<1>3. \A s \in Requests : ReqKnows(s)'
  BY <1>1, OtherRequests
<1>4. \A g \in Deliveries : HookKnows(g)'
  <2>1. \A g \in Deliveries : g # h => hook'[g] = hook[g]
    BY DEF IInv, TypeOK
  <2>. QED
    BY <1>1, <2>1, OtherDeliveries
<1>5. (MoneyOutNeedsMoneyIn /\ StatusBackedByStripe /\ SucceededRowIsCharged)'
  BY DEF IInv, MoneyOutNeedsMoneyIn, StatusBackedByStripe, SucceededRowIsCharged,
         Charged, Returned, dbVars, stripeVars
<1>6. (AcknowledgedMeansFunded /\ CompletedMeansSettled /\ StripeTellsTheTruth)'
  BY DEF IInv, AcknowledgedMeansFunded, CompletedMeansSettled, Open,
         StripeTellsTheTruth, dbVars, stripeVars
<1>. QED
  BY <1>2, <1>3, <1>4, <1>5, <1>6 DEF IInv

LEMMA HookMarkKeeps ==
  ASSUME IInv, NEW h \in Deliveries, HookMark(h)
  PROVE  IInv'
<1>. DEFINE e == hook[h].e
            pi == <<e.m, e.code>>
            at == IF e.type = "succeeded" THEN "hook.fund" ELSE "hook.done"
<1>1. hook[h] \in Hooks /\ e \in Events /\ e.m \in Milestones /\ pi \in PIs
      /\ hook[h] # Idle
  BY BusySlot DEF IInv, HookMark, Hooks, Events, PIs, Idle
<1>2. e \in events
  BY <1>1 DEF IInv, HookKnows
<1>3. e.type = "succeeded" => stripePi[pi] = "succeeded"
  BY <1>2 DEF IInv, StripeTellsTheTruth
<1>4. piRow' = [piRow EXCEPT ![pi] = IF @ = "none" THEN @ ELSE EventStatus[e.type]]
  BY DEF HookMark
<1>5. /\ EventStatus[e.type] \in PiRowStatuses
      /\ EventStatus[e.type] = "SUCCEEDED" => e.type = "succeeded"
  BY <1>1 DEF Events, EventStatus, PiRowStatuses
<1>6. hook' = [hook EXCEPT ![h] = [hook[h] EXCEPT !.at = at]]
  BY DEF HookMark
<1>7. TypeOK'
  <2>1. hook' \in [Deliveries -> Hooks \cup {Idle}]
    BY <1>1, <1>6 DEF IInv, TypeOK, Hooks, HookLabels
  <2>2. piRow' \in [PIs -> PiRowStatuses \cup {"none"}]
    BY <1>1, <1>4, <1>5 DEF IInv, TypeOK
  <2>. QED
    BY <2>1, <2>2 DEF IInv, TypeOK, HookMark, stripeVars
<1>8. Kept
  BY DEF Kept, HookMark, stripeVars, Open
<1>9. HookKnows(h)'
  <2>1. hook'[h] = [hook[h] EXCEPT !.at = at]
    BY <1>6 DEF IInv, TypeOK
  <2>2. hook'[h].e = e /\ hook'[h].at = at
    BY <1>1, <2>1 DEF Hooks
  <2>. QED
    BY <1>2, <2>2 DEF HookKnows, HookMark, stripeVars
<1>10. \A g \in Deliveries : HookKnows(g)'
  <2>1. \A g \in Deliveries : g # h => hook'[g] = hook[g]
    BY <1>6 DEF IInv, TypeOK
  <2>. QED
    BY <1>8, <1>9, <2>1, OtherDeliveries
<1>11. \A s \in Requests : ReqKnows(s)'
  BY <1>8, OtherRequests DEF HookMark
<1>12. SucceededRowIsCharged'
  BY <1>1, <1>3, <1>4, <1>5 DEF IInv, TypeOK, SucceededRowIsCharged, HookMark, stripeVars
<1>13. (MoneyOutNeedsMoneyIn /\ StatusBackedByStripe)'
  BY DEF IInv, HookMark, MoneyOutNeedsMoneyIn, StatusBackedByStripe, Charged,
         Returned, stripeVars
<1>14. (AcknowledgedMeansFunded /\ CompletedMeansSettled /\ StripeTellsTheTruth)'
  BY DEF IInv, HookMark, AcknowledgedMeansFunded, CompletedMeansSettled, Open,
         StripeTellsTheTruth, stripeVars
<1>. QED
  BY <1>7, <1>10, <1>11, <1>12, <1>13, <1>14 DEF IInv

LEMMA HookFundKeeps ==
  ASSUME IInv, NEW h \in Deliveries, HookFund(h)
  PROVE  IInv'
<1>. DEFINE e == hook[h].e
<1>1. hook[h] \in Hooks /\ e \in Events /\ e.m \in Milestones /\ e.code \in Codes
      /\ hook[h] # Idle
  BY BusySlot DEF IInv, HookFund, Hooks, Events, Idle
<1>2. e \in events /\ e.type = "succeeded"
  BY <1>1 DEF IInv, HookKnows, HookFund
<1>3. Charged(e.m)
  BY <1>1, <1>2 DEF IInv, StripeTellsTheTruth, Charged
<1>4. /\ milestone' \in [Milestones -> MilestoneStatuses]
      /\ milestone'[e.m] # "PENDING"
      /\ Kept
      /\ (MoneyOutNeedsMoneyIn /\ StatusBackedByStripe /\ SucceededRowIsCharged)'
      /\ (CompletedMeansSettled /\ StripeTellsTheTruth)'
  BY <1>1, <1>3, MarkFundedKeeps DEF HookFund
<1>5. hook' = [hook EXCEPT ![h] = [hook[h] EXCEPT !.at = "hook.done"]]
  BY DEF HookFund
<1>6. TypeOK'
  <2>1. hook' \in [Deliveries -> Hooks \cup {Idle}]
    BY <1>1, <1>5 DEF IInv, TypeOK, Hooks, HookLabels
  <2>. QED
    BY <1>4, <2>1 DEF IInv, TypeOK, HookFund, stripeVars
<1>7. HookKnows(h)'
  <2>1. hook'[h] = [hook[h] EXCEPT !.at = "hook.done"]
    BY <1>5 DEF IInv, TypeOK
  <2>2. hook'[h].e = e /\ hook'[h].at = "hook.done"
    BY <1>1, <2>1 DEF Hooks
  <2>. QED
    BY <1>2, <1>4, <2>2 DEF HookKnows, HookFund, stripeVars
<1>8. \A g \in Deliveries : HookKnows(g)'
  <2>1. \A g \in Deliveries : g # h => hook'[g] = hook[g]
    BY <1>5 DEF IInv, TypeOK
  <2>. QED
    BY <1>4, <1>7, <2>1, OtherDeliveries
<1>9. \A s \in Requests : ReqKnows(s)'
  BY <1>4, OtherRequests DEF HookFund
<1>10. AcknowledgedMeansFunded'
  BY <1>4 DEF IInv, TypeOK, HookFund, AcknowledgedMeansFunded, Kept, Events
<1>. QED
  BY <1>4, <1>6, <1>8, <1>9, <1>10 DEF IInv

LEMMA HookDoneKeeps ==
  ASSUME IInv, NEW h \in Deliveries, HookDone(h)
  PROVE  IInv'
<1>. DEFINE e == hook[h].e
<1>1. hook[h] \in Hooks /\ e \in Events /\ hook[h] # Idle
  BY BusySlot DEF IInv, HookDone, Hooks, Idle
<1>2. e.type = "succeeded" => milestone[e.m] # "PENDING"
  BY DEF IInv, HookKnows, HookDone
<1>3. TypeOK'
  BY <1>1 DEF IInv, TypeOK, HookDone, stripeVars
<1>4. Kept
  BY DEF Kept, HookDone, stripeVars, Open
<1>5. HookKnows(h)'
  <2>1. hook'[h] = Idle
    BY DEF IInv, TypeOK, HookDone
  <2>. QED
    BY <2>1 DEF HookKnows, Idle
<1>6. \A g \in Deliveries : HookKnows(g)'
  <2>1. \A g \in Deliveries : g # h => hook'[g] = hook[g]
    BY DEF IInv, TypeOK, HookDone
  <2>. QED
    BY <1>4, <1>5, <2>1, OtherDeliveries
<1>7. \A s \in Requests : ReqKnows(s)'
  BY <1>4, OtherRequests DEF HookDone
<1>8. AcknowledgedMeansFunded'
  BY <1>2 DEF IInv, HookDone, AcknowledgedMeansFunded
<1>9. (MoneyOutNeedsMoneyIn /\ StatusBackedByStripe /\ SucceededRowIsCharged)'
  BY DEF IInv, HookDone, MoneyOutNeedsMoneyIn, StatusBackedByStripe,
         SucceededRowIsCharged, Charged, Returned, stripeVars
<1>10. (CompletedMeansSettled /\ StripeTellsTheTruth)'
  BY DEF IInv, HookDone, CompletedMeansSettled, Open, StripeTellsTheTruth, stripeVars
<1>. QED
  BY <1>3, <1>6, <1>7, <1>8, <1>9, <1>10 DEF IInv

LEMMA HookStepKeeps ==
  ASSUME IInv, NEW h \in Deliveries, HookStep(h)
  PROVE  IInv'
<1>1. ASSUME NEW e \in events, HookStart(h, e)
      PROVE  IInv'
  <2>. DEFINE new == [at |-> "hook.mark", e |-> e]
  <2>1. new \in Hooks
    BY DEF IInv, TypeOK, Hooks, HookLabels
  <2>2. hook' = [hook EXCEPT ![h] = new]
    BY <1>1 DEF HookStart
  <2>3. hook'[h] = new
    BY <2>2 DEF IInv, TypeOK
  <2>4. HookKnows(h)'
    BY <1>1, <2>3 DEF HookKnows, HookStart, stripeVars
  <2>. QED
    BY <1>1, <2>1, <2>2, <2>4, DeliveryMoves DEF HookStart
<1>2. CASE HookMark(h)
  BY <1>2, HookMarkKeeps
<1>3. CASE HookFund(h)
  BY <1>3, HookFundKeeps
<1>4. CASE HookDone(h)
  BY <1>4, HookDoneKeeps
<1>5. CASE HookFails(h)
  <2>1. hook' = [hook EXCEPT ![h] = Idle]
    BY <1>5 DEF HookFails
  <2>2. hook'[h] = Idle
    BY <2>1 DEF IInv, TypeOK
  <2>3. HookKnows(h)'
    BY <2>2 DEF HookKnows, Idle
  <2>. QED
    BY <1>5, <2>1, <2>3, DeliveryMoves DEF HookFails
<1>. QED
  BY <1>1, <1>2, <1>3, <1>4, <1>5 DEF HookStep

-----------------------------------------------------------------------------
LEMMA InitEstablishes == Init => IInv
<1>. SUFFICES ASSUME Init PROVE IInv
  OBVIOUS
<1>1. TypeOK
  BY DEF Init, TypeOK, MilestoneStatuses, Codes
<1>2. Open = Milestones
  BY DEF Init, Open
<1>3. \A r \in Requests : ReqKnows(r)
  BY DEF Init, ReqKnows, Idle
<1>4. \A h \in Deliveries : HookKnows(h)
  BY DEF Init, HookKnows, Idle
<1>5. MoneyOutNeedsMoneyIn /\ StatusBackedByStripe /\ SucceededRowIsCharged
  BY DEF Init, MoneyOutNeedsMoneyIn, StatusBackedByStripe, SucceededRowIsCharged
<1>6. AcknowledgedMeansFunded /\ CompletedMeansSettled /\ StripeTellsTheTruth
  BY DEF Init, AcknowledgedMeansFunded, CompletedMeansSettled, StripeTellsTheTruth
<1>. QED
  BY <1>1, <1>3, <1>4, <1>5, <1>6 DEF IInv

LEMMA NextKeeps == IInv /\ [Next]_vars => IInv'
<1>. SUFFICES ASSUME IInv, [Next]_vars PROVE IInv'
  OBVIOUS
<1>1. CASE Next
  BY <1>1, RequestStepKeeps, StripeStepKeeps, HookStepKeeps DEF Next
<1>2. CASE UNCHANGED vars
  <2>1. Kept
    BY <1>2 DEF Kept, vars, dbVars, stripeVars, Open
  <2>2. (\A r \in Requests : ReqKnows(r)') /\ (\A h \in Deliveries : HookKnows(h)')
    BY <1>2, <2>1, OtherRequests, OtherDeliveries DEF vars
  <2>3. TypeOK'
    BY <1>2 DEF IInv, TypeOK, vars, dbVars, stripeVars
  <2>4. (MoneyOutNeedsMoneyIn /\ StatusBackedByStripe /\ SucceededRowIsCharged)'
    BY <1>2 DEF IInv, MoneyOutNeedsMoneyIn, StatusBackedByStripe,
       SucceededRowIsCharged, Charged, Returned, vars, dbVars, stripeVars
  <2>5. (AcknowledgedMeansFunded /\ CompletedMeansSettled /\ StripeTellsTheTruth)'
    BY <1>2 DEF IInv, AcknowledgedMeansFunded, CompletedMeansSettled, Open,
       StripeTellsTheTruth, vars, dbVars, stripeVars
  <2>. QED
    BY <2>2, <2>3, <2>4, <2>5 DEF IInv
<1>. QED
  BY <1>1, <1>2

(* The inductive invariant holds in every behaviour of the escrow.         *)
THEOREM Invariance == Spec => []IInv
  BY InitEstablishes, NextKeeps, PTL DEF Spec

(* Every variable keeps its type.                                          *)
THEOREM TypeCorrect == Spec => []TypeOK
<1>1. IInv => TypeOK
  BY DEF IInv
<1>. QED
  BY <1>1, Invariance, PTL

(* Money leaves the platform only for a milestone that was charged: no     *)
(* transfer and no refund without a charge, in any interleaving.           *)
THEOREM MoneyIsBacked == Spec => []MoneyOutNeedsMoneyIn
<1>1. IInv => MoneyOutNeedsMoneyIn
  BY DEF IInv
<1>. QED
  BY <1>1, Invariance, PTL

(* The milestone status and the Payout row never claim money that Stripe   *)
(* did not move.                                                           *)
THEOREM StatusIsBacked == Spec => []StatusBackedByStripe
<1>1. IInv => StatusBackedByStripe
  BY DEF IInv
<1>. QED
  BY <1>1, Invariance, PTL

(* The row of a PaymentIntent says SUCCEEDED only of one that was charged, *)
(* in whatever order replies, retries and events write it.                 *)
THEOREM SucceededIsCharged == Spec => []SucceededRowIsCharged
<1>1. IInv => SucceededRowIsCharged
  BY DEF IInv
<1>. QED
  BY <1>1, Invariance, PTL

(* A payment_intent.succeeded event that will not be redelivered has       *)
(* funded its milestone: acknowledging it loses nothing.                   *)
THEOREM AcknowledgedIsFunded == Spec => []AcknowledgedMeansFunded
<1>1. IInv => AcknowledgedMeansFunded
  BY DEF IInv
<1>. QED
  BY <1>1, Invariance, PTL

(* maybeCompleteContract never completes a contract with an open milestone. *)
THEOREM CompletedIsSettled == Spec => []CompletedMeansSettled
<1>1. IInv => CompletedMeansSettled
  BY DEF IInv
<1>. QED
  BY <1>1, Invariance, PTL

-----------------------------------------------------------------------------
(* No step moves a milestone backwards or settles one that is not funded.  *)
LEMMA StepKeepsOrder ==
  ASSUME IInv, Next, NEW n \in Milestones
  PROVE  /\ n \in Settled => n \in Settled'
         /\ milestone[n] = "FUNDED" => milestone'[n] # "PENDING"
         /\ milestone[n] = "PENDING" => milestone'[n] \in {"PENDING", "FUNDED"}
<1>. DEFINE Ordered ==
       /\ n \in Settled => n \in Settled'
       /\ milestone[n] = "FUNDED" => milestone'[n] # "PENDING"
       /\ milestone[n] = "PENDING" => milestone'[n] \in {"PENDING", "FUNDED"}
<1>1. CASE UNCHANGED milestone
  BY <1>1 DEF Settled, Open
<1>2. ASSUME NEW m \in Milestones, MarkFunded(m)
      PROVE  Ordered
  BY <1>2 DEF IInv, TypeOK, MarkFunded, Settled, Open
<1>3. ASSUME NEW m \in Milestones, NEW st \in {"RELEASED", "REFUNDED"},
             milestone[m] # "PENDING", milestone' = [milestone EXCEPT ![m] = st]
      PROVE  Ordered
  BY <1>3 DEF IInv, TypeOK, Settled, Open
<1>4. ASSUME NEW r \in Requests, RequestStep(r)
      PROVE  Ordered
  <2>1. CASE FundMark(r)
    <3>1. req[r].m \in Milestones
      BY <2>1, BusySlot DEF IInv, FundMark, Handlers
    <3>. QED
      BY <1>2, <2>1, <3>1 DEF FundMark
  <2>2. CASE ReleaseTx(r)
    <3>1. req[r].m \in Milestones
      BY <2>2, BusySlot DEF IInv, ReleaseTx, Handlers
    <3>2. milestone[req[r].m] # "PENDING"
      BY <2>2 DEF IInv, ReleaseTx, ReqKnows
    <3>. QED
      BY <1>3, <2>2, <3>1, <3>2 DEF ReleaseTx
  <2>3. CASE RefundTx(r)
    <3>1. req[r].m \in Milestones
      BY <2>3, BusySlot DEF IInv, RefundTx, Handlers
    <3>2. milestone[req[r].m] # "PENDING"
      BY <2>3 DEF IInv, RefundTx, ReqKnows
    <3>. QED
      BY <1>3, <2>3, <3>1, <3>2 DEF RefundTx
  <2>4. CASE ~ (FundMark(r) \/ ReleaseTx(r) \/ RefundTx(r))
    <3>1. UNCHANGED milestone
      BY <1>4, <2>4
      DEF RequestStep, FundStart, FundCharge, FundReplay, FundTx, FundTxRollback,
          ReleaseStart, ReleaseTransfer, ReleaseTxConflict, RefundStart, RefundPick,
          RefundNoPi, RefundStripe, RefundRejected, CompleteCount, CompleteUpdate,
          RequestFails, dbVars
    <3>. QED
      BY <1>1, <3>1
  <2>. QED
    BY <2>1, <2>2, <2>3, <2>4
<1>5. CASE StripeStep
  BY <1>1, <1>5 DEF StripeStep, PiSucceeds, PiDeclined, PiCanceled, dbVars
<1>6. ASSUME NEW h \in Deliveries, HookStep(h)
      PROVE  Ordered
  <2>1. CASE HookFund(h)
    <3>1. hook[h].e.m \in Milestones
      BY <2>1, BusySlot DEF IInv, HookFund, Hooks, Events
    <3>. QED
      BY <1>2, <2>1, <3>1 DEF HookFund
  <2>2. CASE ~ HookFund(h)
    <3>1. UNCHANGED milestone
      BY <1>6, <2>2 DEF HookStep, HookStart, HookMark, HookDone, HookFails, dbVars
    <3>. QED
      BY <1>1, <3>1
  <2>. QED
    BY <2>1, <2>2
<1>. QED
  BY <1>4, <1>5, <1>6 DEF Next

(* A milestone is funded before it is settled, and once settled it never   *)
(* opens again, whatever stale status a handler acts on.                   *)
THEOREM OrderIsKept == Spec => MilestoneOrder
<1>. DEFINE Order ==
       \A m \in Milestones :
         /\ m \in Settled => m \in Settled'
         /\ milestone[m] = "FUNDED" => milestone'[m] # "PENDING"
         /\ milestone[m] = "PENDING" => milestone'[m] \in {"PENDING", "FUNDED"}
<1>1. IInv /\ [Next]_vars => [Order]_vars
  BY StepKeepsOrder
<1>2. Spec => [][Order]_vars
  BY <1>1, Invariance, PTL DEF Spec
<1>. QED
  BY <1>2 DEF MilestoneOrder
-----------------------------------------------------------------------------
(* A contract of a milestone completes, without the two ways around it     *)
(* that the code leaves: the admin's refund, and a request that stops      *)
(* between the settlement and maybeCompleteContract.                       *)

Completing(r) == req[r].at \in {"complete.count", "complete.update"}

(* Who settles the last milestone has yet to look for completion.          *)
CompletionInv ==
  /\ contract.status \in {"ACTIVE", "COMPLETED"}
  /\ Open = {} => contract.status = "COMPLETED" \/ \E r \in Requests : Completing(r)
  /\ \A r \in Requests : req[r].at = "refund.tx" => req[r].key # "admin-refund"
  /\ \A r \in Requests : req[r].at \in {"refund.pick", "refund.stripe"} =>
                           req[r].key # "admin-refund"

(* A step that leaves the contract and the milestones as they are, by a    *)
(* request that does not look for completion.                              *)
LEMMA OpenStays ==
  ASSUME IInv, CompletionInv, UNCHANGED contract, Open' = Open,
         \A r \in Requests :
           /\ Completing(r) => Completing(r)'
           /\ req'[r].at \in {"refund.pick", "refund.stripe", "refund.tx"} =>
                req'[r].key # "admin-refund"
  PROVE  CompletionInv'
  BY DEF CompletionInv

LEMMA MarkKeepsOpen ==
  ASSUME TypeOK, NEW m, MarkFunded(m)
  PROVE  Open' = Open
  BY DEF TypeOK, MarkFunded, Open

LEMMA CompletionKept ==
  ASSUME AdminRefunds = FALSE, RequestsMayFail = FALSE, IInv, CompletionInv, [Next]_vars
  PROVE  CompletionInv'
<1>0. TypeOK /\ \A r \in Requests : req[r].at # "idle" => req[r] \in Handlers
  BY BusySlot DEF IInv
<1>1. ASSUME NEW r \in Requests, UNCHANGED contract, Open' = Open, ~ Completing(r),
             NEW slot, req' = [req EXCEPT ![r] = slot],
             slot.at \in {"refund.pick", "refund.stripe", "refund.tx"} =>
               slot.key # "admin-refund"
      PROVE  CompletionInv'
  <2>1. req'[r] = slot /\ \A s \in Requests \ {r} : req'[s] = req[s]
    BY <1>0, <1>1 DEF TypeOK
  <2>. QED
    BY <1>1, <2>1, OpenStays DEF CompletionInv, Completing
<1>2. ASSUME NEW r \in Requests, UNCHANGED contract, Open' = Open, ~ Completing(r),
             Return(r)
      PROVE  CompletionInv'
  BY <1>1, <1>2 DEF Return, Idle
<1>3. ASSUME NEW r \in Requests, UNCHANGED contract, Open' = Open, ~ Completing(r),
             req[r] \in Handlers, NEW at, Goto(r, at),
             at \in {"refund.pick", "refund.stripe", "refund.tx"} =>
               req[r].key # "admin-refund"
      PROVE  CompletionInv'
  <2>1. req' = [req EXCEPT ![r] = [req[r] EXCEPT !.at = at]]
    BY <1>0, <1>3 DEF Goto, TypeOK
  <2>2. [req[r] EXCEPT !.at = at].at = at /\ [req[r] EXCEPT !.at = at].key = req[r].key
    BY <1>3 DEF Handlers
  <2>. QED
    BY <1>1, <1>3, <2>1, <2>2
<1>4. ASSUME NEW r \in Requests, UNCHANGED contract, Open' = Open, req[r] = Idle,
             NEW at, NEW key, NEW m, NEW code, Start(r, at, key, m, code),
             at = "refund.pick" => key # "admin-refund",
             at \notin {"refund.stripe", "refund.tx"}
      PROVE  CompletionInv'
  <2>. DEFINE slot == [at |-> at, key |-> key, m |-> m, code |-> code, reply |-> "none"]
  <2>1. slot.at = at /\ slot.key = key /\ req' = [req EXCEPT ![r] = slot]
    BY <1>4 DEF Start
  <2>2. ~ Completing(r)
    BY <1>4 DEF Idle, Completing
  <2>. HIDE DEF slot
  <2>. QED
    BY <1>1, <1>4, <2>1, <2>2
<1>5. ASSUME NEW r \in Requests, NEW s \in StripePiStatuses, FundCharge(r, s)
      PROVE  CompletionInv'
  <2>1. req[r] \in Handlers
    BY <1>0, <1>5 DEF FundCharge
  <2>2. req' = [req EXCEPT ![r] = [req[r] EXCEPT !.at = "fund.tx", !.reply = s]]
    BY <1>0, <1>5 DEF FundCharge, TypeOK
  <2>3. [req[r] EXCEPT !.at = "fund.tx", !.reply = s].at = "fund.tx"
    BY <2>1 DEF Handlers
  <2>. QED
    BY <1>1, <1>5, <2>2, <2>3 DEF FundCharge, Completing, Open, dbVars
<1>6. ASSUME NEW r \in Requests, FundReplay(r) PROVE CompletionInv'
  <2>. DEFINE s == firstReply[<<req[r].m, req[r].code>>]
  <2>1. req[r] \in Handlers
    BY <1>0, <1>6 DEF FundReplay
  <2>2. req' = [req EXCEPT ![r] = [req[r] EXCEPT !.at = "fund.tx", !.reply = s]]
    BY <1>0, <1>6 DEF FundReplay, TypeOK
  <2>3. [req[r] EXCEPT !.at = "fund.tx", !.reply = s].at = "fund.tx"
    BY <2>1 DEF Handlers
  <2>. QED
    BY <1>1, <1>6, <2>2, <2>3 DEF FundReplay, Completing, Open, dbVars
<1>7. ASSUME NEW r \in Requests, NEW code \in Codes, RefundPick(r, code)
      PROVE  CompletionInv'
  <2>1. req[r] \in Handlers
    BY <1>0, <1>7 DEF RefundPick
  <2>2. req' = [req EXCEPT ![r] = [req[r] EXCEPT !.at = "refund.stripe", !.code = code]]
    BY <1>0, <1>7 DEF RefundPick, TypeOK
  <2>3. /\ [req[r] EXCEPT !.at = "refund.stripe", !.code = code].key = req[r].key
        /\ req[r].key # "admin-refund"
    BY <1>7, <2>1 DEF Handlers, CompletionInv, RefundPick
  <2>. QED
    BY <1>1, <1>7, <2>2, <2>3 DEF RefundPick, Completing, Open, dbVars
<1>8. ASSUME NEW r \in Requests, NEW m, NEW status,
             contract' = contract, milestone' = [milestone EXCEPT ![m] = status],
             req[r] \in Handlers, Goto(r, "complete.count")
      PROVE  CompletionInv'
  <2>1. /\ req'[r] = [req[r] EXCEPT !.at = "complete.count"]
        /\ \A s \in Requests \ {r} : req'[s] = req[s]
    BY <1>0, <1>8 DEF Goto, TypeOK
  <2>2. [req[r] EXCEPT !.at = "complete.count"].at = "complete.count"
    BY <1>8 DEF Handlers
  <2>. QED
    BY <1>8, <2>1, <2>2 DEF CompletionInv, Completing
<1>9. ASSUME NEW r \in Requests, ReleaseTx(r) \/ RefundTx(r) PROVE CompletionInv'
  <2>1. req[r] \in Handlers
    BY <1>0, <1>9 DEF ReleaseTx, RefundTx
  <2>2. RefundTx(r) => req[r].key = "refund"
    <3>1. RefundTx(r) => req[r].key \in RefundKeys /\ req[r].key # "admin-refund"
      BY DEF IInv, ReqKnows, CompletionInv, RefundTx
    <3>. QED
      BY <3>1 DEF RefundKeys
  <2>. QED
    BY <1>8, <1>9, <2>1, <2>2 DEF ReleaseTx, RefundTx
<1>10. ASSUME NEW r \in Requests, CompleteCount(r) PROVE CompletionInv'
  <2>1. CASE Open = {}
    <3>1. req[r] \in Handlers
      BY <1>0, <1>10 DEF CompleteCount
    <3>2. /\ req'[r] = [req[r] EXCEPT !.at = "complete.update"]
          /\ \A s \in Requests \ {r} : req'[s] = req[s]
      BY <1>0, <1>10, <2>1 DEF CompleteCount, Goto, TypeOK
    <3>3. [req[r] EXCEPT !.at = "complete.update"].at = "complete.update"
      BY <3>1 DEF Handlers
    <3>. QED
      BY <1>10, <3>2, <3>3 DEF CompletionInv, CompleteCount, Completing, dbVars
  <2>2. CASE Open # {}
    <3>1. /\ req'[r].at = "idle" /\ \A s \in Requests \ {r} : req'[s] = req[s]
          /\ Open' # {} /\ contract' = contract
      BY <1>0, <1>10, <2>2 DEF CompleteCount, Return, Idle, TypeOK, Open, dbVars
    <3>. QED
      BY <3>1 DEF CompletionInv
  <2>. QED
    BY <2>1, <2>2
<1>11. ASSUME NEW r \in Requests, CompleteUpdate(r) PROVE CompletionInv'
  <2>1. contract'.status = "COMPLETED"
    BY <1>11 DEF CompletionInv, CompleteUpdate
  <2>2. req'[r].at = "idle" /\ \A s \in Requests \ {r} : req'[s] = req[s]
    BY <1>0, <1>11 DEF CompleteUpdate, Return, Idle, TypeOK
  <2>. QED
    BY <2>1, <2>2 DEF CompletionInv
<1>12. ASSUME NEW r \in Requests, RequestStep(r) PROVE CompletionInv'
  <2>1. CASE \/ \E m \in Milestones, code \in Codes : FundStart(r, m, code)
             \/ \E m \in Milestones : ReleaseStart(r, m)
             \/ \E m \in Milestones, key \in RefundKeys : RefundStart(r, m, key)
    BY <1>4, <2>1 DEF FundStart, ReleaseStart, RefundStart, Open, dbVars
  <2>2. CASE FundTx(r) \/ FundMark(r)
    <3>1. req[r] \in Handlers /\ ~ Completing(r)
      BY <1>0, <2>2 DEF FundTx, FundMark, Completing
    <3>2. Open' = Open
      BY <1>0, <2>2, MarkKeepsOpen DEF FundTx, FundMark, Open
    <3>. QED
      BY <1>2, <1>3, <2>2, <3>1, <3>2 DEF FundTx, FundMark
  <2>3. CASE \/ FundTxRollback(r) \/ ReleaseTxConflict(r) \/ RefundNoPi(r)
             \/ RefundRejected(r)
    BY <1>2, <2>3 DEF FundTxRollback, ReleaseTxConflict, RefundNoPi, RefundRejected,
       Completing, Open, dbVars
  <2>4. CASE ReleaseTransfer(r) \/ RefundStripe(r)
    <3>1. req[r] \in Handlers /\ ~ Completing(r)
      BY <1>0, <2>4 DEF ReleaseTransfer, RefundStripe, Completing
    <3>2. RefundStripe(r) => req[r].key # "admin-refund"
      BY DEF RefundStripe, CompletionInv
    <3>. QED
      BY <1>3, <2>4, <3>1, <3>2 DEF ReleaseTransfer, RefundStripe, Open, dbVars
  <2>5. ~ RequestFails(r)
    BY DEF RequestFails
  <2>. QED
    BY <1>5, <1>6, <1>7, <1>9, <1>10, <1>11, <1>12, <2>1, <2>2, <2>3, <2>4, <2>5
    DEF RequestStep
<1>13. CASE StripeStep
  BY <1>13, OpenStays
  DEF StripeStep, PiSucceeds, PiDeclined, PiCanceled, dbVars, Open, Completing, CompletionInv
<1>14. ASSUME NEW h \in Deliveries, HookStep(h) PROVE CompletionInv'
  <2>1. Open' = Open
    BY <1>0, <1>14, MarkKeepsOpen
    DEF HookStep, HookStart, HookMark, HookFund, HookDone, HookFails, Open, dbVars
  <2>2. UNCHANGED <<contract, req>>
    BY <1>14 DEF HookStep, HookStart, HookMark, HookFund, HookDone, HookFails, dbVars
  <2>. QED
    BY <2>1, <2>2, OpenStays DEF Completing, CompletionInv
<1>15. CASE UNCHANGED vars
  BY <1>15, OpenStays DEF vars, dbVars, Open, Completing, CompletionInv
<1>. QED
  BY <1>12, <1>13, <1>14, <1>15 DEF Next

(* Where neither an admin refunds nor a request stops half way, whoever    *)
(* settles the last milestone completes the contract: no interleaving of   *)
(* the counts and updates of maybeCompleteContract misses it, for any      *)
(* number of milestones, coupons, requests and deliveries.                 *)
THEOREM SettledIsCompleted ==
  ASSUME Milestones # {}, AdminRefunds = FALSE, RequestsMayFail = FALSE
  PROVE  Spec => []SettledMeansCompleted
<1>1. Init => CompletionInv
  BY DEF Init, CompletionInv, Open, Idle
<1>2. IInv /\ CompletionInv /\ [Next]_vars => CompletionInv'
  BY CompletionKept
<1>3. CompletionInv => SettledMeansCompleted
  BY DEF CompletionInv, SettledMeansCompleted, Quiet, Completing, Idle
<1>. QED
  BY <1>1, <1>2, <1>3, Invariance, PTL DEF Spec
-----------------------------------------------------------------------------
(* The ledger: an uncontested milestone has one settlement at a time, and  *)
(* money of it that moved is either written to its status or in the hands  *)
(* of that one settlement.                                                 *)
Calm(m) ==
  /\ ~ Overlap(m)
  /\ \A r \in Requests : Settling(r, m) => milestone[m] = "FUNDED"
  /\ m \in transfers =>
       \/ milestone[m] = "RELEASED"
       \/ \E r \in Requests : req[r].at = "release.tx" /\ req[r].m = m
  /\ (\E code \in Codes : Returned(m, code)) =>
       \/ milestone[m] = "REFUNDED"
       \/ \E r \in Requests : req[r].at = "refund.tx" /\ req[r].m = m

PaidIsSettled ==
  \A m \in Milestones : payout[m] # "none" => milestone[m] \in {"RELEASED", "REFUNDED"}

LedgerInv ==
  /\ contested \subseteq Milestones
  /\ PaidIsSettled
  /\ \A m \in Milestones \ contested : Calm(m)

(* The one request that settles an uncontested milestone found its money   *)
(* untouched.                                                              *)
LEMMA Alone ==
  ASSUME NEW m \in Milestones, Calm(m), NEW r \in Requests, Settling(r, m)
  PROVE  /\ milestone[m] = "FUNDED"
         /\ \A s \in Requests \ {r} : ~ Settling(s, m)
         /\ req[r].at # "release.tx" => m \notin transfers
         /\ req[r].at # "refund.tx" => \A code \in Codes : ~ Returned(m, code)
<1>1. milestone[m] = "FUNDED" /\ \A s \in Requests \ {r} : ~ Settling(s, m)
  BY DEF Calm, Overlap
<1>2. \A s \in Requests :
        req[s].at \in {"release.tx", "refund.tx"} /\ req[s].m = m => s = r
  BY <1>1 DEF Settling
<1>. QED
  BY <1>1, <1>2 DEF Calm

(* A step that neither moves the money of m nor disturbs the request that  *)
(* did, and lets a settlement of m begin only where m is FUNDED.           *)
LEMMA ElsewhereCalm ==
  ASSUME NEW m \in Milestones, Calm(m), ~ Overlap(m)',
         \/ milestone'[m] = milestone[m]
         \/ milestone[m] = "PENDING" /\ milestone'[m] = "FUNDED",
         m \in transfers' => m \in transfers,
         \A code \in Codes : Returned(m, code)' => Returned(m, code),
         \A s \in Requests : Settling(s, m)' => Settling(s, m) \/ milestone'[m] = "FUNDED",
         \A s \in Requests : req[s].at \in {"release.tx", "refund.tx"} /\ req[s].m = m
                               => req'[s] = req[s]
  PROVE  Calm(m)'
<1>1. \A s \in Requests : Settling(s, m)' => milestone'[m] = "FUNDED"
  BY DEF Calm
<1>2. m \in transfers' =>
        \/ milestone'[m] = "RELEASED"
        \/ \E s \in Requests : req'[s].at = "release.tx" /\ req'[s].m = m
  BY DEF Calm
<1>3. (\E code \in Codes : Returned(m, code)') =>
        \/ milestone'[m] = "REFUNDED"
        \/ \E s \in Requests : req'[s].at = "refund.tx" /\ req'[s].m = m
  BY DEF Calm
<1>. QED
  BY <1>1, <1>2, <1>3 DEF Calm

(* MarkFunded takes a milestone from PENDING to FUNDED and leaves any other. *)
LEMMA MarkMoves ==
  ASSUME TypeOK, NEW m \in Milestones, NEW n, MarkFunded(n)
  PROVE  \/ milestone'[m] = milestone[m]
         \/ milestone[m] = "PENDING" /\ milestone'[m] = "FUNDED"
  BY DEF TypeOK, MarkFunded

(* A milestone with a Payout row is settled, and stays so.                 *)
LEMMA PaidStaysSettled ==
  ASSUME IInv, PaidIsSettled, Next
  PROVE  PaidIsSettled'
<1>. SUFFICES ASSUME NEW m \in Milestones, payout'[m] # "none"
              PROVE  milestone'[m] \in {"RELEASED", "REFUNDED"}
  BY DEF PaidIsSettled
<1>0. TypeOK /\ \A r \in Requests : req[r].at # "idle" => req[r] \in Handlers
  BY BusySlot DEF IInv
<1>1. \/ payout'[m] = payout[m]
      \/ milestone'[m] = "RELEASED"
  <2>1. ASSUME NEW r \in Requests, ReleaseTx(r)
        PROVE  payout'[m] = payout[m] \/ milestone'[m] = "RELEASED"
    BY <1>0, <2>1 DEF ReleaseTx, TypeOK, Handlers
  <2>2. (\E r \in Requests : ReleaseTx(r)) \/ UNCHANGED payout
    BY DEF Next, RequestStep, StripeStep, HookStep, FundStart, FundCharge, FundReplay,
       FundTx, FundTxRollback, FundMark, ReleaseStart, ReleaseTransfer, ReleaseTxConflict,
       RefundStart, RefundPick, RefundNoPi, RefundStripe, RefundRejected, RefundTx,
       CompleteCount, CompleteUpdate, RequestFails, PiSucceeds, PiDeclined, PiCanceled,
       HookStart, HookMark, HookFund, HookDone, HookFails, vars, dbVars
  <2>. QED
    BY <2>1, <2>2
<1>2. ASSUME milestone[m] \in {"RELEASED", "REFUNDED"}
      PROVE  milestone'[m] \in {"RELEASED", "REFUNDED"}
  <2>1. m \in Settled'
    BY <1>2, StepKeepsOrder DEF Settled, Open
  <2>2. milestone' \in [Milestones -> MilestoneStatuses]
    BY NextKeeps DEF IInv, TypeOK
  <2>. QED
    BY <2>1, <2>2 DEF Settled, Open, MilestoneStatuses
<1>. QED
  BY <1>1, <1>2 DEF PaidIsSettled
-----------------------------------------------------------------------------
(* An uncontested milestone stays calm through a step of request r.        *)
LEMMA RequestKeepsCalm ==
  ASSUME IInv, PaidIsSettled, NEW r \in Requests, RequestStep(r),
         NEW m \in Milestones, Calm(m), ~ Overlap(m)', ~ StopsHalfWay(m)
  PROVE  Calm(m)'
<1>. DEFINE Mine == req[r].at # "idle" /\ req[r].m = m
<1>0. /\ TypeOK /\ Idle.at = "idle"
      /\ \A s \in Requests : req[s].at # "idle" => req[s] \in Handlers
  BY BusySlot DEF IInv, Idle
<1>1. \A s \in Requests \ {r} : req'[s] = req[s]
  BY <1>0 DEF RequestStep, FundStart, FundCharge, FundReplay, FundTx, FundTxRollback, FundMark,
     ReleaseStart, ReleaseTransfer, ReleaseTx, ReleaseTxConflict, RefundStart, RefundPick,
     RefundNoPi, RefundStripe, RefundRejected, RefundTx, CompleteCount, CompleteUpdate,
     RequestFails, Start, Goto, Return, TypeOK
<1>2. \A s \in Requests \ {r} : Settling(s, m)' <=> Settling(s, m)
  BY <1>1 DEF Settling
(* Steps that move no money, and leave the status of m or mark it FUNDED.  *)
<1>3. ASSUME UNCHANGED <<transfers, refunds>>,
             \/ milestone'[m] = milestone[m]
             \/ milestone[m] = "PENDING" /\ milestone'[m] = "FUNDED",
             Settling(r, m)' => Settling(r, m) \/ milestone'[m] = "FUNDED",
             Mine => req[r].at \notin {"release.tx", "refund.tx"}
      PROVE  Calm(m)'
  <2>1. \A code \in Codes : Returned(m, code)' => Returned(m, code)
    BY <1>3 DEF Returned
  <2>2. \A s \in Requests : req[s].at \in {"release.tx", "refund.tx"} /\ req[s].m = m
                              => req'[s] = req[s]
    BY <1>1, <1>3
  <2>. QED
    BY <1>2, <1>3, <2>1, <2>2, ElsewhereCalm
<1>4. CASE \E n \in Milestones, code \in Codes : FundStart(r, n, code)
  <2>1. req'[r].at = "fund.stripe" /\ req[r].at = "idle"
    BY <1>0, <1>4 DEF FundStart, Start, TypeOK
  <2>. QED
    BY <1>3, <1>4, <2>1 DEF FundStart, dbVars, stripeVars, Settling
<1>5. CASE \/ \E n \in Milestones : ReleaseStart(r, n)
           \/ \E n \in Milestones, key \in RefundKeys : RefundStart(r, n, key)
  <2>1. /\ UNCHANGED <<milestone, transfers, refunds>> /\ req[r].at = "idle"
        /\ milestone[req'[r].m] = "FUNDED"
    BY <1>0, <1>5 DEF ReleaseStart, RefundStart, Start, TypeOK, dbVars, stripeVars
  <2>. QED
    BY <1>3, <2>1 DEF Settling
<1>6. CASE \/ \E s \in StripePiStatuses : FundCharge(r, s)
           \/ FundReplay(r) \/ FundTx(r) \/ FundTxRollback(r)
  <2>1. req[r] \in Handlers /\ req[r].at \in {"fund.stripe", "fund.tx"}
    BY <1>0, <1>6 DEF FundCharge, FundReplay, FundTx, FundTxRollback
  <2>2. req'[r].at \in {"fund.tx", "fund.mark", "idle"}
    BY <1>0, <1>6, <2>1
    DEF FundCharge, FundReplay, FundTx, FundTxRollback, Goto, Return, TypeOK, Handlers
  <2>3. UNCHANGED <<milestone, transfers, refunds>>
    BY <1>6 DEF FundCharge, FundReplay, FundTx, FundTxRollback, dbVars, stripeVars
  <2>. QED
    BY <1>3, <2>1, <2>2, <2>3 DEF Settling
<1>7. CASE FundMark(r)
  <2>1. req[r].at = "fund.mark" /\ req'[r].at = "idle"
    BY <1>0, <1>7 DEF FundMark, Return, TypeOK
  <2>2. \/ milestone'[m] = milestone[m]
        \/ milestone[m] = "PENDING" /\ milestone'[m] = "FUNDED"
    BY <1>0, <1>7, MarkMoves DEF FundMark
  <2>. QED
    BY <1>3, <1>7, <2>1, <2>2 DEF FundMark, Settling, stripeVars
<1>8. CASE \/ RefundNoPi(r) \/ RefundRejected(r) \/ CompleteCount(r) \/ CompleteUpdate(r)
  <2>1. /\ req'[r].at \in {"idle", "complete.update"}
        /\ req[r].at \notin {"release.tx", "refund.tx"}
    BY <1>0, <1>8 DEF RefundNoPi, RefundRejected, CompleteCount, CompleteUpdate, Goto, Return,
       TypeOK, Handlers
  <2>2. UNCHANGED <<milestone, transfers, refunds>>
    BY <1>8 DEF RefundNoPi, RefundRejected, CompleteCount, CompleteUpdate, dbVars, stripeVars
  <2>. QED
    BY <1>3, <2>1, <2>2 DEF Settling
<1>9. ASSUME NEW code \in Codes, RefundPick(r, code) PROVE Calm(m)'
  <2>1. /\ req[r] \in Handlers /\ req[r].at = "refund.pick"
        /\ UNCHANGED <<milestone, transfers, refunds>>
    BY <1>0, <1>9 DEF RefundPick, dbVars, stripeVars
  <2>2. req'[r].m = req[r].m
    BY <1>0, <1>9, <2>1 DEF RefundPick, TypeOK, Handlers
  <2>3. Settling(r, m)' => Settling(r, m)
    BY <2>1, <2>2 DEF Settling
  <2>. QED
    BY <1>3, <2>1, <2>3
<1>10. CASE RequestFails(r)
  <2>1. req'[r].at = "idle" /\ UNCHANGED <<milestone, transfers, refunds>>
    BY <1>0, <1>10 DEF RequestFails, Return, TypeOK, dbVars, stripeVars
  <2>2. Mine => req[r].at \notin {"release.tx", "refund.tx"}
    BY <1>10 DEF StopsHalfWay
  <2>. QED
    BY <1>3, <2>1, <2>2 DEF Settling
(* The steps that move money or write what moved.                          *)
<1>11. CASE ReleaseTransfer(r) /\ req[r].m # m
  <2>1. /\ req[r] \in Handlers /\ req[r].at = "release.transfer"
        /\ transfers' = transfers \cup {req[r].m} /\ UNCHANGED <<milestone, refunds>>
    BY <1>0, <1>11 DEF ReleaseTransfer, dbVars
  <2>2. req'[r].m = req[r].m
    BY <1>0, <1>11, <2>1 DEF ReleaseTransfer, Goto, TypeOK, Handlers
  <2>3. \A code \in Codes : Returned(m, code)' => Returned(m, code)
    BY <2>1 DEF Returned
  <2>4. ~ Settling(r, m)'
    BY <1>11, <2>2 DEF Settling
  <2>5. \A s \in Requests : req[s].at \in {"release.tx", "refund.tx"} /\ req[s].m = m
                              => req'[s] = req[s]
    BY <1>1, <1>11
  <2>. QED
    BY <1>2, <1>11, <2>1, <2>3, <2>4, <2>5, ElsewhereCalm
<1>12. CASE ReleaseTransfer(r) /\ req[r].m = m
  <2>1. /\ req[r] \in Handlers /\ req[r].at = "release.transfer" /\ Settling(r, m)
        /\ transfers' = transfers \cup {m} /\ UNCHANGED <<milestone, refunds>>
    BY <1>0, <1>12 DEF ReleaseTransfer, dbVars, Settling
  <2>2. req'[r].m = m /\ req'[r].at = "release.tx"
    BY <1>0, <1>12, <2>1 DEF ReleaseTransfer, Goto, TypeOK, Handlers
  <2>3. milestone[m] = "FUNDED" /\ \A code \in Codes : ~ Returned(m, code)
    BY <2>1, Alone
  <2>4. \A code \in Codes : ~ Returned(m, code)'
    BY <2>1, <2>3 DEF Returned
  <2>. QED
    BY <2>1, <2>2, <2>3, <2>4 DEF Calm
<1>13. CASE RefundStripe(r) /\ req[r].m # m
  <2>1. /\ req[r] \in Handlers /\ req[r].at = "refund.stripe"
        /\ UNCHANGED <<milestone, transfers>>
        /\ refunds' = refunds \cup
             {[key |-> req[r].key, m |-> req[r].m, code |-> req[r].code]}
    BY <1>0, <1>13 DEF RefundStripe, dbVars
  <2>2. req'[r].m = req[r].m
    BY <1>0, <1>13, <2>1 DEF RefundStripe, Goto, TypeOK, Handlers
  <2>3. \A code \in Codes : Returned(m, code)' => Returned(m, code)
    <3>. DEFINE x == [key |-> req[r].key, m |-> req[r].m, code |-> req[r].code]
    <3>1. x.m # m /\ refunds' = refunds \cup {x}
      BY <1>13, <2>1
    <3>. HIDE DEF x
    <3>. QED
      BY <3>1 DEF Returned
  <2>4. ~ Settling(r, m)'
    BY <1>13, <2>2 DEF Settling
  <2>5. \A s \in Requests : req[s].at \in {"release.tx", "refund.tx"} /\ req[s].m = m
                              => req'[s] = req[s]
    BY <1>1, <1>13
  <2>. QED
    BY <1>2, <2>1, <2>3, <2>4, <2>5, ElsewhereCalm
<1>14. CASE RefundStripe(r) /\ req[r].m = m
  <2>1. /\ req[r] \in Handlers /\ req[r].at = "refund.stripe" /\ Settling(r, m)
        /\ UNCHANGED <<milestone, transfers>>
    BY <1>0, <1>14 DEF RefundStripe, dbVars, Settling
  <2>2. req'[r].m = m /\ req'[r].at = "refund.tx"
    BY <1>0, <1>14, <2>1 DEF RefundStripe, Goto, TypeOK, Handlers
  <2>3. milestone[m] = "FUNDED" /\ m \notin transfers
    BY <2>1, Alone
  <2>. QED
    BY <2>1, <2>2, <2>3 DEF Calm
<1>15. CASE (ReleaseTx(r) \/ RefundTx(r)) /\ req[r].m # m
  <2>1. /\ req[r] \in Handlers /\ UNCHANGED <<transfers, refunds>>
        /\ milestone'[m] = milestone[m]
    BY <1>0, <1>15 DEF ReleaseTx, RefundTx, stripeVars, TypeOK
  <2>2. req'[r].at \in {"complete.count", "idle"}
    BY <1>0, <1>15, <2>1 DEF ReleaseTx, RefundTx, Goto, Return, TypeOK, Handlers
  <2>. QED
    BY <1>3, <1>15, <2>1, <2>2 DEF Settling
<1>16. CASE ReleaseTx(r) /\ req[r].m = m
  <2>1. /\ req[r] \in Handlers /\ req[r].at = "release.tx" /\ Settling(r, m)
        /\ UNCHANGED <<transfers, refunds>> /\ milestone'[m] = "RELEASED"
    BY <1>0, <1>16 DEF ReleaseTx, stripeVars, TypeOK, Settling
  <2>2. req'[r].at = "complete.count"
    BY <1>0, <1>16, <2>1 DEF ReleaseTx, Goto, TypeOK, Handlers
  <2>3. /\ \A s \in Requests : ~ Settling(s, m)'
        /\ \A code \in Codes : ~ Returned(m, code)'
    BY <1>2, <2>1, <2>2, Alone DEF Returned, Settling
  <2>. QED
    BY <2>1, <2>3 DEF Calm
<1>17. CASE RefundTx(r) /\ req[r].m = m
  <2>1. /\ req[r] \in Handlers /\ req[r].at = "refund.tx" /\ Settling(r, m)
        /\ UNCHANGED <<transfers, refunds>> /\ milestone'[m] = "REFUNDED"
    BY <1>0, <1>17 DEF RefundTx, stripeVars, TypeOK, Settling
  <2>2. req'[r].at \in {"complete.count", "idle"}
    BY <1>0, <1>17, <2>1 DEF RefundTx, Goto, Return, TypeOK, Handlers
  <2>3. (\A s \in Requests : ~ Settling(s, m)') /\ m \notin transfers
    BY <1>2, <2>1, <2>2, Alone DEF Settling
  <2>. QED
    BY <2>1, <2>3 DEF Calm
<1>18. CASE ReleaseTxConflict(r)
  <2>1. /\ req[r] \in Handlers /\ req[r].at = "release.tx"
        /\ UNCHANGED <<milestone, transfers, refunds>> /\ payout[req[r].m] # "none"
    BY <1>0, <1>18 DEF ReleaseTxConflict, dbVars, stripeVars
  <2>2. req'[r].at = "idle"
    BY <1>0, <1>18 DEF ReleaseTxConflict, Return, TypeOK
  <2>3. req[r].m # m
    BY <2>1, Alone DEF PaidIsSettled, Settling
  <2>. QED
    BY <1>3, <2>1, <2>2, <2>3 DEF Settling
<1>. QED
  BY <1>4, <1>5, <1>6, <1>7, <1>8, <1>9, <1>10, <1>11, <1>12, <1>13, <1>14, <1>15, <1>16,
     <1>17, <1>18 DEF RequestStep

LEMMA LedgerInvKept ==
  ASSUME IInv, LedgerInv, [HistoryNext]_historyVars
  PROVE  LedgerInv'
<1>1. CASE UNCHANGED historyVars
  BY <1>1 DEF historyVars, vars, dbVars, stripeVars, LedgerInv, PaidIsSettled, Calm, Overlap,
     Settling, Returned
<1>2. CASE HistoryNext
  <2>1. /\ PaidIsSettled'
        /\ contested' \subseteq Milestones
    BY <1>2, PaidStaysSettled DEF HistoryNext, LedgerInv
  <2>2. ASSUME NEW m \in Milestones \ contested' PROVE Calm(m)'
    <3>1. Calm(m) /\ ~ Overlap(m)' /\ ~ StopsHalfWay(m)
      BY <1>2 DEF HistoryNext, LedgerInv
    <3>2. CASE \E r \in Requests : RequestStep(r)
      BY <3>1, <3>2, RequestKeepsCalm DEF LedgerInv
    <3>3. CASE StripeStep \/ \E h \in Deliveries : HookStep(h)
      <4>1. UNCHANGED <<transfers, refunds, req>>
        BY <3>3 DEF StripeStep, PiSucceeds, PiDeclined, PiCanceled, HookStep, HookStart, HookMark,
           HookFund, HookDone, HookFails, dbVars, stripeVars
      <4>2. PICK n : UNCHANGED milestone \/ MarkFunded(n)
        BY <3>3 DEF StripeStep, PiSucceeds, PiDeclined, PiCanceled, HookStep, HookStart, HookMark,
           HookFund, HookDone, HookFails, dbVars, stripeVars
      <4>3. \/ milestone'[m] = milestone[m]
            \/ milestone[m] = "PENDING" /\ milestone'[m] = "FUNDED"
        BY <4>2, MarkMoves DEF IInv
      <4>4. /\ \A code \in Codes : Returned(m, code)' => Returned(m, code)
            /\ \A s \in Requests : Settling(s, m)' => Settling(s, m)
        BY <4>1 DEF Returned, Settling
      <4>. QED
        BY <3>1, <4>1, <4>3, <4>4, ElsewhereCalm
    <3>. QED
      BY <1>2, <3>2, <3>3 DEF HistoryNext, Next
  <2>. QED
    BY <2>1, <2>2 DEF LedgerInv
<1>. QED
  BY <1>1, <1>2
-----------------------------------------------------------------------------
(* The columns of the ledger.                                              *)
Collected == {pi \in PIs : stripePi[pi] = "succeeded"}
GivenBack == [pi \in PIs |->
                Cardinality({x \in refunds : x.m = pi[1] /\ x.code = pi[2]})]

(* A charge that no refund names was returned zero times.                  *)
LEMMA NotGivenBack ==
  ASSUME NEW m \in Milestones, NEW code \in Codes, ~ Returned(m, code)
  PROVE  GivenBack[<<m, code>>] = 0
<1>1. <<m, code>> \in PIs /\ {x \in refunds : x.m = m /\ x.code = code} = {}
  BY DEF PIs, Returned
<1>. QED
  BY <1>1, FS_EmptySet DEF GivenBack

(* A step that begins no settlement and that no failing request takes      *)
(* contests nothing.                                                       *)
LEMMA ContestsNothing ==
  ASSUME LedgerInv, HistoryNext,
         \A r \in Requests, m \in Milestones : Settling(r, m)' => Settling(r, m),
         \A r \in Requests : ~ RequestFails(r)
  PROVE  contested' = contested
<1>1. \A m \in Milestones : Overlap(m)' => m \in contested
  BY DEF Overlap, LedgerInv, Calm
<1>. QED
  BY <1>1 DEF HistoryNext, StopsHalfWay

(* Stripe's steps and those of fundMilestone collect a charge or move no   *)
(* money.                                                                  *)
LEMMA CollectOnce ==
  ASSUME IInv, LedgerInv, HistoryNext, UNCHANGED <<transfers, refunds>>,
         NEW m \in Milestones, NEW code \in Codes, NEW s,
         stripePi[<<m, code>>] \notin {"succeeded"},
         stripePi' = [stripePi EXCEPT ![<<m, code>>] = s],
         Collected' # Collected => contested' = contested
  PROVE  \/ Ledger!Collect(m, code)
         \/ UNCHANGED <<Collected, transfers, GivenBack>>
<1>1. <<m, code>> \in PIs /\ stripePi \in [PIs -> StripePiStatuses \cup {"absent"}]
  BY DEF IInv, TypeOK, PIs
<1>2. UNCHANGED GivenBack
  BY DEF GivenBack
<1>3. CASE s = "succeeded"
  <2>1. /\ <<m, code>> \notin Collected /\ Collected' = Collected \cup {<<m, code>>}
    BY <1>1, <1>3 DEF Collected
  <2>2. contested' = contested
    BY <2>1
  <2>. QED
    BY <1>2, <2>1, <2>2 DEF Ledger!Collect, Collected, GivenBack
<1>4. CASE s # "succeeded"
  BY <1>1, <1>2, <1>4 DEF Collected
<1>. QED
  BY <1>3, <1>4

LEMMA RequestFollowsLedger ==
  ASSUME IInv, LedgerInv, HistoryNext, NEW r \in Requests, RequestStep(r)
  PROVE  \/ \E m \in Milestones : Ledger!PayOut(m)
         \/ \E m \in Milestones, code \in Codes :
              Ledger!Collect(m, code) \/ Ledger!Return(m, code)
         \/ UNCHANGED <<Collected, transfers, GivenBack>>
<1>0. /\ TypeOK
      /\ \A s \in Requests : req[s].at # "idle" => req[s] \in Handlers
  BY BusySlot DEF IInv
<1>1. ASSUME NEW s \in StripePiStatuses, FundCharge(r, s)
      PROVE  \/ \E m \in Milestones, code \in Codes : Ledger!Collect(m, code)
             \/ UNCHANGED <<Collected, transfers, GivenBack>>
  <2>1. PICK m \in Milestones, code \in Codes : m = req[r].m /\ code = req[r].code
    BY <1>0, <1>1 DEF FundCharge, Handlers
  <2>2. /\ stripePi[<<m, code>>] = "absent"
        /\ stripePi' = [stripePi EXCEPT ![<<m, code>>] = s]
        /\ UNCHANGED <<transfers, refunds>>
    BY <1>1, <2>1 DEF FundCharge
  <2>3. \A q \in Requests, n \in Milestones : Settling(q, n)' => Settling(q, n)
    <3>1. req'[r].at = "fund.tx" /\ \A q \in Requests \ {r} : req'[q] = req[q]
      BY <1>0, <1>1 DEF FundCharge, TypeOK, Handlers
    <3>. QED
      BY <3>1 DEF Settling
  <2>4. Collected' # Collected => contested' = contested
    <3>1. ASSUME NEW q \in Requests, RequestFails(q) PROVE Collected' = Collected
      BY <3>1 DEF RequestFails, Collected, stripeVars
    <3>. QED
      BY <2>3, <3>1, ContestsNothing
  <2>. QED
    BY <2>2, <2>4, CollectOnce
<1>2. CASE ReleaseTransfer(r)
  <2>1. PICK m \in Milestones : m = req[r].m
    BY <1>0, <1>2 DEF ReleaseTransfer, Handlers
  <2>2. /\ req[r] \in Handlers /\ req[r].at = "release.transfer" /\ Settling(r, m)
        /\ transfers' = transfers \cup {m} /\ UNCHANGED <<stripePi, refunds>>
    BY <1>0, <1>2, <2>1 DEF ReleaseTransfer, Settling
  <2>3. UNCHANGED <<Collected, GivenBack>>
    BY <2>2 DEF Collected, GivenBack
  <2>4. CASE m \in transfers
    BY <2>2, <2>3, <2>4
  <2>5. CASE m \notin transfers
    <3>1. contested' = contested
      <4>1. req'[r].m = m /\ \A q \in Requests \ {r} : req'[q] = req[q]
        BY <1>0, <1>2, <2>1, <2>2 DEF ReleaseTransfer, Goto, TypeOK, Handlers
      <4>2. \A q \in Requests, n \in Milestones : Settling(q, n)' => Settling(q, n)
        BY <2>1, <2>2, <4>1 DEF Settling
      <4>3. \A q \in Requests : ~ RequestFails(q)
        BY <2>2, <2>5 DEF RequestFails, stripeVars
      <4>. QED
        BY <4>2, <4>3, ContestsNothing
    <3>2. PICK code \in Codes : stripePi[<<m, code>>] = "succeeded"
      BY <2>1, <2>2 DEF IInv, ReqKnows, MoneyOutNeedsMoneyIn, Charged
    <3>3. <<m, code>> \in Collected
      BY <3>2 DEF Collected, PIs
    <3>4. m \in contested \/ \A c \in Codes : GivenBack[<<m, c>>] = 0
      <4>1. CASE m \notin contested
        BY <2>2, <4>1, Alone, NotGivenBack DEF LedgerInv
      <4>. QED
        BY <4>1
    <3>5. Ledger!PayOut(m)
      BY <2>2, <2>3, <2>5, <3>1, <3>3, <3>4
      DEF Ledger!PayOut, Ledger!Untouched, Collected, GivenBack
    <3>. QED
      BY <3>5
  <2>. QED
    BY <2>4, <2>5
<1>3. CASE RefundStripe(r)
  <2>1. PICK m \in Milestones, code \in Codes : m = req[r].m /\ code = req[r].code
    BY <1>0, <1>3 DEF RefundStripe, Handlers
  <2>. DEFINE x == [key |-> req[r].key, m |-> m, code |-> code]
  <2>2. /\ req[r] \in Handlers /\ req[r].at = "refund.stripe" /\ Settling(r, m)
        /\ refunds' = refunds \cup {x} /\ UNCHANGED <<stripePi, transfers>>
        /\ x \in refunds \/ ~ Returned(m, code)
    BY <1>0, <1>3, <2>1 DEF RefundStripe, RefundAccepted, Settling
  <2>3. UNCHANGED Collected
    BY <2>2 DEF Collected
  <2>4. CASE x \in refunds
    <3>1. refunds' = refunds
      BY <2>2, <2>4
    <3>. QED
      BY <2>2, <2>3, <3>1 DEF GivenBack
  <2>5. CASE x \notin refunds
    <3>1. contested' = contested
      <4>1. req'[r].m = m /\ \A q \in Requests \ {r} : req'[q] = req[q]
        BY <1>0, <1>3, <2>1, <2>2 DEF RefundStripe, Goto, TypeOK, Handlers
      <4>2. \A q \in Requests, n \in Milestones : Settling(q, n)' => Settling(q, n)
        BY <2>1, <2>2, <4>1 DEF Settling
      <4>3. refunds' # refunds
        <5>. HIDE DEF x
        <5>. QED
          BY <2>2, <2>5
      <4>4. \A q \in Requests : ~ RequestFails(q)
        BY <4>3 DEF RequestFails, stripeVars
      <4>. QED
        BY <4>2, <4>4, ContestsNothing
    <3>2. <<m, code>> \in Collected
      BY <2>1, <2>2 DEF IInv, ReqKnows, Collected, PIs
    <3>3. GivenBack[<<m, code>>] = 0
      BY <2>2, <2>5, NotGivenBack
    <3>4. m \in contested \/ (m \notin transfers /\ \A c \in Codes : GivenBack[<<m, c>>] = 0)
      <4>1. CASE m \notin contested
        BY <2>2, <4>1, Alone, NotGivenBack DEF LedgerInv
      <4>. QED
        BY <4>1
    <3>5. GivenBack' = [GivenBack EXCEPT ![<<m, code>>] = 1]
      <4>1. x.m = m /\ x.code = code
        OBVIOUS
      <4>. HIDE DEF x
      <4>2. {y \in refunds' : y.m = m /\ y.code = code} = {x}
        BY <2>2, <2>5, <4>1 DEF Returned
      <4>3. Cardinality({x}) = 1
        BY FS_Singleton
      <4>4. \A pi \in PIs : pi # <<m, code>> =>
              {y \in refunds' : y.m = pi[1] /\ y.code = pi[2]}
                = {y \in refunds : y.m = pi[1] /\ y.code = pi[2]}
        BY <2>2, <4>1 DEF PIs
      <4>5. \A pi \in PIs : pi # <<m, code>> => GivenBack'[pi] = GivenBack[pi]
        BY <4>4 DEF GivenBack
      <4>6. GivenBack'[<<m, code>>] = 1
        BY <4>2, <4>3 DEF GivenBack, PIs
      <4>7. /\ DOMAIN GivenBack = PIs /\ DOMAIN GivenBack' = PIs
            /\ GivenBack' = [pi \in PIs |-> GivenBack'[pi]]
        BY DEF GivenBack
      <4>. HIDE DEF GivenBack
      <4>. QED
        BY <4>5, <4>6, <4>7
    <3>6. Ledger!Return(m, code)
      BY <2>2, <2>3, <3>1, <3>2, <3>3, <3>4, <3>5
      DEF Ledger!Return, Ledger!Untouched, Collected, GivenBack
    <3>. QED
      BY <3>6
  <2>. QED
    BY <2>4, <2>5
<1>4. CASE ~ ((\E s \in StripePiStatuses : FundCharge(r, s)) \/ ReleaseTransfer(r)
              \/ RefundStripe(r))
  <2>1. UNCHANGED <<stripePi, transfers, refunds>>
    BY <1>4 DEF RequestStep, FundStart, FundReplay, FundTx, FundTxRollback, FundMark,
       ReleaseStart, ReleaseTx, ReleaseTxConflict, RefundStart, RefundPick, RefundNoPi,
       RefundRejected, RefundTx, CompleteCount, CompleteUpdate, RequestFails, stripeVars
  <2>. QED
    BY <2>1 DEF Collected, GivenBack
<1>. QED
  BY <1>1, <1>2, <1>3, <1>4

LEMMA StepFollowsLedger ==
  ASSUME IInv, LedgerInv, HistoryNext
  PROVE  \/ \E m \in Milestones : Ledger!PayOut(m)
         \/ \E m \in Milestones, code \in Codes :
              Ledger!Collect(m, code) \/ Ledger!Return(m, code)
         \/ UNCHANGED <<Collected, transfers, GivenBack>>
<1>1. CASE \E r \in Requests : RequestStep(r)
  BY <1>1, RequestFollowsLedger
<1>2. CASE StripeStep
  <2>1. PICK m \in Milestones, code \in Codes :
          PiSucceeds(m, code) \/ PiDeclined(m, code) \/ PiCanceled(m, code)
    BY <1>2 DEF StripeStep
  <2>2. UNCHANGED <<transfers, refunds, req>>
    BY <2>1 DEF PiSucceeds, PiDeclined, PiCanceled
  <2>3. CASE UNCHANGED stripePi
    BY <2>2, <2>3 DEF Collected, GivenBack
  <2>4. CASE stripePi' # stripePi
    <3>1. /\ stripePi[<<m, code>>] = "requires_action"
          /\ \E s \in {"succeeded", "canceled"} :
               stripePi' = [stripePi EXCEPT ![<<m, code>>] = s]
      BY <2>1, <2>4 DEF PiSucceeds, PiDeclined, PiCanceled
    <3>2. \A q \in Requests : ~ RequestFails(q)
      BY <2>4 DEF RequestFails, stripeVars
    <3>3. \A q \in Requests, n \in Milestones : Settling(q, n)' => Settling(q, n)
      BY <2>2 DEF Settling
    <3>4. contested' = contested
      BY <3>2, <3>3, ContestsNothing
    <3>. QED
      BY <2>2, <3>1, <3>4, CollectOnce
  <2>. QED
    BY <2>3, <2>4
<1>3. CASE \E h \in Deliveries : HookStep(h)
  <2>1. UNCHANGED <<stripePi, transfers, refunds>>
    BY <1>3 DEF HookStep, HookStart, HookMark, HookFund, HookDone, HookFails, stripeVars
  <2>. QED
    BY <2>1 DEF Collected, GivenBack
<1>. QED
  BY <1>1, <1>2, <1>3 DEF HistoryNext, Next

(* Whatever requests, coupon codes, deliveries and failures there are, the *)
(* money at Stripe moves as the ledger says: each charge is collected and  *)
(* returned at most once, nothing goes out that did not come in, and the   *)
(* money of a milestone goes both ways, or back twice, only after two of   *)
(* its settlements overlapped or one stopped half way.                     *)
THEOREM EscrowImplementsLedger == HistorySpec => ImplementsLedger
<1>1. HistoryInit => LedgerInv
  BY DEF HistoryInit, Init, LedgerInv, PaidIsSettled, Calm, Overlap, Settling, Idle, Returned
<1>2. IInv /\ LedgerInv /\ [HistoryNext]_historyVars => LedgerInv'
  BY LedgerInvKept
<1>3. HistoryInit => Ledger!Init
  <2>. SUFFICES ASSUME HistoryInit PROVE Ledger!Init
    OBVIOUS
  <2>1. Collected = {}
    BY DEF HistoryInit, Init, Collected
  <2>2. GivenBack = [pi \in PIs |-> 0]
    <3>1. \A pi \in PIs : {x \in refunds : x.m = pi[1] /\ x.code = pi[2]} = {}
      BY DEF HistoryInit, Init
    <3>. QED
      BY <3>1, FS_EmptySet DEF GivenBack
  <2>. QED
    BY <2>1, <2>2 DEF HistoryInit, Init, Ledger!Init, Ledger!Charges, PIs, Collected, GivenBack
<1>4. IInv /\ LedgerInv /\ LedgerInv' /\ [HistoryNext]_historyVars
        => [Ledger!Next]_Ledger!ledgerVars
  <2>. SUFFICES ASSUME IInv, LedgerInv, LedgerInv', [HistoryNext]_historyVars
                PROVE  Ledger!Next \/ UNCHANGED Ledger!ledgerVars
    OBVIOUS
  <2>1. CASE UNCHANGED <<Collected, transfers, GivenBack>> /\ HistoryNext
    <3>1. contested' \in SUBSET Milestones /\ contested \subseteq contested'
      BY <2>1 DEF HistoryNext, LedgerInv
    <3>. QED
      BY <2>1, <3>1 DEF Ledger!Next, Ledger!Contest, Collected, GivenBack
  <2>2. CASE UNCHANGED historyVars
    BY <2>2 DEF historyVars, vars, stripeVars, Ledger!ledgerVars
  <2>3. CASE HistoryNext /\ ~ UNCHANGED <<Collected, transfers, GivenBack>>
    BY <2>3, StepFollowsLedger DEF Ledger!Next
  <2>. QED
    BY <2>1, <2>2, <2>3
<1>5. HistorySpec => Spec
  <2>1. HistoryInit => Init
    BY DEF HistoryInit
  <2>2. [HistoryNext]_historyVars => [Next]_vars
    BY DEF HistoryNext, historyVars
  <2>. QED
    BY <2>1, <2>2, PTL DEF HistorySpec, Spec
<1>. QED
  BY <1>1, <1>2, <1>3, <1>4, <1>5, Invariance, PTL DEF HistorySpec, Ledger!Spec, ImplementsLedger
=============================================================================
