------------------------------- MODULE Escrow -------------------------------
(***************************************************************************)
(* The milestone escrow of apps/api/src/payments: fundMilestone,           *)
(* releaseMilestone and refundMilestone of PaymentsService, the admin      *)
(* refund of AdminFinanceService, and the payment_intent.* branch of the   *)
(* Stripe webhook, over the milestones of ONE contract.                    *)
(*                                                                         *)
(* A handler is a sequence of atomic steps: a database statement, a        *)
(* database transaction, or a call to Stripe.  Between two steps any other *)
(* request, webhook delivery or Stripe event may run, and what a handler   *)
(* read before an await is what it uses after it.                          *)
(***************************************************************************)
EXTENDS Naturals, FiniteSets

CONSTANTS
  Milestones,       \* the milestones of the contract
  Coupons,          \* coupon codes the company may type when it funds
  NoCoupon,         \* the 'none' of the idempotency key fund-<m>-<code|none>
  Requests,         \* slots: HTTP requests in flight at the same time
  Deliveries,       \* slots: webhook deliveries in flight at the same time
  AdminRefunds,     \* whether finance admins use their refund endpoint
  RequestsMayFail   \* whether a request may stop between two of its steps

Codes == Coupons \cup {NoCoupon}

ASSUME EscrowAssumption ==
  /\ NoCoupon \notin Coupons
  /\ AdminRefunds \in BOOLEAN
  /\ RequestsMayFail \in BOOLEAN

VARIABLES
  milestone,    \* Milestone.status
  piRow,        \* PaymentIntent.status of the row of a Stripe PI, or "none"
  piCreated,    \* PaymentIntent.createdAt, as an order; 0 when there is no row
  clock,        \* the last createdAt handed out
  redemption,   \* the code a CouponRedemption row holds for a milestone
  payout,       \* Payout.status, or "none" when there is no row
  processed,    \* StripeWebhookEvent rows with processedAt set
  contract,     \* Contract.status and whether Contract.completedAt is set
  stripePi,     \* Stripe: status of the PI created under a key, or "absent"
  firstReply,   \* Stripe: the status replayed for a reused key
  events,       \* Stripe: payment_intent.* events emitted so far
  transfers,    \* Stripe: milestones whose transfer was created
  refunds,      \* Stripe: refunds created, each with the key it was made under
  req,          \* requests in flight
  hook          \* webhook deliveries in flight

dbVars     == <<milestone, piRow, piCreated, clock, redemption, payout,
                processed, contract>>
stripeVars == <<stripePi, firstReply, events, transfers, refunds>>
vars       == <<dbVars, stripeVars, req, hook>>

(* A Stripe PI is identified by the idempotency key it was created under.  *)
PIs == Milestones \X Codes

MilestoneStatuses == {"PENDING", "FUNDED", "RELEASED", "REFUNDED"}

(* "requires_action" stands for every status that waits for the customer or *)
(* the bank: requires_payment_method, requires_confirmation, processing...  *)
StripePiStatuses == {"requires_action", "succeeded", "canceled"}

(* A variant the checks refute: a PI that only waits counts as paid.       *)
OptimisticPiStatus ==
  [requires_action |-> "SUCCEEDED", succeeded |-> "SUCCEEDED",
   canceled |-> "CANCELED"]

mapStripePiStatus ==
  [requires_action |-> "REQUIRES_ACTION", succeeded |-> "SUCCEEDED",
   canceled |-> "CANCELED"]

PiRowStatuses == {"REQUIRES_ACTION", "SUCCEEDED", "FAILED", "CANCELED"}

(* A variant the checks refute: the event's own name becomes the status.   *)
RawEventStatus ==
  [succeeded |-> "SUCCEEDED", payment_failed |-> "PAYMENT_FAILED",
   canceled |-> "CANCELED"]

(* The row status the webhook writes for each event type.                  *)
EventStatus ==
  [succeeded |-> "SUCCEEDED", payment_failed |-> "FAILED",
   canceled |-> "CANCELED"]

Events == [type : DOMAIN EventStatus, m : Milestones, code : Codes]

RefundKeys == {"refund", "admin-refund"}
Refunds    == [key : RefundKeys, m : Milestones, code : Codes]

(* Where a request stands: the step it takes next.                         *)
Labels == {"fund.stripe", "fund.tx", "fund.mark",
           "release.transfer", "release.tx",
           "refund.pick", "refund.stripe", "refund.tx",
           "complete.count", "complete.update"}

(* key: the prefix of its idempotency key; code: the coupon of a fund, or  *)
(* the PI a refund picked; reply: the PI status Stripe returned to a fund. *)
Handlers == [at : Labels, key : {"fund", "release"} \cup RefundKeys,
             m : Milestones, code : Codes,
             reply : StripePiStatuses \cup {"none"}]

HookLabels == {"hook.mark", "hook.fund", "hook.done"}
Hooks      == [at : HookLabels, e : Events]

Idle == [at |-> "idle"]

Start(r, at, key, m, code) ==
  req' = [req EXCEPT ![r] = [at |-> at, key |-> key, m |-> m, code |-> code,
                             reply |-> "none"]]
Goto(r, at) == req' = [req EXCEPT ![r].at = at]
Return(r)   == req' = [req EXCEPT ![r] = Idle]

Emit(type, m, code) ==
  events' = events \cup {[type |-> type, m |-> m, code |-> code]}

Init ==
  /\ milestone  = [m \in Milestones |-> "PENDING"]
  /\ piRow      = [pi \in PIs |-> "none"]
  /\ piCreated  = [pi \in PIs |-> 0]
  /\ clock      = 0
  /\ redemption = [m \in Milestones |-> NoCoupon]
  /\ payout     = [m \in Milestones |-> "none"]
  /\ processed  = {}
  /\ contract   = [status |-> "ACTIVE", completedAt |-> FALSE]
  /\ stripePi   = [pi \in PIs |-> "absent"]
  /\ firstReply = [pi \in PIs |-> "absent"]
  /\ events     = {}
  /\ transfers  = {}
  /\ refunds    = {}
  /\ req        = [r \in Requests |-> Idle]
  /\ hook       = [h \in Deliveries |-> Idle]

-----------------------------------------------------------------------------
(* fundMilestone                                                           *)

FundStart(r, m, code) ==
  /\ req[r] = Idle
  /\ milestone[m] = "PENDING"
  /\ Start(r, "fund.stripe", "fund", m, code)
  /\ UNCHANGED <<dbVars, stripeVars, hook>>

(* First use of the key: Stripe creates the PI and confirms it at once.    *)
FundCharge(r, s) ==
  LET m == req[r].m  code == req[r].code IN
  /\ req[r].at = "fund.stripe"
  /\ stripePi[<<m, code>>] = "absent"
  /\ s \in {"requires_action", "succeeded"}
  /\ stripePi'   = [stripePi EXCEPT ![<<m, code>>] = s]
  /\ firstReply' = [firstReply EXCEPT ![<<m, code>>] = s]
  /\ IF s = "succeeded" THEN Emit("succeeded", m, code) ELSE UNCHANGED events
  /\ req' = [req EXCEPT ![r].at = "fund.tx", ![r].reply = s]
  /\ UNCHANGED <<dbVars, transfers, refunds, hook>>

(* A reused key: Stripe replays the reply it gave the first time, whatever *)
(* has become of the PI since.                                             *)
FundReplay(r) ==
  LET m == req[r].m  code == req[r].code IN
  /\ req[r].at = "fund.stripe"
  /\ stripePi[<<m, code>>] # "absent"
  /\ req' = [req EXCEPT ![r].at = "fund.tx", ![r].reply = firstReply[<<m, code>>]]
  /\ UNCHANGED <<dbVars, stripeVars, hook>>

UpsertPi(m, code, status) ==
  /\ piRow' = [piRow EXCEPT ![<<m, code>>] = status]
  /\ IF piRow[<<m, code>>] = "none"
       THEN /\ clock' = clock + 1
            /\ piCreated' = [piCreated EXCEPT ![<<m, code>>] = clock + 1]
       ELSE UNCHANGED <<clock, piCreated>>

(* applyToMilestone: a milestone holds at most one redemption, re-applying *)
(* the same coupon is a no-op, another coupon is refused.                  *)
ApplyCoupon(m, code) ==
  /\ code = NoCoupon \/ redemption[m] \in {NoCoupon, code}
  /\ redemption' = [redemption EXCEPT ![m] = IF code = NoCoupon THEN @ ELSE code]

FundTx(r) ==
  LET m == req[r].m  code == req[r].code IN
  /\ req[r].at = "fund.tx"
  /\ UpsertPi(m, code, mapStripePiStatus[req[r].reply])
  /\ ApplyCoupon(m, code)
  /\ IF req[r].reply = "succeeded" THEN Goto(r, "fund.mark") ELSE Return(r)
  /\ UNCHANGED <<milestone, payout, processed, contract, stripeVars, hook>>

(* The coupon cannot be applied (another one is, or it is no longer        *)
(* eligible, or its caps are reached): the whole transaction rolls back    *)
(* and the PI stays behind at Stripe.                                      *)
FundTxRollback(r) ==
  /\ req[r].at = "fund.tx"
  /\ req[r].code # NoCoupon
  /\ Return(r)
  /\ UNCHANGED <<dbVars, stripeVars, hook>>

(* A variant the checks refute: the update is not guarded by PENDING.      *)
ForceFunded(m) == milestone' = [milestone EXCEPT ![m] = "FUNDED"]

MarkFunded(m) ==
  milestone' = [milestone EXCEPT ![m] = IF @ = "PENDING" THEN "FUNDED" ELSE @]

FundMark(r) ==
  /\ req[r].at = "fund.mark"
  /\ MarkFunded(req[r].m)
  /\ Return(r)
  /\ UNCHANGED <<piRow, piCreated, clock, redemption, payout, processed,
                 contract, stripeVars, hook>>

-----------------------------------------------------------------------------
(* releaseMilestone                                                        *)

(* Variants the checks refute: an unfunded milestone is released, and the  *)
(* rows are written before the transfer.                                   *)
ReleaseUnfunded(r, m) ==
  /\ req[r] = Idle
  /\ milestone[m] \in {"PENDING", "FUNDED"}
  /\ Start(r, "release.transfer", "release", m, NoCoupon)
  /\ UNCHANGED <<dbVars, stripeVars, hook>>

ReleaseRowsFirst(r, m) ==
  /\ req[r] = Idle
  /\ milestone[m] = "FUNDED"
  /\ Start(r, "release.tx", "release", m, NoCoupon)
  /\ UNCHANGED <<dbVars, stripeVars, hook>>

ReleaseStart(r, m) ==
  /\ req[r] = Idle
  /\ milestone[m] = "FUNDED"
  /\ Start(r, "release.transfer", "release", m, NoCoupon)
  /\ UNCHANGED <<dbVars, stripeVars, hook>>

(* The key release-<m> makes the transfer at most once.                    *)
ReleaseTransfer(r) ==
  /\ req[r].at = "release.transfer"
  /\ transfers' = transfers \cup {req[r].m}
  /\ Goto(r, "release.tx")
  /\ UNCHANGED <<dbVars, stripePi, firstReply, events, refunds, hook>>

(* The status is not tested again; only Payout.stripeTransferId is unique. *)
ReleaseTx(r) ==
  LET m == req[r].m IN
  /\ req[r].at = "release.tx"
  /\ payout[m] = "none"
  /\ milestone' = [milestone EXCEPT ![m] = "RELEASED"]
  /\ payout' = [payout EXCEPT ![m] = "IN_TRANSIT"]
  /\ Goto(r, "complete.count")
  /\ UNCHANGED <<piRow, piCreated, clock, redemption, processed, contract,
                 stripeVars, hook>>

ReleaseTxConflict(r) ==
  /\ req[r].at = "release.tx"
  /\ payout[req[r].m] # "none"
  /\ Return(r)
  /\ UNCHANGED <<dbVars, stripeVars, hook>>

-----------------------------------------------------------------------------
(* refundMilestone, of the company and of the admin                        *)

(* A variant the checks refute: a released milestone is refunded.          *)
RefundReleased(r, m, key) ==
  /\ req[r] = Idle
  /\ milestone[m] \in {"FUNDED", "RELEASED"}
  /\ Start(r, "refund.pick", key, m, NoCoupon)
  /\ UNCHANGED <<dbVars, stripeVars, hook>>

RefundStart(r, m, key) ==
  /\ req[r] = Idle
  /\ milestone[m] = "FUNDED"
  /\ key = "admin-refund" => AdminRefunds
  /\ Start(r, "refund.pick", key, m, NoCoupon)
  /\ UNCHANGED <<dbVars, stripeVars, hook>>

Succeeded(m) == {code \in Codes : piRow[<<m, code>>] = "SUCCEEDED"}

IsLastPi(m, code) ==
  /\ code \in Succeeded(m)
  /\ \A other \in Succeeded(m) : piCreated[<<m, other>>] <= piCreated[<<m, code>>]

RefundPick(r, code) ==
  /\ req[r].at = "refund.pick"
  /\ IsLastPi(req[r].m, code)
  /\ req' = [req EXCEPT ![r].at = "refund.stripe", ![r].code = code]
  /\ UNCHANGED <<dbVars, stripeVars, hook>>

RefundNoPi(r) ==
  /\ req[r].at = "refund.pick"
  /\ Succeeded(req[r].m) = {}
  /\ Return(r)
  /\ UNCHANGED <<dbVars, stripeVars, hook>>

Returned(m, code) == \E x \in refunds : x.m = m /\ x.code = code

(* A reused key replays the refund when it names the same PI and is an     *)
(* error otherwise; a PI already refunded is refused under another key.    *)
RefundAccepted(r) ==
  LET x == [key |-> req[r].key, m |-> req[r].m, code |-> req[r].code] IN
  \/ x \in refunds
  \/ /\ ~ \E y \in refunds : y.key = x.key /\ y.m = x.m
     /\ ~ Returned(x.m, x.code)

RefundStripe(r) ==
  /\ req[r].at = "refund.stripe"
  /\ RefundAccepted(r)
  /\ refunds' = refunds \cup
       {[key |-> req[r].key, m |-> req[r].m, code |-> req[r].code]}
  /\ Goto(r, "refund.tx")
  /\ UNCHANGED <<dbVars, stripePi, firstReply, events, transfers, hook>>

RefundRejected(r) ==
  /\ req[r].at = "refund.stripe"
  /\ ~ RefundAccepted(r)
  /\ Return(r)
  /\ UNCHANGED <<dbVars, stripeVars, hook>>

(* A variant the checks refute: no refund looks for completion.            *)
RefundTxOnly(r) ==
  LET m == req[r].m IN
  /\ req[r].at = "refund.tx"
  /\ redemption' = [redemption EXCEPT ![m] = NoCoupon]
  /\ milestone' = [milestone EXCEPT ![m] = "REFUNDED"]
  /\ Return(r)
  /\ UNCHANGED <<piRow, piCreated, clock, payout, processed, contract,
                 stripeVars, hook>>

(* reverseForMilestone and the status flip, in one transaction.  Only the  *)
(* company's refund goes on to maybeCompleteContract.                      *)
RefundTx(r) ==
  LET m == req[r].m IN
  /\ req[r].at = "refund.tx"
  /\ redemption' = [redemption EXCEPT ![m] = NoCoupon]
  /\ milestone' = [milestone EXCEPT ![m] = "REFUNDED"]
  /\ IF req[r].key = "refund" THEN Goto(r, "complete.count") ELSE Return(r)
  /\ UNCHANGED <<piRow, piCreated, clock, payout, processed, contract,
                 stripeVars, hook>>

-----------------------------------------------------------------------------
(* maybeCompleteContract                                                   *)

Open == {m \in Milestones : milestone[m] \in {"PENDING", "FUNDED"}}

CompleteCount(r) ==
  /\ req[r].at = "complete.count"
  /\ IF Open = {} THEN Goto(r, "complete.update") ELSE Return(r)
  /\ UNCHANGED <<dbVars, stripeVars, hook>>

(* A variant the checks refute: the update is not guarded by ACTIVE.       *)
CompleteAnyStatus(r) ==
  /\ req[r].at = "complete.update"
  /\ contract' = [status |-> "COMPLETED", completedAt |-> TRUE]
  /\ Return(r)
  /\ UNCHANGED <<milestone, piRow, piCreated, clock, redemption, payout,
                 processed, stripeVars, hook>>

CompleteUpdate(r) ==
  /\ req[r].at = "complete.update"
  /\ contract' = IF contract.status = "ACTIVE"
                   THEN [status |-> "COMPLETED", completedAt |-> TRUE]
                   ELSE contract
  /\ Return(r)
  /\ UNCHANGED <<milestone, piRow, piCreated, clock, redemption, payout,
                 processed, stripeVars, hook>>

(* A request stops between two steps: Stripe or the database answers with  *)
(* an error, or the process dies.  What it already did stays done.         *)
RequestFails(r) ==
  /\ RequestsMayFail
  /\ req[r] # Idle
  /\ Return(r)
  /\ UNCHANGED <<dbVars, stripeVars, hook>>

-----------------------------------------------------------------------------
(* Stripe, on its own: a PI that waits is paid, declined or canceled.      *)

PiSucceeds(m, code) ==
  /\ stripePi[<<m, code>>] = "requires_action"
  /\ stripePi' = [stripePi EXCEPT ![<<m, code>>] = "succeeded"]
  /\ Emit("succeeded", m, code)
  /\ UNCHANGED <<dbVars, firstReply, transfers, refunds, req, hook>>

PiDeclined(m, code) ==
  /\ stripePi[<<m, code>>] = "requires_action"
  /\ Emit("payment_failed", m, code)
  /\ UNCHANGED <<dbVars, stripePi, firstReply, transfers, refunds, req, hook>>

PiCanceled(m, code) ==
  /\ stripePi[<<m, code>>] = "requires_action"
  /\ stripePi' = [stripePi EXCEPT ![<<m, code>>] = "canceled"]
  /\ Emit("canceled", m, code)
  /\ UNCHANGED <<dbVars, firstReply, transfers, refunds, req, hook>>

-----------------------------------------------------------------------------
(* StripeWebhookController: an event is delivered, in any order and as     *)
(* often as Stripe likes, until a delivery of it is acknowledged.          *)

HookStart(h, e) ==
  /\ hook[h] = Idle
  /\ e \in events \ processed
  /\ hook' = [hook EXCEPT ![h] = [at |-> "hook.mark", e |-> e]]
  /\ UNCHANGED <<dbVars, stripeVars, req>>

(* A variant the checks refute: an event whose row is missing is done.     *)
HookMarkKnown(h) ==
  LET e == hook[h].e  known == piRow[<<e.m, e.code>>] # "none" IN
  /\ hook[h].at = "hook.mark"
  /\ piRow' = [piRow EXCEPT ![<<e.m, e.code>>] =
                 IF known THEN EventStatus[e.type] ELSE @]
  /\ hook' = [hook EXCEPT ![h].at =
                IF known /\ e.type = "succeeded" THEN "hook.fund" ELSE "hook.done"]
  /\ UNCHANGED <<milestone, piCreated, clock, redemption, payout, processed,
                 contract, stripeVars, req>>

(* markPaymentIntentStatus: updateMany, so a missing row is not an error.  *)
HookMark(h) ==
  LET e == hook[h].e IN
  /\ hook[h].at = "hook.mark"
  /\ piRow' = [piRow EXCEPT ![<<e.m, e.code>>] =
                 IF @ = "none" THEN @ ELSE EventStatus[e.type]]
  /\ hook' = [hook EXCEPT ![h].at =
                IF e.type = "succeeded" THEN "hook.fund" ELSE "hook.done"]
  /\ UNCHANGED <<milestone, piCreated, clock, redemption, payout, processed,
                 contract, stripeVars, req>>

HookFund(h) ==
  /\ hook[h].at = "hook.fund"
  /\ MarkFunded(hook[h].e.m)
  /\ hook' = [hook EXCEPT ![h].at = "hook.done"]
  /\ UNCHANGED <<piRow, piCreated, clock, redemption, payout, processed,
                 contract, stripeVars, req>>

HookDone(h) ==
  /\ hook[h].at = "hook.done"
  /\ processed' = processed \cup {hook[h].e}
  /\ hook' = [hook EXCEPT ![h] = Idle]
  /\ UNCHANGED <<milestone, piRow, piCreated, clock, redemption, payout,
                 contract, stripeVars, req>>

HookFails(h) ==
  /\ hook[h] # Idle
  /\ hook' = [hook EXCEPT ![h] = Idle]
  /\ UNCHANGED <<dbVars, stripeVars, req>>

-----------------------------------------------------------------------------
RequestStep(r) ==
  \/ \E m \in Milestones, code \in Codes : FundStart(r, m, code)
  \/ \E s \in StripePiStatuses : FundCharge(r, s)
  \/ FundReplay(r)
  \/ FundTx(r)
  \/ FundTxRollback(r)
  \/ FundMark(r)
  \/ \E m \in Milestones : ReleaseStart(r, m)
  \/ ReleaseTransfer(r)
  \/ ReleaseTx(r)
  \/ ReleaseTxConflict(r)
  \/ \E m \in Milestones, key \in RefundKeys : RefundStart(r, m, key)
  \/ \E code \in Codes : RefundPick(r, code)
  \/ RefundNoPi(r)
  \/ RefundStripe(r)
  \/ RefundRejected(r)
  \/ RefundTx(r)
  \/ CompleteCount(r)
  \/ CompleteUpdate(r)
  \/ RequestFails(r)

StripeStep ==
  \E m \in Milestones, code \in Codes :
    PiSucceeds(m, code) \/ PiDeclined(m, code) \/ PiCanceled(m, code)

HookStep(h) ==
  \/ \E e \in events : HookStart(h, e)
  \/ HookMark(h)
  \/ HookFund(h)
  \/ HookDone(h)
  \/ HookFails(h)

Next ==
  \/ \E r \in Requests : RequestStep(r)
  \/ StripeStep
  \/ \E h \in Deliveries : HookStep(h)

Spec == Init /\ [][Next]_vars

(* Stripe keeps redelivering an event until a delivery succeeds, and a     *)
(* delivery does not fail for ever at the same step.                       *)
HookFairness ==
  /\ \A m \in Milestones, code \in Codes, t \in DOMAIN EventStatus :
       SF_vars(\E h \in Deliveries :
                 HookStart(h, [type |-> t, m |-> m, code |-> code]))
  /\ \A h \in Deliveries :
       SF_vars(HookMark(h)) /\ SF_vars(HookFund(h)) /\ SF_vars(HookDone(h))

FairSpec == Spec /\ HookFairness
-----------------------------------------------------------------------------
(* Properties.  The first group holds whatever the requests interleave     *)
(* with and wherever they stop.                                            *)

(* Every variable keeps its type.                                          *)
TypeOK ==
  /\ milestone \in [Milestones -> MilestoneStatuses]
  /\ piRow \in [PIs -> PiRowStatuses \cup {"none"}]
  /\ piCreated \in [PIs -> Nat]
  /\ clock \in Nat
  /\ redemption \in [Milestones -> Codes]
  /\ payout \in [Milestones -> {"none", "IN_TRANSIT"}]
  /\ processed \subseteq Events
  /\ contract \in [status : {"ACTIVE", "COMPLETED", "DISPUTED"},
                   completedAt : BOOLEAN]
  /\ stripePi \in [PIs -> StripePiStatuses \cup {"absent"}]
  /\ firstReply \in [PIs -> StripePiStatuses \cup {"absent"}]
  /\ events \subseteq Events
  /\ transfers \subseteq Milestones
  /\ refunds \subseteq Refunds
  /\ req \in [Requests -> Handlers \cup {Idle}]
  /\ hook \in [Deliveries -> Hooks \cup {Idle}]

Charged(m) == \E code \in Codes : stripePi[<<m, code>>] = "succeeded"
Settled    == Milestones \ Open

(* Money leaves only for a milestone whose money came in: a milestone that *)
(* is no longer PENDING was charged, one the trainer was paid for was      *)
(* charged, and only a charged PI is refunded, although the status each    *)
(* handler acts on was read before its Stripe call.                        *)
MoneyOutNeedsMoneyIn ==
  /\ \A m \in Milestones : milestone[m] # "PENDING" => Charged(m)
  /\ \A m \in transfers : Charged(m)
  /\ \A x \in refunds : stripePi[<<x.m, x.code>>] = "succeeded"

(* The status never claims a movement of money Stripe did not make: a      *)
(* RELEASED milestone has its transfer and its one Payout row, a REFUNDED  *)
(* one has a refund, and a Payout row is backed by a transfer.             *)
StatusBackedByStripe ==
  \A m \in Milestones :
    /\ milestone[m] = "RELEASED" => payout[m] # "none"
    /\ payout[m] # "none" => m \in transfers
    /\ milestone[m] = "REFUNDED" => \E code \in Codes : Returned(m, code)

(* A PaymentIntent row says SUCCEEDED only of a PI Stripe did charge, also *)
(* when events arrive late or a retried fund replays an old reply.         *)
SucceededRowIsCharged ==
  \A pi \in PIs : piRow[pi] = "SUCCEEDED" => stripePi[pi] = "succeeded"

(* A payment_intent.succeeded event that was acknowledged, and so will not *)
(* be redelivered, has funded its milestone.                               *)
AcknowledgedMeansFunded ==
  \A e \in processed : e.type = "succeeded" => milestone[e.m] # "PENDING"

(* The contract completes only when no milestone is open any more, though  *)
(* the count and the update of maybeCompleteContract are two statements.   *)
CompletedMeansSettled == contract.completedAt => Open = {}

(* A milestone is funded before it is settled and never leaves its settled *)
(* status for an open one, whatever stale status a handler acts on.        *)
MilestoneOrder ==
  [][\A m \in Milestones :
       /\ m \in Settled => m \in Settled'
       /\ milestone[m] = "FUNDED" => milestone'[m] # "PENDING"
       /\ milestone[m] = "PENDING" => milestone'[m] \in {"PENDING", "FUNDED"}]_vars

(* A charge Stripe collected funds its milestone in the end: synchronously *)
(* or by a webhook delivery, however often deliveries fail.                *)
ChargeFundsMilestone ==
  \A m \in Milestones : Charged(m) ~> milestone[m] # "PENDING"
-----------------------------------------------------------------------------
(* The second group holds only where the constants leave out what breaks   *)
(* it: an overlapping request, a request that stops half way, a second     *)
(* coupon code, the admin's refund.                                        *)

(* Nothing is in flight: no request, no delivery, no event to deliver.     *)
Quiet ==
  /\ \A r \in Requests : req[r] = Idle
  /\ \A h \in Deliveries : hook[h] = Idle
  /\ events \subseteq processed

(* Once nothing is in flight and every milestone is settled, the contract  *)
(* is complete (the comment above the call of maybeCompleteContract).      *)
SettledMeansCompleted == Quiet /\ Open = {} => contract.status = "COMPLETED"

(* A milestone whose transfer to the trainer was made is not refunded.     *)
PaidOrReturned ==
  \A m \in transfers : ~ \E code \in Codes : Returned(m, code)
=============================================================================
