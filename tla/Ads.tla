--------------------------------- MODULE Ads ---------------------------------
(***************************************************************************)
(* ONE ad campaign of apps/api/src/ads: its review, pause and resume, the  *)
(* top-ups that pay for its budget, and the impressions and clicks that    *)
(* spend it.                                                               *)
(*                                                                         *)
(* Every handler reads the campaign or the top-up first and writes later,  *)
(* mostly by id.  A call slot holds what was read.  Money is counted in    *)
(* prices: one impression of a CPM campaign, or one click of a CPC         *)
(* campaign, costs 1.                                                      *)
(***************************************************************************)
EXTENDS Naturals, FiniteSets

CONSTANTS
  Topups,       \* bound: the top-ups of the campaign
  Amount,       \* what a top-up adds to the budget, in prices
  Calls,        \* slots: requests, views and webhook deliveries in flight
  MaxFailures   \* bound: how many calls stop half way

ASSUME MaxFailuresAssumption == MaxFailures \in Nat
ASSUME AmountAssumption == Amount \in Nat
ASSUME CallsAssumption == IsFiniteSet(Calls) /\ Calls # {}

VARIABLES
  campaign,     \* AdCampaign.status and pausedReason
  pricing,      \* AdCampaign.pricingModel
  spent,        \* AdCampaign.spentMicroCents, in prices
  credits,      \* how often a top-up was added to AdCampaign.budgetCents
  topup,        \* AdTopup.status, "none" without a row
  piSaved,      \* top-ups whose row has its stripePaymentIntentId
  stripePi,     \* Stripe: the PaymentIntent of a top-up
  events,       \* Stripe: the payment_intent.* events it emitted
  processed,    \* StripeWebhookEvent rows with processedAt set
  missed,       \* success events whose delivery found no row for their PI
  call,         \* calls in flight
  failures      \* how many calls stopped half way

stripeVars == <<stripePi, events>>
hookVars   == <<processed, missed>>
topupVars  == <<topup, piSaved, credits>>
vars == <<campaign, pricing, spent, topupVars, stripeVars, hookVars, call, failures>>

(* APPROVED and ENDED are read by some guards and written nowhere.         *)
CampaignStatuses == {"DRAFT", "PENDING_REVIEW", "ACTIVE", "PAUSED", "REJECTED",
                     "deleted"}
PauseReasons     == {"none", "OWNER", "ADMIN", "BUDGET_EXHAUSTED"}
Campaigns        == [status : CampaignStatuses, reason : PauseReasons]
TopupStatuses    == {"PENDING", "SUCCEEDED", "FAILED"}
PiStatuses       == {"absent", "waiting", "succeeded"}
Events           == Topups \X {"succeeded", "failed"}

(* budgetCents: every credit increments it by the amount of its top-up.    *)
Credited == UNION {{t} \X (1 .. credits[t]) : t \in Topups}
Budget   == Amount * Cardinality(Credited)

Idle == [at |-> "idle"]

(* seen: the campaign as the call read it; e: the event a delivery carries, *)
(* or the creation of the top-up for the request itself.                   *)
Sources == Events \cup (Topups \X {"created"})
Slots ==
  [at : {"topup.stripe", "topup.refused", "topup.save.waiting",
         "topup.save.succeeded"}, t : Topups]
  \cup [at : {"credit", "hook.fail", "hook.done"}, e : Sources]
  \cup [at : {"credit.commit"}, e : Sources, seen : Campaigns]
  \cup [at : {"view.charge", "view.pause"}]
  \cup [at : {"submit", "approve", "reject", "pause", "resume", "delete"},
        by : {"OWNER", "ADMIN"}, seen : Campaigns]

Set(c, slot) == call' = [call EXCEPT ![c] = slot]
Goto(c, at)  == call' = [call EXCEPT ![c].at = at]
Return(c)    == Set(c, Idle)

(* A delivery is acknowledged in a step of its own once it was handled.    *)
Handled(c, e) ==
  IF e[2] = "created" THEN Return(c) ELSE Set(c, [at |-> "hook.done", e |-> e])

Init ==
  /\ campaign = [status |-> "DRAFT", reason |-> "none"]
  /\ pricing \in {"CPM", "CPC"}
  /\ spent = 0
  /\ credits = [t \in Topups |-> 0]
  /\ topup = [t \in Topups |-> "none"]
  /\ piSaved = {}
  /\ stripePi = [t \in Topups |-> "absent"]
  /\ events = {}
  /\ processed = {}
  /\ missed = {}
  /\ call = [c \in Calls |-> Idle]
  /\ failures = 0

Exists == campaign.status # "deleted"

-----------------------------------------------------------------------------
(* Review, pause, resume and deletion: a status that was read allows the   *)
(* operation, the write is by id.                                          *)

From == [submit  |-> {"DRAFT"},
         approve |-> {"PENDING_REVIEW"},
         reject  |-> {"PENDING_REVIEW"},
         pause   |-> {"ACTIVE"},
         resume  |-> {"PAUSED"},
         delete  |-> CampaignStatuses \ {"ACTIVE", "deleted"}]

Actors == [submit |-> {"OWNER"}, approve |-> {"ADMIN"}, reject |-> {"ADMIN"},
           pause |-> {"OWNER", "ADMIN"}, resume |-> {"OWNER", "ADMIN"},
           delete |-> {"OWNER"}]

Operations == DOMAIN From

ResumeAllowed(by) ==
  /\ by = "OWNER" => campaign.reason # "ADMIN"
  /\ spent < Budget

EditRead(c, op, by) ==
  /\ call[c] = Idle
  /\ by \in Actors[op]
  /\ campaign.status \in From[op]
  /\ op = "resume" => ResumeAllowed(by)
  /\ Set(c, [at |-> op, by |-> by, seen |-> campaign])
  /\ UNCHANGED <<campaign, pricing, spent, topupVars, stripeVars, hookVars, failures>>

Edited(op, by) ==
  CASE op = "submit"  -> [campaign EXCEPT !.status = "PENDING_REVIEW"]
    [] op = "approve" -> [campaign EXCEPT !.status = "ACTIVE"]
    [] op = "reject"  -> [campaign EXCEPT !.status = "REJECTED"]
    [] op = "pause"   -> [status |-> "PAUSED", reason |-> by]
    [] op = "resume"  -> [status |-> "ACTIVE", reason |-> "none"]

EditWrite(c) ==
  /\ call[c].at \in Operations \ {"delete"}
  /\ Exists
  /\ campaign' = Edited(call[c].at, call[c].by)
  /\ Return(c)
  /\ UNCHANGED <<pricing, spent, topupVars, stripeVars, hookVars, failures>>

(* Held t: a transaction holds the lock of row t until it commits.         *)
Held(t) == \E c \in Calls : call[c].at = "credit.commit" /\ call[c].e[1] = t

(* The top-ups go with their campaign (onDelete: Cascade).                 *)
DeleteWrite(c) ==
  /\ call[c].at = "delete"
  /\ Exists
  /\ \A t \in Topups : ~ Held(t)
  /\ campaign' = [status |-> "deleted", reason |-> "none"]
  /\ topup' = [t \in Topups |-> "none"]
  /\ piSaved' = {}
  /\ Return(c)
  /\ UNCHANGED <<pricing, spent, credits, stripeVars, hookVars, failures>>

-----------------------------------------------------------------------------
(* Impressions and clicks                                                  *)

computeImpressionChargeMicro == IF pricing = "CPM" THEN 1 ELSE 0
computeClickChargeMicro      == IF pricing = "CPC" THEN 1 ELSE 0

(* A variant the checks refute: off by one.                                *)
NotYetSpent(charge) == spent <= Budget

Affordable(charge) == spent + charge <= Budget

(* An impression that is not charged changes nothing that is modelled.     *)
ImpressionRead(c) ==
  LET charge == computeImpressionChargeMicro IN
  /\ call[c] = Idle
  /\ campaign.status = "ACTIVE"
  /\ IF Affordable(charge)
       THEN charge > 0 /\ Set(c, [at |-> "view.charge"])
       ELSE Set(c, [at |-> "view.pause"])
  /\ UNCHANGED <<campaign, pricing, spent, topupVars, stripeVars, hookVars, failures>>

ClickRead(c) ==
  /\ call[c] = Idle
  /\ campaign.status = "ACTIVE"
  /\ computeClickChargeMicro > 0
  /\ Affordable(computeClickChargeMicro)
  /\ Set(c, [at |-> "view.charge"])
  /\ UNCHANGED <<campaign, pricing, spent, topupVars, stripeVars, hookVars, failures>>

(* The transaction of either: the row, and an atomic increment.            *)
ViewCharge(c) ==
  /\ call[c].at = "view.charge"
  /\ Exists
  /\ spent' = spent + 1
  /\ Return(c)
  /\ UNCHANGED <<campaign, pricing, topupVars, stripeVars, hookVars, failures>>

(* A variant the checks refute: the automatic pause by id alone.           *)
PauseAnyStatus(c) ==
  /\ call[c].at = "view.pause"
  /\ campaign' = IF Exists THEN [status |-> "PAUSED", reason |-> "BUDGET_EXHAUSTED"]
                           ELSE campaign
  /\ Return(c)
  /\ UNCHANGED <<pricing, spent, topupVars, stripeVars, hookVars, failures>>

(* updateMany where the campaign is still ACTIVE.                          *)
ViewPause(c) ==
  /\ call[c].at = "view.pause"
  /\ campaign' = IF campaign.status = "ACTIVE"
                   THEN [status |-> "PAUSED", reason |-> "BUDGET_EXHAUSTED"]
                   ELSE campaign
  /\ Return(c)
  /\ UNCHANGED <<pricing, spent, topupVars, stripeVars, hookVars, failures>>

-----------------------------------------------------------------------------
(* startTopup                                                              *)

TopupStart(c, t) ==
  /\ call[c] = Idle
  /\ Exists /\ topup[t] = "none" /\ stripePi[t] = "absent"
  /\ topup' = [topup EXCEPT ![t] = "PENDING"]
  /\ Set(c, [at |-> "topup.stripe", t |-> t])
  /\ UNCHANGED <<campaign, pricing, spent, piSaved, credits, stripeVars, hookVars,
                 failures>>

Pays(t) ==
  /\ stripePi' = [stripePi EXCEPT ![t] = "succeeded"]
  /\ events' = events \cup {<<t, "succeeded">>}

TopupCharged(c) ==
  /\ call[c].at = "topup.stripe"
  /\ Pays(call[c].t)
  /\ Goto(c, "topup.save.succeeded")
  /\ UNCHANGED <<campaign, pricing, spent, topupVars, hookVars, failures>>

(* The card needs an action of its owner, or the payment is processing.    *)
TopupWaits(c) ==
  /\ call[c].at = "topup.stripe"
  /\ stripePi' = [stripePi EXCEPT ![call[c].t] = "waiting"]
  /\ Goto(c, "topup.save.waiting")
  /\ UNCHANGED <<campaign, pricing, spent, topupVars, events, hookVars, failures>>

TopupRefused(c) ==
  /\ call[c].at = "topup.stripe"
  /\ Goto(c, "topup.refused")
  /\ UNCHANGED <<campaign, pricing, spent, topupVars, stripeVars, hookVars, failures>>

TopupFailed(c) ==
  /\ call[c].at = "topup.refused"
  /\ topup[call[c].t] # "none"
  /\ topup' = [topup EXCEPT ![call[c].t] = "FAILED"]
  /\ Return(c)
  /\ UNCHANGED <<campaign, pricing, spent, piSaved, credits, stripeVars, hookVars,
                 failures>>

(* The fast path credits at once what Stripe charged at once.              *)
TopupSave(c) ==
  LET t == call[c].t IN
  /\ call[c].at \in {"topup.save.waiting", "topup.save.succeeded"}
  /\ topup[t] # "none"
  /\ piSaved' = piSaved \cup {t}
  /\ IF call[c].at = "topup.save.succeeded"
       THEN Set(c, [at |-> "credit", e |-> <<t, "created">>])
       ELSE Return(c)
  /\ UNCHANGED <<campaign, pricing, spent, topup, credits, stripeVars, hookVars,
                 failures>>

-----------------------------------------------------------------------------
(* creditBudget: one transaction that claims the top-up, reads the campaign *)
(* and increments the budget.                                              *)

(* A variant the checks refute: no status in the where of the claim.       *)
ClaimAny(t) == topup[t] # "none"

Claimable(t) == topup[t] \in {"PENDING", "FAILED"}

CreditClaim(c) ==
  LET e == call[c].e IN
  /\ call[c].at = "credit"
  /\ Claimable(e[1]) /\ ~ Held(e[1])
  /\ Set(c, [at |-> "credit.commit", e |-> e, seen |-> campaign])
  /\ UNCHANGED <<campaign, pricing, spent, topupVars, stripeVars, hookVars, failures>>

CreditNotClaimed(c) ==
  LET e == call[c].e IN
  /\ call[c].at = "credit"
  /\ ~ Claimable(e[1]) /\ ~ Held(e[1])
  /\ Handled(c, e)
  /\ UNCHANGED <<campaign, pricing, spent, topupVars, stripeVars, hookVars, failures>>

ShouldReactivate(seen) ==
  seen.status = "PAUSED" /\ seen.reason = "BUDGET_EXHAUSTED"

CreditCommit(c) ==
  LET e == call[c].e IN
  /\ call[c].at = "credit.commit"
  /\ topup' = [topup EXCEPT ![e[1]] = "SUCCEEDED"]
  /\ credits' = [credits EXCEPT ![e[1]] = @ + 1]
  /\ campaign' = IF ShouldReactivate(call[c].seen)
                   THEN [status |-> "ACTIVE", reason |-> "none"] ELSE campaign
  /\ Handled(c, e)
  /\ UNCHANGED <<pricing, spent, piSaved, stripeVars, hookVars, failures>>

-----------------------------------------------------------------------------
(* The webhook: handleTopupSucceeded and handleTopupFailed                 *)

HookSucceeded(c, t) ==
  LET e == <<t, "succeeded">> IN
  /\ call[c] = Idle
  /\ e \in events \ processed
  /\ IF t \in piSaved /\ topup[t] # "SUCCEEDED"
       THEN Set(c, [at |-> "credit", e |-> e])
       ELSE Set(c, [at |-> "hook.done", e |-> e])
  /\ missed' = IF t \in piSaved THEN missed ELSE missed \cup {t}
  /\ UNCHANGED <<campaign, pricing, spent, topupVars, stripeVars, processed, failures>>

HookFailed(c, t) ==
  LET e == <<t, "failed">> IN
  /\ call[c] = Idle
  /\ e \in events \ processed
  /\ IF t \in piSaved /\ topup[t] = "PENDING"
       THEN Set(c, [at |-> "hook.fail", e |-> e])
       ELSE Set(c, [at |-> "hook.done", e |-> e])
  /\ UNCHANGED <<campaign, pricing, spent, topupVars, stripeVars, hookVars, failures>>

(* By id, on the status that was read.                                     *)
HookFailWrite(c) ==
  LET e == call[c].e IN
  /\ call[c].at = "hook.fail"
  /\ topup[e[1]] # "none" /\ ~ Held(e[1])
  /\ topup' = [topup EXCEPT ![e[1]] = "FAILED"]
  /\ Handled(c, e)
  /\ UNCHANGED <<campaign, pricing, spent, piSaved, credits, stripeVars, hookVars,
                 failures>>

HookDone(c) ==
  /\ call[c].at = "hook.done"
  /\ processed' = processed \cup {call[c].e}
  /\ Return(c)
  /\ UNCHANGED <<campaign, pricing, spent, topupVars, stripeVars, missed, failures>>

(* A call stops half way: the process, the database or, for an update of a *)
(* row that was deleted, Prisma.  Stripe delivers such an event again.     *)
CallFails(c) ==
  /\ call[c] # Idle
  /\ failures < MaxFailures
  /\ failures' = failures + 1
  /\ Return(c)
  /\ UNCHANGED <<campaign, pricing, spent, topupVars, stripeVars, hookVars>>

Rejected(c) ==
  /\ ~ Exists
  /\ call[c].at \in Operations \cup {"topup.refused", "topup.save.waiting",
                       "topup.save.succeeded", "view.charge", "hook.fail"}
  /\ Return(c)
  /\ UNCHANGED <<campaign, pricing, spent, topupVars, stripeVars, hookVars, failures>>

-----------------------------------------------------------------------------
(* Stripe, on its own: a waiting payment is made, or an attempt declined.  *)

PiSucceeds(t) ==
  /\ stripePi[t] = "waiting"
  /\ Pays(t)
  /\ UNCHANGED <<campaign, pricing, spent, topupVars, hookVars, call, failures>>

PiDeclined(t) ==
  /\ stripePi[t] = "waiting"
  /\ events' = events \cup {<<t, "failed">>}
  /\ UNCHANGED <<campaign, pricing, spent, topupVars, stripePi, hookVars, call, failures>>

CampaignStep(c) ==
  \/ \E op \in Operations, by \in {"OWNER", "ADMIN"} : EditRead(c, op, by)
  \/ EditWrite(c)
  \/ DeleteWrite(c)
  \/ ImpressionRead(c)
  \/ ClickRead(c)
  \/ ViewCharge(c)
  \/ ViewPause(c)

TopupStep(c) ==
  \/ \E t \in Topups : TopupStart(c, t)
  \/ TopupCharged(c)
  \/ TopupWaits(c)
  \/ TopupRefused(c)
  \/ TopupFailed(c)
  \/ TopupSave(c)
  \/ CreditClaim(c)
  \/ CreditNotClaimed(c)
  \/ CreditCommit(c)

HookStep(c) ==
  \/ \E t \in Topups : HookSucceeded(c, t) \/ HookFailed(c, t)
  \/ HookFailWrite(c)
  \/ HookDone(c)

Next ==
  \/ \E c \in Calls :
       CampaignStep(c) \/ TopupStep(c) \/ HookStep(c) \/ CallFails(c) \/ Rejected(c)
  \/ \E t \in Topups : PiSucceeds(t) \/ PiDeclined(t)

Spec == Init /\ [][Next]_vars

-----------------------------------------------------------------------------
(* Every variable keeps its type.                                          *)
TypeOK ==
  /\ campaign \in Campaigns
  /\ pricing \in {"CPM", "CPC"}
  /\ spent \in Nat
  /\ credits \in [Topups -> Nat]
  /\ topup \in [Topups -> TopupStatuses \cup {"none"}]
  /\ piSaved \subseteq Topups
  /\ stripePi \in [Topups -> PiStatuses]
  /\ events \subseteq Events
  /\ processed \subseteq events
  /\ missed \subseteq Topups
  /\ call \in [Calls -> Slots \cup {Idle}]
  /\ failures \in 0 .. MaxFailures

(* The budget is checked on a read and charged later, so views that        *)
(* overlap overspend it; never by more than one price for each of the      *)
(* other views in flight.                                                  *)
OverspendBounded == spent <= Budget + (Cardinality(Calls) - 1)

(* No budget without a charge: what was credited was paid at Stripe.       *)
CreditedWasPaid ==
  \A t \in Topups : credits[t] > 0 => stripePi[t] = "succeeded"

(* The fast path and any number of deliveries credit a payment once (the   *)
(* comment in creditBudget), as long as no attempt to pay it was declined: *)
(* a late payment_failed re-opens a top-up that was credited.              *)
CreditedOnce ==
  \A t \in Topups : credits[t] > 1 => <<t, "failed">> \in events

(* The same without the exception.  The code breaks this one.              *)
NeverCreditedTwice == \A t \in Topups : credits[t] <= 1

(* A success that was acknowledged has credited its top-up, whatever       *)
(* deliveries stopped half way, unless its delivery came before the row    *)
(* had its PI, or the campaign was deleted.                                *)
AcknowledgedIsCredited ==
  \A t \in Topups :
    <<t, "succeeded">> \in processed /\ t \notin missed /\ Exists => credits[t] > 0

(* Every top-up has been credited as its payment says: paid, once, and no  *)
(* later than its success was acknowledged.                                *)
CreditIsExact == TypeOK /\ CreditedWasPaid /\ CreditedOnce /\ AcknowledgedIsCredited

PausedBy(reason) == campaign.status = "PAUSED" /\ campaign.reason = reason

(* The automatic pause of an impression never takes the place of a pause   *)
(* by owner or admin, which a top-up would then lift.  What an admin       *)
(* paused becomes ACTIVE through an admin, or through a request that read  *)
(* the campaign before the pause.                                          *)
ManualPauseStays ==
  PausedBy("ADMIN") \/ PausedBy("OWNER") => campaign'.reason # "BUDGET_EXHAUSTED"

AdminPauseRespected ==
  PausedBy("ADMIN") /\ campaign'.status = "ACTIVE" =>
    \E c \in Calls :
      /\ call'[c] # call[c]
      /\ \/ call[c].at \in Operations /\ call[c].by = "ADMIN"
         \/ call[c].seen.reason # "ADMIN"

PausesStand == [][ManualPauseStays /\ AdminPauseRespected]_vars
=============================================================================
