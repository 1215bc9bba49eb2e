---------------------------- MODULE Subscriptions ----------------------------
(***************************************************************************)
(* The subscriptions of ONE user: subscribe and cancelSubscription of      *)
(* PaymentsService, cancelSubscription of AdminFinanceService and the      *)
(* customer.subscription.* branch of the Stripe webhook.                   *)
(*                                                                         *)
(* A Stripe subscription is identified by the idempotency key it was       *)
(* created under: subscribe-<user>-<plan>-<code|none>.                     *)
(***************************************************************************)
EXTENDS Naturals

CONSTANTS
  Plans,            \* the plans on offer
  Codes,            \* the coupon codes the user types, NoCoupon for none
  NoCoupon,
  Requests,         \* slots: HTTP requests in flight at the same time
  Deliveries,       \* slots: webhook deliveries in flight at the same time
  MaxFailures       \* bound: how many requests or calls to Stripe fail

ASSUME SubscriptionAssumption == MaxFailures \in Nat

VARIABLES
  stripeSub,    \* Stripe: status and cancel_at_period_end of a subscription
  firstReply,   \* Stripe: the status replayed for a reused key
  events,       \* Stripe: events emitted, each a snapshot of its subscription
  row,          \* Subscription rows: status and cancelAtPeriodEnd
  processed,    \* StripeWebhookEvent rows with processedAt set
  req,          \* requests in flight
  hook,         \* webhook deliveries in flight
  failures      \* how many requests stopped half way or lost a call to Stripe

stripeVars == <<stripeSub, firstReply, events>>
vars == <<stripeVars, row, processed, req, hook, failures>>

Keys == Plans \X Codes

Live           == {"incomplete", "active"}
StripeStatuses == Live \cup {"canceled"}

toUpperCase == [incomplete |-> "INCOMPLETE", active |-> "ACTIVE",
                canceled |-> "CANCELED"]

RowStatuses == {"INCOMPLETE", "ACTIVE", "CANCELED"}

NoRow == [status |-> "none", cancelAtPeriodEnd |-> FALSE]
Rows  == [status : RowStatuses, cancelAtPeriodEnd : BOOLEAN]

Snapshots == [status : StripeStatuses, atPeriodEnd : BOOLEAN]
Events    == [k : Keys, deleted : BOOLEAN, sub : Snapshots]

Idle == [at |-> "idle"]

(* reply: the Stripe status a subscribe was answered with; seen: the row    *)
(* status an admin's cancel read; immediate: what the admin asked for.      *)
Handlers ==
  [at : {"subscribe.create"}, k : Keys]
  \cup [at : {"subscribe.tx", "subscribe.undo"}, k : Keys, reply : StripeStatuses]
  \cup [at : {"cancel.stripe", "cancel.row"}, k : Keys]
  \cup [at : {"admin.stripe", "admin.row"}, k : Keys, seen : RowStatuses,
        immediate : BOOLEAN]

Hooks == [at : {"hook.apply", "hook.done"}, e : Events]

Goto(r, at) == req' = [req EXCEPT ![r].at = at]
Return(r)   == req' = [req EXCEPT ![r] = Idle]

OneMoreFailure == failures < MaxFailures /\ failures' = failures + 1

Init ==
  /\ stripeSub = [k \in Keys |-> [status |-> "absent", atPeriodEnd |-> FALSE]]
  /\ firstReply = [k \in Keys |-> "absent"]
  /\ events = {}
  /\ row = [k \in Keys |-> NoRow]
  /\ processed = {}
  /\ req = [r \in Requests |-> Idle]
  /\ hook = [h \in Deliveries |-> Idle]
  /\ failures = 0

IsLive(k)  == stripeSub[k].status \in Live
HasRow(k)  == row[k] # NoRow

(* Stripe changes a subscription and emits an event with the new snapshot.  *)
Becomes(k, new) ==
  /\ stripeSub' = [stripeSub EXCEPT ![k] = new]
  /\ events' = events \cup {[k |-> k, deleted |-> new.status = "canceled",
                             sub |-> new]}

CanceledNow(k)  == [stripeSub[k] EXCEPT !.status = "canceled"]
CanceledSoon(k) == [stripeSub[k] EXCEPT !.atPeriodEnd = TRUE]

-----------------------------------------------------------------------------
(* subscribe                                                               *)

SubscribeStart(r, k) ==
  /\ req[r] = Idle
  /\ \A j \in Keys : row[j].status # "ACTIVE"
  /\ req' = [req EXCEPT ![r] = [at |-> "subscribe.create", k |-> k]]
  /\ UNCHANGED <<stripeVars, row, processed, hook, failures>>

Answered(r, s) ==
  req' = [req EXCEPT ![r] = [at |-> "subscribe.tx", k |-> req[r].k, reply |-> s]]

(* default_incomplete: the subscription waits for its first payment, unless *)
(* there is nothing to pay.                                                *)
SubscribeCreate(r, s) ==
  LET k == req[r].k IN
  /\ req[r].at = "subscribe.create"
  /\ stripeSub[k].status = "absent"
  /\ s \in Live
  /\ Becomes(k, [status |-> s, atPeriodEnd |-> FALSE])
  /\ firstReply' = [firstReply EXCEPT ![k] = s]
  /\ Answered(r, s)
  /\ UNCHANGED <<row, processed, hook, failures>>

(* A reused key: Stripe replays its first answer, the same subscription.   *)
SubscribeReplay(r) ==
  /\ req[r].at = "subscribe.create"
  /\ stripeSub[req[r].k].status # "absent"
  /\ Answered(r, firstReply[req[r].k])
  /\ UNCHANGED <<stripeVars, row, processed, hook, failures>>

(* A variant the checks refute: the column default in place of the status. *)
SubscribeTxDefault(r) ==
  LET k == req[r].k IN
  /\ req[r].at = "subscribe.tx"
  /\ ~ HasRow(k)
  /\ row' = [row EXCEPT ![k] = [status |-> "ACTIVE", cancelAtPeriodEnd |-> FALSE]]
  /\ Return(r)
  /\ UNCHANGED <<stripeVars, processed, hook, failures>>

SubscribeTx(r) ==
  LET k == req[r].k IN
  /\ req[r].at = "subscribe.tx"
  /\ ~ HasRow(k)
  /\ row' = [row EXCEPT ![k] = [status |-> toUpperCase[req[r].reply],
                                cancelAtPeriodEnd |-> FALSE]]
  /\ Return(r)
  /\ UNCHANGED <<stripeVars, processed, hook, failures>>

(* stripeSubscriptionId is unique: a row for this subscription exists.     *)
SubscribeConflict(r) ==
  /\ req[r].at = "subscribe.tx"
  /\ HasRow(req[r].k)
  /\ Goto(r, "subscribe.undo")
  /\ UNCHANGED <<stripeVars, row, processed, hook, failures>>

(* applyToSubscription refuses the coupon and the row rolls back with it.  *)
SubscribeCouponRefused(r) ==
  /\ req[r].at = "subscribe.tx"
  /\ req[r].k[2] # NoCoupon
  /\ Goto(r, "subscribe.undo")
  /\ UNCHANGED <<stripeVars, row, processed, hook, failures>>

(* A variant the checks refute: the error is returned without compensation. *)
SubscribeGiveUp(r) ==
  /\ req[r].at = "subscribe.undo"
  /\ Return(r)
  /\ UNCHANGED <<stripeVars, row, processed, hook, failures>>

(* The compensation: cancel the Stripe subscription at once.               *)
SubscribeUndo(r) ==
  LET k == req[r].k IN
  /\ req[r].at = "subscribe.undo"
  /\ IF IsLive(k) THEN Becomes(k, CanceledNow(k)) ELSE UNCHANGED <<stripeSub, events>>
  /\ Return(r)
  /\ UNCHANGED <<firstReply, row, processed, hook, failures>>

-----------------------------------------------------------------------------
(* cancelSubscription of the user: at the end of the period.               *)

CancelStart(r, k) ==
  /\ req[r] = Idle
  /\ HasRow(k)
  /\ req' = [req EXCEPT ![r] = [at |-> "cancel.stripe", k |-> k]]
  /\ UNCHANGED <<stripeVars, row, processed, hook, failures>>

CancelStripe(r) ==
  LET k == req[r].k IN
  /\ req[r].at = "cancel.stripe"
  /\ IsLive(k)
  /\ Becomes(k, CanceledSoon(k))
  /\ Goto(r, "cancel.row")
  /\ UNCHANGED <<firstReply, row, processed, hook, failures>>

CancelRefused(r) ==
  /\ req[r].at = "cancel.stripe"
  /\ ~ IsLive(req[r].k)
  /\ Return(r)
  /\ UNCHANGED <<stripeVars, row, processed, hook, failures>>

CancelRow(r) ==
  /\ req[r].at = "cancel.row"
  /\ row' = [row EXCEPT ![req[r].k].cancelAtPeriodEnd = TRUE]
  /\ Return(r)
  /\ UNCHANGED <<stripeVars, processed, hook, failures>>

-----------------------------------------------------------------------------
(* cancelSubscription of the admin, immediate or at the end of the period. *)

AdminCancelStart(r, k, immediate) ==
  /\ req[r] = Idle
  /\ HasRow(k) /\ row[k].status # "CANCELED"
  /\ req' = [req EXCEPT ![r] = [at |-> "admin.stripe", k |-> k,
                                seen |-> row[k].status, immediate |-> immediate]]
  /\ UNCHANGED <<stripeVars, row, processed, hook, failures>>

AdminCancelStripe(r) ==
  LET k == req[r].k IN
  /\ req[r].at = "admin.stripe"
  /\ IsLive(k)
  /\ Becomes(k, IF req[r].immediate THEN CanceledNow(k) ELSE CanceledSoon(k))
  /\ Goto(r, "admin.row")
  /\ UNCHANGED <<firstReply, row, processed, hook, failures>>

(* An error of Stripe is logged and swallowed: the subscription is over, or *)
(* the call failed.                                                        *)
AdminCancelSwallowed(r) ==
  /\ req[r].at = "admin.stripe"
  /\ IF IsLive(req[r].k) THEN OneMoreFailure ELSE UNCHANGED failures
  /\ Goto(r, "admin.row")
  /\ UNCHANGED <<stripeVars, row, processed, hook>>

(* A variant the checks refute: the row is CANCELED on any admin's cancel. *)
AdminRowCanceled(r) ==
  /\ req[r].at = "admin.row"
  /\ row' = [row EXCEPT ![req[r].k] = [status |-> "CANCELED",
                                       cancelAtPeriodEnd |-> ~ req[r].immediate]]
  /\ Return(r)
  /\ UNCHANGED <<stripeVars, processed, hook, failures>>

AdminCancelRow(r) ==
  /\ req[r].at = "admin.row"
  /\ row' = [row EXCEPT ![req[r].k] =
               [status |-> IF req[r].immediate THEN "CANCELED" ELSE req[r].seen,
                cancelAtPeriodEnd |-> ~ req[r].immediate]]
  /\ Return(r)
  /\ UNCHANGED <<stripeVars, processed, hook, failures>>

(* A request stops between two steps.                                      *)
RequestFails(r) ==
  /\ req[r] # Idle
  /\ OneMoreFailure
  /\ Return(r)
  /\ UNCHANGED <<stripeVars, row, processed, hook>>

-----------------------------------------------------------------------------
(* Stripe, on its own.                                                     *)

FirstPayment(k) ==
  /\ stripeSub[k].status = "incomplete"
  /\ Becomes(k, [stripeSub[k] EXCEPT !.status = "active"])
  /\ UNCHANGED <<firstReply, row, processed, req, hook, failures>>

(* Never paid, no longer paid, or canceled at the end of its period.       *)
SubscriptionEnds(k) ==
  /\ IsLive(k)
  /\ Becomes(k, CanceledNow(k))
  /\ UNCHANGED <<firstReply, row, processed, req, hook, failures>>

-----------------------------------------------------------------------------
(* The webhook: updateMany by the subscription's id, so an event that      *)
(* arrives before the row is acknowledged and lost.                        *)

HookStart(h, e) ==
  /\ hook[h] = Idle
  /\ e \in events \ processed
  /\ hook' = [hook EXCEPT ![h] = [at |-> "hook.apply", e |-> e]]
  /\ UNCHANGED <<stripeVars, row, processed, req, failures>>

HookApply(h) ==
  LET e == hook[h].e IN
  /\ hook[h].at = "hook.apply"
  /\ row' = [row EXCEPT ![e.k] =
       IF ~ HasRow(e.k) THEN @
       ELSE IF e.deleted
         THEN [status |-> "CANCELED", cancelAtPeriodEnd |-> FALSE]
         ELSE [status |-> toUpperCase[e.sub.status],
               cancelAtPeriodEnd |-> e.sub.atPeriodEnd]]
  /\ hook' = [hook EXCEPT ![h].at = "hook.done"]
  /\ UNCHANGED <<stripeVars, processed, req, failures>>

HookDone(h) ==
  /\ hook[h].at = "hook.done"
  /\ processed' = processed \cup {hook[h].e}
  /\ hook' = [hook EXCEPT ![h] = Idle]
  /\ UNCHANGED <<stripeVars, row, req, failures>>

HookFails(h) ==
  /\ hook[h] # Idle
  /\ hook' = [hook EXCEPT ![h] = Idle]
  /\ UNCHANGED <<stripeVars, row, processed, req, failures>>

RequestStep(r) ==
  \/ \E k \in Keys : SubscribeStart(r, k) \/ CancelStart(r, k)
  \/ \E s \in StripeStatuses : SubscribeCreate(r, s)
  \/ SubscribeReplay(r)
  \/ SubscribeTx(r)
  \/ SubscribeConflict(r)
  \/ SubscribeCouponRefused(r)
  \/ SubscribeUndo(r)
  \/ CancelStripe(r)
  \/ CancelRefused(r)
  \/ CancelRow(r)
  \/ \E k \in Keys, immediate \in BOOLEAN : AdminCancelStart(r, k, immediate)
  \/ AdminCancelStripe(r)
  \/ AdminCancelSwallowed(r)
  \/ AdminCancelRow(r)
  \/ RequestFails(r)

HookStep(h) ==
  \/ \E e \in events : HookStart(h, e)
  \/ HookApply(h)
  \/ HookDone(h)
  \/ HookFails(h)

Next ==
  \/ \E r \in Requests : RequestStep(r)
  \/ \E k \in Keys : FirstPayment(k) \/ SubscriptionEnds(k)
  \/ \E h \in Deliveries : HookStep(h)

Spec == Init /\ [][Next]_vars

-----------------------------------------------------------------------------
(* Every variable keeps its type.                                          *)
TypeOK ==
  /\ stripeSub \in [Keys -> [status : StripeStatuses \cup {"absent"},
                             atPeriodEnd : BOOLEAN]]
  /\ firstReply \in [Keys -> Live \cup {"absent"}]
  /\ events \subseteq Events
  /\ row \in [Keys -> Rows \cup {NoRow}]
  /\ processed \subseteq events
  /\ req \in [Requests -> Handlers \cup {Idle}]
  /\ hook \in [Deliveries -> Hooks \cup {Idle}]
  /\ failures \in 0 .. MaxFailures

Quiet == \A r \in Requests : req[r] = Idle

(* A row says INCOMPLETE or ACTIVE only of a subscription Stripe reported  *)
(* in that status, whatever replay, stale snapshot or stale admin read the *)
(* status was taken from.                                                  *)
StatusCameFromStripe ==
  \A k \in Keys : row[k].status \in {"INCOMPLETE", "ACTIVE"} =>
    \E e \in events : e.k = k /\ toUpperCase[e.sub.status] = row[k].status

(* A row says CANCELED only when Stripe no longer bills the subscription.  *)
(* Holds until a call to Stripe fails: the admin's cancel swallows errors.  *)
CanceledRowIsOver ==
  failures = 0 => \A k \in Keys : row[k].status = "CANCELED" => ~ IsLive(k)

(* Between requests no subscription bills the user without a local row,    *)
(* also when its coupon was refused or two retries met (the comment above  *)
(* the compensation).  Holds until a request stops half way.               *)
NoOrphanedSubscription ==
  Quiet /\ failures = 0 => \A k \in Keys : IsLive(k) => HasRow(k)

(* The compensation cancels only a subscription without a local record     *)
(* (the comment above it).  The code breaks this one.                      *)
CompensationSparesRecorded ==
  \A r \in Requests : req[r].at = "subscribe.undo" => ~ HasRow(req[r].k)
=============================================================================
