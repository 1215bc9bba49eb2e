------------------------------ MODULE Sponsored ------------------------------
(***************************************************************************)
(* The sponsored placements of ONE subject (a trainer or a job request):   *)
(* the admin's grants and edits, the owner's paid checkout with its        *)
(* webhook, the lazy expiration sweep, and sponsoredUntil, the mirror of   *)
(* the placements on the subject's row.                                    *)
(*                                                                         *)
(* A transaction that changes placements reads the latest endsAt of the    *)
(* committed ACTIVE ones and writes it to the subject; at READ COMMITTED   *)
(* two of them may overlap.  It is modelled by its read and its commit.    *)
(***************************************************************************)
EXTENDS Naturals, FiniteSetsExt

CONSTANTS
  Grants,       \* bound: the placements admins grant the subject
  Checkouts,    \* bound: the placements its owner pays for
  EditStatuses, \* bound: the statuses an admin's edit chooses among
  MaxTime,      \* bound: the days the clock counts
  Calls,        \* slots: requests, sweeps and webhook deliveries in flight
  MaxFailures   \* bound: how many calls stop half way

VARIABLES
  clock,        \* the current day
  placement,    \* SponsoredPlacement: status, source and endsAt
  mirror,       \* sponsoredUntil of the subject, 0 for null
  piSaved,      \* placements whose row has its stripePaymentIntentId
  stripePi,     \* Stripe: the PaymentIntent of a placement
  events,       \* Stripe: the payment_intent.* events it emitted
  processed,    \* StripeWebhookEvent rows with processedAt set
  missed,       \* placements whose success was delivered before their PI was saved
  handSet,      \* placements whose status an admin chose
  reset,        \* placements put back to DRAFT after they had left checkout
  overlapped,   \* two refreshes of the mirror overlapped
  call,         \* calls in flight
  failures      \* how many calls stopped half way

Placements == Grants \cup Checkouts

stripeVars == <<stripePi, events>>
ghosts     == <<missed, handSet, reset, overlapped>>
rows       == <<placement, mirror>>
vars == <<clock, rows, piSaved, stripeVars, processed, ghosts, call, failures>>

Statuses == {"DRAFT", "PENDING_PAYMENT", "ACTIVE", "PAUSED", "EXPIRED",
             "REJECTED"}
Days     == 1 .. MaxTime
NoRow    == [status |-> "none", source |-> "none", endsAt |-> 0]
Deleted  == [NoRow EXCEPT !.status = "deleted"]
Rows     == [status : Statuses, source : {"ADMIN", "SELF_PAID"}, endsAt : Days]
Events   == Checkouts \X {"succeeded", "failed", "canceled"}

Idle == [at |-> "idle"]

(* ev: the event a delivery carries, in a set, or {} for a request.        *)
Carried == {{}} \cup {{e} : e \in Events}

Slots ==
  [at : {"pay.stripe", "pay.refused", "pay.save.waiting", "pay.save.succeeded",
         "remove"}, p : Placements]
  \cup [at : {"activate", "reset"}, p : Placements, ev : Carried]
  \cup [at : {"hook.done"}, ev : Carried]
  \cup [at : {"edit"}, p : Placements, new : Rows]
  \cup [at : {"sweep"}, due : SUBSET Placements]

(* A refresh in its transaction: the rows S it locked with their new      *)
(* values, and the mirror it computed.                                     *)
Refreshes(S) ==
  [at : {"refresh"}, ev : Carried, writes : [S -> Rows \cup {Deleted}],
   top : 0 .. MaxTime]

Set(c, slot) == call' = [call EXCEPT ![c] = slot]
Goto(c, at)  == call' = [call EXCEPT ![c].at = at]
Return(c)    == Set(c, Idle)

Handled(c, ev) ==
  IF ev = {} THEN Return(c) ELSE Set(c, [at |-> "hook.done", ev |-> ev])

(* Also from a subject whose grants were deleted, and from calls that have *)
(* used up their failures: the checks start from either.                   *)
Init ==
  /\ clock = 1
  /\ placement \in {[p \in Placements |-> NoRow],
                    [p \in Placements |-> IF p \in Grants THEN Deleted ELSE NoRow]}
  /\ mirror = 0
  /\ piSaved = {}
  /\ stripePi = [p \in Placements |-> "absent"]
  /\ events = {}
  /\ processed = {}
  /\ missed = {}
  /\ handSet = {}
  /\ reset = {}
  /\ overlapped = FALSE
  /\ call = [c \in Calls |-> Idle]
  /\ failures \in {0, MaxFailures}

HasRow(p) == placement[p] \notin {NoRow, Deleted}

(* The placements of f that boost the subject at the current time.         *)
Boosting(f) == {p \in Placements : f[p].status = "ACTIVE" /\ f[p].endsAt >= clock}

(* The latest endsAt of the placements in S, 0 when there is none.         *)
LatestEnd(f, S) == IF S = {} THEN 0 ELSE Max({f[p].endsAt : p \in S})

-----------------------------------------------------------------------------
(* The transactions that refresh the mirror.                               *)

Refreshing == {c \in Calls : call[c].at = "refresh"}
Locked     == UNION {DOMAIN call[c].writes : c \in Refreshing}

Updated(writes) ==
  [p \in Placements |-> IF p \in DOMAIN writes THEN writes[p] ELSE placement[p]]

(* A variant the checks refute: the mirror is computed before the write.   *)
RefreshFirst(c, ev, writes) ==
  /\ DOMAIN writes \cap Locked = {}
  /\ Set(c, [at |-> "refresh", ev |-> ev, writes |-> writes,
             top |-> LatestEnd(placement, Boosting(placement))])
  /\ overlapped' = (overlapped \/ Refreshing # {})

(* The writes, and refreshSubjectMirror's read after them.                 *)
Refresh(c, ev, writes) ==
  LET after == Updated(writes) IN
  /\ DOMAIN writes \cap Locked = {}
  /\ Set(c, [at |-> "refresh", ev |-> ev, writes |-> writes,
             top |-> LatestEnd(after, Boosting(after))])
  /\ overlapped' = (overlapped \/ Refreshing # {})

RefreshCommit(c) ==
  /\ call[c].at = "refresh"
  /\ placement' = Updated(call[c].writes)
  /\ mirror' = call[c].top
  /\ Handled(c, call[c].ev)
  /\ UNCHANGED <<clock, piSaved, stripeVars, processed, ghosts, failures>>

-----------------------------------------------------------------------------
(* adminCreate, adminUpdate and adminDelete.  A grant may start, and end,  *)
(* in the past.                                                            *)

AdminCreate(c, p, day) ==
  /\ call[c] = Idle
  /\ placement[p] = NoRow
  /\ Refresh(c, {}, [q \in {p} |->
       [status |-> "ACTIVE", source |-> "ADMIN", endsAt |-> day]])
  /\ handSet' = handSet \cup {p}
  /\ UNCHANGED <<clock, rows, piSaved, stripeVars, processed, missed, reset, failures>>

StatusAllowed(p, new) ==
  placement[p].source = "SELF_PAID" /\ new.status = "DRAFT" =>
    placement[p].status = "DRAFT"

(* The patch sets the status, the end, or both; startsAt, which the end    *)
(* must follow, is left out.                                               *)
AdminUpdateRead(c, p, new) ==
  /\ call[c] = Idle
  /\ HasRow(p)
  /\ new.source = placement[p].source
  /\ new.status \in EditStatuses \cup {placement[p].status}
  /\ StatusAllowed(p, new)
  /\ Set(c, [at |-> "edit", p |-> p, new |-> new])
  /\ UNCHANGED <<clock, rows, piSaved, stripeVars, processed, ghosts, failures>>

AdminUpdateTx(c) ==
  LET p == call[c].p IN
  /\ call[c].at = "edit"
  /\ HasRow(p)
  /\ Refresh(c, {}, [q \in {p} |-> call[c].new])
  /\ handSet' = handSet \cup {p}
  /\ UNCHANGED <<clock, rows, piSaved, stripeVars, processed, missed, reset, failures>>

AdminDeleteRead(c, p) ==
  /\ call[c] = Idle
  /\ HasRow(p)
  /\ ~ (placement[p].source = "SELF_PAID" /\ placement[p].status = "ACTIVE")
  /\ Set(c, [at |-> "remove", p |-> p])
  /\ UNCHANGED <<clock, rows, piSaved, stripeVars, processed, ghosts, failures>>

AdminDeleteTx(c) ==
  LET p == call[c].p IN
  /\ call[c].at = "remove"
  /\ HasRow(p)
  /\ Refresh(c, {}, [q \in {p} |-> Deleted])
  /\ UNCHANGED <<clock, rows, piSaved, stripeVars, processed, missed, handSet, reset, failures>>

-----------------------------------------------------------------------------
(* selfPaidCheckout                                                        *)

CheckoutStart(c, p, day) ==
  /\ call[c] = Idle
  /\ placement[p] = NoRow
  /\ day >= clock
  /\ placement' = [placement EXCEPT ![p] =
       [status |-> "PENDING_PAYMENT", source |-> "SELF_PAID", endsAt |-> day]]
  /\ Set(c, [at |-> "pay.stripe", p |-> p])
  /\ UNCHANGED <<clock, mirror, piSaved, stripeVars, processed, ghosts, failures>>

Pays(p) ==
  /\ stripePi' = [stripePi EXCEPT ![p] = "succeeded"]
  /\ events' = events \cup {<<p, "succeeded">>}

CheckoutCharged(c) ==
  /\ call[c].at = "pay.stripe"
  /\ Pays(call[c].p)
  /\ Goto(c, "pay.save.succeeded")
  /\ UNCHANGED <<clock, rows, piSaved, processed, ghosts, failures>>

CheckoutWaits(c) ==
  /\ call[c].at = "pay.stripe"
  /\ stripePi' = [stripePi EXCEPT ![call[c].p] = "waiting"]
  /\ Goto(c, "pay.save.waiting")
  /\ UNCHANGED <<clock, rows, piSaved, events, processed, ghosts, failures>>

CheckoutRefused(c) ==
  /\ call[c].at = "pay.stripe"
  /\ Goto(c, "pay.refused")
  /\ UNCHANGED <<clock, rows, piSaved, stripeVars, processed, ghosts, failures>>

(* What activate claims.                                                   *)
Claimable(p) == placement[p].status \in {"DRAFT", "PENDING_PAYMENT"}

(* Back to DRAFT, by id; the mirror is not refreshed.                      *)
BackToDraft(p) ==
  /\ HasRow(p) /\ p \notin Locked
  /\ placement' = [placement EXCEPT ![p].status = "DRAFT"]
  /\ reset' = IF Claimable(p) THEN reset ELSE reset \cup {p}

CheckoutDraft(c) ==
  LET p == call[c].p IN
  /\ call[c].at = "pay.refused"
  /\ BackToDraft(p)
  /\ Return(c)
  /\ UNCHANGED <<clock, mirror, piSaved, stripeVars, processed, missed, handSet, overlapped,
                 failures>>

(* A variant the checks refute: the fast path whatever Stripe answered.    *)
SaveAndActivate(c) ==
  LET p == call[c].p IN
  /\ call[c].at \in {"pay.save.waiting", "pay.save.succeeded"}
  /\ HasRow(p) /\ p \notin Locked
  /\ piSaved' = piSaved \cup {p}
  /\ Set(c, [at |-> "activate", p |-> p, ev |-> {}])
  /\ UNCHANGED <<clock, rows, stripeVars, processed, ghosts, failures>>

(* The fast path activates at once what Stripe charged at once.            *)
CheckoutSave(c) ==
  LET p == call[c].p IN
  /\ call[c].at \in {"pay.save.waiting", "pay.save.succeeded"}
  /\ HasRow(p) /\ p \notin Locked
  /\ piSaved' = piSaved \cup {p}
  /\ IF call[c].at = "pay.save.succeeded"
       THEN Set(c, [at |-> "activate", p |-> p, ev |-> {}])
       ELSE Return(c)
  /\ UNCHANGED <<clock, rows, stripeVars, processed, ghosts, failures>>

(* No client secret to confirm the payment with: back to DRAFT.            *)
CheckoutNoSecret(c) ==
  LET p == call[c].p IN
  /\ call[c].at \in {"pay.save.waiting", "pay.save.succeeded"}
  /\ HasRow(p) /\ p \notin Locked
  /\ piSaved' = piSaved \cup {p}
  /\ Goto(c, "pay.refused")
  /\ UNCHANGED <<clock, rows, stripeVars, processed, ghosts, failures>>

-----------------------------------------------------------------------------
(* activate: the claim, and the refresh by the one who made it.            *)

Activate(c) ==
  LET p == call[c].p IN
  /\ call[c].at = "activate"
  /\ Claimable(p)
  /\ Refresh(c, call[c].ev, [q \in {p} |-> [placement[p] EXCEPT !.status = "ACTIVE"]])
  /\ UNCHANGED <<clock, rows, piSaved, stripeVars, processed, missed, handSet, reset, failures>>

NotClaimed(c) ==
  LET p == call[c].p IN
  /\ call[c].at = "activate"
  /\ ~ Claimable(p) /\ p \notin Locked
  /\ Handled(c, call[c].ev)
  /\ UNCHANGED <<clock, rows, piSaved, stripeVars, processed, ghosts, failures>>

-----------------------------------------------------------------------------
(* The webhook: handlePaymentSucceeded and handlePaymentFailed             *)

HookRead(c, e) ==
  LET p == e[1]
      found == p \in piSaved /\ HasRow(p)
      next == IF e[2] = "succeeded"
        THEN IF found /\ placement[p].status # "ACTIVE" THEN "activate" ELSE "hook.done"
        ELSE IF found /\ placement[p].status \notin {"ACTIVE", "REJECTED"}
               THEN "reset" ELSE "hook.done"
  IN
  /\ call[c] = Idle
  /\ e \in events \ processed
  /\ Set(c, IF next = "hook.done" THEN [at |-> next, ev |-> {e}]
                               ELSE [at |-> next, p |-> p, ev |-> {e}])
  /\ missed' = IF e[2] = "succeeded" /\ p \notin piSaved THEN missed \cup {p} ELSE missed
  /\ UNCHANGED <<clock, rows, piSaved, stripeVars, processed, handSet, reset, overlapped,
                 failures>>

(* Back to DRAFT, by id, on the status that was read; no refresh.          *)
Reset(c) ==
  LET p == call[c].p IN
  /\ call[c].at = "reset"
  /\ BackToDraft(p)
  /\ Handled(c, call[c].ev)
  /\ UNCHANGED <<clock, mirror, piSaved, stripeVars, processed, missed, handSet, overlapped,
                 failures>>

HookDone(c) ==
  /\ call[c].at = "hook.done"
  /\ processed' = processed \cup call[c].ev
  /\ Return(c)
  /\ UNCHANGED <<clock, rows, piSaved, stripeVars, ghosts, failures>>

-----------------------------------------------------------------------------
(* expireDue                                                               *)

SweepRead(c) ==
  LET due == {p \in Placements : placement[p].status = "ACTIVE"
                                   /\ placement[p].endsAt < clock} IN
  /\ call[c] = Idle
  /\ due # {}
  /\ Set(c, [at |-> "sweep", due |-> due])
  /\ UNCHANGED <<clock, rows, piSaved, stripeVars, processed, ghosts, failures>>

(* By the ids that were read, whatever their rows say now.                 *)
SweepTx(c) ==
  LET due == {p \in call[c].due : HasRow(p)} IN
  /\ call[c].at = "sweep"
  /\ Refresh(c, {}, [p \in due |-> [placement[p] EXCEPT !.status = "EXPIRED"]])
  /\ UNCHANGED <<clock, rows, piSaved, stripeVars, processed, missed, handSet, reset, failures>>

-----------------------------------------------------------------------------
(* A call stops half way; its transaction, if it is in one, rolls back.    *)
CallFails(c) ==
  /\ call[c] # Idle
  /\ failures < MaxFailures
  /\ failures' = failures + 1
  /\ Return(c)
  /\ UNCHANGED <<clock, rows, piSaved, stripeVars, processed, ghosts>>

(* The row was deleted (P2025).                                            *)
Missing(c) ==
  /\ call[c].at \in {"pay.refused", "pay.save.waiting", "pay.save.succeeded",
                     "edit", "remove", "reset"}
  /\ ~ HasRow(call[c].p)
  /\ Return(c)
  /\ UNCHANGED <<clock, rows, piSaved, stripeVars, processed, ghosts, failures>>

PiSucceeds(p) ==
  /\ stripePi[p] = "waiting"
  /\ Pays(p)
  /\ UNCHANGED <<clock, rows, piSaved, processed, ghosts, call, failures>>

PiDeclined(p) ==
  /\ stripePi[p] = "waiting"
  /\ events' = events \cup {<<p, "failed">>}
  /\ UNCHANGED <<clock, rows, piSaved, stripePi, processed, ghosts, call, failures>>

PiCanceled(p) ==
  /\ stripePi[p] = "waiting"
  /\ stripePi' = [stripePi EXCEPT ![p] = "canceled"]
  /\ events' = events \cup {<<p, "canceled">>}
  /\ UNCHANGED <<clock, rows, piSaved, processed, ghosts, call, failures>>

Tick ==
  /\ clock < MaxTime
  /\ clock' = clock + 1
  /\ UNCHANGED <<rows, piSaved, stripeVars, processed, ghosts, call, failures>>

AdminStep(c) ==
  \E p \in Placements :
    \/ p \in Grants /\ \E day \in Days : AdminCreate(c, p, day)
    \/ \E new \in Rows : AdminUpdateRead(c, p, new)
    \/ AdminDeleteRead(c, p)

CheckoutStep(c) ==
  \/ \E p \in Checkouts, day \in Days : CheckoutStart(c, p, day)
  \/ CheckoutCharged(c)
  \/ CheckoutWaits(c)
  \/ CheckoutRefused(c)
  \/ CheckoutDraft(c)
  \/ CheckoutSave(c)
  \/ CheckoutNoSecret(c)
  \/ Activate(c)
  \/ NotClaimed(c)

HookStep(c) ==
  \/ \E e \in events : HookRead(c, e)
  \/ Reset(c)
  \/ HookDone(c)

Next ==
  \/ \E c \in Calls :
       \/ AdminStep(c) \/ AdminUpdateTx(c) \/ AdminDeleteTx(c)
       \/ CheckoutStep(c) \/ HookStep(c)
       \/ SweepRead(c) \/ SweepTx(c)
       \/ RefreshCommit(c) \/ CallFails(c) \/ Missing(c)
  \/ \E p \in Checkouts : PiSucceeds(p) \/ PiDeclined(p) \/ PiCanceled(p)
  \/ Tick

Spec == Init /\ [][Next]_vars

-----------------------------------------------------------------------------
(* Every variable keeps its type.                                          *)
TypeOK ==
  /\ clock \in Days
  /\ placement \in [Placements -> Rows \cup {NoRow, Deleted}]
  /\ mirror \in 0 .. MaxTime
  /\ piSaved \subseteq Placements
  /\ stripePi \in [Placements -> {"absent", "waiting", "succeeded", "canceled"}]
  /\ events \subseteq Events
  /\ processed \subseteq events
  /\ missed \subseteq Placements
  /\ handSet \subseteq Placements
  /\ reset \subseteq Placements
  /\ overlapped \in BOOLEAN
  /\ \A c \in Calls \ Refreshing : call[c] \in Slots \cup {Idle}
  /\ \A c \in Refreshing : \E S \in SUBSET Placements : call[c] \in Refreshes(S)
  /\ failures \in 0 .. MaxFailures

(* sponsoredUntil as the public lists read it: only a day still to come.   *)
Effective(day) == IF day >= clock THEN day ELSE 0

(* sponsoredUntil is the latest end among the placements that are ACTIVE,  *)
(* through grants, edits, payments, sweeps and the passing of time, until  *)
(* two refreshes overlap or a late failure resets an ACTIVE placement.     *)
MirrorIsExact ==
  ~ overlapped /\ reset = {} => Effective(mirror) = LatestEnd(placement, Boosting(placement))

(* A self-paid placement no admin touched boosts its subject only when     *)
(* Stripe has the money for it.                                            *)
BoostWasPaid ==
  \A p \in Placements :
    placement[p].status = "ACTIVE" /\ p \notin handSet => stripePi[p] = "succeeded"

(* A success that was acknowledged boosts the subject, or did until it     *)
(* expired, whatever deliveries stopped half way; unless the delivery came *)
(* before the row had its PI, an admin stepped in, or a late failure put   *)
(* the placement back to DRAFT.                                            *)
AcknowledgedIsActive ==
  \A p \in Placements \ (missed \cup handSet \cup reset) :
    <<p, "succeeded">> \in processed /\ HasRow(p) =>
      placement[p].status \in {"ACTIVE", "EXPIRED"}

(* What boosts a subject was paid, and what was paid boosts it.            *)
BoostIsPaid == TypeOK /\ BoostWasPaid /\ AcknowledgedIsActive
=============================================================================
