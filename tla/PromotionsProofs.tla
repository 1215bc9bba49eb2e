-------------------------- MODULE PromotionsProofs --------------------------
(***************************************************************************)
(* Proofs about Ads: what a top-up may do to the budget, what views may    *)
(* overspend of it and who lifts a pause, for any number of top-ups, of    *)
(* calls in flight and of failures, and any amount; about Matching: that   *)
(* ranks are fair, for any skills, bounds and weights; and about           *)
(* Sponsored: who pays for a placement and what the mirror of the          *)
(* placements says, for any placements, calls in flight, failures and      *)
(* days.                                                                   *)
(***************************************************************************)
EXTENDS MCPromotions, FiniteSetTheorems, WellFoundedInduction, TLAPS

Starting(c, t) == call[c].at \in {"topup.stripe", "topup.refused"} /\ call[c].t = t
Claiming(c, t) == call[c].at = "credit.commit" /\ call[c].e[1] = t

(* The row of a top-up goes only with its campaign.                        *)
HasRow(t) == topup[t] # "none" \/ ~ Exists

AdTypes ==
  /\ campaign \in Campaigns
  /\ credits \in [Topups -> Nat]
  /\ topup \in [Topups -> TopupStatuses \cup {"none"}]
  /\ piSaved \subseteq Topups
  /\ stripePi \in [Topups -> PiStatuses]
  /\ events \subseteq Events
  /\ processed \subseteq events
  /\ missed \subseteq Topups
  /\ call \in [Calls -> Slots \cup {Idle}]

(* What the rows and Stripe say of one top-up.                             *)
Sound(t) ==
  /\ <<t, "succeeded">> \in events => stripePi[t] = "succeeded"
  /\ credits[t] > 0 => stripePi[t] = "succeeded"
  /\ topup[t] = "SUCCEEDED" => credits[t] > 0
  /\ topup[t] # "none" => Exists
  /\ t \in piSaved => topup[t] # "none"
  /\ <<t, "failed">> \notin events =>
       credits[t] <= 1 /\ (credits[t] = 1 => topup[t] \in {"SUCCEEDED", "none"})
  /\ <<t, "succeeded">> \in processed /\ t \notin missed /\ Exists => credits[t] > 0

(* What a call relies on at the step that comes next.                      *)
Knows(c) ==
  /\ call[c].at \in {"topup.stripe", "topup.refused"} =>
       stripePi[call[c].t] = "absent" /\ HasRow(call[c].t)
  /\ call[c].at = "topup.save.succeeded" => stripePi[call[c].t] = "succeeded"
  /\ call[c].at \in {"credit", "credit.commit"} =>
       /\ stripePi[call[c].e[1]] = "succeeded"
       /\ HasRow(call[c].e[1])
       /\ call[c].e[2] # "created" => call[c].e \in events
  /\ call[c].at = "credit.commit" => topup[call[c].e[1]] \in {"PENDING", "FAILED"}
  /\ call[c].at = "hook.fail" => call[c].e[2] = "failed"
  /\ call[c].at \in {"hook.fail", "hook.done"} => call[c].e \in events
  /\ call[c].at = "hook.done" /\ call[c].e[2] = "succeeded" =>
       call[c].e[1] \in missed \/ ~ Exists \/ credits[call[c].e[1]] > 0

(* One call starts a top-up, one transaction claims it.                    *)
Alone ==
  \A c, d \in Calls, t \in Topups :
    \/ Starting(c, t) /\ Starting(d, t)
    \/ Claiming(c, t) /\ Claiming(d, t)
    => c = d

IInv ==
  /\ AdTypes
  /\ \A t \in Topups : Sound(t)
  /\ \A c \in Calls : Knows(c)
  /\ Alone

(* What no step takes back.                                                *)
Kept ==
  /\ events \subseteq events' /\ missed \subseteq missed'
  /\ ~ Exists => ~ Exists'
  /\ \A t \in Topups :
       /\ stripePi[t] = "succeeded" => stripePi'[t] = "succeeded"
       /\ credits[t] > 0 => credits'[t] > 0
       /\ HasRow(t) => HasRow(t)'

-----------------------------------------------------------------------------
LEMMA EventParts ==
  /\ \A e \in Sources : /\ e = <<e[1], e[2]>> /\ e[1] \in Topups
                        /\ e[2] \in {"created", "succeeded", "failed"}
                        /\ e \notin Events => e[2] = "created"
  /\ \A e \in Events : e \in Sources /\ e[2] # "created"
  /\ \A t \in Topups :
       /\ <<t, "succeeded">> \in Events /\ <<t, "failed">> \in Events
       /\ <<t, "created">> \in Sources
  BY DEF Sources, Events

LEMMA TopupSlot ==
  ASSUME AdTypes, NEW c \in Calls,
         call[c].at \in {"topup.stripe", "topup.refused", "topup.save.waiting",
                         "topup.save.succeeded"}
  PROVE  /\ call[c].t \in Topups
         /\ \A at \in {"topup.stripe", "topup.refused", "topup.save.waiting",
                       "topup.save.succeeded"} :
              /\ [call[c] EXCEPT !.at = at] \in Slots
              /\ [call[c] EXCEPT !.at = at].at = at
              /\ [call[c] EXCEPT !.at = at].t = call[c].t
<1>1. call[c] \in Slots
  BY DEF AdTypes, Idle
<1>2. call[c] \in [at : {"topup.stripe", "topup.refused", "topup.save.waiting",
                         "topup.save.succeeded"}, t : Topups]
  BY <1>1 DEF Slots, Operations, From
<1>. QED
  BY <1>2 DEF Slots

LEMMA EventSlot ==
  ASSUME AdTypes, NEW c \in Calls,
         call[c].at \in {"credit", "credit.commit", "hook.fail", "hook.done"}
  PROVE  /\ call[c].e \in Sources
         /\ call[c].at = "credit.commit" => call[c].seen \in Campaigns
<1>1. call[c] \in Slots
  BY DEF AdTypes, Idle
<1>. QED
  BY <1>1 DEF Slots, Operations, From

(* Calls that do not move still know what they knew.                       *)
LEMMA StillKnows ==
  ASSUME IInv, Kept, NEW c \in Calls, call'[c] = call[c],
         \A t \in Topups : Starting(c, t) => stripePi'[t] = stripePi[t],
         \A t \in Topups : Claiming(c, t) => topup'[t] \in {"PENDING", "FAILED"}
  PROVE  Knows(c)'
<1>1. CASE call[c].at \in {"topup.stripe", "topup.refused", "topup.save.succeeded"}
  <2>1. call[c].t \in Topups
    BY <1>1, TopupSlot DEF IInv
  <2>. QED
    BY <1>1, <2>1 DEF IInv, Knows, Kept, Starting, HasRow
<1>2. CASE call[c].at \in {"credit", "credit.commit", "hook.fail", "hook.done"}
  <2>1. call[c].e[1] \in Topups
    BY <1>2, EventSlot, EventParts DEF IInv
  <2>. QED
    BY <1>2, <2>1 DEF IInv, Knows, Kept, Claiming, HasRow
<1>3. CASE call[c].at \notin {"topup.stripe", "topup.refused", "topup.save.succeeded",
                              "credit", "credit.commit", "hook.fail", "hook.done"}
  BY <1>3 DEF Knows
<1>. QED
  BY <1>1, <1>2, <1>3

(* A step of one call: the others keep what they know and hold.            *)
LEMMA Moved ==
  ASSUME IInv, Kept, AdTypes', \A t \in Topups : Sound(t)',
         NEW c \in Calls, NEW slot, Set(c, slot), Knows(c)',
         \A d \in Calls \ {c}, t \in Topups :
           /\ Starting(d, t) => stripePi'[t] = stripePi[t] /\ ~ Starting(c, t)'
           /\ Claiming(d, t) =>
                topup'[t] \in {"PENDING", "FAILED"} /\ ~ Claiming(c, t)'
  PROVE  IInv'
<1>1. \A d \in Calls \ {c} : call'[d] = call[d]
  BY DEF Set, IInv, AdTypes
<1>2. ASSUME NEW d \in Calls \ {c}
      PROVE  Knows(d)'
  BY <1>1, StillKnows
<1>3. \A d \in Calls : Knows(d)'
  BY <1>2
<1>4. Alone'
  <2>1. \A d \in Calls \ {c}, t \in Topups :
          /\ Starting(d, t)' <=> Starting(d, t)
          /\ Claiming(d, t)' <=> Claiming(d, t)
    BY <1>1 DEF Starting, Claiming
  <2>2. Alone
    BY DEF IInv
  <2>. QED
    BY <2>1, <2>2 DEF Alone
<1>. QED
  BY <1>3, <1>4 DEF IInv

(* A step that touches neither top-ups nor what Stripe says of them.       *)
LEMMA Plain ==
  ASSUME IInv, NEW c \in Calls, NEW slot \in Slots \cup {Idle}, Set(c, slot),
         slot.at \notin {"topup.stripe", "topup.refused", "topup.save.succeeded",
                         "credit", "credit.commit", "hook.fail", "hook.done"},
         campaign' \in Campaigns, Exists' = Exists,
         UNCHANGED <<topupVars, stripeVars, hookVars>>
  PROVE  IInv'
<1>1. call'[c] = slot /\ AdTypes'
  BY DEF Set, IInv, AdTypes, topupVars, stripeVars, hookVars
<1>2. Kept
  BY DEF Kept, HasRow, topupVars, stripeVars, hookVars, IInv, AdTypes
<1>3. \A t \in Topups : Sound(t)'
  BY DEF IInv, Sound, topupVars, stripeVars, hookVars
<1>4. Knows(c)'
  BY <1>1 DEF Knows
<1>5. \A d \in Calls \ {c}, t \in Topups :
        /\ Starting(d, t) => stripePi'[t] = stripePi[t] /\ ~ Starting(c, t)'
        /\ Claiming(d, t) =>
             topup'[t] \in {"PENDING", "FAILED"} /\ ~ Claiming(c, t)'
  BY <1>1 DEF Starting, Claiming, topupVars, stripeVars, IInv, Knows
<1>. QED
  BY <1>1, <1>2, <1>3, <1>4, <1>5, Moved

LEMMA IdleSlot == Idle \in Slots \cup {Idle} /\ Idle.at = "idle"
  BY DEF Idle

LEMMA PlainSteps ==
  ASSUME IInv, NEW c \in Calls,
         \/ \E op \in Operations, by \in {"OWNER", "ADMIN"} : EditRead(c, op, by)
         \/ EditWrite(c) \/ ImpressionRead(c) \/ ClickRead(c) \/ ViewCharge(c)
         \/ ViewPause(c) \/ CallFails(c) \/ Rejected(c)
  PROVE  IInv'
<1>0. campaign \in Campaigns /\ call \in [Calls -> Slots \cup {Idle}]
  BY DEF IInv, AdTypes
<1>1. ASSUME NEW op \in Operations, NEW by \in {"OWNER", "ADMIN"}, EditRead(c, op, by)
      PROVE  IInv'
  <2>1. op \in {"submit", "approve", "reject", "pause", "resume", "delete"}
    BY DEF Operations, From
  <2>2. [at |-> op, by |-> by, seen |-> campaign] \in Slots
    BY <1>0, <2>1 DEF Slots
  <2>. QED
    BY <1>0, <1>1, <2>1, <2>2, Plain DEF EditRead, Exists
<1>2. CASE EditWrite(c)
  <2>1. call[c].at \in {"submit", "approve", "reject", "pause", "resume"}
    BY <1>2 DEF EditWrite, Operations, From
  <2>2. call[c] \in Slots
    BY <1>0, <2>1 DEF Idle
  <2>3. call[c].by \in {"OWNER", "ADMIN"}
    BY <2>1, <2>2 DEF Slots
  <2>4. campaign' \in Campaigns /\ campaign'.status # "deleted"
    BY <1>0, <1>2, <2>1, <2>3 DEF EditWrite, Edited, Campaigns, CampaignStatuses, PauseReasons
  <2>. QED
    BY <1>2, <2>4, IdleSlot, Plain DEF EditWrite, Return, Exists
<1>3. CASE ImpressionRead(c)
  <2>1. /\ [at |-> "view.charge"] \in Slots /\ [at |-> "view.charge"].at = "view.charge"
        /\ [at |-> "view.pause"] \in Slots /\ [at |-> "view.pause"].at = "view.pause"
    BY DEF Slots
  <2>. QED
    BY <1>0, <1>3, <2>1, Plain DEF ImpressionRead, Exists
<1>4. CASE ClickRead(c)
  <2>1. [at |-> "view.charge"] \in Slots /\ [at |-> "view.charge"].at = "view.charge"
    BY DEF Slots
  <2>. QED
    BY <1>0, <1>4, <2>1, Plain DEF ClickRead, Exists
<1>5. CASE ViewCharge(c)
  BY <1>0, <1>5, IdleSlot, Plain DEF ViewCharge, Return, Exists
<1>6. CASE ViewPause(c)
  <2>1. campaign' \in Campaigns /\ Exists' = Exists
    BY <1>0, <1>6 DEF ViewPause, Campaigns, CampaignStatuses, PauseReasons, Exists
  <2>. QED
    BY <1>6, <2>1, IdleSlot, Plain DEF ViewPause, Return
<1>7. CASE CallFails(c)
  BY <1>0, <1>7, IdleSlot, Plain DEF CallFails, Return, Exists
<1>8. CASE Rejected(c)
  BY <1>0, <1>8, IdleSlot, Plain DEF Rejected, Return, Exists
<1>. QED
  BY <1>1, <1>2, <1>3, <1>4, <1>5, <1>6, <1>7, <1>8

LEMMA DeleteStep ==
  ASSUME IInv, NEW c \in Calls, DeleteWrite(c)
  PROVE  IInv'
<1>1. /\ campaign' = [status |-> "deleted", reason |-> "none"] /\ ~ Exists'
      /\ topup' = [t \in Topups |-> "none"] /\ piSaved' = {}
      /\ UNCHANGED <<credits, stripePi, events, processed, missed>> /\ Set(c, Idle)
  BY DEF DeleteWrite, Return, Exists, stripeVars, hookVars
<1>2. AdTypes' /\ call'[c] = Idle
  BY <1>1, IdleSlot DEF IInv, AdTypes, Set, Campaigns, CampaignStatuses, PauseReasons
<1>3. Kept
  BY <1>1 DEF Kept, HasRow
<1>4. \A t \in Topups : Sound(t)'
  BY <1>1 DEF IInv, Sound
<1>5. Knows(c)'
  BY <1>2, IdleSlot DEF Knows
<1>6. \A d \in Calls, t \in Topups : ~ Claiming(d, t)
  BY DEF DeleteWrite, Held, Claiming
<1>7. \A t \in Topups : ~ Starting(c, t)'
  BY <1>2, IdleSlot DEF Starting
<1>. QED
  BY <1>1, <1>2, <1>3, <1>4, <1>5, <1>6, <1>7, Moved

(* TopupStart: the row of a top-up that Stripe never heard of.             *)
LEMMA StartStep ==
  ASSUME IInv, NEW c \in Calls, NEW t \in Topups, TopupStart(c, t)
  PROVE  IInv'
<1> DEFINE slot == [at |-> "topup.stripe", t |-> t]
<1>1. /\ topup' = [topup EXCEPT ![t] = "PENDING"] /\ topup[t] = "none" /\ Exists
      /\ stripePi[t] = "absent" /\ Set(c, slot)
      /\ UNCHANGED <<campaign, piSaved, credits, stripePi, events, processed, missed>>
  BY DEF TopupStart, stripeVars, hookVars
<1>2. slot \in Slots /\ slot.at = "topup.stripe" /\ slot.t = t
  BY DEF Slots
<1> HIDE DEF slot
<1>3. AdTypes' /\ call'[c] = slot
  BY <1>1, <1>2 DEF IInv, AdTypes, Set, TopupStatuses
<1>4. /\ topup'[t] = "PENDING"
      /\ \A u \in Topups \ {t} : topup'[u] = topup[u]
      /\ Exists' = Exists
  BY <1>1 DEF IInv, AdTypes, Exists
<1>5. Kept
  BY <1>1, <1>4 DEF Kept, HasRow
<1>6. ASSUME NEW u \in Topups
      PROVE  Sound(u)'
  <2>1. Sound(u)
    BY DEF IInv
  <2>2. CASE u = t
    <3>1. credits[t] = 0
      BY <1>1, <2>1, <2>2 DEF Sound, IInv, AdTypes
    <3>. QED
      BY <1>1, <1>4, <2>1, <2>2, <3>1 DEF Sound
  <2>3. CASE u # t
    BY <1>1, <1>4, <2>1, <2>3 DEF Sound
  <2>. QED
    BY <2>2, <2>3
<1>7. Knows(c)'
  BY <1>1, <1>2, <1>3, <1>4 DEF Knows, HasRow
<1>8. \A d \in Calls : ~ Starting(d, t) /\ ~ Claiming(d, t)
  <2>1. \A d \in Calls : Knows(d)
    BY DEF IInv
  <2>. QED
    BY <1>1, <2>1 DEF Starting, Claiming, Knows, HasRow
<1>9. \A d \in Calls, u \in Topups :
        Claiming(d, u) => topup[u] \in {"PENDING", "FAILED"}
  BY DEF IInv, Knows, Claiming
<1>10. \A u \in Topups : ~ Claiming(c, u)' /\ (Starting(c, u)' => u = t)
  BY <1>2, <1>3 DEF Starting, Claiming
<1>11. \A d \in Calls \ {c}, u \in Topups :
         /\ Starting(d, u) => stripePi'[u] = stripePi[u] /\ ~ Starting(c, u)'
         /\ Claiming(d, u) => topup'[u] \in {"PENDING", "FAILED"} /\ ~ Claiming(c, u)'
  BY <1>1, <1>4, <1>8, <1>9, <1>10
<1>. QED
  BY <1>1, <1>3, <1>5, <1>6, <1>7, <1>11, Moved

(* What a call that starts a top-up knows of the others.                   *)
LEMMA Starter ==
  ASSUME IInv, NEW c \in Calls, call[c].at \in {"topup.stripe", "topup.refused"}
  PROVE  /\ call[c].t \in Topups
         /\ stripePi[call[c].t] = "absent" /\ HasRow(call[c].t)
         /\ credits[call[c].t] = 0
         /\ \A d \in Calls \ {c} : ~ Starting(d, call[c].t)
         /\ \A d \in Calls, t \in Topups :
              Claiming(d, t) => t # call[c].t /\ topup[t] \in {"PENDING", "FAILED"}
<1>1. call[c].t \in Topups
  BY TopupSlot DEF IInv
<1>2. stripePi[call[c].t] = "absent" /\ HasRow(call[c].t)
  BY DEF IInv, Knows
<1>3. credits[call[c].t] = 0
  <2>1. Sound(call[c].t) /\ credits[call[c].t] \in Nat
    BY <1>1 DEF IInv, AdTypes
  <2>. QED
    BY <1>2, <2>1 DEF Sound
<1>4. \A d \in Calls \ {c} : ~ Starting(d, call[c].t)
  BY <1>1 DEF IInv, Alone, Starting
<1>5. \A d \in Calls, t \in Topups :
        Claiming(d, t) => t # call[c].t /\ topup[t] \in {"PENDING", "FAILED"}
  BY <1>2 DEF IInv, Claiming, Knows
<1>. QED
  BY <1>1, <1>2, <1>3, <1>4, <1>5

(* Stripe's answers to the creation of a PaymentIntent.                    *)
LEMMA AnswerStep ==
  ASSUME IInv, NEW c \in Calls, TopupCharged(c) \/ TopupWaits(c) \/ TopupRefused(c)
  PROVE  IInv'
<1> PICK t \in Topups : t = call[c].t
  BY Starter DEF TopupCharged, TopupWaits, TopupRefused
<1>1. call[c].at = "topup.stripe"
  BY DEF TopupCharged, TopupWaits, TopupRefused
<1>2. PICK at \in {"topup.save.succeeded", "topup.save.waiting", "topup.refused"} :
        /\ Set(c, [call[c] EXCEPT !.at = at])
        /\ at = "topup.save.succeeded" =>
             /\ stripePi' = [stripePi EXCEPT ![t] = "succeeded"]
             /\ events' = events \cup {<<t, "succeeded">>}
        /\ at = "topup.save.waiting" =>
             /\ stripePi' = [stripePi EXCEPT ![t] = "waiting"]
             /\ events' = events
        /\ at = "topup.refused" => stripePi' = stripePi /\ events' = events
  <2>1. call \in [Calls -> Slots \cup {Idle}]
    BY DEF IInv, AdTypes
  <2>2. \A at : Goto(c, at) => Set(c, [call[c] EXCEPT !.at = at])
    BY <2>1 DEF Goto, Set
  <2>. QED
    BY <2>2 DEF TopupCharged, TopupWaits, TopupRefused, Pays, stripeVars
<1> DEFINE slot == [call[c] EXCEPT !.at = at]
<1>3. slot \in Slots /\ slot.at = at /\ slot.t = t
  BY <1>1, TopupSlot DEF IInv
<1> HIDE DEF slot
<1>4. UNCHANGED <<campaign, topup, piSaved, credits, processed, missed>> /\ Exists' = Exists
  BY DEF TopupCharged, TopupWaits, TopupRefused, topupVars, hookVars, Exists
<1>5. /\ stripePi' \in [Topups -> PiStatuses]
      /\ \A u \in Topups \ {t} : stripePi'[u] = stripePi[u]
      /\ at = "topup.save.succeeded" => stripePi'[t] = "succeeded"
      /\ at = "topup.refused" => stripePi'[t] = "absent"
  BY <1>1, <1>2, Starter DEF IInv, AdTypes, PiStatuses
<1>6. AdTypes' /\ call'[c] = slot
  <2>1. events' \subseteq Events /\ processed' \subseteq events'
    BY <1>2, <1>4, EventParts DEF IInv, AdTypes
  <2>2. call' \in [Calls -> Slots \cup {Idle}] /\ call'[c] = slot
    BY <1>2, <1>3 DEF IInv, AdTypes, Set, slot
  <2>. QED
    BY <1>4, <1>5, <2>1, <2>2 DEF IInv, AdTypes
<1>7. Kept
  <2>1. stripePi[t] = "absent"
    BY <1>1, Starter
  <2>2. \A u \in Topups : stripePi[u] = "succeeded" => stripePi'[u] = "succeeded"
    BY <1>5, <2>1
  <2>. QED
    BY <1>2, <1>4, <2>2 DEF Kept, HasRow
<1>8. ASSUME NEW u \in Topups
      PROVE  Sound(u)'
  <2>1. Sound(u)
    BY DEF IInv
  <2>2. CASE u = t
    <3>1. /\ credits'[t] = 0 /\ stripePi[t] = "absent"
          /\ <<t, "succeeded">> \notin events
      BY <1>1, <1>4, <2>1, <2>2, Starter DEF Sound
    <3>2. <<t, "succeeded">> \in events' => stripePi'[t] = "succeeded"
      BY <1>2, <1>5, <3>1
    <3>3. <<t, "succeeded">> \notin processed'
      BY <1>4, <3>1 DEF IInv, AdTypes
    <3>. QED
      BY <1>4, <2>1, <2>2, <3>1, <3>2, <3>3 DEF Sound
  <2>3. CASE u # t
    <3>1. \A w \in {"succeeded", "failed"} : <<u, w>> \in events' <=> <<u, w>> \in events
      BY <1>2, <2>3
    <3>. QED
      BY <1>4, <1>5, <2>1, <2>3, <3>1 DEF Sound
  <2>. QED
    BY <2>2, <2>3
<1>9. Knows(c)'
  BY <1>1, <1>3, <1>4, <1>5, <1>6, Starter DEF Knows, HasRow
<1>10. \A u \in Topups : ~ Claiming(c, u)' /\ (Starting(c, u)' => u = t)
  BY <1>3, <1>6 DEF Starting, Claiming
<1>11. \A d \in Calls \ {c}, u \in Topups :
         /\ Starting(d, u) => stripePi'[u] = stripePi[u] /\ ~ Starting(c, u)'
         /\ Claiming(d, u) => topup'[u] \in {"PENDING", "FAILED"} /\ ~ Claiming(c, u)'
  BY <1>1, <1>4, <1>5, <1>10, Starter
<1>. QED
  BY <1>2, <1>6, <1>7, <1>8, <1>9, <1>11, Moved DEF slot

LEMMA FailedStep ==
  ASSUME IInv, NEW c \in Calls, TopupFailed(c)
  PROVE  IInv'
<1> PICK t \in Topups : t = call[c].t
  BY Starter DEF TopupFailed
<1>1. /\ topup' = [topup EXCEPT ![t] = "FAILED"] /\ topup[t] # "none" /\ Set(c, Idle)
      /\ UNCHANGED <<campaign, piSaved, credits, stripePi, events, processed, missed>>
      /\ Exists' = Exists
  BY DEF TopupFailed, Return, stripeVars, hookVars, Exists
<1>2. AdTypes' /\ call'[c] = Idle /\ topup'[t] = "FAILED"
      /\ \A u \in Topups \ {t} : topup'[u] = topup[u]
  BY <1>1, IdleSlot DEF IInv, AdTypes, Set, TopupStatuses
<1>3. Kept
  BY <1>1, <1>2 DEF Kept, HasRow
<1>4. ASSUME NEW u \in Topups
      PROVE  Sound(u)'
  <2>1. Sound(u) /\ credits[t] = 0
    BY Starter DEF IInv, TopupFailed
  <2>. QED
    BY <1>1, <1>2, <2>1 DEF Sound
<1>5. Knows(c)' /\ \A u \in Topups : ~ Starting(c, u)' /\ ~ Claiming(c, u)'
  BY <1>2, IdleSlot DEF Knows, Starting, Claiming
<1>6. \A d \in Calls, u \in Topups : Claiming(d, u) => topup'[u] \in {"PENDING", "FAILED"}
  BY <1>2, Starter DEF TopupFailed
<1>. QED
  BY <1>1, <1>2, <1>3, <1>4, <1>5, <1>6, Moved

LEMMA SaveStep ==
  ASSUME IInv, NEW c \in Calls, TopupSave(c)
  PROVE  IInv'
<1> PICK t \in Topups : t = call[c].t
  BY TopupSlot DEF TopupSave, IInv
<1> DEFINE slot == [at |-> "credit", e |-> <<t, "created">>]
<1>1. /\ call[c].at \in {"topup.save.waiting", "topup.save.succeeded"}
      /\ piSaved' = piSaved \cup {t} /\ topup[t] # "none"
      /\ \/ call[c].at = "topup.save.succeeded" /\ Set(c, slot)
         \/ Set(c, Idle)
      /\ UNCHANGED <<campaign, topup, credits, stripePi, events, processed, missed>>
      /\ Exists' = Exists
  BY DEF TopupSave, Return, stripeVars, hookVars, Exists
<1>2. slot \in Slots /\ slot.at = "credit" /\ slot.e = <<t, "created">>
  BY EventParts DEF Slots
<1> HIDE DEF slot
<1>3. /\ AdTypes' /\ call'[c] \in {slot, Idle}
      /\ call'[c] = slot => call[c].at = "topup.save.succeeded"
  <2>1. slot # Idle
    BY <1>2, IdleSlot
  <2>. QED
    BY <1>1, <1>2, <2>1, IdleSlot DEF IInv, AdTypes, Set
<1>4. Kept
  BY <1>1 DEF Kept, HasRow
<1>5. \A u \in Topups : Sound(u)'
  BY <1>1 DEF IInv, Sound
<1>6. Knows(c)'
  <2>1. call[c].at = "topup.save.succeeded" => stripePi[t] = "succeeded"
    BY DEF IInv, Knows
  <2>. QED
    BY <1>1, <1>2, <1>3, <2>1, IdleSlot DEF Knows, HasRow
<1>7. \A d \in Calls \ {c}, u \in Topups :
        /\ Starting(d, u) => stripePi'[u] = stripePi[u] /\ ~ Starting(c, u)'
        /\ Claiming(d, u) => topup'[u] \in {"PENDING", "FAILED"} /\ ~ Claiming(c, u)'
  BY <1>1, <1>2, <1>3, IdleSlot DEF Starting, Claiming, IInv, Knows
<1>. QED
  BY <1>1, <1>3, <1>4, <1>5, <1>6, <1>7, Moved

(* What a call that credits a top-up knows of it.                          *)
LEMMA Crediting ==
  ASSUME IInv, NEW c \in Calls, call[c].at \in {"credit", "credit.commit"}
  PROVE  \E e \in Sources, t \in Topups :
           /\ e = call[c].e /\ t = e[1] /\ e = <<t, e[2]>>
           /\ stripePi[t] = "succeeded" /\ HasRow(t)
           /\ e[2] # "created" => e \in events
           /\ Sound(t) /\ credits[t] \in Nat
<1>1. PICK e \in Sources : e = call[c].e
  BY EventSlot DEF IInv
<1>2. e[1] \in Topups /\ e = <<e[1], e[2]>>
  BY EventParts
<1>3. Knows(c) /\ Sound(e[1]) /\ credits[e[1]] \in Nat
  BY <1>2 DEF IInv, AdTypes
<1>. QED
  BY <1>1, <1>2, <1>3 DEF Knows

(* Where a call goes once the event is handled.                            *)
LEMMA HandledSlot ==
  ASSUME NEW c \in Calls, NEW e \in Sources, Handled(c, e)
  PROVE  \E slot \in Slots \cup {Idle} :
           /\ Set(c, slot)
           /\ \/ slot.at = "idle"
              \/ slot.at = "hook.done" /\ slot.e = e /\ e[2] # "created"
<1>1. CASE e[2] = "created"
  BY <1>1, IdleSlot DEF Handled, Return
<1>2. CASE e[2] # "created"
  <2>1. /\ [at |-> "hook.done", e |-> e] \in Slots
        /\ [at |-> "hook.done", e |-> e].at = "hook.done"
        /\ [at |-> "hook.done", e |-> e].e = e
    BY DEF Slots
  <2>. QED
    BY <1>2, <2>1 DEF Handled
<1>. QED
  BY <1>1, <1>2

LEMMA ClaimStep ==
  ASSUME IInv, NEW c \in Calls, CreditClaim(c)
  PROVE  IInv'
<1>1. call[c].at = "credit"
  BY DEF CreditClaim
<1>2. PICK e \in Sources, t \in Topups :
        /\ e = call[c].e /\ t = e[1] /\ e = <<t, e[2]>>
        /\ stripePi[t] = "succeeded" /\ HasRow(t)
        /\ e[2] # "created" => e \in events
        /\ Sound(t) /\ credits[t] \in Nat
  BY <1>1, Crediting
<1> DEFINE slot == [at |-> "credit.commit", e |-> e, seen |-> campaign]
<1>3. slot \in Slots /\ slot.at = "credit.commit" /\ slot.e = e
  BY DEF Slots, IInv, AdTypes
<1>4. /\ Set(c, slot) /\ topup[t] \in {"PENDING", "FAILED"}
      /\ \A d \in Calls : ~ Claiming(d, t)
      /\ UNCHANGED <<campaign, topup, piSaved, credits, stripePi, events, processed, missed>>
      /\ Exists' = Exists
  BY <1>2 DEF CreditClaim, Claimable, Held, Claiming, topupVars, stripeVars, hookVars, Exists
<1> HIDE DEF slot
<1>5. AdTypes' /\ call'[c] = slot
  BY <1>3, <1>4 DEF IInv, AdTypes, Set
<1>6. Kept
  BY <1>4 DEF Kept, HasRow
<1>7. \A u \in Topups : Sound(u)'
  BY <1>4 DEF IInv, Sound
<1>8. Knows(c)'
  BY <1>2, <1>3, <1>4, <1>5 DEF Knows, HasRow
<1>9. \A d \in Calls \ {c}, u \in Topups :
        /\ Starting(d, u) => stripePi'[u] = stripePi[u] /\ ~ Starting(c, u)'
        /\ Claiming(d, u) => topup'[u] \in {"PENDING", "FAILED"} /\ ~ Claiming(c, u)'
  <2>1. \A u \in Topups : ~ Starting(c, u)' /\ (Claiming(c, u)' => u = t)
    BY <1>2, <1>3, <1>5 DEF Starting, Claiming
  <2>2. \A d \in Calls, u \in Topups : Claiming(d, u) => topup[u] \in {"PENDING", "FAILED"}
    BY DEF IInv, Knows, Claiming
  <2>. QED
    BY <1>4, <2>1, <2>2
<1>. QED
  BY <1>4, <1>5, <1>6, <1>7, <1>8, <1>9, Moved

LEMMA NotClaimedStep ==
  ASSUME IInv, NEW c \in Calls, CreditNotClaimed(c)
  PROVE  IInv'
<1>1. call[c].at = "credit"
  BY DEF CreditNotClaimed
<1>2. PICK e \in Sources, t \in Topups :
        /\ e = call[c].e /\ t = e[1] /\ e = <<t, e[2]>>
        /\ stripePi[t] = "succeeded" /\ HasRow(t)
        /\ e[2] # "created" => e \in events
        /\ Sound(t) /\ credits[t] \in Nat
  BY <1>1, Crediting
<1>3. /\ Handled(c, e) /\ topup[t] \notin {"PENDING", "FAILED"}
      /\ UNCHANGED <<campaign, topup, piSaved, credits, stripePi, events, processed, missed>>
      /\ Exists' = Exists
  BY <1>2 DEF CreditNotClaimed, Claimable, topupVars, stripeVars, hookVars, Exists
<1>4. PICK slot \in Slots \cup {Idle} :
        /\ Set(c, slot)
        /\ \/ slot.at = "idle"
           \/ slot.at = "hook.done" /\ slot.e = e /\ e[2] # "created"
  BY <1>3, HandledSlot
<1>5. AdTypes' /\ call'[c] = slot
  BY <1>3, <1>4 DEF IInv, AdTypes, Set
<1>6. Kept
  BY <1>3 DEF Kept, HasRow
<1>7. \A u \in Topups : Sound(u)'
  BY <1>3 DEF IInv, Sound
<1>8. ~ Exists \/ credits[t] > 0
  <2>1. topup[t] \in TopupStatuses \cup {"none"}
    BY DEF IInv, AdTypes
  <2>. QED
    BY <1>2, <1>3, <2>1 DEF HasRow, Sound, TopupStatuses
<1>9. Knows(c)'
  BY <1>2, <1>3, <1>4, <1>5, <1>8 DEF Knows
<1>10. \A d \in Calls \ {c}, u \in Topups :
         /\ Starting(d, u) => stripePi'[u] = stripePi[u] /\ ~ Starting(c, u)'
         /\ Claiming(d, u) => topup'[u] \in {"PENDING", "FAILED"} /\ ~ Claiming(c, u)'
  BY <1>3, <1>4, <1>5 DEF Starting, Claiming, IInv, Knows
<1>. QED
  BY <1>4, <1>5, <1>6, <1>7, <1>9, <1>10, Moved

LEMMA CommitStep ==
  ASSUME IInv, NEW c \in Calls, CreditCommit(c)
  PROVE  IInv'
<1>1. call[c].at = "credit.commit"
  BY DEF CreditCommit
<1>2. PICK e \in Sources, t \in Topups :
        /\ e = call[c].e /\ t = e[1] /\ e = <<t, e[2]>>
        /\ stripePi[t] = "succeeded" /\ HasRow(t)
        /\ e[2] # "created" => e \in events
        /\ Sound(t) /\ credits[t] \in Nat
  BY <1>1, Crediting
<1>3. /\ Handled(c, e)
      /\ topup' = [topup EXCEPT ![t] = "SUCCEEDED"]
      /\ credits' = [credits EXCEPT ![t] = credits[t] + 1]
      /\ campaign' \in {campaign, [status |-> "ACTIVE", reason |-> "none"]}
      /\ UNCHANGED <<piSaved, stripePi, events, processed, missed>>
  BY <1>2 DEF CreditCommit, stripeVars, hookVars
<1>4. topup[t] \in {"PENDING", "FAILED"} /\ Exists
  BY <1>1, <1>2 DEF IInv, Knows, Sound
<1>5. PICK slot \in Slots \cup {Idle} :
        /\ Set(c, slot)
        /\ \/ slot.at = "idle"
           \/ slot.at = "hook.done" /\ slot.e = e /\ e[2] # "created"
  BY <1>3, HandledSlot
<1>6. /\ Exists'
      /\ topup'[t] = "SUCCEEDED" /\ credits'[t] = credits[t] + 1
      /\ \A u \in Topups \ {t} : topup'[u] = topup[u] /\ credits'[u] = credits[u]
  BY <1>3, <1>4 DEF IInv, AdTypes, Exists
<1>7. AdTypes' /\ call'[c] = slot
  <2>1. campaign' \in Campaigns
    BY <1>3 DEF IInv, AdTypes, Campaigns, CampaignStatuses, PauseReasons
  <2>. QED
    BY <1>2, <1>3, <1>5, <2>1 DEF IInv, AdTypes, Set, TopupStatuses
<1>8. Kept
  BY <1>2, <1>3, <1>4, <1>6 DEF Kept, HasRow
<1>9. ASSUME NEW u \in Topups
      PROVE  Sound(u)'
  <2>1. Sound(u)
    BY DEF IInv
  <2>2. CASE u = t
    <3>1. <<t, "failed">> \notin events => credits[t] = 0
      BY <1>2, <1>4 DEF Sound
    <3>2. credits'[t] > 0 /\ (<<t, "failed">> \notin events => credits'[t] = 1)
      BY <1>2, <1>6, <3>1
    <3>3. stripePi'[t] = "succeeded" /\ topup'[t] = "SUCCEEDED" /\ Exists'
      BY <1>2, <1>3, <1>6
    <3>4. events' = events
      BY <1>3
    <3>. QED
      BY <2>2, <3>2, <3>3, <3>4 DEF Sound
  <2>3. CASE u # t
    BY <1>3, <1>4, <1>6, <2>1, <2>3 DEF Sound
  <2>. QED
    BY <2>2, <2>3
<1>10. Knows(c)'
  BY <1>2, <1>3, <1>5, <1>6, <1>7 DEF Knows
<1>11. \A d \in Calls \ {c}, u \in Topups :
         /\ Starting(d, u) => stripePi'[u] = stripePi[u] /\ ~ Starting(c, u)'
         /\ Claiming(d, u) => topup'[u] \in {"PENDING", "FAILED"} /\ ~ Claiming(c, u)'
  <2>1. \A u \in Topups : ~ Starting(c, u)' /\ ~ Claiming(c, u)'
    BY <1>5, <1>7 DEF Starting, Claiming
  <2>2. \A d \in Calls \ {c} : ~ Claiming(d, t)
    BY <1>1, <1>2 DEF IInv, Alone, Claiming
  <2>3. \A d \in Calls, u \in Topups : Claiming(d, u) => topup[u] \in {"PENDING", "FAILED"}
    BY DEF IInv, Knows, Claiming
  <2>. QED
    BY <1>3, <1>6, <2>1, <2>2, <2>3
<1>. QED
  BY <1>5, <1>7, <1>8, <1>9, <1>10, <1>11, Moved

(* The read of a delivery, of either kind.                                 *)
LEMMA HookReadStep ==
  ASSUME IInv, NEW c \in Calls, NEW t \in Topups,
         HookSucceeded(c, t) \/ HookFailed(c, t)
  PROVE  IInv'
<1>1. PICK e \in Events, slot \in Slots :
        /\ e \in events /\ e[1] = t /\ slot.e = e /\ Set(c, slot)
        /\ slot.at \in {"credit", "hook.fail", "hook.done"}
        /\ slot.at = "credit" => t \in piSaved /\ e = <<t, "succeeded">>
        /\ slot.at = "hook.fail" => e = <<t, "failed">>
        /\ slot.at = "hook.done" /\ e[2] = "succeeded" =>
             t \in missed' \/ topup[t] = "SUCCEEDED"
  <2>1. \A at \in {"credit", "hook.fail", "hook.done"}, e \in Events :
          /\ [at |-> at, e |-> e] \in Slots
          /\ [at |-> at, e |-> e].at = at /\ [at |-> at, e |-> e].e = e
    BY EventParts DEF Slots
  <2>2. CASE HookSucceeded(c, t)
    <3>1. /\ <<t, "succeeded">> \in Events /\ <<t, "succeeded">> \in events
          /\ <<t, "succeeded">>[1] = t
      BY <2>2, EventParts DEF HookSucceeded
    <3>2. CASE t \in piSaved /\ topup[t] # "SUCCEEDED"
      <4>1. Set(c, [at |-> "credit", e |-> <<t, "succeeded">>])
        BY <2>2, <3>2 DEF HookSucceeded
      <4>. QED
        BY <2>1, <3>1, <3>2, <4>1
    <3>3. CASE ~ (t \in piSaved /\ topup[t] # "SUCCEEDED")
      <4>1. /\ Set(c, [at |-> "hook.done", e |-> <<t, "succeeded">>])
            /\ t \in missed' \/ topup[t] = "SUCCEEDED"
        BY <2>2, <3>3 DEF HookSucceeded
      <4>. QED
        BY <2>1, <3>1, <4>1
    <3>. QED
      BY <3>2, <3>3
  <2>3. CASE HookFailed(c, t)
    <3>1. /\ <<t, "failed">> \in Events /\ <<t, "failed">> \in events
          /\ <<t, "failed">>[1] = t /\ <<t, "failed">>[2] = "failed"
      BY <2>3, EventParts DEF HookFailed
    <3>2. \/ Set(c, [at |-> "hook.fail", e |-> <<t, "failed">>])
          \/ Set(c, [at |-> "hook.done", e |-> <<t, "failed">>])
      BY <2>3 DEF HookFailed
    <3>. QED
      BY <2>1, <3>1, <3>2
  <2>. QED
    BY <2>2, <2>3
<1>2. /\ UNCHANGED <<campaign, topup, piSaved, credits, stripePi, events, processed>>
      /\ missed \subseteq missed' /\ missed' \subseteq Topups /\ Exists' = Exists
  BY DEF HookSucceeded, HookFailed, topupVars, stripeVars, hookVars, Exists, IInv, AdTypes
<1>3. AdTypes' /\ call'[c] = slot
  BY <1>1, <1>2 DEF IInv, AdTypes, Set
<1>4. Kept
  BY <1>2 DEF Kept, HasRow
<1>5. \A u \in Topups : Sound(u)'
  BY <1>2 DEF IInv, Sound
<1>6. Knows(c)'
  <2>1. Sound(t)
    BY DEF IInv
  <2>2. CASE slot.at = "credit"
    BY <1>1, <1>2, <1>3, <2>1, <2>2 DEF Knows, Sound, HasRow
  <2>3. CASE slot.at = "hook.fail"
    <3>1. e[2] = "failed"
      BY <1>1, <2>3
    <3>. QED
      BY <1>1, <1>2, <1>3, <2>3, <3>1 DEF Knows
  <2>4. CASE slot.at = "hook.done"
    BY <1>1, <1>2, <1>3, <2>1, <2>4 DEF Knows, Sound
  <2>. QED
    BY <1>1, <2>2, <2>3, <2>4
<1>7. \A d \in Calls \ {c}, u \in Topups :
        /\ Starting(d, u) => stripePi'[u] = stripePi[u] /\ ~ Starting(c, u)'
        /\ Claiming(d, u) => topup'[u] \in {"PENDING", "FAILED"} /\ ~ Claiming(c, u)'
  <2>1. \A u \in Topups : ~ Starting(c, u)' /\ ~ Claiming(c, u)'
    BY <1>1, <1>3 DEF Starting, Claiming
  <2>2. \A d \in Calls, u \in Topups : Claiming(d, u) => topup[u] \in {"PENDING", "FAILED"}
    BY DEF IInv, Knows, Claiming
  <2>. QED
    BY <1>2, <2>1, <2>2
<1>. QED
  BY <1>1, <1>3, <1>4, <1>5, <1>6, <1>7, Moved

LEMMA HookFailStep ==
  ASSUME IInv, NEW c \in Calls, HookFailWrite(c)
  PROVE  IInv'
<1>1. call[c].at = "hook.fail"
  BY DEF HookFailWrite
<1>2. PICK e \in Sources, t \in Topups :
        e = call[c].e /\ t = e[1] /\ e = <<t, "failed">> /\ e \in events
  <2>1. call[c].e \in Sources /\ call[c].e \in events /\ call[c].e[2] = "failed"
    BY <1>1, EventSlot DEF IInv, Knows
  <2>. QED
    BY <2>1, EventParts
<1>3. /\ Handled(c, e) /\ topup[t] # "none" /\ \A d \in Calls : ~ Claiming(d, t)
      /\ topup' = [topup EXCEPT ![t] = "FAILED"]
      /\ UNCHANGED <<campaign, piSaved, credits, stripePi, events, processed, missed>>
      /\ Exists' = Exists
  BY <1>2 DEF HookFailWrite, Held, Claiming, stripeVars, hookVars, Exists
<1>4. PICK slot \in Slots \cup {Idle} :
        /\ Set(c, slot)
        /\ \/ slot.at = "idle"
           \/ slot.at = "hook.done" /\ slot.e = e /\ e[2] # "created"
  BY <1>3, HandledSlot
<1>5. /\ AdTypes' /\ call'[c] = slot /\ topup'[t] = "FAILED"
      /\ \A u \in Topups \ {t} : topup'[u] = topup[u]
  BY <1>3, <1>4 DEF IInv, AdTypes, Set, TopupStatuses
<1>6. Kept
  BY <1>3, <1>5 DEF Kept, HasRow
<1>7. ASSUME NEW u \in Topups
      PROVE  Sound(u)'
  <2>1. Sound(u)
    BY DEF IInv
  <2>. QED
    BY <1>2, <1>3, <1>5, <2>1 DEF Sound
<1>8. Knows(c)'
  <2>1. e[2] = "failed"
    BY <1>2
  <2>. QED
    BY <1>2, <1>3, <1>4, <1>5, <2>1 DEF Knows
<1>9. \A d \in Calls \ {c}, u \in Topups :
        /\ Starting(d, u) => stripePi'[u] = stripePi[u] /\ ~ Starting(c, u)'
        /\ Claiming(d, u) => topup'[u] \in {"PENDING", "FAILED"} /\ ~ Claiming(c, u)'
  BY <1>3, <1>4, <1>5 DEF Starting, Claiming, IInv, Knows
<1>. QED
  BY <1>4, <1>5, <1>6, <1>7, <1>8, <1>9, Moved

LEMMA DoneStep ==
  ASSUME IInv, NEW c \in Calls, HookDone(c)
  PROVE  IInv'
<1>1. call[c].at = "hook.done"
  BY DEF HookDone
<1>2. PICK e \in Events :
        /\ e = call[c].e /\ e \in events /\ e[1] \in Topups
        /\ e[2] = "succeeded" => e[1] \in missed \/ ~ Exists \/ credits[e[1]] > 0
  <2>1. Knows(c) /\ call[c].e \in events /\ events \subseteq Events
    BY <1>1 DEF IInv, Knows, AdTypes
  <2>. QED
    BY <1>1, <2>1, EventParts DEF Knows
<1>3. /\ Set(c, Idle) /\ processed' = processed \cup {e} /\ Exists' = Exists
      /\ UNCHANGED <<campaign, topup, piSaved, credits, stripePi, events, missed>>
  BY <1>2 DEF HookDone, Return, topupVars, stripeVars, Exists
<1>4. AdTypes' /\ call'[c] = Idle
  BY <1>2, <1>3, IdleSlot DEF IInv, AdTypes, Set
<1>5. Kept
  BY <1>3 DEF Kept, HasRow
<1>6. ASSUME NEW u \in Topups
      PROVE  Sound(u)'
  <2>1. Sound(u)
    BY DEF IInv
  <2>2. <<u, "succeeded">> = e => e[1] = u /\ e[2] = "succeeded"
    OBVIOUS
  <2>. QED
    BY <1>2, <1>3, <2>1, <2>2 DEF Sound
<1>7. Knows(c)' /\ \A u \in Topups : ~ Starting(c, u)' /\ ~ Claiming(c, u)'
  BY <1>4, IdleSlot DEF Knows, Starting, Claiming
<1>8. \A d \in Calls, u \in Topups : Claiming(d, u) => topup[u] \in {"PENDING", "FAILED"}
  BY DEF IInv, Knows, Claiming
<1>. QED
  BY <1>3, <1>4, <1>5, <1>6, <1>7, <1>8, Moved

(* A payment or a declined attempt while no request waits for Stripe.      *)
LEMMA StripeStep ==
  ASSUME IInv, NEW t \in Topups, PiSucceeds(t) \/ PiDeclined(t)
  PROVE  IInv'
<1>1. /\ stripePi[t] = "waiting"
      /\ \/ /\ stripePi' = [stripePi EXCEPT ![t] = "succeeded"]
            /\ events' = events \cup {<<t, "succeeded">>}
         \/ stripePi' = stripePi /\ events' = events \cup {<<t, "failed">>}
      /\ UNCHANGED <<campaign, topup, piSaved, credits, processed, missed, call>>
      /\ Exists' = Exists
  BY DEF PiSucceeds, PiDeclined, Pays, topupVars, hookVars, Exists
<1>2. AdTypes'
  <2>1. AdTypes /\ <<t, "succeeded">> \in Events /\ <<t, "failed">> \in Events
    BY EventParts DEF IInv
  <2>2. stripePi' \in [Topups -> PiStatuses]
    BY <1>1, <2>1 DEF AdTypes, PiStatuses
  <2>3. events' \subseteq Events /\ processed' \subseteq events'
    BY <1>1, <2>1 DEF AdTypes
  <2>. QED
    BY <1>1, <2>1, <2>2, <2>3 DEF AdTypes
<1>3. /\ \A u \in Topups \ {t} : stripePi'[u] = stripePi[u]
      /\ <<t, "succeeded">> \in events' \ events => stripePi'[t] = "succeeded"
      /\ events \subseteq events'
      /\ \A u \in Topups \ {t}, w \in {"succeeded", "failed"} :
           <<u, w>> \in events' => <<u, w>> \in events
  BY <1>1 DEF IInv, AdTypes
<1>4. Kept
  BY <1>1, <1>3 DEF Kept, HasRow
<1>5. ASSUME NEW u \in Topups
      PROVE  Sound(u)'
  <2>1. Sound(u) /\ credits[u] \in Nat
    BY DEF IInv, AdTypes
  <2>2. CASE u = t
    BY <1>1, <1>3, <2>1, <2>2 DEF Sound
  <2>3. CASE u # t
    BY <1>1, <1>3, <2>1, <2>3 DEF Sound
  <2>. QED
    BY <2>2, <2>3
<1>6. ASSUME NEW c \in Calls
      PROVE  Knows(c)'
  <2>1. \A u \in Topups : Starting(c, u) => stripePi'[u] = stripePi[u]
    BY <1>1, <1>3 DEF IInv, Knows, Starting
  <2>2. \A u \in Topups : Claiming(c, u) => topup'[u] \in {"PENDING", "FAILED"}
    BY <1>1 DEF IInv, Knows, Claiming
  <2>. QED
    BY <1>1, <1>4, <2>1, <2>2, StillKnows
<1>7. Alone'
  BY <1>1 DEF IInv, Alone, Starting, Claiming
<1>. QED
  BY <1>2, <1>5, <1>6, <1>7 DEF IInv

-----------------------------------------------------------------------------
LEMMA Begins == Init => IInv
<1> SUFFICES ASSUME Init PROVE IInv
  OBVIOUS
<1>1. AdTypes
  BY IdleSlot DEF Init, AdTypes, Campaigns, CampaignStatuses, PauseReasons,
     TopupStatuses, PiStatuses
<1>2. \A t \in Topups : Sound(t)
  BY DEF Init, Sound
<1>3. \A c \in Calls : call[c].at = "idle"
  BY IdleSlot DEF Init
<1>4. (\A c \in Calls : Knows(c)) /\ Alone
  BY <1>3 DEF Knows, Alone, Starting, Claiming
<1>. QED
  BY <1>1, <1>2, <1>4 DEF IInv

LEMMA Goes == IInv /\ [Next]_vars => IInv'
<1> SUFFICES ASSUME IInv, [Next]_vars PROVE IInv'
  OBVIOUS
<1>1. CASE UNCHANGED vars
  BY <1>1 DEF IInv, AdTypes, Sound, Knows, Alone, Starting, Claiming, HasRow, Exists,
     vars, topupVars, stripeVars, hookVars
<1>2. ASSUME NEW c \in Calls, CampaignStep(c) PROVE IInv'
  BY <1>2, PlainSteps, DeleteStep DEF CampaignStep
<1>3. ASSUME NEW c \in Calls, TopupStep(c) PROVE IInv'
  BY <1>3, StartStep, AnswerStep, FailedStep, SaveStep, ClaimStep, NotClaimedStep,
     CommitStep DEF TopupStep
<1>4. ASSUME NEW c \in Calls, HookStep(c) PROVE IInv'
  BY <1>4, HookReadStep, HookFailStep, DoneStep DEF HookStep
<1>5. ASSUME NEW c \in Calls, CallFails(c) \/ Rejected(c) PROVE IInv'
  BY <1>5, PlainSteps
<1>. QED
  BY <1>1, <1>2, <1>3, <1>4, <1>5, StripeStep DEF Next

LEMMA Invariant == Spec => []IInv
  BY Begins, Goes, PTL DEF Spec

(* The remaining types, which no other part depends on.                    *)
Rest ==
  pricing \in {"CPM", "CPC"} /\ spent \in Nat /\ failures \in 0 .. MaxFailures

LEMMA RestKept == Rest /\ [Next]_vars => Rest'
<1>. SUFFICES ASSUME Rest, [Next]_vars PROVE Rest'
  OBVIOUS
<1>1. CASE UNCHANGED <<pricing, spent, failures>>
  BY <1>1 DEF Rest
<1>2. ASSUME NEW c \in Calls, CampaignStep(c) PROVE Rest'
  <2>1. CASE ViewCharge(c)
    BY <2>1 DEF ViewCharge, Rest
  <2>. QED
    BY <1>1, <1>2, <2>1 DEF CampaignStep, EditRead, EditWrite, DeleteWrite,
       ImpressionRead, ClickRead, ViewPause
<1>3. ASSUME NEW c \in Calls, TopupStep(c) PROVE Rest'
  BY <1>1, <1>3 DEF TopupStep, TopupStart, TopupCharged, TopupWaits, TopupRefused,
     TopupFailed, TopupSave, CreditClaim, CreditNotClaimed, CreditCommit
<1>4. ASSUME NEW c \in Calls, HookStep(c) PROVE Rest'
  BY <1>1, <1>4 DEF HookStep, HookSucceeded, HookFailed, HookFailWrite, HookDone
<1>5. ASSUME NEW c \in Calls, CallFails(c) PROVE Rest'
  BY <1>5, MaxFailuresAssumption DEF CallFails, Rest
<1>6. ASSUME NEW c \in Calls, Rejected(c) PROVE Rest'
  BY <1>1, <1>6 DEF Rejected
<1>7. ASSUME NEW t \in Topups, PiSucceeds(t) \/ PiDeclined(t) PROVE Rest'
  BY <1>1, <1>7 DEF PiSucceeds, PiDeclined
<1>8. CASE UNCHANGED vars
  BY <1>1, <1>8 DEF vars
<1>. QED
  BY <1>2, <1>3, <1>4, <1>5, <1>6, <1>7, <1>8 DEF Next

(* Every variable of a campaign keeps its type.                            *)
LEMMA TypeCorrect == Spec => []TypeOK
<1>1. Init => Rest
  BY MaxFailuresAssumption DEF Init, Rest
<1>2. IInv /\ Rest => TypeOK
  BY DEF IInv, AdTypes, Rest, TypeOK
<1>. QED
  BY <1>1, <1>2, RestKept, Invariant, PTL DEF Spec

(* What creditBudget added to a budget was paid at Stripe.                 *)
THEOREM CreditsWerePaid == Spec => []CreditedWasPaid
<1>1. IInv => CreditedWasPaid
  BY DEF IInv, Sound, CreditedWasPaid
<1>. QED
  BY <1>1, Invariant, PTL

(* The request and any number of deliveries credit a payment once, if no   *)
(* attempt to pay it was declined (the claim in creditBudget).             *)
THEOREM CreditsOnce == Spec => []CreditedOnce
<1>1. ASSUME IInv, NEW t \in Topups, credits[t] > 1
      PROVE  <<t, "failed">> \in events
  <2>1. Sound(t) /\ credits[t] \in Nat
    BY <1>1 DEF IInv, AdTypes
  <2>. QED
    BY <1>1, <2>1 DEF Sound
<1>2. IInv => CreditedOnce
  BY <1>1 DEF CreditedOnce
<1>. QED
  BY <1>2, Invariant, PTL

(* An acknowledged payment_intent.succeeded has credited its top-up, unless *)
(* it was delivered before the row had its PI or the campaign was deleted. *)
THEOREM AcknowledgementsCredit == Spec => []AcknowledgedIsCredited
<1>1. IInv => AcknowledgedIsCredited
  BY DEF IInv, Sound, AcknowledgedIsCredited
<1>. QED
  BY <1>1, Invariant, PTL

(* What a campaign may spend is what its payments say: paid, once, and no  *)
(* later than the success of a payment was acknowledged.                   *)
THEOREM CreditsAreExact == Spec => []CreditIsExact
<1>1. TypeOK /\ CreditedWasPaid /\ CreditedOnce /\ AcknowledgedIsCredited
        => CreditIsExact
  BY DEF CreditIsExact
<1>. QED
  BY <1>1, TypeCorrect, CreditsWerePaid, CreditsOnce, AcknowledgementsCredit, PTL

-----------------------------------------------------------------------------
(* Pauses                                                                  *)

(* Who edits may do so, and an owner who resumes read no admin's pause.    *)
MayEdit(c) ==
  call[c].at \in Operations =>
    /\ call[c].by \in Actors[call[c].at]
    /\ call[c].at = "resume" /\ call[c].by = "OWNER" => call[c].seen.reason # "ADMIN"

EditsAllowed == \A c \in Calls : MayEdit(c)

LEMMA OtherSlot ==
  ASSUME AdTypes, \A d \in Calls : MayEdit(d), NEW c \in Calls, NEW slot, Set(c, slot),
         slot.at \notin Operations
  PROVE  \A d \in Calls : MayEdit(d)'
<1>1. call'[c] = slot /\ \A d \in Calls \ {c} : call'[d] = call[d]
  BY DEF AdTypes, Set
<1>. QED
  BY <1>1 DEF MayEdit

LEMMA StillMayEdit ==
  ASSUME IInv, \A d \in Calls : MayEdit(d), [Next]_vars
  PROVE  \A d \in Calls : MayEdit(d)'
<1>0. /\ Operations = {"submit", "approve", "reject", "pause", "resume", "delete"}
      /\ Idle.at = "idle"
  BY DEF Operations, From, Idle
<1>1. CASE UNCHANGED call
  BY <1>1 DEF MayEdit
<1>2. ASSUME NEW c \in Calls, NEW op \in Operations, NEW by \in {"OWNER", "ADMIN"},
             EditRead(c, op, by)
      PROVE  \A d \in Calls : MayEdit(d)'
  <2>1. /\ call'[c] = [at |-> op, by |-> by, seen |-> campaign]
        /\ \A d \in Calls \ {c} : call'[d] = call[d]
    BY <1>2 DEF EditRead, Set, IInv, AdTypes
  <2>2. by \in Actors[op] /\ (op = "resume" /\ by = "OWNER" => campaign.reason # "ADMIN")
    BY <1>2 DEF EditRead, ResumeAllowed
  <2>. QED
    BY <2>1, <2>2 DEF MayEdit
<1>3. ASSUME NEW c \in Calls, Return(c) PROVE \A d \in Calls : MayEdit(d)'
  BY <1>0, <1>3, OtherSlot DEF Return, IInv
<1>4. ASSUME NEW c \in Calls, NEW e, Handled(c, e) PROVE \A d \in Calls : MayEdit(d)'
  BY <1>0, <1>3, <1>4, OtherSlot DEF Handled, IInv
<1>5. ASSUME NEW c \in Calls, CampaignStep(c) PROVE \A d \in Calls : MayEdit(d)'
  BY <1>0, <1>2, <1>3, <1>5, OtherSlot
  DEF CampaignStep, EditWrite, DeleteWrite, ImpressionRead, ClickRead, ViewCharge,
      ViewPause, IInv
<1>6. ASSUME NEW c \in Calls, TopupCharged(c) \/ TopupWaits(c) \/ TopupRefused(c)
      PROVE  \A d \in Calls : MayEdit(d)'
  <2>1. call[c].at = "topup.stripe"
    BY <1>6 DEF TopupCharged, TopupWaits, TopupRefused
  <2>2. PICK at \in {"topup.refused", "topup.save.waiting", "topup.save.succeeded"} :
          Goto(c, at)
    BY <1>6 DEF TopupCharged, TopupWaits, TopupRefused
  <2>3. call'[c].at = at /\ \A d \in Calls \ {c} : call'[d] = call[d]
    BY <2>1, <2>2, TopupSlot DEF Goto, Set, IInv, AdTypes
  <2>. QED
    BY <1>0, <2>3 DEF MayEdit
<1>7. ASSUME NEW c \in Calls, TopupStep(c) PROVE \A d \in Calls : MayEdit(d)'
  BY <1>0, <1>3, <1>4, <1>6, <1>7, OtherSlot
  DEF TopupStep, TopupStart, TopupFailed, TopupSave, CreditClaim, CreditNotClaimed,
      CreditCommit, IInv
<1>8. ASSUME NEW c \in Calls, HookStep(c) PROVE \A d \in Calls : MayEdit(d)'
  BY <1>0, <1>3, <1>4, <1>8, OtherSlot
  DEF HookStep, HookSucceeded, HookFailed, HookFailWrite, HookDone, IInv
<1>9. ASSUME NEW c \in Calls, CallFails(c) \/ Rejected(c)
      PROVE  \A d \in Calls : MayEdit(d)'
  BY <1>3, <1>9 DEF CallFails, Rejected
<1>. QED
  BY <1>1, <1>5, <1>7, <1>8, <1>9 DEF Next, PiSucceeds, PiDeclined, vars

(* The call that changes the campaign.                                     *)
LEMMA CampaignMoves ==
  ASSUME IInv, \A d \in Calls : MayEdit(d), NEW c \in Calls,
         \/ EditWrite(c) \/ DeleteWrite(c) \/ ViewPause(c) \/ CreditCommit(c)
  PROVE  ManualPauseStays /\ AdminPauseRespected
<1>1. CASE EditWrite(c)
  <2>1. call[c].at \in {"submit", "approve", "reject", "pause", "resume"}
    BY <1>1 DEF EditWrite, Operations, From
  <2>2. call[c].by \in Actors[call[c].at] /\ call[c].at \in Operations
    BY <1>1 DEF MayEdit, EditWrite
  <2>3. call'[c] # call[c]
    BY <1>1, <2>1 DEF EditWrite, Return, Set, Idle, IInv, AdTypes
  <2>4. campaign \in Campaigns /\ campaign' = Edited(call[c].at, call[c].by)
    BY <1>1 DEF EditWrite, IInv, AdTypes
  <2>5. ManualPauseStays
    BY <2>1, <2>2, <2>4
    DEF ManualPauseStays, PausedBy, Edited, Campaigns, Actors
  <2>6. ASSUME PausedBy("ADMIN"), campaign'.status = "ACTIVE"
        PROVE  call[c].by = "ADMIN" \/ call[c].seen.reason # "ADMIN"
    <3>1. call[c].at \in {"approve", "resume"}
      BY <2>1, <2>4, <2>6 DEF Edited, Campaigns, PausedBy
    <3>. QED
      BY <2>2, <3>1 DEF Actors, MayEdit
  <2>. QED
    BY <2>2, <2>3, <2>5, <2>6 DEF AdminPauseRespected
<1>2. CASE DeleteWrite(c) \/ ViewPause(c)
  BY <1>2 DEF DeleteWrite, ViewPause, ManualPauseStays, AdminPauseRespected, PausedBy
<1>3. CASE CreditCommit(c)
  <2>1. CASE ~ ShouldReactivate(call[c].seen)
    BY <1>3, <2>1 DEF CreditCommit, ManualPauseStays, AdminPauseRespected, PausedBy
  <2>2. CASE ShouldReactivate(call[c].seen)
    <3>1. campaign' = [status |-> "ACTIVE", reason |-> "none"]
          /\ call[c].seen.reason = "BUDGET_EXHAUSTED" /\ call[c].at = "credit.commit"
      BY <1>3, <2>2 DEF CreditCommit, ShouldReactivate
    <3>2. call'[c].at # "credit.commit"
      BY <1>3 DEF CreditCommit, Handled, Return, Set, Idle, IInv, AdTypes
    <3>. QED
      BY <3>1, <3>2 DEF ManualPauseStays, AdminPauseRespected
  <2>. QED
    BY <2>1, <2>2
<1>. QED
  BY <1>1, <1>2, <1>3

(* No automatic step takes the place of a pause by owner or admin, and     *)
(* what an admin paused is lifted by an admin, or by a request that read   *)
(* the campaign before.                                                    *)
THEOREM PausesAreKept == Spec => PausesStand
<1>1. Init => EditsAllowed
  BY DEF Init, EditsAllowed, MayEdit, Idle, Operations, From
<1>2. IInv /\ EditsAllowed /\ [Next]_vars => EditsAllowed'
  BY StillMayEdit DEF EditsAllowed
<1>3. IInv /\ EditsAllowed /\ [Next]_vars
        => [ManualPauseStays /\ AdminPauseRespected]_vars
  <2>. SUFFICES ASSUME IInv, EditsAllowed, [Next]_vars
       PROVE  [ManualPauseStays /\ AdminPauseRespected]_vars
    OBVIOUS
  <2>1. CASE UNCHANGED campaign
    BY <2>1 DEF ManualPauseStays, AdminPauseRespected, PausedBy
  <2>2. ASSUME Next PROVE UNCHANGED campaign \/ \E c \in Calls :
                 EditWrite(c) \/ DeleteWrite(c) \/ ViewPause(c) \/ CreditCommit(c)
    BY <2>2 DEF Next, CampaignStep, TopupStep, HookStep, EditRead, ImpressionRead,
       ClickRead, ViewCharge, TopupStart, TopupCharged, TopupWaits, TopupRefused,
       TopupFailed, TopupSave, CreditClaim, CreditNotClaimed, HookSucceeded,
       HookFailed, HookFailWrite, HookDone, CallFails, Rejected, PiSucceeds, PiDeclined
  <2>. QED
    BY <2>1, <2>2, CampaignMoves DEF EditsAllowed
<1>. QED
  BY <1>1, <1>2, <1>3, Invariant, PTL DEF Spec, PausesStand
-----------------------------------------------------------------------------
(* Views that overlap                                                      *)

(* The views that read a budget with room and have not charged it yet.     *)
Charging == {c \in Calls : call[c].at = "view.charge"}

(* What the views in flight may still charge is within the bound.          *)
WithinReach ==
  /\ IsFiniteSet(Credited)
  /\ spent + Cardinality(Charging) <= Budget + (Cardinality(Calls) - 1)

LEMMA Slotted ==
  /\ \A S : IsFiniteSet(S) => Cardinality(S) \in Nat
  /\ IsFiniteSet(Charging) /\ Cardinality(Charging) <= Cardinality(Calls)
  /\ Cardinality(Calls) >= 1
<1>1. Charging \subseteq Calls
  BY DEF Charging
<1>2. IsFiniteSet(Calls) /\ Calls # {}
  BY CallsAssumption
<1>3. Cardinality(Calls) # 0
  BY <1>2, FS_EmptySet
<1>. QED
  BY <1>1, <1>2, <1>3, FS_CardinalityType, FS_Subset

LEMMA BudgetType == IsFiniteSet(Credited) => Budget \in Nat
<1>1. \A a, b \in Nat : a * b \in Nat
  BY SMT
<1>. QED
  BY <1>1, AmountAssumption, FS_CardinalityType DEF Budget

(* A step that charges nothing and starts no charge.                       *)
LEMMA NoCharge ==
  ASSUME WithinReach, Rest, UNCHANGED <<spent, credits>>, Charging' \subseteq Charging
  PROVE  WithinReach'
<1>1. Credited' = Credited /\ Budget' = Budget
  BY DEF Credited, Budget
<1>2. /\ IsFiniteSet(Charging') /\ Cardinality(Charging') <= Cardinality(Charging)
      /\ Cardinality(Charging) \in Nat /\ Cardinality(Charging') \in Nat
      /\ Cardinality(Calls) \in Nat
  BY Slotted, CallsAssumption, FS_Subset
<1>3. Budget \in Nat
  BY BudgetType DEF WithinReach
<1>. QED
  BY <1>1, <1>2, <1>3 DEF WithinReach, Rest

(* A view that found room for one more price.                              *)
LEMMA ReadsRoom ==
  ASSUME WithinReach, Rest, UNCHANGED <<spent, credits>>, spent + 1 <= Budget
  PROVE  WithinReach'
<1>1. Credited' = Credited /\ Budget' = Budget
  BY DEF Credited, Budget
<1>2. Cardinality(Charging') <= Cardinality(Calls) /\ Cardinality(Charging') \in Nat
      /\ Cardinality(Calls) \in Nat
  <2>1. Charging' \subseteq Calls
    BY DEF Charging
  <2>. QED
    BY <2>1, CallsAssumption, FS_CardinalityType, FS_Subset
<1>3. Budget \in Nat
  BY BudgetType DEF WithinReach
<1>. QED
  BY <1>1, <1>2, <1>3 DEF WithinReach, Rest

LEMMA ChargeStep ==
  ASSUME WithinReach, Rest, AdTypes, NEW c \in Calls, ViewCharge(c)
  PROVE  WithinReach'
<1>1. /\ Credited' = Credited /\ Budget' = Budget /\ spent' = spent + 1
      /\ c \in Charging
  BY DEF Credited, Budget, ViewCharge, topupVars, Charging
<1>2. Charging' = Charging \ {c}
  BY DEF ViewCharge, Return, Set, Idle, AdTypes, Charging
<1>3. /\ Cardinality(Charging') = Cardinality(Charging) - 1
      /\ Cardinality(Charging) \in Nat /\ Cardinality(Calls) \in Nat
  BY <1>1, <1>2, Slotted, CallsAssumption, FS_RemoveElement
<1>4. Budget \in Nat
  BY BudgetType DEF WithinReach
<1>. QED
  BY <1>1, <1>3, <1>4 DEF WithinReach, Rest

(* A credit adds the amount of a top-up, and no charge.                    *)
LEMMA CreditGrows ==
  ASSUME WithinReach, Rest, IInv, NEW c \in Calls, CreditCommit(c)
  PROVE  WithinReach'
<1>1. call[c].at = "credit.commit"
  BY DEF CreditCommit
<1>2. PICK t \in Topups, e \in Sources :
        e = call[c].e /\ t = e[1] /\ credits[t] \in Nat
  BY <1>1, Crediting
<1>3. /\ credits \in [Topups -> Nat] /\ spent' = spent
      /\ credits' = [credits EXCEPT ![t] = credits[t] + 1]
  BY <1>2 DEF CreditCommit, IInv, AdTypes
<1>4. Credited' = Credited \cup {<<t, credits[t] + 1>>}
  <2>1. 1 .. (credits[t] + 1) = (1 .. credits[t]) \cup {credits[t] + 1}
    BY <1>2
  <2>2. \A x : x \in Credited <=>
               \E u \in Topups : \E i \in 1 .. credits[u] : x = <<u, i>>
    BY DEF Credited
  <2>3. \A x : x \in Credited' <=>
               \E u \in Topups : \E i \in 1 .. credits'[u] : x = <<u, i>>
    BY DEF Credited
  <2>4. /\ 1 .. credits'[t] = (1 .. credits[t]) \cup {credits[t] + 1}
        /\ \A u \in Topups \ {t} : 1 .. credits'[u] = 1 .. credits[u]
    BY <1>3, <2>1
  <2>5. \A x : x \in Credited' <=> x \in Credited \/ x = <<t, credits[t] + 1>>
    BY <2>2, <2>3, <2>4
  <2>. QED
    BY <2>5
<1>5. /\ IsFiniteSet(Credited') /\ Cardinality(Credited') >= Cardinality(Credited)
      /\ Cardinality(Credited') \in Nat /\ Cardinality(Credited) \in Nat
  <2>1. IsFiniteSet(Credited) /\ Credited \subseteq Credited'
    BY <1>4 DEF WithinReach
  <2>2. IsFiniteSet(Credited')
    BY <1>4, <2>1, FS_AddElement
  <2>. QED
    BY <2>1, <2>2, FS_Subset, FS_CardinalityType
<1>6. Budget' >= Budget /\ Budget \in Nat /\ Budget' \in Nat
  <2>1. \A a, m, n \in Nat : m <= n => /\ a * m \in Nat /\ a * n \in Nat
                                       /\ a * m <= a * n
    <3>. TAKE a, m, n \in Nat
    <3>. HAVE m <= n
    <3>1. \A x, y \in Nat : x * y \in Nat
      BY SMT
    <3>2. n - m \in Nat
      OBVIOUS
    <3>3. a * (n - m) \in Nat /\ a * (n - m) = a * n - a * m
      BY <3>1, <3>2, SMT
    <3>. QED
      BY <3>1, <3>3
  <2>. QED
    BY <1>5, <2>1, AmountAssumption DEF Budget
<1>7. Charging' \subseteq Charging
  BY DEF CreditCommit, Handled, Return, Set, Idle, IInv, AdTypes, Charging
<1>8. /\ Cardinality(Charging') <= Cardinality(Charging)
      /\ Cardinality(Charging) \in Nat /\ Cardinality(Charging') \in Nat
      /\ Cardinality(Calls) \in Nat
  BY <1>7, Slotted, CallsAssumption, FS_Subset
<1>. QED
  BY <1>3, <1>5, <1>6, <1>8 DEF WithinReach, Rest

(* Every other step: the slot a call moves to charges nothing.             *)
LEMMA OtherThanView ==
  ASSUME AdTypes, NEW c \in Calls, NEW slot, Set(c, slot), slot.at # "view.charge"
  PROVE  Charging' \subseteq Charging
  BY DEF AdTypes, Set, Charging

LEMMA FewerCharging ==
  ASSUME IInv, Next, \A c \in Calls : ~ ImpressionRead(c) /\ ~ ClickRead(c)
  PROVE  Charging' \subseteq Charging
<1>0. Idle.at # "view.charge" /\ AdTypes /\ "view.charge" \notin Operations
  BY DEF Idle, IInv, Operations, From
<1>1. ASSUME NEW c \in Calls, Return(c) PROVE Charging' \subseteq Charging
  BY <1>0, <1>1, OtherThanView DEF Return
<1>2. ASSUME NEW c \in Calls, NEW e, Handled(c, e) PROVE Charging' \subseteq Charging
  BY <1>0, <1>1, <1>2, OtherThanView DEF Handled
<1>3. ASSUME NEW c \in Calls, CampaignStep(c) PROVE Charging' \subseteq Charging
  BY <1>0, <1>1, <1>3, OtherThanView
  DEF CampaignStep, EditRead, EditWrite, DeleteWrite, ViewCharge, ViewPause
<1>4. ASSUME NEW c \in Calls, TopupCharged(c) \/ TopupWaits(c) \/ TopupRefused(c)
      PROVE  Charging' \subseteq Charging
  <2>1. call[c].at = "topup.stripe"
    BY <1>4 DEF TopupCharged, TopupWaits, TopupRefused
  <2>2. PICK at \in {"topup.refused", "topup.save.waiting", "topup.save.succeeded"} :
          Goto(c, at)
    BY <1>4 DEF TopupCharged, TopupWaits, TopupRefused
  <2>3. call'[c].at = at /\ \A d \in Calls \ {c} : call'[d] = call[d]
    BY <1>0, <2>1, <2>2, TopupSlot DEF Goto, AdTypes
  <2>. QED
    BY <2>3 DEF Charging
<1>5. ASSUME NEW c \in Calls, TopupStep(c) PROVE Charging' \subseteq Charging
  BY <1>0, <1>1, <1>2, <1>4, <1>5, OtherThanView
  DEF TopupStep, TopupStart, TopupFailed, TopupSave, CreditClaim, CreditNotClaimed,
      CreditCommit
<1>6. ASSUME NEW c \in Calls, HookStep(c) PROVE Charging' \subseteq Charging
  BY <1>0, <1>1, <1>2, <1>6, OtherThanView
  DEF HookStep, HookSucceeded, HookFailed, HookFailWrite, HookDone
<1>7. ASSUME NEW c \in Calls, CallFails(c) \/ Rejected(c)
      PROVE  Charging' \subseteq Charging
  BY <1>1, <1>7 DEF CallFails, Rejected
<1>8. ASSUME NEW t \in Topups, PiSucceeds(t) \/ PiDeclined(t)
      PROVE  Charging' \subseteq Charging
  BY <1>8 DEF PiSucceeds, PiDeclined, Charging
<1>. QED
  BY <1>3, <1>5, <1>6, <1>7, <1>8 DEF Next

LEMMA ReachKept == IInv /\ Rest /\ WithinReach /\ [Next]_vars => WithinReach'
<1>. SUFFICES ASSUME IInv, Rest, WithinReach, [Next]_vars PROVE WithinReach'
  OBVIOUS
<1>0. AdTypes
  BY DEF IInv
<1>1. ASSUME NEW c \in Calls, ImpressionRead(c) \/ ClickRead(c) PROVE WithinReach'
  <2>1. UNCHANGED <<spent, credits>>
    BY <1>1 DEF ImpressionRead, ClickRead, topupVars
  <2>2. CASE Set(c, [at |-> "view.pause"])
    <3>1. [at |-> "view.pause"].at # "view.charge"
      OBVIOUS
    <3>. QED
      BY <1>0, <2>1, <2>2, <3>1, OtherThanView, NoCharge
  <2>3. CASE ~ Set(c, [at |-> "view.pause"])
    <3>1. spent + 1 <= Budget
      BY <1>1, <2>3 DEF ImpressionRead, ClickRead, Affordable,
         computeImpressionChargeMicro, computeClickChargeMicro
    <3>. QED
      BY <2>1, <3>1, ReadsRoom
  <2>. QED
    BY <2>2, <2>3
<1>2. ASSUME NEW c \in Calls, ViewCharge(c) PROVE WithinReach'
  BY <1>0, <1>2, ChargeStep
<1>3. ASSUME NEW c \in Calls, CreditCommit(c) PROVE WithinReach'
  BY <1>3, CreditGrows
<1>4. CASE UNCHANGED vars
  BY <1>4, NoCharge DEF vars, topupVars, Charging
<1>5. ASSUME Next, \A c \in Calls : /\ ~ ImpressionRead(c) /\ ~ ClickRead(c)
                                    /\ ~ ViewCharge(c) /\ ~ CreditCommit(c)
      PROVE  WithinReach'
  <2>1. Charging' \subseteq Charging
    BY <1>5, FewerCharging
  <2>2. UNCHANGED <<spent, credits>>
    BY <1>5 DEF Next, CampaignStep, TopupStep, HookStep, EditRead, EditWrite, DeleteWrite,
       ViewPause, TopupStart, TopupCharged, TopupWaits, TopupRefused, TopupFailed,
       TopupSave, CreditClaim, CreditNotClaimed, HookSucceeded, HookFailed,
       HookFailWrite, HookDone, CallFails, Rejected, PiSucceeds, PiDeclined, topupVars
  <2>. QED
    BY <2>1, <2>2, NoCharge
<1>. QED
  BY <1>1, <1>2, <1>3, <1>4, <1>5

(* However many views read the budget before one charges it, what they     *)
(* overspend is less than a price for each call in flight: the check of    *)
(* recordImpression and recordClick, and their increment later.            *)
THEOREM OverspendStaysBounded == Spec => []OverspendBounded
<1>1. Init => Rest /\ WithinReach
  <2>. SUFFICES ASSUME Init PROVE Rest /\ WithinReach
    OBVIOUS
  <2>1. Credited = {}
    BY DEF Init, Credited
  <2>2. Charging = {}
    BY DEF Init, Charging, Idle
  <2>3. IsFiniteSet(Credited) /\ Cardinality(Charging) = 0
    BY <2>1, <2>2, FS_EmptySet
  <2>4. Budget \in Nat /\ Cardinality(Calls) \in Nat /\ Cardinality(Calls) >= 1
    BY <2>3, BudgetType, Slotted, CallsAssumption
  <2>. QED
    BY <2>3, <2>4, MaxFailuresAssumption DEF Init, Rest, WithinReach
<1>2. Rest /\ WithinReach => OverspendBounded
  <2>. SUFFICES ASSUME Rest, WithinReach PROVE OverspendBounded
    OBVIOUS
  <2>1. /\ Cardinality(Charging) \in Nat /\ Cardinality(Calls) \in Nat /\ Budget \in Nat
    BY Slotted, CallsAssumption, BudgetType DEF WithinReach
  <2>. QED
    BY <2>1 DEF Rest, WithinReach, OverspendBounded
<1>. QED
  BY <1>1, <1>2, RestKept, ReachKept, Invariant, PTL DEF Spec
-----------------------------------------------------------------------------
(* Matching: the arithmetic of the scores.                                 *)

(* A percentage is what Math.round says it is: the largest whole number    *)
(* that half a point above the ratio covers.                               *)
LEMMA PercentIs ==
  ASSUME NEW n \in Int, NEW d \in Nat \ {0}
  PROVE  /\ M!Percent(n, d) \in Int
         /\ \A q \in Int : q <= M!Percent(n, d) <=> 2 * d * q <= 200 * n + d
<1> DEFINE a == 200 * n + d
           b == 2 * d
           p == a \div b
<1>1. a \in Int /\ b \in Nat \ {0}
  OBVIOUS
<1>2. ASSUME NEW x \in Int, NEW y \in Nat \ {0}
      PROVE  x \div y \in Int /\ y * (x \div y) <= x /\ x < y * (x \div y) + y
  OBVIOUS
<1>3. M!Percent(n, d) = p
  BY DEF M!Percent
<1>. HIDE DEF a, b
<1>4. p \in Int /\ b * p <= a /\ a < b * p + b
  BY <1>1, <1>2
<1>. HIDE DEF p
<1>5. ASSUME NEW q \in Int
      PROVE  q <= p <=> b * q <= a
  <2>1. ASSUME NEW x \in Int, NEW y \in Int, x <= y
        PROVE  b * x <= b * y /\ b * x \in Int /\ b * y \in Int
    BY <1>1, <2>1
  <2>2. q <= p => b * q <= a
    BY <1>1, <1>4, <2>1
  <2>3. p + 1 <= q => b * (p + 1) <= b * q
    BY <1>4, <2>1
  <2>4. b * (p + 1) = b * p + b /\ b * p \in Int /\ b * q \in Int
    BY <1>1, <1>4
  <2>5. p + 1 <= q => ~ (b * q <= a)
    BY <1>1, <1>4, <2>3, <2>4
  <2>. QED
    BY <1>4, <2>2, <2>5
<1>6. \A q \in Int : 2 * d * q = b * q
  BY DEF b
<1>. QED
  BY <1>3, <1>4, <1>5, <1>6 DEF a

LEMMA PercentRange ==
  ASSUME NEW n \in Int, NEW d \in Nat \ {0}
  PROVE  /\ M!Percent(n, d) \in Int
         /\ n >= 0 => M!Percent(n, d) >= 0
         /\ n <= d => M!Percent(n, d) <= 100
<1>1. M!Percent(n, d) \in Int
  BY PercentIs
<1>2. n >= 0 => 0 <= M!Percent(n, d)
  BY PercentIs, 2 * d * 0 = 0
<1>3. n <= d => ~ (101 <= M!Percent(n, d))
  <2>1. n <= d => ~ (2 * d * 101 <= 200 * n + d)
    OBVIOUS
  <2>. QED
    BY <2>1, PercentIs
<1>. QED
  BY <1>1, <1>2, <1>3

(* The larger ratio is not the smaller percentage.                         *)
LEMMA PercentGrows ==
  ASSUME NEW n \in Int, NEW d \in Nat \ {0}, NEW m \in Int, NEW e \in Nat \ {0},
         n * e <= m * d
  PROVE  M!Percent(n, d) <= M!Percent(m, e)
<1> DEFINE q == M!Percent(n, d)
<1>1. q \in Int /\ 2 * d * q <= 200 * n + d
  BY PercentIs
<1>. HIDE DEF q
<1>2. e * (2 * d * q) <= e * (200 * n + d)
  <2>1. ASSUME NEW x \in Int, NEW y \in Int, x <= y PROVE e * x <= e * y
    BY <2>1
  <2>2. 2 * d * q \in Int /\ 200 * n + d \in Int
    BY <1>1
  <2>. QED
    BY <1>1, <2>1, <2>2
<1>3. /\ e * (2 * d * q) = d * (2 * e * q)
      /\ e * (200 * n + d) = 200 * (n * e) + d * e
      /\ d * (200 * m + e) = 200 * (m * d) + d * e
      /\ n * e \in Int /\ m * d \in Int /\ d * e \in Int
  BY <1>1
<1>4. d * (2 * e * q) <= d * (200 * m + e)
  <2> DEFINE u == n * e  v == m * d  w == d * e
             l == e * (2 * d * q)
  <2>1. l <= 200 * u + w /\ u <= v /\ u \in Int /\ v \in Int /\ w \in Int /\ l \in Int
    BY <1>1, <1>2, <1>3
  <2>2. d * (2 * e * q) = l /\ d * (200 * m + e) = 200 * v + w
    BY <1>3
  <2>. HIDE DEF u, v, w, l
  <2>. QED
    BY <2>1, <2>2
<1>5. 2 * e * q <= 200 * m + e
  <2>1. ASSUME NEW x \in Int, NEW y \in Int, y < x PROVE d * y < d * x
    BY <2>1
  <2>2. 2 * e * q \in Int /\ 200 * m + e \in Int
    BY <1>1
  <2>3. d * (2 * e * q) \in Int /\ d * (200 * m + e) \in Int
    BY <2>2
  <2>. QED
    BY <1>4, <2>1, <2>2, <2>3
<1>. QED
  BY <1>1, <1>5, PercentIs DEF q

(* The units below the values of a function.                               *)
LEMMA SumGrows ==
  ASSUME NEW S, IsFiniteSet(S), NEW k \in Nat, NEW f, NEW g,
         DOMAIN f \subseteq DOMAIN g, DOMAIN g \subseteq S,
         \A s \in DOMAIN f : f[s] \in Nat /\ f[s] <= g[s],
         \A s \in DOMAIN g : g[s] \in 0 .. k
  PROVE  /\ M!Sum(f) \in Nat /\ M!Sum(g) \in Nat /\ M!Sum(f) <= M!Sum(g)
         /\ (\E s \in DOMAIN g : g[s] > 0) => M!Sum(g) > 0
<1> DEFINE U(h) == UNION {{s} \X (1 .. h[s]) : s \in DOMAIN h}
<1>1. \A h : M!Sum(h) = Cardinality(U(h))
  BY DEF M!Sum, M!Cardinality, Cardinality
<1>2. IsFiniteSet(1 .. k) /\ IsFiniteSet(S \X (1 .. k))
  <2>1. IsFiniteSet(1 .. k)
    BY FS_Interval
  <2>. QED
    BY <2>1, FS_Product
<1>3. U(g) \in SUBSET (S \X (1 .. k))
  <2>. SUFFICES ASSUME NEW u \in U(g)
                PROVE  u \in S \X (1 .. k)
    OBVIOUS
  <2>1. PICK s \in DOMAIN g : u \in {s} \X (1 .. g[s])
    OBVIOUS
  <2>2. g[s] \in 0 .. k /\ s \in S
    BY <2>1
  <2>3. \A i \in 1 .. g[s] : i \in 1 .. k
    BY <2>2
  <2>. QED
    BY <2>1, <2>2, <2>3
<1>4. U(f) \in SUBSET U(g)
  <2>. SUFFICES ASSUME NEW u \in U(f)
                PROVE  u \in U(g)
    OBVIOUS
  <2>1. PICK s \in DOMAIN f : u \in {s} \X (1 .. f[s])
    OBVIOUS
  <2>2. s \in DOMAIN g /\ f[s] <= g[s] /\ f[s] \in Nat /\ g[s] \in Nat
    BY <2>1
  <2>3. \A i \in 1 .. f[s] : i \in 1 .. g[s]
    BY <2>2
  <2>4. u \in {s} \X (1 .. g[s])
    BY <2>1, <2>3
  <2>. QED
    BY <2>2, <2>4
<1>5. /\ IsFiniteSet(U(g)) /\ Cardinality(U(g)) \in Nat
      /\ Cardinality(U(f)) \in Nat /\ Cardinality(U(f)) <= Cardinality(U(g))
  <2>. HIDE DEF U
  <2>. QED
    BY <1>2, <1>3, <1>4, FS_Subset, FS_CardinalityType
<1>6. ASSUME NEW s \in DOMAIN g, g[s] > 0
      PROVE  Cardinality(U(g)) # 0
  <2>1. <<s, 1>> \in {s} \X (1 .. g[s])
    BY <1>6
  <2>2. U(g) # {}
    BY <2>1
  <2>. QED
    BY <1>5, <2>2, FS_EmptySet
<1>. HIDE DEF U
<1>. QED
  BY <1>1, <1>5, <1>6

-----------------------------------------------------------------------------
(* The parts of a score.                                                   *)
JobOK == job \in [skills : M!JobSkills, languages : 0 .. MaxCount, budget : M!Ranges]

Scored(tr) ==
  /\ tr.rate \in M!Ranges /\ tr.verified \in BOOLEAN
  /\ tr.languages \in Nat /\ tr.portfolio \in Nat
  /\ tr.total \in Nat /\ tr.accepted \in 0 .. tr.total

LEMMA OrElseIs ==
  ASSUME NEW first, NEW second, NEW default
  PROVE  /\ first # {} => M!OrElse(first, second, default) \in first
         /\ first = {} /\ second # {} => M!OrElse(first, second, default) \in second
         /\ first = {} /\ second = {} => M!OrElse(first, second, default) = default
<1> DEFINE S == IF first # {} THEN first ELSE IF second # {} THEN second ELSE {default}
<1>1. \E n \in first \cup second \cup {default} : n \in S
  OBVIOUS
<1>2. M!OrElse(first, second, default) \in S
  BY <1>1 DEF M!OrElse
<1>. QED
  BY <1>2

LEMMA YearsAre ==
  /\ M!Years({}) = 0
  /\ \A n : M!Years({n}) = n
BY OrElseIs DEF M!Years

(* The credit of a skill lies between none and all of its weight, which    *)
(* the years the job asks for earn, and more years earn no less.           *)
LEMMA CreditIs ==
  ASSUME NEW wanted \in [required : BOOLEAN, min : M!Nullable({MinYears})],
         NEW years \in M!Nullable(0 .. MinYears)
  PROVE  /\ M!Credit(wanted, years) \in Nat
         /\ M!Credit(wanted, years) <= M!Credit(wanted, {MinYears})
         /\ M!Credit(wanted, {MinYears}) \in 1 .. 10 * MinYears
         /\ \A was \in M!Nullable(0 .. MinYears) :
              M!Years(years) >= M!Years(was)
                => M!Credit(wanted, was) <= M!Credit(wanted, years)
<1> DEFINE weight == IF wanted.required THEN 2 ELSE 1
           earned(y) == IF M!Enough(y, wanted) THEN 5 * MinYears
                        ELSE M!AtLeast(2 * MinYears, 5 * M!Years(y))
<1>1. \A y : M!Credit(wanted, y) = weight * earned(y)
  BY DEF M!Credit
<1>2. MinYears \in Nat \ {0} /\ weight \in {1, 2}
  BY MatchingAssumption
<1>3. ASSUME NEW y \in M!Nullable(0 .. MinYears)
      PROVE  M!Years(y) \in 0 .. MinYears
  <2>1. CASE y = {}
    BY <1>2, <2>1, YearsAre
  <2>2. CASE \E n \in 0 .. MinYears : y = {n}
    <3>1. PICK n \in 0 .. MinYears : y = {n}
      BY <2>2
    <3>2. M!Years({n}) = n
      BY YearsAre
    <3>. QED
      BY <3>1, <3>2
  <2>. QED
    BY <2>1, <2>2 DEF M!Nullable
<1>4. wanted.min = {} \/ wanted.min = {MinYears}
  BY DEF M!Nullable
<1>5. {MinYears} \in M!Nullable(0 .. MinYears) /\ M!Years({MinYears}) = MinYears
  <2>1. M!Years({MinYears}) = MinYears
    BY YearsAre
  <2>2. MinYears \in 0 .. MinYears
    BY <1>2
  <2>. QED
    BY <2>1, <2>2 DEF M!Nullable
<1>6. \A y \in M!Nullable(0 .. MinYears) :
        /\ M!Enough(y, wanted) <=> wanted.min = {} \/ M!Years(y) = MinYears
        /\ earned(y) \in 0 .. 5 * MinYears
  BY <1>2, <1>3, <1>4 DEF M!Enough, M!AtLeast
<1>7. earned({MinYears}) = 5 * MinYears
  BY <1>5, <1>6
<1>8. ASSUME NEW y \in M!Nullable(0 .. MinYears), NEW z \in M!Nullable(0 .. MinYears),
             M!Years(y) >= M!Years(z)
      PROVE  earned(z) <= earned(y)
  BY <1>2, <1>3, <1>6, <1>8 DEF M!AtLeast
<1>. HIDE DEF weight, earned
<1>9. \A x, y \in 0 .. 5 * MinYears :
        /\ weight * x \in Nat /\ (x <= y => weight * x <= weight * y)
        /\ weight * (5 * MinYears) \in 1 .. 10 * MinYears
  BY <1>2
<1>10. earned(years) \in 0 .. 5 * MinYears /\ 5 * MinYears \in 0 .. 5 * MinYears
       /\ earned(years) <= 5 * MinYears
  BY <1>2, <1>6
<1>. QED
  BY <1>1, <1>6, <1>7, <1>8, <1>9, <1>10

(* The skills a job lists and a trainer has: each is credited, and all     *)
(* that is listed would be credited in full for the years asked for.       *)
LEMMA SkillSums ==
  ASSUME JobOK, NEW sk \in M!TrainerSkills, NEW better \in M!TrainerSkills,
         \A s \in Skills : M!Gained(better[s], sk[s])
  PROVE  LET listed == {s \in Skills : job.skills[s] # M!Unlisted}
             Hit(x) == M!Sum([s \in {t \in listed : x[t] # M!Missing} |->
                                M!Credit(job.skills[s], x[s])])
             total  == M!Sum([s \in listed |-> M!Credit(job.skills[s], {MinYears})])
         IN  /\ Hit(sk) \in Nat /\ Hit(better) \in Nat /\ total \in Nat
             /\ Hit(sk) <= Hit(better) /\ Hit(better) <= total
             /\ listed # {} => total > 0
<1> DEFINE listed == {s \in Skills : job.skills[s] # M!Unlisted}
           has(x) == {t \in listed : x[t] # M!Missing}
           earned(x) == [s \in has(x) |-> M!Credit(job.skills[s], x[s])]
           full == [s \in listed |-> M!Credit(job.skills[s], {MinYears})]
           k == 10 * MinYears
<1>1. /\ \A s \in listed : job.skills[s] \in [required : BOOLEAN, min : M!Nullable({MinYears})]
      /\ \A x \in M!TrainerSkills : \A s \in has(x) : x[s] \in M!Nullable(0 .. MinYears)
  BY DEF JobOK, M!JobSkills, M!TrainerSkills
<1>2. MinYears \in Nat \ {0} /\ {} \in M!Nullable(0 .. MinYears)
  BY MatchingAssumption DEF M!Nullable
<1>3. ASSUME NEW s \in listed
      PROVE  full[s] \in 1 .. k /\ full[s] \in 0 .. k /\ full[s] > 0
  <2>1. M!Credit(job.skills[s], {MinYears}) \in 1 .. k
    BY <1>1, <1>2, CreditIs
  <2>2. full[s] = M!Credit(job.skills[s], {MinYears})
    OBVIOUS
  <2>3. k \in Nat
    BY <1>2
  <2>. HIDE DEF full, k
  <2>. QED
    BY <2>1, <2>2, <2>3
<1>4. ASSUME NEW x \in M!TrainerSkills, NEW s \in has(x)
      PROVE  earned(x)[s] \in 0 .. k /\ earned(x)[s] \in Nat /\ earned(x)[s] <= full[s]
  <2> DEFINE part == M!Credit(job.skills[s], x[s])
             all  == M!Credit(job.skills[s], {MinYears})
  <2>1. part \in Nat /\ part <= all /\ all \in 1 .. k
    BY <1>1, CreditIs
  <2>2. earned(x)[s] = part /\ full[s] = all
    OBVIOUS
  <2>. HIDE DEF part, all, earned, full
  <2>. QED
    BY <1>2, <2>1, <2>2
<1>5. \A s \in has(sk) : s \in has(better) /\ earned(sk)[s] <= earned(better)[s]
  BY <1>1, CreditIs DEF M!Gained
<1>6. IsFiniteSet(Skills) /\ k \in Nat
  BY MatchingAssumption
<1>7. /\ M!Sum(earned(sk)) \in Nat /\ M!Sum(earned(better)) \in Nat
      /\ M!Sum(earned(sk)) <= M!Sum(earned(better))
  <2> DEFINE f == earned(sk)  g == earned(better)
  <2>1. DOMAIN f = has(sk) /\ DOMAIN g = has(better)
    OBVIOUS
  <2>2. has(sk) \subseteq has(better) /\ has(better) \subseteq Skills
    BY <1>5
  <2>. HIDE DEF f, g, has, k
  <2>. QED
    BY <1>4, <1>5, <1>6, <2>1, <2>2, SumGrows
<1>8. /\ M!Sum(earned(better)) <= M!Sum(full) /\ M!Sum(full) \in Nat
      /\ listed # {} => M!Sum(full) > 0
  <2> DEFINE f == earned(better)  g == full
  <2>1. DOMAIN f = has(better) /\ DOMAIN g = listed
    OBVIOUS
  <2>2. has(better) \subseteq listed /\ listed \subseteq Skills
    OBVIOUS
  <2>. HIDE DEF f, g, has, listed, k
  <2>. QED
    BY <1>3, <1>4, <1>6, <2>1, <2>2, SumGrows
<1>. QED
  BY <1>7, <1>8

LEMMA SkillsGrow ==
  ASSUME JobOK, NEW sk \in M!TrainerSkills, NEW better \in M!TrainerSkills,
         \A s \in Skills : M!Gained(better[s], sk[s])
  PROVE  /\ M!SkillsScore(sk) \in 0 .. 100 /\ M!SkillsScore(better) \in 0 .. 100
         /\ M!SkillsScore(sk) <= M!SkillsScore(better)
<1> DEFINE listed == {s \in Skills : job.skills[s] # M!Unlisted}
           Hit(x) == M!Sum([s \in {t \in listed : x[t] # M!Missing} |->
                              M!Credit(job.skills[s], x[s])])
           total  == M!Sum([s \in listed |-> M!Credit(job.skills[s], {MinYears})])
           low == Hit(sk)
           high == Hit(better)
<1>1. /\ M!SkillsScore(sk) = IF listed = {} THEN 60 ELSE M!Percent(low, total)
      /\ M!SkillsScore(better) = IF listed = {} THEN 60 ELSE M!Percent(high, total)
  BY DEF M!SkillsScore
<1>2. /\ low \in Nat /\ high \in Nat /\ total \in Nat /\ low <= high /\ high <= total
      /\ listed # {} => total > 0
  BY SkillSums
<1>. HIDE DEF listed, low, high, total
<1>3. CASE listed = {}
  BY <1>1, <1>3
<1>4. CASE listed # {}
  <2>1. /\ low \in Int /\ high \in Int /\ total \in Nat \ {0}
        /\ low >= 0 /\ high >= 0 /\ low <= total
    BY <1>2, <1>4
  <2>2. low * total <= high * total
    BY <1>2
  <2>3. ASSUME NEW n \in Int, n >= 0, n <= total
        PROVE  M!Percent(n, total) \in 0 .. 100
    <3>1. /\ M!Percent(n, total) \in Int /\ M!Percent(n, total) >= 0
          /\ M!Percent(n, total) <= 100
      BY <2>1, <2>3, PercentRange
    <3>. QED
      BY <3>1
  <2>4. M!Percent(low, total) <= M!Percent(high, total)
    BY <2>1, <2>2, PercentGrows
  <2>. QED
    BY <1>1, <1>2, <1>4, <2>1, <2>3, <2>4
<1>. QED
  BY <1>3, <1>4

LEMMA LanguagesGrow ==
  ASSUME JobOK, NEW tr, NEW more, tr.languages \in Nat, more.languages \in Nat,
         tr.languages <= more.languages
  PROVE  /\ M!LanguagesScore(tr) \in 0 .. 100
         /\ M!LanguagesScore(tr) <= M!LanguagesScore(more)
<1> DEFINE n == tr.languages  m == more.languages  d == job.languages
<1>1. d \in Nat
  BY MatchingAssumption DEF JobOK
<1>2. /\ M!LanguagesScore(tr) = IF d = 0 THEN 50 ELSE M!AtMost(100, M!Percent(n, d))
      /\ M!LanguagesScore(more) = IF d = 0 THEN 50 ELSE M!AtMost(100, M!Percent(m, d))
  BY DEF M!LanguagesScore
<1>3. n \in Nat /\ m \in Nat /\ n <= m
  OBVIOUS
<1>. HIDE DEF n, m, d
<1>4. CASE d = 0
  BY <1>2, <1>4
<1>5. CASE d # 0
  <2>1. n \in Int /\ m \in Int /\ n >= 0 /\ m >= 0 /\ d \in Nat \ {0} /\ n * d <= m * d
    BY <1>1, <1>3, <1>5
  <2>2. M!Percent(n, d) \in Nat /\ M!Percent(m, d) \in Nat
    BY <2>1, PercentRange
  <2>3. M!Percent(n, d) <= M!Percent(m, d)
    BY <2>1, PercentGrows
  <2>. QED
    BY <1>2, <1>5, <2>2, <2>3 DEF M!AtMost
<1>. QED
  BY <1>4, <1>5

LEMMA TrustGrows ==
  ASSUME NEW tr, NEW more, tr.portfolio \in Nat, more.portfolio \in Nat,
         tr.verified \in BOOLEAN, more.verified \in BOOLEAN,
         tr.portfolio <= more.portfolio, tr.verified => more.verified
  PROVE  /\ M!TrustScore(tr) \in 0 .. 100
         /\ M!TrustScore(tr) <= M!TrustScore(more)
<1> DEFINE n == tr.portfolio  m == more.portfolio
           v == IF tr.verified THEN 40 ELSE 0
           w == IF more.verified THEN 40 ELSE 0
<1>1. v \in 0 .. 40 /\ w \in 0 .. 40 /\ v <= w
  OBVIOUS
<1>2. /\ M!TrustScore(tr) = M!AtMost(100, 40 + v + M!AtMost(20, n * 5))
      /\ M!TrustScore(more) = M!AtMost(100, 40 + w + M!AtMost(20, m * 5))
  BY DEF M!TrustScore
<1>3. n \in Nat /\ m \in Nat /\ n <= m
  OBVIOUS
<1>. HIDE DEF n, m, v, w
<1>. QED
  BY <1>1, <1>2, <1>3 DEF M!AtMost

(* One application more, or one more that was accepted, costs nothing.     *)
LEMMA HistoryGrows ==
  ASSUME NEW tr, NEW more, tr.total \in Nat, tr.accepted \in 0 .. tr.total,
         \/ more.total = tr.total /\ more.accepted \in {tr.accepted, tr.accepted + 1}
         \/ more.total = tr.total + 1 /\ more.accepted = tr.accepted + 1
  PROVE  /\ M!HistoryScore(tr) \in 0 .. 100
         /\ M!HistoryScore(tr) <= M!HistoryScore(more)
<1> DEFINE Base(t) == 40 + M!AtMost(30, t * 3)
           Value(t, a) == Base(t) * t + 30 * a
           t1 == tr.total  a1 == tr.accepted  t2 == more.total  a2 == more.accepted
<1>1. /\ M!HistoryScore(tr) = IF t1 = 0 THEN 50
                              ELSE M!AtMost(100, M!Percent(Value(t1, a1), 100 * t1))
      /\ M!HistoryScore(more) = IF t2 = 0 THEN 50
                                ELSE M!AtMost(100, M!Percent(Value(t2, a2), 100 * t2))
  BY DEF M!HistoryScore
<1>2. /\ t1 \in Nat /\ a1 \in 0 .. t1 /\ t2 \in Nat /\ a2 \in Nat
      /\ \/ t2 = t1 /\ a1 <= a2
         \/ t2 = t1 + 1 /\ a2 = a1 + 1
  OBVIOUS
<1>. HIDE DEF t1, a1, t2, a2
<1>3. /\ Base(t1) \in 40 .. 70 /\ Base(t2) \in 40 .. 70 /\ Base(t1) <= Base(t2)
      /\ t2 > 0 => Base(t2) >= 43
  BY <1>2 DEF M!AtMost
<1> DEFINE b1 == Base(t1)  b2 == Base(t2)  v1 == Value(t1, a1)  v2 == Value(t2, a2)
<1>4. v1 = b1 * t1 + 30 * a1 /\ v2 = b2 * t2 + 30 * a2
  OBVIOUS
<1>5. b1 \in 40 .. 70 /\ b2 \in 40 .. 70 /\ b1 <= b2 /\ (t2 > 0 => b2 >= 43)
  BY <1>3
<1>. HIDE DEF Base, Value, b1, b2, v1, v2
<1>6. v1 \in Nat /\ v2 \in Nat
  BY <1>2, <1>4, <1>5
<1>7. t1 > 0 => v1 * (100 * t2) <= v2 * (100 * t1)
  <2>1. /\ v1 * (100 * t2) = 100 * (b1 * (t1 * t2)) + 3000 * (a1 * t2)
        /\ v2 * (100 * t1) = 100 * (b2 * (t1 * t2)) + 3000 * (a2 * t1)
        /\ t1 * t2 \in Nat /\ a1 * t2 \in Nat /\ a2 * t1 \in Nat
    BY <1>2, <1>4, <1>5
  <2>2. a1 * t2 <= a2 * t1
    <3>1. CASE t2 = t1 /\ a1 <= a2
      BY <1>2, <3>1
    <3>2. CASE t2 = t1 + 1 /\ a2 = a1 + 1
      <4>1. a1 * t2 = a1 * t1 + a1 /\ a2 * t1 = a1 * t1 + t1
        BY <1>2, <3>2
      <4>. QED
        BY <1>2, <4>1
    <3>. QED
      BY <1>2, <3>1, <3>2
  <2>3. b1 * (t1 * t2) <= b2 * (t1 * t2)
    BY <1>5, <2>1
  <2>4. b1 * (t1 * t2) \in Nat /\ b2 * (t1 * t2) \in Nat
    BY <1>5, <2>1
  <2> DEFINE x1 == b1 * (t1 * t2)  x2 == b2 * (t1 * t2)  y1 == a1 * t2  y2 == a2 * t1
  <2>5. x1 \in Nat /\ x2 \in Nat /\ y1 \in Nat /\ y2 \in Nat /\ x1 <= x2 /\ y1 <= y2
    BY <2>1, <2>2, <2>3, <2>4
  <2>6. v1 * (100 * t2) = 100 * x1 + 3000 * y1 /\ v2 * (100 * t1) = 100 * x2 + 3000 * y2
    BY <2>1
  <2>. HIDE DEF x1, x2, y1, y2
  <2>. QED
    BY <2>5, <2>6
<1>8. ASSUME NEW t \in Nat, NEW v \in Nat, t > 0
      PROVE  M!Percent(v, 100 * t) \in Nat
  <2>1. v \in Int /\ v >= 0 /\ 100 * t \in Nat \ {0}
    BY <1>8
  <2>. QED
    BY <2>1, PercentRange
<1>9. CASE t1 = 0 /\ t2 = 0
  BY <1>1, <1>9
<1>10. CASE t1 = 0 /\ t2 # 0
  <2>1. t2 = 1 /\ v2 \in Int /\ v2 >= 73 /\ 100 * t2 \in Nat \ {0}
    BY <1>2, <1>4, <1>5, <1>10
  <2>2. 50 <= M!Percent(v2, 100 * t2)
    BY <2>1, PercentIs
  <2>3. M!Percent(v2, 100 * t2) \in Nat
    BY <1>2, <1>6, <1>8, <2>1
  <2>. QED
    BY <1>1, <1>10, <2>2, <2>3 DEF v2, M!AtMost
<1>11. CASE t1 # 0
  <2>1. t1 > 0 /\ t2 > 0 /\ 100 * t1 \in Nat \ {0} /\ 100 * t2 \in Nat \ {0}
    BY <1>2, <1>11
  <2>2. M!Percent(v1, 100 * t1) \in Nat /\ M!Percent(v2, 100 * t2) \in Nat
    BY <1>2, <1>6, <1>8, <2>1
  <2>3. M!Percent(v1, 100 * t1) <= M!Percent(v2, 100 * t2)
    BY <1>6, <1>7, <2>1, PercentGrows
  <2>. QED
    BY <1>1, <1>11, <2>1, <2>2, <2>3 DEF v1, v2, M!AtMost
<1>. QED
  BY <1>9, <1>10, <1>11

LEMMA RateInRange ==
  ASSUME NEW rate \in M!Ranges, NEW budget \in M!Ranges
  PROVE  M!RateScore(rate, budget) \in 0 .. 100
<1> DEFINE lo   == M!OrElse(rate.min, rate.max, 0)
           hi   == M!OrElse(rate.max, rate.min, lo)
           from == M!OrElse(budget.min, budget.max, 0)
           upto == M!OrElse(budget.max, budget.min, from)
           overlap == M!AtLeast(0, M!AtMost(upto, hi) - M!AtLeast(from, lo))
           span    == M!AtLeast(1, hi - lo)
           below   == M!AtLeast(1, upto)
<1>1. M!RateScore(rate, budget) =
        IF rate = M!NoRange THEN 60
        ELSE IF budget = M!NoRange THEN 70
        ELSE IF hi <= upto /\ lo >= from THEN 100
        ELSE IF lo > upto THEN M!AtLeast(0, M!Percent(2 * upto - lo, below))
        ELSE IF hi < from THEN 70
        ELSE M!AtMost(95, M!Percent(2 * span + 3 * overlap, 5 * span))
  BY DEF M!RateScore
<1>2. ASSUME NEW a \in M!Nullable(0 .. MaxMoney), NEW b \in M!Nullable(0 .. MaxMoney), NEW z \in Nat
      PROVE  M!OrElse(a, b, z) \in Nat
  <2>1. a \subseteq Nat /\ b \subseteq Nat
    BY DEF M!Nullable
  <2>. QED
    BY <2>1, OrElseIs
<1>3. lo \in Nat /\ hi \in Nat /\ from \in Nat /\ upto \in Nat
  <2>1. /\ rate.min \in M!Nullable(0 .. MaxMoney) /\ rate.max \in M!Nullable(0 .. MaxMoney)
        /\ budget.min \in M!Nullable(0 .. MaxMoney) /\ budget.max \in M!Nullable(0 .. MaxMoney)
    BY DEF M!Ranges
  <2>2. lo \in Nat /\ from \in Nat
    BY <1>2, <2>1
  <2>. HIDE DEF lo, from
  <2>. QED
    BY <1>2, <2>1, <2>2
<1>. HIDE DEF lo, hi, from, upto
<1>4. overlap \in Nat /\ span \in Nat \ {0} /\ below \in Nat \ {0} /\ upto <= below
  BY <1>3 DEF M!AtLeast, M!AtMost
<1>. HIDE DEF overlap, span, below
<1>5. lo > upto => M!AtLeast(0, M!Percent(2 * upto - lo, below)) \in 0 .. 100
  <2>1. 2 * upto - lo \in Int /\ (lo > upto => 2 * upto - lo <= below)
    BY <1>3, <1>4
  <2>2. M!Percent(2 * upto - lo, below) \in Int
        /\ (lo > upto => M!Percent(2 * upto - lo, below) <= 100)
    BY <1>4, <2>1, PercentRange
  <2>. QED
    BY <2>2 DEF M!AtLeast
<1>6. M!AtMost(95, M!Percent(2 * span + 3 * overlap, 5 * span)) \in 0 .. 100
  <2> DEFINE n == 2 * span + 3 * overlap  d == 5 * span
  <2>1. n \in Int /\ n >= 0 /\ d \in Nat \ {0}
    BY <1>4
  <2>. HIDE DEF n, d
  <2>2. M!Percent(n, d) \in Int /\ M!Percent(n, d) >= 0
    BY <2>1, PercentRange
  <2>. QED
    BY <2>2 DEF M!AtMost, n, d
<1>. QED
  BY <1>1, <1>3, <1>5, <1>6

-----------------------------------------------------------------------------
(* A share of at most 50 hundredths, of any whole.                         *)
LEMMA Share ==
  ASSUME NEW whole \in Nat, NEW boost \in 0 .. 50
  PROVE  boost * whole \in Nat /\ boost * whole <= 50 * whole
<1>1. ASSUME NEW a \in Nat, NEW b \in Nat PROVE a * b \in Nat
  BY SMT
<1>2. (50 - boost) * whole \in Nat /\ boost * whole \in Nat
  BY <1>1, SMT
<1>3. (50 - boost) * whole = 50 * whole - boost * whole
  BY SMT
<1>. QED
  BY <1>2, <1>3, SMT

(* Division by the perfect score keeps order, and whole differences.       *)
LEMMA Division ==
  ASSUME NEW a \in Nat, NEW b \in Nat
  PROVE  /\ a \div M!Perfect \in Nat
         /\ a <= b => a \div M!Perfect <= b \div M!Perfect
         /\ a + M!Perfect <= b => a \div M!Perfect < b \div M!Perfect
         /\ b <= a + 50 * M!Perfect => b \div M!Perfect <= a \div M!Perfect + 50
  BY SMT DEF M!Perfect

(* What combine rounds, and its bounds.                                    *)
Boosted(o, b) == 100 * o + b * (M!Perfect - o) + 50 * 100

LEMMA CombineIs ==
  ASSUME NEW o \in 0 .. M!Perfect, NEW b \in 0 .. 50
  PROVE  /\ Boosted(o, b) \in Nat
         /\ 100 * o + 50 * 100 <= Boosted(o, b)
         /\ Boosted(o, b) <= 50 * (o + M!Perfect + 100)
         /\ Boosted(o, b) <= 100 * M!Perfect + 50 * 100
         /\ M!Combine(o, b) = Boosted(o, b) \div M!Perfect
<1>. DEFINE Scale == M!Perfect
            lift == b * (Scale - o)
<1>1. Scale \in Nat /\ Scale = 100 * 100
  BY DEF M!Perfect
<1>. HIDE DEF Scale
<1>2. o \in Nat /\ o <= Scale /\ Scale - o \in Nat
  BY <1>1 DEF Scale
<1>3. lift \in Nat /\ lift <= 50 * (Scale - o)
  BY <1>2, Share
<1>4. M!Combine(o, b) = (M!AtLeast(0, M!AtMost(100 * Scale, 100 * o + b * M!AtLeast(0, Scale - o))) + 50 * 100) \div Scale
  BY DEF M!Combine, Scale
<1>5. M!AtLeast(0, Scale - o) = Scale - o
  BY <1>2 DEF M!AtLeast
<1>6. Boosted(o, b) = 100 * o + lift + 50 * 100
  BY DEF Boosted, Scale
<1>. HIDE DEF lift
<1>7. /\ 0 <= 100 * o + lift /\ 100 * o + lift <= 100 * Scale
      /\ 100 * o + lift + 50 * 100 <= 50 * (o + Scale + 100)
  BY <1>1, <1>2, <1>3
<1>8. M!AtLeast(0, M!AtMost(100 * Scale, 100 * o + lift)) = 100 * o + lift
  BY <1>1, <1>2, <1>3, <1>7 DEF M!AtLeast, M!AtMost
<1>9. M!Combine(o, b) = Boosted(o, b) \div Scale
  BY <1>4, <1>5, <1>6, <1>8 DEF lift
<1>. QED
  BY <1>1, <1>2, <1>3, <1>6, <1>7, <1>9 DEF Scale

(* A boost never lowers a score and lifts it by 50 points at most, and an  *)
(* unsponsored rival halfway to 100 from there stays ahead: combine of the *)
(* matching, of any two matches.                                           *)
THEOREM BoostIsFair ==
  ASSUME NEW organic \in 0 .. M!Perfect, NEW boost \in 0 .. 50
  PROVE  /\ M!Combine(organic, boost)
              \in M!Combine(organic, 0) .. (M!Combine(organic, 0) + 50)
         /\ \A rival \in 0 .. M!Perfect :
              2 * rival >= organic + M!Perfect + 200
                => M!Combine(organic, boost) < M!Combine(rival, 0)
<1>. DEFINE Scale == M!Perfect
            Total(o, b) == Boosted(o, b)
<1>1. Scale \in Nat /\ Scale = 100 * 100
  BY SMT DEF M!Perfect
<1>2. ASSUME NEW o \in 0 .. Scale, NEW b \in 0 .. 50
      PROVE  /\ Total(o, b) \in Nat
             /\ 100 * o + 50 * 100 <= Total(o, b)
             /\ Total(o, b) <= 50 * (o + Scale + 100)
             /\ M!Combine(o, b) = Total(o, b) \div Scale
  BY CombineIs
<1>3. organic \in 0 .. Scale /\ boost \in 0 .. 50 /\ 0 \in 0 .. 50
  BY SMT
<1>4. ASSUME NEW o \in 0 .. Scale PROVE Total(o, 0) = 100 * o + 50 * 100
  BY <1>1, SMT DEF Boosted
<1>. HIDE DEF Scale
<1>. HIDE DEF Total
<1>5. ASSUME NEW a \in Nat, NEW b \in Nat
      PROVE  /\ a \div Scale \in Nat
             /\ a <= b => a \div Scale <= b \div Scale
             /\ a + Scale <= b => a \div Scale < b \div Scale
             /\ b <= a + 50 * Scale => b \div Scale <= a \div Scale + 50
  BY Division DEF Scale
<1>6. M!Combine(organic, boost)
        \in M!Combine(organic, 0) .. (M!Combine(organic, 0) + 50)
  <2>1. /\ M!Combine(organic, 0) = Total(organic, 0) \div Scale
        /\ M!Combine(organic, boost) = Total(organic, boost) \div Scale
        /\ Total(organic, 0) = 100 * organic + 50 * 100
        /\ Total(organic, 0) \in Nat /\ Total(organic, boost) \in Nat
        /\ 100 * organic + 50 * 100 <= Total(organic, boost)
        /\ Total(organic, boost) <= 50 * (organic + Scale + 100)
    BY <1>2, <1>3, <1>4
  <2>2. Total(organic, 0) <= Total(organic, boost)
    BY <2>1
  <2>3. Total(organic, boost) <= Total(organic, 0) + 50 * Scale
    BY <1>1, <1>3, <2>1, SMT
  <2>4. /\ Total(organic, 0) \div Scale \in Nat
        /\ Total(organic, boost) \div Scale \in Nat
        /\ Total(organic, 0) \div Scale <= Total(organic, boost) \div Scale
        /\ Total(organic, boost) \div Scale <= Total(organic, 0) \div Scale + 50
    BY <1>5, <2>1, <2>2, <2>3
  <2>. QED
    BY <2>1, <2>4, SMT
<1>7. ASSUME NEW rival \in 0 .. Scale, 2 * rival >= organic + Scale + 200
      PROVE  M!Combine(organic, boost) < M!Combine(rival, 0)
  <2>1. /\ M!Combine(rival, 0) = Total(rival, 0) \div Scale
        /\ M!Combine(organic, boost) = Total(organic, boost) \div Scale
        /\ Total(rival, 0) = 100 * rival + 50 * 100
        /\ Total(rival, 0) \in Nat /\ Total(organic, boost) \in Nat
        /\ Total(organic, boost) <= 50 * (organic + Scale + 100)
    BY <1>2, <1>3, <1>4
  <2>2. Total(organic, boost) + Scale <= Total(rival, 0)
    BY <1>1, <1>3, <1>7, <2>1, SMT
  <2>. QED
    BY <1>5, <2>1, <2>2
<1>. QED
  BY <1>6, <1>7 DEF Scale

-----------------------------------------------------------------------------
(* The scores as a whole.                                                  *)

(* A better match scores no less, and neither does a larger boost.         *)
LEMMA CombineGrows ==
  ASSUME NEW o \in 0 .. M!Perfect, NEW p \in 0 .. M!Perfect, o <= p,
         NEW b \in 0 .. 50, NEW c \in 0 .. 50, b <= c
  PROVE  M!Combine(o, b) \in 0 .. 100 /\ M!Combine(o, b) <= M!Combine(p, c)
<1> DEFINE Scale == M!Perfect
           Total(q, d) == Boosted(q, d)
<1>1. Scale \in Nat /\ Scale = 100 * 100
  BY DEF M!Perfect
<1>2. ASSUME NEW q \in 0 .. Scale, NEW d \in 0 .. 50
      PROVE  /\ M!Combine(q, d) = Total(q, d) \div Scale
             /\ Total(q, d) \in Nat /\ Total(q, d) <= 100 * Scale + 50 * 100
             /\ Total(q, d) = 100 * q + d * (Scale - q) + 50 * 100
  BY CombineIs DEF Boosted
<1>3. o \in 0 .. Scale /\ p \in 0 .. Scale
  OBVIOUS
<1>. HIDE DEF Scale, Total
<1>4. /\ o \in Nat /\ p \in Nat /\ Scale - o \in Nat /\ Scale - p \in Nat
      /\ b \in Nat /\ c \in Nat /\ p - o \in Nat
  BY <1>1, <1>3
<1>5. Total(o, b) <= Total(o, c)
  <2> DEFINE k == Scale - o  low == b * k  high == c * k
  <2>1. ASSUME NEW n \in Nat PROVE b * n <= c * n /\ b * n \in Int /\ c * n \in Int
    BY <1>4
  <2>2. low <= high /\ low \in Int /\ high \in Int
    BY <1>4, <2>1
  <2>3. Total(o, b) = 100 * o + low + 50 * 100 /\ Total(o, c) = 100 * o + high + 50 * 100
    BY <1>2, <1>3
  <2>. HIDE DEF k, low, high
  <2>. QED
    BY <1>4, <2>2, <2>3
<1>6. Total(o, c) <= Total(p, c)
  <2> DEFINE gain == c * (p - o)  low == c * (Scale - o)  high == c * (Scale - p)
  <2>1. ASSUME NEW n \in Nat PROVE c * n \in Nat /\ c * n <= 50 * n
    BY Share
  <2>2. gain \in Nat /\ gain <= 50 * (p - o) /\ low \in Nat /\ high \in Nat
    BY <1>4, <2>1
  <2>3. gain = low - high
    BY <1>1, <1>4
  <2>4. Total(o, c) = 100 * o + low + 50 * 100 /\ Total(p, c) = 100 * p + high + 50 * 100
    BY <1>2, <1>3
  <2>. HIDE DEF gain, low, high
  <2>. QED
    BY <1>4, <2>2, <2>3, <2>4
<1> DEFINE low == Total(o, b)  high == Total(p, c)
<1>7. low \in Nat /\ high \in Nat /\ low <= high /\ low <= 100 * Scale + 50 * 100
  <2>1. Total(o, b) \in Nat /\ Total(o, c) \in Nat /\ Total(p, c) \in Nat
        /\ Total(o, b) <= 100 * Scale + 50 * 100
    BY <1>2, <1>3
  <2>. QED
    BY <1>5, <1>6, <2>1
<1>8. M!Combine(o, b) = low \div Scale /\ M!Combine(p, c) = high \div Scale
  BY <1>2, <1>3
<1>. HIDE DEF low, high
<1>9. /\ low \div Scale \in Nat /\ low \div Scale <= high \div Scale
  BY <1>7, Division DEF Scale
<1>10. low \div Scale <= 100
  BY <1>1, <1>7
<1>. QED
  BY <1>8, <1>9, <1>10

LEMMA BoostGrows ==
  ASSUME NEW ws \in SUBSET Weights, NEW w \in Weights
  PROVE  /\ M!Boost(ws) \in 0 .. 50 /\ M!Boost(ws \cup {w}) \in 0 .. 50
         /\ M!Boost(ws) <= M!Boost(ws \cup {w})
<1> DEFINE f == [v \in ws |-> v]  g == [v \in ws \cup {w} |-> v]
<1>1. /\ M!Boost(ws) = M!AtMost(50, M!Sum(f))
      /\ M!Boost(ws \cup {w}) = M!AtMost(50, M!Sum(g))
  BY DEF M!Boost
<1>2. \A v \in ws \cup {w} : v \in 0 .. 50 /\ v \in Nat /\ v <= v
  BY MatchingAssumption
<1>3. /\ DOMAIN f \subseteq DOMAIN g /\ DOMAIN g \subseteq 1 .. 50
      /\ \A v \in DOMAIN f : f[v] \in Nat /\ f[v] <= g[v]
      /\ \A v \in DOMAIN g : g[v] \in 0 .. 50
  BY <1>2, MatchingAssumption
<1>4. IsFiniteSet(1 .. 50)
  <2>1. ASSUME NEW n \in Nat PROVE IsFiniteSet(1 .. n)
    BY FS_Interval
  <2>. QED
    BY <2>1
<1>. HIDE DEF f, g
<1>5. M!Sum(f) \in Nat /\ M!Sum(g) \in Nat /\ M!Sum(f) <= M!Sum(g)
  BY <1>3, <1>4, SumGrows
<1>. QED
  BY <1>1, <1>5 DEF M!AtMost

(* What is scored of a trainer, and what no gain makes worse.              *)
NoWorse(tr, more) ==
  /\ more.rate = tr.rate
  /\ tr.languages <= more.languages
  /\ tr.verified => more.verified
  /\ tr.portfolio <= more.portfolio
  /\ \/ more.total = tr.total /\ more.accepted \in {tr.accepted, tr.accepted + 1}
     \/ more.total = tr.total + 1 /\ more.accepted = tr.accepted + 1

LEMMA OrganicGrows ==
  ASSUME JobOK, NEW sk \in M!TrainerSkills, NEW better \in M!TrainerSkills,
         \A s \in Skills : M!Gained(better[s], sk[s]),
         NEW tr, NEW more, Scored(tr), Scored(more), NoWorse(tr, more)
  PROVE  /\ \A i \in 1 .. 5 : M!Parts(sk, tr)[i] \in 0 .. 100
         /\ M!Organic(sk, tr) \in 0 .. M!Perfect /\ M!Organic(better, more) \in 0 .. M!Perfect
         /\ M!Organic(sk, tr) <= M!Organic(better, more)
<1>1. /\ M!SkillsScore(sk) \in 0 .. 100 /\ M!SkillsScore(better) \in 0 .. 100
      /\ M!SkillsScore(sk) <= M!SkillsScore(better)
  BY SkillsGrow
<1>2. /\ M!LanguagesScore(tr) \in 0 .. 100 /\ M!LanguagesScore(more) \in 0 .. 100
      /\ M!LanguagesScore(tr) <= M!LanguagesScore(more)
  <2>1. /\ tr.languages \in Nat /\ more.languages \in Nat /\ tr.languages <= more.languages
        /\ more.languages <= more.languages
    BY DEF Scored, NoWorse
  <2>. QED
    BY <2>1, LanguagesGrow
<1>3. /\ M!RateScore(tr.rate, job.budget) \in 0 .. 100
      /\ M!RateScore(more.rate, job.budget) = M!RateScore(tr.rate, job.budget)
  BY RateInRange DEF Scored, NoWorse, JobOK
<1>4. /\ M!TrustScore(tr) \in 0 .. 100 /\ M!TrustScore(more) \in 0 .. 100
      /\ M!TrustScore(tr) <= M!TrustScore(more)
  <2>1. /\ tr.portfolio \in Nat /\ more.portfolio \in Nat /\ tr.verified \in BOOLEAN
        /\ more.verified \in BOOLEAN /\ tr.portfolio <= more.portfolio
        /\ (tr.verified => more.verified) /\ more.portfolio <= more.portfolio
    BY DEF Scored, NoWorse
  <2>. QED
    BY <2>1, TrustGrows
<1>5. /\ M!HistoryScore(tr) \in 0 .. 100 /\ M!HistoryScore(more) \in 0 .. 100
      /\ M!HistoryScore(tr) <= M!HistoryScore(more)
  <2>1. /\ tr.total \in Nat /\ tr.accepted \in 0 .. tr.total
        /\ more.total \in Nat /\ more.accepted \in 0 .. more.total
        /\ \/ more.total = tr.total /\ more.accepted \in {tr.accepted, tr.accepted + 1}
           \/ more.total = tr.total + 1 /\ more.accepted = tr.accepted + 1
        /\ more.total = more.total /\ more.accepted \in {more.accepted, more.accepted + 1}
    BY DEF Scored, NoWorse
  <2>2. M!HistoryScore(tr) \in 0 .. 100 /\ M!HistoryScore(tr) <= M!HistoryScore(more)
    BY <2>1, HistoryGrows
  <2>3. M!HistoryScore(more) \in 0 .. 100
    BY <2>1, HistoryGrows
  <2>. QED
    BY <2>2, <2>3
<1>6. /\ M!Parts(sk, tr) = <<M!SkillsScore(sk), M!LanguagesScore(tr),
                             M!RateScore(tr.rate, job.budget), M!TrustScore(tr),
                             M!HistoryScore(tr)>>
      /\ M!Organic(sk, tr) =
           50 * M!SkillsScore(sk) + 15 * M!LanguagesScore(tr)
             + 15 * M!RateScore(tr.rate, job.budget) + 10 * M!TrustScore(tr)
             + 10 * M!HistoryScore(tr)
      /\ M!Organic(better, more) =
           50 * M!SkillsScore(better) + 15 * M!LanguagesScore(more)
             + 15 * M!RateScore(more.rate, job.budget) + 10 * M!TrustScore(more)
             + 10 * M!HistoryScore(more)
  BY DEF M!Parts, M!Organic
<1>7. \A i \in 1 .. 5 : M!Parts(sk, tr)[i] \in 0 .. 100
  BY <1>1, <1>2, <1>3, <1>4, <1>5, <1>6
<1>8. ASSUME NEW a \in 0 .. 100, NEW b \in 0 .. 100, NEW c \in 0 .. 100, NEW d \in 0 .. 100,
             NEW e \in 0 .. 100
      PROVE  50 * a + 15 * b + 15 * c + 10 * d + 10 * e \in 0 .. M!Perfect
  <2> DEFINE u == 50 * a  v == 15 * b  w == 15 * c  x == 10 * d  y == 10 * e
  <2>1. /\ u \in Int /\ v \in Int /\ w \in Int /\ x \in Int /\ y \in Int
        /\ 0 <= u /\ u <= 5000 /\ 0 <= v /\ v <= 1500 /\ 0 <= w /\ w <= 1500
        /\ 0 <= x /\ x <= 1000 /\ 0 <= y /\ y <= 1000
    OBVIOUS
  <2> DEFINE n == u + v + w + x + y
  <2>. HIDE DEF u, v, w, x, y
  <2>2. n \in Int /\ 0 <= n /\ n <= 100 * 100
    BY <2>1
  <2>. HIDE DEF n
  <2>3. n \in 0 .. M!Perfect
    BY <2>2 DEF M!Perfect
  <2>. QED
    BY <2>3 DEF n, u, v, w, x, y
<1> DEFINE a1 == M!SkillsScore(sk)  a2 == M!SkillsScore(better)
           b1 == M!LanguagesScore(tr)  b2 == M!LanguagesScore(more)
           c1 == M!RateScore(tr.rate, job.budget)
           d1 == M!TrustScore(tr)  d2 == M!TrustScore(more)
           e1 == M!HistoryScore(tr)  e2 == M!HistoryScore(more)
<1>9. /\ M!Organic(sk, tr) = 50 * a1 + 15 * b1 + 15 * c1 + 10 * d1 + 10 * e1
      /\ M!Organic(better, more) = 50 * a2 + 15 * b2 + 15 * c1 + 10 * d2 + 10 * e2
  BY <1>3, <1>6
<1>10. /\ a1 \in 0 .. 100 /\ b1 \in 0 .. 100 /\ c1 \in 0 .. 100 /\ d1 \in 0 .. 100
       /\ e1 \in 0 .. 100
       /\ a2 \in 0 .. 100 /\ b2 \in 0 .. 100 /\ d2 \in 0 .. 100 /\ e2 \in 0 .. 100
       /\ a1 <= a2 /\ b1 <= b2 /\ d1 <= d2 /\ e1 <= e2
  BY <1>1, <1>2, <1>3, <1>4, <1>5
<1>. HIDE DEF a1, a2, b1, b2, c1, d1, d2, e1, e2
<1>11. M!Organic(sk, tr) \in 0 .. M!Perfect /\ M!Organic(better, more) \in 0 .. M!Perfect
  <2>1. 50 * a1 + 15 * b1 + 15 * c1 + 10 * d1 + 10 * e1 \in 0 .. M!Perfect
    BY <1>8, <1>10
  <2>2. 50 * a2 + 15 * b2 + 15 * c1 + 10 * d2 + 10 * e2 \in 0 .. M!Perfect
    BY <1>8, <1>10
  <2>. QED
    BY <1>9, <2>1, <2>2
<1>12. M!Organic(sk, tr) <= M!Organic(better, more)
  BY <1>9, <1>10
<1>. QED
  BY <1>7, <1>11, <1>12

-----------------------------------------------------------------------------
(* The rows a score is computed from, and the fairness of a rank.          *)

(* No application is accepted that was not sent.                           *)
MatchInv == M!TypeOK /\ trainer.accepted <= trainer.total

LEMMA MatchBegins == M!Init => MatchInv
<1>. SUFFICES ASSUME M!Init PROVE MatchInv
  OBVIOUS
<1>1. /\ 0 \in 0 .. MaxCount /\ 0 \in 0 .. MaxEdits /\ M!NoRange \in M!Ranges
      /\ M!NoSkills \in M!TrainerSkills
  BY MatchingAssumption
     DEF M!NoRange, M!Ranges, M!Nullable, M!NoSkills, M!TrainerSkills
<1>2. trainer \in M!Trainers /\ trainer.accepted <= trainer.total
  BY <1>1 DEF M!Init, M!Trainers
<1>. QED
  BY <1>1, <1>2 DEF M!Init, MatchInv, M!TypeOK

LEMMA MatchGoes == MatchInv /\ [M!Next]_M!vars => MatchInv'
<1>. SUFFICES ASSUME MatchInv, [M!Next]_M!vars PROVE MatchInv'
  OBVIOUS
<1>1. /\ job \in [skills : M!JobSkills, languages : 0 .. MaxCount, budget : M!Ranges]
      /\ skills \in M!TrainerSkills /\ trainer \in M!Trainers /\ weights \subseteq Weights
      /\ update \in [Calls -> M!Slots \cup {M!Idle}] /\ edits \in 0 .. MaxEdits
      /\ trainer.accepted <= trainer.total
  BY DEF MatchInv, M!TypeOK
<1>2. M!Edit => edits' \in 0 .. MaxEdits
  BY <1>1, MatchingAssumption DEF M!Edit
<1>3. ASSUME NEW u \in Calls, update[u] # M!Idle
      PROVE  update[u] \in M!Slots /\ update[u].skills \in M!TrainerSkills
             /\ [update[u] EXCEPT !.at = "create"] \in M!Slots
  BY <1>1, <1>3 DEF M!Slots
<1>4. CASE M!UpdateFields
  <2>1. ASSUME NEW given \in M!Ranges,
               trainer' = [trainer EXCEPT !.rate.min = M!Given(given.min, @),
                                          !.rate.max = M!Given(given.max, @)]
        PROVE  trainer' \in M!Trainers /\ trainer'.accepted = trainer.accepted
               /\ trainer'.total = trainer.total
    BY <1>1, <2>1 DEF M!Trainers, M!Ranges, M!Given
  <2>2. ASSUME NEW n \in 0 .. MaxCount, trainer' = [trainer EXCEPT !.languages = n]
        PROVE  trainer' \in M!Trainers /\ trainer'.accepted = trainer.accepted
               /\ trainer'.total = trainer.total
    BY <1>1, <2>2 DEF M!Trainers
  <2>. QED
    BY <1>1, <1>2, <1>4, <2>1, <2>2 DEF M!UpdateFields, MatchInv, M!TypeOK
<1>5. ASSUME NEW u \in Calls, M!UpdateSkills(u)
      PROVE  MatchInv'
  <2>1. PICK new \in M!TrainerSkills :
          update' = [update EXCEPT ![u] = [at |-> "delete", skills |-> new]]
    BY <1>5 DEF M!UpdateSkills
  <2>2. [at |-> "delete", skills |-> new] \in M!Slots
    BY DEF M!Slots
  <2>3. update' \in [Calls -> M!Slots \cup {M!Idle}]
    BY <1>1, <2>1, <2>2
  <2>. QED
    BY <1>1, <1>2, <1>5, <2>3 DEF M!UpdateSkills, MatchInv, M!TypeOK
<1>6. ASSUME NEW u \in Calls, M!DeleteSkills(u)
      PROVE  MatchInv'
  <2>1. update[u] # M!Idle
    BY <1>6 DEF M!DeleteSkills, M!Idle
  <2>2. update' \in [Calls -> M!Slots \cup {M!Idle}]
    BY <1>1, <1>3, <1>6, <2>1 DEF M!DeleteSkills
  <2>3. M!NoSkills \in M!TrainerSkills
    BY DEF M!NoSkills, M!TrainerSkills
  <2>. QED
    BY <1>1, <1>6, <2>2, <2>3 DEF M!DeleteSkills, MatchInv, M!TypeOK
<1>7. ASSUME NEW u \in Calls, M!CreateSkills(u)
      PROVE  MatchInv'
  <2>1. update[u] # M!Idle
    BY <1>7 DEF M!CreateSkills, M!Idle
  <2>2. update' \in [Calls -> M!Slots \cup {M!Idle}]
    BY <1>1, <1>7 DEF M!CreateSkills
  <2>3. update[u].skills \in M!TrainerSkills
    BY <1>3, <2>1
  <2>4. skills' \in M!TrainerSkills
    BY <1>1, <1>7, <2>3 DEF M!CreateSkills, M!TrainerSkills
  <2>. QED
    BY <1>1, <1>7, <2>2, <2>4 DEF M!CreateSkills, MatchInv, M!TypeOK
<1>8. ASSUME NEW u \in Calls, M!Stops(u)
      PROVE  MatchInv'
  <2>1. update' \in [Calls -> M!Slots \cup {M!Idle}]
    BY <1>1, <1>8 DEF M!Stops
  <2>. QED
    BY <1>1, <1>8, <2>1 DEF M!Stops, MatchInv, M!TypeOK
<1>9. ASSUME NEW tr \in M!Trainers, tr.accepted <= tr.total, M!SetTrainer(tr)
      PROVE  MatchInv'
  BY <1>1, <1>2, <1>9 DEF M!SetTrainer, MatchInv, M!TypeOK
<1>10. CASE M!Verified
  <2>1. PICK v \in BOOLEAN : M!SetTrainer([trainer EXCEPT !.verified = v])
    BY <1>10 DEF M!Verified
  <2>2. /\ [trainer EXCEPT !.verified = v] \in M!Trainers
        /\ [trainer EXCEPT !.verified = v].accepted <= [trainer EXCEPT !.verified = v].total
    BY <1>1 DEF M!Trainers
  <2>. QED
    BY <1>9, <2>1, <2>2
<1>11. CASE M!PortfolioChanges
  <2>1. PICK n \in 0 .. MaxCount : M!SetTrainer([trainer EXCEPT !.portfolio = n])
    BY <1>11 DEF M!PortfolioChanges
  <2>2. /\ [trainer EXCEPT !.portfolio = n] \in M!Trainers
        /\ [trainer EXCEPT !.portfolio = n].accepted <= [trainer EXCEPT !.portfolio = n].total
    BY <1>1 DEF M!Trainers
  <2>. QED
    BY <1>9, <2>1, <2>2
<1>12. CASE M!HistoryGrows
  <2>1. PICK total \in trainer.total .. MaxCount, accepted \in 0 .. MaxCount :
          /\ accepted <= total
          /\ M!SetTrainer([trainer EXCEPT !.total = total, !.accepted = accepted])
    BY <1>12 DEF M!HistoryGrows
  <2> DEFINE tr == [trainer EXCEPT !.total = total, !.accepted = accepted]
  <2>2. total \in 0 .. MaxCount
    BY <1>1, MatchingAssumption DEF M!Trainers
  <2>3. tr \in M!Trainers /\ tr.accepted <= tr.total
    BY <1>1, <2>1, <2>2 DEF M!Trainers
  <2>4. M!SetTrainer(tr)
    BY <2>1
  <2>. HIDE DEF tr
  <2>. QED
    BY <1>9, <2>3, <2>4
<1>13. CASE M!PlacementsChange
  BY <1>1, <1>2, <1>13 DEF M!PlacementsChange, MatchInv, M!TypeOK
<1>14. CASE UNCHANGED M!vars
  BY <1>14 DEF M!vars, MatchInv, M!TypeOK
<1>. QED
  BY <1>4, <1>5, <1>6, <1>7, <1>8, <1>10, <1>11, <1>12, <1>13, <1>14 DEF M!Next

(* What a gain makes of a trainer is scored, and is no worse.              *)
LEMMA BetterTrainer ==
  ASSUME MatchInv, NEW tr \in M!BetterTrainers
  PROVE  Scored(trainer) /\ Scored(tr) /\ NoWorse(trainer, tr) /\ NoWorse(trainer, trainer)
<1>1. /\ trainer \in [rate : M!Ranges, languages : 0 .. MaxCount, verified : BOOLEAN,
                      portfolio : 0 .. MaxCount, total : 0 .. MaxCount, accepted : 0 .. MaxCount]
      /\ trainer.accepted <= trainer.total /\ MaxCount \in Nat
  BY MatchingAssumption DEF MatchInv, M!TypeOK, M!Trainers
<1>2. Scored(trainer) /\ NoWorse(trainer, trainer)
  BY <1>1 DEF Scored, NoWorse
<1>3. CASE tr = [trainer EXCEPT !.languages = @ + 1]
  BY <1>1, <1>3 DEF Scored, NoWorse
<1>4. CASE tr = [trainer EXCEPT !.verified = TRUE]
  BY <1>1, <1>4 DEF Scored, NoWorse
<1>5. CASE tr = [trainer EXCEPT !.portfolio = @ + 1]
  BY <1>1, <1>5 DEF Scored, NoWorse
<1>6. CASE tr = [trainer EXCEPT !.accepted = M!AtMost(trainer.total, @ + 1)]
  <2>1. /\ M!AtMost(trainer.total, trainer.accepted + 1) \in 0 .. trainer.total
        /\ M!AtMost(trainer.total, trainer.accepted + 1)
             \in {trainer.accepted, trainer.accepted + 1}
    BY <1>1 DEF M!AtMost
  <2>. QED
    BY <1>1, <1>6, <2>1 DEF Scored, NoWorse
<1>7. CASE tr = [trainer EXCEPT !.total = @ + 1, !.accepted = @ + 1]
  BY <1>1, <1>7 DEF Scored, NoWorse
<1>. QED
  BY <1>2, <1>3, <1>4, <1>5, <1>6, <1>7 DEF M!BetterTrainers

LEMMA RankIsFair == MatchInv => M!RankingIsFair
<1>. SUFFICES ASSUME MatchInv PROVE M!RankingIsFair
  OBVIOUS
<1> DEFINE organic == M!Organic(skills, trainer)
           boost   == M!Boost(weights)
<1>1. /\ M!TypeOK /\ JobOK /\ skills \in M!TrainerSkills /\ weights \in SUBSET Weights
      /\ \A s \in Skills : M!Gained(skills[s], skills[s])
  <2>1. M!TypeOK /\ JobOK /\ skills \in M!TrainerSkills /\ weights \in SUBSET Weights
    BY DEF MatchInv, M!TypeOK, JobOK
  <2>2. ASSUME NEW s \in Skills, skills[s] # M!Missing
        PROVE  M!Years(skills[s]) >= M!Years(skills[s])
    <3>1. skills[s] \in M!Nullable(0 .. MinYears)
      BY <2>1, <2>2 DEF M!TrainerSkills
    <3>2. skills[s] = {} \/ \E n \in 0 .. MinYears : skills[s] = {n}
      BY <3>1 DEF M!Nullable
    <3>3. M!Years({}) \in Int /\ \A n \in 0 .. MinYears : M!Years({n}) \in Int
      BY YearsAre
    <3>4. M!Years(skills[s]) \in Int
      BY <3>2, <3>3
    <3>. QED
      BY <3>4
  <2>. QED
    BY <2>1, <2>2 DEF M!Gained
<1>2. Scored(trainer) /\ NoWorse(trainer, trainer)
  <2>1. [trainer EXCEPT !.verified = TRUE] \in M!BetterTrainers
    BY DEF M!BetterTrainers
  <2>. QED
    BY <2>1, BetterTrainer
<1>3. ASSUME NEW sk \in M!BetterSkills
      PROVE  sk \in M!TrainerSkills /\ organic <= M!Organic(sk, trainer)
             /\ M!Organic(sk, trainer) \in 0 .. M!Perfect
  <2>1. sk \in M!TrainerSkills /\ \A s \in Skills : M!Gained(sk[s], skills[s])
    BY DEF M!BetterSkills
  <2>. QED
    BY <1>1, <1>2, <2>1, OrganicGrows
<1>4. ASSUME NEW tr \in M!BetterTrainers
      PROVE  organic <= M!Organic(skills, tr) /\ M!Organic(skills, tr) \in 0 .. M!Perfect
  BY <1>1, BetterTrainer, OrganicGrows
<1>5. /\ \A i \in 1 .. 5 : M!Parts(skills, trainer)[i] \in 0 .. 100
      /\ organic \in 0 .. M!Perfect
  BY <1>1, <1>2, OrganicGrows
<1>6. boost \in 0 .. 50 /\ 0 \in 0 .. 50
  <2> DEFINE f == [w \in weights |-> w]
  <2>1. /\ DOMAIN f \subseteq DOMAIN f /\ DOMAIN f \subseteq 1 .. 50
        /\ \A w \in DOMAIN f : f[w] \in Nat /\ f[w] <= f[w] /\ f[w] \in 0 .. 50
    BY <1>1, MatchingAssumption
  <2>2. IsFiniteSet(1 .. 50)
    <3>1. ASSUME NEW n \in Nat PROVE IsFiniteSet(1 .. n)
      BY FS_Interval
    <3>. QED
      BY <3>1
  <2>3. M!Boost(weights) = M!AtMost(50, M!Sum(f))
    BY DEF M!Boost
  <2>. HIDE DEF f
  <2>4. M!Sum(f) \in Nat
    BY <2>1, <2>2, SumGrows
  <2>. QED
    BY <2>3, <2>4 DEF M!AtMost
<1>7. ASSUME NEW w \in Weights
      PROVE  M!Boost(weights \cup {w}) \in 0 .. 50 /\ boost <= M!Boost(weights \cup {w})
  <2>1. M!Boost(weights) <= M!Boost(weights \cup {w}) /\ M!Boost(weights \cup {w}) \in 0 .. 50
    BY <1>1, BoostGrows
  <2>. QED
    BY <2>1
<1>8. /\ organic \in Int /\ organic <= organic /\ boost \in Int /\ boost <= boost
  <2>. HIDE DEF organic, boost
  <2>. QED
    BY <1>5, <1>6 DEF M!Perfect
<1>9. /\ M!Score(skills, trainer, weights) = M!Combine(organic, boost)
      /\ \A sk : M!Score(sk, trainer, weights) = M!Combine(M!Organic(sk, trainer), boost)
      /\ \A tr : M!Score(skills, tr, weights) = M!Combine(M!Organic(skills, tr), boost)
      /\ \A w : M!Score(skills, trainer, weights \cup {w}) =
                  M!Combine(organic, M!Boost(weights \cup {w}))
  BY DEF M!Score
<1>10. M!BoostIsCapped
  <2> DEFINE rival == (organic + M!Perfect + 201) \div 2
  <2>1. /\ M!BoostIsCapped <=>
             /\ M!Combine(organic, boost)
                  \in M!Combine(organic, 0) .. (M!Combine(organic, 0) + 50)
             /\ rival <= M!Perfect => M!Combine(organic, boost) < M!Combine(rival, 0)
    BY DEF M!BoostIsCapped
  <2>. HIDE DEF organic, boost
  <2>2. rival \in Nat /\ 2 * rival >= organic + M!Perfect + 200
    BY <1>5 DEF M!Perfect
  <2>. HIDE DEF rival
  <2>3. rival <= M!Perfect => rival \in 0 .. M!Perfect
    BY <2>2 DEF M!Perfect
  <2>. QED
    BY <1>5, <1>6, <2>1, <2>2, <2>3, BoostIsFair
<1>. HIDE DEF organic, boost
<1>11. M!Combine(organic, boost) \in 0 .. 100
  BY <1>5, <1>6, <1>8, CombineGrows
<1>12. M!ScoresInRange
  BY <1>5, <1>9, <1>11 DEF M!ScoresInRange
<1>13. ASSUME NEW sk \in M!BetterSkills
       PROVE  M!Score(sk, trainer, weights) >= M!Score(skills, trainer, weights)
  <2> DEFINE other == M!Organic(sk, trainer)
  <2>1. organic <= other /\ other \in 0 .. M!Perfect
    BY <1>3
  <2>. HIDE DEF other
  <2>2. M!Combine(organic, boost) <= M!Combine(other, boost)
    BY <1>5, <1>6, <1>8, <2>1, CombineGrows
  <2>. QED
    BY <1>9, <2>2 DEF other
<1>14. ASSUME NEW tr \in M!BetterTrainers
       PROVE  M!Score(skills, tr, weights) >= M!Score(skills, trainer, weights)
  <2> DEFINE other == M!Organic(skills, tr)
  <2>1. organic <= other /\ other \in 0 .. M!Perfect
    BY <1>4
  <2>. HIDE DEF other
  <2>2. M!Combine(organic, boost) <= M!Combine(other, boost)
    BY <1>5, <1>6, <1>8, <2>1, CombineGrows
  <2>. QED
    BY <1>9, <2>2 DEF other
<1>15. ASSUME NEW w \in Weights
       PROVE  M!Score(skills, trainer, weights \cup {w}) >= M!Score(skills, trainer, weights)
  <2> DEFINE more == M!Boost(weights \cup {w})
  <2>1. more \in 0 .. 50 /\ boost <= more
    BY <1>7
  <2>. HIDE DEF more
  <2>2. M!Combine(organic, boost) <= M!Combine(organic, more)
    BY <1>5, <1>6, <1>8, <2>1, CombineGrows
  <2>. QED
    BY <1>9, <2>2 DEF more
<1>16. M!GainsNeverCost
  BY <1>13, <1>14, <1>15 DEF M!GainsNeverCost
<1>. QED
  BY <1>1, <1>10, <1>12, <1>16 DEF M!RankingIsFair

(* A rank is 0 to 100, no gain costs the trainer a point, and no placement *)
(* lifts a match past an unsponsored one that is halfway from there to     *)
(* 100, whatever the job asks for, even of a profile whose skills an       *)
(* update has deleted and not yet created.                                 *)
THEOREM RanksAreFair == M!Spec => []M!RankingIsFair
<1>1. M!Spec => []MatchInv
  BY MatchBegins, MatchGoes, PTL DEF M!Spec
<1>. QED
  BY <1>1, RankIsFair, PTL

LEMMA MatchesOf == PromotionsSpec => M!Spec
<1>1. PromotionsInit => M!Init
  BY DEF PromotionsInit
<1>2. [PromotionsNext]_focusVars => [M!Next]_M!vars
  BY DEF PromotionsNext, focusVars, matchVars, M!vars
<1>. QED
  BY <1>1, <1>2, PTL DEF PromotionsSpec, M!Spec

(* The same of the ranking in the promotions.                              *)
THEOREM RankingStaysFair == PromotionsSpec => []RankingIsFair
<1>1. M!RankingIsFair => RankingIsFair
  BY DEF RankingIsFair
<1>. QED
  BY <1>1, RanksAreFair, MatchesOf, PTL

-----------------------------------------------------------------------------
(* Placements                                                              *)

SlotOK(slot) ==
  IF slot.at = "refresh" THEN \E S \in SUBSET P!Placements : slot \in P!Refreshes(S)
                         ELSE slot \in P!Slots \cup {P!Idle}

PlacementTypes ==
  /\ clock \in P!Days
  /\ placement \in [P!Placements -> P!Rows \cup {P!NoRow, P!Deleted}]
  /\ mirror \in 0 .. MaxTime
  /\ checkoutSaved \subseteq P!Placements
  /\ checkoutPi \in [P!Placements -> {"absent", "waiting", "succeeded", "canceled"}]
  /\ checkoutEvents \subseteq P!Events
  /\ checkoutProcessed \subseteq checkoutEvents
  /\ checkoutMissed \subseteq P!Placements
  /\ handSet \subseteq P!Placements
  /\ reset \subseteq P!Placements
  /\ overlapped \in BOOLEAN
  /\ DOMAIN checkoutCall = Calls /\ \A c \in Calls : SlotOK(checkoutCall[c])
  /\ checkoutFailures \in 0 .. MaxFailures

Paid(p) == checkoutPi[p] = "succeeded"

(* A success may be acknowledged: the placement is or was in force, or it  *)
(* is one of the exceptions of AcknowledgedIsActive.                       *)
Good(p) ==
  \/ p \in checkoutMissed \cup handSet \cup reset
  \/ placement[p] = P!Deleted
  \/ placement[p].status \in {"ACTIVE", "EXPIRED"}

(* What a transaction may write over a placement.                          *)
Written(p, row) ==
  \/ row = P!Deleted
  \/ p \in handSet
  \/ row.status = "EXPIRED"
  \/ row.status = "ACTIVE" /\ Paid(p)

RowSound(p) ==
  /\ placement[p] = P!NoRow => checkoutPi[p] = "absent"
  /\ p \in checkoutSaved => placement[p] # P!NoRow
  /\ P!HasRow(p) /\ p \notin handSet =>
       placement[p].status \in {"DRAFT", "PENDING_PAYMENT", "ACTIVE", "EXPIRED"}
  /\ placement[p].status = "ACTIVE" /\ p \notin handSet => Paid(p)
  /\ <<p, "succeeded">> \in checkoutEvents => Paid(p)
  /\ <<p, "succeeded">> \in checkoutProcessed => Good(p)

(* What a call relies on at the step that comes next.                      *)
SlotKnows(slot) ==
  /\ slot.at = "pay.stripe" =>
       /\ slot.p \in Checkouts /\ placement[slot.p] # P!NoRow
       /\ checkoutPi[slot.p] = "absent"
  /\ slot.at = "pay.save.succeeded" => Paid(slot.p)
  /\ slot.at = "activate" =>
       /\ Paid(slot.p) /\ placement[slot.p] # P!NoRow
       /\ slot.ev \subseteq {<<slot.p, "succeeded">>}
  /\ slot.at = "reset" => \A e \in slot.ev : e[2] # "succeeded"
  /\ slot.at \in {"activate", "reset", "hook.done", "refresh"} =>
       slot.ev \subseteq checkoutEvents
  /\ slot.at = "hook.done" => \A e \in slot.ev : e[2] = "succeeded" => Good(e[1])
  /\ slot.at = "refresh" =>
       /\ \A e \in slot.ev : e[2] = "succeeded" => e[1] \in DOMAIN slot.writes
       /\ \A p \in DOMAIN slot.writes : Written(p, slot.writes[p])

Paying(c, p) == checkoutCall[c].at = "pay.stripe" /\ checkoutCall[c].p = p

OnePayer == \A c, d \in Calls, p \in P!Placements : Paying(c, p) /\ Paying(d, p) => c = d

PlacementInv ==
  /\ PlacementTypes
  /\ \A p \in P!Placements : RowSound(p)
  /\ \A c \in Calls : SlotKnows(checkoutCall[c])
  /\ OnePayer

(* The day is the latest end among the placements of f in force.           *)
Boosts(f, p) == f[p].status = "ACTIVE" /\ f[p].endsAt >= clock

Mirrors(f, day) ==
  /\ \A p \in P!Placements : Boosts(f, p) => day >= f[p].endsAt
  /\ day >= clock => \E p \in P!Placements : Boosts(f, p) /\ f[p].endsAt = day

(* A refresh alone knows what its commit will leave.                       *)
MirrorInv ==
  ~ overlapped =>
    /\ \A c, d \in P!Refreshing : c = d
    /\ reset = {} =>
         /\ Mirrors(placement, mirror)
         /\ \A c \in P!Refreshing :
              Mirrors(P!Updated(checkoutCall[c].writes), checkoutCall[c].top)


-----------------------------------------------------------------------------
PayLabels == {"pay.stripe", "pay.refused", "pay.save.waiting", "pay.save.succeeded"}

(* What no step takes back.                                                *)
PKept ==
  /\ checkoutEvents \subseteq checkoutEvents'
  /\ handSet \subseteq handSet'
  /\ \A p \in P!Placements :
       /\ placement[p] # P!NoRow => placement'[p] # P!NoRow
       /\ Paid(p) => Paid(p)'
       /\ Good(p) => Good(p)'

LEMMA PSlotParts ==
  ASSUME NEW slot, SlotOK(slot)
  PROVE  /\ slot.at \in PayLabels \cup {"remove", "activate", "reset", "edit"} =>
              slot.p \in P!Placements
         /\ slot.at \in {"activate", "reset", "hook.done", "refresh"} => slot.ev \in P!Carried
         /\ slot.at = "edit" => slot.new \in P!Rows
         /\ slot.at = "sweep" => slot.due \subseteq P!Placements
         /\ slot.at = "refresh" =>
              /\ DOMAIN slot.writes \subseteq P!Placements
              /\ \A p \in DOMAIN slot.writes : slot.writes[p] \in P!Rows \cup {P!Deleted}
              /\ slot.top \in 0 .. MaxTime
<1>1. CASE slot.at = "refresh"
  <2>1. PICK S \in SUBSET P!Placements : slot \in P!Refreshes(S)
    BY <1>1 DEF SlotOK
  <2>2. slot.writes \in [S -> P!Rows \cup {P!Deleted}] /\ slot.ev \in P!Carried
        /\ slot.top \in 0 .. MaxTime
    BY <2>1 DEF P!Refreshes
  <2>. QED
    BY <1>1, <2>2 DEF PayLabels
<1>2. CASE slot = P!Idle
  BY <1>2 DEF P!Idle, PayLabels
<1>3. CASE slot.at # "refresh" /\ slot \in P!Slots
  BY <1>3 DEF P!Slots, PayLabels
<1>. QED
  BY <1>1, <1>2, <1>3 DEF SlotOK

LEMMA PEventParts ==
  /\ \A e \in P!Events : /\ e = <<e[1], e[2]>> /\ e[1] \in P!Placements /\ e[1] \in Checkouts
                         /\ e[2] \in {"succeeded", "failed", "canceled"}
  /\ \A ev \in P!Carried : ev \subseteq P!Events
  /\ {} \in P!Carried /\ \A e \in P!Events : {e} \in P!Carried
  /\ \A p \in Checkouts :
       p \in P!Placements /\ \A x \in {"succeeded", "failed", "canceled"} : <<p, x>> \in P!Events
  BY DEF P!Events, P!Carried, P!Placements

LEMMA PRowParts ==
  /\ P!NoRow.status = "none" /\ P!Deleted.status = "deleted" /\ P!NoRow # P!Deleted
  /\ \A row \in P!Rows : /\ row # P!NoRow /\ row # P!Deleted
                         /\ row.status \in P!Statuses /\ row.endsAt \in P!Days
  /\ \A row \in P!Rows, st \in P!Statuses :
       /\ [row EXCEPT !.status = st] \in P!Rows
       /\ [row EXCEPT !.status = st].status = st
       /\ [row EXCEPT !.status = st].endsAt = row.endsAt
<1>1. P!NoRow.status = "none" /\ P!Deleted.status = "deleted"
  BY DEF P!NoRow, P!Deleted
<1>2. \A row \in P!Rows : row.status \in P!Statuses /\ row.endsAt \in P!Days
  BY DEF P!Rows
<1>3. \A row \in P!Rows, st \in P!Statuses :
       /\ [row EXCEPT !.status = st] \in P!Rows
       /\ [row EXCEPT !.status = st].status = st
       /\ [row EXCEPT !.status = st].endsAt = row.endsAt
  BY DEF P!Rows
<1>4. "none" \notin P!Statuses /\ "deleted" \notin P!Statuses
  BY DEF P!Statuses
<1>. QED
  BY <1>1, <1>2, <1>3, <1>4

(* Placements whose status is one of a row's have a row.                   *)
LEMMA PHas ==
  ASSUME PlacementInv, NEW p \in P!Placements
  PROVE  /\ P!HasRow(p) <=> placement[p] \in P!Rows
         /\ placement[p].status \in P!Statuses => P!HasRow(p)
<1>1. placement[p] \in P!Rows \cup {P!NoRow, P!Deleted}
  BY DEF PlacementInv, PlacementTypes
<1>2. "none" \notin P!Statuses /\ "deleted" \notin P!Statuses
  BY DEF P!Statuses
<1>. QED
  BY <1>1, <1>2, PRowParts DEF P!HasRow

(* A call that does not move still knows what it knew.                     *)
LEMMA PSlotKept ==
  ASSUME PlacementInv, PKept, NEW d \in Calls, checkoutCall'[d] = checkoutCall[d],
         \A p \in P!Placements : Paying(d, p) => checkoutPi'[p] = checkoutPi[p]
  PROVE  SlotKnows(checkoutCall[d])'
<1> DEFINE slot == checkoutCall[d]
<1>1. SlotOK(slot) /\ SlotKnows(slot) /\ slot = checkoutCall'[d]
  BY DEF PlacementInv, PlacementTypes
<1>2. CASE slot.at = "pay.stripe"
  <2>1. slot.p \in P!Placements
    BY <1>1, <1>2, PSlotParts DEF PayLabels
  <2>. QED
    BY <1>1, <1>2, <2>1 DEF SlotKnows, PKept, Paying
<1>3. CASE slot.at = "pay.save.succeeded"
  <2>1. slot.p \in P!Placements
    BY <1>1, <1>3, PSlotParts DEF PayLabels
  <2>. QED
    BY <1>1, <1>3, <2>1 DEF SlotKnows, PKept
<1>4. CASE slot.at \in {"activate", "reset"}
  <2>1. slot.p \in P!Placements
    BY <1>1, <1>4, PSlotParts
  <2>. QED
    BY <1>1, <1>4, <2>1 DEF SlotKnows, PKept
<1>5. CASE slot.at = "hook.done"
  <2>1. slot.ev \subseteq P!Events
    BY <1>1, <1>5, PSlotParts, PEventParts
  <2>. QED
    BY <1>1, <1>5, <2>1, PEventParts DEF SlotKnows, PKept
<1>6. CASE slot.at = "refresh"
  <2>1. DOMAIN slot.writes \subseteq P!Placements
    BY <1>1, <1>6, PSlotParts
  <2>2. \A p \in DOMAIN slot.writes : Written(p, slot.writes[p])'
    BY <1>1, <1>6, <2>1 DEF SlotKnows, PKept, Written
  <2>. QED
    BY <1>1, <1>6, <2>2 DEF SlotKnows, PKept
<1>7. CASE slot.at \notin {"pay.stripe", "pay.save.succeeded", "activate", "reset",
                           "hook.done", "refresh"}
  BY <1>1, <1>7 DEF SlotKnows
<1>. QED
  BY <1>2, <1>3, <1>4, <1>5, <1>6, <1>7

(* A step of one call: the others keep what they know.                     *)
LEMMA PMoved ==
  ASSUME PlacementInv, PKept, PlacementTypes', \A p \in P!Placements : RowSound(p)',
         NEW c \in Calls, NEW slot, P!Set(c, slot), SlotKnows(checkoutCall[c])',
         \A d \in Calls \ {c}, p \in P!Placements :
           Paying(d, p) => checkoutPi'[p] = checkoutPi[p] /\ ~ Paying(c, p)'
  PROVE  PlacementInv'
<1>1. \A d \in Calls \ {c} : checkoutCall'[d] = checkoutCall[d]
  BY DEF P!Set, PlacementInv, PlacementTypes
<1>2. ASSUME NEW d \in Calls \ {c}
      PROVE  SlotKnows(checkoutCall[d])'
  BY <1>1, PSlotKept
<1>3. \A d \in Calls \ {c}, p \in P!Placements : Paying(d, p)' <=> Paying(d, p)
  BY <1>1 DEF Paying
<1>4. OnePayer'
  BY <1>3 DEF OnePayer, PlacementInv
<1>. QED
  BY <1>2, <1>4 DEF PlacementInv

(* A step of one call that leaves the rows and Stripe as they are.         *)
LEMMA PPlain ==
  ASSUME PlacementInv, NEW c \in Calls, NEW slot, P!Set(c, slot), SlotOK(slot),
         slot.at # "pay.stripe", SlotKnows(checkoutCall[c])',
         UNCHANGED <<clock, placement, mirror, checkoutPi, checkoutEvents, checkoutProcessed>>,
         \A p \in checkoutSaved' : p \in checkoutSaved \/ (p \in P!Placements /\ P!HasRow(p)),
         checkoutMissed \subseteq checkoutMissed', checkoutMissed' \subseteq P!Placements,
         handSet \subseteq handSet', handSet' \subseteq P!Placements,
         reset' = reset, overlapped' \in BOOLEAN, checkoutFailures' \in 0 .. MaxFailures
  PROVE  PlacementInv'
<1>1. /\ checkoutCall'[c] = slot /\ DOMAIN checkoutCall' = Calls
      /\ \A d \in Calls \ {c} : checkoutCall'[d] = checkoutCall[d]
  BY DEF P!Set, PlacementInv, PlacementTypes
<1>2. PlacementTypes'
  BY <1>1 DEF PlacementInv, PlacementTypes
<1>3. PKept
  BY DEF PKept, Good, Paid
<1>4. ASSUME NEW p \in P!Placements
      PROVE  RowSound(p)'
  BY PRowParts DEF PlacementInv, RowSound, Good, Paid, P!HasRow
<1>5. \A p \in P!Placements : ~ Paying(c, p)'
  BY <1>1 DEF Paying
<1>. QED
  BY <1>2, <1>3, <1>4, <1>5, PMoved

-----------------------------------------------------------------------------
(* The mirror that a transaction computes.                                 *)

LEMMA MaxExists ==
  ASSUME NEW S \in SUBSET Nat, S # {}, NEW bound \in Nat, \A x \in S : x <= bound
  PROVE  P!Max(S) \in S /\ \A y \in S : P!Max(S) >= y
<1> DEFINE T == {n \in Nat : n <= bound /\ bound - n \in S}
<1>1. T # {}
  <2>1. PICK x \in S : TRUE
    OBVIOUS
  <2>2. bound - x \in Nat /\ bound - (bound - x) = x /\ bound - x <= bound
    BY <2>1
  <2>. QED
    BY <2>1, <2>2
<1>2. PICK n \in T : \A k \in T : ~ (<<k, n>> \in OpToRel(<, Nat))
  BY <1>1, WFMin, NatLessThanWellFounded
<1>3. \A k \in T : ~ (k < n)
  BY <1>2 DEF OpToRel
<1>4. ASSUME NEW y \in S
      PROVE  bound - n >= y
  <2>1. bound - y \in T
    BY <1>4
  <2>. QED
    BY <1>3, <1>4, <2>1
<1>5. \E x \in S : \A y \in S : x >= y
  BY <1>2, <1>4
<1>. QED
  BY <1>5 DEF P!Max

Row(x) == x \in P!Rows \cup {P!NoRow, P!Deleted}

LEMMA LatestIsMirrored ==
  ASSUME PlacementInv, NEW f, \A p \in P!Placements : Row(f[p])
  PROVE  /\ P!LatestEnd(f, P!Boosting(f)) \in 0 .. MaxTime
         /\ Mirrors(f, P!LatestEnd(f, P!Boosting(f)))
<1> DEFINE ends == {f[p].endsAt : p \in P!Boosting(f)}
<1>1. clock \in 1 .. MaxTime /\ MaxTime \in Nat
  BY MaxTimeAssumption DEF PlacementInv, PlacementTypes, P!Days
<1>2. \A p \in P!Boosting(f) : p \in P!Placements /\ Boosts(f, p)
  BY DEF P!Boosting, Boosts
<1>3. \A p \in P!Placements : Boosts(f, p) =>
        p \in P!Boosting(f) /\ f[p].endsAt \in 1 .. MaxTime
  <2>. SUFFICES ASSUME NEW p \in P!Placements, Boosts(f, p)
                PROVE  p \in P!Boosting(f) /\ f[p].endsAt \in 1 .. MaxTime
    OBVIOUS
  <2>1. f[p] \in P!Rows
    BY PRowParts DEF Row, Boosts
  <2>. QED
    BY <2>1, PRowParts DEF P!Boosting, Boosts, P!Days
<1>4. CASE P!Boosting(f) = {}
  BY <1>1, <1>3, <1>4 DEF P!LatestEnd, Mirrors
<1>5. CASE P!Boosting(f) # {}
  <2>1. ends \in SUBSET Nat /\ ends # {} /\ \A x \in ends : x <= MaxTime
    BY <1>1, <1>2, <1>3, <1>5
  <2>2. P!Max(ends) \in ends /\ \A y \in ends : P!Max(ends) >= y
    BY <1>1, <2>1, MaxExists
  <2>3. P!LatestEnd(f, P!Boosting(f)) = P!Max(ends)
    BY <1>5 DEF P!LatestEnd
  <2>4. PICK p \in P!Boosting(f) : f[p].endsAt = P!Max(ends)
    BY <2>2
  <2>5. \A q \in P!Placements : Boosts(f, q) => P!Max(ends) >= f[q].endsAt
    BY <1>3, <2>2
  <2>6. p \in P!Placements /\ Boosts(f, p)
    BY <1>2
  <2>7. P!Max(ends) \in 0 .. MaxTime
    BY <1>1, <1>3, <2>4, <2>6
  <2> HIDE DEF ends
  <2>8. Mirrors(f, P!Max(ends))
    BY <2>4, <2>5, <2>6 DEF Mirrors
  <2>. QED
    BY <2>3, <2>7, <2>8
<1>. QED
  BY <1>4, <1>5

(* What the public lists read of a mirror that mirrors.                    *)
LEMMA MirrorsExactly ==
  ASSUME PlacementInv, Mirrors(placement, mirror)
  PROVE  P!Effective(mirror) = P!LatestEnd(placement, P!Boosting(placement))
<1> DEFINE top == P!LatestEnd(placement, P!Boosting(placement))
<1>1. \A p \in P!Placements : Row(placement[p])
  BY DEF PlacementInv, PlacementTypes, Row
<1>2. top \in 0 .. MaxTime /\ Mirrors(placement, top)
  BY <1>1, LatestIsMirrored
<1>3. clock \in 1 .. MaxTime /\ mirror \in 0 .. MaxTime /\ MaxTime \in Nat
  BY MaxTimeAssumption DEF PlacementInv, PlacementTypes, P!Days
<1>4. top < clock => top = 0
  <2>1. CASE P!Boosting(placement) = {}
    BY <2>1 DEF P!LatestEnd
  <2>2. CASE P!Boosting(placement) # {}
    <3>1. PICK p \in P!Placements : Boosts(placement, p)
      BY <2>2 DEF P!Boosting, Boosts
    <3>2. placement[p] \in P!Rows
      BY <1>1, <3>1, PRowParts DEF Row, Boosts
    <3>3. placement[p].endsAt \in 1 .. MaxTime
      BY <3>2, PRowParts DEF P!Days
    <3>. QED
      BY <1>2, <1>3, <3>1, <3>3 DEF Mirrors, Boosts
  <2>. QED
    BY <2>1, <2>2
<1>5. \A p \in P!Placements : Boosts(placement, p) => placement[p].endsAt \in 1 .. MaxTime
  BY <1>1, PRowParts DEF Row, Boosts, P!Days
<1>6. mirror >= clock => mirror = top
  BY <1>2, <1>3, <1>5 DEF Mirrors, Boosts
<1>7. top >= clock => mirror >= clock
  BY <1>2, <1>3, <1>5 DEF Mirrors, Boosts
<1>. QED
  BY <1>2, <1>3, <1>4, <1>6, <1>7 DEF P!Effective

-----------------------------------------------------------------------------
(* The steps of calls                                                      *)

LEMMA PSet ==
  ASSUME PlacementInv, NEW c \in Calls, NEW slot, P!Set(c, slot)
  PROVE  /\ checkoutCall'[c] = slot /\ DOMAIN checkoutCall' = Calls
         /\ \A d \in Calls \ {c} : checkoutCall'[d] = checkoutCall[d]
  BY DEF P!Set, PlacementInv, PlacementTypes

LEMMA PGoto ==
  ASSUME PlacementInv, NEW c \in Calls, checkoutCall[c].at \in PayLabels,
         NEW at \in PayLabels, P!Goto(c, at)
  PROVE  \E slot : /\ P!Set(c, slot) /\ SlotOK(slot)
                   /\ slot.at = at /\ slot.p = checkoutCall[c].p
<1> DEFINE slot == [checkoutCall[c] EXCEPT !.at = at]
<1>1. SlotOK(checkoutCall[c])
  BY DEF PlacementInv, PlacementTypes
<1>2. checkoutCall[c] \in P!Slots
  BY <1>1 DEF SlotOK, P!Idle, PayLabels
<1>3. checkoutCall[c] \in [at : {"pay.stripe", "pay.refused", "pay.save.waiting",
                                 "pay.save.succeeded", "remove"}, p : P!Placements]
  BY <1>2 DEF P!Slots, PayLabels
<1>4. /\ slot \in [at : {"pay.stripe", "pay.refused", "pay.save.waiting",
                         "pay.save.succeeded", "remove"}, p : P!Placements]
      /\ slot.at = at /\ slot.p = checkoutCall[c].p
  BY <1>3 DEF PayLabels
<1>5. slot \in P!Slots /\ slot.at # "refresh"
  BY <1>4 DEF P!Slots, PayLabels
<1>6. P!Set(c, slot)
  BY DEF P!Goto, P!Set
<1>. QED
  BY <1>4, <1>5, <1>6 DEF SlotOK

LEMMA PIdle == SlotOK(P!Idle) /\ P!Idle.at = "idle"
  BY DEF P!Idle, SlotOK

(* The end of a request or of the work of a delivery.                      *)
LEMMA PHandled ==
  ASSUME PlacementInv, NEW c \in Calls, NEW ev \in P!Carried, P!Handled(c, ev)
  PROVE  \E slot : /\ P!Set(c, slot) /\ SlotOK(slot)
                   /\ \/ slot = P!Idle
                      \/ slot.at = "hook.done" /\ slot.ev = ev
<1>1. [at |-> "hook.done", ev |-> ev] \in P!Slots
  BY DEF P!Slots
<1>. QED
  BY <1>1, PIdle DEF P!Handled, P!Return, SlotOK

(* A transaction that writes and computes the mirror.                      *)
LEMMA PRefresh ==
  ASSUME PlacementInv, NEW c \in Calls, NEW ev \in P!Carried,
         NEW writes, DOMAIN writes \subseteq P!Placements,
         writes \in [DOMAIN writes -> P!Rows \cup {P!Deleted}], P!Refresh(c, ev, writes)
  PROVE  \E slot : /\ P!Set(c, slot) /\ SlotOK(slot)
                   /\ slot.at = "refresh" /\ slot.ev = ev /\ slot.writes = writes
                   /\ Mirrors(P!Updated(writes), slot.top)
<1> DEFINE after == P!Updated(writes)
           top  == P!LatestEnd(after, P!Boosting(after))
           slot == [at |-> "refresh", ev |-> ev, writes |-> writes, top |-> top]
<1>1. \A p \in P!Placements : Row(after[p])
  BY DEF P!Updated, Row, PlacementInv, PlacementTypes
<1> HIDE DEF after
<1>2. top \in 0 .. MaxTime /\ Mirrors(after, top)
  BY <1>1, LatestIsMirrored
<1> HIDE DEF top
<1>3. slot \in P!Refreshes(DOMAIN writes) /\ slot.at = "refresh"
  BY <1>2 DEF P!Refreshes
<1>4. SlotOK(slot)
  BY <1>3 DEF SlotOK
<1>5. P!Set(c, slot)
  BY DEF P!Refresh, after, top
<1>6. slot.ev = ev /\ slot.writes = writes /\ slot.top = top
  OBVIOUS
<1>. QED
  BY <1>2, <1>3, <1>4, <1>5, <1>6 DEF after

(* The steps that write no row: requests, sweeps and transactions begin,   *)
(* stop or return.                                                         *)
PReads(c) ==
  \/ \E p \in P!Placements, new \in P!Rows : P!AdminUpdateRead(c, p, new)
  \/ \E p \in P!Placements : P!AdminDeleteRead(c, p)
  \/ P!SweepRead(c) \/ P!CallFails(c) \/ P!Missing(c)

LEMMA PReadSteps ==
  ASSUME PlacementInv, NEW c \in Calls, PReads(c)
  PROVE  PlacementInv' /\ checkoutCall'[c].at # "refresh"
<1>0. /\ checkoutMissed \subseteq P!Placements /\ handSet \subseteq P!Placements
      /\ overlapped \in BOOLEAN /\ checkoutFailures \in 0 .. MaxFailures
  BY DEF PlacementInv, PlacementTypes
<1>1. ASSUME NEW p \in P!Placements, NEW new \in P!Rows, P!AdminUpdateRead(c, p, new)
      PROVE  PlacementInv' /\ checkoutCall'[c].at # "refresh"
  <2> DEFINE slot == [at |-> "edit", p |-> p, new |-> new]
  <2>1. SlotOK(slot) /\ slot.at = "edit"
    BY DEF P!Slots, SlotOK
  <2>2. P!Set(c, slot) /\ checkoutCall'[c] = slot
    BY <1>1, PSet DEF P!AdminUpdateRead
  <2>3. SlotKnows(checkoutCall[c])'
    BY <2>1, <2>2 DEF SlotKnows
  <2> HIDE DEF slot
  <2>. QED
    BY <1>0, <1>1, <2>1, <2>2, <2>3, PPlain DEF P!AdminUpdateRead, P!rows, P!stripeVars, P!ghosts
<1>2. ASSUME NEW p \in P!Placements, P!AdminDeleteRead(c, p)
      PROVE  PlacementInv' /\ checkoutCall'[c].at # "refresh"
  <2> DEFINE slot == [at |-> "remove", p |-> p]
  <2>1. SlotOK(slot) /\ slot.at = "remove"
    BY DEF P!Slots, SlotOK
  <2>2. P!Set(c, slot) /\ checkoutCall'[c] = slot
    BY <1>2, PSet DEF P!AdminDeleteRead
  <2>3. SlotKnows(checkoutCall[c])'
    BY <2>1, <2>2 DEF SlotKnows
  <2> HIDE DEF slot
  <2>. QED
    BY <1>0, <1>2, <2>1, <2>2, <2>3, PPlain DEF P!AdminDeleteRead, P!rows, P!stripeVars, P!ghosts
<1>3. CASE P!SweepRead(c)
  <2> DEFINE due == {p \in P!Placements : placement[p].status = "ACTIVE"
                                            /\ placement[p].endsAt < clock}
             slot == [at |-> "sweep", due |-> due]
  <2>1. SlotOK(slot) /\ slot.at = "sweep"
    BY DEF P!Slots, SlotOK
  <2>2. P!Set(c, slot) /\ checkoutCall'[c] = slot
    BY <1>3, PSet DEF P!SweepRead
  <2>3. SlotKnows(checkoutCall[c])'
    BY <2>1, <2>2 DEF SlotKnows
  <2> HIDE DEF slot
  <2>. QED
    BY <1>0, <1>3, <2>1, <2>2, <2>3, PPlain DEF P!SweepRead, P!rows, P!stripeVars, P!ghosts
<1>4. CASE P!CallFails(c) \/ P!Missing(c)
  <2>1. P!Set(c, P!Idle) /\ checkoutCall'[c] = P!Idle
    BY <1>4, PSet DEF P!CallFails, P!Missing, P!Return
  <2>2. SlotKnows(checkoutCall[c])'
    BY <2>1, PIdle DEF SlotKnows
  <2>3. checkoutFailures' \in 0 .. MaxFailures
    BY <1>0, <1>4, MaxFailuresAssumption DEF P!CallFails, P!Missing
  <2>. QED
    BY <1>0, <1>4, <2>1, <2>2, <2>3, PIdle, PPlain
       DEF P!CallFails, P!Missing, P!rows, P!stripeVars, P!ghosts
<1>. QED
  BY <1>1, <1>2, <1>3, <1>4 DEF PReads

(* What every transaction that computes the mirror leaves.                 *)
RefreshStarted(c) ==
  /\ checkoutCall'[c].at = "refresh"
  /\ overlapped' = (overlapped \/ P!Refreshing # {})
  /\ Mirrors(P!Updated(checkoutCall'[c].writes), checkoutCall'[c].top)
  /\ \A d \in Calls \ {c} : checkoutCall'[d] = checkoutCall[d]
  /\ UNCHANGED <<clock, placement, mirror, reset>>

LEMMA RefreshStep ==
  ASSUME PlacementInv, NEW c \in Calls, NEW ev \in P!Carried,
         NEW writes, DOMAIN writes \subseteq P!Placements,
         writes \in [DOMAIN writes -> P!Rows \cup {P!Deleted}], P!Refresh(c, ev, writes),
         ev \subseteq checkoutEvents,
         \A e \in ev : e[2] = "succeeded" => e[1] \in DOMAIN writes,
         \A p \in DOMAIN writes : Written(p, writes[p])',
         UNCHANGED <<clock, placement, mirror, checkoutSaved, checkoutPi, checkoutEvents,
                     checkoutProcessed, checkoutMissed, reset, checkoutFailures>>,
         handSet \subseteq handSet', handSet' \subseteq P!Placements
  PROVE  PlacementInv' /\ RefreshStarted(c)
<1>1. PICK slot : /\ P!Set(c, slot) /\ SlotOK(slot)
                  /\ slot.at = "refresh" /\ slot.ev = ev /\ slot.writes = writes
                  /\ Mirrors(P!Updated(writes), slot.top)
  BY PRefresh
<1>2. /\ checkoutCall'[c] = slot
      /\ \A d \in Calls \ {c} : checkoutCall'[d] = checkoutCall[d]
  BY <1>1, PSet
<1>3. overlapped' = (overlapped \/ P!Refreshing # {})
  BY DEF P!Refresh
<1>4. SlotKnows(checkoutCall[c])'
  BY <1>1, <1>2 DEF SlotKnows
<1>5. /\ overlapped' \in BOOLEAN /\ checkoutFailures' \in 0 .. MaxFailures
      /\ checkoutMissed \subseteq P!Placements
  BY <1>3 DEF PlacementInv, PlacementTypes
<1>6. PlacementInv'
  BY <1>1, <1>4, <1>5, PPlain
<1>. QED
  BY <1>1, <1>2, <1>3, <1>6 DEF RefreshStarted

LEMMA RefreshSteps ==
  ASSUME PlacementInv, NEW c \in Calls,
         \/ \E p \in Grants, day \in P!Days : P!AdminCreate(c, p, day)
         \/ P!AdminUpdateTx(c) \/ P!AdminDeleteTx(c) \/ P!Activate(c) \/ P!SweepTx(c)
  PROVE  PlacementInv' /\ RefreshStarted(c)
<1>0. /\ SlotOK(checkoutCall[c]) /\ SlotKnows(checkoutCall[c])
      /\ {} \in P!Carried /\ handSet \subseteq P!Placements
  BY PEventParts DEF PlacementInv, PlacementTypes
<1>1. ASSUME NEW p \in Grants, NEW day \in P!Days, P!AdminCreate(c, p, day)
      PROVE  PlacementInv' /\ RefreshStarted(c)
  <2> DEFINE row == [status |-> "ACTIVE", source |-> "ADMIN", endsAt |-> day]
             writes == [q \in {p} |-> row]
  <2>1. row \in P!Rows /\ p \in P!Placements
    BY DEF P!Rows, P!Statuses, P!Placements
  <2>2. DOMAIN writes = {p} /\ writes \in [{p} -> P!Rows \cup {P!Deleted}]
    BY <2>1
  <2>3. P!Refresh(c, {}, writes) /\ handSet' = handSet \cup {p}
    BY <1>1 DEF P!AdminCreate
  <2>4. \A q \in DOMAIN writes : Written(q, writes[q])'
    BY <2>2, <2>3 DEF Written
  <2> HIDE DEF writes
  <2>. QED
    BY <1>0, <1>1, <2>1, <2>2, <2>3, <2>4, RefreshStep
       DEF P!AdminCreate, P!rows, P!stripeVars
<1>2. CASE P!AdminUpdateTx(c)
  <2> DEFINE p == checkoutCall[c].p
  <2>0. PICK writes : writes = [q \in {p} |-> checkoutCall[c].new]
    OBVIOUS
  <2>1. p \in P!Placements /\ checkoutCall[c].new \in P!Rows
    BY <1>0, <1>2, PSlotParts DEF P!AdminUpdateTx
  <2>2. DOMAIN writes = {p} /\ writes \in [{p} -> P!Rows \cup {P!Deleted}]
    BY <2>0, <2>1
  <2>3. P!Refresh(c, {}, writes) /\ handSet' = handSet \cup {p}
    BY <1>2, <2>0 DEF P!AdminUpdateTx
  <2>4. \A q \in DOMAIN writes : Written(q, writes[q])'
    BY <2>2, <2>3 DEF Written
  <2>. QED
    BY <1>0, <1>2, <2>1, <2>2, <2>3, <2>4, RefreshStep
       DEF P!AdminUpdateTx, P!rows, P!stripeVars
<1>3. CASE P!AdminDeleteTx(c)
  <2> DEFINE p == checkoutCall[c].p
  <2>0. PICK writes : writes = [q \in {p} |-> P!Deleted]
    OBVIOUS
  <2>1. p \in P!Placements
    BY <1>0, <1>3, PSlotParts DEF P!AdminDeleteTx
  <2>2. DOMAIN writes = {p} /\ writes \in [{p} -> P!Rows \cup {P!Deleted}]
    BY <2>0, <2>1
  <2>3. P!Refresh(c, {}, writes)
    BY <1>3, <2>0 DEF P!AdminDeleteTx
  <2>4. \A q \in DOMAIN writes : writes[q] = P!Deleted
    BY <2>0
  <2>5. \A q \in DOMAIN writes : Written(q, writes[q])'
    BY <2>4 DEF Written, P!Deleted, P!NoRow
  <2>. QED
    BY <1>0, <1>3, <2>1, <2>2, <2>3, <2>5, RefreshStep
       DEF P!AdminDeleteTx, P!rows, P!stripeVars
<1>4. CASE P!Activate(c)
  <2> DEFINE p == checkoutCall[c].p
  <2>0. PICK row : row = [placement[p] EXCEPT !.status = "ACTIVE"]
    OBVIOUS
  <2>1. PICK writes : writes = [q \in {p} |-> row]
    OBVIOUS
  <2>2. p \in P!Placements /\ checkoutCall[c].ev \in P!Carried
    BY <1>0, <1>4, PSlotParts DEF P!Activate
  <2>3. placement[p] \in P!Rows
    BY <1>4, <2>2, PHas DEF P!Activate, P!Claimable, P!Statuses
  <2>4. row \in P!Rows /\ row.status = "ACTIVE"
    BY <2>0, <2>3, PRowParts DEF P!Statuses
  <2>5. DOMAIN writes = {p} /\ writes \in [{p} -> P!Rows \cup {P!Deleted}]
        /\ \A q \in {p} : writes[q] = row
    BY <2>4, <2>1
  <2>6. P!Refresh(c, checkoutCall[c].ev, writes)
    BY <1>4, <2>0, <2>1 DEF P!Activate
  <2>7. Paid(p) /\ checkoutCall[c].ev \subseteq {<<p, "succeeded">>}
        /\ checkoutCall[c].ev \subseteq checkoutEvents
    BY <1>0, <1>4 DEF P!Activate, SlotKnows
  <2>8. \A q \in DOMAIN writes : Written(q, writes[q])'
    BY <1>4, <2>4, <2>5, <2>7 DEF Written, Paid, P!Activate, P!stripeVars
  <2>9. \A e \in checkoutCall[c].ev : e[1] \in DOMAIN writes
    BY <2>5, <2>7
  <2>. QED
    BY <1>0, <1>4, <2>2, <2>5, <2>6, <2>7, <2>8, <2>9, RefreshStep
       DEF P!Activate, P!rows, P!stripeVars
<1>5. CASE P!SweepTx(c)
  <2> DEFINE due == {p \in checkoutCall[c].due : P!HasRow(p)}
  <2>0. PICK writes : writes = [p \in due |-> [placement[p] EXCEPT !.status = "EXPIRED"]]
    OBVIOUS
  <2>1. due \subseteq P!Placements
    BY <1>0, <1>5, PSlotParts DEF P!SweepTx
  <2>2. \A p \in due : placement[p] \in P!Rows
    BY <2>1, PHas
  <2>3. \A p \in due : /\ [placement[p] EXCEPT !.status = "EXPIRED"] \in P!Rows
                       /\ [placement[p] EXCEPT !.status = "EXPIRED"].status = "EXPIRED"
    BY <2>2, PRowParts DEF P!Statuses
  <2>4. DOMAIN writes = due /\ writes \in [due -> P!Rows \cup {P!Deleted}]
    BY <2>0, <2>3
  <2>5. P!Refresh(c, {}, writes)
    BY <1>5, <2>0 DEF P!SweepTx
  <2>6. \A q \in DOMAIN writes : writes[q].status = "EXPIRED"
    BY <2>0, <2>3
  <2>7. \A q \in DOMAIN writes : Written(q, writes[q])'
    BY <2>6 DEF Written
  <2> HIDE DEF due
  <2>. QED
    BY <1>0, <1>5, <2>1, <2>4, <2>5, <2>7, RefreshStep DEF P!SweepTx, P!rows, P!stripeVars
<1>. QED
  BY <1>1, <1>2, <1>3, <1>4, <1>5

(* The steps of a checkout and of a delivery that write no placement.      *)
LEMMA PayPlainSteps ==
  ASSUME PlacementInv, NEW c \in Calls,
         \/ P!CheckoutRefused(c) \/ P!CheckoutSave(c) \/ P!CheckoutNoSecret(c)
         \/ P!NotClaimed(c)
  PROVE  PlacementInv' /\ checkoutCall'[c].at # "refresh"
<1> DEFINE p == checkoutCall[c].p
<1>0. /\ SlotOK(checkoutCall[c]) /\ SlotKnows(checkoutCall[c])
      /\ checkoutMissed \subseteq P!Placements /\ handSet \subseteq P!Placements
      /\ overlapped \in BOOLEAN /\ checkoutFailures \in 0 .. MaxFailures
      /\ {} \in P!Carried
  BY PEventParts DEF PlacementInv, PlacementTypes
<1>1. CASE P!CheckoutRefused(c)
  <2>1. PICK slot : P!Set(c, slot) /\ SlotOK(slot) /\ slot.at = "pay.refused" /\ slot.p = p
    BY <1>1, PGoto DEF P!CheckoutRefused, PayLabels
  <2>2. SlotKnows(checkoutCall[c])' /\ checkoutCall'[c].at # "refresh"
    BY <2>1, PSet DEF SlotKnows
  <2>. QED
    BY <1>0, <1>1, <2>1, <2>2, PPlain DEF P!CheckoutRefused, P!rows, P!stripeVars, P!ghosts
<1>2. ASSUME P!CheckoutSave(c) \/ P!CheckoutNoSecret(c)
      PROVE  p \in P!Placements /\ P!HasRow(p) /\ checkoutSaved' = checkoutSaved \cup {p}
  BY <1>0, <1>2, PSlotParts DEF P!CheckoutSave, P!CheckoutNoSecret, PayLabels
<1>3. CASE P!CheckoutNoSecret(c)
  <2>1. PICK slot : P!Set(c, slot) /\ SlotOK(slot) /\ slot.at = "pay.refused" /\ slot.p = p
    BY <1>3, PGoto DEF P!CheckoutNoSecret, PayLabels
  <2>2. SlotKnows(checkoutCall[c])' /\ checkoutCall'[c].at # "refresh"
    BY <2>1, PSet DEF SlotKnows
  <2>. QED
    BY <1>0, <1>2, <1>3, <2>1, <2>2, PPlain DEF P!CheckoutNoSecret, P!rows, P!stripeVars, P!ghosts
<1>4. CASE P!CheckoutSave(c) /\ checkoutCall[c].at = "pay.save.succeeded"
  <2> DEFINE slot == [at |-> "activate", p |-> p, ev |-> {}]
  <2>1. slot.at = "activate" /\ slot.p = p /\ slot.ev = {} /\ SlotOK(slot)
    BY <1>0, <1>2, <1>4 DEF P!Slots, SlotOK
  <2>2. P!Set(c, slot) /\ checkoutCall'[c] = slot
    BY <1>4, PSet DEF P!CheckoutSave
  <2> HIDE DEF slot
  <2>3. Paid(p) /\ placement[p] # P!NoRow
    BY <1>0, <1>2, <1>4 DEF SlotKnows, P!HasRow
  <2>4. SlotKnows(checkoutCall[c])'
    BY <1>4, <2>1, <2>2, <2>3 DEF SlotKnows, Paid, P!CheckoutSave, P!rows, P!stripeVars
  <2>. QED
    BY <1>0, <1>2, <1>4, <2>1, <2>2, <2>4, PPlain
       DEF P!CheckoutSave, P!rows, P!stripeVars, P!ghosts
<1>5. CASE P!CheckoutSave(c) /\ checkoutCall[c].at # "pay.save.succeeded"
  <2>1. P!Set(c, P!Idle) /\ checkoutCall'[c] = P!Idle
    BY <1>5, PSet DEF P!CheckoutSave, P!Return
  <2>2. SlotKnows(checkoutCall[c])'
    BY <2>1, PIdle DEF SlotKnows
  <2>. QED
    BY <1>0, <1>2, <1>5, <2>1, <2>2, PIdle, PPlain
       DEF P!CheckoutSave, P!rows, P!stripeVars, P!ghosts
<1>6. CASE P!NotClaimed(c)
  <2>1. p \in P!Placements /\ checkoutCall[c].ev \in P!Carried
    BY <1>0, <1>6, PSlotParts DEF P!NotClaimed
  <2>2. PICK slot : /\ P!Set(c, slot) /\ SlotOK(slot)
                    /\ \/ slot = P!Idle
                       \/ slot.at = "hook.done" /\ slot.ev = checkoutCall[c].ev
    BY <1>6, <2>1, PHandled DEF P!NotClaimed
  <2>3. Good(p)
    <3>1. placement[p] # P!NoRow /\ placement[p].status \notin {"DRAFT", "PENDING_PAYMENT"}
      BY <1>0, <1>6 DEF P!NotClaimed, SlotKnows, P!Claimable
    <3>2. RowSound(p)
      BY <2>1 DEF PlacementInv
    <3>. QED
      BY <3>1, <3>2 DEF RowSound, Good, P!HasRow
  <2>4. /\ checkoutCall[c].ev \subseteq {<<p, "succeeded">>}
        /\ checkoutCall[c].ev \subseteq checkoutEvents
    BY <1>0, <1>6 DEF P!NotClaimed, SlotKnows
  <2>5. SlotKnows(checkoutCall[c])' /\ checkoutCall'[c].at # "refresh"
    BY <1>6, <2>2, <2>3, <2>4, PSet, PIdle
       DEF SlotKnows, Good, P!NotClaimed, P!rows, P!stripeVars, P!ghosts
  <2>6. slot.at # "pay.stripe"
    BY <2>2, PIdle
  <2>. QED
    BY <1>0, <1>6, <2>2, <2>5, <2>6, PPlain DEF P!NotClaimed, P!rows, P!stripeVars, P!ghosts
<1>. QED
  BY <1>1, <1>3, <1>4, <1>5, <1>6

LEMMA HookReadKnows ==
  ASSUME PlacementInv, NEW c \in Calls, NEW e \in checkoutEvents, P!HookRead(c, e)
  PROVE  PlacementInv' /\ checkoutCall'[c].at # "refresh"
<1> DEFINE p == e[1]
<1>0. /\ checkoutMissed \subseteq P!Placements /\ handSet \subseteq P!Placements
      /\ overlapped \in BOOLEAN /\ checkoutFailures \in 0 .. MaxFailures
      /\ e \in P!Events
  BY DEF PlacementInv, PlacementTypes
<1>1. /\ e = <<p, e[2]>> /\ p \in P!Placements /\ {e} \in P!Carried
  BY <1>0, PEventParts
<1>2. RowSound(p)
  BY <1>1 DEF PlacementInv
<1>3. /\ checkoutMissed \subseteq checkoutMissed' /\ checkoutMissed' \subseteq P!Placements
      /\ e[2] = "succeeded" /\ p \notin checkoutSaved => p \in checkoutMissed'
  BY <1>0, <1>1 DEF P!HookRead
<1> DEFINE found == p \in checkoutSaved /\ P!HasRow(p)
           knows(at) == \/ /\ at = "activate" /\ e[2] = "succeeded" /\ found
                        \/ at = "reset" /\ e[2] # "succeeded"
<1>4. \/ P!Set(c, [at |-> "hook.done", ev |-> {e}])
         /\ (e[2] = "succeeded" => ~ found \/ placement[p].status = "ACTIVE")
      \/ \E at \in {"activate", "reset"} :
           knows(at) /\ P!Set(c, [at |-> at, p |-> p, ev |-> {e}])
  BY DEF P!HookRead
<1>5. UNCHANGED <<clock, placement, mirror, checkoutSaved, checkoutPi, checkoutEvents,
                  checkoutProcessed, handSet, reset, overlapped, checkoutFailures>>
  BY DEF P!HookRead, P!rows, P!stripeVars
<1>6. CASE P!Set(c, [at |-> "hook.done", ev |-> {e}])
           /\ (e[2] = "succeeded" => ~ found \/ placement[p].status = "ACTIVE")
  <2>1. PICK slot : slot = [at |-> "hook.done", ev |-> {e}]
    OBVIOUS
  <2>2. slot.at = "hook.done" /\ slot.ev = {e} /\ slot \in P!Slots
    BY <1>1, <2>1 DEF P!Slots
  <2>3. SlotOK(slot) /\ checkoutCall'[c] = slot /\ P!Set(c, slot)
    BY <1>6, <2>1, <2>2, PSet DEF SlotOK
  <2>4. e[2] = "succeeded" => Good(p)'
    <3>1. CASE p \notin checkoutSaved
      BY <1>3, <3>1 DEF Good
    <3>2. CASE p \in checkoutSaved
      <4>1. placement[p] # P!NoRow
        BY <1>2, <3>2 DEF RowSound
      <4>. QED
        BY <1>5, <1>6, <3>2, <4>1 DEF Good, P!HasRow
    <3>. QED
      BY <3>1, <3>2
  <2>5. SlotKnows(checkoutCall[c])'
    BY <1>5, <2>2, <2>3, <2>4 DEF SlotKnows
  <2>. QED
    BY <1>0, <1>3, <1>5, <2>2, <2>3, <2>5, PPlain
<1>7. ASSUME NEW at \in {"activate", "reset"}, knows(at),
             P!Set(c, [at |-> at, p |-> p, ev |-> {e}])
      PROVE  PlacementInv' /\ checkoutCall'[c].at # "refresh"
  <2>1. PICK slot : slot = [at |-> at, p |-> p, ev |-> {e}]
    OBVIOUS
  <2>2. slot.at = at /\ slot.p = p /\ slot.ev = {e} /\ slot \in P!Slots
    BY <1>1, <2>1 DEF P!Slots
  <2>3. SlotOK(slot) /\ checkoutCall'[c] = slot /\ P!Set(c, slot)
    BY <1>7, <2>1, <2>2, PSet DEF SlotOK
  <2>4. at = "activate" => Paid(p) /\ placement[p] # P!NoRow /\ e = <<p, "succeeded">>
    BY <1>1, <1>2, <1>7 DEF RowSound, P!HasRow
  <2>5. SlotKnows(checkoutCall[c])'
    BY <1>5, <1>7, <2>2, <2>3, <2>4 DEF SlotKnows, Paid
  <2>. QED
    BY <1>0, <1>3, <1>5, <2>2, <2>3, <2>5, PPlain
<1>. QED
  BY <1>4, <1>6, <1>7

LEMMA HookDoneStep ==
  ASSUME PlacementInv, NEW c \in Calls, P!HookDone(c)
  PROVE  PlacementInv' /\ checkoutCall'[c].at # "refresh"
<1>0. SlotOK(checkoutCall[c]) /\ SlotKnows(checkoutCall[c]) /\ checkoutCall[c].at = "hook.done"
  BY DEF PlacementInv, PlacementTypes, P!HookDone
<1>1. /\ UNCHANGED <<clock, placement, mirror, checkoutSaved, checkoutPi, checkoutEvents,
                     checkoutMissed, handSet, reset, overlapped, checkoutFailures>>
      /\ checkoutProcessed' = checkoutProcessed \cup checkoutCall[c].ev
  BY DEF P!HookDone, P!rows, P!stripeVars, P!ghosts
<1>2. P!Set(c, P!Idle)
  BY DEF P!HookDone, P!Return
<1>3. /\ checkoutCall'[c] = P!Idle /\ DOMAIN checkoutCall' = Calls
      /\ \A d \in Calls \ {c} : checkoutCall'[d] = checkoutCall[d]
  BY <1>2, PSet
<1>4. /\ checkoutCall[c].ev \subseteq checkoutEvents
      /\ \A e \in checkoutCall[c].ev : e[2] = "succeeded" => Good(e[1])
  BY <1>0 DEF SlotKnows
<1>5. PlacementTypes'
  <2>1. \A d \in Calls : SlotOK(checkoutCall'[d])
    BY <1>3, PIdle DEF PlacementInv, PlacementTypes
  <2>2. checkoutProcessed' \subseteq checkoutEvents
    BY <1>1, <1>4 DEF PlacementInv, PlacementTypes
  <2>. QED
    BY <1>1, <1>3, <2>1, <2>2 DEF PlacementInv, PlacementTypes
<1>6. PKept
  BY <1>1 DEF PKept, Good, Paid
<1>7. ASSUME NEW p \in P!Placements
      PROVE  RowSound(p)'
  <2>1. <<p, "succeeded">> \in checkoutProcessed' => Good(p)
    BY <1>1, <1>4 DEF PlacementInv, RowSound
  <2>. QED
    BY <1>1, <2>1 DEF PlacementInv, RowSound, Good, Paid, P!HasRow
<1>8. /\ SlotKnows(checkoutCall[c])' /\ checkoutCall'[c].at # "refresh"
      /\ \A p \in P!Placements : ~ Paying(c, p)'
  BY <1>3, PIdle DEF SlotKnows, Paying
<1>. QED
  BY <1>1, <1>2, <1>5, <1>6, <1>7, <1>8, PMoved

(* The row of a checkout that Stripe has not heard of.                     *)
LEMMA CheckoutStartStep ==
  ASSUME PlacementInv, NEW c \in Calls, NEW p \in Checkouts, NEW day \in P!Days,
         P!CheckoutStart(c, p, day)
  PROVE  /\ PlacementInv' /\ checkoutCall'[c].at # "refresh"
         /\ \A q \in P!Placements :
              \/ placement'[q] = placement[q]
              \/ placement'[q].status # "ACTIVE" /\ placement[q].status # "ACTIVE"
<1>1. PICK row : row = [status |-> "PENDING_PAYMENT", source |-> "SELF_PAID", endsAt |-> day]
  OBVIOUS
<1>2. row \in P!Rows /\ row.status = "PENDING_PAYMENT"
  BY <1>1 DEF P!Rows, P!Statuses
<1>3. PICK slot : slot = [at |-> "pay.stripe", p |-> p]
  OBVIOUS
<1>4. p \in P!Placements /\ slot.at = "pay.stripe" /\ slot.p = p
  BY <1>3, PEventParts
<1>5. SlotOK(slot)
  BY <1>3, <1>4 DEF P!Slots, SlotOK
<1>6. /\ placement[p] = P!NoRow /\ placement' = [placement EXCEPT ![p] = row] /\ P!Set(c, slot)
      /\ UNCHANGED <<clock, mirror, checkoutSaved, checkoutPi, checkoutEvents,
                     checkoutProcessed, checkoutMissed, handSet, reset, overlapped,
                     checkoutFailures>>
  BY <1>1, <1>3 DEF P!CheckoutStart, P!stripeVars, P!ghosts
<1>7. /\ checkoutCall'[c] = slot /\ DOMAIN checkoutCall' = Calls
      /\ \A d \in Calls \ {c} : checkoutCall'[d] = checkoutCall[d]
  BY <1>6, PSet
<1>8. placement'[p] = row /\ \A q \in P!Placements \ {p} : placement'[q] = placement[q]
  BY <1>4, <1>6 DEF PlacementInv, PlacementTypes
<1>9. PlacementTypes'
  BY <1>2, <1>4, <1>5, <1>6, <1>7 DEF PlacementInv, PlacementTypes
<1>10. ASSUME NEW q \in P!Placements
       PROVE  RowSound(q)' /\ (Good(q) => Good(q)')
  <2>1. CASE q = p
    <3>1. ~ Paid(p) /\ p \notin checkoutSaved /\ checkoutPi[p] = "absent"
      BY <1>4, <1>6 DEF PlacementInv, RowSound, Paid
    <3>2. Good(p) => Good(p)'
      BY <1>6, PRowParts DEF Good
    <3>3. <<p, "succeeded">> \notin checkoutEvents /\ <<p, "succeeded">> \notin checkoutProcessed
      BY <1>4, <3>1 DEF PlacementInv, PlacementTypes, RowSound
    <3>. QED
      BY <1>2, <1>6, <1>8, <2>1, <3>1, <3>2, <3>3, PRowParts DEF RowSound, Paid
  <2>2. CASE q # p
    BY <1>6, <1>8, <2>2 DEF PlacementInv, RowSound, Good, Paid, P!HasRow
  <2>. QED
    BY <2>1, <2>2
<1>11. PKept
  <2>1. \A q \in P!Placements : placement'[q] # P!NoRow \/ placement'[q] = placement[q]
    BY <1>2, <1>8, PRowParts
  <2>. QED
    BY <1>6, <1>10, <2>1 DEF PKept, Paid
<1>12. SlotKnows(checkoutCall[c])' /\ checkoutCall'[c].at # "refresh"
  <2>1. checkoutPi[p] = "absent" /\ placement'[p] # P!NoRow
    BY <1>2, <1>4, <1>6, <1>8, PRowParts DEF PlacementInv, RowSound
  <2>. QED
    BY <1>4, <1>6, <1>7, <2>1 DEF SlotKnows
<1>13. ASSUME NEW d \in Calls \ {c}, NEW q \in P!Placements, Paying(d, q)
       PROVE  ~ Paying(c, q)'
  <2>1. placement[q] # P!NoRow
    BY <1>13 DEF Paying, PlacementInv, SlotKnows
  <2>. QED
    BY <1>4, <1>6, <1>7, <2>1 DEF Paying
<1>14. PlacementInv'
  BY <1>6, <1>9, <1>10, <1>11, <1>12, <1>13, PMoved
<1>15. placement[p].status # "ACTIVE" /\ placement'[p].status # "ACTIVE"
  BY <1>2, <1>6, <1>8, PRowParts
<1>. QED
  BY <1>8, <1>12, <1>14, <1>15

(* Stripe's answer to a checkout.                                          *)
LEMMA StripeAnswers ==
  ASSUME PlacementInv, NEW c \in Calls, P!CheckoutCharged(c) \/ P!CheckoutWaits(c)
  PROVE  PlacementInv' /\ checkoutCall'[c].at # "refresh"
<1>0. SlotOK(checkoutCall[c]) /\ SlotKnows(checkoutCall[c]) /\ checkoutCall[c].at = "pay.stripe"
  BY DEF PlacementInv, PlacementTypes, P!CheckoutCharged, P!CheckoutWaits
<1>1. PICK p \in P!Placements : p = checkoutCall[c].p
  BY <1>0, PSlotParts DEF PayLabels
<1>2. p \in Checkouts /\ checkoutPi[p] = "absent" /\ placement[p] # P!NoRow
  BY <1>0, <1>1 DEF SlotKnows
<1>3. UNCHANGED <<clock, placement, mirror, checkoutSaved, checkoutProcessed, checkoutMissed,
                  handSet, reset, overlapped, checkoutFailures>>
  BY DEF P!CheckoutCharged, P!CheckoutWaits, P!rows, P!ghosts
<1>4. \/ /\ checkoutPi' = [checkoutPi EXCEPT ![p] = "succeeded"]
         /\ checkoutEvents' = checkoutEvents \cup {<<p, "succeeded">>}
         /\ P!Goto(c, "pay.save.succeeded")
      \/ /\ checkoutPi' = [checkoutPi EXCEPT ![p] = "waiting"]
         /\ checkoutEvents' = checkoutEvents
         /\ P!Goto(c, "pay.save.waiting")
  BY <1>1 DEF P!CheckoutCharged, P!CheckoutWaits, P!Pays
<1>5. PICK at \in {"pay.save.succeeded", "pay.save.waiting"} :
        P!Goto(c, at) /\ (at = "pay.save.succeeded" => checkoutPi'[p] = "succeeded")
  BY <1>4 DEF PlacementInv, PlacementTypes
<1>6. PICK slot : P!Set(c, slot) /\ SlotOK(slot) /\ slot.at = at /\ slot.p = p
  BY <1>0, <1>1, <1>5, PGoto DEF PayLabels
<1>7. /\ checkoutCall'[c] = slot /\ DOMAIN checkoutCall' = Calls
      /\ \A d \in Calls \ {c} : checkoutCall'[d] = checkoutCall[d]
  BY <1>6, PSet
<1>8. PlacementTypes'
  <2>1. PlacementTypes /\ <<p, "succeeded">> \in P!Events
    BY <1>2, PEventParts DEF PlacementInv
  <2>2. checkoutPi' \in [P!Placements -> {"absent", "waiting", "succeeded", "canceled"}]
    BY <1>4, <2>1 DEF PlacementTypes
  <2>3. checkoutEvents' \subseteq P!Events /\ checkoutProcessed \subseteq checkoutEvents'
    BY <1>4, <2>1 DEF PlacementTypes
  <2>4. \A d \in Calls : SlotOK(checkoutCall'[d])
    BY <1>6, <1>7, <2>1 DEF PlacementTypes
  <2>. QED
    BY <1>3, <1>7, <2>1, <2>2, <2>3, <2>4 DEF PlacementTypes
<1>9. \A q \in P!Placements \ {p} :
        /\ checkoutPi'[q] = checkoutPi[q]
        /\ <<q, "succeeded">> \in checkoutEvents' => <<q, "succeeded">> \in checkoutEvents
  BY <1>4 DEF PlacementInv, PlacementTypes
<1>10. PKept
  BY <1>2, <1>3, <1>4, <1>9 DEF PKept, Good, Paid
<1>11. ASSUME NEW q \in P!Placements
       PROVE  RowSound(q)'
  <2>1. <<q, "succeeded">> \in checkoutEvents' => Paid(q)'
    BY <1>2, <1>4, <1>9 DEF PlacementInv, PlacementTypes, RowSound, Paid
  <2>2. Paid(q) => Paid(q)'
    BY <1>10 DEF PKept
  <2>3. placement[q] = P!NoRow => checkoutPi'[q] = "absent"
    BY <1>2, <1>9 DEF PlacementInv, RowSound
  <2>. QED
    BY <1>3, <2>1, <2>2, <2>3 DEF PlacementInv, RowSound, Good, P!HasRow
<1>12. SlotKnows(checkoutCall[c])' /\ checkoutCall'[c].at # "refresh"
  BY <1>5, <1>6, <1>7 DEF SlotKnows, Paid
<1>13. \A d \in Calls \ {c}, q \in P!Placements :
         Paying(d, q) => checkoutPi'[q] = checkoutPi[q] /\ ~ Paying(c, q)'
  <2>1. Paying(c, p) /\ \A q \in P!Placements : ~ Paying(c, q)'
    BY <1>0, <1>1, <1>5, <1>6, <1>7 DEF Paying
  <2>. QED
    BY <1>9, <2>1 DEF PlacementInv, OnePayer
<1>. QED
  BY <1>6, <1>8, <1>10, <1>11, <1>12, <1>13, PMoved

(* Back to DRAFT: of a placement in force it is a reset.                   *)
LEMMA BackSteps ==
  ASSUME PlacementInv, NEW c \in Calls, P!CheckoutDraft(c) \/ P!Reset(c)
  PROVE  /\ PlacementInv' /\ checkoutCall'[c].at # "refresh"
         /\ reset' = {} => reset = {}
         /\ reset' = {} => \A q \in P!Placements :
              \/ placement'[q] = placement[q]
              \/ placement'[q].status # "ACTIVE" /\ placement[q].status # "ACTIVE"
<1>0. /\ SlotOK(checkoutCall[c]) /\ SlotKnows(checkoutCall[c])
      /\ checkoutCall[c].at \in {"pay.refused", "reset"}
  BY DEF PlacementInv, PlacementTypes, P!CheckoutDraft, P!Reset
<1>1. PICK p \in P!Placements : p = checkoutCall[c].p
  BY <1>0, PSlotParts DEF PayLabels
<1>2. P!HasRow(p) /\ p \notin P!Locked
  BY <1>1 DEF P!CheckoutDraft, P!Reset, P!BackToDraft
<1>3. PICK row \in P!Rows :
        row.status = "DRAFT" /\ placement' = [placement EXCEPT ![p] = row]
  <2>1. placement[p] \in P!Rows
    BY <1>2, PHas
  <2>2. /\ [placement[p] EXCEPT !.status = "DRAFT"] \in P!Rows
        /\ [placement[p] EXCEPT !.status = "DRAFT"].status = "DRAFT"
    BY <2>1, PRowParts DEF P!Statuses
  <2>3. placement' = [placement EXCEPT ![p] = [placement[p] EXCEPT !.status = "DRAFT"]]
    BY <1>1 DEF P!CheckoutDraft, P!Reset, P!BackToDraft
  <2>. QED
    BY <2>2, <2>3
<1>4. /\ placement'[p] = row /\ \A q \in P!Placements \ {p} : placement'[q] = placement[q]
      /\ placement' \in [P!Placements -> P!Rows \cup {P!NoRow, P!Deleted}]
  BY <1>3 DEF PlacementInv, PlacementTypes
<1>5. /\ reset' = reset \/ reset' = reset \cup {p}
      /\ ~ P!Claimable(p) => reset' = reset \cup {p}
  BY <1>1 DEF P!CheckoutDraft, P!Reset, P!BackToDraft
<1>6. UNCHANGED <<clock, mirror, checkoutSaved, checkoutPi, checkoutEvents, checkoutProcessed,
                  checkoutMissed, handSet, overlapped, checkoutFailures>>
  BY DEF P!CheckoutDraft, P!Reset, P!stripeVars
<1>7. PICK slot : /\ P!Set(c, slot) /\ SlotOK(slot)
                  /\ \/ slot = P!Idle
                     \/ /\ slot.at = "hook.done" /\ slot.ev \subseteq checkoutEvents
                        /\ \A e \in slot.ev : e[2] # "succeeded"
  <2>1. CASE P!CheckoutDraft(c)
    BY <2>1, PIdle DEF P!CheckoutDraft, P!Return
  <2>2. CASE P!Reset(c)
    <3>1. checkoutCall[c].at = "reset"
      BY <2>2 DEF P!Reset
    <3>2. checkoutCall[c].ev \in P!Carried
      BY <1>0, <3>1, PSlotParts
    <3>3. /\ checkoutCall[c].ev \subseteq checkoutEvents
          /\ \A e \in checkoutCall[c].ev : e[2] # "succeeded"
      BY <1>0, <3>1 DEF SlotKnows
    <3>. QED
      BY <2>2, <3>2, <3>3, PHandled DEF P!Reset
  <2>. QED
    BY <2>1, <2>2
<1>8. /\ checkoutCall'[c] = slot /\ DOMAIN checkoutCall' = Calls
      /\ \A d \in Calls \ {c} : checkoutCall'[d] = checkoutCall[d]
  BY <1>7, PSet
<1>9. PlacementTypes'
  BY <1>4, <1>5, <1>6, <1>7, <1>8 DEF PlacementInv, PlacementTypes
<1>10. Good(p) => Good(p)'
  BY <1>2, <1>5, <1>6, PRowParts DEF Good, P!Claimable, P!HasRow
<1>11. PKept
  <2>1. \A q \in P!Placements :
          placement[q] # P!NoRow => placement'[q] # P!NoRow
    BY <1>4, PRowParts
  <2>2. \A q \in P!Placements : Good(q) => Good(q)'
    BY <1>4, <1>5, <1>6, <1>10 DEF Good
  <2>. QED
    BY <1>6, <2>1, <2>2 DEF PKept, Paid
<1>12. ASSUME NEW q \in P!Placements
       PROVE  RowSound(q)'
  <2>1. CASE q = p
    BY <1>3, <1>4, <1>6, <1>10, <2>1, PRowParts
       DEF PlacementInv, RowSound, Paid, P!HasRow
  <2>2. CASE q # p
    <3>1. Good(q) => Good(q)'
      BY <1>11 DEF PKept
    <3>. QED
      BY <1>4, <1>6, <2>2, <3>1 DEF PlacementInv, RowSound, Paid, P!HasRow
  <2>. QED
    BY <2>1, <2>2
<1>13. /\ SlotKnows(checkoutCall[c])' /\ checkoutCall'[c].at # "refresh"
       /\ \A q \in P!Placements : ~ Paying(c, q)'
  BY <1>6, <1>7, <1>8, PIdle DEF SlotKnows, Paying
<1>14. PlacementInv'
  BY <1>6, <1>7, <1>9, <1>11, <1>12, <1>13, PMoved
<1>15. reset' = {} => placement[p].status # "ACTIVE" /\ placement'[p].status # "ACTIVE"
  BY <1>3, <1>4, <1>5 DEF P!Claimable
<1>. QED
  BY <1>2, <1>4, <1>5, <1>13, <1>14, <1>15

LEMMA RefreshCommitStep ==
  ASSUME PlacementInv, NEW c \in Calls, P!RefreshCommit(c)
  PROVE  PlacementInv' /\ checkoutCall'[c].at # "refresh"
<1>0. SlotOK(checkoutCall[c]) /\ SlotKnows(checkoutCall[c]) /\ checkoutCall[c].at = "refresh"
  BY DEF PlacementInv, PlacementTypes, P!RefreshCommit
<1>1. PICK writes, ev : writes = checkoutCall[c].writes /\ ev = checkoutCall[c].ev
  OBVIOUS
<1>2. /\ DOMAIN writes \subseteq P!Placements /\ ev \in P!Carried
      /\ \A p \in DOMAIN writes : writes[p] \in P!Rows \cup {P!Deleted}
      /\ checkoutCall[c].top \in 0 .. MaxTime
  BY <1>0, <1>1, PSlotParts
<1>3. /\ ev \subseteq checkoutEvents
      /\ \A e \in ev : e[2] = "succeeded" => e[1] \in DOMAIN writes
      /\ \A p \in DOMAIN writes : Written(p, writes[p])
  BY <1>0, <1>1 DEF SlotKnows
<1>4. /\ placement' = P!Updated(writes) /\ mirror' = checkoutCall[c].top
      /\ UNCHANGED <<clock, checkoutSaved, checkoutPi, checkoutEvents, checkoutProcessed,
                     checkoutMissed, handSet, reset, overlapped, checkoutFailures>>
  BY <1>1 DEF P!RefreshCommit, P!stripeVars, P!ghosts
<1>5. /\ \A p \in DOMAIN writes : placement'[p] = writes[p]
      /\ \A p \in P!Placements \ DOMAIN writes : placement'[p] = placement[p]
      /\ placement' \in [P!Placements -> P!Rows \cup {P!NoRow, P!Deleted}]
  BY <1>2, <1>4 DEF P!Updated, PlacementInv, PlacementTypes
<1>6. PICK slot : /\ P!Set(c, slot) /\ SlotOK(slot)
                  /\ slot = P!Idle \/ (slot.at = "hook.done" /\ slot.ev = ev)
  BY <1>1, <1>2, PHandled DEF P!RefreshCommit
<1>7. /\ checkoutCall'[c] = slot /\ DOMAIN checkoutCall' = Calls
      /\ \A d \in Calls \ {c} : checkoutCall'[d] = checkoutCall[d]
  BY <1>6, PSet
<1>8. PlacementTypes'
  BY <1>2, <1>4, <1>5, <1>6, <1>7 DEF PlacementInv, PlacementTypes
<1>9. \A p \in DOMAIN writes : Good(p)'
  BY <1>3, <1>4, <1>5 DEF Good, Written
<1>10. PKept
  <2>1. \A q \in P!Placements : Good(q) => Good(q)'
    BY <1>4, <1>5, <1>9 DEF Good
  <2>2. \A q \in P!Placements : placement[q] # P!NoRow => placement'[q] # P!NoRow
    BY <1>2, <1>5, PRowParts
  <2>. QED
    BY <1>4, <2>1, <2>2 DEF PKept, Paid
<1>11. ASSUME NEW q \in P!Placements
       PROVE  RowSound(q)'
  <2>1. CASE q \in DOMAIN writes
    <3>1. /\ placement'[q] = writes[q] /\ writes[q] # P!NoRow
          /\ Written(q, writes[q]) /\ Good(q)'
      BY <1>2, <1>3, <1>5, <1>9, <2>1, PRowParts
    <3>. QED
      BY <1>4, <3>1, PRowParts DEF PlacementInv, RowSound, Written, Paid, P!HasRow
  <2>2. CASE q \notin DOMAIN writes
    BY <1>4, <1>5, <2>2 DEF PlacementInv, RowSound, Good, Paid, P!HasRow
  <2>. QED
    BY <2>1, <2>2
<1>12. /\ SlotKnows(checkoutCall[c])' /\ checkoutCall'[c].at # "refresh"
       /\ \A q \in P!Placements : ~ Paying(c, q)'
  BY <1>3, <1>4, <1>6, <1>7, <1>9, PIdle DEF SlotKnows, Paying
<1>. QED
  BY <1>4, <1>6, <1>8, <1>10, <1>11, <1>12, PMoved

(* What Stripe and the clock do.                                           *)
LEMMA OutsideSteps ==
  ASSUME PlacementInv,
         \/ \E p \in Checkouts : P!PiSucceeds(p) \/ P!PiDeclined(p) \/ P!PiCanceled(p)
         \/ P!Tick
  PROVE  PlacementInv' /\ UNCHANGED <<placement, mirror, reset, overlapped, checkoutCall>>
<1>1. UNCHANGED <<placement, mirror, checkoutSaved, checkoutProcessed, checkoutMissed, handSet,
                  reset, overlapped, checkoutCall, checkoutFailures>>
  BY DEF P!PiSucceeds, P!PiDeclined, P!PiCanceled, P!Tick, P!rows, P!ghosts
<1>2. /\ checkoutPi' \in [P!Placements -> {"absent", "waiting", "succeeded", "canceled"}]
      /\ checkoutEvents \subseteq checkoutEvents' /\ checkoutEvents' \subseteq P!Events
      /\ clock' \in P!Days
  <2>1. ASSUME NEW p \in Checkouts, P!PiSucceeds(p) \/ P!PiDeclined(p) \/ P!PiCanceled(p)
        PROVE  /\ clock' = clock
               /\ checkoutPi' = checkoutPi \/ checkoutPi' = [checkoutPi EXCEPT ![p] = "succeeded"]
                    \/ checkoutPi' = [checkoutPi EXCEPT ![p] = "canceled"]
               /\ \E x \in {"succeeded", "failed", "canceled"} :
                    checkoutEvents' = checkoutEvents \cup {<<p, x>>}
    BY <2>1 DEF P!PiSucceeds, P!PiDeclined, P!PiCanceled, P!Pays
  <2>2. CASE P!Tick
    BY <2>2, MaxTimeAssumption DEF PlacementInv, PlacementTypes, P!Tick, P!stripeVars, P!Days
  <2>3. ASSUME NEW p \in Checkouts, P!PiSucceeds(p) \/ P!PiDeclined(p) \/ P!PiCanceled(p)
        PROVE  /\ checkoutPi' \in [P!Placements -> {"absent", "waiting", "succeeded", "canceled"}]
               /\ checkoutEvents \subseteq checkoutEvents' /\ checkoutEvents' \subseteq P!Events
               /\ clock' \in P!Days
    <3>1. PICK x \in {"succeeded", "failed", "canceled"} :
            checkoutEvents' = checkoutEvents \cup {<<p, x>>}
      BY <2>1, <2>3
    <3>2. <<p, x>> \in P!Events
      BY PEventParts
    <3>3. checkoutPi' \in [P!Placements -> {"absent", "waiting", "succeeded", "canceled"}]
      BY <2>1, <2>3 DEF PlacementInv, PlacementTypes
    <3>4. clock' = clock
      BY <2>1, <2>3
    <3>. QED
      BY <3>1, <3>2, <3>3, <3>4 DEF PlacementInv, PlacementTypes
  <2>. QED
    BY <2>2, <2>3
<1>3. \A q \in P!Placements :
        /\ \/ checkoutPi'[q] = checkoutPi[q]
           \/ checkoutPi[q] = "waiting"
        /\ <<q, "succeeded">> \in checkoutEvents' => <<q, "succeeded">> \in checkoutEvents
                                                      \/ checkoutPi'[q] = "succeeded"
  BY DEF PlacementInv, PlacementTypes, P!PiSucceeds, P!PiDeclined, P!PiCanceled, P!Pays, P!Tick,
         P!stripeVars
<1>4. PKept
  BY <1>1, <1>2, <1>3 DEF PKept, Good, Paid
<1>5. ASSUME NEW q \in P!Placements
      PROVE  RowSound(q)'
  <2>1. (Paid(q) => Paid(q)') /\ (checkoutPi[q] = "absent" => checkoutPi'[q] = "absent")
        /\ (<<q, "succeeded">> \in checkoutEvents' => <<q, "succeeded">> \in checkoutEvents
                                                        \/ Paid(q)')
    BY <1>3 DEF Paid
  <2>. QED
    BY <1>1, <2>1 DEF PlacementInv, RowSound, Good, P!HasRow
<1>6. ASSUME NEW d \in Calls
      PROVE  SlotKnows(checkoutCall[d])'
  <2>1. \A p \in P!Placements : Paying(d, p) => checkoutPi'[p] = checkoutPi[p]
    BY <1>3 DEF Paying, PlacementInv, SlotKnows
  <2>. QED
    BY <1>1, <1>4, <2>1, PSlotKept
<1>7. PlacementTypes' /\ OnePayer'
  BY <1>1, <1>2 DEF PlacementInv, PlacementTypes, OnePayer, Paying
<1>. QED
  BY <1>1, <1>5, <1>6, <1>7 DEF PlacementInv

-----------------------------------------------------------------------------
(* The mirror                                                              *)

(* The slot of a call that is no refresh leaves the others' mirrors.       *)
LEMMA MirrorOf ==
  ASSUME PlacementInv, MirrorInv, NEW c \in Calls, checkoutCall'[c].at # "refresh",
         \A d \in Calls \ {c} : checkoutCall'[d] = checkoutCall[d],
         UNCHANGED <<clock, mirror, overlapped>>, reset' = {} => reset = {},
         reset' = {} => \A q \in P!Placements :
           \/ placement'[q] = placement[q]
           \/ placement'[q].status # "ACTIVE" /\ placement[q].status # "ACTIVE"
  PROVE  MirrorInv'
<1>1. \A d \in P!Refreshing' : d \in P!Refreshing /\ checkoutCall'[d] = checkoutCall[d]
  BY DEF P!Refreshing
<1>2. ASSUME ~ overlapped
      PROVE  \A b, d \in P!Refreshing' : b = d
  BY <1>1, <1>2 DEF MirrorInv
<1>3. ASSUME ~ overlapped, reset' = {}
      PROVE  Mirrors(placement, mirror)'
  <2>1. Mirrors(placement, mirror)
    BY <1>3 DEF MirrorInv
  <2>. QED
    BY <1>3, <2>1 DEF Mirrors, Boosts
<1>4. ASSUME ~ overlapped, reset' = {}, NEW d \in P!Refreshing'
      PROVE  Mirrors(P!Updated(checkoutCall[d].writes), checkoutCall[d].top)'
  <2>1. PICK writes, top : writes = checkoutCall[d].writes /\ top = checkoutCall[d].top
    OBVIOUS
  <2>2. checkoutCall'[d].writes = writes /\ checkoutCall'[d].top = top
    BY <1>1, <1>4, <2>1
  <2>3. Mirrors(P!Updated(writes), top)
    BY <1>1, <1>4, <2>1 DEF MirrorInv
  <2>4. \A q \in P!Placements : Boosts(P!Updated(writes), q)' <=> Boosts(P!Updated(writes), q)
    BY <1>4 DEF Boosts, P!Updated
  <2>5. \A q \in P!Placements : Boosts(P!Updated(writes), q) =>
          P!Updated(writes)'[q] = P!Updated(writes)[q]
    BY <1>4 DEF Boosts, P!Updated
  <2>6. Mirrors(P!Updated(writes), top)'
    BY <2>3, <2>4, <2>5 DEF Mirrors
  <2>. QED
    BY <2>2, <2>6
<1>. QED
  BY <1>2, <1>3, <1>4 DEF MirrorInv

LEMMA MirrorRefresh ==
  ASSUME PlacementInv, MirrorInv, NEW c \in Calls, RefreshStarted(c)
  PROVE  MirrorInv'
<1>1. overlapped' = (overlapped \/ P!Refreshing # {})
  BY DEF RefreshStarted
<1>2. ASSUME ~ overlapped'
      PROVE  P!Refreshing' = {c} /\ ~ overlapped
  <2>1. P!Refreshing = {}
    BY <1>1, <1>2
  <2>. QED
    BY <1>1, <1>2, <2>1 DEF RefreshStarted, P!Refreshing
<1>3. ASSUME ~ overlapped', reset' = {}
      PROVE  Mirrors(placement, mirror)'
  <2>1. Mirrors(placement, mirror) /\ UNCHANGED <<placement, mirror, clock>>
    BY <1>2, <1>3 DEF MirrorInv, RefreshStarted
  <2>. QED
    BY <2>1 DEF Mirrors, Boosts
<1>4. Mirrors(P!Updated(checkoutCall[c].writes), checkoutCall[c].top)'
  BY DEF RefreshStarted, Mirrors, Boosts, P!Updated
<1>. QED
  BY <1>2, <1>3, <1>4 DEF MirrorInv

LEMMA MirrorCommit ==
  ASSUME PlacementInv, MirrorInv, NEW c \in Calls, P!RefreshCommit(c),
         checkoutCall'[c].at # "refresh"
  PROVE  MirrorInv'
<1>1. /\ UNCHANGED <<clock, reset, overlapped>> /\ c \in P!Refreshing
      /\ placement' = P!Updated(checkoutCall[c].writes) /\ mirror' = checkoutCall[c].top
  BY DEF P!RefreshCommit, P!Refreshing, P!ghosts
<1>2. PICK slot : P!Set(c, slot)
  BY DEF P!RefreshCommit, P!Handled, P!Return
<1>3. \A d \in Calls \ {c} : checkoutCall'[d] = checkoutCall[d]
  BY <1>2, PSet
<1>4. ASSUME ~ overlapped
      PROVE  P!Refreshing' = {}
  BY <1>1, <1>3, <1>4 DEF MirrorInv, P!Refreshing
<1>5. ASSUME ~ overlapped, reset = {}
      PROVE  Mirrors(placement, mirror)'
  <2>1. Mirrors(P!Updated(checkoutCall[c].writes), checkoutCall[c].top)
    BY <1>1, <1>5 DEF MirrorInv
  <2>. QED
    BY <1>1, <2>1 DEF Mirrors, Boosts
<1>. QED
  BY <1>1, <1>4, <1>5 DEF MirrorInv

(* A day that passes takes from the mirror what it takes from the rows.    *)
LEMMA MirrorTick ==
  ASSUME PlacementInv, MirrorInv, clock \in Nat, clock' \in {clock, clock + 1},
         UNCHANGED <<placement, mirror, reset, overlapped, checkoutCall>>
  PROVE  MirrorInv'
<1>1. ASSUME NEW f, NEW day \in Nat, Mirrors(f, day),
             \A p \in P!Placements : f[p].status = "ACTIVE" => f[p].endsAt \in Nat
      PROVE  Mirrors(f, day)'
  <2>1. \A p \in P!Placements : Boosts(f, p)' => Boosts(f, p)
    BY <1>1 DEF Boosts
  <2>2. ASSUME day >= clock'
        PROVE  \E p \in P!Placements : Boosts(f, p)' /\ f[p].endsAt = day
    <3>1. day >= clock
      BY <1>1, <2>2
    <3>2. PICK p \in P!Placements : Boosts(f, p) /\ f[p].endsAt = day
      BY <1>1, <3>1 DEF Mirrors
    <3>. QED
      BY <2>2, <3>2 DEF Boosts
  <2>. QED
    BY <1>1, <2>1, <2>2 DEF Mirrors
<1>2. PICK f, day : f = placement /\ day = mirror
  OBVIOUS
<1>3. day \in Nat /\ \A p \in P!Placements : Row(f[p])
  BY <1>2, MaxTimeAssumption DEF PlacementInv, PlacementTypes, Row
<1>4. \A x : Row(x) /\ x.status = "ACTIVE" => x.endsAt \in Nat
  BY PRowParts, MaxTimeAssumption DEF Row, P!Days
<1>5. Mirrors(placement, mirror) => Mirrors(placement, mirror)'
  <2>1. Mirrors(f, day) => Mirrors(f, day)'
    BY <1>1, <1>3, <1>4
  <2>. QED
    BY <1>2, <2>1 DEF Mirrors, Boosts
<1>6. ASSUME NEW c \in P!Refreshing,
             Mirrors(P!Updated(checkoutCall[c].writes), checkoutCall[c].top)
      PROVE  Mirrors(P!Updated(checkoutCall[c].writes), checkoutCall[c].top)'
  <2>1. PICK g, top : g = P!Updated(checkoutCall[c].writes) /\ top = checkoutCall[c].top
    OBVIOUS
  <2>2. SlotOK(checkoutCall[c]) /\ checkoutCall[c].at = "refresh"
    BY DEF P!Refreshing, PlacementInv, PlacementTypes
  <2>3. top \in 0 .. MaxTime
        /\ \A p \in DOMAIN checkoutCall[c].writes :
             checkoutCall[c].writes[p] \in P!Rows \cup {P!Deleted}
    BY <2>1, <2>2, PSlotParts
  <2>4. \A p \in P!Placements : Row(g[p])
    BY <1>2, <1>3, <2>1, <2>3 DEF P!Updated, Row
  <2>5. Mirrors(g, top)'
    BY <1>1, <1>4, <1>6, <2>1, <2>3, <2>4, MaxTimeAssumption
  <2>6. P!Updated(checkoutCall[c].writes)' = g /\ checkoutCall'[c].top = top
    BY <2>1 DEF P!Updated
  <2>. QED
    BY <2>5, <2>6 DEF Mirrors, Boosts
<1>7. P!Refreshing' = P!Refreshing
  BY DEF P!Refreshing
<1>. QED
  BY <1>5, <1>6, <1>7 DEF MirrorInv

-----------------------------------------------------------------------------
PlacementStays == PlacementInv /\ MirrorInv

LEMMA PlacementsBegin == P!Init => PlacementStays
<1>. SUFFICES ASSUME P!Init PROVE PlacementStays
  OBVIOUS
<1>1. /\ clock = 1 /\ mirror = 0 /\ checkoutSaved = {} /\ checkoutEvents = {}
      /\ checkoutPi = [p \in P!Placements |-> "absent"]
      /\ checkoutProcessed = {} /\ checkoutMissed = {} /\ handSet = {} /\ reset = {}
      /\ overlapped = FALSE /\ checkoutCall = [c \in Calls |-> P!Idle]
      /\ checkoutFailures \in {0, MaxFailures}
  BY DEF P!Init
<1>2. /\ placement \in [P!Placements -> P!Rows \cup {P!NoRow, P!Deleted}]
      /\ \A p \in P!Placements : placement[p] \in {P!NoRow, P!Deleted}
  BY DEF P!Init
<1>3. PlacementTypes
  <2>1. clock \in P!Days /\ mirror \in 0 .. MaxTime /\ checkoutFailures \in 0 .. MaxFailures
    BY <1>1, MaxTimeAssumption, MaxFailuresAssumption DEF P!Days
  <2>2. checkoutPi \in [P!Placements -> {"absent", "waiting", "succeeded", "canceled"}]
    BY <1>1
  <2>3. DOMAIN checkoutCall = Calls /\ \A c \in Calls : SlotOK(checkoutCall[c])
    BY <1>1, PIdle
  <2>. QED
    BY <1>1, <1>2, <2>1, <2>2, <2>3 DEF PlacementTypes
<1>4. \A p \in P!Placements : RowSound(p)
  BY <1>1, <1>2, PRowParts DEF RowSound, P!HasRow
<1>5. \A c \in Calls : SlotKnows(checkoutCall[c]) /\ checkoutCall[c].at = "idle"
  BY <1>1, PIdle DEF SlotKnows
<1>6. OnePayer /\ P!Refreshing = {}
  BY <1>5 DEF OnePayer, Paying, P!Refreshing
<1>7. Mirrors(placement, mirror)
  BY <1>1, <1>2, PRowParts DEF Mirrors, Boosts
<1>. QED
  BY <1>3, <1>4, <1>5, <1>6, <1>7 DEF PlacementStays, PlacementInv, MirrorInv

LEMMA PlacementStep ==
  ASSUME PlacementStays, NEW c \in Calls,
         \/ P!AdminStep(c) \/ P!AdminUpdateTx(c) \/ P!AdminDeleteTx(c)
         \/ P!CheckoutStep(c) \/ P!HookStep(c)
         \/ P!SweepRead(c) \/ P!SweepTx(c)
         \/ P!RefreshCommit(c) \/ P!CallFails(c) \/ P!Missing(c)
  PROVE  PlacementStays'
<1>0. PlacementInv /\ MirrorInv
  BY DEF PlacementStays
<1>1. ASSUME NEW slot, P!Set(c, slot), checkoutCall'[c].at # "refresh",
             UNCHANGED <<clock, placement, mirror, reset, overlapped>>
      PROVE  MirrorInv'
  BY <1>0, <1>1, PSet, MirrorOf
<1>2. CASE PReads(c)
  <2>1. PlacementInv' /\ checkoutCall'[c].at # "refresh"
    BY <1>0, <1>2, PReadSteps
  <2>2. /\ UNCHANGED <<clock, placement, mirror, reset, overlapped>>
        /\ \E slot : P!Set(c, slot)
    BY <1>2 DEF PReads, P!AdminUpdateRead, P!AdminDeleteRead, P!SweepRead, P!CallFails,
                P!Missing, P!Return, P!rows, P!ghosts
  <2>. QED
    BY <1>1, <2>1, <2>2 DEF PlacementStays
<1>3. CASE \/ \E p \in Grants, day \in P!Days : P!AdminCreate(c, p, day)
           \/ P!AdminUpdateTx(c) \/ P!AdminDeleteTx(c) \/ P!Activate(c) \/ P!SweepTx(c)
  BY <1>0, <1>3, RefreshSteps, MirrorRefresh DEF PlacementStays
<1>4. CASE \/ P!CheckoutRefused(c) \/ P!CheckoutSave(c) \/ P!CheckoutNoSecret(c)
           \/ P!NotClaimed(c)
  <2>1. PlacementInv' /\ checkoutCall'[c].at # "refresh"
    BY <1>0, <1>4, PayPlainSteps
  <2>2. /\ UNCHANGED <<clock, placement, mirror, reset, overlapped>>
        /\ \E slot : P!Set(c, slot)
    BY <1>4 DEF P!CheckoutRefused, P!CheckoutSave, P!CheckoutNoSecret, P!NotClaimed,
                P!Handled, P!Return, P!Goto, P!Set, P!rows, P!ghosts
  <2>. QED
    BY <1>1, <2>1, <2>2 DEF PlacementStays
<1>5. CASE P!CheckoutCharged(c) \/ P!CheckoutWaits(c)
  <2>1. PlacementInv' /\ checkoutCall'[c].at # "refresh"
    BY <1>0, <1>5, StripeAnswers
  <2>2. /\ UNCHANGED <<clock, placement, mirror, reset, overlapped>>
        /\ \E slot : P!Set(c, slot)
    BY <1>5 DEF P!CheckoutCharged, P!CheckoutWaits, P!Goto, P!Set, P!rows, P!ghosts
  <2>. QED
    BY <1>1, <2>1, <2>2 DEF PlacementStays
<1>6. CASE \E e \in checkoutEvents : P!HookRead(c, e)
  <2>1. PlacementInv' /\ checkoutCall'[c].at # "refresh"
    BY <1>0, <1>6, HookReadKnows
  <2>2. /\ UNCHANGED <<clock, placement, mirror, reset, overlapped>>
        /\ \E slot : P!Set(c, slot)
    BY <1>6 DEF P!HookRead, P!rows
  <2>. QED
    BY <1>1, <2>1, <2>2 DEF PlacementStays
<1>7. CASE P!HookDone(c)
  <2>1. PlacementInv' /\ checkoutCall'[c].at # "refresh"
    BY <1>0, <1>7, HookDoneStep
  <2>2. /\ UNCHANGED <<clock, placement, mirror, reset, overlapped>>
        /\ \E slot : P!Set(c, slot)
    BY <1>7 DEF P!HookDone, P!Return, P!rows, P!ghosts
  <2>. QED
    BY <1>1, <2>1, <2>2 DEF PlacementStays
<1>8. ASSUME NEW p \in Checkouts, NEW day \in P!Days, P!CheckoutStart(c, p, day)
      PROVE  PlacementStays'
  <2>1. /\ PlacementInv' /\ checkoutCall'[c].at # "refresh"
        /\ \A q \in P!Placements :
             \/ placement'[q] = placement[q]
             \/ placement'[q].status # "ACTIVE" /\ placement[q].status # "ACTIVE"
    BY <1>0, <1>8, CheckoutStartStep
  <2>2. /\ UNCHANGED <<clock, mirror, reset, overlapped>>
        /\ \E slot : P!Set(c, slot)
    BY <1>8 DEF P!CheckoutStart, P!ghosts
  <2>3. \A d \in Calls \ {c} : checkoutCall'[d] = checkoutCall[d]
    BY <1>0, <2>2, PSet
  <2>. QED
    BY <1>0, <2>1, <2>2, <2>3, MirrorOf DEF PlacementStays
<1>9. CASE P!CheckoutDraft(c) \/ P!Reset(c)
  <2>1. /\ PlacementInv' /\ checkoutCall'[c].at # "refresh"
        /\ reset' = {} => reset = {}
        /\ reset' = {} => \A q \in P!Placements :
             \/ placement'[q] = placement[q]
             \/ placement'[q].status # "ACTIVE" /\ placement[q].status # "ACTIVE"
    BY <1>0, <1>9, BackSteps
  <2>2. /\ UNCHANGED <<clock, mirror, overlapped>>
        /\ \E slot : P!Set(c, slot)
    BY <1>9 DEF P!CheckoutDraft, P!Reset, P!Handled, P!Return
  <2>3. \A d \in Calls \ {c} : checkoutCall'[d] = checkoutCall[d]
    BY <1>0, <2>2, PSet
  <2>. QED
    BY <1>0, <2>1, <2>2, <2>3, MirrorOf DEF PlacementStays
<1>10. CASE P!RefreshCommit(c)
  BY <1>0, <1>10, RefreshCommitStep, MirrorCommit DEF PlacementStays
<1>11. CASE P!AdminStep(c)
  BY <1>2, <1>3, <1>11 DEF P!AdminStep, PReads
<1>12. CASE P!CheckoutStep(c)
  BY <1>3, <1>4, <1>5, <1>8, <1>9, <1>12 DEF P!CheckoutStep
<1>13. CASE P!HookStep(c)
  BY <1>6, <1>7, <1>9, <1>13 DEF P!HookStep
<1>. QED
  BY <1>2, <1>3, <1>10, <1>11, <1>12, <1>13 DEF PReads

LEMMA PlacementsGo == PlacementStays /\ [P!Next]_P!vars => PlacementStays'
<1>. SUFFICES ASSUME PlacementStays, [P!Next]_P!vars PROVE PlacementStays'
  OBVIOUS
<1>1. ASSUME NEW c \in Calls,
             \/ P!AdminStep(c) \/ P!AdminUpdateTx(c) \/ P!AdminDeleteTx(c)
             \/ P!CheckoutStep(c) \/ P!HookStep(c)
             \/ P!SweepRead(c) \/ P!SweepTx(c)
             \/ P!RefreshCommit(c) \/ P!CallFails(c) \/ P!Missing(c)
      PROVE  PlacementStays'
  BY <1>1, PlacementStep
<1>2. CASE \/ \E p \in Checkouts : P!PiSucceeds(p) \/ P!PiDeclined(p) \/ P!PiCanceled(p)
           \/ P!Tick
  <2>1. PlacementInv' /\ UNCHANGED <<placement, mirror, reset, overlapped, checkoutCall>>
    BY <1>2, OutsideSteps DEF PlacementStays
  <2>2. clock \in Nat /\ clock' \in {clock, clock + 1}
    BY <1>2, MaxTimeAssumption
       DEF PlacementStays, PlacementInv, PlacementTypes, P!Days, P!PiSucceeds, P!PiDeclined,
           P!PiCanceled, P!Tick
  <2>. QED
    BY <2>1, <2>2, MirrorTick DEF PlacementStays
<1>3. CASE UNCHANGED P!vars
  BY <1>3 DEF P!vars, P!rows, P!stripeVars, P!ghosts, PlacementStays, PlacementInv,
     PlacementTypes, RowSound, Paid, Good, OnePayer, Paying, SlotKnows, Written, MirrorInv,
     Mirrors, Boosts, P!Refreshing, P!Updated, P!HasRow
<1>. QED
  BY <1>1, <1>2, <1>3 DEF P!Next

LEMMA PlacementsOf == PromotionsSpec => P!Spec
<1>1. PromotionsInit => P!Init
  BY DEF PromotionsInit
<1>2. [PromotionsNext]_focusVars => [P!Next]_P!vars
  BY DEF PromotionsNext, focusVars, placementVars, P!vars, P!rows, P!stripeVars, P!ghosts
<1>. QED
  BY <1>1, <1>2, PTL DEF PromotionsSpec, P!Spec

LEMMA PlacementInvariant == PromotionsSpec => []PlacementStays
  BY PlacementsBegin, PlacementsGo, PlacementsOf, PTL DEF P!Spec

(* A placement that no admin touched is in force only when Stripe has the  *)
(* money for it, and a success that was acknowledged put it in force,      *)
(* whatever deliveries, edits and sweeps interleave, wherever they stop.   *)
THEOREM PlacementsArePaid == PromotionsSpec => []BoostIsPaid
<1>1. PlacementInv => P!TypeOK
  <2>. SUFFICES ASSUME PlacementInv PROVE P!TypeOK
    OBVIOUS
  <2>1. \A c \in Calls : SlotOK(checkoutCall[c])
    BY DEF PlacementInv, PlacementTypes
  <2>2. /\ \A c \in Calls \ P!Refreshing : checkoutCall[c] \in P!Slots \cup {P!Idle}
        /\ \A c \in P!Refreshing :
             \E S \in SUBSET P!Placements : checkoutCall[c] \in P!Refreshes(S)
    BY <2>1 DEF SlotOK, P!Refreshing
  <2>. QED
    BY <2>2 DEF P!TypeOK, PlacementInv, PlacementTypes
<1>2. PlacementInv => P!BoostWasPaid
  BY DEF PlacementInv, RowSound, Paid, P!BoostWasPaid
<1>3. PlacementInv => P!AcknowledgedIsActive
  BY PRowParts DEF PlacementInv, RowSound, Good, P!AcknowledgedIsActive, P!HasRow
<1>. QED
  BY <1>1, <1>2, <1>3, PlacementInvariant, PTL DEF PlacementStays, BoostIsPaid, P!BoostIsPaid

(* sponsoredUntil, which each transaction computes from the rows it reads  *)
(* and writes later, is the latest end of the placements in force, until   *)
(* two such transactions overlap or a late failure resets a placement.     *)
THEOREM MirrorStaysExact == PromotionsSpec => []MirrorIsExact
<1>1. PlacementStays => MirrorIsExact
  BY MirrorsExactly DEF PlacementStays, MirrorInv, MirrorIsExact, P!MirrorIsExact
<1>. QED
  BY <1>1, PlacementInvariant, PTL
=============================================================================
