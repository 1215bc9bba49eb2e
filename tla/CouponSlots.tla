----------------------------- MODULE CouponSlots -----------------------------
(***************************************************************************)
(* What coupons promise, with no transactions, locks or rows in sight: a   *)
(* coupon has slots.  A milestone or a subscription takes one slot of one  *)
(* coupon, at a moment when the terms of that coupon allow it; a milestone *)
(* may give its slot back.  The count that is shown follows every slot     *)
(* that is taken or given back.                                            *)
(***************************************************************************)
EXTENDS Integers, FiniteSets

CONSTANTS CouponIds, Milestones, Subscriptions, Owner, CouponRows, None

VARIABLES
  coupon,  \* the terms of a coupon
  taken,   \* what holds a slot of a coupon
  count    \* the number of slots that the coupon shows as used

slotVars == <<coupon, taken, count>>

Free(t) == \A c \in CouponIds : t \notin taken[c]

TakenBy(c, u) == {s \in taken[c] : Owner[s] = u}

(* The terms are those of the moment, and the slots are counted as they    *)
(* are, not as a counter has them.                                         *)
Allows(c, t) ==
  /\ coupon[c].status = "ACTIVE"
  /\ coupon[c].maxRedemptions # None => Cardinality(taken[c]) < coupon[c].maxRedemptions
  /\ coupon[c].perUserLimit > 0 =>
       Cardinality(TakenBy(c, Owner[t])) < coupon[c].perUserLimit

Init ==
  /\ coupon \in [CouponIds -> CouponRows]
  /\ taken = [c \in CouponIds |-> {}]
  /\ count = [c \in CouponIds |-> 0]

(* The count comes first only for TLC, which then sees at once that most    *)
(* steps take no slot.                                                     *)
Take(c, t) ==
  /\ count' = [count EXCEPT ![c] = @ + 1]
  /\ Free(t)
  /\ Allows(c, t)
  /\ taken' = [taken EXCEPT ![c] = @ \cup {t}]
  /\ UNCHANGED coupon

GiveBack(c, t) ==
  /\ count' = [count EXCEPT ![c] = @ - 1]
  /\ t \in taken[c]
  /\ taken' = [taken EXCEPT ![c] = @ \ {t}]
  /\ UNCHANGED coupon

ChangeTerms(c) ==
  /\ UNCHANGED <<taken, count>>
  /\ \E new \in CouponRows : coupon' = [coupon EXCEPT ![c] = new]

Next ==
  \/ \E c \in CouponIds : ChangeTerms(c)
  \/ \E c \in CouponIds, t \in Milestones \cup Subscriptions : Take(c, t)
  \/ \E c \in CouponIds, t \in Milestones : GiveBack(c, t)

Spec == Init /\ [][Next]_slotVars
=============================================================================
