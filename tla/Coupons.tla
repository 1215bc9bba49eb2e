------------------------------- MODULE Coupons -------------------------------
(***************************************************************************)
(* Coupon redemptions of apps/api/src/coupons: preview, applyToMilestone,  *)
(* applyToSubscription, reverseForMilestone and the admin's update and     *)
(* remove, over the Coupon and CouponRedemption tables.                    *)
(*                                                                         *)
(* apply and reverse run inside a transaction of their caller: they take   *)
(* the row lock of the coupon (SELECT ... FOR UPDATE), read, write, and    *)
(* the lock is released when the transaction commits or rolls back.  Other *)
(* transactions run between these steps.                                   *)
(***************************************************************************)
EXTENDS Integers, FiniteSets

CONSTANTS
  CouponIds,      \* the coupons
  Users,          \* the users who redeem
  Milestones,     \* milestones that may be funded with a coupon
  Subscriptions,  \* subscription rows, each new when a coupon is applied to it
  Owner,          \* the user who pays for a milestone or a subscription
  Limits,         \* bound: the values admins give maxRedemptions, perUserLimit
  MaxRows,        \* bound: how many CouponRedemption rows are ever created
  Calls,          \* slots: transactions (with their preview) in flight
  None            \* null, and no row

Targets == Milestones \cup Subscriptions

ASSUME CouponAssumption ==
  /\ IsFiniteSet(Targets)
  /\ Owner \in [Targets -> Users]
  /\ Limits \subseteq Nat
  /\ MaxRows \in Nat
  /\ None \notin Nat
  /\ None \notin Calls
  /\ None \notin [coupon : CouponIds, id : Nat]

VARIABLES
  coupon,       \* Coupon rows: status, maxRedemptions, perUserLimit
  redeemed,     \* Coupon.redeemedCount
  redemption,   \* the CouponRedemption row of a target, or None
  rows,         \* how many rows were created: the next row's id
  lock,         \* the transaction that holds a coupon's row lock, or None
  call          \* transactions in flight

vars == <<coupon, redeemed, redemption, rows, lock, call>>

CouponRows == [status : {"ACTIVE", "DISABLED"},
               maxRedemptions : Limits \cup {None}, perUserLimit : Limits]

Idle == [at |-> "idle"]

CallStates == [at : {"apply.lock", "apply.check", "apply.write", "refused"},
               t : Targets, c : CouponIds]
              \cup
              [at : {"reverse.lock", "reverse.write"},
               t : Targets, c : CouponIds, id : Nat]

Goto(x, at) == call' = [call EXCEPT ![x].at = at]
Return(x)   == call' = [call EXCEPT ![x] = Idle]
Unlock(x)   == lock' = [c \in CouponIds |-> IF lock[c] = x THEN None ELSE lock[c]]
Commit(x)   == Return(x) /\ Unlock(x)

Redeems(t, c)  == redemption[t] # None /\ redemption[t].coupon = c
Used(c)        == {t \in Targets : Redeems(t, c)}
UsedBy(c, u)   == {t \in Used(c) : Owner[t] = u}

(* assertEligible; the validity window, audience and scope of the coupon    *)
(* refuse a redemption just as the status does.                            *)
Eligible(c) == coupon[c].status = "ACTIVE"

UnderLimit(c, u) ==
  coupon[c].perUserLimit > 0 => Cardinality(UsedBy(c, u)) < coupon[c].perUserLimit

UnderCap(c) ==
  coupon[c].maxRedemptions # None => redeemed[c] < coupon[c].maxRedemptions

MayRedeem(t, c) == Eligible(c) /\ UnderLimit(c, Owner[t]) /\ UnderCap(c)

Init ==
  /\ coupon \in [CouponIds -> CouponRows]
  /\ \A c \in CouponIds : coupon[c].status = "ACTIVE"
  /\ redeemed = [c \in CouponIds |-> 0]
  /\ redemption = [t \in Targets |-> None]
  /\ rows = 0
  /\ lock = [c \in CouponIds |-> None]
  /\ call = [x \in Calls |-> Idle]

-----------------------------------------------------------------------------
(* A subscription row is created by the transaction that redeems for it.   *)
Fresh(t) == t \in Subscriptions =>
  /\ redemption[t] = None
  /\ \A y \in Calls : call[y] # Idle => call[y].t # t

(* preview / resolveForSubscription: the same checks without the lock, long *)
(* before the transaction (a Stripe call lies between).                    *)

Preview(x, t, c) ==
  /\ call[x] = Idle
  /\ Fresh(t)
  /\ MayRedeem(t, c)
  /\ call' = [call EXCEPT ![x] = [at |-> "apply.lock", t |-> t, c |-> c]]
  /\ UNCHANGED <<coupon, redeemed, redemption, rows, lock>>

PreviewRefused(x, t, c) ==
  /\ call[x] = Idle
  /\ Fresh(t)
  /\ ~ MayRedeem(t, c)
  /\ call' = [call EXCEPT ![x] = [at |-> "refused", t |-> t, c |-> c]]
  /\ UNCHANGED <<coupon, redeemed, redemption, rows, lock>>

TakeLock(x, from, to) ==
  /\ call[x].at = from
  /\ lock[call[x].c] = None
  /\ lock' = [lock EXCEPT ![call[x].c] = x]
  /\ Goto(x, to)
  /\ UNCHANGED <<coupon, redeemed, redemption, rows>>

ApplyLock(x) == TakeLock(x, "apply.lock", "apply.check")

(* A variant the checks refute: the preview is not repeated under the lock. *)
ApplyUnchecked(x) ==
  /\ call[x].at = "apply.check"
  /\ IF redemption[call[x].t] = None THEN Goto(x, "apply.write") /\ UNCHANGED lock
                                     ELSE Commit(x)
  /\ UNCHANGED <<coupon, redeemed, redemption, rows>>

(* The reads under the lock.  Only a milestone can already be redeemed: the *)
(* same coupon is then a success and writes nothing, another is refused.   *)
ApplyCheck(x) ==
  LET t == call[x].t  c == call[x].c IN
  /\ call[x].at = "apply.check"
  /\ IF redemption[t] = None /\ MayRedeem(t, c)
       THEN Goto(x, "apply.write") /\ UNCHANGED lock
     ELSE IF Redeems(t, c)
       THEN Commit(x)
     ELSE call' = [call EXCEPT ![x].at = "refused"] /\ Unlock(x)
  /\ UNCHANGED <<coupon, redeemed, redemption, rows>>

(* A variant the checks refute: an upsert in the place of the insert.      *)
ApplyUpsert(x) ==
  LET t == call[x].t  c == call[x].c IN
  /\ call[x].at = "apply.write"
  /\ rows < MaxRows
  /\ rows' = rows + 1
  /\ redemption' = [redemption EXCEPT ![t] = [coupon |-> c, id |-> rows]]
  /\ redeemed' = [redeemed EXCEPT ![c] = @ + 1]
  /\ Commit(x)
  /\ UNCHANGED coupon

(* Insert and increment.  A transaction on ANOTHER coupon may have taken   *)
(* the target meanwhile: the unique index refuses and all rolls back.      *)
ApplyWrite(x) ==
  LET t == call[x].t  c == call[x].c IN
  /\ call[x].at = "apply.write"
  /\ redemption[t] = None
  /\ rows < MaxRows
  /\ rows' = rows + 1
  /\ redemption' = [redemption EXCEPT ![t] = [coupon |-> c, id |-> rows]]
  /\ redeemed' = [redeemed EXCEPT ![c] = @ + 1]
  /\ Commit(x)
  /\ UNCHANGED coupon

ApplyConflict(x) ==
  /\ call[x].at = "apply.write"
  /\ redemption[call[x].t] # None
  /\ Commit(x)
  /\ UNCHANGED <<coupon, redeemed, redemption, rows>>

-----------------------------------------------------------------------------
(* reverseForMilestone: the redemption row is read BEFORE the lock and     *)
(* deleted by its id after it.                                             *)

ReverseFind(x, t) ==
  /\ call[x] = Idle
  /\ t \in Milestones
  /\ redemption[t] # None
  /\ call' = [call EXCEPT ![x] = [at |-> "reverse.lock", t |-> t,
                                  c |-> redemption[t].coupon,
                                  id |-> redemption[t].id]]
  /\ UNCHANGED <<coupon, redeemed, redemption, rows, lock>>

ReverseLock(x) == TakeLock(x, "reverse.lock", "reverse.write")

StillThere(x) == /\ redemption[call[x].t] # None
                 /\ redemption[call[x].t].id = call[x].id

ReverseWrite(x) ==
  LET t == call[x].t  c == call[x].c IN
  /\ call[x].at = "reverse.write"
  /\ StillThere(x)
  /\ redeemed' = [redeemed EXCEPT ![c] = @ - 1]
  /\ redemption' = [redemption EXCEPT ![t] = None]
  /\ Commit(x)
  /\ UNCHANGED <<coupon, rows>>

(* A variant the checks refute: the error of the delete is swallowed.      *)
ReverseSwallowed(x) ==
  /\ call[x].at = "reverse.write"
  /\ ~ StillThere(x)
  /\ redeemed' = [redeemed EXCEPT ![call[x].c] = @ - 1]
  /\ Commit(x)
  /\ UNCHANGED <<coupon, redemption, rows>>

(* The delete finds no row (P2025): the decrement rolls back with it.      *)
ReverseConflict(x) ==
  /\ call[x].at = "reverse.write"
  /\ ~ StillThere(x)
  /\ Commit(x)
  /\ UNCHANGED <<coupon, redeemed, redemption, rows>>

-----------------------------------------------------------------------------
(* The admin's update and remove: one UPDATE, which waits for the row lock. *)
AdminUpdate(c, new) ==
  /\ lock[c] = None
  /\ new \in CouponRows
  /\ coupon' = [coupon EXCEPT ![c] = new]
  /\ UNCHANGED <<redeemed, redemption, rows, lock, call>>

(* The caller answers with an error, or its transaction times out or dies. *)
Abort(x) ==
  /\ call[x] # Idle
  /\ Commit(x)
  /\ UNCHANGED <<coupon, redeemed, redemption, rows>>

CallStep(x) ==
  \/ \E t \in Targets, c \in CouponIds : Preview(x, t, c) \/ PreviewRefused(x, t, c)
  \/ ApplyLock(x)
  \/ ApplyCheck(x)
  \/ ApplyWrite(x)
  \/ ApplyConflict(x)
  \/ \E t \in Targets : ReverseFind(x, t)
  \/ ReverseLock(x)
  \/ ReverseWrite(x)
  \/ ReverseConflict(x)
  \/ Abort(x)

Next ==
  \/ \E x \in Calls : CallStep(x)
  \/ \E c \in CouponIds : \E new \in CouponRows : AdminUpdate(c, new)

Spec == Init /\ [][Next]_vars

-----------------------------------------------------------------------------
(* Every variable keeps its type; the counter never goes below zero,       *)
(* whatever is reversed twice.                                             *)
TypeOK ==
  /\ coupon \in [CouponIds -> CouponRows]
  /\ redeemed \in [CouponIds -> Nat]
  /\ redemption \in [Targets -> [coupon : CouponIds, id : Nat] \cup {None}]
  /\ rows \in Nat
  /\ lock \in [CouponIds -> Calls \cup {None}]
  /\ call \in [Calls -> CallStates \cup {Idle}]

(* redeemedCount is the number of redemption rows of the coupon, however   *)
(* applies, retries, double refunds and roll-backs interleave: no slot     *)
(* leaks and none is freed twice.                                          *)
CounterCountsRedemptions ==
  \A c \in CouponIds : redeemed[c] = Cardinality(Used(c))

(* A redemption that is added fits the cap and the per-user limit the      *)
(* coupon has when it is committed, although preview saw older values and  *)
(* several users redeem the last slot at once.                             *)
RedeemsWithinCaps ==
  [][\A t \in Targets, c \in CouponIds : ~ Redeems(t, c) /\ Redeems(t, c)' =>
       /\ coupon[c].status = "ACTIVE"
       /\ coupon[c].maxRedemptions # None => redeemed'[c] <= coupon[c].maxRedemptions
       /\ coupon[c].perUserLimit > 0 =>
            Cardinality(UsedBy(c, Owner[t])') <= coupon[c].perUserLimit]_vars

(* A redemption goes away only by a reversal of that very row; it is never *)
(* replaced by one for another coupon in a race for the same milestone.    *)
RedemptionNotReplaced ==
  [][\A t \in Targets :
       redemption[t] # None => redemption'[t] \in {redemption[t], None}]_vars

Slots == INSTANCE CouponSlots WITH
  taken <- [c \in CouponIds |-> Used(c)],
  count <- redeemed

(* Transactions that preview, lock, roll back and race do what the slots   *)
(* of a coupon promise: each redemption takes one slot that was free under *)
(* the terms of the moment, a reversal gives back that very slot, and no   *)
(* other step, of a race for one milestone above all, moves or frees one.  *)
ImplementsSlots == Slots!Spec

(* A retry of a funding whose redemption is already written succeeds       *)
(* again (comment in applyToMilestone).  The code breaks this one.         *)
RetrySucceeds ==
  [][\A x \in Calls, t \in Targets, c \in CouponIds :
       Redeems(t, c) /\ Eligible(c) => ~ PreviewRefused(x, t, c)]_vars
=============================================================================
