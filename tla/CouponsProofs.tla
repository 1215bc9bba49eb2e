--------------------------- MODULE CouponsProofs ---------------------------
(***************************************************************************)
(* Proofs about Coupons, for any coupons, users, targets, limits and any   *)
(* number of transactions in flight.                                       *)
(***************************************************************************)
EXTENDS Coupons, FiniteSetTheorems, TLAPS

(* Row ids are handed out once.                                            *)
IdsAreOld ==
  \A t \in Targets : redemption[t] # None => redemption[t].id < rows

(* What a transaction knows at each step: that it holds the row lock, that *)
(* under the lock the redemption is still allowed, and that the row it is  *)
(* about to delete, if it is still there, belongs to the coupon it locked. *)
CallKnows(x) ==
  LET t == call[x].t  c == call[x].c  at == call[x].at IN
  /\ at \in {"apply.check", "apply.write", "reverse.write"} => lock[c] = x
  /\ at = "apply.write" => MayRedeem(t, c)
  /\ at \in {"reverse.lock", "reverse.write"} =>
       /\ call[x].id < rows
       /\ StillThere(x) => redemption[t].coupon = c

IInv ==
  /\ TypeOK
  /\ CounterCountsRedemptions
  /\ IdsAreOld
  /\ \A x \in Calls : CallKnows(x)

Applies  == [at : {"apply.lock", "apply.check", "apply.write", "refused"},
             t : Targets, c : CouponIds]
Reverses == [at : {"reverse.lock", "reverse.write"},
             t : Targets, c : CouponIds, id : Nat]

-----------------------------------------------------------------------------
(* What a busy slot holds.                                                 *)
LEMMA BusyCall ==
  ASSUME TypeOK, NEW x \in Calls, call[x].at # "idle"
  PROVE  /\ call[x].t \in Targets /\ call[x].c \in CouponIds
         /\ call[x] \in Applies \/ call[x] \in Reverses
         /\ call[x].at \in {"reverse.lock", "reverse.write"} => call[x] \in Reverses
         /\ call[x].at \in {"apply.lock", "apply.check", "apply.write", "refused"}
              => call[x] \in Applies
<1>1. call[x] \in Applies \/ call[x] \in Reverses
  BY DEF TypeOK, CallStates, Idle, Applies, Reverses
<1>. QED
  BY <1>1 DEF Applies, Reverses

LEMMA UsedIsFinite ==
  ASSUME NEW c \in CouponIds, NEW u \in Users
  PROVE  /\ IsFiniteSet(Used(c)) /\ IsFiniteSet(UsedBy(c, u))
         /\ Cardinality(Used(c)) \in Nat /\ Cardinality(UsedBy(c, u)) \in Nat
<1>1. Used(c) \subseteq Targets /\ UsedBy(c, u) \subseteq Targets
  BY DEF Used, UsedBy
<1>2. IsFiniteSet(Used(c)) /\ IsFiniteSet(UsedBy(c, u))
  BY <1>1, FS_Subset, CouponAssumption
<1>. QED
  BY <1>2, FS_CardinalityType

(* A call that does not move keeps what it knows when the step leaves its  *)
(* coupon, its counter and its redemptions alone or needs the lock itself. *)
LEMMA OtherCalls ==
  ASSUME IInv, NEW y \in Calls, call'[y] = call[y], rows' \in Nat, rows <= rows',
         \A c \in CouponIds : lock[c] = y =>
           /\ lock'[c] = y /\ coupon'[c] = coupon[c] /\ redeemed'[c] = redeemed[c]
           /\ Used(c)' = Used(c),
         \A t \in Targets :
           redemption'[t] = redemption[t] \/ redemption'[t] = None
           \/ redemption'[t].id = rows
  PROVE  CallKnows(y)'
<1>1. CallKnows(y)
  BY DEF IInv
<1>2. CASE call[y].at = "idle"
  BY <1>2 DEF CallKnows
<1>3. CASE call[y].at # "idle"
  <2>. DEFINE t == call[y].t
              c == call[y].c
              at == call[y].at
  <2>1. t \in Targets /\ c \in CouponIds /\ rows \in Nat
    BY <1>3, BusyCall DEF IInv, TypeOK
  <2>2. at \in {"apply.check", "apply.write", "reverse.write"} => lock'[c] = y
    BY <1>1, <2>1 DEF CallKnows
  <2>3. at = "apply.write" => MayRedeem(t, c)'
    <3>1. SUFFICES ASSUME at = "apply.write" PROVE MayRedeem(t, c)'
      OBVIOUS
    <3>2. MayRedeem(t, c) /\ lock[c] = y
      BY <1>1, <3>1 DEF CallKnows
    <3>3. coupon'[c] = coupon[c] /\ redeemed'[c] = redeemed[c] /\ Used(c)' = Used(c)
      BY <2>1, <3>2
    <3>. QED
      BY <3>2, <3>3 DEF MayRedeem, Eligible, UnderLimit, UnderCap, UsedBy
  <2>4. at \in {"reverse.lock", "reverse.write"} =>
          /\ call[y].id < rows'
          /\ StillThere(y)' => redemption'[t].coupon = c
    <3>1. SUFFICES ASSUME at \in {"reverse.lock", "reverse.write"}
                   PROVE  /\ call[y].id < rows'
                          /\ StillThere(y)' => redemption'[t].coupon = c
      OBVIOUS
    <3>2. call[y].id \in Nat
      BY <1>3, <3>1, BusyCall DEF IInv, Reverses
    <3>3. call[y].id < rows /\ (StillThere(y) => redemption[t].coupon = c)
      BY <1>1, <3>1 DEF CallKnows
    <3>4. call[y].id < rows' /\ call[y].id # rows
      BY <2>1, <3>2, <3>3
    <3>. QED
      BY <2>1, <3>3, <3>4 DEF StillThere
  <2>. QED
    BY <2>2, <2>3, <2>4 DEF CallKnows
<1>. QED
  BY <1>2, <1>3

-----------------------------------------------------------------------------
(* Where a transaction goes next: the slot keeps its target and coupon.    *)
LEMMA ApplyMoves ==
  ASSUME TypeOK, NEW x \in Calls, call[x] \in Applies,
         NEW at \in {"apply.lock", "apply.check", "apply.write", "refused"},
         call' = [call EXCEPT ![x].at = at]
  PROVE  /\ call' \in [Calls -> CallStates \cup {Idle}]
         /\ call'[x].at = at /\ call'[x].t = call[x].t /\ call'[x].c = call[x].c
         /\ \A y \in Calls \ {x} : call'[y] = call[y]
<1>1. call'[x] = [call[x] EXCEPT !.at = at] /\ \A y \in Calls \ {x} : call'[y] = call[y]
  BY DEF TypeOK
<1>2. call'[x] \in Applies
  BY <1>1 DEF Applies
<1>3. call'[x] \in CallStates
  BY <1>2 DEF Applies, CallStates
<1>4. call'[x].at = at /\ call'[x].t = call[x].t /\ call'[x].c = call[x].c
  BY <1>1 DEF Applies
<1>. QED
  BY <1>1, <1>3, <1>4 DEF TypeOK

LEMMA ReverseMoves ==
  ASSUME TypeOK, NEW x \in Calls, call[x] \in Reverses,
         NEW at \in {"reverse.lock", "reverse.write"},
         call' = [call EXCEPT ![x].at = at]
  PROVE  /\ call' \in [Calls -> CallStates \cup {Idle}]
         /\ call'[x].at = at /\ call'[x].t = call[x].t /\ call'[x].c = call[x].c
         /\ call'[x].id = call[x].id
         /\ \A y \in Calls \ {x} : call'[y] = call[y]
<1>1. call'[x] = [call[x] EXCEPT !.at = at] /\ \A y \in Calls \ {x} : call'[y] = call[y]
  BY DEF TypeOK
<1>2. call'[x] \in Reverses
  BY <1>1 DEF Reverses
<1>3. call'[x] \in CallStates
  BY <1>2 DEF Reverses, CallStates
<1>4. /\ call'[x].at = at /\ call'[x].t = call[x].t /\ call'[x].c = call[x].c
      /\ call'[x].id = call[x].id
  BY <1>1 DEF Reverses
<1>. QED
  BY <1>1, <1>3, <1>4 DEF TypeOK

(* The end of a transaction: the slot is idle and its locks are free.      *)
LEMMA Commits ==
  ASSUME TypeOK, NEW x \in Calls, Commit(x)
  PROVE  /\ call' \in [Calls -> CallStates \cup {Idle}]
         /\ lock' \in [CouponIds -> Calls \cup {None}]
         /\ call'[x].at = "idle"
         /\ \A y \in Calls \ {x} : call'[y] = call[y]
         /\ \A c \in CouponIds : lock[c] # x => lock'[c] = lock[c]
  BY DEF TypeOK, Commit, Return, Unlock, Idle

(* A step of one transaction that writes no row preserves the invariant as *)
(* soon as that transaction knows what its next step relies on.            *)
LEMMA QuietStep ==
  ASSUME IInv, NEW x \in Calls,
         UNCHANGED <<coupon, redeemed, redemption, rows>>,
         call' \in [Calls -> CallStates \cup {Idle}],
         lock' \in [CouponIds -> Calls \cup {None}],
         \A y \in Calls \ {x} : call'[y] = call[y],
         \A c \in CouponIds : lock[c] \notin {x, None} => lock'[c] = lock[c],
         CallKnows(x)'
  PROVE  IInv'
<1>1. TypeOK'
  BY DEF IInv, TypeOK
<1>2. CounterCountsRedemptions' /\ IdsAreOld'
  BY DEF IInv, CounterCountsRedemptions, IdsAreOld, Used, Redeems
<1>3. ASSUME NEW y \in Calls PROVE CallKnows(y)'
  <2>1. CASE y = x
    BY <2>1
  <2>2. CASE y # x
    <3>1. call'[y] = call[y] /\ rows' \in Nat /\ rows <= rows'
      BY <2>2 DEF IInv, TypeOK
    <3>2. \A c \in CouponIds : lock[c] = y =>
            /\ lock'[c] = y /\ coupon'[c] = coupon[c] /\ redeemed'[c] = redeemed[c]
            /\ Used(c)' = Used(c)
      BY <2>2, CouponAssumption DEF Used, Redeems
    <3>3. \A t \in Targets :
            redemption'[t] = redemption[t] \/ redemption'[t] = None
            \/ redemption'[t].id = rows
      OBVIOUS
    <3>. QED
      BY <3>1, <3>2, <3>3, OtherCalls
  <2>. QED
    BY <2>1, <2>2
<1>. QED
  BY <1>1, <1>2, <1>3 DEF IInv

LEMMA CommitStep ==
  ASSUME IInv, NEW x \in Calls, Commit(x),
         UNCHANGED <<coupon, redeemed, redemption, rows>>
  PROVE  IInv'
<1>1. TypeOK
  BY DEF IInv
<1>2. CallKnows(x)'
  BY <1>1, Commits DEF CallKnows
<1>. QED
  BY <1>1, <1>2, Commits, QuietStep

-----------------------------------------------------------------------------
(* The steps that write no row.                                            *)
LEMMA PreviewKeeps ==
  ASSUME IInv, NEW x \in Calls, NEW t \in Targets, NEW c \in CouponIds,
         Preview(x, t, c) \/ PreviewRefused(x, t, c)
  PROVE  IInv'
<1>1. PICK at \in {"apply.lock", "refused"} :
        call' = [call EXCEPT ![x] = [at |-> at, t |-> t, c |-> c]]
  BY DEF Preview, PreviewRefused
<1>2. [at |-> at, t |-> t, c |-> c] \in CallStates
  BY DEF CallStates
<1>3. /\ call' \in [Calls -> CallStates \cup {Idle}]
      /\ call'[x].at = at
      /\ \A y \in Calls \ {x} : call'[y] = call[y]
  BY <1>1, <1>2 DEF IInv, TypeOK
<1>4. CallKnows(x)'
  BY <1>3 DEF CallKnows
<1>5. UNCHANGED <<coupon, redeemed, redemption, rows, lock>>
  BY DEF Preview, PreviewRefused
<1>. QED
  BY <1>3, <1>4, <1>5, QuietStep DEF IInv, TypeOK

LEMMA ApplyLockKeeps ==
  ASSUME IInv, NEW x \in Calls, ApplyLock(x)
  PROVE  IInv'
<1>. DEFINE t == call[x].t
            c == call[x].c
<1>1. TypeOK /\ call[x].at = "apply.lock" /\ lock[c] = None
  BY DEF IInv, ApplyLock, TakeLock
<1>2. t \in Targets /\ c \in CouponIds /\ call[x] \in Applies
  BY <1>1, BusyCall
<1>3. /\ call' \in [Calls -> CallStates \cup {Idle}]
      /\ call'[x].at = "apply.check" /\ call'[x].c = c
      /\ \A y \in Calls \ {x} : call'[y] = call[y]
  BY <1>1, <1>2, ApplyMoves DEF ApplyLock, TakeLock, Goto
<1>4. /\ lock' \in [CouponIds -> Calls \cup {None}] /\ lock'[c] = x
      /\ \A d \in CouponIds : lock[d] # None => lock'[d] = lock[d]
  BY <1>1, <1>2 DEF ApplyLock, TakeLock, TypeOK
<1>5. CallKnows(x)'
  BY <1>3, <1>4 DEF CallKnows
<1>. QED
  BY <1>3, <1>4, <1>5, QuietStep DEF ApplyLock, TakeLock

LEMMA ApplyCheckKeeps ==
  ASSUME IInv, NEW x \in Calls, ApplyCheck(x)
  PROVE  IInv'
<1>. DEFINE t == call[x].t
            c == call[x].c
<1>1. TypeOK /\ call[x].at = "apply.check" /\ CallKnows(x)
  BY DEF IInv, ApplyCheck
<1>2. t \in Targets /\ c \in CouponIds /\ call[x] \in Applies /\ lock[c] = x
  BY <1>1, BusyCall DEF CallKnows
<1>3. UNCHANGED <<coupon, redeemed, redemption, rows>>
  BY DEF ApplyCheck
<1>4. CASE redemption[t] = None /\ MayRedeem(t, c)
  <2>1. Goto(x, "apply.write") /\ UNCHANGED lock
    BY <1>4 DEF ApplyCheck
  <2>2. /\ call' \in [Calls -> CallStates \cup {Idle}]
        /\ call'[x].at = "apply.write" /\ call'[x].t = t /\ call'[x].c = c
        /\ \A y \in Calls \ {x} : call'[y] = call[y]
    BY <1>1, <1>2, <2>1, ApplyMoves DEF Goto
  <2>3. MayRedeem(t, c)'
    BY <1>3, <1>4, <2>2
       DEF MayRedeem, Eligible, UnderLimit, UnderCap, UsedBy, Used, Redeems
  <2>4. CallKnows(x)'
    BY <1>2, <2>1, <2>2, <2>3 DEF CallKnows
  <2>. QED
    BY <1>1, <1>3, <2>1, <2>2, <2>4, QuietStep DEF TypeOK
<1>5. CASE Commit(x)
  BY <1>3, <1>5, CommitStep
<1>6. CASE call' = [call EXCEPT ![x].at = "refused"] /\ Unlock(x)
  <2>1. /\ call' \in [Calls -> CallStates \cup {Idle}]
        /\ call'[x].at = "refused"
        /\ \A y \in Calls \ {x} : call'[y] = call[y]
    BY <1>1, <1>2, <1>6, ApplyMoves
  <2>2. /\ lock' \in [CouponIds -> Calls \cup {None}]
        /\ \A d \in CouponIds : lock[d] # x => lock'[d] = lock[d]
    BY <1>1, <1>6 DEF Unlock, TypeOK
  <2>3. CallKnows(x)'
    BY <2>1 DEF CallKnows
  <2>. QED
    BY <1>3, <2>1, <2>2, <2>3, QuietStep
<1>. QED
  BY <1>4, <1>5, <1>6 DEF ApplyCheck

LEMMA ReverseFindKeeps ==
  ASSUME IInv, NEW x \in Calls, NEW t \in Targets, ReverseFind(x, t)
  PROVE  IInv'
<1>. DEFINE row == redemption[t]
            new == [at |-> "reverse.lock", t |-> t, c |-> row.coupon, id |-> row.id]
<1>1. TypeOK /\ row # None /\ call' = [call EXCEPT ![x] = new]
  BY DEF IInv, ReverseFind
<1>2. row \in [coupon : CouponIds, id : Nat]
  BY <1>1 DEF TypeOK
<1>3. new \in CallStates
  BY <1>2 DEF CallStates
<1>4. /\ call' \in [Calls -> CallStates \cup {Idle}]
      /\ call'[x] = new
      /\ \A y \in Calls \ {x} : call'[y] = call[y]
  BY <1>1, <1>3 DEF TypeOK
<1>5. UNCHANGED <<coupon, redeemed, redemption, rows, lock>>
  BY DEF ReverseFind
<1>6. call'[x].at = "reverse.lock" /\ call'[x].t = t /\ call'[x].c = row.coupon
      /\ call'[x].id = row.id
  BY <1>4
<1>7. row.id < rows
  BY <1>1 DEF IInv, IdsAreOld
<1>8. CallKnows(x)'
  BY <1>5, <1>6, <1>7 DEF CallKnows
<1>. QED
  BY <1>1, <1>4, <1>5, <1>8, QuietStep DEF TypeOK

LEMMA ReverseLockKeeps ==
  ASSUME IInv, NEW x \in Calls, ReverseLock(x)
  PROVE  IInv'
<1>. DEFINE t == call[x].t
            c == call[x].c
<1>1. TypeOK /\ call[x].at = "reverse.lock" /\ lock[c] = None /\ CallKnows(x)
  BY DEF IInv, ReverseLock, TakeLock
<1>2. t \in Targets /\ c \in CouponIds /\ call[x] \in Reverses
  BY <1>1, BusyCall
<1>3. /\ call' \in [Calls -> CallStates \cup {Idle}]
      /\ call'[x].at = "reverse.write" /\ call'[x].t = t /\ call'[x].c = c
      /\ call'[x].id = call[x].id
      /\ \A y \in Calls \ {x} : call'[y] = call[y]
  BY <1>1, <1>2, ReverseMoves DEF ReverseLock, TakeLock, Goto
<1>4. /\ lock' \in [CouponIds -> Calls \cup {None}] /\ lock'[c] = x
      /\ \A d \in CouponIds : lock[d] # None => lock'[d] = lock[d]
  BY <1>1, <1>2 DEF ReverseLock, TakeLock, TypeOK
<1>5. UNCHANGED <<coupon, redeemed, redemption, rows>>
  BY DEF ReverseLock, TakeLock
<1>6. CallKnows(x)'
  BY <1>1, <1>3, <1>4, <1>5 DEF CallKnows, StillThere
<1>. QED
  BY <1>3, <1>4, <1>5, <1>6, QuietStep

-----------------------------------------------------------------------------
(* The steps that write a row and the counter.  A row appears under a new  *)
(* id, and the counter follows the row in the same transaction.            *)
LEMMA ApplyWriteCounts ==
  ASSUME IInv, NEW x \in Calls, ApplyWrite(x),
         NEW t \in Targets, NEW c \in CouponIds, t = call[x].t, c = call[x].c
  PROVE  /\ Used(c)' = Used(c) \cup {t} /\ t \notin Used(c)
         /\ \A d \in CouponIds \ {c} : Used(d)' = Used(d)
         /\ CounterCountsRedemptions'
<1>. DEFINE new == [coupon |-> c, id |-> rows]
<1>1. TypeOK /\ call[x].at = "apply.write" /\ redemption[t] = None
  BY DEF IInv, ApplyWrite
<1>2. t \in Targets /\ c \in CouponIds
  OBVIOUS
<1>3. new \in [coupon : CouponIds, id : Nat] /\ new # None /\ new.coupon = c
  BY <1>1, <1>2, CouponAssumption DEF TypeOK
<1>4. /\ redemption' = [redemption EXCEPT ![t] = new]
      /\ redeemed' = [redeemed EXCEPT ![c] = @ + 1]
  BY DEF ApplyWrite
<1>5. redemption'[t] = new /\ \A s \in Targets \ {t} : redemption'[s] = redemption[s]
  BY <1>1, <1>2, <1>4 DEF TypeOK
<1>6. \A s \in Targets \ {t}, d \in CouponIds :
        (redemption'[s] # None /\ redemption'[s].coupon = d) <=> Redeems(s, d)
  BY <1>5 DEF Redeems
<1>7. \A d \in CouponIds :
        Used(d)' = {s \in Targets : redemption'[s] # None /\ redemption'[s].coupon = d}
  BY DEF Used, Redeems
<1>8. \A d \in CouponIds : t \notin Used(d)
  BY <1>1 DEF Used, Redeems
<1>9. {s \in Targets : redemption'[s] # None /\ redemption'[s].coupon = c} = Used(c) \cup {t}
  BY <1>2, <1>3, <1>5, <1>6 DEF Used
<1>10. ASSUME NEW d \in CouponIds \ {c}
       PROVE {s \in Targets : redemption'[s] # None /\ redemption'[s].coupon = d} = Used(d)
  BY <1>3, <1>5, <1>6, <1>8 DEF Used
<1>11. ASSUME NEW d \in CouponIds
       PROVE  redeemed'[d]
                = Cardinality({s \in Targets : redemption'[s] # None
                                               /\ redemption'[s].coupon = d})
  <2>1. redeemed[d] = Cardinality(Used(d))
    BY DEF IInv, CounterCountsRedemptions
  <2>2. CASE d = c
    <3>1. IsFiniteSet(Used(c)) /\ Cardinality(Used(c)) \in Nat
      <4>1. Used(c) \subseteq Targets
        BY DEF Used
      <4>. QED
        BY <4>1, FS_Subset, FS_CardinalityType, CouponAssumption
    <3>2. Cardinality(Used(c) \cup {t}) = Cardinality(Used(c)) + 1
      BY <1>2, <1>8, <3>1, FS_AddElement
    <3>3. redeemed'[c] = redeemed[c] + 1
      BY <1>1, <1>2, <1>4 DEF TypeOK
    <3>. QED
      BY <1>9, <2>1, <2>2, <3>2, <3>3
  <2>3. CASE d # c
    <3>1. redeemed'[d] = redeemed[d]
      BY <1>1, <1>2, <1>4, <2>3 DEF TypeOK
    <3>. QED
      BY <1>10, <2>1, <2>3, <3>1
  <2>. QED
    BY <2>2, <2>3
<1>12. CounterCountsRedemptions'
  BY <1>7, <1>11 DEF CounterCountsRedemptions
<1>. QED
  BY <1>2, <1>7, <1>8, <1>9, <1>10, <1>12

LEMMA ApplyWriteKeeps ==
  ASSUME IInv, NEW x \in Calls, ApplyWrite(x)
  PROVE  IInv'
<1>1. TypeOK /\ call[x].at = "apply.write" /\ rows \in Nat /\ CallKnows(x)
  BY DEF IInv, ApplyWrite, TypeOK
<1>2. PICK t \in Targets, c \in CouponIds : t = call[x].t /\ c = call[x].c
  BY <1>1, BusyCall
<1>. DEFINE new == [coupon |-> c, id |-> rows]
<1>3. /\ Used(c)' = Used(c) \cup {t} /\ t \notin Used(c)
      /\ \A d \in CouponIds \ {c} : Used(d)' = Used(d)
      /\ CounterCountsRedemptions'
  BY <1>2, ApplyWriteCounts
<1>4. /\ rows' = rows + 1 /\ coupon' = coupon /\ Commit(x)
      /\ redemption' = [redemption EXCEPT ![t] = new]
      /\ redeemed' = [redeemed EXCEPT ![c] = @ + 1]
  BY <1>2 DEF ApplyWrite
<1>5. new \in [coupon : CouponIds, id : Nat] /\ new.id = rows
  BY <1>1
<1>6. redemption'[t] = new /\ \A s \in Targets \ {t} : redemption'[s] = redemption[s]
  BY <1>1, <1>4 DEF TypeOK
<1>7. TypeOK'
  BY <1>1, <1>4, <1>5, Commits DEF TypeOK
<1>8. IdsAreOld'
  <2>1. SUFFICES ASSUME NEW s \in Targets, redemption'[s] # None
                 PROVE  redemption'[s].id < rows + 1
    BY <1>4 DEF IdsAreOld
  <2>2. CASE s = t
    BY <1>1, <1>5, <1>6, <2>2
  <2>3. CASE s # t
    <3>1. redemption[s] # None /\ redemption'[s] = redemption[s]
      BY <1>6, <2>1, <2>3
    <3>2. redemption[s].id < rows /\ redemption[s] \in [coupon : CouponIds, id : Nat]
      BY <1>1, <3>1 DEF IInv, IdsAreOld, TypeOK
    <3>. QED
      BY <1>1, <3>1, <3>2
  <2>. QED
    BY <2>2, <2>3
<1>9. ASSUME NEW y \in Calls PROVE CallKnows(y)'
  <2>1. CASE y = x
    BY <1>1, <1>4, <2>1, Commits DEF CallKnows
  <2>2. CASE y # x
    <3>1. call'[y] = call[y] /\ rows' \in Nat /\ rows <= rows'
      BY <1>1, <1>4, <2>2, Commits
    <3>2. lock[c] = x
      BY <1>1, <1>2 DEF CallKnows
    <3>3. \A d \in CouponIds : lock[d] = y =>
            /\ lock'[d] = y /\ coupon'[d] = coupon[d] /\ redeemed'[d] = redeemed[d]
            /\ Used(d)' = Used(d)
      <4>1. SUFFICES ASSUME NEW d \in CouponIds, lock[d] = y
                     PROVE  /\ lock'[d] = y /\ coupon'[d] = coupon[d]
                            /\ redeemed'[d] = redeemed[d] /\ Used(d)' = Used(d)
        OBVIOUS
      <4>2. d # c
        BY <2>2, <3>2, <4>1
      <4>3. lock'[d] = y
        BY <1>1, <1>4, <2>2, <4>1, Commits
      <4>4. redeemed'[d] = redeemed[d]
        BY <1>1, <1>4, <4>2 DEF TypeOK
      <4>. QED
        BY <1>3, <1>4, <4>2, <4>3, <4>4
    <3>4. \A s \in Targets :
            redemption'[s] = redemption[s] \/ redemption'[s] = None
            \/ redemption'[s].id = rows
      BY <1>5, <1>6
    <3>. QED
      BY <3>1, <3>3, <3>4, OtherCalls
  <2>. QED
    BY <2>1, <2>2
<1>. QED
  BY <1>3, <1>7, <1>8, <1>9 DEF IInv

LEMMA ReverseWriteKeeps ==
  ASSUME IInv, NEW x \in Calls, ReverseWrite(x)
  PROVE  IInv'
<1>1. /\ TypeOK /\ call[x].at = "reverse.write" /\ rows \in Nat
      /\ CallKnows(x) /\ StillThere(x)
  BY DEF IInv, ReverseWrite, TypeOK
<1>2. PICK t \in Targets, c \in CouponIds : t = call[x].t /\ c = call[x].c
  BY <1>1, BusyCall
<1>3. lock[c] = x /\ redemption[t] # None /\ redemption[t].coupon = c
  BY <1>1, <1>2 DEF CallKnows, StillThere
<1>4. /\ rows' = rows /\ coupon' = coupon /\ Commit(x)
      /\ redemption' = [redemption EXCEPT ![t] = None]
      /\ redeemed' = [redeemed EXCEPT ![c] = @ - 1]
  BY <1>2 DEF ReverseWrite
<1>5. redemption'[t] = None /\ \A s \in Targets \ {t} : redemption'[s] = redemption[s]
  BY <1>1, <1>4 DEF TypeOK
<1>6. IdsAreOld'
  BY <1>4, <1>5 DEF IInv, IdsAreOld
<1>7. ASSUME NEW d \in CouponIds PROVE Used(d)' = Used(d) \ {t}
  BY <1>5 DEF Used, Redeems
<1>8. t \in Used(c) /\ \A d \in CouponIds \ {c} : t \notin Used(d)
  BY <1>3 DEF Used, Redeems
<1>9. ASSUME NEW d \in CouponIds
       PROVE  redeemed'[d] = Cardinality(Used(d)') /\ redeemed'[d] \in Nat
  <2>1. redeemed[d] = Cardinality(Used(d))
    BY DEF IInv, CounterCountsRedemptions
  <2>2. CASE d = c
    <3>1. Used(c) \subseteq Targets
      BY DEF Used
    <3>2. IsFiniteSet(Used(c)) /\ Cardinality(Used(c)) \in Nat
      BY <3>1, FS_Subset, FS_CardinalityType, CouponAssumption
    <3>3. Cardinality(Used(c) \ {t}) = Cardinality(Used(c)) - 1
      BY <1>8, <3>2, FS_RemoveElement
    <3>4. redeemed'[c] = redeemed[c] - 1
      BY <1>1, <1>4 DEF TypeOK
    <3>5. IsFiniteSet(Used(c) \ {t})
      BY <3>2, FS_Subset
    <3>. QED
      BY <1>7, <2>1, <2>2, <3>3, <3>4, <3>5, FS_CardinalityType
  <2>3. CASE d # c
    <3>1. redeemed'[d] = redeemed[d]
      BY <1>1, <1>4, <2>3 DEF TypeOK
    <3>2. Used(d)' = Used(d)
      BY <1>7, <1>8, <2>3
    <3>. QED
      BY <1>1, <2>1, <3>1, <3>2 DEF TypeOK
  <2>. QED
    BY <2>2, <2>3
<1>10. CounterCountsRedemptions'
  BY <1>9 DEF CounterCountsRedemptions
<1>11. TypeOK'
  <2>1. redeemed' \in [CouponIds -> Nat]
    BY <1>1, <1>4, <1>9 DEF TypeOK
  <2>. QED
    BY <1>1, <1>4, <2>1, Commits DEF TypeOK
<1>12. ASSUME NEW y \in Calls PROVE CallKnows(y)'
  <2>1. CASE y = x
    BY <1>1, <1>4, <2>1, Commits DEF CallKnows
  <2>2. CASE y # x
    <3>1. call'[y] = call[y] /\ rows' \in Nat /\ rows <= rows'
      BY <1>1, <1>4, <2>2, Commits
    <3>2. \A d \in CouponIds : lock[d] = y =>
            /\ lock'[d] = y /\ coupon'[d] = coupon[d] /\ redeemed'[d] = redeemed[d]
            /\ Used(d)' = Used(d)
      <4>1. SUFFICES ASSUME NEW d \in CouponIds, lock[d] = y
                     PROVE  /\ lock'[d] = y /\ coupon'[d] = coupon[d]
                            /\ redeemed'[d] = redeemed[d] /\ Used(d)' = Used(d)
        OBVIOUS
      <4>2. d # c
        BY <1>3, <2>2, <4>1
      <4>3. lock'[d] = y
        BY <1>1, <1>4, <2>2, <4>1, Commits
      <4>4. redeemed'[d] = redeemed[d]
        BY <1>1, <1>4, <4>2 DEF TypeOK
      <4>. QED
        BY <1>4, <1>7, <1>8, <4>2, <4>3, <4>4
    <3>3. \A s \in Targets :
            redemption'[s] = redemption[s] \/ redemption'[s] = None
            \/ redemption'[s].id = rows
      BY <1>5
    <3>. QED
      BY <3>1, <3>2, <3>3, OtherCalls
  <2>. QED
    BY <2>1, <2>2
<1>. QED
  BY <1>11, <1>6, <1>10, <1>12 DEF IInv

-----------------------------------------------------------------------------
(* An administrator's update waits for the row lock, so it cannot change   *)
(* the limits between the check and the write of a redemption.             *)
LEMMA AdminUpdateKeeps ==
  ASSUME IInv, NEW c \in CouponIds, NEW new \in CouponRows, AdminUpdate(c, new)
  PROVE  IInv'
<1>1. /\ lock[c] = None /\ coupon' = [coupon EXCEPT ![c] = new]
      /\ UNCHANGED <<redeemed, redemption, rows, lock, call>>
  BY DEF AdminUpdate
<1>2. TypeOK'
  BY <1>1 DEF IInv, TypeOK
<1>3. CounterCountsRedemptions' /\ IdsAreOld'
  BY <1>1 DEF IInv, CounterCountsRedemptions, IdsAreOld, Used, Redeems
<1>4. ASSUME NEW y \in Calls PROVE CallKnows(y)'
  <2>1. \A d \in CouponIds : lock[d] = y =>
          /\ lock'[d] = y /\ coupon'[d] = coupon[d] /\ redeemed'[d] = redeemed[d]
          /\ Used(d)' = Used(d)
    BY <1>1, CouponAssumption DEF IInv, TypeOK, Used, Redeems
  <2>2. call'[y] = call[y] /\ rows' \in Nat /\ rows <= rows'
    BY <1>1 DEF IInv, TypeOK
  <2>. QED
    BY <1>1, <2>1, <2>2, OtherCalls
<1>. QED
  BY <1>2, <1>3, <1>4 DEF IInv

LEMMA InitHolds == Init => IInv
<1>1. SUFFICES ASSUME Init PROVE IInv
  OBVIOUS
<1>2. TypeOK
  BY <1>1 DEF Init, TypeOK
<1>3. \A c \in CouponIds : Used(c) = {}
  BY <1>1 DEF Init, Used, Redeems
<1>4. CounterCountsRedemptions
  BY <1>1, <1>3, FS_EmptySet DEF Init, CounterCountsRedemptions
<1>5. IdsAreOld /\ \A x \in Calls : CallKnows(x)
  BY <1>1 DEF Init, IdsAreOld, CallKnows, Idle
<1>. QED
  BY <1>2, <1>4, <1>5 DEF IInv

LEMMA NextKeeps == IInv /\ [Next]_vars => IInv'
<1>1. SUFFICES ASSUME IInv, [Next]_vars PROVE IInv'
  OBVIOUS
<1>2. CASE UNCHANGED vars
  BY <1>1, <1>2 DEF vars, IInv, TypeOK, CounterCountsRedemptions, IdsAreOld,
     CallKnows, MayRedeem, Eligible, UnderLimit, UnderCap, UsedBy, Used, Redeems,
     StillThere
<1>3. ASSUME NEW x \in Calls, CallStep(x) PROVE IInv'
  <2>1. CASE \E t \in Targets, c \in CouponIds : Preview(x, t, c) \/ PreviewRefused(x, t, c)
    BY <1>1, <2>1, PreviewKeeps
  <2>2. CASE ApplyLock(x)
    BY <1>1, <2>2, ApplyLockKeeps
  <2>3. CASE ApplyCheck(x)
    BY <1>1, <2>3, ApplyCheckKeeps
  <2>4. CASE ApplyWrite(x)
    BY <1>1, <2>4, ApplyWriteKeeps
  <2>5. CASE ApplyConflict(x)
    BY <1>1, <2>5, CommitStep DEF ApplyConflict
  <2>6. CASE \E t \in Targets : ReverseFind(x, t)
    BY <1>1, <2>6, ReverseFindKeeps
  <2>7. CASE ReverseLock(x)
    BY <1>1, <2>7, ReverseLockKeeps
  <2>8. CASE ReverseWrite(x)
    BY <1>1, <2>8, ReverseWriteKeeps
  <2>9. CASE ReverseConflict(x)
    BY <1>1, <2>9, CommitStep DEF ReverseConflict
  <2>10. CASE Abort(x)
    BY <1>1, <2>10, CommitStep DEF Abort
  <2>. QED
    BY <1>3, <2>1, <2>2, <2>3, <2>4, <2>5, <2>6, <2>7, <2>8, <2>9, <2>10 DEF CallStep
<1>4. ASSUME NEW c \in CouponIds, NEW new \in CouponRows, AdminUpdate(c, new) PROVE IInv'
  BY <1>1, <1>4, AdminUpdateKeeps
<1>. QED
  BY <1>1, <1>2, <1>3, <1>4 DEF Next

-----------------------------------------------------------------------------
(* The strengthened invariant holds in every reachable state.              *)
THEOREM Invariance == Spec => []IInv
  BY InitHolds, NextKeeps, PTL DEF Spec

(* Every variable keeps its type.                                          *)
THEOREM TypeCorrect == Spec => []TypeOK
<1>1. IInv => TypeOK
  BY DEF IInv
<1>. QED
  BY <1>1, Invariance, PTL

(* redeemedCount never drifts from the rows that the coupon has.           *)
THEOREM CounterIsExact == Spec => []CounterCountsRedemptions
<1>1. IInv => CounterCountsRedemptions
  BY DEF IInv
<1>. QED
  BY <1>1, Invariance, PTL

-----------------------------------------------------------------------------
(* Only two steps write redemption rows.                                   *)
LEMMA WhoWrites ==
  ASSUME [Next]_vars
  PROVE  redemption' = redemption \/ \E x \in Calls : ApplyWrite(x) \/ ReverseWrite(x)
<1>1. CASE UNCHANGED vars
  BY <1>1 DEF vars
<1>2. CASE \E c \in CouponIds : \E new \in CouponRows : AdminUpdate(c, new)
  BY <1>2 DEF AdminUpdate
<1>3. ASSUME NEW x \in Calls, CallStep(x)
      PROVE  redemption' = redemption \/ ApplyWrite(x) \/ ReverseWrite(x)
  BY <1>3 DEF CallStep, Preview, PreviewRefused, ApplyLock, ReverseLock, TakeLock,
     ApplyCheck, ApplyConflict, ReverseFind, ReverseConflict, Abort
<1>. QED
  BY <1>1, <1>2, <1>3 DEF Next

(* What the two steps do to the table.                                     *)
LEMMA WhatIsWritten ==
  ASSUME IInv, NEW x \in Calls, ApplyWrite(x) \/ ReverseWrite(x)
  PROVE  \E t \in Targets :
           /\ \A s \in Targets \ {t} : redemption'[s] = redemption[s]
           /\ \/ redemption'[t] = None
              \/ ApplyWrite(x) /\ t = call[x].t /\ redemption[t] = None
<1>1. TypeOK /\ call[x].at # "idle"
  BY DEF IInv, ApplyWrite, ReverseWrite
<1>2. PICK t \in Targets : t = call[x].t
  BY <1>1, BusyCall
<1>3. \A s \in Targets \ {t} : redemption'[s] = redemption[s]
  BY <1>1, <1>2 DEF ApplyWrite, ReverseWrite, TypeOK
<1>4. CASE ApplyWrite(x)
  BY <1>2, <1>3, <1>4 DEF ApplyWrite
<1>5. CASE ReverseWrite(x)
  BY <1>1, <1>2, <1>3, <1>5 DEF ReverseWrite, TypeOK
<1>. QED
  BY <1>4, <1>5

(* A redemption is only ever deleted, never exchanged for another.         *)
THEOREM NotReplaced == Spec => RedemptionNotReplaced
<1>1. ASSUME IInv, [Next]_vars, NEW t \in Targets, redemption[t] # None
      PROVE  redemption'[t] \in {redemption[t], None}
  BY <1>1, WhoWrites, WhatIsWritten
<1>2. IInv /\ [Next]_vars =>
        [\A t \in Targets :
           redemption[t] # None => redemption'[t] \in {redemption[t], None}]_vars
  BY <1>1
<1>. QED
  BY <1>2, Invariance, PTL DEF Spec, RedemptionNotReplaced

(* A redemption that is written fits the caps its coupon has at that very  *)
(* moment: the row lock holds the limits, the counter and the user's rows  *)
(* still between the check and the write.                                  *)
LEMMA RedeemStep ==
  ASSUME IInv, [Next]_vars, NEW t \in Targets, NEW c \in CouponIds,
         ~ Redeems(t, c), Redeems(t, c)'
  PROVE  /\ coupon[c].status = "ACTIVE"
         /\ coupon[c].maxRedemptions # None => redeemed'[c] <= coupon[c].maxRedemptions
         /\ coupon[c].perUserLimit > 0 =>
              Cardinality(UsedBy(c, Owner[t])') <= coupon[c].perUserLimit
<1>1. redemption'[t] # redemption[t] /\ redemption'[t] # None
  BY DEF Redeems
<1>2. PICK x \in Calls : ApplyWrite(x) \/ ReverseWrite(x)
  BY <1>1, WhoWrites
<1>3. ApplyWrite(x) /\ t = call[x].t
  BY <1>1, <1>2, WhatIsWritten
<1>4. TypeOK /\ CallKnows(x) /\ call[x].at = "apply.write"
  BY <1>3 DEF IInv, ApplyWrite
<1>5. call[x].c \in CouponIds
  BY <1>4, BusyCall
<1>6. c = call[x].c
  <2>1. redemption'[t].coupon = call[x].c
    BY <1>3, <1>4 DEF ApplyWrite, TypeOK
  <2>. QED
    BY <2>1 DEF Redeems
<1>7. MayRedeem(t, c)
  BY <1>3, <1>4, <1>6 DEF CallKnows
<1>8. Used(c)' = Used(c) \cup {t} /\ t \notin Used(c)
  BY <1>3, <1>6, ApplyWriteCounts
<1>9. coupon[c] \in CouponRows /\ redeemed[c] \in Int /\ redeemed'[c] = redeemed[c] + 1
  BY <1>3, <1>4, <1>6 DEF ApplyWrite, TypeOK
<1>10. /\ coupon[c].maxRedemptions \in Nat \cup {None}
       /\ coupon[c].perUserLimit \in Nat
  <2>1. Limits \subseteq Nat
    BY CouponAssumption
  <2>2. /\ coupon[c].maxRedemptions \in Limits \cup {None}
        /\ coupon[c].perUserLimit \in Limits
    BY <1>9 DEF CouponRows
  <2>. QED
    BY <2>1, <2>2
<1>11. coupon[c].status = "ACTIVE"
  BY <1>7 DEF MayRedeem, Eligible
<1>12. coupon[c].maxRedemptions # None => redeemed'[c] <= coupon[c].maxRedemptions
  BY <1>7, <1>9, <1>10 DEF MayRedeem, UnderCap
<1>13. ASSUME coupon[c].perUserLimit > 0
       PROVE  Cardinality(UsedBy(c, Owner[t])') <= coupon[c].perUserLimit
  <2>1. PICK u \in Users : u = Owner[t]
    BY CouponAssumption
  <2>2. UsedBy(c, u)' = UsedBy(c, u) \cup {t} /\ t \notin UsedBy(c, u)
    BY <1>8, <2>1 DEF UsedBy
  <2>3. IsFiniteSet(UsedBy(c, u)) /\ Cardinality(UsedBy(c, u)) \in Nat
    BY UsedIsFinite
  <2>4. Cardinality(UsedBy(c, u)') = Cardinality(UsedBy(c, u)) + 1
    BY <2>2, <2>3, FS_AddElement
  <2>5. Cardinality(UsedBy(c, u)) < coupon[c].perUserLimit
    BY <1>7, <1>13, <2>1 DEF MayRedeem, UnderLimit
  <2>. QED
    BY <1>10, <2>1, <2>3, <2>4, <2>5
<1>. QED
  BY <1>11, <1>12, <1>13

(* No race of previews, retries and admin edits redeems past a limit.      *)
THEOREM WithinCaps == Spec => RedeemsWithinCaps
<1>1. IInv /\ [Next]_vars =>
        [\A t \in Targets, c \in CouponIds : ~ Redeems(t, c) /\ Redeems(t, c)' =>
           /\ coupon[c].status = "ACTIVE"
           /\ coupon[c].maxRedemptions # None => redeemed'[c] <= coupon[c].maxRedemptions
           /\ coupon[c].perUserLimit > 0 =>
                Cardinality(UsedBy(c, Owner[t])') <= coupon[c].perUserLimit]_vars
  BY RedeemStep
<1>. QED
  BY <1>1, Invariance, PTL DEF Spec, RedeemsWithinCaps

-----------------------------------------------------------------------------
(* The transactions implement the slots of CouponSlots.  Only a milestone  *)
(* gives a slot back: a reversal starts from one, and no step changes the  *)
(* target of a transaction in flight.                                      *)
MilestonesReverse ==
  \A x \in Calls : call[x].at \in {"reverse.lock", "reverse.write"} =>
    call[x].t \in Milestones

LEMMA MilestonesGo ==
  ASSUME TypeOK, MilestonesReverse, [Next]_vars
  PROVE  MilestonesReverse'
<1>1. CASE UNCHANGED vars
  BY <1>1 DEF vars, MilestonesReverse
<1>2. CASE \E c \in CouponIds : \E new \in CouponRows : AdminUpdate(c, new)
  BY <1>2 DEF AdminUpdate, MilestonesReverse
<1>3. ASSUME NEW x \in Calls, CallStep(x),
             NEW y \in Calls, call'[y].at \in {"reverse.lock", "reverse.write"}
      PROVE  call'[y].t \in Milestones
  <2>1. ASSUME Commit(x) PROVE call'[y].t \in Milestones
    <3>1. y # x /\ call'[y] = call[y]
      BY <1>3, <2>1, Commits
    <3>. QED
      BY <1>3, <3>1 DEF MilestonesReverse
  <2>2. ASSUME NEW at \in {"apply.lock", "apply.check", "apply.write", "refused"},
               call[x] \in Applies, call' = [call EXCEPT ![x].at = at]
        PROVE  call'[y].t \in Milestones
    <3>1. y # x /\ call'[y] = call[y]
      BY <1>3, <2>2, ApplyMoves
    <3>. QED
      BY <1>3, <3>1 DEF MilestonesReverse
  <2>3. ASSUME NEW t \in Targets, NEW c \in CouponIds,
               Preview(x, t, c) \/ PreviewRefused(x, t, c)
        PROVE  call'[y].t \in Milestones
    BY <1>3, <2>3 DEF Preview, PreviewRefused, TypeOK, MilestonesReverse
  <2>4. CASE ApplyLock(x)
    <3>1. call[x].at = "apply.lock" /\ call' = [call EXCEPT ![x].at = "apply.check"]
      BY <2>4 DEF ApplyLock, TakeLock, Goto
    <3>. QED
      BY <2>2, <3>1, BusyCall
  <2>5. CASE ApplyCheck(x)
    <3>1. call[x].at = "apply.check"
      BY <2>5 DEF ApplyCheck
    <3>2. \/ Commit(x)
          \/ call' = [call EXCEPT ![x].at = "apply.write"]
          \/ call' = [call EXCEPT ![x].at = "refused"]
      BY <2>5 DEF ApplyCheck, Goto
    <3>. QED
      BY <2>1, <2>2, <3>1, <3>2, BusyCall
  <2>6. CASE ApplyWrite(x) \/ ApplyConflict(x) \/ ReverseWrite(x)
             \/ ReverseConflict(x) \/ Abort(x)
    BY <2>1, <2>6 DEF ApplyWrite, ApplyConflict, ReverseWrite, ReverseConflict, Abort
  <2>7. ASSUME NEW t \in Targets, ReverseFind(x, t) PROVE call'[y].t \in Milestones
    BY <1>3, <2>7 DEF ReverseFind, TypeOK, MilestonesReverse
  <2>8. CASE ReverseLock(x)
    <3>1. call[x].at = "reverse.lock" /\ call' = [call EXCEPT ![x].at = "reverse.write"]
      BY <2>8 DEF ReverseLock, TakeLock, Goto
    <3>2. call'[x].t = call[x].t /\ \A z \in Calls \ {x} : call'[z] = call[z]
      BY <3>1, BusyCall, ReverseMoves
    <3>. QED
      BY <1>3, <3>1, <3>2 DEF MilestonesReverse
  <2>. QED
    BY <1>3, <2>3, <2>4, <2>5, <2>6, <2>7, <2>8 DEF CallStep
<1>. QED
  BY <1>1, <1>2, <1>3 DEF Next, MilestonesReverse

(* The counting of the slots is the counting of the redemptions.           *)
LEMMA SameCount == \A S : Slots!Cardinality(S) = Cardinality(S)
  BY DEF Slots!Cardinality, Cardinality

(* A redemption that is written takes a free slot under the terms of now.  *)
LEMMA WriteTakes ==
  ASSUME IInv, NEW x \in Calls, ApplyWrite(x)
  PROVE  Slots!Next
<1>1. TypeOK /\ CallKnows(x) /\ call[x].at = "apply.write"
  BY DEF IInv, ApplyWrite
<1>2. PICK t \in Targets, c \in CouponIds : t = call[x].t /\ c = call[x].c
  BY <1>1, BusyCall
<1>3. MayRedeem(t, c) /\ redeemed[c] = Cardinality(Used(c))
  BY <1>1, <1>2 DEF CallKnows, IInv, CounterCountsRedemptions
<1>4. Used(c)' = Used(c) \cup {t} /\ \A d \in CouponIds \ {c} : Used(d)' = Used(d)
  BY <1>2, ApplyWriteCounts
<1>5. Slots!Free(t)
  <2>1. redemption[t] = None
    BY <1>2 DEF ApplyWrite
  <2>2. \A d \in CouponIds : t \notin Used(d)
    BY <2>1 DEF Used, Redeems
  <2>. QED
    BY <2>2 DEF Slots!Free
<1>6. Slots!Allows(c, t)
  <2>1. Slots!TakenBy(c, Owner[t]) = UsedBy(c, Owner[t])
    BY DEF Slots!TakenBy, UsedBy
  <2>2. coupon[c].maxRedemptions # None => Cardinality(Used(c)) < coupon[c].maxRedemptions
    BY <1>3 DEF MayRedeem, UnderCap
  <2>3. coupon[c].perUserLimit > 0 =>
          Cardinality(UsedBy(c, Owner[t])) < coupon[c].perUserLimit
    BY <1>3 DEF MayRedeem, UnderLimit
  <2>4. coupon[c].status = "ACTIVE"
    BY <1>3 DEF MayRedeem, Eligible
  <2>. QED
    BY <2>1, <2>2, <2>3, <2>4, SameCount DEF Slots!Allows
<1>7. [d \in CouponIds |-> Used(d)'] =
        [[d \in CouponIds |-> Used(d)] EXCEPT ![c] = Used(c) \cup {t}]
  BY <1>4
<1>8. redeemed' = [redeemed EXCEPT ![c] = redeemed[c] + 1] /\ coupon' = coupon
  BY <1>2 DEF ApplyWrite
<1>9. Slots!Take(c, t)
  BY <1>5, <1>6, <1>7, <1>8 DEF Slots!Take
<1>. QED
  BY <1>9 DEF Slots!Next, Targets

(* A reversal that finds its row gives back the slot of that very row.     *)
LEMMA ReverseGivesBack ==
  ASSUME IInv, MilestonesReverse, NEW x \in Calls, ReverseWrite(x)
  PROVE  Slots!Next
<1>1. TypeOK /\ CallKnows(x) /\ call[x].at = "reverse.write" /\ StillThere(x)
  BY DEF IInv, ReverseWrite
<1>2. PICK t \in Targets, c \in CouponIds : t = call[x].t /\ c = call[x].c
  BY <1>1, BusyCall
<1>3. t \in Milestones
  BY <1>1, <1>2 DEF MilestonesReverse
<1>4. redemption[t] # None /\ redemption[t].coupon = c
  BY <1>1, <1>2 DEF CallKnows, StillThere
<1>5. t \in Used(c) /\ \A d \in CouponIds \ {c} : t \notin Used(d)
  BY <1>4 DEF Used, Redeems
<1>6. redemption'[t] = None /\ \A s \in Targets \ {t} : redemption'[s] = redemption[s]
  BY <1>1, <1>2 DEF ReverseWrite, TypeOK
<1>7. ASSUME NEW d \in CouponIds PROVE Used(d)' = Used(d) \ {t}
  BY <1>6 DEF Used, Redeems
<1>8. [d \in CouponIds |-> Used(d)'] =
        [[d \in CouponIds |-> Used(d)] EXCEPT ![c] = Used(c) \ {t}]
  <2>1. Used(c)' = Used(c) \ {t} /\ \A d \in CouponIds \ {c} : Used(d)' = Used(d)
    BY <1>5, <1>7
  <2>. QED
    BY <2>1
<1>9. redeemed' = [redeemed EXCEPT ![c] = redeemed[c] - 1] /\ coupon' = coupon
  BY <1>2 DEF ReverseWrite
<1>10. Slots!GiveBack(c, t)
  BY <1>5, <1>8, <1>9 DEF Slots!GiveBack
<1>. QED
  BY <1>3, <1>10 DEF Slots!Next

(* Every other step stutters, or changes the terms.                        *)
LEMMA StepsOfSlots ==
  ASSUME IInv, MilestonesReverse, [Next]_vars
  PROVE  [Slots!Next]_(Slots!slotVars)
<1>1. ASSUME UNCHANGED redemption
      PROVE  [d \in CouponIds |-> Used(d)'] = [d \in CouponIds |-> Used(d)]
  BY <1>1 DEF Used, Redeems
<1>2. ASSUME UNCHANGED <<coupon, redeemed, redemption>>
      PROVE  [Slots!Next]_(Slots!slotVars)
  BY <1>1, <1>2 DEF Slots!slotVars
<1>3. CASE UNCHANGED vars
  BY <1>2, <1>3 DEF vars
<1>4. ASSUME NEW c \in CouponIds, NEW new \in CouponRows, AdminUpdate(c, new)
      PROVE  Slots!Next
  <2>1. Slots!ChangeTerms(c)
    BY <1>1, <1>4 DEF AdminUpdate, Slots!ChangeTerms
  <2>. QED
    BY <2>1 DEF Slots!Next
<1>5. ASSUME NEW x \in Calls, CallStep(x)
      PROVE  \/ UNCHANGED <<coupon, redeemed, redemption>>
             \/ ApplyWrite(x) \/ ReverseWrite(x)
  BY <1>5 DEF CallStep, Preview, PreviewRefused, ApplyLock, ReverseLock, TakeLock,
     ApplyCheck, ApplyConflict, ReverseFind, ReverseConflict, Abort
<1>. QED
  BY <1>2, <1>3, <1>4, <1>5, WriteTakes, ReverseGivesBack DEF Next

(* However transactions interleave, they do no more than take and give     *)
(* back slots as the abstract coupons allow.                               *)
THEOREM CouponsImplementSlots == Spec => ImplementsSlots
<1>1. Init => MilestonesReverse
  BY DEF Init, MilestonesReverse, Idle
<1>2. IInv /\ MilestonesReverse /\ [Next]_vars => MilestonesReverse'
  BY MilestonesGo DEF IInv
<1>3. Init => Slots!Init
  BY DEF Init, Slots!Init, Used, Redeems
<1>4. IInv /\ MilestonesReverse /\ [Next]_vars => [Slots!Next]_(Slots!slotVars)
  BY StepsOfSlots
<1>. QED
  BY <1>1, <1>2, <1>3, <1>4, Invariance, PTL DEF Spec, ImplementsSlots, Slots!Spec
=============================================================================
