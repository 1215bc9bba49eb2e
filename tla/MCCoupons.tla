------------------------------ MODULE MCCoupons ------------------------------
(* Small instances of Coupons for TLC. *)
EXTENDS Coupons, TLC

CONSTANTS alice, bob, m1, m2

(* alice pays for the milestones, bob for the subscription.                *)
TwoUsers == [t \in Targets |-> IF t \in {m1, m2} THEN alice ELSE bob]

(* The milestones have one owner: they are interchangeable too.            *)
Symmetric ==
  Permutations(CouponIds) \cup Permutations(Calls) \cup Permutations(Milestones)
=============================================================================
