----------------------------- MODULE Engagement -----------------------------
(***************************************************************************)
(* One contract as the payments and the disputes service share it: Escrow  *)
(* and Disputes side by side over the same contract row.  Neither service  *)
(* calls the other; maybeCompleteContract of one and the mirror and the    *)
(* restore of the other meet in Contract.status and Contract.completedAt.  *)
(***************************************************************************)
EXTENDS Naturals

CONSTANTS Milestones, Coupons, NoCoupon, Requests, Deliveries, AdminRefunds,
          RequestsMayFail, DisputeIds, Calls

VARIABLES milestone, piRow, piCreated, clock, redemption, payout, processed,
          contract, stripePi, firstReply, events, transfers, refunds, req, hook,
          dispute, call

E == INSTANCE Escrow
D == INSTANCE Disputes

escrowOnly == <<milestone, piRow, piCreated, clock, redemption, payout,
                processed, stripePi, firstReply, events, transfers, refunds,
                req, hook>>
disputeOnly == <<dispute, call>>
vars == <<milestone, piRow, piCreated, clock, redemption, payout, processed,
          contract, stripePi, firstReply, events, transfers, refunds, req, hook,
          dispute, call>>

Init == E!Init /\ D!Init

Next == \/ E!Next /\ UNCHANGED disputeOnly
        \/ D!DisputeStep /\ UNCHANGED escrowOnly

Spec == Init /\ [][Next]_vars

-----------------------------------------------------------------------------
(* Seen from the disputes alone, the escrow only ever completes an ACTIVE  *)
(* contract: the two services together implement Disputes, whose invariants *)
(* therefore hold of them.                                                 *)
ImplementsDisputes == D!Spec

(* A contract that completed, or that a dispute gave back as COMPLETED,    *)
(* has no open milestone: a dispute raised and closed while the last       *)
(* milestones settle does not complete it early.                           *)
CompletedMeansSettled ==
  contract.status = "COMPLETED" \/ contract.completedAt => E!Open = {}

(* Once nothing is in flight, no dispute is active and every milestone is  *)
(* settled, the contract is complete (the comment above the call of        *)
(* maybeCompleteContract).  The code breaks this one.                      *)
SettledMeansCompleted ==
  /\ E!Quiet
  /\ \A c \in Calls : call[c] = D!Idle
  /\ D!ActiveDisputes = {}
  /\ E!Open = {}
  => contract.status = "COMPLETED"
=============================================================================
