---------------------------- MODULE MCPromotions ----------------------------
(***************************************************************************)
(* The two paid promotions, a campaign (Ads) and the placements of a       *)
(* subject (Sponsored), and the ranking that placements lift (Matching).   *)
(* The campaigns share no row with the others, and of a placement the      *)
(* ranking reads the weight alone: a behaviour is one module's, and their  *)
(* state spaces add up instead of multiplying.                             *)
(***************************************************************************)
EXTENDS Ads, TLC

CONSTANTS Grants, Checkouts, EditStatuses, MaxTime, Skills, MinYears, MaxMoney,
          MaxCount, Weights, MaxEdits

(* The clock of the placements starts at day 1.                            *)
ASSUME MaxTimeAssumption == MaxTime \in Nat \ {0}

(* Years, rates and counts are numbers; a placement weighs 1 to 50.        *)
ASSUME MatchingAssumption ==
  /\ IsFiniteSet(Skills) /\ MinYears \in Nat \ {0}
  /\ MaxMoney \in Nat /\ MaxCount \in Nat /\ MaxEdits \in Nat
  /\ Weights \subseteq 1 .. 50

VARIABLES focus,
          clock, placement, mirror, checkoutSaved, checkoutPi, checkoutEvents,
          checkoutProcessed, checkoutMissed, handSet, reset, overlapped,
          checkoutCall, checkoutFailures,
          job, skills, trainer, weights, update, edits

placementVars ==
  <<clock, placement, mirror, checkoutSaved, checkoutPi, checkoutEvents,
    checkoutProcessed, checkoutMissed, handSet, reset, overlapped,
    checkoutCall, checkoutFailures>>

matchVars == <<job, skills, trainer, weights, update, edits>>

focusVars == <<focus, vars, placementVars, matchVars>>

P == INSTANCE Sponsored WITH
       piSaved <- checkoutSaved, stripePi <- checkoutPi, events <- checkoutEvents,
       processed <- checkoutProcessed, missed <- checkoutMissed,
       call <- checkoutCall, failures <- checkoutFailures

M == INSTANCE Matching WITH Updates <- Calls

(* The job of the ranking lists skills or the rest: the parts of the score *)
(* are added up, and each is computed from its own columns.                *)
NoJob == [skills |-> [s \in Skills |-> M!Unlisted], languages |-> 0, budget |-> M!NoRange]

PromotionsInit ==
  /\ Init /\ P!Init /\ M!Init
  /\ \/ focus = "sponsored" /\ pricing = "CPC" /\ job = NoJob
     \/ /\ focus \in {"ads", "matching"}
        /\ checkoutFailures = 0 /\ \A p \in P!Placements : placement[p] = P!NoRow
        /\ focus = "ads" => job = NoJob
        /\ focus = "matching" =>
             /\ pricing = "CPC"
             /\ job.skills = NoJob.skills \/ job = [NoJob EXCEPT !.skills = job.skills]

PromotionsNext ==
  \/ focus = "sponsored" /\ P!Next /\ UNCHANGED <<focus, vars, matchVars>>
  \/ focus = "ads" /\ Next /\ UNCHANGED <<focus, placementVars, matchVars>>
  \/ focus = "matching" /\ M!Next /\ UNCHANGED <<focus, vars, placementVars>>

PromotionsSpec == PromotionsInit /\ [][PromotionsNext]_focusVars

Symmetric == Permutations(Calls)

(* The bound of the placements: either a checkout whose calls may fail, or *)
(* one beside grants, up to the first refreshes that overlap.              *)
PlacementBound ==
  \/ focus # "sponsored"
  \/ \A g \in Grants : placement[g] = P!Deleted
  \/ checkoutFailures = MaxFailures /\ ~ overlapped

-----------------------------------------------------------------------------
(* The properties of Sponsored and Matching, stated for the code there.    *)

(* sponsoredUntil is the latest end among the ACTIVE placements.           *)
MirrorIsExact == P!MirrorIsExact

(* What boosts a subject was paid, and what was paid boosts it.            *)
BoostIsPaid == P!BoostIsPaid

(* A rank is in range, rewards what is better, and is not for sale.  (In   *)
(* the other behaviours nobody is ranked.)                                 *)
RankingIsFair == focus = "matching" => M!RankingIsFair
=============================================================================
