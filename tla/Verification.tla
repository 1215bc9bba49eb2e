---------------------------- MODULE Verification ----------------------------
(***************************************************************************)
(* The verification requests of ONE company or trainer profile: its owner  *)
(* submits, admins review, and an admin may set the profile's flag without *)
(* a request.  Submitting reads the profile, then the pending requests,    *)
(* then creates; reviewing reads the request, then claims it.              *)
(***************************************************************************)
CONSTANTS
  Entries,    \* bound: the requests of the profile
  Calls       \* slots: requests in flight

VARIABLES
  verified,   \* Company.verified or TrainerProfile.verified
  request,    \* VerificationRequest.status, "none" without a row
  byAdmin,    \* an admin set the flag without a request
  overlapped, \* an approval came between the reads and the write of a submission
  call        \* requests in flight

ghosts == <<byAdmin, overlapped>>
vars   == <<verified, request, ghosts, call>>

Statuses == {"PENDING", "APPROVED", "REJECTED"}
Decision == [APPROVE |-> "APPROVED", REJECT |-> "REJECTED"]

Idle  == [at |-> "idle"]
Slots == [at : {"submit", "create"}]
           \cup [at : {"review"}, e : Entries, decision : DOMAIN Decision]
           \cup [at : {"set"}, to : BOOLEAN]

Set(c, slot) == call' = [call EXCEPT ![c] = slot]
Return(c)    == Set(c, Idle)

Init ==
  /\ verified = FALSE
  /\ request = [e \in Entries |-> "none"]
  /\ byAdmin = FALSE
  /\ overlapped = FALSE
  /\ call = [c \in Calls |-> Idle]

Pending == {e \in Entries : request[e] = "PENDING"}

-----------------------------------------------------------------------------
(* submit                                                                  *)

Unverified == ~ verified

SubmitProfile(c) ==
  /\ call[c] = Idle
  /\ Unverified
  /\ Set(c, [at |-> "submit"])
  /\ UNCHANGED <<verified, request, ghosts>>

SubmitCheck(c) ==
  /\ call[c].at = "submit"
  /\ IF Pending = {} THEN Set(c, [at |-> "create"]) ELSE Return(c)
  /\ UNCHANGED <<verified, request, ghosts>>

NonePending == Pending = {}

Submitting(c) == call[c].at \in {"submit", "create"}

(* A second PENDING request violates the index and fails.                  *)
SubmitCreate(c, e) ==
  /\ call[c].at = "create"
  /\ request[e] = "none"
  /\ request' = IF NonePending THEN [request EXCEPT ![e] = "PENDING"] ELSE request
  /\ Return(c)
  /\ UNCHANGED <<verified, ghosts>>

-----------------------------------------------------------------------------
(* review                                                                  *)

ReviewRead(c, e, decision) ==
  /\ call[c] = Idle
  /\ request[e] = "PENDING"
  /\ Set(c, [at |-> "review", e |-> e, decision |-> decision])
  /\ UNCHANGED <<verified, request, ghosts>>

(* A variant the checks refute: the decision is written by id.             *)
ClaimById(e) == request[e] # "none"

Claimable(e) == request[e] = "PENDING"

ReviewTx(c) ==
  LET e == call[c].e
      approve == Claimable(e) /\ call[c].decision = "APPROVE"
  IN
  /\ call[c].at = "review"
  /\ request' = IF Claimable(e) THEN [request EXCEPT ![e] = Decision[call[c].decision]]
                                ELSE request
  /\ verified' = (verified \/ approve)
  /\ overlapped' = (overlapped \/ (approve /\ \E d \in Calls : Submitting(d)))
  /\ Return(c)
  /\ UNCHANGED byAdmin

-----------------------------------------------------------------------------
(* setCompanyVerified and setTrainerVerified                               *)

SetRead(c, to) ==
  /\ call[c] = Idle
  /\ verified # to
  /\ Set(c, [at |-> "set", to |-> to])
  /\ UNCHANGED <<verified, request, ghosts>>

SetTx(c) ==
  /\ call[c].at = "set"
  /\ verified' = call[c].to
  /\ byAdmin' = TRUE
  /\ Return(c)
  /\ UNCHANGED <<request, overlapped>>

-----------------------------------------------------------------------------
(* A request stops before it wrote.                                        *)
Stops(c) ==
  /\ call[c] # Idle
  /\ Return(c)
  /\ UNCHANGED <<verified, request, ghosts>>

Next ==
  \E c \in Calls :
    \/ SubmitProfile(c) \/ SubmitCheck(c) \/ Stops(c)
    \/ \E e \in Entries :
         \/ SubmitCreate(c, e)
         \/ \E decision \in DOMAIN Decision : ReviewRead(c, e, decision)
    \/ \E to \in BOOLEAN : SetRead(c, to)
    \/ ReviewTx(c) \/ SetTx(c)

Spec == Init /\ [][Next]_vars

-----------------------------------------------------------------------------
(* Every variable keeps its type.                                          *)
TypeOK ==
  /\ verified \in BOOLEAN
  /\ request \in [Entries -> Statuses \cup {"none"}]
  /\ byAdmin \in BOOLEAN /\ overlapped \in BOOLEAN
  /\ call \in [Calls -> Slots \cup {Idle}]

(* One request waits at a time, however submissions overlap.               *)
OnePending == \A d, e \in Pending : d = e

(* Until an admin sets the flag, a profile is verified exactly when one of *)
(* its requests is approved, whatever reviewers decide at once: nobody     *)
(* rejects what made it so.                                                *)
VerifiedByApproval ==
  ~ byAdmin => (verified <=> \E e \in Entries : request[e] = "APPROVED")

(* No request of a verified profile waits for a review, unless an approval *)
(* came between the reads of a submission and its row.                     *)
VerifiedWaitsForNothing == verified /\ ~ byAdmin /\ ~ overlapped => Pending = {}

(* Verified is what was approved, and nothing is left to review then.      *)
VerificationIsEarned ==
  TypeOK /\ OnePending /\ VerifiedByApproval /\ VerifiedWaitsForNothing
=============================================================================
