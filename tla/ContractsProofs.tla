--------------------------- MODULE ContractsProofs ---------------------------
(***************************************************************************)
(* Proofs about what surrounds a contract: the signatures of its document  *)
(* (ESign), the verification of a profile (Verification), the meetings of  *)
(* a conversation (Interviews), the application and tests that lead to it  *)
(* (Hiring) and its disputes (Disputes), for any number of requests in     *)
(* flight, of verification requests, meetings, tests, tasks and disputes,  *)
(* and any bound of the clock.                                             *)
(* Each is proved of the component alone, then of the behaviours the run   *)
(* "contracts" checks, which are the component's while it is in focus.     *)
(***************************************************************************)
EXTENDS MCContracts, FiniteSetTheorems, TLAPS

-----------------------------------------------------------------------------
(* ESign                                                                   *)

(* The lock leaves one transaction at a time, which holds a status that    *)
(* fits the signatures it will have written.                               *)
SigningTypes ==
  /\ document \in S!Documents \cup {"none"}
  /\ signature \in [S!Roles -> S!Signatures]
  /\ signingCall \in [Calls -> S!Slots \cup {S!Idle}]

OneTransaction ==
  \A c, d \in Calls : signingCall[c] # S!Idle /\ signingCall[d] # S!Idle => c = d

TransactionFits ==
  \A c \in Calls : signingCall[c] # S!Idle =>
    /\ document \notin {"none", "CANCELLED", "FULLY_SIGNED"}
    /\ signature[signingCall[c].role] = "PENDING"
    /\ signingCall[c].next = S!Status(signingCall[c].op, signingCall[c].role)

SigningInv ==
  /\ SigningTypes
  /\ OneTransaction
  /\ TransactionFits
  /\ document = "none" => \A r \in S!Roles : signature[r] = "PENDING"
  /\ S!StatusMatchesSignatures

LEMMA SigningSlot ==
  ASSUME SigningTypes, NEW c \in Calls, signingCall[c] # S!Idle
  PROVE  /\ signingCall[c].at = "tx" /\ signingCall[c].op \in {"sign", "decline"}
         /\ signingCall[c].role \in S!Roles /\ signingCall[c].next \in S!Documents
<1>1. signingCall[c] \in S!Slots
  BY DEF SigningTypes
<1>. QED
  BY <1>1 DEF S!Slots

LEMMA SigningInitially == S!Init => SigningInv
  BY DEF S!Init, SigningInv, SigningTypes, OneTransaction, TransactionFits,
         S!StatusMatchesSignatures, S!Idle, S!Roles, S!Signatures

(* The status a transaction holds is the one its signatures signingCall for.      *)
LEMMA CommitMatches ==
  ASSUME SigningInv, NEW c \in Calls, S!Commit(c)
  PROVE  S!StatusMatchesSignatures'
<1>. DEFINE role == signingCall[c].role
            op   == signingCall[c].op
<1>1. signingCall[c] # S!Idle
  BY DEF S!Commit, S!Idle
<1>2. op \in {"sign", "decline"} /\ role \in S!Roles
  BY <1>1, SigningSlot DEF SigningInv
<1>3. /\ document \notin {"none", "CANCELLED", "FULLY_SIGNED"}
      /\ signature[role] = "PENDING"
      /\ document' = S!Status(op, role)
  BY <1>1 DEF SigningInv, TransactionFits, S!Commit
<1>4. signature' = [signature EXCEPT ![role] = S!Outcome[op]]
  BY DEF S!Commit, S!Signed
<1>5. \A r \in S!Roles : signature[r] # "DECLINED"
  BY <1>3 DEF SigningInv, S!StatusMatchesSignatures
<1>6. CASE op = "decline"
  <2>1. signature'[role] = "DECLINED" /\ document' = "CANCELLED"
    BY <1>2, <1>3, <1>4, <1>6 DEF SigningInv, SigningTypes, S!Outcome, S!Status
  <2>. QED
    BY <1>2, <2>1 DEF S!StatusMatchesSignatures
<1>7. CASE op = "sign"
  <2>1. /\ signature'[role] = "SIGNED"
        /\ \A r \in S!Roles : signature'[r] # "DECLINED"
        /\ signature' = S!Signed(op, role)
    BY <1>2, <1>4, <1>5, <1>7 DEF SigningInv, SigningTypes, S!Outcome, S!Signed
  <2>2. document' = IF \A r \in S!Roles : signature'[r] = "SIGNED"
                      THEN "FULLY_SIGNED" ELSE "PARTIALLY_SIGNED"
    BY <1>3, <1>7, <2>1 DEF S!Status
  <2>. QED
    BY <1>2, <2>1, <2>2 DEF S!StatusMatchesSignatures
<1>. QED
  BY <1>2, <1>6, <1>7

LEMMA SigningInductive == SigningInv /\ [S!Next]_S!vars => SigningInv'
<1>. SUFFICES ASSUME SigningInv, [S!Next]_S!vars PROVE SigningInv'
  OBVIOUS
<1>1. ASSUME NEW expiry, S!Create(expiry) PROVE SigningInv'
  <2>1. \A c \in Calls : signingCall[c] = S!Idle
    BY <1>1 DEF SigningInv, TransactionFits, S!Create
  <2>2. \A r \in S!Roles : signature[r] = "PENDING"
    BY <1>1 DEF SigningInv, S!Create
  <2>. QED
    BY <1>1, <2>1, <2>2 DEF S!Create, SigningInv, SigningTypes, OneTransaction,
       TransactionFits, S!StatusMatchesSignatures, S!Documents, S!Roles
<1>2. ASSUME NEW c \in Calls, NEW op \in {"sign", "decline"}, NEW role \in S!Roles,
             S!Begin(c, op, role)
      PROVE  SigningInv'
  <2>. DEFINE slot == [at |-> "tx", op |-> op, role |-> role,
                       next |-> S!Status(op, role)]
  <2>1. slot \in S!Slots
    BY DEF S!Slots, S!Status, S!Documents
  <2>2. SigningTypes' /\ signingCall' = [signingCall EXCEPT ![c] = slot]
    BY <1>2, <2>1 DEF S!Begin, S!Set, SigningInv, SigningTypes
  <2>3. signingCall'[c] = slot /\ \A d \in Calls \ {c} : signingCall'[d] = S!Idle
    BY <1>2, <2>2 DEF SigningInv, SigningTypes, S!Begin, S!lockDocumentRow
  <2>4. document # "FULLY_SIGNED"
    BY <1>2 DEF SigningInv, S!StatusMatchesSignatures, S!Begin
  <2>5. TransactionFits'
    BY <1>2, <2>3, <2>4 DEF TransactionFits, S!Begin, S!Status, S!Signed
  <2>. QED
    BY <1>2, <2>2, <2>3, <2>5 DEF S!Begin, SigningInv, OneTransaction,
       S!StatusMatchesSignatures
<1>3. ASSUME NEW c \in Calls, S!Commit(c) PROVE SigningInv'
  <2>1. signingCall[c] # S!Idle
    BY <1>3 DEF S!Commit, S!Idle
  <2>2. /\ signingCall[c].op \in {"sign", "decline"}
        /\ signingCall[c].role \in S!Roles /\ signingCall[c].next \in S!Documents
    BY <2>1, SigningSlot DEF SigningInv
  <2>3. SigningTypes'
    BY <1>3, <2>2 DEF S!Commit, S!Return, S!Set, S!Signed, S!Outcome, S!Signatures,
       SigningInv, SigningTypes
  <2>4. \A d \in Calls : signingCall'[d] = S!Idle
    BY <1>3, <2>1 DEF S!Commit, S!Return, S!Set, SigningInv, SigningTypes,
       OneTransaction
  <2>5. document' # "none"
    BY <1>3, <2>2 DEF S!Commit, S!Documents
  <2>. QED
    BY <1>3, <2>3, <2>4, <2>5, CommitMatches DEF SigningInv, OneTransaction,
       TransactionFits
<1>4. ASSUME NEW c \in Calls, S!RollBack(c) PROVE SigningInv'
  <2>1. \A d \in Calls : signingCall'[d] = signingCall[d] \/ signingCall'[d] = S!Idle
    BY <1>4 DEF S!RollBack, S!Return, S!Set, SigningInv, SigningTypes
  <2>. QED
    BY <1>4, <2>1 DEF S!RollBack, S!Return, S!Set, SigningInv, SigningTypes,
       OneTransaction, TransactionFits, S!StatusMatchesSignatures, S!Status, S!Signed
<1>5. CASE S!NextDay \/ UNCHANGED S!vars
  BY <1>5 DEF S!NextDay, S!vars, SigningInv, SigningTypes, OneTransaction,
     TransactionFits, S!StatusMatchesSignatures, S!Status, S!Signed
<1>. QED
  BY <1>1, <1>2, <1>3, <1>4, <1>5 DEF S!Next

LEMMA SigningInvariance == S!Spec => []SigningInv
  BY SigningInitially, SigningInductive, PTL DEF S!Spec

(* The clock and the expiry, which no other part depends on.               *)
SigningClock ==
  signingDay \in S!Days /\ expiresAt \in {{}} \cup {{day} : day \in S!Days}

LEMMA SigningTypeCorrect == S!Spec => []S!TypeOK
<1>1. S!Init => SigningClock
  BY LastDayAssumption DEF S!Init, SigningClock, S!Days
<1>2. SigningClock /\ [S!Next]_S!vars => SigningClock'
  <2>. SUFFICES ASSUME SigningClock, [S!Next]_S!vars PROVE SigningClock'
    OBVIOUS
  <2>1. ASSUME NEW expiry \in {{}} \cup {{day} : day \in S!Days}, S!Create(expiry)
        PROVE  SigningClock'
    BY <2>1 DEF S!Create, SigningClock
  <2>2. CASE S!NextDay
    BY <2>2, LastDayAssumption DEF S!NextDay, SigningClock, S!Days
  <2>3. CASE UNCHANGED <<signingDay, expiresAt>>
    BY <2>3 DEF SigningClock
  <2>. QED
    BY <2>1, <2>2, <2>3 DEF S!Next, S!Begin, S!Commit, S!RollBack, S!vars
<1>3. SigningInv /\ SigningClock => S!TypeOK
  BY DEF SigningInv, SigningTypes, SigningClock, S!TypeOK
<1>. QED
  BY <1>1, <1>2, <1>3, SigningInvariance, PTL DEF S!Spec

(* Whoever signs and declines at once, the document says what its          *)
(* signatures say: FULLY_SIGNED with both and never without.               *)
THEOREM DocumentMatches == S!Spec => []S!StatusMatchesSignatures
<1>1. SigningInv => S!StatusMatchesSignatures
  BY DEF SigningInv
<1>. QED
  BY <1>1, SigningInvariance, PTL

(* A decided document stays decided and no signature is taken back.        *)
THEOREM DecisionsStand == S!Spec => S!SignaturesAreFinal
<1>1. SigningInv /\ [S!Next]_S!vars => [S!FinalStep]_S!vars
  <2>. SUFFICES ASSUME SigningInv, S!Next PROVE S!FinalStep
    OBVIOUS
  <2>1. ASSUME NEW expiry, S!Create(expiry) PROVE S!FinalStep
    BY <2>1 DEF S!Create, S!FinalStep
  <2>2. ASSUME NEW c \in Calls, NEW op, NEW role, S!Begin(c, op, role)
        PROVE  S!FinalStep
    BY <2>2 DEF S!Begin, S!FinalStep
  <2>3. ASSUME NEW c \in Calls, S!Commit(c) PROVE S!FinalStep
    <3>1. signingCall[c] # S!Idle
      BY <2>3 DEF S!Commit, S!Idle
    <3>2. /\ document \notin {"CANCELLED", "FULLY_SIGNED"}
          /\ signature[signingCall[c].role] = "PENDING"
      BY <3>1 DEF SigningInv, TransactionFits
    <3>3. \A r \in S!Roles : r # signingCall[c].role => signature'[r] = signature[r]
      BY <2>3 DEF S!Commit, S!Signed, SigningInv, SigningTypes
    <3>. QED
      BY <3>2, <3>3 DEF S!FinalStep
  <2>4. ASSUME NEW c \in Calls, S!RollBack(c) PROVE S!FinalStep
    BY <2>4 DEF S!RollBack, S!FinalStep
  <2>5. CASE S!NextDay
    BY <2>5 DEF S!NextDay, S!FinalStep
  <2>. QED
    BY <2>1, <2>2, <2>3, <2>4, <2>5 DEF S!Next
<1>. QED
  BY <1>1, SigningInvariance, PTL DEF S!Spec, S!SignaturesAreFinal

-----------------------------------------------------------------------------
(* Verification                                                            *)

VerificationTypes ==
  /\ verified \in BOOLEAN
  /\ request \in [DisputeIds -> V!Statuses \cup {"none"}]
  /\ byAdmin \in BOOLEAN /\ approvedMeanwhile \in BOOLEAN
  /\ verificationCall \in [Calls -> V!Slots \cup {V!Idle}]

(* A submission whose profile was approved in the meantime is counted.     *)
SubmissionsAreEarly ==
  ~ byAdmin /\ ~ approvedMeanwhile /\ verified => \A c \in Calls : ~ V!Submitting(c)

VerificationInv ==
  /\ VerificationTypes
  /\ SubmissionsAreEarly
  /\ V!OnePending
  /\ V!VerifiedByApproval
  /\ V!VerifiedWaitsForNothing

LEMMA VerificationInitially == V!Init => VerificationInv
  BY DEF V!Init, VerificationInv, VerificationTypes, SubmissionsAreEarly, V!OnePending,
     V!VerifiedByApproval, V!VerifiedWaitsForNothing, V!Pending, V!Idle, V!Submitting

(* A request that changes neither the profile nor a row, and does not      *)
(* begin a submission of a verified profile.                               *)
LEMMA VerificationQuiet ==
  ASSUME VerificationInv, NEW c \in Calls, NEW slot \in V!Slots \cup {V!Idle},
         verificationCall' = [verificationCall EXCEPT ![c] = slot],
         UNCHANGED <<verified, request, byAdmin, approvedMeanwhile>>,
         slot.at \in {"submit", "create"} => ~ verified
  PROVE  VerificationInv'
<1>1. VerificationTypes'
  BY DEF VerificationInv, VerificationTypes
<1>2. SubmissionsAreEarly'
  BY DEF VerificationInv, VerificationTypes, SubmissionsAreEarly, V!Submitting
<1>3. V!OnePending' /\ V!VerifiedByApproval' /\ V!VerifiedWaitsForNothing'
  BY DEF VerificationInv, V!OnePending, V!VerifiedByApproval,
     V!VerifiedWaitsForNothing, V!Pending
<1>. QED
  BY <1>1, <1>2, <1>3 DEF VerificationInv

LEMMA SubmitCreateKeeps ==
  ASSUME VerificationInv, NEW c \in Calls, NEW e \in DisputeIds, V!SubmitCreate(c, e)
  PROVE  VerificationInv'
<1>1. CASE ~ V!NonePending
  <2>1. verificationCall' = [verificationCall EXCEPT ![c] = V!Idle] /\ UNCHANGED request
    BY <1>1 DEF V!SubmitCreate, V!Return, V!Set
  <2>2. UNCHANGED <<verified, request, byAdmin, approvedMeanwhile>>
    BY <2>1 DEF V!SubmitCreate, V!ghosts
  <2>3. V!Idle.at \notin {"submit", "create"}
    BY DEF V!Idle
  <2>. QED
    BY <2>1, <2>2, <2>3, VerificationQuiet
<1>2. CASE V!NonePending
  <2>1. /\ request[e] = "none" /\ request' = [request EXCEPT ![e] = "PENDING"]
        /\ \A d \in DisputeIds : request[d] # "PENDING"
        /\ UNCHANGED <<verified, byAdmin, approvedMeanwhile>>
        /\ verificationCall' = [verificationCall EXCEPT ![c] = V!Idle]
        /\ V!Submitting(c)
    BY <1>2 DEF V!SubmitCreate, V!NonePending, V!Pending, V!Return, V!Set, V!ghosts,
       V!Submitting
  <2>2. VerificationTypes'
    BY <2>1 DEF VerificationInv, VerificationTypes, V!Statuses
  <2>3. SubmissionsAreEarly'
    BY <2>1 DEF VerificationInv, VerificationTypes, SubmissionsAreEarly, V!Submitting,
       V!Idle
  <2>4. V!OnePending'
    BY <2>1 DEF VerificationInv, VerificationTypes, V!OnePending, V!Pending
  <2>5. V!VerifiedByApproval'
    BY <2>1 DEF VerificationInv, VerificationTypes, V!VerifiedByApproval
  <2>6. V!VerifiedWaitsForNothing'
    BY <2>1 DEF VerificationInv, SubmissionsAreEarly, V!VerifiedWaitsForNothing
  <2>. QED
    BY <2>2, <2>3, <2>4, <2>5, <2>6 DEF VerificationInv
<1>. QED
  BY <1>1, <1>2

LEMMA ReviewKeeps ==
  ASSUME VerificationInv, NEW c \in Calls, V!ReviewTx(c)
  PROVE  VerificationInv'
<1>1. PICK e \in DisputeIds, decision \in DOMAIN V!Decision :
        verificationCall[c].e = e /\ verificationCall[c].decision = decision
  <2>1. verificationCall[c] \in V!Slots
    BY DEF VerificationInv, VerificationTypes, V!ReviewTx, V!Idle
  <2>. QED
    BY <2>1 DEF V!Slots, V!ReviewTx
<1>2. verificationCall' = [verificationCall EXCEPT ![c] = V!Idle] /\ V!Idle.at \notin {"submit", "create"}
  BY DEF V!ReviewTx, V!Return, V!Set, V!Idle
<1>3. CASE ~ V!Claimable(e)
  <2>1. UNCHANGED <<verified, request, byAdmin, approvedMeanwhile>>
    BY <1>1, <1>3 DEF V!ReviewTx, VerificationInv, VerificationTypes
  <2>. QED
    BY <1>2, <2>1, VerificationQuiet
<1>4. CASE V!Claimable(e)
  <2>1. /\ request[e] = "PENDING"
        /\ request' = [request EXCEPT ![e] = V!Decision[decision]]
        /\ verified' = (verified \/ decision = "APPROVE")
        /\ approvedMeanwhile' = (approvedMeanwhile \/ (decision = "APPROVE"
                                         /\ \E d \in Calls : V!Submitting(d)))
        /\ UNCHANGED byAdmin
    BY <1>1, <1>4 DEF V!ReviewTx, V!Claimable
  <2>2. /\ V!Decision[decision] \in {"APPROVED", "REJECTED"}
        /\ V!Decision[decision] = "APPROVED" <=> decision = "APPROVE"
    BY DEF V!Decision
  <2>3. VerificationTypes'
    BY <1>2, <2>1, <2>2 DEF VerificationInv, VerificationTypes, V!Statuses
  <2>4. \A d \in Calls : V!Submitting(d)' => V!Submitting(d)
    BY <1>2 DEF VerificationInv, VerificationTypes, V!Submitting
  <2>5. SubmissionsAreEarly'
    BY <2>1, <2>4 DEF VerificationInv, VerificationTypes, SubmissionsAreEarly
  <2>6. \A d \in DisputeIds : request'[d] # "PENDING"
    BY <2>1, <2>2 DEF VerificationInv, VerificationTypes, V!OnePending, V!Pending
  <2>7. V!OnePending' /\ V!VerifiedWaitsForNothing'
    BY <2>6 DEF V!OnePending, V!VerifiedWaitsForNothing, V!Pending
  <2>8. request'[e] = V!Decision[decision]
          /\ \A d \in DisputeIds \ {e} : request'[d] = request[d]
    BY <2>1 DEF VerificationInv, VerificationTypes
  <2>9. V!VerifiedByApproval'
    BY <2>1, <2>2, <2>8 DEF VerificationInv, VerificationTypes, V!VerifiedByApproval
  <2>. QED
    BY <2>3, <2>5, <2>7, <2>9 DEF VerificationInv
<1>. QED
  BY <1>3, <1>4

LEMMA VerificationInductive == VerificationInv /\ [V!Next]_V!vars => VerificationInv'
<1>. SUFFICES ASSUME VerificationInv, [V!Next]_V!vars PROVE VerificationInv'
  OBVIOUS
<1>1. ASSUME NEW c \in Calls, V!SubmitProfile(c) \/ V!SubmitCheck(c)
      PROVE  VerificationInv'
  <2>1. PICK slot \in V!Slots \cup {V!Idle} :
          /\ verificationCall' = [verificationCall EXCEPT ![c] = slot]
          /\ slot \in {[at |-> "submit"], [at |-> "create"], V!Idle}
    BY <1>1 DEF V!SubmitProfile, V!SubmitCheck, V!Set, V!Return, V!Slots
  <2>2. UNCHANGED <<verified, request, byAdmin, approvedMeanwhile>>
    BY <1>1 DEF V!SubmitProfile, V!SubmitCheck, V!ghosts
  <2>3. CASE V!SubmitProfile(c)
    BY <2>1, <2>2, <2>3, VerificationQuiet DEF V!SubmitProfile, V!Unverified
  <2>4. CASE V!SubmitCheck(c)
    <3>1. VerificationTypes'
      BY <2>1, <2>2 DEF VerificationInv, VerificationTypes
    <3>2. SubmissionsAreEarly'
      BY <2>1, <2>2, <2>4 DEF VerificationInv, VerificationTypes,
         SubmissionsAreEarly, V!Submitting, V!SubmitCheck
    <3>. QED
      BY <2>2, <3>1, <3>2 DEF VerificationInv, V!OnePending, V!VerifiedByApproval,
         V!VerifiedWaitsForNothing, V!Pending
  <2>. QED
    BY <1>1, <2>3, <2>4
<1>2. ASSUME NEW c \in Calls, V!Stops(c) PROVE VerificationInv'
  BY <1>2, VerificationQuiet DEF V!Stops, V!Return, V!Set, V!Idle, V!ghosts
<1>3. ASSUME NEW c \in Calls, NEW e \in DisputeIds, NEW decision \in DOMAIN V!Decision,
             V!ReviewRead(c, e, decision)
      PROVE  VerificationInv'
  <2>. DEFINE slot == [at |-> "review", e |-> e, decision |-> decision]
  <2>1. slot \in V!Slots /\ slot.at \notin {"submit", "create"}
    BY DEF V!Slots
  <2>2. verificationCall' = [verificationCall EXCEPT ![c] = slot]
        /\ UNCHANGED <<verified, request, byAdmin, approvedMeanwhile>>
    BY <1>3 DEF V!ReviewRead, V!Set, V!ghosts
  <2>. HIDE DEF slot
  <2>. QED
    BY <2>1, <2>2, VerificationQuiet
<1>4. ASSUME NEW c \in Calls, NEW to \in BOOLEAN, V!SetRead(c, to)
      PROVE  VerificationInv'
  <2>. DEFINE slot == [at |-> "set", to |-> to]
  <2>1. slot \in V!Slots /\ slot.at \notin {"submit", "create"}
    BY DEF V!Slots
  <2>2. verificationCall' = [verificationCall EXCEPT ![c] = slot]
        /\ UNCHANGED <<verified, request, byAdmin, approvedMeanwhile>>
    BY <1>4 DEF V!SetRead, V!Set, V!ghosts
  <2>. HIDE DEF slot
  <2>. QED
    BY <2>1, <2>2, VerificationQuiet
<1>5. ASSUME NEW c \in Calls, V!SetTx(c) PROVE VerificationInv'
  <2>1. verificationCall[c] \in V!Slots
    BY <1>5 DEF VerificationInv, VerificationTypes, V!SetTx, V!Idle
  <2>2. verified' \in BOOLEAN
    BY <1>5, <2>1 DEF V!SetTx, V!Slots
  <2>. QED
    BY <1>5, <2>2 DEF V!SetTx, V!Return, V!Set, VerificationInv, VerificationTypes,
       SubmissionsAreEarly, V!OnePending, V!VerifiedByApproval,
       V!VerifiedWaitsForNothing, V!Pending
<1>6. CASE UNCHANGED V!vars
  BY <1>6 DEF V!vars, V!ghosts, VerificationInv, VerificationTypes,
     SubmissionsAreEarly, V!OnePending, V!VerifiedByApproval,
     V!VerifiedWaitsForNothing, V!Pending, V!Submitting
<1>. QED
  BY <1>1, <1>2, <1>3, <1>4, <1>5, <1>6, SubmitCreateKeeps, ReviewKeeps DEF V!Next

LEMMA VerificationInvariance == V!Spec => []VerificationInv
  BY VerificationInitially, VerificationInductive, PTL DEF V!Spec

(* However submissions overlap, one request of a profile waits at a time.  *)
THEOREM OneWaits == V!Spec => []V!OnePending
<1>1. VerificationInv => V!OnePending
  BY DEF VerificationInv
<1>. QED
  BY <1>1, VerificationInvariance, PTL

(* A profile is verified exactly when a request of it was approved, until  *)
(* an admin sets the flag, whatever reviewers decide at once.              *)
THEOREM ApprovalVerifies == V!Spec => []V!VerifiedByApproval
<1>1. VerificationInv => V!VerifiedByApproval
  BY DEF VerificationInv
<1>. QED
  BY <1>1, VerificationInvariance, PTL

(* No request of a verified profile waits, unless its submission           *)
(* approvedMeanwhile with the approval.                                           *)
THEOREM VerifiedIsDone == V!Spec => []V!VerifiedWaitsForNothing
<1>1. VerificationInv => V!VerifiedWaitsForNothing
  BY DEF VerificationInv
<1>. QED
  BY <1>1, VerificationInvariance, PTL

-----------------------------------------------------------------------------
(* Interviews                                                              *)

MeetingTypes ==
  /\ meeting \in [DisputeIds -> I!MeetingRows \cup {I!NoRow}]
  /\ meetingCall \in [Calls -> I!Slots \cup {I!Idle}]

(* DisputeIds in somebody's hands exist.                                     *)
MeetingsExist ==
  /\ \A c \in Calls : meetingCall[c] # I!Idle => meeting[meetingCall[c].m] # I!NoRow
  /\ \A n \in DisputeIds : \A m \in meeting[n].from : meeting[m] # I!NoRow

(* A meeting that never was in two transactions at once is in one at most, *)
(* and that one finds it as it read it.                                    *)
AloneIsFresh ==
  \A c \in Calls : meetingCall[c] # I!Idle /\ meetingCall[c].at = "tx" /\ meetingCall[c].m \notin overlapped =>
    /\ I!Scheduled(meetingCall[c].m)
    /\ \A d \in I!InTransaction(meetingCall[c].m) : d = c

MeetingInv ==
  /\ MeetingTypes
  /\ MeetingsExist
  /\ AloneIsFresh
  /\ I!OneSuccessor

LEMMA MeetingRow ==
  ASSUME NEW old \in I!MeetingRows, NEW status \in {"CANCELLED", "COMPLETED"}
  PROVE  /\ [old EXCEPT !.status = status] \in I!MeetingRows
         /\ [old EXCEPT !.status = status].status = status
         /\ [old EXCEPT !.status = status].from = old.from
  BY DEF I!MeetingRows

LEMMA NewMeeting ==
  ASSUME NEW day \in I!Days, NEW from, from = {} \/ \E m \in DisputeIds : from = {m}
  PROVE  \E new \in I!MeetingRows :
           /\ new = [status |-> "SCHEDULED", day |-> day, from |-> from]
           /\ new.status = "SCHEDULED" /\ new.from = from
<1>. DEFINE new == [status |-> "SCHEDULED", day |-> day, from |-> from]
<1>1. from \in {{}} \cup {{m} : m \in DisputeIds}
  OBVIOUS
<1>2. new \in I!MeetingRows
  BY <1>1 DEF I!MeetingRows
<1>3. new.status = "SCHEDULED" /\ new.from = from
  OBVIOUS
<1>. QED
  BY <1>2, <1>3

LEMMA MeetingFacts ==
  ASSUME MeetingTypes, NEW n \in DisputeIds
  PROVE  /\ meeting[n] # I!NoRow => meeting[n] \in I!MeetingRows
         /\ meeting[n] # I!NoRow <=> meeting[n].status # "none"
         /\ meeting[n] = I!NoRow => meeting[n].from = {}
         /\ meeting[n].from \subseteq DisputeIds
<1>1. CASE meeting[n] = I!NoRow
  BY <1>1 DEF I!NoRow
<1>2. CASE meeting[n] # I!NoRow
  <2>1. meeting[n] \in I!MeetingRows
    BY <1>2 DEF MeetingTypes
  <2>2. /\ meeting[n].status \in {"SCHEDULED", "CANCELLED", "COMPLETED"}
        /\ meeting[n].from \in {{}} \cup {{m} : m \in DisputeIds}
    BY <2>1 DEF I!MeetingRows
  <2>. QED
    BY <1>2, <2>1, <2>2
<1>. QED
  BY <1>1, <1>2

LEMMA MeetingSlot ==
  ASSUME MeetingTypes, NEW c \in Calls, meetingCall[c] # I!Idle
  PROVE  /\ meetingCall[c].m \in DisputeIds /\ meetingCall[c].at \in {"read", "tx"}
         /\ meetingCall[c].op \in I!Operations /\ meetingCall[c].day \in I!Days
         /\ \A at \in {"read", "tx"} : [meetingCall[c] EXCEPT !.at = at] \in I!Slots
<1>1. meetingCall[c] \in I!Slots
  BY DEF MeetingTypes
<1>. QED
  BY <1>1 DEF I!Slots

LEMMA MeetingInitially == I!Init => MeetingInv
<1>. SUFFICES ASSUME I!Init PROVE MeetingInv
  OBVIOUS
<1>1. /\ \A m \in DisputeIds : meeting[m] = I!NoRow /\ meeting[m].from = {}
      /\ \A c \in Calls : meetingCall[c] = I!Idle
  BY DEF I!Init, I!NoRow
<1>2. MeetingTypes
  BY DEF I!Init, MeetingTypes
<1>3. MeetingsExist /\ AloneIsFresh /\ I!OneSuccessor
  BY <1>1 DEF MeetingsExist, AloneIsFresh, I!OneSuccessor
<1>. QED
  BY <1>2, <1>3 DEF MeetingInv

LEMMA Predecessor ==
  ASSUME MeetingInv, NEW n \in DisputeIds, NEW m \in DisputeIds, meeting[n].from = {m}
  PROVE  meeting[m] # I!NoRow
<1>1. m \in meeting[n].from
  OBVIOUS
<1>. QED
  BY <1>1 DEF MeetingInv, MeetingsExist

(* Rows stay, and new ones follow rows.                                    *)
LEMMA StillExist ==
  ASSUME MeetingInv,
         \A n \in DisputeIds : meeting[n] # I!NoRow => meeting'[n] # I!NoRow,
         \A c \in Calls : meetingCall'[c] # I!Idle => meetingCall'[c] = meetingCall[c],
         \A n \in DisputeIds :
           \/ meeting'[n].from = meeting[n].from
           \/ \E m \in DisputeIds : meeting'[n].from = {m} /\ meeting[m] # I!NoRow
  PROVE  MeetingsExist'
<1>1. ASSUME NEW c \in Calls, meetingCall'[c] # I!Idle PROVE meeting'[meetingCall'[c].m] # I!NoRow
  <2>1. meetingCall'[c] = meetingCall[c] /\ meetingCall[c].m \in DisputeIds /\ meeting[meetingCall[c].m] # I!NoRow
    BY <1>1, MeetingSlot DEF MeetingInv, MeetingsExist
  <2>. QED
    BY <2>1
<1>2. ASSUME NEW n \in DisputeIds, NEW m \in meeting'[n].from
      PROVE  meeting'[m] # I!NoRow
  <2>1. CASE meeting'[n].from = meeting[n].from
    <3>1. m \in meeting[n].from /\ m \in DisputeIds
      BY <1>2, <2>1, MeetingFacts DEF MeetingInv
    <3>. QED
      BY <3>1 DEF MeetingInv, MeetingsExist
  <2>2. CASE \E x \in DisputeIds : meeting'[n].from = {x} /\ meeting[x] # I!NoRow
    BY <1>2, <2>2
  <2>. QED
    BY <2>1, <2>2
<1>. QED
  BY <1>1, <1>2 DEF MeetingsExist

(* A request that ends or begins its first read.                           *)
LEMMA MeetingQuiet ==
  ASSUME MeetingInv, NEW c \in Calls, NEW slot \in I!Slots \cup {I!Idle},
         meetingCall' = [meetingCall EXCEPT ![c] = slot], UNCHANGED <<meeting, overlapped>>,
         slot # I!Idle => slot.at = "read" /\ meeting[slot.m] # I!NoRow
  PROVE  MeetingInv'
<1>1. MeetingTypes' /\ MeetingsExist' /\ I!OneSuccessor'
  BY DEF MeetingInv, MeetingTypes, MeetingsExist, I!OneSuccessor, I!Scheduled
<1>2. \A d \in Calls : meetingCall'[d] # I!Idle /\ meetingCall'[d].at = "tx" => meetingCall'[d] = meetingCall[d]
  BY DEF MeetingInv, MeetingTypes
<1>3. \A m : I!InTransaction(m)' \subseteq I!InTransaction(m)
  <2>1. slot.at # "tx"
    BY DEF I!Idle
  <2>. QED
    BY <2>1 DEF MeetingInv, MeetingTypes, I!InTransaction
<1>4. AloneIsFresh'
  BY <1>2, <1>3 DEF MeetingInv, AloneIsFresh, I!Scheduled
<1>. QED
  BY <1>1, <1>4 DEF MeetingInv

LEMMA TxReadKeeps ==
  ASSUME MeetingInv, NEW c \in Calls, I!TxRead(c)
  PROVE  MeetingInv'
<1>. DEFINE m == meetingCall[c].m
<1>1. meetingCall[c] # I!Idle /\ meetingCall[c].at = "read" /\ I!Scheduled(m)
  BY DEF I!TxRead, I!Idle, I!Fresh
<1>2. PICK slot \in I!Slots : slot = [meetingCall[c] EXCEPT !.at = "tx"]
  BY <1>1, MeetingSlot DEF MeetingInv
<1>3. /\ meetingCall' = [meetingCall EXCEPT ![c] = slot] /\ UNCHANGED meeting
      /\ slot.at = "tx" /\ slot.m = m /\ slot # I!Idle
  <2>1. meetingCall[c] \in I!Slots
    BY <1>1 DEF MeetingInv, MeetingTypes
  <2>. QED
    BY <1>2, <2>1 DEF I!TxRead, I!Goto, I!Slots, I!Idle
<1>4. /\ meetingCall'[c] = slot /\ \A d \in Calls \ {c} : meetingCall'[d] = meetingCall[d]
      /\ MeetingTypes'
  BY <1>3 DEF MeetingInv, MeetingTypes
<1>5. MeetingsExist' /\ I!OneSuccessor'
  BY <1>1, <1>3, <1>4 DEF MeetingInv, MeetingsExist, I!OneSuccessor, I!Scheduled
<1>6. ASSUME NEW d \in Calls, meetingCall'[d] # I!Idle, meetingCall'[d].at = "tx",
             meetingCall'[d].m \notin overlapped'
      PROVE  I!Scheduled(meetingCall[d].m)' /\ \A x \in I!InTransaction(meetingCall[d].m)' : x = d
  <2>1. overlapped \subseteq overlapped'
    BY DEF I!TxRead
  <2>2. CASE d = c
    <3>1. I!InTransaction(m) = {}
      BY <1>3, <1>4, <1>6, <2>2 DEF I!TxRead
    <3>2. \A x \in Calls : meetingCall'[x].at = "tx" /\ meetingCall'[x].m = m => x = c
      BY <1>4, <3>1 DEF I!InTransaction
    <3>3. I!Scheduled(meetingCall[d].m)'
      BY <1>1, <1>3, <1>4, <2>2 DEF I!Scheduled
    <3>. QED
      BY <1>3, <1>4, <2>2, <3>2, <3>3 DEF I!InTransaction
  <2>3. CASE d # c
    <3>1. meetingCall'[d] = meetingCall[d] /\ meetingCall[d].m \notin overlapped
      BY <1>4, <1>6, <2>1, <2>3
    <3>2. I!Scheduled(meetingCall[d].m) /\ \A x \in I!InTransaction(meetingCall[d].m) : x = d
      BY <1>6, <3>1 DEF MeetingInv, AloneIsFresh
    <3>3. meetingCall[d].m # m
      <4>1. d \in I!InTransaction(meetingCall[d].m)
        BY <1>6, <3>1 DEF I!InTransaction
      <4>. QED
        BY <1>6, <3>1, <4>1 DEF I!TxRead
    <3>4. \A x \in Calls : meetingCall'[x].at = "tx" /\ meetingCall'[x].m = meetingCall[d].m
                            => x \in I!InTransaction(meetingCall[d].m)
      BY <1>3, <1>4, <3>3 DEF I!InTransaction
    <3>5. I!Scheduled(meetingCall[d].m)'
      BY <1>3, <3>1, <3>2 DEF I!Scheduled
    <3>. QED
      BY <3>1, <3>2, <3>4, <3>5 DEF I!InTransaction
  <2>. QED
    BY <2>2, <2>3
<1>. QED
  BY <1>4, <1>5, <1>6 DEF MeetingInv, AloneIsFresh

(* The step that ends a transaction.  Others in a transaction on one of    *)
(* the meetings it writes are counted.                                     *)
LEMMA AloneStaysFresh ==
  ASSUME MeetingInv, NEW c \in Calls, meetingCall[c] # I!Idle, meetingCall[c].at = "tx",
         meetingCall' = [meetingCall EXCEPT ![c] = I!Idle], UNCHANGED overlapped,
         \A m \in DisputeIds :
           m # meetingCall[c].m /\ meeting[m] # I!NoRow => meeting'[m] = meeting[m]
  PROVE  AloneIsFresh'
<1>1. meetingCall'[c] = I!Idle /\ \A d \in Calls \ {c} : meetingCall'[d] = meetingCall[d]
  BY DEF MeetingInv, MeetingTypes
<1>2. SUFFICES ASSUME NEW d \in Calls, d # c, meetingCall[d] # I!Idle, meetingCall[d].at = "tx",
                      meetingCall[d].m \notin overlapped
               PROVE  /\ meeting'[meetingCall[d].m].status = "SCHEDULED"
                      /\ \A x \in Calls : meetingCall'[x].at = "tx" /\ meetingCall'[x].m = meetingCall[d].m
                                        => x = d
  BY <1>1 DEF AloneIsFresh, I!Scheduled, I!InTransaction
<1>3. /\ I!Scheduled(meetingCall[d].m)
      /\ \A x \in Calls : meetingCall[x].at = "tx" /\ meetingCall[x].m = meetingCall[d].m => x = d
  BY <1>2 DEF MeetingInv, AloneIsFresh, I!InTransaction
<1>4. meetingCall[d].m \in DisputeIds /\ meetingCall[d].m # meetingCall[c].m /\ meeting[meetingCall[d].m] # I!NoRow
  BY <1>2, <1>3, MeetingSlot DEF MeetingInv, MeetingsExist
<1>5. I!Idle.at # "tx"
  BY DEF I!Idle
<1>. QED
  BY <1>1, <1>3, <1>4, <1>5 DEF I!Scheduled

LEMMA FinalizeKeeps ==
  ASSUME MeetingInv, NEW c \in Calls, meetingCall[c].at = "tx", I!Cancel(c) \/ I!Complete(c)
  PROVE  MeetingInv'
<1>. DEFINE m == meetingCall[c].m
<1>1. PICK status \in {"CANCELLED", "COMPLETED"} : I!Finalize(c, status)
  BY DEF I!Cancel, I!Complete
<1>2. meetingCall[c] # I!Idle
  BY DEF I!Idle
<1>3. m \in DisputeIds /\ meeting[m] # I!NoRow /\ meeting[m] \in I!MeetingRows
  BY <1>2, MeetingSlot DEF MeetingInv, MeetingTypes, MeetingsExist
<1>4. PICK new \in I!MeetingRows :
        /\ new = [meeting[m] EXCEPT !.status = status]
        /\ new.status = status /\ new.from = meeting[m].from
  BY <1>3, MeetingRow
<1>5. /\ meeting' = [meeting EXCEPT ![m] = new]
      /\ meetingCall' = [meetingCall EXCEPT ![c] = I!Idle] /\ UNCHANGED overlapped
  BY <1>1, <1>4 DEF I!Finalize, I!Return, I!Set
<1>6. /\ meeting'[m] = new /\ \A n \in DisputeIds \ {m} : meeting'[n] = meeting[n]
      /\ MeetingTypes'
  BY <1>3, <1>5 DEF MeetingInv, MeetingTypes
<1>7. new # I!NoRow
  BY <1>4 DEF I!NoRow
<1>8. \A d \in Calls : meetingCall'[d] # I!Idle => meetingCall'[d] = meetingCall[d] /\ meetingCall[d].m \in DisputeIds
  BY <1>5, MeetingSlot DEF MeetingInv, MeetingTypes
<1>9. \A n \in DisputeIds : meeting'[n].from = meeting[n].from
                          /\ (meeting'[n].status = "SCHEDULED" => I!Scheduled(n))
                          /\ (meeting[n] # I!NoRow => meeting'[n] # I!NoRow)
  BY <1>4, <1>6, <1>7 DEF I!Scheduled
<1>11. MeetingsExist'
  BY <1>8, <1>9, StillExist
<1>12. I!OneSuccessor'
  BY <1>9 DEF MeetingInv, I!OneSuccessor, I!Scheduled
<1>13. AloneIsFresh'
  BY <1>2, <1>5, <1>6, AloneStaysFresh
<1>. QED
  BY <1>6, <1>11, <1>12, <1>13 DEF MeetingInv

LEMMA RescheduleKeeps ==
  ASSUME MeetingInv, NEW c \in Calls, NEW n \in DisputeIds, I!Reschedule(c, n)
  PROVE  MeetingInv'
<1>. DEFINE m == meetingCall[c].m
<1>1. meetingCall[c] # I!Idle /\ meetingCall[c].at = "tx" /\ meeting[n] = I!NoRow
  BY DEF I!Reschedule, I!Idle
<1>2. /\ m \in DisputeIds /\ meetingCall[c].day \in I!Days
      /\ meeting[m] # I!NoRow /\ meeting[m] \in I!MeetingRows
  BY <1>1, MeetingSlot DEF MeetingInv, MeetingTypes, MeetingsExist
<1>3. meetingCall' = [meetingCall EXCEPT ![c] = I!Idle] /\ UNCHANGED overlapped
  BY DEF I!Reschedule, I!Return, I!Set
<1>4. CASE ~ I!Unsucceeded(m)
  <2>1. UNCHANGED meeting
    BY <1>4 DEF I!Reschedule
  <2>. QED
    BY <1>3, <2>1, MeetingQuiet
<1>5. CASE I!Unsucceeded(m)
  <2>1. PICK old \in I!MeetingRows :
          /\ old = [meeting[m] EXCEPT !.status = "CANCELLED"]
          /\ old.status = "CANCELLED"
          /\ old.from = meeting[m].from
    BY <1>2, MeetingRow
  <2>2. PICK new \in I!MeetingRows :
          /\ new = [status |-> "SCHEDULED", day |-> meetingCall[c].day, from |-> {m}]
          /\ new.status = "SCHEDULED" /\ new.from = {m}
    <3>1. PICK from : from = {m}
      OBVIOUS
    <3>. QED
      BY <1>2, <3>1, NewMeeting
  <2>3. meeting' = [meeting EXCEPT ![m] = old, ![n] = new] /\ m # n
    BY <1>1, <1>2, <1>5, <2>1, <2>2 DEF I!Reschedule
  <2>4. /\ meeting'[m] = old /\ meeting'[n] = new
        /\ \A x \in DisputeIds \ {m, n} : meeting'[x] = meeting[x]
        /\ MeetingTypes'
    BY <1>2, <1>3, <2>3 DEF MeetingInv, MeetingTypes
  <2>5. old # I!NoRow /\ new # I!NoRow /\ meeting[n].from = {}
    BY <1>1, <2>1, <2>2 DEF I!NoRow
  <2>6. \A x \in DisputeIds : meeting[x].from \subseteq DisputeIds
    BY MeetingFacts DEF MeetingInv
  <2>7. \A x \in DisputeIds :
          /\ meeting[x].from \subseteq DisputeIds
          /\ meeting[x] # I!NoRow => meeting'[x] # I!NoRow
          /\ x # n => meeting'[x].from = meeting[x].from
    BY <2>1, <2>4, <2>5, <2>6
  <2>8. \A d \in Calls : meetingCall'[d] # I!Idle => meetingCall'[d] = meetingCall[d] /\ meetingCall[d].m \in DisputeIds
    BY <1>3, MeetingSlot DEF MeetingInv, MeetingTypes
  <2>9. MeetingsExist'
    <3>1. meeting'[n].from = {m}
      BY <2>2, <2>4
    <3>. QED
      BY <1>2, <2>7, <2>8, <3>1, StillExist
  <2>10. I!OneSuccessor'
    <3>1. SUFFICES ASSUME NEW x \in DisputeIds, NEW y \in DisputeIds,
                          meeting'[y].from = {x}
                   PROVE  /\ meeting'[x].status # "SCHEDULED"
                          /\ \A z \in DisputeIds : meeting'[z].from = {x} => z = y
      BY DEF I!OneSuccessor, I!Scheduled
    <3>2. CASE x = m
      <4>1. meeting'[x].status # "SCHEDULED"
        BY <2>1, <2>4, <3>2
      <4>2. \A z \in DisputeIds : meeting'[z].from = {x} => z = n
        BY <1>5, <2>7, <3>2 DEF I!Unsucceeded
      <4>. QED
        BY <3>1, <4>1, <4>2
    <3>3. CASE x # m
      <4>1. \A z \in DisputeIds : meeting'[z].from = {x} => z # n
        <5>1. {x} # {m}
          BY <3>3
        <5>. QED
          BY <2>2, <2>4, <5>1
      <4>2. \A z \in DisputeIds : meeting'[z].from = {x} => meeting[z].from = {x}
        BY <2>7, <4>1
      <4>3. meeting[y].from = {x} /\ x # n
        BY <1>1, <3>1, <4>2, Predecessor
      <4>4. meeting'[x] = meeting[x]
        BY <2>4, <3>3, <4>3
      <4>. QED
        BY <4>2, <4>3, <4>4 DEF MeetingInv, I!OneSuccessor, I!Scheduled
    <3>. QED
      BY <3>2, <3>3
  <2>11. AloneIsFresh'
    BY <1>1, <1>3, <2>4, AloneStaysFresh
  <2>. QED
    BY <2>4, <2>9, <2>10, <2>11 DEF MeetingInv
<1>. QED
  BY <1>4, <1>5

LEMMA CreateKeeps ==
  ASSUME MeetingInv, NEW m \in DisputeIds, NEW day \in I!Days, I!Create(m, day)
  PROVE  MeetingInv'
<1>1. PICK new \in I!MeetingRows :
        /\ new = [status |-> "SCHEDULED", day |-> day, from |-> {}]
        /\ new.from = {} /\ new # I!NoRow
  <2>1. PICK from : from = {}
    OBVIOUS
  <2>. QED
    BY <2>1, NewMeeting DEF I!NoRow
<1>2. meeting[m] = I!NoRow /\ meeting[m].from = {}
  BY DEF I!Create, I!NoRow
<1>3. meeting' = [meeting EXCEPT ![m] = new] /\ UNCHANGED <<meetingCall, overlapped>>
  BY <1>1 DEF I!Create
<1>4. /\ meeting'[m] = new /\ \A n \in DisputeIds \ {m} : meeting'[n] = meeting[n]
      /\ MeetingTypes'
  BY <1>3 DEF MeetingInv, MeetingTypes
<1>5. \A n \in DisputeIds :
        /\ meeting'[n].from = meeting[n].from
        /\ meeting[n] # I!NoRow => meeting'[n] = meeting[n]
  BY <1>1, <1>2, <1>4
<1>6. \A c \in Calls : meetingCall[c] # I!Idle =>
        meetingCall[c].m \in DisputeIds /\ meeting'[meetingCall[c].m] = meeting[meetingCall[c].m]
  BY <1>5, MeetingSlot DEF MeetingInv, MeetingsExist
<1>7. MeetingsExist'
  BY <1>3, <1>5, StillExist
<1>8. AloneIsFresh'
  BY <1>3, <1>6 DEF MeetingInv, AloneIsFresh, I!Scheduled, I!InTransaction
<1>9. I!OneSuccessor'
  <2>1. SUFFICES ASSUME NEW x \in DisputeIds, NEW y \in DisputeIds, meeting'[y].from = {x}
                 PROVE  /\ meeting'[x].status # "SCHEDULED"
                        /\ \A z \in DisputeIds : meeting'[z].from = {x} => z = y
    BY DEF I!OneSuccessor, I!Scheduled
  <2>2. meeting[y].from = {x}
    BY <1>5, <2>1
  <2>3. meeting'[x] = meeting[x]
    BY <1>5, <2>2, Predecessor
  <2>. QED
    BY <1>5, <2>2, <2>3 DEF MeetingInv, I!OneSuccessor, I!Scheduled
<1>. QED
  BY <1>4, <1>7, <1>8, <1>9 DEF MeetingInv

LEMMA MeetingInductive == MeetingInv /\ [I!Next]_I!vars => MeetingInv'
<1>. SUFFICES ASSUME MeetingInv, [I!Next]_I!vars PROVE MeetingInv'
  OBVIOUS
<1>1. ASSUME NEW c \in Calls, NEW op \in I!Operations, NEW m \in DisputeIds,
             NEW day \in I!Days, I!FirstRead(c, op, m, day)
      PROVE  MeetingInv'
  <2>. DEFINE slot == [at |-> "read", op |-> op, m |-> m, day |-> day]
  <2>1. slot \in I!Slots
    BY DEF I!Slots
  <2>2. meetingCall' = [meetingCall EXCEPT ![c] = slot] /\ UNCHANGED <<meeting, overlapped>>
    BY <1>1 DEF I!FirstRead, I!Set
  <2>3. slot.at = "read" /\ meeting[slot.m] # I!NoRow
    BY <1>1 DEF I!FirstRead, I!Scheduled, I!NoRow
  <2>. HIDE DEF slot
  <2>. QED
    BY <2>1, <2>2, <2>3, MeetingQuiet
<1>2. ASSUME NEW c \in Calls, I!AlreadyFinalized(c) \/ I!Stops(c) PROVE MeetingInv'
  BY <1>2, MeetingQuiet DEF I!AlreadyFinalized, I!Stops, I!Return, I!Set
<1>3. CASE I!NextDay \/ UNCHANGED I!vars
  BY <1>3 DEF I!NextDay, I!vars, MeetingInv, MeetingTypes, MeetingsExist, AloneIsFresh,
     I!OneSuccessor, I!Scheduled, I!InTransaction
<1>. QED
  BY <1>1, <1>2, <1>3, CreateKeeps, TxReadKeeps, FinalizeKeeps, RescheduleKeeps
  DEF I!Next

LEMMA MeetingInvariance == I!Spec => []MeetingInv
  BY MeetingInitially, MeetingInductive, PTL DEF I!Spec

(* The clock and the ghost, which no other part depends on.                *)
MeetingClock == today \in I!Days /\ overlapped \subseteq DisputeIds

LEMMA MeetingTypeCorrect == I!Spec => []I!TypeOK
<1>1. I!Init => MeetingClock
  BY LastDayAssumption DEF I!Init, MeetingClock, I!Days
<1>2. MeetingInv /\ MeetingClock /\ [I!Next]_I!vars => MeetingClock'
  <2>. SUFFICES ASSUME MeetingInv, MeetingClock, [I!Next]_I!vars PROVE MeetingClock'
    OBVIOUS
  <2>1. ASSUME NEW c \in Calls, I!TxRead(c) PROVE MeetingClock'
    <3>1. meetingCall[c] # I!Idle
      BY <2>1 DEF I!TxRead, I!Idle
    <3>2. meetingCall[c].m \in DisputeIds
      BY <3>1, MeetingSlot DEF MeetingInv
    <3>. QED
      BY <2>1, <3>2 DEF I!TxRead, MeetingClock
  <2>2. CASE I!NextDay
    BY <2>2, LastDayAssumption DEF I!NextDay, MeetingClock, I!Days
  <2>3. CASE UNCHANGED <<today, overlapped>>
    BY <2>3 DEF MeetingClock
  <2>. QED
    BY <2>1, <2>2, <2>3 DEF I!Next, I!Create, I!FirstRead, I!AlreadyFinalized, I!Stops,
       I!Cancel, I!Complete, I!Finalize, I!Reschedule, I!vars
<1>3. MeetingInv /\ MeetingClock => I!TypeOK
  BY DEF MeetingInv, MeetingTypes, MeetingsExist, MeetingClock, I!TypeOK
<1>. QED
  BY <1>1, <1>2, <1>3, MeetingInvariance, PTL DEF I!Spec

(* However reschedules overlap, a meeting moves on to one new date.        *)
THEOREM OneSuccessorOnly == I!Spec => []I!OneSuccessor
<1>1. MeetingInv => I!OneSuccessor
  BY DEF MeetingInv
<1>. QED
  BY <1>1, MeetingInvariance, PTL

(* A final meeting stays as it is, unless two transactions had it in hand. *)
THEOREM FinalMeetingsStand == I!Spec => I!FinalStands
<1>1. MeetingInv /\ [I!Next]_I!vars => [I!FinalStep(DisputeIds \ overlapped)]_I!vars
  <2>. SUFFICES ASSUME MeetingInv, I!Next, NEW m \in DisputeIds \ overlapped,
                       meeting[m].status \in {"CANCELLED", "COMPLETED"}
                PROVE  meeting'[m] = meeting[m]
    BY DEF I!FinalStep
  <2>1. ASSUME NEW c \in Calls, meetingCall[c].at = "tx"
        PROVE  meetingCall[c].m # m
    <3>1. meetingCall[c] # I!Idle
      BY <2>1 DEF I!Idle
    <3>. QED
      BY <2>1, <3>1 DEF MeetingInv, AloneIsFresh, I!Scheduled
  <2>2. meeting[m] # I!NoRow
    BY DEF I!NoRow
  <2>3. ASSUME NEW n \in DisputeIds, NEW day \in I!Days, I!Create(n, day)
        PROVE  meeting'[m] = meeting[m]
    BY <2>2, <2>3 DEF I!Create, MeetingInv, MeetingTypes
  <2>4. ASSUME NEW c \in Calls, meetingCall[c].at = "tx", I!Cancel(c) \/ I!Complete(c)
        PROVE  meeting'[m] = meeting[m]
    BY <2>1, <2>4 DEF I!Cancel, I!Complete, I!Finalize, MeetingInv, MeetingTypes
  <2>5. ASSUME NEW c \in Calls, NEW n \in DisputeIds, I!Reschedule(c, n)
        PROVE  meeting'[m] = meeting[m]
    <3>1. meetingCall[c].m # m /\ n # m
      BY <2>1, <2>2, <2>5 DEF I!Reschedule
    <3>. QED
      BY <2>5, <3>1 DEF I!Reschedule, MeetingInv, MeetingTypes
  <2>. QED
    BY <2>3, <2>4, <2>5 DEF I!Next, I!FirstRead, I!TxRead, I!AlreadyFinalized, I!Stops,
       I!NextDay
<1>. QED
  BY <1>1, MeetingInvariance, PTL DEF I!Spec, I!FinalStands
-----------------------------------------------------------------------------
(* Hiring                                                                  *)

(* A decision in flight is a move of the table.                            *)
Decided(slot) ==
  slot.at \in {"status", "assign"} =>
    H!canTransitionApplicationStatus(slot.from, slot.to) /\ slot.to # "TEST_SUBMITTED"

On(c, at, t) == hiringCall[c].at = at /\ hiringCall[c].t = t

(* An attempt that nothing raced for has one submission, which finds it as *)
(* it was started, and one grading at a time, which writes the total that  *)
(* the responses will have.                                                *)
AttemptInHand(t) ==
  /\ attempt[t].status = "IN_PROGRESS" => points[t] = H!NoPoints
  /\ \A c \in Calls :
       /\ On(c, "submit", t) => attempt[t].status = "IN_PROGRESS" \/ t \notin test
       /\ On(c, "grade", t) \/ On(c, "grade.tx", t) =>
            attempt[t].status \in {"SUBMITTED", "GRADED"} \/ t \notin test
       /\ On(c, "grade.tx", t) /\ t \in test =>
            hiringCall[c].total = H!Total(t, hiringCall[c].marks)
  /\ \A c, d \in Calls :
       /\ On(c, "submit", t) /\ On(d, "submit", t) => c = d
       /\ On(c, "grade.tx", t) /\ On(d, "grade.tx", t) => c = d

HiringInv ==
  /\ H!TypeOK
  /\ \A t \in Tests : attempt[t] = H!NoRow => points[t] = H!NoPoints
  /\ \A c \in Calls : Decided(hiringCall[c])
  /\ H!SubmittedHasAttempt
  /\ H!ScoreIsSum
  /\ \A t \in Tests \ raced : AttemptInHand(t)

-----------------------------------------------------------------------------
(* The points of an attempt                                                *)

(* The responses with the marks of a request written to them.              *)
Over(responses, marks) ==
  [k \in H!Tasks |-> IF k \in DOMAIN marks THEN marks[k] ELSE responses[k]]

LEMMA SumInRange ==
  ASSUME NEW T \in SUBSET H!Tasks, NEW f \in [T -> {0, 1}]
  PROVE  H!Sum(f) \in 0 .. H!Cardinality(H!Tasks)
<1>1. \A X : H!Cardinality(X) = Cardinality(X)
  BY DEF H!Cardinality, Cardinality
<1>2. IsFiniteSet(H!Tasks)
  BY TasksAssumption, FS_Union DEF H!Tasks
<1>3. {k \in DOMAIN f : f[k] = 1} \subseteq H!Tasks
  OBVIOUS
<1>4. /\ Cardinality({k \in DOMAIN f : f[k] = 1}) \in Nat
      /\ Cardinality(H!Tasks) \in Nat
      /\ Cardinality({k \in DOMAIN f : f[k] = 1}) <= Cardinality(H!Tasks)
  BY <1>2, <1>3, FS_Subset, FS_CardinalityType
<1>. QED
  BY <1>1, <1>4 DEF H!Sum

LEMMA OverType ==
  ASSUME NEW Q \in SUBSET H!Tasks, NEW marks \in H!Marks(Q),
         NEW responses \in [H!Tasks -> {0, 1}]
  PROVE  /\ Over(responses, marks) \in [H!Tasks -> {0, 1}]
         /\ marks \in [DOMAIN marks -> {0, 1}] /\ DOMAIN marks \in SUBSET H!Tasks
<1>1. PICK T \in SUBSET Q : marks \in [T -> {0, 1}]
  BY DEF H!Marks
<1>. QED
  BY <1>1 DEF Over

(* What is written to an attempt without points is all that it has.        *)
LEMMA FirstSum ==
  ASSUME NEW Q \in SUBSET H!Tasks, NEW marks \in H!Marks(Q)
  PROVE  H!Sum(Over(H!NoPoints, marks)) = H!Sum(marks)
<1>1. marks \in [DOMAIN marks -> {0, 1}] /\ DOMAIN marks \in SUBSET H!Tasks
  <2>1. H!NoPoints \in [H!Tasks -> {0, 1}]
    BY DEF H!NoPoints
  <2>. QED
    BY <2>1, OverType
<1>2. {k \in DOMAIN Over(H!NoPoints, marks) : Over(H!NoPoints, marks)[k] = 1}
        = {k \in DOMAIN marks : marks[k] = 1}
  BY <1>1 DEF Over, H!NoPoints
<1>. QED
  BY <1>2 DEF H!Sum

LEMMA OverwrittenPoints ==
  ASSUME points \in [Tests -> [H!Tasks -> {0, 1}]], NEW t \in Tests,
         NEW Q \in SUBSET H!Tasks, NEW marks \in H!Marks(Q)
  PROVE  /\ H!Overwritten(t, marks) = [points EXCEPT ![t] = Over(points[t], marks)]
         /\ H!Overwritten(t, marks) \in [Tests -> [H!Tasks -> {0, 1}]]
         /\ H!Total(t, marks) = H!Sum(Over(points[t], marks))
         /\ H!Total(t, marks) \in 0 .. H!Cardinality(H!Tasks)
<1>1. H!Overwritten(t, marks) = [points EXCEPT ![t] = Over(points[t], marks)]
  BY DEF H!Overwritten, Over
<1>2. Over(points[t], marks) \in [H!Tasks -> {0, 1}]
  BY OverType
<1>. QED
  BY <1>1, <1>2, SumInRange DEF H!Total

LEMMA HiringSlot ==
  ASSUME H!TypeOK, NEW c \in Calls
  PROVE  LET slot == hiringCall[c] IN
         /\ slot.at \in {"status", "assign"} =>
              slot.from \in H!ApplicationStatus /\ slot.to \in H!ApplicationStatus
         /\ slot.at \in {"start", "remove", "submit", "grade", "grade.tx"} => slot.t \in Tests
         /\ slot.at = "submit" => slot.marks \in H!Marks(AutoTasks)
         /\ slot.at \in {"grade", "grade.tx"} => slot.marks \in H!Marks(ManualTasks)
         /\ slot.at = "grade.tx" => slot.total \in 0 .. H!Cardinality(H!Tasks)
<1>1. hiringCall[c] \in H!Slots \cup {H!Idle}
  BY DEF H!TypeOK
<1>. QED
  BY <1>1 DEF H!Slots, H!Idle

-----------------------------------------------------------------------------
(* The steps of a request                                                  *)

LEMMA HiringInitially == H!Init => HiringInv
<1>. SUFFICES ASSUME H!Init PROVE HiringInv
  OBVIOUS
<1>1. /\ \A c \in Calls : hiringCall[c].at = "idle"
      /\ \A t \in Tests : attempt[t] = H!NoRow /\ points[t] = H!NoPoints
      /\ H!NoRow.status = "none" /\ H!NoRow.score = {}
  BY DEF H!Init, H!Idle, H!NoRow
<1>2. H!TypeOK
  BY DEF H!Init, H!TypeOK, H!Attempts, H!NoPoints
<1>3. \A t \in Tests : AttemptInHand(t)
  BY <1>1 DEF AttemptInHand, On
<1>. QED
  BY <1>1, <1>2, <1>3 DEF HiringInv, Decided, H!SubmittedHasAttempt, H!ScoreIsSum, H!Init

(* A step of c on what it holds: the tests, attempts and responses stay.   *)
LEMMA HiringQuiet ==
  ASSUME HiringInv, NEW c \in Calls, NEW slot \in H!Slots \cup {H!Idle}, H!Set(c, slot),
         Decided(slot), UNCHANGED <<test, attempt, points, lost>>,
         raced \subseteq raced', raced' \subseteq Tests,
         application' \in H!ApplicationStatus \cup {"none"},
         audit' \in [from : H!ApplicationStatus \cup {"none"},
                     to : H!ApplicationStatus \cup {"none"}],
         application' = application \/ application' # "TEST_SUBMITTED",
         slot.at = "submit" /\ slot.t \notin raced' =>
           /\ attempt[slot.t].status = "IN_PROGRESS"
           /\ \A d \in Calls \ {c} : ~ On(d, "submit", slot.t),
         slot.at \in {"grade", "grade.tx"} /\ slot.t \notin raced' =>
           attempt[slot.t].status \in {"SUBMITTED", "GRADED"},
         slot.at = "grade.tx" /\ slot.t \notin raced' =>
           /\ slot.total = H!Total(slot.t, slot.marks)
           /\ \A d \in Calls \ {c} : ~ On(d, "grade.tx", slot.t)
  PROVE  HiringInv'
<1>1. /\ hiringCall'[c] = slot /\ \A d \in Calls \ {c} : hiringCall'[d] = hiringCall[d]
      /\ H!TypeOK'
  BY DEF HiringInv, H!TypeOK, H!Set
<1>2. \A d \in Calls : Decided(hiringCall[d])'
  BY <1>1 DEF HiringInv, Decided
<1>3. H!SubmittedHasAttempt' /\ H!ScoreIsSum'
  BY DEF HiringInv, H!SubmittedHasAttempt, H!ScoreIsSum
<1>4. ASSUME NEW t \in Tests \ raced' PROVE AttemptInHand(t)'
  <2>1. AttemptInHand(t)
    BY <1>4 DEF HiringInv
  <2>2. \A marks : H!Total(t, marks)' = H!Total(t, marks)
    BY DEF H!Total, H!Overwritten
  <2>3. \A d \in Calls \ {c} : \A at : On(d, at, t)' <=> On(d, at, t)
    BY <1>1 DEF On
  <2>4. \A at : On(c, at, t)' <=> slot.at = at /\ slot.t = t
    BY <1>1 DEF On
  <2>5. \A d, e \in Calls :
          /\ On(d, "submit", t)' /\ On(e, "submit", t)' => d = e
          /\ On(d, "grade.tx", t)' /\ On(e, "grade.tx", t)' => d = e
    BY <1>4, <2>1, <2>3, <2>4 DEF AttemptInHand
  <2>6. \A d \in Calls :
          /\ On(d, "submit", t)' => attempt[t].status = "IN_PROGRESS" \/ t \notin test
          /\ On(d, "grade", t)' \/ On(d, "grade.tx", t)' =>
               attempt[t].status \in {"SUBMITTED", "GRADED"} \/ t \notin test
    BY <1>4, <2>1, <2>3, <2>4 DEF AttemptInHand
  <2>7. \A d \in Calls : On(d, "grade.tx", t)' /\ t \in test =>
          hiringCall'[d].total = H!Total(t, hiringCall'[d].marks)
    BY <1>1, <1>4, <2>1, <2>3, <2>4 DEF AttemptInHand
  <2>. QED
    BY <2>1, <2>2, <2>5, <2>6, <2>7 DEF AttemptInHand
<1>. QED
  BY <1>1, <1>2, <1>3, <1>4 DEF HiringInv

(* A transaction of c writes what belongs to one test, and is over.        *)
LEMMA HiringWrite ==
  ASSUME HiringInv, NEW c \in Calls, H!Return(c), NEW t \in Tests,
         \A u \in Tests \ {t} : /\ attempt'[u] = attempt[u] /\ points'[u] = points[u]
                                /\ u \in test' <=> u \in test,
         test' \subseteq Tests,
         attempt' \in [Tests -> H!Attempts],
         points' \in [Tests -> [H!Tasks -> {0, 1}]],
         application' \in H!ApplicationStatus \cup {"none"},
         audit' \in [from : H!ApplicationStatus \cup {"none"},
                     to : H!ApplicationStatus \cup {"none"}],
         lost' \subseteq Tests, raced \subseteq raced', raced' \subseteq Tests,
         t \notin test' => attempt'[t] = H!NoRow,
         attempt'[t] = H!NoRow => points'[t] = H!NoPoints,
         H!SubmittedHasAttempt',
         t \notin raced' /\ attempt'[t].score # {} => attempt'[t].score = {H!Sum(points'[t])},
         t \notin raced' => AttemptInHand(t)'
  PROVE  HiringInv'
<1>1. /\ hiringCall'[c] = H!Idle /\ \A d \in Calls \ {c} : hiringCall'[d] = hiringCall[d]
      /\ hiringCall' \in [Calls -> H!Slots \cup {H!Idle}]
  BY DEF HiringInv, H!TypeOK, H!Return, H!Set
<1>2. H!TypeOK'
  BY <1>1 DEF HiringInv, H!TypeOK
<1>3. \A d \in Calls : Decided(hiringCall[d])'
  BY <1>1 DEF HiringInv, Decided, H!Idle
<1>4. H!ScoreIsSum'
  BY DEF HiringInv, H!ScoreIsSum
<1>5. ASSUME NEW u \in Tests \ raced', u # t PROVE AttemptInHand(u)'
  <2>1. AttemptInHand(u)
    BY <1>5 DEF HiringInv
  <2>2. \A d \in Calls, at \in {"submit", "grade", "grade.tx"} :
          On(d, at, u)' => On(d, at, u) /\ hiringCall'[d] = hiringCall[d]
    BY <1>1 DEF On, H!Idle
  <2>3. \A marks : H!Total(u, marks)' = H!Total(u, marks)
    <3>1. \A marks : H!Overwritten(u, marks)'[u] = H!Overwritten(u, marks)[u]
      BY <1>5 DEF H!Overwritten, HiringInv, H!TypeOK
    <3>. QED
      BY <3>1 DEF H!Total
  <2>. QED
    BY <1>5, <2>1, <2>2, <2>3 DEF AttemptInHand
<1>. QED
  BY <1>2, <1>3, <1>4, <1>5 DEF HiringInv

LEMMA HiringReads ==
  ASSUME HiringInv, NEW c \in Calls,
         \/ H!ApplyRead(c)
         \/ \E to \in H!ApplicationStatus : H!StatusRead(c, to)
         \/ \E t \in Tests : H!AssignRead(c, t) \/ H!StartRead(c, t) \/ H!RemoveRead(c, t)
  PROVE  HiringInv'
<1>1. PICK slot :
        /\ H!Set(c, slot)
        /\ \/ slot = [at |-> "apply"]
           \/ \E to \in H!ApplicationStatus :
                /\ slot = [at |-> "status", from |-> application, to |-> to]
                /\ H!Unrestricted(to) /\ H!canTransitionApplicationStatus(application, to)
           \/ /\ slot = [at |-> "assign", from |-> application, to |-> "TEST_ASSIGNED"]
              /\ H!canTransitionApplicationStatus(application, "TEST_ASSIGNED")
           \/ \E t \in Tests : slot = [at |-> "start", t |-> t] \/ slot = [at |-> "remove", t |-> t]
        /\ UNCHANGED <<application, audit, test, attempt, points, lost, raced>>
  BY DEF H!ApplyRead, H!StatusRead, H!AssignRead, H!StartRead, H!RemoveRead, H!rows, H!ghosts
<1>2. /\ application \in H!ApplicationStatus \cup {"none"} /\ raced \subseteq Tests
      /\ audit \in [from : H!ApplicationStatus \cup {"none"},
                    to : H!ApplicationStatus \cup {"none"}]
  BY DEF HiringInv, H!TypeOK
<1>3. slot \in H!Slots /\ slot.at \in {"apply", "status", "assign", "start", "remove"}
  BY <1>1, <1>2 DEF H!Slots, H!canTransitionApplicationStatus, H!ApplicationStatus
<1>4. Decided(slot)
  BY <1>1 DEF Decided, H!Unrestricted
<1>. QED
  BY <1>1, <1>2, <1>3, <1>4, HiringQuiet

(* A request that ends with no more than a decision on the application.    *)
LEMMA HiringEnds ==
  ASSUME HiringInv, NEW c \in Calls, H!Return(c),
         UNCHANGED <<test, attempt, points, lost>>, raced \subseteq raced', raced' \subseteq Tests,
         \/ UNCHANGED <<application, audit>>
         \/ /\ application = "none" /\ application' = "APPLIED" /\ UNCHANGED audit
         \/ /\ hiringCall[c].at \in {"status", "assign"}
            /\ H!Move(hiringCall[c].from, hiringCall[c].to)
  PROVE  HiringInv'
<1>1. /\ application \in H!ApplicationStatus \cup {"none"}
      /\ audit \in [from : H!ApplicationStatus \cup {"none"},
                    to : H!ApplicationStatus \cup {"none"}]
      /\ Decided(hiringCall[c])
      /\ hiringCall[c].at \in {"status", "assign"} =>
           /\ hiringCall[c].from \in H!ApplicationStatus
           /\ hiringCall[c].to \in H!ApplicationStatus
  BY HiringSlot DEF HiringInv, H!TypeOK
<1>2. /\ application' \in H!ApplicationStatus \cup {"none"}
      /\ audit' \in [from : H!ApplicationStatus \cup {"none"},
                     to : H!ApplicationStatus \cup {"none"}]
      /\ application' = application \/ application' # "TEST_SUBMITTED"
  BY <1>1 DEF H!Move, Decided, H!ApplicationStatus
<1>. QED
  BY <1>2, HiringQuiet DEF H!Return, H!Idle, Decided

LEMMA StartWriteKeeps ==
  ASSUME HiringInv, NEW c \in Calls, H!StartWrite(c)
  PROVE  HiringInv'
<1>1. PICK t \in Tests :
        /\ hiringCall[c].at = "start" /\ hiringCall[c].t = t /\ H!Return(c)
        /\ attempt' = IF t \in test /\ attempt[t] = H!NoRow
                        THEN [attempt EXCEPT ![t].status = "IN_PROGRESS"] ELSE attempt
        /\ UNCHANGED <<application, audit, test, points, lost, raced>>
  BY HiringSlot DEF H!StartWrite, HiringInv, H!ghosts
<1>2. raced \subseteq Tests
  BY DEF HiringInv, H!TypeOK
<1>3. CASE ~ (t \in test /\ attempt[t] = H!NoRow)
  BY <1>1, <1>2, <1>3, HiringEnds
<1>4. CASE t \in test /\ attempt[t] = H!NoRow
  <2>1. attempt' = [attempt EXCEPT ![t] = [status |-> "IN_PROGRESS", score |-> {}]]
    <3>1. [H!NoRow EXCEPT !.status = "IN_PROGRESS"] = [status |-> "IN_PROGRESS", score |-> {}]
      BY DEF H!NoRow
    <3>. QED
      BY <1>1, <1>4, <3>1
  <2>2. /\ attempt'[t] = [status |-> "IN_PROGRESS", score |-> {}] /\ attempt'[t] # H!NoRow
        /\ \A u \in Tests \ {t} : attempt'[u] = attempt[u]
        /\ attempt' \in [Tests -> H!Attempts]
    <3>1. /\ [status |-> "IN_PROGRESS", score |-> {}] \in H!Attempts
          /\ [status |-> "IN_PROGRESS", score |-> {}] # H!NoRow
      BY DEF H!Attempts, H!Scores, H!NoRow
    <3>2. attempt \in [Tests -> H!Attempts]
      BY DEF HiringInv, H!TypeOK
    <3>. QED
      BY <1>1, <2>1, <3>1, <3>2
  <2>3. points[t] = H!NoPoints /\ points \in [Tests -> [H!Tasks -> {0, 1}]]
    BY <1>1, <1>4 DEF HiringInv, H!TypeOK
  <2>4. H!SubmittedHasAttempt'
    BY <1>1, <1>4, <2>2 DEF HiringInv, H!SubmittedHasAttempt, H!NoRow
  <2>5. ASSUME t \notin raced PROVE AttemptInHand(t)'
    <3>1. AttemptInHand(t)
      BY <1>1, <2>5 DEF HiringInv
    <3>2. \A d \in Calls : /\ ~ On(d, "submit", t)
                           /\ ~ On(d, "grade", t) /\ ~ On(d, "grade.tx", t)
      BY <1>4, <3>1 DEF AttemptInHand, H!NoRow
    <3>3. \A d \in Calls : hiringCall'[d] = hiringCall[d] \/ hiringCall'[d].at = "idle"
      BY <1>1 DEF H!Return, H!Set, H!Idle, HiringInv, H!TypeOK
    <3>4. \A d \in Calls : /\ hiringCall'[d].at = "submit" => hiringCall'[d].t # t
                           /\ hiringCall'[d].at \in {"grade", "grade.tx"} => hiringCall'[d].t # t
      BY <3>2, <3>3 DEF On
    <3>. QED
      BY <1>1, <2>3, <3>4 DEF AttemptInHand, On
  <2>6. /\ lost \subseteq Tests /\ test \subseteq Tests
        /\ application \in H!ApplicationStatus \cup {"none"}
        /\ audit \in [from : H!ApplicationStatus \cup {"none"},
                      to : H!ApplicationStatus \cup {"none"}]
    BY DEF HiringInv, H!TypeOK
  <2>. QED
    BY <1>1, <1>2, <1>4, <2>2, <2>3, <2>4, <2>5, <2>6, HiringWrite
<1>. QED
  BY <1>3, <1>4

LEMMA RemoveWriteKeeps ==
  ASSUME HiringInv, NEW c \in Calls, H!RemoveWrite(c)
  PROVE  HiringInv'
<1>1. PICK t \in Tests :
        /\ hiringCall[c].at = "remove" /\ hiringCall[c].t = t /\ H!Return(c)
        /\ test' = test \ {t} /\ UNCHANGED <<application, audit, raced>>
        /\ attempt' = [attempt EXCEPT ![t] = H!NoRow]
        /\ points' = [points EXCEPT ![t] = H!NoPoints]
        /\ lost' = IF attempt[t] = H!NoRow THEN lost ELSE lost \cup {t}
  BY HiringSlot DEF H!RemoveWrite, HiringInv
<1>2. /\ attempt'[t] = H!NoRow /\ points'[t] = H!NoPoints
      /\ \A u \in Tests \ {t} : attempt'[u] = attempt[u] /\ points'[u] = points[u]
      /\ attempt' \in [Tests -> H!Attempts] /\ points' \in [Tests -> [H!Tasks -> {0, 1}]]
      /\ test \subseteq Tests /\ lost \subseteq Tests /\ raced \subseteq Tests
      /\ application \in H!ApplicationStatus \cup {"none"}
      /\ audit \in [from : H!ApplicationStatus \cup {"none"},
                    to : H!ApplicationStatus \cup {"none"}]
  BY <1>1 DEF HiringInv, H!TypeOK, H!Attempts, H!NoPoints
<1>3. H!NoRow.status = "none" /\ H!NoRow.score = {}
  BY DEF H!NoRow
<1>4. H!SubmittedHasAttempt'
  <2>. SUFFICES ASSUME application = "TEST_SUBMITTED", lost' = {}
                PROVE  \E u \in Tests : attempt'[u].status \in {"SUBMITTED", "GRADED"}
    BY <1>1 DEF H!SubmittedHasAttempt
  <2>1. lost = {} /\ attempt[t] = H!NoRow
    BY <1>1
  <2>2. PICK u \in Tests : attempt[u].status \in {"SUBMITTED", "GRADED"}
    BY <2>1 DEF HiringInv, H!SubmittedHasAttempt
  <2>. QED
    BY <1>2, <1>3, <2>1, <2>2
<1>5. ASSUME t \notin raced PROVE AttemptInHand(t)'
  <2>1. AttemptInHand(t)
    BY <1>1, <1>5 DEF HiringInv
  <2>2. \A d \in Calls : hiringCall'[d] = hiringCall[d] \/ hiringCall'[d].at = "idle"
    BY <1>1 DEF H!Return, H!Set, H!Idle, HiringInv, H!TypeOK
  <2>3. \A d \in Calls, at \in {"submit", "grade.tx"} :
          hiringCall'[d].at = at /\ hiringCall'[d].t = t => On(d, at, t)
    BY <2>2 DEF On
  <2>4. t \notin test'
    BY <1>1
  <2>. QED
    BY <1>2, <2>1, <2>3, <2>4 DEF AttemptInHand, On
<1>. QED
  BY <1>1, <1>2, <1>3, <1>4, <1>5, HiringWrite

LEMMA SubmitReadKeeps ==
  ASSUME HiringInv, NEW c \in Calls, NEW t \in Tests, NEW marks \in H!Marks(AutoTasks),
         H!SubmitRead(c, t, marks)
  PROVE  HiringInv'
<1>. DEFINE slot == [at |-> "submit", t |-> t, marks |-> marks]
<1>1. /\ slot \in H!Slots /\ H!Set(c, slot) /\ attempt[t].status = "IN_PROGRESS"
      /\ raced' = IF H!InFlight(c, t, {"submit"}) THEN raced \cup {t} ELSE raced
      /\ UNCHANGED <<application, audit, test, attempt, points, lost>>
  BY DEF H!SubmitRead, H!Submittable, H!Slots, H!rows
<1>2. t \notin raced' => \A d \in Calls \ {c} : ~ On(d, "submit", t)
  BY <1>1 DEF H!InFlight, On
<1>3. /\ application \in H!ApplicationStatus \cup {"none"} /\ raced \subseteq Tests
      /\ audit \in [from : H!ApplicationStatus \cup {"none"},
                    to : H!ApplicationStatus \cup {"none"}]
  BY DEF HiringInv, H!TypeOK
<1>4. raced \subseteq raced' /\ raced' \subseteq Tests /\ Decided(slot)
  BY <1>1, <1>3 DEF Decided
<1>. QED
  BY <1>1, <1>2, <1>3, <1>4, HiringQuiet

LEMMA GradeReadKeeps ==
  ASSUME HiringInv, NEW c \in Calls, NEW t \in Tests, NEW marks \in H!Marks(ManualTasks),
         H!GradeRead(c, t, marks)
  PROVE  HiringInv'
<1>. DEFINE slot == [at |-> "grade", t |-> t, marks |-> marks]
<1>1. /\ slot \in H!Slots /\ H!Set(c, slot) /\ attempt[t].status \in {"SUBMITTED", "GRADED"}
      /\ UNCHANGED <<application, audit, test, attempt, points, lost, raced>>
  BY DEF H!GradeRead, H!Slots, H!rows, H!ghosts
<1>2. /\ application \in H!ApplicationStatus \cup {"none"} /\ raced \subseteq Tests
      /\ audit \in [from : H!ApplicationStatus \cup {"none"},
                    to : H!ApplicationStatus \cup {"none"}]
  BY DEF HiringInv, H!TypeOK
<1>. QED
  BY <1>1, <1>2, HiringQuiet DEF Decided

LEMMA GradeTxKeeps ==
  ASSUME HiringInv, NEW c \in Calls, H!GradeTx(c)
  PROVE  HiringInv'
<1>1. PICK t \in Tests, marks \in H!Marks(ManualTasks) :
        /\ On(c, "grade", t) /\ hiringCall[c].marks = marks /\ attempt[t] # H!NoRow
        /\ H!Set(c, [at |-> "grade.tx", t |-> t, marks |-> marks, total |-> H!Total(t, marks)])
        /\ raced' = IF H!InFlight(c, t, {"grade.tx"}) THEN raced \cup {t} ELSE raced
        /\ UNCHANGED <<application, audit, test, attempt, points, lost>>
  BY HiringSlot DEF H!GradeTx, HiringInv, H!rows, On
<1>. DEFINE slot == [at |-> "grade.tx", t |-> t, marks |-> marks, total |-> H!Total(t, marks)]
<1>2. H!Total(t, marks) \in 0 .. H!Cardinality(H!Tasks)
  <2>1. points \in [Tests -> [H!Tasks -> {0, 1}]] /\ ManualTasks \in SUBSET H!Tasks
    BY DEF HiringInv, H!TypeOK, H!Tasks
  <2>. QED
    BY <2>1, OverwrittenPoints
<1>3. slot \in H!Slots
  BY <1>2 DEF H!Slots
<1>4. t \notin raced' => /\ \A d \in Calls \ {c} : ~ On(d, "grade.tx", t)
                         /\ attempt[t].status \in {"SUBMITTED", "GRADED"}
  <2>1. t \notin raced' => AttemptInHand(t)
    BY <1>1 DEF HiringInv
  <2>2. t \in test
    BY <1>1 DEF HiringInv, H!TypeOK
  <2>. QED
    BY <1>1, <2>1, <2>2 DEF AttemptInHand, H!InFlight, On
<1>5. /\ application \in H!ApplicationStatus \cup {"none"} /\ raced \subseteq Tests
      /\ audit \in [from : H!ApplicationStatus \cup {"none"},
                    to : H!ApplicationStatus \cup {"none"}]
  BY DEF HiringInv, H!TypeOK
<1>6. raced \subseteq raced' /\ raced' \subseteq Tests /\ Decided(slot)
  BY <1>1, <1>5 DEF Decided
<1>. QED
  BY <1>1, <1>3, <1>4, <1>5, <1>6, HiringQuiet

LEMMA SubmitTxKeeps ==
  ASSUME HiringInv, NEW c \in Calls, H!SubmitTx(c)
  PROVE  HiringInv'
<1>1. PICK t \in Tests, marks \in H!Marks(AutoTasks) :
        /\ On(c, "submit", t) /\ hiringCall[c].marks = marks /\ H!Return(c)
        /\ UNCHANGED <<test, lost>>
        /\ IF attempt[t] = H!NoRow
             THEN UNCHANGED <<application, audit, attempt, points, raced>>
             ELSE /\ points' = H!Overwritten(t, marks)
                  /\ attempt' = [attempt EXCEPT ![t] =
                       [status |-> "SUBMITTED",
                        score |-> IF ManualTasks = {} THEN {H!Sum(marks)} ELSE {}]]
                  /\ H!Move("TEST_ASSIGNED", "TEST_SUBMITTED")
                  /\ raced' = IF H!InFlight(c, t, {"grade.tx"}) THEN raced \cup {t} ELSE raced
  BY HiringSlot DEF H!SubmitTx, HiringInv, H!rows, On
<1>2. /\ application \in H!ApplicationStatus \cup {"none"} /\ raced \subseteq Tests
      /\ audit \in [from : H!ApplicationStatus \cup {"none"},
                    to : H!ApplicationStatus \cup {"none"}]
      /\ test \subseteq Tests /\ lost \subseteq Tests /\ attempt \in [Tests -> H!Attempts]
      /\ points \in [Tests -> [H!Tasks -> {0, 1}]]
  BY DEF HiringInv, H!TypeOK
<1>3. CASE attempt[t] = H!NoRow
  BY <1>1, <1>2, <1>3, HiringEnds
<1>4. CASE attempt[t] # H!NoRow
  <2>. DEFINE row == [status |-> "SUBMITTED",
                      score |-> IF ManualTasks = {} THEN {H!Sum(marks)} ELSE {}]
  <2>1. /\ AutoTasks \in SUBSET H!Tasks /\ t \in test
    BY <1>4 DEF H!Tasks, HiringInv, H!TypeOK
  <2>2. H!Sum(marks) \in 0 .. H!Cardinality(H!Tasks)
    <3>1. marks \in [DOMAIN marks -> {0, 1}] /\ DOMAIN marks \in SUBSET H!Tasks
      BY <1>2, <2>1, OverType
    <3>. QED
      BY <3>1, SumInRange
  <2>3. row \in H!Attempts /\ row # H!NoRow
    BY <2>2 DEF H!Attempts, H!Scores, H!NoRow
  <2>4. /\ attempt' = [attempt EXCEPT ![t] = row] /\ attempt'[t] = row
        /\ \A u \in Tests \ {t} : attempt'[u] = attempt[u]
        /\ attempt' \in [Tests -> H!Attempts]
    BY <1>1, <1>2, <1>4, <2>3
  <2>5. /\ points' = [points EXCEPT ![t] = Over(points[t], marks)]
        /\ points'[t] = Over(points[t], marks)
        /\ \A u \in Tests \ {t} : points'[u] = points[u]
        /\ points' \in [Tests -> [H!Tasks -> {0, 1}]]
    BY <1>1, <1>2, <1>4, <2>1, OverwrittenPoints
  <2>6. raced \subseteq raced' /\ raced' \subseteq Tests
    BY <1>1, <1>2, <1>4
  <2>7. /\ application' \in H!ApplicationStatus \cup {"none"}
        /\ audit' \in [from : H!ApplicationStatus \cup {"none"},
                       to : H!ApplicationStatus \cup {"none"}]
    BY <1>1, <1>2, <1>4 DEF H!Move, H!ApplicationStatus
  <2>8. H!SubmittedHasAttempt'
    BY <2>4 DEF H!SubmittedHasAttempt
  <2>9. ASSUME t \notin raced'
        PROVE  /\ row.score # {} => row.score = {H!Sum(points'[t])}
               /\ AttemptInHand(t)'
    <3>1. AttemptInHand(t)
      BY <2>6, <2>9 DEF HiringInv
    <3>2. attempt[t].status = "IN_PROGRESS" /\ points[t] = H!NoPoints
      BY <1>1, <2>1, <3>1 DEF AttemptInHand
    <3>3. row.score # {} => row.score = {H!Sum(points'[t])}
      BY <2>1, <2>5, <3>2, FirstSum
    <3>4. \A d \in Calls : ~ On(d, "grade", t) /\ ~ On(d, "grade.tx", t)
      BY <2>1, <3>1, <3>2 DEF AttemptInHand
    <3>5. \A d \in Calls \ {c} : ~ On(d, "submit", t)
      BY <1>1, <3>1 DEF AttemptInHand
    <3>6. /\ hiringCall'[c].at = "idle"
          /\ \A d \in Calls \ {c} : hiringCall'[d] = hiringCall[d]
      BY <1>1 DEF H!Return, H!Set, H!Idle, HiringInv, H!TypeOK
    <3>7. \A d \in Calls, at \in {"submit", "grade", "grade.tx"} : ~ On(d, at, t)'
      BY <3>4, <3>5, <3>6 DEF On
    <3>. QED
      BY <2>4, <3>3, <3>7 DEF AttemptInHand
  <2>. QED
    BY <1>1, <1>2, <2>1, <2>3, <2>4, <2>5, <2>6, <2>7, <2>8, <2>9, HiringWrite
<1>. QED
  BY <1>3, <1>4

LEMMA GradeCommitKeeps ==
  ASSUME HiringInv, NEW c \in Calls, H!GradeCommit(c)
  PROVE  HiringInv'
<1>1. PICK t \in Tests, marks \in H!Marks(ManualTasks) :
        /\ On(c, "grade.tx", t) /\ hiringCall[c].marks = marks /\ H!Return(c)
        /\ IF attempt[t] = H!NoRow
             THEN UNCHANGED <<attempt, points>>
             ELSE /\ points' = H!Overwritten(t, marks)
                  /\ attempt' = [attempt EXCEPT ![t] =
                       [status |-> "GRADED", score |-> {hiringCall[c].total}]]
        /\ UNCHANGED <<application, audit, test, lost, raced>>
  BY HiringSlot DEF H!GradeCommit, HiringInv, H!rows, H!ghosts, On
<1>2. /\ application \in H!ApplicationStatus \cup {"none"} /\ raced \subseteq Tests
      /\ audit \in [from : H!ApplicationStatus \cup {"none"},
                    to : H!ApplicationStatus \cup {"none"}]
      /\ test \subseteq Tests /\ lost \subseteq Tests /\ attempt \in [Tests -> H!Attempts]
      /\ points \in [Tests -> [H!Tasks -> {0, 1}]]
      /\ hiringCall[c].total \in 0 .. H!Cardinality(H!Tasks)
  BY <1>1, HiringSlot DEF HiringInv, H!TypeOK, On
<1>3. CASE attempt[t] = H!NoRow
  BY <1>1, <1>2, <1>3, HiringEnds
<1>4. CASE attempt[t] # H!NoRow
  <2>. DEFINE row == [status |-> "GRADED", score |-> {hiringCall[c].total}]
  <2>1. ManualTasks \in SUBSET H!Tasks /\ t \in test
    BY <1>4 DEF H!Tasks, HiringInv, H!TypeOK
  <2>2. row \in H!Attempts /\ row # H!NoRow
    BY <1>2 DEF H!Attempts, H!Scores, H!NoRow
  <2>3. /\ attempt' = [attempt EXCEPT ![t] = row] /\ attempt'[t] = row
        /\ \A u \in Tests \ {t} : attempt'[u] = attempt[u]
        /\ attempt' \in [Tests -> H!Attempts]
    BY <1>1, <1>2, <1>4, <2>2
  <2>4. /\ points'[t] = Over(points[t], marks)
        /\ \A u \in Tests \ {t} : points'[u] = points[u]
        /\ points' \in [Tests -> [H!Tasks -> {0, 1}]]
    BY <1>1, <1>2, <1>4, <2>1, OverwrittenPoints
  <2>5. H!SubmittedHasAttempt'
    BY <2>3 DEF H!SubmittedHasAttempt
  <2>6. ASSUME t \notin raced
        PROVE  hiringCall[c].total = H!Sum(points'[t]) /\ AttemptInHand(t)'
    <3>1. AttemptInHand(t)
      BY <2>6 DEF HiringInv
    <3>2. /\ attempt[t].status \in {"SUBMITTED", "GRADED"}
          /\ hiringCall[c].total = H!Total(t, marks)
      BY <1>1, <2>1, <3>1 DEF AttemptInHand
    <3>3. hiringCall[c].total = H!Sum(points'[t])
      BY <1>2, <2>1, <2>4, <3>2, OverwrittenPoints
    <3>4. \A d \in Calls : ~ On(d, "submit", t)
      BY <2>1, <3>1, <3>2 DEF AttemptInHand
    <3>5. \A d \in Calls \ {c} : ~ On(d, "grade.tx", t)
      BY <1>1, <3>1 DEF AttemptInHand
    <3>6. /\ hiringCall'[c].at = "idle"
          /\ \A d \in Calls \ {c} : hiringCall'[d] = hiringCall[d]
      BY <1>1 DEF H!Return, H!Set, H!Idle, HiringInv, H!TypeOK
    <3>7. \A d \in Calls, at \in {"submit", "grade.tx"} : ~ On(d, at, t)'
      BY <3>4, <3>5, <3>6 DEF On
    <3>. QED
      BY <2>3, <3>3, <3>7 DEF AttemptInHand
  <2>. QED
    BY <1>1, <1>2, <2>1, <2>2, <2>3, <2>4, <2>5, <2>6, HiringWrite
<1>. QED
  BY <1>3, <1>4

LEMMA HiringInductive == HiringInv /\ [H!Next]_H!vars => HiringInv'
<1>. SUFFICES ASSUME HiringInv, [H!Next]_H!vars PROVE HiringInv'
  OBVIOUS
<1>t. raced \subseteq Tests
  BY DEF HiringInv, H!TypeOK
<1>1. ASSUME NEW c \in Calls, H!ApplyWrite(c) PROVE HiringInv'
  BY <1>1, <1>t, HiringEnds DEF H!ApplyWrite, H!rows, H!ghosts
<1>2. ASSUME NEW c \in Calls, H!StatusTx(c) PROVE HiringInv'
  BY <1>2, <1>t, HiringEnds DEF H!StatusTx, H!rows, H!ghosts
<1>3. ASSUME NEW c \in Calls, H!Stops(c) PROVE HiringInv'
  BY <1>3, <1>t, HiringEnds DEF H!Stops, H!rows, H!ghosts
<1>4. CASE UNCHANGED H!vars
  <2>1. UNCHANGED <<application, audit, test, attempt, points, lost, raced, hiringCall>>
    BY <1>4 DEF H!vars, H!rows, H!ghosts
  <2>2. \A t, marks : H!Total(t, marks)' = H!Total(t, marks)
    BY <2>1 DEF H!Total, H!Overwritten
  <2>. QED
    BY <2>1, <2>2 DEF HiringInv, H!TypeOK, Decided, H!SubmittedHasAttempt, H!ScoreIsSum,
       AttemptInHand, On
<1>. QED
  BY <1>1, <1>2, <1>3, <1>4, HiringReads, StartWriteKeeps, RemoveWriteKeeps,
     SubmitReadKeeps, GradeReadKeeps, GradeTxKeeps, SubmitTxKeeps, GradeCommitKeeps
  DEF H!Next

(* What the history of the application and its attempts may do.            *)
AuditedMove ==
  /\ application' # application /\ application # "none" =>
       /\ H!canTransitionApplicationStatus(application, application')
       /\ audit' = [from |-> application, to |-> application']
  /\ audit' # audit => application' # application

GradeKept ==
  \A t \in Tests \ raced :
    attempt[t].status = "GRADED" => attempt'[t].status # "SUBMITTED"

LEMMA MovesAreAudited == HiringInv /\ [H!Next]_H!vars => AuditedMove
<1>. SUFFICES ASSUME HiringInv, [H!Next]_H!vars PROVE AuditedMove
  OBVIOUS
<1>1. CASE UNCHANGED <<application, audit>>
  BY <1>1 DEF AuditedMove
<1>2. ASSUME NEW c \in Calls, H!ApplyWrite(c) PROVE AuditedMove
  BY <1>2 DEF H!ApplyWrite, AuditedMove
<1>3. ASSUME NEW c \in Calls, H!StatusTx(c) PROVE AuditedMove
  <2>1. H!canTransitionApplicationStatus(hiringCall[c].from, hiringCall[c].to)
    BY <1>3 DEF H!StatusTx, HiringInv, Decided
  <2>2. hiringCall[c].from # hiringCall[c].to
    <3>1. hiringCall[c].from \in H!ApplicationStatus
      BY <1>3, HiringSlot DEF H!StatusTx, HiringInv
    <3>. QED
      BY <2>1, <3>1
      DEF H!canTransitionApplicationStatus, H!APPLICATION_STATUS_TRANSITIONS
  <2>. QED
    BY <1>3, <2>1, <2>2 DEF H!StatusTx, H!Move, AuditedMove
<1>4. ASSUME NEW c \in Calls, H!SubmitTx(c) PROVE AuditedMove
  <2>1. H!canTransitionApplicationStatus("TEST_ASSIGNED", "TEST_SUBMITTED")
    BY DEF H!canTransitionApplicationStatus, H!APPLICATION_STATUS_TRANSITIONS,
       H!ApplicationStatus
  <2>. QED
    BY <1>4, <2>1 DEF H!SubmitTx, H!Move, AuditedMove
<1>. QED
  BY <1>1, <1>2, <1>3, <1>4
  DEF H!Next, H!vars, H!ApplyRead, H!StatusRead, H!AssignRead, H!StartRead, H!RemoveRead,
      H!SubmitRead, H!GradeRead, H!StartWrite, H!RemoveWrite, H!GradeTx, H!GradeCommit, H!Stops

LEMMA GradesAreKept == HiringInv /\ [H!Next]_H!vars => GradeKept
<1>. SUFFICES ASSUME HiringInv, [H!Next]_H!vars,
                     NEW t \in Tests \ raced, attempt[t].status = "GRADED"
              PROVE  attempt'[t].status # "SUBMITTED"
  BY DEF GradeKept
<1>t. attempt \in [Tests -> H!Attempts] /\ AttemptInHand(t)
  BY DEF HiringInv, H!TypeOK
<1>1. CASE UNCHANGED attempt
  BY <1>1
<1>2. ASSUME NEW c \in Calls, H!StartWrite(c) PROVE attempt'[t].status # "SUBMITTED"
  <2>1. PICK u \in Tests : \/ UNCHANGED attempt
                           \/ attempt' = [attempt EXCEPT ![u].status = "IN_PROGRESS"]
    BY <1>2, HiringSlot DEF H!StartWrite, HiringInv
  <2>2. [attempt[t] EXCEPT !.status = "IN_PROGRESS"].status # "SUBMITTED"
    BY <1>t DEF H!Attempts, H!NoRow
  <2>. QED
    BY <1>t, <2>1, <2>2
<1>3. ASSUME NEW c \in Calls, H!RemoveWrite(c) PROVE attempt'[t].status # "SUBMITTED"
  BY <1>3, <1>t DEF H!RemoveWrite, H!NoRow
<1>4. ASSUME NEW c \in Calls, H!SubmitTx(c) PROVE attempt'[t].status # "SUBMITTED"
  <2>1. CASE hiringCall[c].t = t
    <3>1. t \notin test
      BY <1>4, <1>t, <2>1 DEF AttemptInHand, On, H!SubmitTx
    <3>2. attempt[t] = H!NoRow
      BY <3>1 DEF HiringInv, H!TypeOK
    <3>. QED
      BY <3>2 DEF H!NoRow
  <2>2. CASE hiringCall[c].t # t
    BY <1>4, <1>t, <2>2 DEF H!SubmitTx, H!rows
  <2>. QED
    BY <2>1, <2>2
<1>5. ASSUME NEW c \in Calls, H!GradeCommit(c) PROVE attempt'[t].status # "SUBMITTED"
  BY <1>5, <1>t DEF H!GradeCommit, H!rows
<1>. QED
  BY <1>1, <1>2, <1>3, <1>4, <1>5
  DEF H!Next, H!vars, H!rows, H!ApplyRead, H!ApplyWrite, H!StatusRead, H!AssignRead,
      H!StartRead, H!RemoveRead, H!SubmitRead, H!GradeRead, H!GradeTx, H!StatusTx, H!Stops

LEMMA HiringInvariance == H!Spec => []HiringInv
BY HiringInitially, HiringInductive, PTL DEF H!Spec

-----------------------------------------------------------------------------
(* The behaviours of the run: each component's while it is in focus, and   *)
(* steps that leave it alone otherwise.                                    *)

LEMMA SigningsOf == ContractsSpec => S!Spec
<1>1. ContractsInit => S!Init
  BY DEF ContractsInit
<1>2. [ContractsNext]_focusVars => [S!Next]_S!vars
  BY DEF ContractsNext, focusVars, signingVars, S!vars
<1>. QED
  BY <1>1, <1>2, PTL DEF ContractsSpec, S!Spec

LEMMA VerificationsOf == ContractsSpec => V!Spec
<1>1. ContractsInit => V!Init
  BY DEF ContractsInit
<1>2. [ContractsNext]_focusVars => [V!Next]_V!vars
  BY DEF ContractsNext, focusVars, verificationVars, V!vars, V!ghosts
<1>. QED
  BY <1>1, <1>2, PTL DEF ContractsSpec, V!Spec

LEMMA MeetingsOf == ContractsSpec => I!Spec
<1>1. ContractsInit => I!Init
  BY DEF ContractsInit
<1>2. [ContractsNext]_focusVars => [I!Next]_I!vars
  BY DEF ContractsNext, focusVars, meetingVars, I!vars
<1>. QED
  BY <1>1, <1>2, PTL DEF ContractsSpec, I!Spec

(* Whoever signs and declines at once, the document says what its          *)
(* signatures say, and what was signed, declined or decided stays.         *)
THEOREM SignedForGood == ContractsSpec => DocumentIsFinal
<1>1. S!TypeOK /\ S!StatusMatchesSignatures => S!Consistent
  BY DEF S!Consistent
<1>. QED
  BY <1>1, SigningsOf, SigningTypeCorrect, DocumentMatches, DecisionsStand, PTL
  DEF DocumentIsFinal, S!DocumentIsFinal

(* However submissions, reviews and the admin's flag interleave, a profile *)
(* is verified by an approval, and nothing waits for a review then.        *)
THEOREM EarnedByApproval == ContractsSpec => []VerificationIsEarned
<1>1. VerificationInv => VerificationIsEarned
  BY DEF VerificationInv, VerificationTypes, VerificationIsEarned,
     V!VerificationIsEarned, V!TypeOK
<1>. QED
  BY <1>1, VerificationsOf, VerificationInvariance, PTL

(* A meeting moves on to one new date, and a final one stays as it is.     *)
THEOREM MeetingsEndOnce == ContractsSpec => MeetingsAreFinal
<1>1. I!TypeOK /\ I!OneSuccessor => I!Consistent
  BY DEF I!Consistent
<1>. QED
  BY <1>1, MeetingsOf, MeetingTypeCorrect, OneSuccessorOnly, FinalMeetingsStand, PTL
  DEF MeetingsAreFinal, I!MeetingsAreFinal
LEMMA HiringOf == ContractsSpec => H!Spec
<1>1. ContractsInit => H!Init
  BY DEF ContractsInit
<1>2. [ContractsNext]_focusVars => [H!Next]_H!vars
  BY DEF ContractsNext, focusVars, hiringVars, H!vars, H!rows, H!ghosts
<1>. QED
  BY <1>1, <1>2, PTL DEF ContractsSpec, H!Spec

(* An application that says so has a submitted attempt to review, and the  *)
(* score of an attempt is the sum of what its responses got, however       *)
(* decisions, submissions, gradings and deletions interleave.              *)
THEOREM HiringRecordsAgree == ContractsSpec => []RecordsAgree
<1>1. HiringInv => RecordsAgree
  BY DEF HiringInv, RecordsAgree, H!RecordsAgree
<1>. QED
  BY <1>1, HiringOf, HiringInvariance, PTL

(* Every move of an application is one of the table and has its own row in *)
(* the audit trail, and a grade is not taken back to a submission.         *)
THEOREM HiringHistoryStands == ContractsSpec => HistoryStands
<1>1. HiringInv /\ [H!Next]_H!vars => [AuditedMove]_H!vars /\ [GradeKept]_H!vars
  BY MovesAreAudited, GradesAreKept
<1>2. H!Spec => [][AuditedMove]_H!vars /\ [][GradeKept]_H!vars
  BY <1>1, HiringInvariance, PTL DEF H!Spec
<1>3. H!Spec => H!AuditFollowsStatus /\ H!GradeStands
  BY <1>2 DEF H!AuditFollowsStatus, H!GradeStands, AuditedMove, GradeKept
<1>. QED
  BY <1>3, HiringOf DEF HistoryStands, H!HistoryStands

-----------------------------------------------------------------------------
(* Disputes                                                                *)

(* What an admin's request read allows what it will write.                 *)
AdminKnows(c) ==
  call[c].at = "admin.tx" =>
    /\ call[c].next \in Resolved \cup {"UNDER_REVIEW"}
    /\ canTransitionDispute(call[c].seen, call[c].next)

IInv ==
  /\ TypeOK
  /\ OneActiveDispute
  /\ DisputedHasDispute
  /\ RestoredAsItWas
  /\ \A c \in Calls : AdminKnows(c)

-----------------------------------------------------------------------------
(* The transition table lets nothing leave a terminal status, and nothing  *)
(* but a resolution leave UNDER_REVIEW.                                    *)
LEMMA Transitions ==
  ASSUME NEW from \in DisputeStatuses, NEW to, canTransitionDispute(from, to)
  PROVE  /\ from \in Active
         /\ from = "UNDER_REVIEW" => to \in Resolved
  BY DEF canTransitionDispute, DISPUTE_TRANSITIONS, DisputeStatuses, Active,
         Terminal, Resolved

LEMMA RaiseState ==
  ASSUME TypeOK, NEW c \in Calls, call[c].at \in {"raise.check", "raise.tx"}
  PROVE  call[c] \in RaiseCalls
  BY DEF TypeOK, Idle, UpdateCalls

LEMMA UpdateState ==
  ASSUME TypeOK, NEW c \in Calls, call[c].at \in {"withdraw.tx", "admin.tx"}
  PROVE  call[c].d \in DisputeIds /\ call[c].seen \in DisputeStatuses
           /\ call[c].next \in DisputeStatuses
<1>1. call[c] \in UpdateCalls
  BY DEF TypeOK, Idle, RaiseCalls
<1>. QED
  BY <1>1 DEF UpdateCalls

(* A step that writes no row keeps the invariant if the mover's slot is    *)
(* sound.                                                                  *)
LEMMA QuietStep ==
  ASSUME IInv, NEW c \in Calls, UNCHANGED <<contract, dispute>>,
         NEW slot \in RaiseCalls \cup UpdateCalls \cup {Idle},
         call' = [call EXCEPT ![c] = slot],
         slot.at = "admin.tx" =>
           /\ slot.next \in Resolved \cup {"UNDER_REVIEW"}
           /\ canTransitionDispute(slot.seen, slot.next)
  PROVE  IInv' /\ LifecycleStep
<1>1. TypeOK'
  BY DEF IInv, TypeOK
<1>2. OneActiveDispute' /\ DisputedHasDispute' /\ RestoredAsItWas'
  BY DEF IInv, OneActiveDispute, DisputedHasDispute, RestoredAsItWas, ActiveDisputes
<1>3. ASSUME NEW x \in Calls PROVE AdminKnows(x)'
  <2>1. CASE x = c
    BY <2>1 DEF IInv, TypeOK, AdminKnows, canTransitionDispute, DISPUTE_TRANSITIONS
  <2>2. CASE x # c
    BY <2>2 DEF IInv, TypeOK, AdminKnows, canTransitionDispute, DISPUTE_TRANSITIONS
  <2>. QED
    BY <2>1, <2>2
<1>4. LifecycleStep
  BY DEF LifecycleStep, Terminal, Resolved
<1>. QED
  BY <1>1, <1>2, <1>3, <1>4 DEF IInv

(* A request that returns knows nothing any more; the others keep what     *)
(* they know.                                                              *)
LEMMA Returns ==
  ASSUME IInv, NEW c \in Calls, Return(c)
  PROVE  /\ call' \in [Calls -> RaiseCalls \cup UpdateCalls \cup {Idle}]
         /\ \A x \in Calls : AdminKnows(x)'
<1>1. call' \in [Calls -> RaiseCalls \cup UpdateCalls \cup {Idle}]
  BY DEF IInv, TypeOK, Return
<1>2. ASSUME NEW x \in Calls PROVE AdminKnows(x)'
  <2>1. CASE x = c
    BY <2>1 DEF IInv, TypeOK, AdminKnows, Return, Idle
  <2>2. CASE x # c
    BY <2>2 DEF IInv, TypeOK, AdminKnows, Return, canTransitionDispute,
                DISPUTE_TRANSITIONS
  <2>. QED
    BY <2>1, <2>2
<1>. QED
  BY <1>1, <1>2

(* The end of an active dispute.                                           *)
LEMMA Ends ==
  ASSUME IInv, NEW c \in Calls, NEW d \in DisputeIds, NEW next \in Terminal,
         dispute[d] \in Active,
         dispute[d] = "UNDER_REVIEW" => next \in Resolved,
         dispute' = [dispute EXCEPT ![d] = next],
         RestoreContract(dispute'), Return(c)
  PROVE  IInv' /\ LifecycleStep
<1>1. /\ dispute' \in [DisputeIds -> DisputeStatuses \cup {"none"}]
      /\ dispute'[d] = next
      /\ \A e \in DisputeIds \ {d} : dispute'[e] = dispute[e]
  BY DEF IInv, TypeOK, DisputeStatuses
<1>2. next \notin Active
  BY DEF Active, Terminal, Resolved
<1>3. contract' \in [status : ContractStatuses, completedAt : BOOLEAN]
  BY DEF IInv, TypeOK, RestoreContract, ContractStatuses
<1>4. OneActiveDispute'
  BY <1>1, <1>2 DEF IInv, OneActiveDispute
<1>5. DisputedHasDispute' /\ RestoredAsItWas'
  <2>1. CASE contract.status = "DISPUTED" /\ \A e \in DisputeIds : dispute'[e] \notin Active
    BY <2>1, <1>3 DEF IInv, TypeOK, RestoreContract, DisputedHasDispute,
                      RestoredAsItWas, ContractStatuses
  <2>2. CASE ~ (contract.status = "DISPUTED" /\ \A e \in DisputeIds : dispute'[e] \notin Active)
    BY <2>2 DEF IInv, RestoreContract, DisputedHasDispute, RestoredAsItWas,
                ActiveDisputes
  <2>. QED
    BY <2>1, <2>2
<1>6. LifecycleStep
  BY <1>1, <1>2 DEF LifecycleStep, Active, Terminal, Resolved
<1>. QED
  BY <1>1, <1>3, <1>4, <1>5, <1>6, Returns DEF IInv, TypeOK

-----------------------------------------------------------------------------
LEMMA Initial == Init => IInv
  BY DEF Init, IInv, TypeOK, OneActiveDispute, DisputedHasDispute, RestoredAsItWas,
         AdminKnows, ContractStatuses, Active, Idle

LEMMA RaiseReadStep ==
  ASSUME IInv, NEW c \in Calls, RaiseRead(c)
  PROVE  IInv' /\ LifecycleStep
<1>1. [at |-> "raise.check", seen |-> contract.status] \in RaiseCalls
  BY DEF IInv, TypeOK, RaiseCalls
<1>. QED
  BY <1>1, QuietStep DEF RaiseRead

LEMMA RaiseCheckStep ==
  ASSUME IInv, NEW c \in Calls, RaiseCheck(c)
  PROVE  IInv' /\ LifecycleStep
<1>1. CASE ActiveDisputes = {}
  <2>1. call[c] \in RaiseCalls
    BY RaiseState DEF IInv, RaiseCheck
  <2>2. [call[c] EXCEPT !.at = "raise.tx"] \in RaiseCalls
    BY <2>1 DEF RaiseCalls
  <2>3. call' = [call EXCEPT ![c] = [call[c] EXCEPT !.at = "raise.tx"]]
    BY <1>1 DEF RaiseCheck
  <2>4. [call[c] EXCEPT !.at = "raise.tx"].at # "admin.tx"
    BY <2>1 DEF RaiseCalls
  <2>. QED
    BY <2>2, <2>3, <2>4, QuietStep DEF RaiseCheck
<1>2. CASE ActiveDisputes # {}
  BY <1>2, QuietStep DEF RaiseCheck, Return, Idle
<1>. QED
  BY <1>1, <1>2

(* The unique index, not the check before it, keeps the dispute alone.     *)
LEMMA RaiseTxStep ==
  ASSUME IInv, NEW c \in Calls, NEW d \in DisputeIds, RaiseTx(c, d)
  PROVE  IInv' /\ LifecycleStep
<1>1. /\ dispute' \in [DisputeIds -> DisputeStatuses \cup {"none"}]
      /\ dispute'[d] = "OPEN"
      /\ \A e \in DisputeIds \ {d} : dispute'[e] = dispute[e]
  BY DEF IInv, TypeOK, RaiseTx, DisputeStatuses, Active
<1>2. contract' \in [status : ContractStatuses, completedAt : BOOLEAN]
  BY DEF IInv, TypeOK, RaiseTx, ContractStatuses
<1>3. OneActiveDispute'
  BY <1>1 DEF RaiseTx, OneActiveDispute, ActiveDisputes
<1>4. DisputedHasDispute'
  BY <1>1 DEF DisputedHasDispute, ActiveDisputes, Active
<1>5. RestoredAsItWas'
  BY DEF IInv, TypeOK, RaiseTx, RestoredAsItWas
<1>6. LifecycleStep
  BY <1>1 DEF RaiseTx, LifecycleStep, Terminal, Resolved
<1>7. Return(c)
  BY DEF RaiseTx
<1>. QED
  BY <1>1, <1>2, <1>3, <1>4, <1>5, <1>6, <1>7, Returns DEF IInv, TypeOK

LEMMA WithdrawReadStep ==
  ASSUME IInv, NEW c \in Calls, NEW d \in DisputeIds, WithdrawRead(c, d)
  PROVE  IInv' /\ LifecycleStep
<1>1. [at |-> "withdraw.tx", d |-> d, seen |-> dispute[d], next |-> "WITHDRAWN"]
        \in UpdateCalls
  BY DEF IInv, TypeOK, WithdrawRead, UpdateCalls, DisputeStatuses, Terminal
<1>. QED
  BY <1>1, QuietStep DEF WithdrawRead

LEMMA WithdrawTxStep ==
  ASSUME IInv, NEW c \in Calls, WithdrawTx(c)
  PROVE  IInv' /\ LifecycleStep
<1>1. call[c].d \in DisputeIds
  BY UpdateState DEF IInv, WithdrawTx
<1>2. "WITHDRAWN" \in Terminal
  BY DEF Terminal
<1>3. dispute[call[c].d] \in Active /\ dispute[call[c].d] # "UNDER_REVIEW"
  BY DEF WithdrawTx, Active
<1>. QED
  BY <1>1, <1>2, <1>3, Ends DEF WithdrawTx

LEMMA AdminReadStep ==
  ASSUME IInv, NEW c \in Calls, NEW d \in DisputeIds, NEW next \in DisputeStatuses,
         AdminRead(c, d, next)
  PROVE  IInv' /\ LifecycleStep
<1>1. [at |-> "admin.tx", d |-> d, seen |-> dispute[d], next |-> next] \in UpdateCalls
  BY DEF IInv, TypeOK, AdminRead, UpdateCalls
<1>. QED
  BY <1>1, QuietStep DEF AdminRead

LEMMA AdminTxStep ==
  ASSUME IInv, NEW c \in Calls, AdminTx(c)
  PROVE  IInv' /\ LifecycleStep
<1>. DEFINE d == call[c].d
            next == call[c].next
<1>1. call[c].at = "admin.tx" /\ dispute[d] = call[c].seen
  BY DEF AdminTx
<1>2. d \in DisputeIds /\ next \in DisputeStatuses /\ dispute[d] \in DisputeStatuses
  BY <1>1, UpdateState DEF IInv
<1>3. next \in Resolved \cup {"UNDER_REVIEW"} /\ canTransitionDispute(dispute[d], next)
  BY <1>1 DEF IInv, AdminKnows
<1>4. dispute[d] \in Active /\ (dispute[d] = "UNDER_REVIEW" => next \in Resolved)
  BY <1>2, <1>3, Transitions
<1>5. CASE next \in Resolved
  <2>1. RestoreContract(dispute') /\ dispute' = [dispute EXCEPT ![d] = next] /\ Return(c)
    BY <1>5 DEF AdminTx
  <2>. QED
    BY <1>2, <1>4, <1>5, <2>1, Ends DEF Terminal
<1>6. CASE next \notin Resolved
  <2>1. next = "UNDER_REVIEW" /\ dispute[d] = "OPEN"
    BY <1>3, <1>4, <1>6 DEF Active
  <2>2. UNCHANGED contract /\ dispute' = [dispute EXCEPT ![d] = next] /\ Return(c)
    BY <1>6 DEF AdminTx
  <2>3. /\ dispute' \in [DisputeIds -> DisputeStatuses \cup {"none"}]
        /\ dispute'[d] = "UNDER_REVIEW"
        /\ \A e \in DisputeIds \ {d} : dispute'[e] = dispute[e]
    BY <1>2, <2>1, <2>2 DEF IInv, TypeOK
  <2>4. OneActiveDispute'
    BY <1>4, <2>3 DEF IInv, OneActiveDispute
  <2>5. DisputedHasDispute' /\ RestoredAsItWas'
    BY <1>2, <2>2, <2>3 DEF IInv, DisputedHasDispute, RestoredAsItWas,
                            ActiveDisputes, Active
  <2>6. LifecycleStep
    BY <2>1, <2>3 DEF LifecycleStep, Terminal, Resolved
  <2>. QED
    BY <2>2, <2>3, <2>4, <2>5, <2>6, Returns DEF IInv, TypeOK
<1>. QED
  BY <1>5, <1>6

LEMMA CompleteStep ==
  ASSUME IInv, Complete
  PROVE  IInv' /\ LifecycleStep
<1>1. TypeOK'
  BY DEF IInv, TypeOK, Complete, ContractStatuses
<1>2. OneActiveDispute' /\ DisputedHasDispute' /\ RestoredAsItWas'
  BY DEF IInv, Complete, OneActiveDispute, DisputedHasDispute, RestoredAsItWas
<1>3. \A x \in Calls : AdminKnows(x)'
  BY DEF IInv, Complete, AdminKnows, canTransitionDispute, DISPUTE_TRANSITIONS
<1>4. LifecycleStep
  BY DEF Complete, LifecycleStep, Terminal, Resolved
<1>. QED
  BY <1>1, <1>2, <1>3, <1>4 DEF IInv

LEMMA Inductive ==
  ASSUME IInv, Next
  PROVE  IInv' /\ LifecycleStep
<1>1. ASSUME NEW c \in Calls, CallStep(c) PROVE IInv' /\ LifecycleStep
  <2>1. CASE RaiseRead(c)
    BY <2>1, RaiseReadStep
  <2>2. CASE RaiseCheck(c)
    BY <2>2, RaiseCheckStep
  <2>3. CASE \E d \in DisputeIds : RaiseTx(c, d)
    BY <2>3, RaiseTxStep
  <2>4. CASE RaiseConflict(c)
    BY <2>4, QuietStep DEF RaiseConflict, Return, Idle
  <2>5. CASE \E d \in DisputeIds : WithdrawRead(c, d)
    BY <2>5, WithdrawReadStep
  <2>6. CASE WithdrawTx(c)
    BY <2>6, WithdrawTxStep
  <2>7. CASE \E d \in DisputeIds, next \in DisputeStatuses : AdminRead(c, d, next)
    BY <2>7, AdminReadStep
  <2>8. CASE AdminTx(c)
    BY <2>8, AdminTxStep
  <2>9. CASE UpdateRefused(c)
    BY <2>9, QuietStep DEF UpdateRefused, Return, Idle
  <2>. QED
    BY <1>1, <2>1, <2>2, <2>3, <2>4, <2>5, <2>6, <2>7, <2>8, <2>9 DEF CallStep
<1>2. CASE Complete
  BY <1>2, CompleteStep
<1>. QED
  BY <1>1, <1>2 DEF Next, DisputeStep

LEMMA Stutters ==
  ASSUME IInv, UNCHANGED vars
  PROVE  IInv' /\ LifecycleStep
<1>1. TypeOK'
  BY DEF IInv, TypeOK, vars
<1>2. OneActiveDispute' /\ DisputedHasDispute' /\ RestoredAsItWas'
  BY DEF IInv, vars, OneActiveDispute, DisputedHasDispute, RestoredAsItWas,
         ActiveDisputes
<1>3. \A x \in Calls : AdminKnows(x)'
  BY DEF IInv, vars, AdminKnows, canTransitionDispute, DISPUTE_TRANSITIONS
<1>4. LifecycleStep
  BY DEF vars, LifecycleStep, Terminal, Resolved
<1>. QED
  BY <1>1, <1>2, <1>3, <1>4 DEF IInv

LEMMA Invariance == Spec => []IInv
<1>1. IInv /\ [Next]_vars => IInv'
  BY Inductive, Stutters
<1>. QED
  BY Initial, <1>1, PTL DEF Spec

-----------------------------------------------------------------------------
(* Every variable keeps its type: in particular the restore of a contract  *)
(* in maybeRestoreContractStatus gives it a status it may have.            *)
THEOREM TypeCorrect == Spec => []TypeOK
<1>1. IInv => TypeOK
  BY DEF IInv
<1>. QED
  BY Invariance, <1>1, PTL

(* However many parties raise a dispute at once, one is active: raise's    *)
(* check alone would not do, the partial unique index does.                *)
THEOREM OneIsActive == Spec => []OneActiveDispute
<1>1. IInv => OneActiveDispute
  BY DEF IInv
<1>. QED
  BY Invariance, <1>1, PTL

(* No contract is left DISPUTED when its last dispute has ended.           *)
THEOREM DisputedIsBacked == Spec => []DisputedHasDispute
<1>1. IInv => DisputedHasDispute
  BY DEF IInv
<1>. QED
  BY Invariance, <1>1, PTL

(* Withdrawals and resolutions give the contract back as it was found.     *)
THEOREM ContractIsRestored == Spec => []RestoredAsItWas
<1>1. IInv => RestoredAsItWas
  BY DEF IInv
<1>. QED
  BY Invariance, <1>1, PTL

LEMMA DisputesOf == ContractsSpec => Spec
<1>1. ContractsInit => Init
  BY DEF ContractsInit
<1>2. [ContractsNext]_focusVars => [Next]_vars
  BY DEF ContractsNext, focusVars
<1>. QED
  BY <1>1, <1>2, PTL DEF ContractsSpec, Spec

(* The status of a contract mirrors its disputes, whoever raises,          *)
(* withdraws and decides at once.                                          *)
THEOREM ContractMirrors == ContractsSpec => []ContractIsMirrored
<1>1. TypeOK /\ OneActiveDispute /\ DisputedHasDispute /\ RestoredAsItWas
        => ContractIsMirrored
  BY DEF ContractIsMirrored
<1>. QED
  BY <1>1, TypeCorrect, OneIsActive, DisputedIsBacked, ContractIsRestored, DisputesOf, PTL

(* No withdrawal and no admin's update, on whatever it read, re-opens a    *)
(* terminal dispute or withdraws one that is under review.                 *)
THEOREM LifecycleIsKept == ContractsSpec => DisputeLifecycle
<1>1. IInv /\ [Next]_vars => [LifecycleStep]_vars
  BY Inductive, Stutters
<1>. QED
  BY Invariance, <1>1, DisputesOf, PTL DEF Spec, DisputeLifecycle
=============================================================================
