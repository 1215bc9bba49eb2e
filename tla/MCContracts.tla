----------------------------- MODULE MCContracts -----------------------------
(***************************************************************************)
(* What leads to a contract and what may follow: an application and its    *)
(* tests (Hiring), the interviews of a conversation (Interviews), the      *)
(* verification of a profile (Verification), the document of a contract    *)
(* (ESign) and its disputes (Disputes).  They share no row, so a behaviour *)
(* is one of them, and their state spaces add up instead of multiplying.   *)
(***************************************************************************)
EXTENDS Disputes, TLC

CONSTANTS
  Tests, AutoTasks, ManualTasks,  \* Hiring
  LastDay                         \* Interviews, ESign

(* The clock of a signing and of a meeting starts at day 1.                *)
ASSUME LastDayAssumption == LastDay \in Nat \ {0}

ASSUME TasksAssumption == IsFiniteSet(AutoTasks) /\ IsFiniteSet(ManualTasks)

VARIABLES focus,
          application, audit, test, attempt, points, lost, raced, hiringCall,
          today, meeting, overlapped, meetingCall,
          signingDay, expiresAt, document, signature, signingCall,
          verified, request, byAdmin, approvedMeanwhile, verificationCall

hiringVars       == <<application, audit, test, attempt, points, lost, raced, hiringCall>>
meetingVars      == <<today, meeting, overlapped, meetingCall>>
signingVars      == <<signingDay, expiresAt, document, signature, signingCall>>
verificationVars == <<verified, request, byAdmin, approvedMeanwhile, verificationCall>>

focusVars == <<focus, vars, hiringVars, meetingVars, signingVars, verificationVars>>

H == INSTANCE Hiring WITH call <- hiringCall
I == INSTANCE Interviews WITH Meetings <- DisputeIds, call <- meetingCall
S == INSTANCE ESign WITH today <- signingDay, call <- signingCall
V == INSTANCE Verification WITH Entries <- DisputeIds, overlapped <- approvedMeanwhile,
                             call <- verificationCall

ContractsInit ==
  /\ focus \in {"hiring", "interviews", "signing", "verification", "disputes"}
  /\ Init /\ H!Init /\ I!Init /\ S!Init /\ V!Init

ContractsNext ==
  /\ UNCHANGED focus
  /\ \/ /\ focus = "hiring" /\ H!Next
        /\ UNCHANGED <<vars, meetingVars, signingVars, verificationVars>>
     \/ /\ focus = "interviews" /\ I!Next
        /\ UNCHANGED <<vars, hiringVars, signingVars, verificationVars>>
     \/ /\ focus = "signing" /\ S!Next
        /\ UNCHANGED <<vars, hiringVars, meetingVars, verificationVars>>
     \/ /\ focus = "verification" /\ V!Next
        /\ UNCHANGED <<vars, hiringVars, meetingVars, signingVars>>
     \/ /\ focus = "disputes" /\ Next
        /\ UNCHANGED <<hiringVars, meetingVars, signingVars, verificationVars>>

ContractsSpec == ContractsInit /\ [][ContractsNext]_focusVars

Symmetric ==
  Permutations(Calls) \cup Permutations(Tests) \cup Permutations(ManualTasks)
    \cup Permutations(DisputeIds)

-----------------------------------------------------------------------------
(* The properties of the other modules, stated for the code there.         *)

(* The rows of the application, its tests and their responses agree.       *)
RecordsAgree == H!RecordsAgree

(* What was decided stands: the moves of the application and the grades.   *)
HistoryStands == H!HistoryStands

(* A meeting moves on to one new date, and a final one stays as it is      *)
(* unless two transactions had it in hand at once.                         *)
MeetingsAreFinal == I!MeetingsAreFinal

(* What a document says it is, its signatures make it, for good.           *)
DocumentIsFinal == S!DocumentIsFinal

(* Verified is what was approved, and nothing is left to review then.      *)
VerificationIsEarned == V!VerificationIsEarned
=============================================================================
