------------------------------- MODULE Hiring -------------------------------
(***************************************************************************)
(* ONE application of a trainer to a job request, and the tests of that    *)
(* request: applying, the company's decisions, assigning a test, the       *)
(* trainer's attempts and their grading, deleting a test.                  *)
(*                                                                         *)
(* Every handler reads first and writes later; a call slot holds what was  *)
(* read.  A transaction is one step, except the grading's, which reads the *)
(* responses of an attempt before it writes their sum.  Every task is      *)
(* worth one point.                                                        *)
(***************************************************************************)
EXTENDS Naturals, FiniteSets

CONSTANTS
  Tests,        \* bound: the tests of the request
  AutoTasks,    \* the tasks of a test graded by their answer key
  ManualTasks,  \* the tasks of a test graded by the company
  Calls         \* slots: requests in flight

VARIABLES
  application,  \* Application.status, "none" without a row
  audit,        \* the last AuditLog row of the application: from and to
  test,         \* the tests that exist
  attempt,      \* TestAttempt of the application per test: status, totalScore
  points,       \* TestTaskResponse: the points of each task of an attempt
  lost,         \* tests whose attempt was deleted with them
  raced,        \* attempts with overlapping submissions or gradings
  call          \* requests in flight

rows   == <<attempt, points>>
ghosts == <<lost, raced>>
vars   == <<application, audit, test, rows, ghosts, call>>

Tasks == AutoTasks \cup ManualTasks

ApplicationStatus ==
  {"APPLIED", "SHORTLISTED", "TEST_ASSIGNED", "TEST_SUBMITTED", "INTERVIEW",
   "OFFERED", "ACCEPTED", "REJECTED", "WITHDRAWN"}

APPLICATION_STATUS_TRANSITIONS ==
  [s \in ApplicationStatus |->
    CASE s = "APPLIED"        -> {"SHORTLISTED", "TEST_ASSIGNED", "ACCEPTED", "REJECTED"}
      [] s = "SHORTLISTED"    -> {"APPLIED", "TEST_ASSIGNED", "ACCEPTED", "REJECTED"}
      [] s = "TEST_ASSIGNED"  -> {"TEST_SUBMITTED", "REJECTED", "WITHDRAWN"}
      [] s = "TEST_SUBMITTED" -> {"ACCEPTED", "REJECTED"}
      [] OTHER                -> {}]

canTransitionApplicationStatus(from, to) ==
  from # "none" /\ to \in APPLICATION_STATUS_TRANSITIONS[from]

(* score: totalScore in points, {} for null.                               *)
Scores   == {{}} \cup {{n} : n \in 0 .. Cardinality(Tasks)}
NoRow    == [status |-> "none", score |-> {}]
Attempts == [status : {"IN_PROGRESS", "SUBMITTED", "GRADED"}, score : Scores] \cup {NoRow}
NoPoints == [k \in Tasks |-> 0]

(* What a request carries: points for some of the tasks in S.              *)
Marks(S) == UNION {[T -> {0, 1}] : T \in SUBSET S}

Idle == [at |-> "idle"]
Slots ==
  [at : {"apply"}]
  \cup [at : {"status", "assign"}, from : ApplicationStatus, to : ApplicationStatus]
  \cup [at : {"start", "remove"}, t : Tests]
  \cup [at : {"submit"}, t : Tests, marks : Marks(AutoTasks)]
  \cup [at : {"grade"}, t : Tests, marks : Marks(ManualTasks)]
  \cup [at : {"grade.tx"}, t : Tests, marks : Marks(ManualTasks),
        total : 0 .. Cardinality(Tasks)]

Set(c, slot) == call' = [call EXCEPT ![c] = slot]
Return(c)    == Set(c, Idle)

Init ==
  /\ application = "none"
  /\ audit = [from |-> "none", to |-> "none"]
  /\ test = Tests
  /\ attempt = [t \in Tests |-> NoRow]
  /\ points = [t \in Tests |-> NoPoints]
  /\ lost = {}
  /\ raced = {}
  /\ call = [c \in Calls |-> Idle]

-----------------------------------------------------------------------------
(* apply                                                                   *)

ApplyRead(c) ==
  /\ call[c] = Idle
  /\ application = "none"
  /\ Set(c, [at |-> "apply"])
  /\ UNCHANGED <<application, audit, test, rows, ghosts>>

(* One application per request and trainer: a unique index.                *)
ApplyWrite(c) ==
  /\ call[c].at = "apply"
  /\ application' = IF application = "none" THEN "APPLIED" ELSE application
  /\ Return(c)
  /\ UNCHANGED <<audit, test, rows, ghosts>>

-----------------------------------------------------------------------------
(* updateStatus and assignTest                                             *)

Unrestricted(to) == to \notin {"TEST_ASSIGNED", "TEST_SUBMITTED"}

StatusRead(c, to) ==
  /\ call[c] = Idle
  /\ Unrestricted(to)
  /\ canTransitionApplicationStatus(application, to)
  /\ Set(c, [at |-> "status", from |-> application, to |-> to])
  /\ UNCHANGED <<application, audit, test, rows, ghosts>>

AssignRead(c, t) ==
  /\ call[c] = Idle
  /\ t \in test
  /\ canTransitionApplicationStatus(application, "TEST_ASSIGNED")
  /\ Set(c, [at |-> "assign", from |-> application, to |-> "TEST_ASSIGNED"])
  /\ UNCHANGED <<application, audit, test, rows, ghosts>>

(* The claim and its audit row; a status that has moved on is left alone.  *)
Move(from, to) ==
  IF application = from
    THEN /\ application' = to
         /\ audit' = [from |-> from, to |-> to]
    ELSE UNCHANGED <<application, audit>>

StatusTx(c) ==
  /\ call[c].at \in {"status", "assign"}
  /\ Move(call[c].from, call[c].to)
  /\ Return(c)
  /\ UNCHANGED <<test, rows, ghosts>>

-----------------------------------------------------------------------------
(* startAttempt and remove                                                 *)

StartRead(c, t) ==
  /\ call[c] = Idle
  /\ t \in test
  /\ application = "TEST_ASSIGNED"
  /\ attempt[t] = NoRow
  /\ Set(c, [at |-> "start", t |-> t])
  /\ UNCHANGED <<application, audit, test, rows, ghosts>>

(* The loser of the unique index gets the winner's row; a test that is     *)
(* gone fails the request.                                                 *)
StartWrite(c) ==
  LET t == call[c].t IN
  /\ call[c].at = "start"
  /\ attempt' = IF t \in test /\ attempt[t] = NoRow
                  THEN [attempt EXCEPT ![t].status = "IN_PROGRESS"] ELSE attempt
  /\ Return(c)
  /\ UNCHANGED <<application, audit, test, points, ghosts>>

RemoveRead(c, t) ==
  /\ call[c] = Idle
  /\ t \in test
  /\ attempt[t] = NoRow
  /\ Set(c, [at |-> "remove", t |-> t])
  /\ UNCHANGED <<application, audit, test, rows, ghosts>>

-----------------------------------------------------------------------------
(* submitAttempt                                                           *)

(* The tasks that got their point.                                         *)
Sum(f) == Cardinality({k \in DOMAIN f : f[k] = 1})

Overwritten(t, marks) ==
  [points EXCEPT ![t] = [k \in Tasks |-> IF k \in DOMAIN marks THEN marks[k] ELSE @[k]]]

InFlight(c, t, ats) ==
  \E d \in Calls \ {c} : call[d].at \in ats /\ call[d].t = t

(* The rows that gradings in their transaction have locked.                *)
LockedTasks(t) ==
  UNION {DOMAIN call[d].marks :
           d \in {x \in Calls : call[x].at = "grade.tx" /\ call[x].t = t}}

(* A variant the checks refute: an attempt is submitted again.             *)
SubmittedOrNot(t) == attempt[t] # NoRow

Submittable(t) == attempt[t].status = "IN_PROGRESS"

SubmitRead(c, t, marks) ==
  /\ call[c] = Idle
  /\ Submittable(t)
  /\ Set(c, [at |-> "submit", t |-> t, marks |-> marks])
  /\ raced' = IF InFlight(c, t, {"submit"}) THEN raced \cup {t} ELSE raced
  /\ UNCHANGED <<application, audit, test, rows, lost>>

(* By id: what the attempt has become in the meantime is not asked.        *)
SubmitTx(c) ==
  LET t == call[c].t
      marks == call[c].marks IN
  /\ call[c].at = "submit"
  /\ DOMAIN marks \cap LockedTasks(t) = {}
  /\ Return(c)
  /\ IF attempt[t] = NoRow
       THEN UNCHANGED <<application, audit, rows, raced>>
       ELSE /\ points' = Overwritten(t, marks)
            /\ attempt' = [attempt EXCEPT ![t] =
                 [status |-> "SUBMITTED",
                  score |-> IF ManualTasks = {} THEN {Sum(marks)} ELSE {}]]
            /\ Move("TEST_ASSIGNED", "TEST_SUBMITTED")
            /\ raced' = IF InFlight(c, t, {"grade.tx"}) THEN raced \cup {t} ELSE raced
  /\ UNCHANGED <<test, lost>>

-----------------------------------------------------------------------------
(* gradeAttempt                                                            *)

GradeRead(c, t, marks) ==
  /\ call[c] = Idle
  /\ attempt[t].status \in {"SUBMITTED", "GRADED"}
  /\ Set(c, [at |-> "grade", t |-> t, marks |-> marks])
  /\ UNCHANGED <<application, audit, test, rows, ghosts>>

(* A variant the checks refute: the sum of the marks that were given.      *)
MarksOnly(t, marks) == Sum(marks)

(* The sum over the canonical rows, after the marks were written to them.  *)
Total(t, marks) == Sum(Overwritten(t, marks)[t])

GradeTx(c) ==
  LET t == call[c].t
      marks == call[c].marks IN
  /\ call[c].at = "grade"
  /\ attempt[t] # NoRow
  /\ DOMAIN marks \cap LockedTasks(t) = {}
  /\ Set(c, [at |-> "grade.tx", t |-> t, marks |-> marks, total |-> Total(t, marks)])
  /\ raced' = IF InFlight(c, t, {"grade.tx"}) THEN raced \cup {t} ELSE raced
  /\ UNCHANGED <<application, audit, test, rows, lost>>

GradeCommit(c) ==
  LET t == call[c].t IN
  /\ call[c].at = "grade.tx"
  /\ Return(c)
  /\ IF attempt[t] = NoRow
       THEN UNCHANGED rows
       ELSE /\ points' = Overwritten(t, call[c].marks)
            /\ attempt' = [attempt EXCEPT ![t] =
                 [status |-> "GRADED", score |-> {call[c].total}]]
  /\ UNCHANGED <<application, audit, test, ghosts>>

(* Attempts and responses go with their test (onDelete: Cascade).          *)
RemoveWrite(c) ==
  LET t == call[c].t IN
  /\ call[c].at = "remove"
  /\ LockedTasks(t) = {}
  /\ test' = test \ {t}
  /\ attempt' = [attempt EXCEPT ![t] = NoRow]
  /\ points' = [points EXCEPT ![t] = NoPoints]
  /\ lost' = IF attempt[t] = NoRow THEN lost ELSE lost \cup {t}
  /\ Return(c)
  /\ UNCHANGED <<application, audit, raced>>

-----------------------------------------------------------------------------
(* A request stops before it wrote anything, or its transaction rolls back. *)
Stops(c) ==
  /\ call[c] # Idle
  /\ Return(c)
  /\ UNCHANGED <<application, audit, test, rows, ghosts>>

Next ==
  \E c \in Calls :
    \/ ApplyRead(c) \/ ApplyWrite(c)
    \/ \E to \in ApplicationStatus : StatusRead(c, to)
    \/ \E t \in Tests :
         \/ AssignRead(c, t) \/ StartRead(c, t) \/ RemoveRead(c, t)
         \/ \E marks \in Marks(AutoTasks) : SubmitRead(c, t, marks)
         \/ \E marks \in Marks(ManualTasks) : GradeRead(c, t, marks)
    \/ StatusTx(c) \/ StartWrite(c) \/ RemoveWrite(c) \/ SubmitTx(c)
    \/ GradeTx(c) \/ GradeCommit(c) \/ Stops(c)

Spec == Init /\ [][Next]_vars

-----------------------------------------------------------------------------
(* Every variable keeps its type, and no attempt outlives its test.        *)
TypeOK ==
  /\ application \in ApplicationStatus \cup {"none"}
  /\ audit \in [from : ApplicationStatus \cup {"none"},
                to : ApplicationStatus \cup {"none"}]
  /\ test \subseteq Tests
  /\ attempt \in [Tests -> Attempts]
  /\ points \in [Tests -> [Tasks -> {0, 1}]]
  /\ lost \subseteq Tests /\ raced \subseteq Tests
  /\ call \in [Calls -> Slots \cup {Idle}]
  /\ \A t \in Tests \ test : attempt[t] = NoRow /\ points[t] = NoPoints

(* Whatever overlaps, every move of the application follows the transition *)
(* table and has exactly its own row in the audit trail.                   *)
AuditFollowsStatus ==
  [][/\ application' # application /\ application # "none" =>
          /\ canTransitionApplicationStatus(application, application')
          /\ audit' = [from |-> application, to |-> application']
     /\ audit' # audit => application' # application]_vars

(* An application that says a test was submitted has the submitted or      *)
(* graded attempt to review, unless a deletion of the test that counted    *)
(* no attempts took it away.                                               *)
SubmittedHasAttempt ==
  application = "TEST_SUBMITTED" =>
    \/ \E t \in Tests : attempt[t].status \in {"SUBMITTED", "GRADED"}
    \/ lost # {}

(* The score of an attempt is the sum of the points on its responses,      *)
(* until submissions or gradings of the attempt overlap.                   *)
ScoreIsSum ==
  \A t \in Tests \ raced :
    attempt[t].score # {} => attempt[t].score = {Sum(points[t])}

(* A grade stands: only two submissions that overlapped put a graded       *)
(* attempt back to SUBMITTED.                                              *)
GradeStands ==
  [][\A t \in Tests \ raced :
       attempt[t].status = "GRADED" => attempt'[t].status # "SUBMITTED"]_vars

(* The rows of the application, its tests and their responses agree.       *)
RecordsAgree == TypeOK /\ SubmittedHasAttempt /\ ScoreIsSum

(* What was decided stands: the moves of the application and the grades.   *)
HistoryStands == AuditFollowsStatus /\ GradeStands
=============================================================================
