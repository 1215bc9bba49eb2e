---------------------------- MODULE DripSequences ----------------------------
(***************************************************************************)
(* ONE drip sequence and the enrollment of one user in it: enrolling and   *)
(* cancelling, adding and deleting steps, and the ticks of the cron job    *)
(* that mail the current step and advance the enrollment.                  *)
(*                                                                         *)
(* A tick works on the steps and the enrollment it read, and writes by id. *)
(* When a step falls due is left open: an armed enrollment may be due.     *)
(***************************************************************************)
EXTENDS Naturals, FiniteSets

CONSTANTS
  Steps,        \* bound: the steps the sequence may have
  Calls,        \* slots: requests and cron ticks in flight
  MaxFailures   \* bound: mails that fail and ticks that stop half way

VARIABLES
  order,        \* EmailDripStep.order of the steps that exist
  enabled,      \* EmailDripSequence.enabled
  enrollment,   \* EmailDripEnrollment, armed for nextRunAt # null
  mailed,       \* how many mails the user got of each step, 2 for more
  owed,         \* the steps the sequence had while the enrollment was active
  dropped,      \* a tick stopped between its mail and the advance
  raced,        \* ticks overlapped, or the steps changed under one
  call,         \* requests and ticks in flight
  failures      \* mails that failed and ticks that stopped half way

ghosts == <<owed, dropped, raced>>
vars   == <<order, enabled, enrollment, mailed, ghosts, call, failures>>

NotEnrolled == [row |-> FALSE, idx |-> 0, armed |-> FALSE, completed |-> FALSE,
                cancelled |-> FALSE]
Enrollments == [row : BOOLEAN, idx : Nat, armed : BOOLEAN, completed : BOOLEAN,
                cancelled : BOOLEAN]
Existing    == DOMAIN order
Orders      == 0 .. Cardinality(Steps)

Idle  == [at |-> "idle"]
Ticks == {"tick", "mailed", "retry", "inactive"}
Slots == [at : {"enroll", "cancel"}]
           \cup [at : {"add", "delete"}, s : Steps, order : Orders]

(* steps, seen: the orders of the steps and the enrollment as they were.   *)
TickSlot(slot) ==
  slot.at \in Ticks /\ DOMAIN slot.steps \subseteq Steps /\ slot.seen \in Enrollments

Set(c, slot) == call' = [call EXCEPT ![c] = slot]
Goto(c, at)  == call' = [call EXCEPT ![c].at = at]
Return(c)    == Set(c, Idle)

InFlight(c, ats) == \E d \in Calls \ {c} : call[d].at \in ats

Active == enrollment.row /\ ~ enrollment.completed /\ ~ enrollment.cancelled

Init ==
  /\ order = <<>>
  /\ enabled = TRUE
  /\ enrollment = NotEnrolled
  /\ mailed = [s \in Steps |-> 0]
  /\ owed = {}
  /\ dropped = FALSE
  /\ raced = FALSE
  /\ call = [c \in Calls |-> Idle]
  /\ failures = 0

(* The place of a step when the steps are sorted by their order, from 0.   *)
Place(o, s) == Cardinality({t \in DOMAIN o : o[t] < o[s]})

-----------------------------------------------------------------------------
(* updateDripSequence, addDripStep and deleteDripStep                      *)

Toggle ==
  /\ enabled' = ~ enabled
  /\ UNCHANGED <<order, enrollment, mailed, ghosts, call, failures>>

AddRead(c, s) ==
  /\ call[c] = Idle
  /\ s \notin Existing
  /\ mailed[s] = 0
  /\ Set(c, [at |-> "add", s |-> s, order |-> Cardinality(Existing)])
  /\ UNCHANGED <<order, enabled, enrollment, mailed, ghosts, failures>>

OrderFree(o) == \A t \in Existing : order[t] # o

(* The new step is the last; an order that is taken fails.                 *)
AddWrite(c) ==
  LET s == call[c].s
      free == s \notin Existing /\ OrderFree(call[c].order)
  IN
  /\ call[c].at = "add"
  /\ order' = IF free
       THEN [t \in Existing \cup {s} |-> IF t = s THEN call[c].order ELSE order[t]]
       ELSE order
  /\ owed' = IF free /\ Active THEN owed \cup {s} ELSE owed
  /\ raced' = (raced \/ InFlight(c, Ticks \cup {"delete", "enroll"}))
  /\ Return(c)
  /\ UNCHANGED <<enabled, enrollment, mailed, dropped, failures>>

DeleteRead(c, s) ==
  /\ call[c] = Idle
  /\ s \in Existing
  /\ Set(c, [at |-> "delete", s |-> s, order |-> order[s]])
  /\ UNCHANGED <<order, enabled, enrollment, mailed, ghosts, failures>>

IndexAfter(idx, deleted) == IF idx > deleted THEN idx - 1 ELSE idx

(* One transaction: the step, the orders re-packed, the enrollments whose  *)
(* index pointed past it shifted, those beyond the last step completed.    *)
DeleteTx(c) ==
  LET s == call[c].s
      rest == [t \in Existing \ {s} |-> order[t]]
      idx == IndexAfter(enrollment.idx, call[c].order)
      over == idx >= Cardinality(DOMAIN rest)
  IN
  /\ call[c].at = "delete"
  /\ s \in Existing
  /\ order' = [t \in DOMAIN rest |-> Place(rest, t)]
  /\ enrollment' = IF ~ Active THEN enrollment
       ELSE [enrollment EXCEPT !.idx = idx, !.completed = over,
                               !.armed = @ /\ ~ over]
  /\ owed' = owed \ {s}
  /\ raced' = (raced \/ InFlight(c, Ticks \cup {"delete", "add", "enroll"}))
  /\ Return(c)
  /\ UNCHANGED <<enabled, mailed, dropped, failures>>

DeleteGone(c) ==
  /\ call[c].at = "delete"
  /\ call[c].s \notin Existing
  /\ Return(c)
  /\ UNCHANGED <<order, enabled, enrollment, mailed, ghosts, failures>>

-----------------------------------------------------------------------------
(* enrollUser and cancelEnrollment                                         *)

EnrollRead(c) ==
  /\ call[c] = Idle
  /\ enabled /\ Existing # {}
  /\ ~ enrollment.row
  /\ Set(c, [at |-> "enroll"])
  /\ UNCHANGED <<order, enabled, enrollment, mailed, ghosts, failures>>

(* A user is enrolled once in a sequence (unique index).                   *)
EnrollWrite(c) ==
  /\ call[c].at = "enroll"
  /\ IF enrollment.row THEN UNCHANGED <<enrollment, owed>>
     ELSE /\ enrollment' = [NotEnrolled EXCEPT !.row = TRUE, !.armed = TRUE]
          /\ owed' = Existing
  /\ Return(c)
  /\ UNCHANGED <<order, enabled, mailed, dropped, raced, failures>>

CancelRead(c) ==
  /\ call[c] = Idle
  /\ Active
  /\ Set(c, [at |-> "cancel"])
  /\ UNCHANGED <<order, enabled, enrollment, mailed, ghosts, failures>>

Cancelled == [enrollment EXCEPT !.cancelled = TRUE, !.armed = FALSE]

CancelWrite(c) ==
  /\ call[c].at = "cancel"
  /\ enrollment' = Cancelled
  /\ Return(c)
  /\ UNCHANGED <<order, enabled, mailed, ghosts, failures>>

-----------------------------------------------------------------------------
(* processDueDripSteps                                                     *)

(* A variant the checks refute: what is armed is due.                      *)
ArmedIsDue == enabled /\ enrollment.row /\ enrollment.armed

Due == enabled /\ Active /\ enrollment.armed

(* The user of the enrollment may have become inactive.                    *)
TickRead(c, at) ==
  /\ call[c] = Idle
  /\ Due
  /\ at \in {"tick", "inactive"}
  /\ Set(c, [at |-> at, steps |-> order, seen |-> enrollment])
  /\ raced' = (raced \/ InFlight(c, Ticks))
  /\ UNCHANGED <<order, enabled, enrollment, mailed, owed, dropped, failures>>

TickInactive(c) ==
  /\ call[c].at = "inactive"
  /\ enrollment' = Cancelled
  /\ Return(c)
  /\ UNCHANGED <<order, enabled, mailed, ghosts, failures>>

(* The step at the index of the enrollment, as both were read.             *)
StepCount(c) == Cardinality(DOMAIN call[c].steps)
HasStep(c)   == call[c].seen.idx < StepCount(c)
Current(c)   == CHOOSE s \in DOMAIN call[c].steps :
                  Place(call[c].steps, s) = call[c].seen.idx

TickNoStep(c) ==
  /\ call[c].at = "tick"
  /\ ~ HasStep(c)
  /\ enrollment' = [enrollment EXCEPT !.completed = TRUE, !.armed = FALSE]
  /\ Return(c)
  /\ UNCHANGED <<order, enabled, mailed, ghosts, failures>>

Mail(c) ==
  /\ call[c].at = "tick"
  /\ HasStep(c)
  /\ mailed' = [mailed EXCEPT ![Current(c)] = IF @ = 0 THEN 1 ELSE 2]
  /\ Goto(c, "mailed")
  /\ UNCHANGED <<order, enabled, enrollment, ghosts, failures>>

MailFails(c) ==
  /\ call[c].at = "tick"
  /\ HasStep(c)
  /\ failures < MaxFailures
  /\ failures' = failures + 1
  /\ Goto(c, "retry")
  /\ UNCHANGED <<order, enabled, enrollment, mailed, ghosts>>

(* nextRunAt in five minutes, whatever the enrollment is by now.           *)
Retry(c) ==
  /\ call[c].at = "retry"
  /\ enrollment' = [enrollment EXCEPT !.armed = TRUE]
  /\ Return(c)
  /\ UNCHANGED <<order, enabled, mailed, ghosts, failures>>

Advance(c) ==
  LET next == call[c].seen.idx + 1
      last == next >= StepCount(c) IN
  /\ call[c].at = "mailed"
  /\ enrollment' = [enrollment EXCEPT !.idx = next, !.armed = ~ last,
                                      !.completed = @ \/ last]
  /\ Return(c)
  /\ UNCHANGED <<order, enabled, mailed, ghosts, failures>>

(* A tick or a request stops half way.                                     *)
Stops(c) ==
  /\ call[c] # Idle
  /\ failures < MaxFailures
  /\ failures' = failures + 1
  /\ dropped' = (dropped \/ call[c].at = "mailed")
  /\ Return(c)
  /\ UNCHANGED <<order, enabled, enrollment, mailed, owed, raced>>

Next ==
  \/ Toggle
  \/ \E c \in Calls :
       \/ \E s \in Steps : AddRead(c, s) \/ DeleteRead(c, s)
       \/ AddWrite(c) \/ DeleteTx(c) \/ DeleteGone(c)
       \/ EnrollRead(c) \/ EnrollWrite(c) \/ CancelRead(c) \/ CancelWrite(c)
       \/ \E at \in {"tick", "inactive"} : TickRead(c, at)
       \/ TickInactive(c) \/ TickNoStep(c) \/ Mail(c) \/ MailFails(c) \/ Retry(c)
       \/ Advance(c) \/ Stops(c)

Spec == Init /\ [][Next]_vars

-----------------------------------------------------------------------------
(* Every variable keeps its type, and no two steps have the same order.    *)
TypeOK ==
  /\ Existing \subseteq Steps
  /\ \A s \in Existing : order[s] \in Orders
  /\ \A s, t \in Existing : order[s] = order[t] => s = t
  /\ enabled \in BOOLEAN
  /\ enrollment \in Enrollments
  /\ mailed \in [Steps -> 0 .. 2]
  /\ owed \subseteq Steps
  /\ dropped \in BOOLEAN /\ raced \in BOOLEAN
  /\ \A c \in Calls : call[c] \in Slots \cup {Idle} \/ TickSlot(call[c])
  /\ failures \in 0 .. MaxFailures

(* Nobody gets a step twice, however the steps are added and deleted,      *)
(* until ticks overlap, the steps change under one, or one stops between   *)
(* the mail and the advance.                                               *)
StepMailedOnce ==
  ~ raced /\ ~ dropped => \A s \in Steps : mailed[s] <= 1

(* An enrollment that is completed has been mailed every step the sequence *)
(* had since: no deletion makes it skip another step, no failure a mail.   *)
EveryStepMailed ==
  ~ raced /\ enrollment.completed /\ ~ enrollment.cancelled =>
    \A s \in owed : mailed[s] > 0

(* A cancelled enrollment is mailed by the ticks that had read it before,  *)
(* and never again, though such a tick arms it anew.                       *)
CancelStep ==
  enrollment.cancelled /\ mailed' # mailed =>
    \E c \in Calls : call[c].at = "tick" /\ call'[c] # call[c] /\ ~ call[c].seen.cancelled

CancelStopsMails == [][CancelStep]_vars

Consistent == TypeOK /\ StepMailedOnce /\ EveryStepMailed

(* An enrollment is mailed its sequence, each step once, until cancelled.  *)
SequenceIsKept == []Consistent /\ CancelStopsMails
=============================================================================
