----------------------------- MODULE Interviews -----------------------------
(***************************************************************************)
(* The interview meetings of ONE conversation: scheduling, cancelling,     *)
(* rescheduling (which cancels a meeting and creates its successor) and    *)
(* completing.                                                             *)
(*                                                                         *)
(* Each operation on a meeting reads it, and reads it again in its         *)
(* transaction, but takes no lock: transactions that overlap both find it  *)
(* SCHEDULED.  A call slot is at "read" after the first read and at "tx"   *)
(* after the second.                                                       *)
(***************************************************************************)
EXTENDS Naturals

CONSTANTS
  Meetings,   \* bound: the meetings of the conversation
  LastDay,    \* bound: the days the clock counts
  Calls       \* slots: requests in flight

VARIABLES
  today,      \* the current day
  meeting,    \* InterviewMeeting: status, scheduledAt, rescheduledFromId
  overlapped, \* meetings two transactions had in hand at once
  call        \* requests in flight

vars == <<today, meeting, overlapped, call>>

Days        == 1 .. LastDay
NoRow       == [status |-> "none", day |-> 0, from |-> {}]
MeetingRows ==
  [status : {"SCHEDULED", "CANCELLED", "COMPLETED"}, day : Days,
   from : {{}} \cup {{m} : m \in Meetings}]
Operations  == {"cancel", "reschedule", "complete"}

Idle  == [at |-> "idle"]
Slots == [at : {"read", "tx"}, op : Operations, m : Meetings, day : Days]

Set(c, slot) == call' = [call EXCEPT ![c] = slot]
Goto(c, at)  == call' = [call EXCEPT ![c].at = at]
Return(c)    == Set(c, Idle)

Init ==
  /\ today = 1
  /\ meeting = [m \in Meetings |-> NoRow]
  /\ overlapped = {}
  /\ call = [c \in Calls |-> Idle]

(* One transaction, nothing read before that another could change.         *)
Create(m, day) ==
  /\ meeting[m] = NoRow
  /\ day > today
  /\ meeting' = [meeting EXCEPT ![m] = [status |-> "SCHEDULED", day |-> day, from |-> {}]]
  /\ UNCHANGED <<today, overlapped, call>>

Scheduled(m) == meeting[m].status = "SCHEDULED"

(* day: the new date of a reschedule, today for the other operations.      *)
FirstRead(c, op, m, day) ==
  /\ call[c] = Idle
  /\ Scheduled(m)
  /\ IF op = "reschedule" THEN day > today ELSE day = today
  /\ op = "complete" => meeting[m].day <= today
  /\ Set(c, [at |-> "read", op |-> op, m |-> m, day |-> day])
  /\ UNCHANGED <<today, meeting, overlapped>>

(* A variant the checks refute: the transaction trusts the first read.     *)
FreshAnyway(m) == TRUE

Fresh(m) == Scheduled(m)

InTransaction(m) == {c \in Calls : call[c].at = "tx" /\ call[c].m = m}

TxRead(c) ==
  LET m == call[c].m IN
  /\ call[c].at = "read"
  /\ Fresh(m)
  /\ Goto(c, "tx")
  /\ overlapped' = IF InTransaction(m) = {} THEN overlapped ELSE overlapped \cup {m}
  /\ UNCHANGED <<today, meeting>>

AlreadyFinalized(c) ==
  /\ call[c].at = "read"
  /\ ~ Fresh(call[c].m)
  /\ Return(c)
  /\ UNCHANGED <<today, meeting, overlapped>>

Finalize(c, status) ==
  /\ call[c].at = "tx"
  /\ meeting' = [meeting EXCEPT ![call[c].m].status = status]
  /\ Return(c)
  /\ UNCHANGED <<today, overlapped>>

Cancel(c)   == call[c].op = "cancel" /\ Finalize(c, "CANCELLED")
Complete(c) == call[c].op = "complete" /\ Finalize(c, "COMPLETED")

Unsucceeded(m) == \A n \in Meetings : meeting[n].from # {m}

(* The second successor of a meeting fails, with its cancellation.         *)
Reschedule(c, n) ==
  LET m == call[c].m IN
  /\ call[c].at = "tx" /\ call[c].op = "reschedule"
  /\ meeting[n] = NoRow
  /\ meeting' = IF Unsucceeded(m)
       THEN [meeting EXCEPT
               ![m].status = "CANCELLED",
               ![n] = [status |-> "SCHEDULED", day |-> call[c].day, from |-> {m}]]
       ELSE meeting
  /\ Return(c)
  /\ UNCHANGED <<today, overlapped>>

(* A request stops; its transaction rolls back.                            *)
Stops(c) ==
  /\ call[c] # Idle
  /\ Return(c)
  /\ UNCHANGED <<today, meeting, overlapped>>

NextDay ==
  /\ today < LastDay
  /\ today' = today + 1
  /\ UNCHANGED <<meeting, overlapped, call>>

Next ==
  \/ \E m \in Meetings, day \in Days : Create(m, day)
  \/ \E c \in Calls :
       \/ \E op \in Operations, m \in Meetings, day \in Days : FirstRead(c, op, m, day)
       \/ TxRead(c) \/ AlreadyFinalized(c) \/ Stops(c)
       \/ call[c].at = "tx" /\ (Cancel(c) \/ Complete(c))
       \/ \E n \in Meetings : Reschedule(c, n)
  \/ NextDay

Spec == Init /\ [][Next]_vars

-----------------------------------------------------------------------------
(* Every variable keeps its type, and a successor has its predecessor.     *)
TypeOK ==
  /\ today \in Days
  /\ meeting \in [Meetings -> MeetingRows \cup {NoRow}]
  /\ overlapped \subseteq Meetings
  /\ call \in [Calls -> Slots \cup {Idle}]
  /\ \A n \in Meetings : \A m \in meeting[n].from : meeting[m] # NoRow

(* However reschedules overlap, a meeting moves on to one new date: no two *)
(* successors, and no successor of a meeting that is still SCHEDULED.      *)
OneSuccessor ==
  \A m, n \in Meetings :
    meeting[n].from = {m} =>
      /\ ~ Scheduled(m)
      /\ \A o \in Meetings : meeting[o].from = {m} => o = n

(* A meeting that is final stays what it is, unless two transactions had   *)
(* it in hand at once: what reading it again in the transaction is for.    *)
FinalStep(M) ==
  \A m \in M : meeting[m].status \in {"CANCELLED", "COMPLETED"} => meeting'[m] = meeting[m]

FinalStands == [][FinalStep(Meetings \ overlapped)]_vars

(* The same without the exception, as the comment in cancel says it.  The  *)
(* code breaks this one.                                                   *)
FinalIsFinal == [][FinalStep(Meetings)]_vars

Consistent == TypeOK /\ OneSuccessor

(* A meeting ends once, in one way.                                        *)
MeetingsAreFinal == []Consistent /\ FinalStands
=============================================================================
