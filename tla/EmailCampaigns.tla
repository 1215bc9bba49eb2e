--------------------------- MODULE EmailCampaigns ---------------------------
(***************************************************************************)
(* ONE email campaign: the admin's edits of its status, the claims that    *)
(* start a run (by the admin or the cron job) and the run, which mails the *)
(* recipients batch by batch and keeps a row per recipient.                *)
(*                                                                         *)
(* The edits write by id what a read allowed; a claim is one conditional   *)
(* update.  A recipient is known by its place in the order of ids.         *)
(***************************************************************************)
EXTENDS Naturals, FiniteSets

CONSTANTS
  Recipients,   \* the users of the segment, 1 .. n in the order of their ids
  Batch,        \* CRON_RECIPIENTS_PER_CAMPAIGN
  Calls,        \* slots: requests and cron ticks in flight
  MaxFailures   \* bound: mails that fail and calls that stop half way

VARIABLES
  campaign,     \* EmailCampaign: status, sentCount, failedCount
  send,         \* EmailCampaignSend.status of each recipient
  mailed,       \* how many mails each recipient got, 2 for more than one
  unmarked,     \* recipients with a mail their row does not show
  overlapped,   \* two runs were in progress at once
  rearmed,      \* an edit replaced the status of a campaign that had started
  call,         \* requests and ticks in flight
  failures      \* mails that failed and calls that stopped half way

ghosts == <<unmarked, overlapped, rearmed>>
vars   == <<campaign, send, mailed, ghosts, call, failures>>

CampaignStatuses == {"DRAFT", "SCHEDULED", "SENDING", "SENT", "CANCELLED", "FAILED",
                     "deleted"}
Counts == 0 .. 2 * Cardinality(Recipients)
Cursor == {0} \cup Recipients

(* An edit at "edit"; a run at "batch" (after: the recipients up to this   *)
(* one are done), "row", "mail", "sent" or "refused" (at: the recipient;   *)
(* upto: the last of the batch), "finish".                                 *)
Idle  == [step |-> "idle"]
Slots ==
  [step : {"edit"}, to : {"SCHEDULED", "CANCELLED", "deleted"}]
  \cup [step : {"batch", "finish"}, after : Cursor, sent : Counts, failed : Counts]
  \cup [step : {"row", "mail", "sent", "refused"}, after : Cursor, at : Recipients,
        upto : Recipients, sent : Counts, failed : Counts]

Running(c) == call[c].step \notin {"idle", "edit"}

Set(c, slot)  == call' = [call EXCEPT ![c] = slot]
Goto(c, step) == call' = [call EXCEPT ![c].step = step]
Return(c)     == Set(c, Idle)

Init ==
  /\ \E s \in {"DRAFT", "SCHEDULED"} :
       campaign = [status |-> s, sentCount |-> 0, failedCount |-> 0]
  /\ send = [r \in Recipients |-> "none"]
  /\ mailed = [r \in Recipients |-> 0]
  /\ unmarked = {}
  /\ overlapped = FALSE
  /\ rearmed = FALSE
  /\ call = [c \in Calls |-> Idle]
  /\ failures = 0

-----------------------------------------------------------------------------
(* scheduleCampaign, cancelCampaign and deleteCampaign                     *)

From == [SCHEDULED |-> {"DRAFT", "SCHEDULED"},
         CANCELLED |-> {"DRAFT", "SCHEDULED"},
         deleted   |-> CampaignStatuses \ {"SENDING", "deleted"}]

EditRead(c, to) ==
  /\ call[c] = Idle
  /\ campaign.status \in From[to]
  /\ Set(c, [step |-> "edit", to |-> to])
  /\ UNCHANGED <<campaign, send, mailed, ghosts, failures>>

(* By id.  The rows of the recipients go with the campaign.                *)
EditWrite(c) ==
  LET to == call[c].to IN
  /\ call[c].step = "edit"
  /\ campaign.status # "deleted"
  /\ campaign' = [campaign EXCEPT !.status = to]
  /\ send' = IF to = "deleted" THEN [r \in Recipients |-> "none"] ELSE send
  /\ rearmed' = (rearmed \/ campaign.status \in {"SENDING", "SENT", "FAILED"})
  /\ Return(c)
  /\ UNCHANGED <<mailed, unmarked, overlapped, failures>>

-----------------------------------------------------------------------------
(* The claims of sendCampaignNow and processDueCampaigns                   *)

Claimable(statuses) == campaign.status \in statuses

Claim(c, statuses) ==
  /\ call[c] = Idle
  /\ Claimable(statuses)
  /\ campaign' = [campaign EXCEPT !.status = "SENDING"]
  /\ Set(c, [step |-> "batch", after |-> 0, sent |-> 0, failed |-> 0])
  /\ overlapped' = (overlapped \/ \E d \in Calls : Running(d))
  /\ UNCHANGED <<send, mailed, unmarked, rearmed, failures>>

sendCampaignNow(c)     == Claim(c, {"DRAFT", "SCHEDULED"})
processDueCampaigns(c) == Claim(c, {"SCHEDULED"})

-----------------------------------------------------------------------------
(* runCampaign                                                             *)

Last(S)  == CHOOSE r \in S : \A q \in S : q <= r
First(S) == CHOOSE r \in S : \A q \in S : r <= q

(* A variant the checks refute: the cursor is forgotten.                   *)
BatchAgain(after) ==
  {r \in Recipients : Cardinality({q \in Recipients : q < r}) < Batch}

(* The first Batch recipients behind the cursor.                           *)
NextBatch(after) ==
  {r \in Recipients : r > after
     /\ Cardinality({q \in Recipients : after < q /\ q < r}) < Batch}

Visit(c, after, r, upto) ==
  Set(c, [step |-> "row", after |-> after, at |-> r, upto |-> upto,
          sent |-> call[c].sent, failed |-> call[c].failed])

Finish(c) ==
  Set(c, [step |-> "finish", after |-> 0, sent |-> call[c].sent, failed |-> call[c].failed])

Starts(c) == call[c].step = "batch" /\ call[c].after = 0

(* EmailSegmentSchema does not take the stored segment (any more).         *)
Unreadable(c) ==
  /\ Starts(c)
  /\ campaign.status # "deleted"
  /\ campaign' = [campaign EXCEPT !.status = "FAILED"]
  /\ Return(c)
  /\ UNCHANGED <<send, mailed, ghosts, failures>>

ReadBatch(c) ==
  LET batch == NextBatch(call[c].after) IN
  /\ call[c].step = "batch"
  /\ IF batch = {} THEN Finish(c)
                   ELSE Visit(c, call[c].after, First(batch), Last(batch))
  /\ UNCHANGED <<campaign, send, mailed, ghosts, failures>>

LastBatch(batch) == Cardinality(batch) < Batch

(* On to the next recipient of the batch, to the next batch or to the end. *)
Onward(c, sent, failed) ==
  LET slot  == call[c]
      later == {r \in Recipients : slot.at < r /\ r <= slot.upto}
      done  == [step |-> IF LastBatch(NextBatch(slot.after)) THEN "finish" ELSE "batch",
                after |-> slot.upto, sent |-> sent, failed |-> failed]
  IN Set(c, IF later = {} THEN done
            ELSE [slot EXCEPT !.step = "row", !.at = First(later),
                              !.sent = sent, !.failed = failed])

(* A variant the checks refute: rows are written, never looked at.         *)
Unmarked(r) == FALSE

AlreadySent(r) == send[r] = "SENT"

(* The row is upserted; a new one is PENDING.                              *)
SendRow(c) ==
  LET r == call[c].at IN
  /\ call[c].step = "row"
  /\ campaign.status # "deleted"
  /\ send' = IF send[r] = "none" THEN [send EXCEPT ![r] = "PENDING"] ELSE send
  /\ IF AlreadySent(r) THEN Onward(c, call[c].sent, call[c].failed) ELSE Goto(c, "mail")
  /\ UNCHANGED <<campaign, mailed, ghosts, failures>>

Mail(c) ==
  LET r == call[c].at IN
  /\ call[c].step = "mail"
  /\ mailed' = [mailed EXCEPT ![r] = IF @ = 0 THEN 1 ELSE 2]
  /\ Goto(c, "sent")
  /\ UNCHANGED <<campaign, send, ghosts, failures>>

MailFails(c) ==
  /\ call[c].step = "mail"
  /\ failures < MaxFailures
  /\ failures' = failures + 1
  /\ Goto(c, "refused")
  /\ UNCHANGED <<campaign, send, mailed, ghosts>>

MarkSent(c) ==
  /\ call[c].step = "sent"
  /\ campaign.status # "deleted"
  /\ send' = [send EXCEPT ![call[c].at] = "SENT"]
  /\ Onward(c, call[c].sent + 1, call[c].failed)
  /\ UNCHANGED <<campaign, mailed, ghosts, failures>>

(* The row could not be marked: the same handler marks it FAILED.          *)
MarkSentFails(c) ==
  /\ call[c].step = "sent"
  /\ campaign.status # "deleted"
  /\ failures < MaxFailures
  /\ failures' = failures + 1
  /\ unmarked' = unmarked \cup {call[c].at}
  /\ Goto(c, "refused")
  /\ UNCHANGED <<campaign, send, mailed, overlapped, rearmed>>

MarkFailed(c) ==
  /\ call[c].step = "refused"
  /\ campaign.status # "deleted"
  /\ send' = [send EXCEPT ![call[c].at] = "FAILED"]
  /\ Onward(c, call[c].sent, call[c].failed + 1)
  /\ UNCHANGED <<campaign, mailed, ghosts, failures>>

(* The final status, by id, and increments of the counts.                  *)
FinishRun(c) ==
  /\ call[c].step = "finish"
  /\ campaign.status # "deleted"
  /\ campaign' = [status |-> IF call[c].sent = 0 /\ call[c].failed > 0
                               THEN "FAILED" ELSE "SENT",
                  sentCount |-> campaign.sentCount + call[c].sent,
                  failedCount |-> campaign.failedCount + call[c].failed]
  /\ Return(c)
  /\ UNCHANGED <<send, mailed, ghosts, failures>>

(* A call stops half way.  Nothing takes up its run.                       *)
Stops(c) ==
  /\ call[c] # Idle
  /\ failures < MaxFailures
  /\ failures' = failures + 1
  /\ unmarked' = IF call[c].step = "sent" THEN unmarked \cup {call[c].at} ELSE unmarked
  /\ Return(c)
  /\ UNCHANGED <<campaign, send, mailed, overlapped, rearmed>>

(* The campaign was deleted under the call: a run does not find it, and    *)
(* the next write fails.                                                   *)
Gone(c) ==
  /\ campaign.status = "deleted"
  /\ Starts(c) \/ call[c].step \in {"edit", "row", "sent", "refused", "finish"}
  /\ Return(c)
  /\ UNCHANGED <<campaign, send, mailed, ghosts, failures>>

Run(c) ==
  \/ Unreadable(c) \/ ReadBatch(c) \/ SendRow(c) \/ Mail(c) \/ MailFails(c)
  \/ MarkSent(c) \/ MarkSentFails(c) \/ MarkFailed(c) \/ FinishRun(c) \/ Gone(c)

Next ==
  \E c \in Calls :
    \/ \E to \in DOMAIN From : EditRead(c, to)
    \/ EditWrite(c) \/ sendCampaignNow(c) \/ processDueCampaigns(c)
    \/ Run(c) \/ Stops(c)

Spec == Init /\ [][Next]_vars

(* A run that has begun goes on: it is one loop of one process.            *)
Continue(c) == Running(c) /\ Run(c)

FairSpec == Spec /\ \A c \in Calls : WF_vars(Continue(c))

-----------------------------------------------------------------------------
(* Every variable keeps its type.                                          *)
TypeOK ==
  /\ campaign \in [status : CampaignStatuses, sentCount : Nat, failedCount : Nat]
  /\ send \in [Recipients -> {"none", "PENDING", "SENT", "FAILED"}]
  /\ mailed \in [Recipients -> 0 .. 2]
  /\ unmarked \subseteq Recipients
  /\ overlapped \in BOOLEAN /\ rearmed \in BOOLEAN
  /\ call \in [Calls -> Slots \cup {Idle}]
  /\ failures \in 0 .. MaxFailures

(* The claim is the lock: two runs are in progress at once only after an   *)
(* edit, allowed by an older status, replaced that of a started campaign.  *)
ClaimIsLock == overlapped => rearmed

(* Nobody gets a campaign twice, however often it is claimed, unless runs  *)
(* overlap or one fails between a mail and its mark.                       *)
MailedOnce ==
  ~ overlapped => \A r \in Recipients \ unmarked : mailed[r] <= 1

(* A campaign that is finished has dealt with every recipient, in however  *)
(* many batches, or with none, where its segment could not be read; and    *)
(* its counts are those of the rows.                                       *)
Done(r) == send[r] \in {"SENT", "FAILED"}

FinishedIsComplete ==
  (~ overlapped /\ ~ rearmed /\ campaign.status \in {"SENT", "FAILED"}) =>
    /\ \/ \A r \in Recipients : Done(r)
       \/ campaign.status = "FAILED" /\ \A r \in Recipients : ~ Done(r)
    /\ campaign.sentCount = Cardinality({r \in Recipients : send[r] = "SENT"})
    /\ campaign.failedCount = Cardinality({r \in Recipients : send[r] = "FAILED"})

(* A run that nothing stops finishes its campaign.                         *)
SendingEnds ==
  (campaign.status = "SENDING" /\ failures = 0) ~>
    (campaign.status # "SENDING" \/ failures > 0)

(* A campaign is one mail for each recipient.                              *)
OneMailEach == TypeOK /\ ClaimIsLock /\ MailedOnce /\ FinishedIsComplete
=============================================================================
