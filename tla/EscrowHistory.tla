---------------------------- MODULE EscrowHistory ---------------------------
(***************************************************************************)
(* Escrow with a history variable: the milestones whose release or refund  *)
(* met another one or stopped half way.  No step of Escrow depends on it;  *)
(* it says up to when the escrow keeps the promise of EscrowLedger, for    *)
(* any number of requests, codes, deliveries and failures.                 *)
(***************************************************************************)
EXTENDS Escrow

VARIABLE
  contested     \* history: milestones of which two requests were settling at
                \* once, or one stopped with its money moved and no row written

historyVars == <<vars, contested>>

(* Request r decided, on a FUNDED milestone, to pay it out or give it back *)
(* and has not written so yet.                                             *)
Settling(r, m) ==
  /\ req[r].at \in {"release.transfer", "release.tx",
                    "refund.pick", "refund.stripe", "refund.tx"}
  /\ req[r].m = m

Overlap(m) ==
  \E r \in Requests : \E s \in Requests \ {r} : Settling(r, m) /\ Settling(s, m)

StopsHalfWay(m) ==
  \E r \in Requests :
    /\ req[r].at \in {"release.tx", "refund.tx"}
    /\ req[r].m = m
    /\ RequestFails(r)

HistoryInit == Init /\ contested = {}

HistoryNext ==
  /\ Next
  /\ contested' = contested \cup
       {m \in Milestones : Overlap(m)' \/ StopsHalfWay(m)}

HistorySpec == HistoryInit /\ [][HistoryNext]_historyVars

FairHistorySpec == HistorySpec /\ HookFairness
-----------------------------------------------------------------------------
Ledger == INSTANCE EscrowLedger WITH
  collected <- {pi \in PIs : stripePi[pi] = "succeeded"},
  paid      <- transfers,
  returned  <- [pi \in PIs |->
                  Cardinality({x \in refunds : x.m = pi[1] /\ x.code = pi[2]})]

(* Whatever requests, coupon codes, deliveries and failures do, money moves *)
(* at Stripe as the ledger says: each charge is collected and returned at  *)
(* most once, nothing goes out that did not come in, and a milestone is    *)
(* both paid out and returned, or returned from two charges, only after    *)
(* two of its settlements overlapped or one stopped half way.              *)
ImplementsLedger == Ledger!Spec
=============================================================================
