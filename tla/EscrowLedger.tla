---------------------------- MODULE EscrowLedger ----------------------------
(***************************************************************************)
(* What the escrow promises about money, with no requests, rows or events  *)
(* in sight (the money flow in the class comment of PaymentsService).      *)
(* Every charge is collected once and returned at most once, and only from *)
(* what was collected is the trainer paid, once.  And the money of a       *)
(* milestone goes one way, to the trainer or back to the company, as long  *)
(* as the milestone is not contested.                                      *)
(***************************************************************************)
EXTENDS Naturals

CONSTANTS Milestones, Codes

VARIABLES
  collected,  \* the charges the company paid, each a milestone and a code
  paid,       \* the milestones paid out to the trainer
  returned,   \* how often each charge was returned
  contested   \* the milestones whose money may go both ways

ledgerVars == <<collected, paid, returned, contested>>

Charges == Milestones \X Codes

Untouched(m) == \A code \in Codes : returned[<<m, code>>] = 0

Init ==
  /\ collected = {}
  /\ paid = {}
  /\ returned = [charge \in Charges |-> 0]
  /\ contested = {}

Collect(m, code) ==
  /\ <<m, code>> \notin collected
  /\ collected' = collected \cup {<<m, code>>}
  /\ UNCHANGED <<paid, returned, contested>>

PayOut(m) ==
  /\ m \notin paid
  /\ \E code \in Codes : <<m, code>> \in collected
  /\ m \in contested \/ Untouched(m)
  /\ paid' = paid \cup {m}
  /\ UNCHANGED <<collected, returned, contested>>

Return(m, code) ==
  /\ <<m, code>> \in collected
  /\ returned[<<m, code>>] = 0
  /\ m \in contested \/ (m \notin paid /\ Untouched(m))
  /\ returned' = [returned EXCEPT ![<<m, code>>] = 1]
  /\ UNCHANGED <<collected, paid, contested>>

Contest ==
  /\ contested' \in SUBSET Milestones
  /\ contested \subseteq contested'
  /\ UNCHANGED <<collected, paid, returned>>

Next ==
  \/ Contest
  \/ \E m \in Milestones : PayOut(m)
  \/ \E m \in Milestones, code \in Codes : Collect(m, code) \/ Return(m, code)

Spec == Init /\ [][Next]_ledgerVars
=============================================================================
