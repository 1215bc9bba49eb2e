------------------------------ MODULE Disputes ------------------------------
(***************************************************************************)
(* The disputes of ONE contract: raise, withdraw and adminUpdate of        *)
(* apps/api/src/disputes, and the contract status they mirror.             *)
(*                                                                         *)
(* Each handler reads the contract or the dispute first and writes in one  *)
(* transaction later; what it read may be stale by then.  The transactions *)
(* themselves are atomic: two of them on the same contract meet in the     *)
(* partial unique index or on the dispute row.                             *)
(***************************************************************************)
EXTENDS Naturals, FiniteSets

CONSTANTS
  DisputeIds,  \* bound: how many disputes are raised on the contract
  Calls        \* slots: dispute requests in flight at the same time

VARIABLES
  contract,    \* Contract.status and whether Contract.completedAt is set
  dispute,     \* Dispute.status, or "none" when there is no row yet
  call         \* requests in flight, with what each one read

vars == <<contract, dispute, call>>

ContractStatuses == {"ACTIVE", "COMPLETED", "DISPUTED"}
Active   == {"OPEN", "UNDER_REVIEW"}
Resolved == {"RESOLVED_FOR_TRAINER", "RESOLVED_FOR_COMPANY", "REJECTED"}
Terminal == Resolved \cup {"WITHDRAWN"}
DisputeStatuses == Active \cup Terminal

DISPUTE_TRANSITIONS ==
  [s \in DisputeStatuses |->
     CASE s = "OPEN"         -> {"UNDER_REVIEW", "WITHDRAWN"} \cup Resolved
       [] s = "UNDER_REVIEW" -> Resolved
       [] OTHER              -> {}]

canTransitionDispute(from, to) == to \in DISPUTE_TRANSITIONS[from]

Idle == [at |-> "idle"]

(* seen: the status of the contract a raise read before its transaction.   *)
RaiseCalls  == [at : {"raise.check", "raise.tx"}, seen : ContractStatuses]
(* seen: the status of dispute d read before the transaction to next.      *)
UpdateCalls == [at : {"withdraw.tx", "admin.tx"}, d : DisputeIds,
                seen : DisputeStatuses, next : DisputeStatuses]

Return(c) == call' = [call EXCEPT ![c] = Idle]

ActiveDisputes == {d \in DisputeIds : dispute[d] \in Active}

Init ==
  /\ contract = [status |-> "ACTIVE", completedAt |-> FALSE]
  /\ dispute = [d \in DisputeIds |-> "none"]
  /\ call = [c \in Calls |-> Idle]

-----------------------------------------------------------------------------
(* raise: read the contract, look for an active dispute, then write.       *)

RaiseRead(c) ==
  /\ call[c] = Idle
  /\ call' = [call EXCEPT ![c] = [at |-> "raise.check", seen |-> contract.status]]
  /\ UNCHANGED <<contract, dispute>>

RaiseCheck(c) ==
  /\ call[c].at = "raise.check"
  /\ IF ActiveDisputes = {}
       THEN call' = [call EXCEPT ![c].at = "raise.tx"]
       ELSE Return(c)
  /\ UNCHANGED <<contract, dispute>>

(* The mirror is written or skipped on the status read before the check.   *)
RaiseTx(c, d) ==
  /\ call[c].at = "raise.tx"
  /\ ActiveDisputes = {}
  /\ dispute[d] = "none"
  /\ dispute' = [dispute EXCEPT ![d] = "OPEN"]
  /\ contract' = IF call[c].seen # "DISPUTED"
                   THEN [contract EXCEPT !.status = "DISPUTED"]
                   ELSE contract
  /\ Return(c)

(* The partial unique index Dispute_contract_active_unique refuses the row. *)
RaiseConflict(c) ==
  /\ call[c].at = "raise.tx"
  /\ ActiveDisputes # {}
  /\ Return(c)
  /\ UNCHANGED <<contract, dispute>>

-----------------------------------------------------------------------------
(* A variant the checks refute: every dispute ends in completion.          *)
CompleteContract(disp) ==
  contract' =
    IF contract.status = "DISPUTED" /\ \A d \in DisputeIds : disp[d] \notin Active
      THEN [contract EXCEPT !.status = "COMPLETED"] ELSE contract

(* maybeRestoreContractStatus, given the disputes as the transaction left  *)
(* them.                                                                   *)
RestoreContract(disp) ==
  contract' =
    IF contract.status = "DISPUTED" /\ \A d \in DisputeIds : disp[d] \notin Active
      THEN [contract EXCEPT !.status = IF contract.completedAt THEN "COMPLETED"
                                                               ELSE "ACTIVE"]
      ELSE contract

WithdrawRead(c, d) ==
  /\ call[c] = Idle
  /\ dispute[d] # "none"
  /\ canTransitionDispute(dispute[d], "WITHDRAWN")
  /\ call' = [call EXCEPT ![c] = [at |-> "withdraw.tx", d |-> d,
                                  seen |-> dispute[d], next |-> "WITHDRAWN"]]
  /\ UNCHANGED <<contract, dispute>>

(* A variant the checks refute: the update is by id alone.                 *)
WithdrawUnguarded(c) ==
  /\ call[c].at = "withdraw.tx"
  /\ dispute' = [dispute EXCEPT ![call[c].d] = "WITHDRAWN"]
  /\ RestoreContract(dispute')
  /\ Return(c)

(* The compound where: the row must still be OPEN.                         *)
WithdrawTx(c) ==
  /\ call[c].at = "withdraw.tx"
  /\ dispute[call[c].d] = "OPEN"
  /\ dispute' = [dispute EXCEPT ![call[c].d] = "WITHDRAWN"]
  /\ RestoreContract(dispute')
  /\ Return(c)

AdminRead(c, d, next) ==
  /\ call[c] = Idle
  /\ dispute[d] # "none"
  /\ next \in Resolved \cup {"UNDER_REVIEW"}
  /\ canTransitionDispute(dispute[d], next)
  /\ call' = [call EXCEPT ![c] = [at |-> "admin.tx", d |-> d,
                                  seen |-> dispute[d], next |-> next]]
  /\ UNCHANGED <<contract, dispute>>

(* A variant the checks refute: the contract is restored before the update. *)
AdminRestoresFirst(c) ==
  LET d == call[c].d  next == call[c].next IN
  /\ call[c].at = "admin.tx"
  /\ dispute[d] = call[c].seen
  /\ dispute' = [dispute EXCEPT ![d] = next]
  /\ IF next \in Resolved THEN RestoreContract(dispute) ELSE UNCHANGED contract
  /\ Return(c)

(* The compound where: the row must still have the status that was read.   *)
AdminTx(c) ==
  LET d == call[c].d  next == call[c].next IN
  /\ call[c].at = "admin.tx"
  /\ dispute[d] = call[c].seen
  /\ dispute' = [dispute EXCEPT ![d] = next]
  /\ IF next \in Resolved THEN RestoreContract(dispute') ELSE UNCHANGED contract
  /\ Return(c)

(* The row changed meanwhile (P2025), or the request failed.               *)
UpdateRefused(c) ==
  /\ call[c].at \in {"withdraw.tx", "admin.tx"}
  /\ Return(c)
  /\ UNCHANGED <<contract, dispute>>

-----------------------------------------------------------------------------
(* The environment of this module: maybeCompleteContract of the payments   *)
(* service completes the contract at any time, but only an ACTIVE one.     *)
Complete ==
  /\ contract.status = "ACTIVE"
  /\ contract' = [status |-> "COMPLETED", completedAt |-> TRUE]
  /\ UNCHANGED <<dispute, call>>

CallStep(c) ==
  \/ RaiseRead(c)
  \/ RaiseCheck(c)
  \/ \E d \in DisputeIds : RaiseTx(c, d)
  \/ RaiseConflict(c)
  \/ \E d \in DisputeIds : WithdrawRead(c, d)
  \/ WithdrawTx(c)
  \/ \E d \in DisputeIds, next \in DisputeStatuses : AdminRead(c, d, next)
  \/ AdminTx(c)
  \/ UpdateRefused(c)

DisputeStep == \E c \in Calls : CallStep(c)

Next == DisputeStep \/ Complete

Spec == Init /\ [][Next]_vars

-----------------------------------------------------------------------------
(* Every variable keeps its type.                                          *)
TypeOK ==
  /\ contract \in [status : ContractStatuses, completedAt : BOOLEAN]
  /\ dispute \in [DisputeIds -> DisputeStatuses \cup {"none"}]
  /\ call \in [Calls -> RaiseCalls \cup UpdateCalls \cup {Idle}]

(* At most one dispute of a contract is active, however raises interleave. *)
OneActiveDispute ==
  \A d, e \in DisputeIds :
    dispute[d] \in Active /\ dispute[e] \in Active => d = e

(* A contract is not left marked DISPUTED once its last active dispute is  *)
(* withdrawn or resolved (comment of maybeRestoreContractStatus).          *)
DisputedHasDispute == contract.status = "DISPUTED" => ActiveDisputes # {}

(* A dispute gives the contract back as it found it: COMPLETED exactly     *)
(* when it had been completed, also when it completed while it was raised. *)
RestoredAsItWas ==
  contract.status # "DISPUTED" =>
    (contract.status = "COMPLETED" <=> contract.completedAt)

(* The contract mirrors its disputes.                                      *)
ContractIsMirrored ==
  TypeOK /\ OneActiveDispute /\ DisputedHasDispute /\ RestoredAsItWas

(* A terminal dispute is never re-opened, and a dispute an admin took      *)
(* UNDER_REVIEW is never WITHDRAWN, although both handlers act on a status *)
(* they read before their transaction.                                     *)
LifecycleStep ==
  \A d \in DisputeIds :
    /\ dispute[d] \in Terminal => dispute'[d] = dispute[d]
    /\ dispute[d] = "UNDER_REVIEW" => dispute'[d] \notin {"OPEN", "WITHDRAWN"}

DisputeLifecycle == [][LifecycleStep]_vars
=============================================================================
