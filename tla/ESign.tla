-------------------------------- MODULE ESign --------------------------------
(***************************************************************************)
(* ONE contract document and its two signatures.  Signing and declining    *)
(* are one transaction each, which takes the lock of the document's row    *)
(* before it reads and holds it until it commits.  A slot at "tx" is in    *)
(* its transaction and holds the status it will give the document.         *)
(***************************************************************************)
EXTENDS Naturals

CONSTANTS
  LastDay,    \* bound: the days the clock counts
  Calls       \* slots: requests in flight

VARIABLES
  today,      \* the current day
  expiresAt,  \* ContractDocument.expiresAt, in a set, or {} for none
  document,   \* ContractDocument.status, "none" without a row
  signature,  \* ContractSignature.status of each role
  call        \* requests in flight

vars == <<today, expiresAt, document, signature, call>>

Roles      == {"COMPANY", "TRAINER"}
Signatures == {"PENDING", "SIGNED", "DECLINED"}
Days       == 1 .. LastDay
Documents  == {"AWAITING_SIGNATURES", "PARTIALLY_SIGNED", "FULLY_SIGNED",
               "CANCELLED", "EXPIRED"}

Idle  == [at |-> "idle"]
Slots == [at : {"tx"}, op : {"sign", "decline"}, role : Roles, next : Documents]

Set(c, slot) == call' = [call EXCEPT ![c] = slot]
Return(c)    == Set(c, Idle)

Init ==
  /\ today = 1
  /\ expiresAt = {}
  /\ document = "none"
  /\ signature = [r \in Roles |-> "PENDING"]
  /\ call = [c \in Calls |-> Idle]

Create(expiry) ==
  /\ document = "none"
  /\ document' = "AWAITING_SIGNATURES"
  /\ expiresAt' = expiry
  /\ UNCHANGED <<today, signature, call>>

Expired == \E day \in expiresAt : day < today

(* A variant the checks refute: the row is not locked.                     *)
NoLock == TRUE

lockDocumentRow == \A c \in Calls : call[c] = Idle

Outcome == [sign |-> "SIGNED", decline |-> "DECLINED"]

Signed(op, role) == [signature EXCEPT ![role] = Outcome[op]]

(* What the signatures make of the document, as sign reads them back after *)
(* its own write: the committed ones and its own.                          *)
Status(op, role) ==
  CASE op = "decline" -> "CANCELLED"
    [] op = "sign" /\ \A r \in Roles : Signed(op, role)[r] = "SIGNED" -> "FULLY_SIGNED"
    [] OTHER -> "PARTIALLY_SIGNED"

(* A document past its expiry is written EXPIRED and refused in the same   *)
(* transaction, which undoes the write.                                    *)
Begin(c, op, role) ==
  /\ call[c] = Idle
  /\ lockDocumentRow
  /\ document \notin {"none", "CANCELLED", "EXPIRED"}
  /\ ~ Expired
  /\ signature[role] = "PENDING"
  /\ Set(c, [at |-> "tx", op |-> op, role |-> role, next |-> Status(op, role)])
  /\ UNCHANGED <<today, expiresAt, document, signature>>

Commit(c) ==
  /\ call[c].at = "tx"
  /\ signature' = Signed(call[c].op, call[c].role)
  /\ document' = call[c].next
  /\ Return(c)
  /\ UNCHANGED <<today, expiresAt>>

RollBack(c) ==
  /\ call[c] # Idle
  /\ Return(c)
  /\ UNCHANGED <<today, expiresAt, document, signature>>

NextDay ==
  /\ today < LastDay
  /\ today' = today + 1
  /\ UNCHANGED <<expiresAt, document, signature, call>>

Next ==
  \/ \E expiry \in {{}} \cup {{day} : day \in Days} : Create(expiry)
  \/ \E c \in Calls :
       \/ \E op \in {"sign", "decline"}, role \in Roles : Begin(c, op, role)
       \/ Commit(c)
       \/ RollBack(c)
  \/ NextDay

Spec == Init /\ [][Next]_vars

-----------------------------------------------------------------------------
(* Every variable keeps its type, and only a document has signatures.      *)
TypeOK ==
  /\ today \in Days
  /\ expiresAt \in {{}} \cup {{day} : day \in Days}
  /\ document \in Documents \cup {"none"}
  /\ signature \in [Roles -> Signatures]
  /\ call \in [Calls -> Slots \cup {Idle}]
  /\ document = "none" => \A r \in Roles : signature[r] = "PENDING"

(* The document says what its signatures say, whoever signs and declines   *)
(* at once: FULLY_SIGNED with both and never without, never signed with a  *)
(* refusal.                                                                *)
StatusMatchesSignatures ==
  LET has(status) == {r \in Roles : signature[r] = status} IN
  document # "none" =>
    document = IF has("DECLINED") # {} THEN "CANCELLED"
               ELSE IF has("SIGNED") = Roles THEN "FULLY_SIGNED"
               ELSE IF has("SIGNED") # {} THEN "PARTIALLY_SIGNED"
               ELSE "AWAITING_SIGNATURES"

(* A document that was declined or fully signed stays so, and no signature *)
(* is taken back.                                                          *)
FinalStep ==
  /\ document \in {"CANCELLED", "FULLY_SIGNED"} => document' = document
  /\ \A r \in Roles : signature[r] # "PENDING" => signature'[r] = signature[r]

SignaturesAreFinal == [][FinalStep]_vars

Consistent == TypeOK /\ StatusMatchesSignatures

(* What a document says it is, its signatures make it, for good.           *)
DocumentIsFinal == []Consistent /\ SignaturesAreFinal
=============================================================================
