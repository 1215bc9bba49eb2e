------------------------------ MODULE Invoicing ------------------------------
(***************************************************************************)
(* Issuing invoices, apps/api/src/invoicing: issueForMilestoneFunding and  *)
(* issueForPayout over the Invoice and InvoiceCounter tables.  What an     *)
(* invoice is issued for (a kind with its milestone or payout) is an       *)
(* entity.  One transaction takes the next number of the year, whose       *)
(* counter row it keeps locked, and inserts the invoice.                   *)
(***************************************************************************)
EXTENDS Integers

CONSTANTS
  Entities,   \* what invoices are issued for
  Calls,      \* slots: issuances in flight at the same time
  LastYear,   \* bound: the years are 1 .. LastYear
  None        \* null, and no invoice

Years   == 1 .. LastYear
Numbers == [year : Years, seq : Nat]

ASSUME InvoicingAssumption ==
  /\ LastYear \in Nat \ {0}
  /\ None \notin Calls
  /\ None \notin Numbers

VARIABLES
  invoice,   \* the number of an entity's active Invoice row, or None
  lastSeq,   \* InvoiceCounter.lastSeq of a year; 0 when there is no row
  holder,    \* the transaction that locks a year's counter row, or None
  year,      \* the current year
  call       \* issuances in flight

vars == <<invoice, lastSeq, holder, year, call>>

Idle == [at |-> "idle"]

CallStates == [at : {"create"}, e : Entities]
              \cup [at : {"counter"}, e : Entities, year : Years]
              \cup [at : {"insert"}, e : Entities, year : Years, seq : Nat]

Return(x)  == call' = [call EXCEPT ![x] = Idle]
Release(x) == holder' = [y \in Years |-> IF holder[y] = x THEN None ELSE holder[y]]

Init ==
  /\ invoice = [e \in Entities |-> None]
  /\ lastSeq = [y \in Years |-> 0]
  /\ holder  = [y \in Years |-> None]
  /\ year    = 1
  /\ call    = [x \in Calls |-> Idle]

(* findExistingActive: an entity that has an invoice gets no other.        *)
FindNone(x, e) ==
  /\ call[x] = Idle
  /\ invoice[e] = None
  /\ call' = [call EXCEPT ![x] = [at |-> "create", e |-> e]]
  /\ UNCHANGED <<invoice, lastSeq, holder, year>>

(* create reads the clock before its transaction starts.                   *)
ReadYear(x) ==
  /\ call[x].at = "create"
  /\ call' = [call EXCEPT ![x] = [at |-> "counter", e |-> call[x].e, year |-> year]]
  /\ UNCHANGED <<invoice, lastSeq, holder, year>>

TakeNumber(x) ==
  LET y == call[x].year IN
  call' = [call EXCEPT ![x] = [at |-> "insert", e |-> call[x].e, year |-> y,
                               seq |-> lastSeq[y] + 1]]

(* A variant the checks refute: the counter is read without its row lock.  *)
CounterUnlocked(x) ==
  /\ call[x].at = "counter"
  /\ TakeNumber(x)
  /\ UNCHANGED <<invoice, lastSeq, holder, year>>

Counter(x) ==
  /\ call[x].at = "counter"
  /\ holder[call[x].year] = None
  /\ holder' = [holder EXCEPT ![call[x].year] = x]
  /\ TakeNumber(x)
  /\ UNCHANGED <<invoice, lastSeq, year>>

Number(x) == [year |-> call[x].year, seq |-> call[x].seq]

Write(x) ==
  /\ invoice' = [invoice EXCEPT ![call[x].e] = Number(x)]
  /\ lastSeq' = [lastSeq EXCEPT ![call[x].year] = call[x].seq]
  /\ Release(x)
  /\ Return(x)
  /\ UNCHANGED year

(* A variant the checks refute: no unique index on the entity.             *)
InsertAnyway(x) ==
  /\ call[x].at = "insert"
  /\ Write(x)

Insert(x) ==
  /\ call[x].at = "insert"
  /\ invoice[call[x].e] = None
  /\ Write(x)

(* The unique index on the entity refuses the row (P2002): the number is   *)
(* rolled back with it, and the invoice that won is returned.              *)
Conflict(x) ==
  /\ call[x].at = "insert"
  /\ invoice[call[x].e] # None
  /\ Release(x)
  /\ Return(x)
  /\ UNCHANGED <<invoice, lastSeq, year>>

(* An issuance stops: its transaction rolls back; the caller logs it.      *)
Fails(x) ==
  /\ call[x] # Idle
  /\ Release(x)
  /\ Return(x)
  /\ UNCHANGED <<invoice, lastSeq, year>>

NewYear ==
  /\ year < LastYear
  /\ year' = year + 1
  /\ UNCHANGED <<invoice, lastSeq, holder, call>>

Issue(x) ==
  \/ \E e \in Entities : FindNone(x, e)
  \/ ReadYear(x)
  \/ Counter(x)
  \/ Insert(x)
  \/ Conflict(x)
  \/ Fails(x)

Next == (\E x \in Calls : Issue(x)) \/ NewYear

Spec == Init /\ [][Next]_vars

-----------------------------------------------------------------------------
(* Every variable keeps its type.                                          *)
TypeOK ==
  /\ invoice \in [Entities -> Numbers \cup {None}]
  /\ lastSeq \in [Years -> Nat]
  /\ holder \in [Years -> Calls \cup {None}]
  /\ year \in Years
  /\ call \in [Calls -> CallStates \cup {Idle}]

IssuedIn(y) == {e \in Entities : invoice[e] # None /\ invoice[e].year = y}

(* The numbers of a year are 1, 2, 3 ... without a gap and without a       *)
(* duplicate, however issuances race, fail or roll back.                   *)
NumbersAreSequential ==
  /\ \A y \in Years : {invoice[e].seq : e \in IssuedIn(y)} = 1 .. lastSeq[y]
  /\ \A e, f \in Entities : invoice[e] # None /\ invoice[e] = invoice[f] => e = f

(* An entity keeps the invoice it got: a racing or repeated issuance never *)
(* replaces the document.                                                  *)
IssuedOnce ==
  [][\A e \in Entities : invoice[e] # None => invoice'[e] = invoice[e]]_vars

Book == INSTANCE InvoiceBook

(* Issuances that race for a number, read the clock before the year ends   *)
(* and roll back fill the lists of the book one place after the other, and *)
(* enter an entity once.                                                   *)
ImplementsBook == Book!Spec
=============================================================================
