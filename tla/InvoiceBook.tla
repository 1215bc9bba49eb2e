----------------------------- MODULE InvoiceBook -----------------------------
(***************************************************************************)
(* What the numbering of invoices promises, with no counter, locks or      *)
(* transactions in sight: a book with one list per year.  An entity is     *)
(* entered once, and the number of its invoice is the place it takes at    *)
(* the end of the list of this year, or of a year before it.               *)
(***************************************************************************)
EXTENDS Integers, FiniteSets

CONSTANTS Entities, LastYear, None

VARIABLES
  invoice,  \* the number of an entity's invoice, or None
  year      \* the current year

IssuedIn(y) == {e \in Entities : invoice[e] # None /\ invoice[e].year = y}

Init ==
  /\ invoice = [e \in Entities |-> None]
  /\ year = 1

(* No number is skipped: the next one is what the book has and one more.   *)
Enter(e, y) ==
  /\ invoice[e] = None
  /\ invoice' = [invoice EXCEPT
       ![e] = [year |-> y, seq |-> Cardinality(IssuedIn(y)) + 1]]
  /\ UNCHANGED year

NewYear ==
  /\ year < LastYear
  /\ year' = year + 1
  /\ UNCHANGED invoice

Next == NewYear \/ \E e \in Entities, y \in 1 .. year : Enter(e, y)

Spec == Init /\ [][Next]_<<invoice, year>>
=============================================================================
