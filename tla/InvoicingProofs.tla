--------------------------- MODULE InvoicingProofs ---------------------------
(***************************************************************************)
(* Proofs about Invoicing, for any entities, any number of issuances in    *)
(* flight and any number of years, and about EmailCampaigns, the instance  *)
(* C of MCInvoicing, for any recipients, batch, runs and failures.         *)
(***************************************************************************)
EXTENDS MCInvoicing, FiniteSetTheorems, WellFoundedInduction, TLAPS

(* An issuance about to insert holds the lock of its year's counter, and   *)
(* its number is the next one.                                             *)
HoldsNext(x) ==
  call[x].at = "insert" =>
    /\ holder[call[x].year] = x
    /\ call[x].seq = lastSeq[call[x].year] + 1

IInv ==
  /\ TypeOK
  /\ NumbersAreSequential
  /\ \A x \in Calls : HoldsNext(x)

-----------------------------------------------------------------------------
LEMMA InsertState ==
  ASSUME TypeOK, NEW x \in Calls, call[x].at = "insert"
  PROVE  call[x].e \in Entities /\ call[x].year \in Years /\ call[x].seq \in Nat
<1>1. call[x] \in CallStates
  BY DEF TypeOK, Idle
<1>. QED
  BY <1>1 DEF CallStates

LEMMA CounterState ==
  ASSUME TypeOK, NEW x \in Calls, call[x].at = "counter"
  PROVE  call[x].e \in Entities /\ call[x].year \in Years
<1>1. call[x] \in CallStates
  BY DEF TypeOK, Idle
<1>. QED
  BY <1>1 DEF CallStates

(* A step that writes no table keeps the invariant if the mover knows what *)
(* its insert relies on and nobody loses a lock.                           *)
LEMMA QuietStep ==
  ASSUME IInv, NEW x \in Calls, UNCHANGED <<invoice, lastSeq, year>>,
         call' \in [Calls -> CallStates \cup {Idle}],
         holder' \in [Years -> Calls \cup {None}],
         \A z \in Calls \ {x} : call'[z] = call[z],
         \A y \in Years : holder[y] \notin {x, None} => holder'[y] = holder[y],
         HoldsNext(x)'
  PROVE  IInv'
<1>1. TypeOK'
  BY DEF IInv, TypeOK
<1>2. NumbersAreSequential'
  BY DEF IInv, NumbersAreSequential, IssuedIn
<1>3. ASSUME NEW z \in Calls PROVE HoldsNext(z)'
  <2>1. CASE z = x
    BY <2>1
  <2>2. CASE z # x
    <3>1. call'[z] = call[z]
      BY <2>2
    <3>2. SUFFICES ASSUME call[z].at = "insert"
                   PROVE  /\ holder'[call[z].year] = z
                          /\ call[z].seq = lastSeq[call[z].year] + 1
      BY <3>1 DEF HoldsNext
    <3>3. call[z].year \in Years /\ holder[call[z].year] = z
      BY <3>2, InsertState DEF IInv, HoldsNext
    <3>4. holder'[call[z].year] = z
      BY <2>2, <3>3, InvoicingAssumption
    <3>. QED
      BY <3>2, <3>4 DEF IInv, HoldsNext
  <2>. QED
    BY <2>1, <2>2
<1>. QED
  BY <1>1, <1>2, <1>3 DEF IInv

(* The end of an issuance frees its slot and its lock.                     *)
LEMMA Ends ==
  ASSUME TypeOK, NEW x \in Calls, Release(x), Return(x)
  PROVE  /\ call' \in [Calls -> CallStates \cup {Idle}]
         /\ holder' \in [Years -> Calls \cup {None}]
         /\ call'[x].at = "idle"
         /\ \A z \in Calls \ {x} : call'[z] = call[z]
         /\ \A y \in Years : holder[y] # x => holder'[y] = holder[y]
  BY DEF TypeOK, Release, Return, Idle

LEMMA EndStep ==
  ASSUME IInv, NEW x \in Calls, Release(x), Return(x),
         UNCHANGED <<invoice, lastSeq, year>>
  PROVE  IInv'
<1>1. TypeOK
  BY DEF IInv
<1>2. HoldsNext(x)'
  BY <1>1, Ends DEF HoldsNext
<1>. QED
  BY <1>1, <1>2, Ends, QuietStep

LEMMA FindNoneKeeps ==
  ASSUME IInv, NEW x \in Calls, NEW e \in Entities, FindNone(x, e)
  PROVE  IInv'
<1>. DEFINE new == [at |-> "create", e |-> e]
<1>1. TypeOK /\ call' = [call EXCEPT ![x] = new]
      /\ UNCHANGED <<invoice, lastSeq, holder, year>>
  BY DEF IInv, FindNone
<1>2. new \in CallStates
  BY DEF CallStates
<1>3. /\ call' \in [Calls -> CallStates \cup {Idle}] /\ call'[x].at = "create"
      /\ \A z \in Calls \ {x} : call'[z] = call[z]
  BY <1>1, <1>2 DEF TypeOK
<1>4. HoldsNext(x)'
  BY <1>3 DEF HoldsNext
<1>. QED
  BY <1>1, <1>3, <1>4, QuietStep DEF TypeOK

LEMMA ReadYearKeeps ==
  ASSUME IInv, NEW x \in Calls, ReadYear(x)
  PROVE  IInv'
<1>. DEFINE new == [at |-> "counter", e |-> call[x].e, year |-> year]
<1>1. TypeOK /\ call' = [call EXCEPT ![x] = new] /\ call[x].at = "create"
      /\ UNCHANGED <<invoice, lastSeq, holder, year>>
  BY DEF IInv, ReadYear
<1>2. call[x].e \in Entities /\ year \in Years
  <2>1. call[x] \in CallStates
    BY <1>1 DEF TypeOK, Idle
  <2>. QED
    BY <1>1, <2>1 DEF CallStates, TypeOK
<1>3. new \in CallStates
  BY <1>2 DEF CallStates
<1>4. /\ call' \in [Calls -> CallStates \cup {Idle}] /\ call'[x].at = "counter"
      /\ \A z \in Calls \ {x} : call'[z] = call[z]
  BY <1>1, <1>3 DEF TypeOK
<1>5. HoldsNext(x)'
  BY <1>4 DEF HoldsNext
<1>. QED
  BY <1>1, <1>4, <1>5, QuietStep DEF TypeOK

LEMMA CounterKeeps ==
  ASSUME IInv, NEW x \in Calls, Counter(x)
  PROVE  IInv'
<1>1. TypeOK /\ call[x].at = "counter" /\ UNCHANGED <<invoice, lastSeq, year>>
  BY DEF IInv, Counter
<1>2. PICK y \in Years, e \in Entities : y = call[x].year /\ e = call[x].e
  BY <1>1, CounterState
<1>. DEFINE new == [at |-> "insert", e |-> e, year |-> y, seq |-> lastSeq[y] + 1]
<1>3. call' = [call EXCEPT ![x] = new]
  BY <1>2 DEF Counter, TakeNumber
<1>4. lastSeq[y] + 1 \in Nat
  BY <1>1 DEF TypeOK
<1>5. new \in CallStates
  BY <1>4 DEF CallStates
<1>6. /\ call' \in [Calls -> CallStates \cup {Idle}] /\ call'[x] = new
      /\ \A z \in Calls \ {x} : call'[z] = call[z]
  BY <1>1, <1>3, <1>5 DEF TypeOK
<1>7. /\ holder' \in [Years -> Calls \cup {None}] /\ holder'[y] = x
      /\ \A w \in Years : holder[w] # None => holder'[w] = holder[w]
  BY <1>1, <1>2 DEF Counter, TypeOK
<1>8. call'[x].year = y /\ call'[x].seq = lastSeq'[y] + 1
  BY <1>1, <1>6
<1>9. HoldsNext(x)'
  BY <1>7, <1>8 DEF HoldsNext
<1>. QED
  BY <1>1, <1>6, <1>7, <1>9, QuietStep

(* The insert appends the next number to the numbers of its year.          *)
LEMMA InsertKeeps ==
  ASSUME IInv, NEW x \in Calls, Insert(x)
  PROVE  IInv'
<1>1. TypeOK /\ NumbersAreSequential /\ HoldsNext(x) /\ call[x].at = "insert"
  BY DEF IInv, Insert
<1>2. PICK y \in Years, e \in Entities, n \in Nat :
        y = call[x].year /\ e = call[x].e /\ n = call[x].seq
  BY <1>1, InsertState
<1>. DEFINE new == [year |-> y, seq |-> n]
<1>3. /\ invoice[e] = None /\ invoice' = [invoice EXCEPT ![e] = new]
      /\ lastSeq' = [lastSeq EXCEPT ![y] = n] /\ year' = year
      /\ Release(x) /\ Return(x)
  BY <1>2 DEF Insert, Write, Number
<1>4. n = lastSeq[y] + 1 /\ holder[y] = x
  BY <1>1, <1>2 DEF HoldsNext
<1>5. new \in Numbers /\ new # None /\ new.year = y /\ new.seq = n
  BY InvoicingAssumption DEF Numbers
<1>6. invoice'[e] = new /\ \A f \in Entities \ {e} : invoice'[f] = invoice[f]
  BY <1>1, <1>3 DEF TypeOK
<1>7. lastSeq'[y] = n /\ \A w \in Years \ {y} : lastSeq'[w] = lastSeq[w]
  BY <1>1, <1>3 DEF TypeOK
<1>8. TypeOK'
  BY <1>1, <1>3, <1>5, Ends DEF TypeOK
<1>9. \A w \in Years :
        IssuedIn(w)' = IF w = y THEN IssuedIn(w) \cup {e} ELSE IssuedIn(w)
  BY <1>3, <1>5, <1>6 DEF IssuedIn
<1>10. \A w \in Years : \A f \in IssuedIn(w) : f # e /\ f \in Entities
  BY <1>3 DEF IssuedIn
<1>11. ASSUME NEW w \in Years
       PROVE  {invoice'[f].seq : f \in IssuedIn(w)'} = 1 .. lastSeq'[w]
  <2>1. {invoice[f].seq : f \in IssuedIn(w)} = 1 .. lastSeq[w]
    BY <1>1 DEF NumbersAreSequential
  <2>2. \A f \in IssuedIn(w) : invoice'[f] = invoice[f]
    BY <1>6, <1>10
  <2>3. CASE w = y
    <3>1. {invoice'[f].seq : f \in IssuedIn(w)'} = {invoice[f].seq : f \in IssuedIn(w)} \cup {n}
      BY <1>5, <1>6, <1>9, <2>2, <2>3
    <3>2. lastSeq[y] \in Nat /\ (1 .. lastSeq[y]) \cup {n} = 1 .. n
      BY <1>1, <1>4 DEF TypeOK
    <3>. QED
      BY <1>7, <2>1, <2>3, <3>1, <3>2
  <2>4. CASE w # y
    BY <1>7, <1>9, <2>1, <2>2, <2>4
  <2>. QED
    BY <2>3, <2>4
<1>12. ASSUME NEW f \in Entities, f # e, invoice[f] # None
       PROVE  invoice[f] # new
  <2>1. invoice[f] \in Numbers
    BY <1>1, <1>12 DEF TypeOK
  <2>2. SUFFICES ASSUME invoice[f] = new PROVE FALSE
    OBVIOUS
  <2>3. f \in IssuedIn(y)
    BY <1>5, <1>12, <2>2 DEF IssuedIn
  <2>4. n \in {invoice[g].seq : g \in IssuedIn(y)}
    BY <1>5, <2>2, <2>3
  <2>5. n \in 1 .. lastSeq[y]
    BY <1>1, <2>4 DEF NumbersAreSequential
  <2>. QED
    BY <1>1, <1>4, <2>5 DEF TypeOK
<1>13. NumbersAreSequential'
  <2>1. ASSUME NEW f \in Entities, NEW g \in Entities,
               invoice'[f] # None, invoice'[f] = invoice'[g]
        PROVE  f = g
    <3>1. CASE f # e /\ g # e
      BY <1>1, <1>6, <2>1, <3>1 DEF NumbersAreSequential
    <3>2. CASE f = e \/ g = e
      BY <1>6, <1>12, <2>1, <3>2, <1>5
    <3>. QED
      BY <3>1, <3>2
  <2>. QED
    BY <1>11, <2>1 DEF NumbersAreSequential
<1>14. ASSUME NEW z \in Calls PROVE HoldsNext(z)'
  <2>1. CASE z = x
    BY <1>1, <1>3, <2>1, Ends DEF HoldsNext
  <2>2. CASE z # x
    <3>1. call'[z] = call[z] /\ HoldsNext(z)
      BY <1>1, <1>3, <2>2, Ends DEF IInv
    <3>2. SUFFICES ASSUME call[z].at = "insert"
                   PROVE  /\ holder'[call[z].year] = z
                          /\ call[z].seq = lastSeq'[call[z].year] + 1
      BY <3>1 DEF HoldsNext
    <3>3. call[z].year \in Years /\ holder[call[z].year] = z
          /\ call[z].seq = lastSeq[call[z].year] + 1
      BY <1>1, <3>1, <3>2, InsertState DEF HoldsNext
    <3>4. call[z].year # y
      BY <1>4, <2>2, <3>3
    <3>5. holder'[call[z].year] = z
      BY <1>1, <1>3, <2>2, <3>3, Ends
    <3>. QED
      BY <1>7, <3>3, <3>4, <3>5
  <2>. QED
    BY <2>1, <2>2
<1>. QED
  BY <1>8, <1>13, <1>14 DEF IInv

LEMMA NewYearKeeps ==
  ASSUME IInv, NewYear
  PROVE  IInv'
<1>1. UNCHANGED <<invoice, lastSeq, holder, call>> /\ year' = year + 1 /\ year < LastYear
  BY DEF NewYear
<1>2. TypeOK'
  BY <1>1, InvoicingAssumption DEF IInv, TypeOK, Years
<1>3. NumbersAreSequential'
  BY <1>1 DEF IInv, NumbersAreSequential, IssuedIn
<1>4. \A x \in Calls : HoldsNext(x)'
  BY <1>1 DEF IInv, HoldsNext
<1>. QED
  BY <1>2, <1>3, <1>4 DEF IInv

LEMMA InitHolds == Init => IInv
<1>1. SUFFICES ASSUME Init PROVE IInv
  OBVIOUS
<1>2. TypeOK
  BY <1>1, InvoicingAssumption DEF Init, TypeOK, Years
<1>3. \A y \in Years : IssuedIn(y) = {}
  BY <1>1 DEF Init, IssuedIn
<1>4. \A y \in Years : {invoice[e].seq : e \in IssuedIn(y)} = 1 .. lastSeq[y]
  BY <1>1, <1>3 DEF Init
<1>5. NumbersAreSequential
  BY <1>1, <1>4 DEF Init, NumbersAreSequential
<1>6. \A x \in Calls : HoldsNext(x)
  BY <1>1 DEF Init, HoldsNext, Idle
<1>. QED
  BY <1>2, <1>5, <1>6 DEF IInv

LEMMA NextKeeps == IInv /\ [Next]_vars => IInv'
<1>1. SUFFICES ASSUME IInv, [Next]_vars PROVE IInv'
  OBVIOUS
<1>2. CASE UNCHANGED vars
  BY <1>1, <1>2 DEF vars, IInv, TypeOK, NumbersAreSequential, IssuedIn, HoldsNext
<1>3. ASSUME NEW x \in Calls, Issue(x) PROVE IInv'
  <2>1. CASE \E e \in Entities : FindNone(x, e)
    BY <1>1, <2>1, FindNoneKeeps
  <2>2. CASE ReadYear(x)
    BY <1>1, <2>2, ReadYearKeeps
  <2>3. CASE Counter(x)
    BY <1>1, <2>3, CounterKeeps
  <2>4. CASE Insert(x)
    BY <1>1, <2>4, InsertKeeps
  <2>5. CASE Conflict(x)
    BY <1>1, <2>5, EndStep DEF Conflict
  <2>6. CASE Fails(x)
    BY <1>1, <2>6, EndStep DEF Fails
  <2>. QED
    BY <1>3, <2>1, <2>2, <2>3, <2>4, <2>5, <2>6 DEF Issue
<1>4. CASE NewYear
  BY <1>1, <1>4, NewYearKeeps
<1>. QED
  BY <1>1, <1>2, <1>3, <1>4 DEF Next

-----------------------------------------------------------------------------
(* The strengthened invariant holds in every reachable state.              *)
THEOREM Invariance == Spec => []IInv
  BY InitHolds, NextKeeps, PTL DEF Spec

(* Every variable keeps its type.                                          *)
THEOREM TypeCorrect == Spec => []TypeOK
<1>1. IInv => TypeOK
  BY DEF IInv
<1>. QED
  BY <1>1, Invariance, PTL

(* The numbers of a year have no gap and no duplicate.                     *)
THEOREM Sequential == Spec => []NumbersAreSequential
<1>1. IInv => NumbersAreSequential
  BY DEF IInv
<1>. QED
  BY <1>1, Invariance, PTL

(* No issuance replaces an invoice.                                        *)
THEOREM NeverReissued == Spec => IssuedOnce
<1>1. ASSUME IInv, [Next]_vars, NEW e \in Entities, invoice[e] # None
      PROVE  invoice'[e] = invoice[e]
  <2>1. CASE \E x \in Calls : Insert(x)
    <3>1. PICK x \in Calls : Insert(x)
      BY <2>1
    <3>2. invoice[call[x].e] = None
          /\ invoice' = [invoice EXCEPT ![call[x].e] = Number(x)]
      BY <3>1 DEF Insert, Write
    <3>. QED
      BY <1>1, <3>2 DEF IInv, TypeOK
  <2>2. CASE invoice' = invoice
    BY <2>2
  <2>. QED
    BY <1>1, <2>1, <2>2 DEF Next, Issue, FindNone, ReadYear, Counter, Conflict,
       Fails, NewYear, vars
<1>2. IInv /\ [Next]_vars =>
        [\A e \in Entities : invoice[e] # None => invoice'[e] = invoice[e]]_vars
  BY <1>1
<1>. QED
  BY <1>2, Invariance, PTL DEF Spec, IssuedOnce

-----------------------------------------------------------------------------
(* The issuances implement the book of InvoiceBook: the counter of a year  *)
(* is the length of its list, and no issuance has a year still to come.    *)
CounterIsLength ==
  \A y \in Years : IsFiniteSet(IssuedIn(y)) /\ Cardinality(IssuedIn(y)) = lastSeq[y]

YearHasCome ==
  \A x \in Calls : call[x].at \in {"counter", "insert"} => call[x].year <= year

BookInv == IInv /\ CounterIsLength /\ YearHasCome

LEMMA YearsCome ==
  ASSUME IInv, YearHasCome, [Next]_vars
  PROVE  YearHasCome'
<1>1. year \in Int /\ TypeOK
  BY InvoicingAssumption DEF IInv, TypeOK, Years
<1>2. CASE UNCHANGED vars
  BY <1>2 DEF vars, YearHasCome
<1>3. CASE NewYear
  <2>1. ASSUME NEW x \in Calls, call[x].at \in {"counter", "insert"}
        PROVE  call[x].year \in Int
    BY <1>1, <2>1, InsertState, CounterState DEF Years
  <2>. QED
    BY <1>1, <1>3, <2>1 DEF NewYear, YearHasCome
<1>4. ASSUME NEW x \in Calls, Issue(x),
             NEW z \in Calls, call'[z].at \in {"counter", "insert"}
      PROVE  call'[z].year <= year'
  <2>1. year' = year
    BY <1>4 DEF Issue, FindNone, ReadYear, Counter, Insert, Write, Conflict, Fails
  <2>2. CASE call'[z] = call[z]
    BY <1>4, <2>1, <2>2 DEF YearHasCome
  <2>3. CASE call'[z] # call[z]
    <3>1. CASE ReadYear(x)
      BY <1>1, <2>1, <2>3, <3>1 DEF ReadYear, TypeOK
    <3>2. CASE Counter(x)
      <4>1. z = x /\ call'[z].year = call[x].year
        BY <1>1, <2>3, <3>2 DEF Counter, TakeNumber, TypeOK
      <4>. QED
        BY <2>1, <3>2, <4>1 DEF Counter, YearHasCome
    <3>3. CASE (\E e \in Entities : FindNone(x, e)) \/ Insert(x) \/ Conflict(x) \/ Fails(x)
      BY <1>1, <1>4, <2>3, <3>3
         DEF FindNone, Insert, Write, Conflict, Fails, Return, Idle, TypeOK
    <3>. QED
      BY <1>4, <3>1, <3>2, <3>3 DEF Issue
  <2>. QED
    BY <2>2, <2>3
<1>. QED
  BY <1>2, <1>3, <1>4 DEF Next, YearHasCome

(* Every step but an insert leaves the invoices and the counters.          *)
LEMMA WhoInserts ==
  ASSUME [Next]_vars
  PROVE  \/ UNCHANGED <<invoice, lastSeq, year>>
         \/ NewYear
         \/ \E x \in Calls : Insert(x)
  BY DEF Next, Issue, FindNone, ReadYear, Counter, Conflict, Fails, vars

(* An insert enters its entity at the end of the list of its year.         *)
LEMMA InsertEnters ==
  ASSUME BookInv, NEW x \in Calls, Insert(x)
  PROVE  /\ CounterIsLength'
         /\ \E e \in Entities, y \in 1 .. year : Book!Enter(e, y)
<1>1. TypeOK /\ HoldsNext(x) /\ call[x].at = "insert"
  BY DEF BookInv, IInv, Insert
<1>2. PICK y \in Years, e \in Entities, n \in Nat :
        y = call[x].year /\ e = call[x].e /\ n = call[x].seq
  BY <1>1, InsertState
<1>. DEFINE new == [year |-> y, seq |-> n]
<1>3. /\ invoice[e] = None /\ invoice' = [invoice EXCEPT ![e] = new]
      /\ lastSeq' = [lastSeq EXCEPT ![y] = n] /\ year' = year
  BY <1>2 DEF Insert, Write, Number
<1>4. IsFiniteSet(IssuedIn(y)) /\ n = Cardinality(IssuedIn(y)) + 1
  BY <1>1, <1>2 DEF HoldsNext, BookInv, CounterIsLength
<1>5. new # None /\ new.year = y
  <2>1. new \in Numbers
    BY DEF Numbers
  <2>. QED
    BY <2>1, InvoicingAssumption
<1>6. invoice'[e] = new /\ \A f \in Entities \ {e} : invoice'[f] = invoice[f]
  BY <1>1, <1>3 DEF TypeOK
<1>7. IssuedIn(y)' = IssuedIn(y) \cup {e} /\ e \notin IssuedIn(y)
  BY <1>3, <1>5, <1>6 DEF IssuedIn
<1>8. \A w \in Years \ {y} : IssuedIn(w)' = IssuedIn(w)
  BY <1>3, <1>5, <1>6 DEF IssuedIn
<1>9. CounterIsLength'
  <2>1. IsFiniteSet(IssuedIn(y) \cup {e}) /\ Cardinality(IssuedIn(y) \cup {e}) = n
    BY <1>4, <1>7, FS_AddElement
  <2>2. lastSeq'[y] = n /\ \A w \in Years \ {y} : lastSeq'[w] = lastSeq[w]
    BY <1>1, <1>3 DEF TypeOK
  <2>3. IsFiniteSet(IssuedIn(y)') /\ Cardinality(IssuedIn(y)') = lastSeq'[y]
    BY <1>7, <2>1, <2>2
  <2>4. ASSUME NEW w \in Years \ {y}
        PROVE  IsFiniteSet(IssuedIn(w)') /\ Cardinality(IssuedIn(w)') = lastSeq'[w]
    BY <1>8, <2>2 DEF BookInv, CounterIsLength
  <2>. QED
    BY <2>3, <2>4 DEF CounterIsLength
<1>10. y \in 1 .. year
  BY <1>1, <1>2, InvoicingAssumption DEF BookInv, YearHasCome, TypeOK, Years
<1>11. Book!Enter(e, y)
  <2>1. Book!IssuedIn(y) = IssuedIn(y)
    BY DEF Book!IssuedIn, IssuedIn
  <2>2. Book!Cardinality(IssuedIn(y)) = Cardinality(IssuedIn(y))
    BY DEF Book!Cardinality, Cardinality
  <2>. QED
    BY <1>3, <1>4, <2>1, <2>2 DEF Book!Enter
<1>. QED
  BY <1>9, <1>10, <1>11

LEMMA BookBegins == Init => BookInv /\ Book!Init
<1>1. SUFFICES ASSUME Init PROVE BookInv /\ Book!Init
  OBVIOUS
<1>2. \A y \in Years : IssuedIn(y) = {} /\ lastSeq[y] = 0
  BY <1>1 DEF Init, IssuedIn
<1>3. CounterIsLength
  BY <1>2, FS_EmptySet DEF CounterIsLength
<1>4. YearHasCome
  BY <1>1 DEF Init, YearHasCome, Idle
<1>5. Book!Init
  BY <1>1 DEF Init, Book!Init
<1>. QED
  BY <1>1, <1>3, <1>4, <1>5, InitHolds DEF BookInv

LEMMA BookGoes ==
  ASSUME BookInv, [Next]_vars
  PROVE  BookInv' /\ [Book!Next]_<<invoice, year>>
<1>1. IInv' /\ YearHasCome'
  BY NextKeeps, YearsCome DEF BookInv
<1>2. CASE UNCHANGED <<invoice, lastSeq, year>>
  BY <1>1, <1>2 DEF BookInv, CounterIsLength, IssuedIn
<1>3. CASE NewYear
  <2>1. CounterIsLength'
    BY <1>3 DEF NewYear, BookInv, CounterIsLength, IssuedIn
  <2>2. Book!NewYear
    BY <1>3 DEF NewYear, Book!NewYear
  <2>. QED
    BY <1>1, <2>1, <2>2 DEF BookInv, Book!Next
<1>4. ASSUME NEW x \in Calls, Insert(x)
      PROVE  BookInv' /\ Book!Next
  BY <1>1, <1>4, InsertEnters DEF BookInv, Book!Next
<1>. QED
  BY <1>2, <1>3, <1>4, WhoInserts

(* Racing issuances do no more than fill the book place after place.       *)
THEOREM InvoicingImplementsBook == Spec => ImplementsBook
  BY BookBegins, BookGoes, PTL DEF Spec, ImplementsBook, Book!Spec

-----------------------------------------------------------------------------
(* Email campaigns: the batches of a run.                                  *)

(* Sets of naturals have a first element, the finite ones a last.          *)
LEMMA FirstExists ==
  ASSUME NEW S \in SUBSET Nat, S # {}
  PROVE  C!First(S) \in S /\ \A q \in S : C!First(S) <= q
<1>1. PICK r \in S : \A q \in S : ~ (<<q, r>> \in OpToRel(<, Nat))
  BY WFMin, NatLessThanWellFounded
<1>2. \A q \in S : ~ (q < r)
  BY <1>1 DEF OpToRel
<1>3. \A q \in S : r \in Nat /\ q \in Nat
  OBVIOUS
<1>4. \A q \in S : r <= q
  BY <1>2, <1>3
<1>. QED
  BY <1>4 DEF C!First

(* The cardinality of the instance is the library's.                       *)
LEMMA BatchCounts ==
  /\ \A after : C!NextBatch(after) =
       {r \in Recipients : r > after
          /\ Cardinality({q \in Recipients : after < q /\ q < r}) < Batch}
  /\ \A batch : C!LastBatch(batch) <=> Cardinality(batch) < Batch
  /\ C!Counts = 0 .. 2 * Cardinality(Recipients)
  /\ \A S : C!Cardinality(S) = Cardinality(S)
<1>1. \A S : C!Cardinality(S) = Cardinality(S)
  BY DEF C!Cardinality, Cardinality
<1>2. \A batch : C!LastBatch(batch) <=> Cardinality(batch) < Batch
  BY <1>1 DEF C!LastBatch
<1>3. C!Counts = 0 .. 2 * Cardinality(Recipients)
  BY <1>1 DEF C!Counts
<1>4. ASSUME NEW after
      PROVE  C!NextBatch(after) =
       {r \in Recipients : r > after
          /\ Cardinality({q \in Recipients : after < q /\ q < r}) < Batch}
  BY <1>1 DEF C!NextBatch
<1>. QED
  BY <1>1, <1>2, <1>3, <1>4

LEMMA LastExists ==
  ASSUME NEW S \in SUBSET Nat, S # {}, IsFiniteSet(S)
  PROVE  C!Last(S) \in S /\ \A q \in S : q <= C!Last(S)
<1> DEFINE HasLast(R) == \E r \in R : \A q \in R : q <= r
           Without    == {R \in SUBSET S : R # {} /\ ~ HasLast(R)}
           Sizes      == {n \in Nat : \E R \in Without : Cardinality(R) = n}
<1>1. \A R \in SUBSET S : IsFiniteSet(R) /\ Cardinality(R) \in Nat
  BY FS_Subset, FS_CardinalityType
<1>2. Sizes = {}
  <2>. SUFFICES ASSUME Sizes # {} PROVE FALSE
    OBVIOUS
  <2>1. PICK n \in Sizes : \A m \in Sizes : ~ (<<m, n>> \in OpToRel(<, Nat))
    BY WFMin, NatLessThanWellFounded
  <2>2. \A m \in Sizes : ~ (m < n)
    BY <2>1 DEF OpToRel
  <2>3. PICK R \in Without : Cardinality(R) = n
    OBVIOUS
  <2>4. PICK x \in R : TRUE
    BY <2>3
  <2>5. Cardinality(R \ {x}) = n - 1 /\ Cardinality(R \ {x}) \in Nat /\ R \ {x} \in SUBSET S
    BY <1>1, <2>3, <2>4, FS_RemoveElement
  <2>6. R \ {x} \notin Without
    <3>1. n \in Nat /\ n - 1 < n /\ n - 1 \in Nat
      BY <2>5
    <3>2. n - 1 \notin Sizes
      BY <2>2, <3>1
    <3>. QED
      BY <2>5, <3>1, <3>2
  <2>7. R # {x}
    BY <2>3, <2>4
  <2>8. PICK r \in R \ {x} : \A q \in R \ {x} : q <= r
    BY <2>4, <2>5, <2>6, <2>7
  <2>9. r \in Nat /\ x \in Nat
    BY <2>3, <2>4, <2>8
  <2>10. \A q \in R : q \in Nat
    BY <2>3
  <2>11. HasLast(R)
    <3>1. CASE x <= r
      BY <2>8, <3>1
    <3>2. CASE r < x
      BY <2>4, <2>8, <2>9, <2>10, <3>2
    <3>. QED
      BY <2>9, <3>1, <3>2
  <2>. QED
    BY <2>3, <2>11
<1>3. HasLast(S)
  BY <1>1, <1>2
<1>. QED
  BY <1>3 DEF C!Last

LEMMA SomeRecipients ==
  ASSUME NEW S \in SUBSET Recipients
  PROVE  /\ S \in SUBSET Nat /\ IsFiniteSet(S) /\ Cardinality(S) \in Nat
         /\ Cardinality(S) <= Cardinality(Recipients)
         /\ \A r \in Recipients \ S : Cardinality(S \cup {r}) = Cardinality(S) + 1
  BY CampaignAssumption, FS_Subset, FS_CardinalityType, FS_AddElement

(* A batch begins with the first recipient behind the cursor, and one that *)
(* is not full holds them all.                                             *)
LEMMA FirstLeft ==
  ASSUME NEW after \in Nat, NEW q \in Recipients, after < q
  PROVE  /\ C!NextBatch(after) # {}
         /\ \A r \in Recipients : after < r => C!First(C!NextBatch(after)) <= r
<1> DEFINE left == {r \in Recipients : after < r}
<1>1. left \in SUBSET Nat /\ left # {}
  BY CampaignAssumption
<1>2. C!First(left) \in left /\ \A r \in left : C!First(left) <= r
  BY <1>1, FirstExists
<1> DEFINE f == C!First(left)
<1>. HIDE DEF f
<1>3. f \in Recipients /\ f \in Nat /\ after < f /\ \A r \in left : f <= r
  BY <1>1, <1>2 DEF f
<1>4. {p \in Recipients : after < p /\ p < f} = {}
  <2>1. \A p \in Recipients : p \in Nat
    BY CampaignAssumption
  <2>2. \A p \in Recipients : after < p => f <= p
    BY <1>3
  <2>3. \A p \in Recipients : ~ (after < p /\ p < f)
    BY <1>3, <2>1, <2>2
  <2>. QED
    BY <2>3
<1>5. f \in C!NextBatch(after)
  <2>1. Cardinality({p \in Recipients : after < p /\ p < f}) < Batch /\ f > after
    BY <1>3, <1>4, FS_EmptySet, CampaignAssumption
  <2>. QED
    BY <1>3, <2>1, BatchCounts
<1>6. C!NextBatch(after) \in SUBSET left /\ C!NextBatch(after) # {}
  <2>1. \A p \in C!NextBatch(after) : p \in Recipients /\ p > after /\ p \in Nat
    BY BatchCounts, CampaignAssumption
  <2>. QED
    BY <1>5, <2>1
<1>7. C!First(C!NextBatch(after)) \in left /\ C!First(C!NextBatch(after)) <= f
  BY <1>1, <1>5, <1>6, FirstExists
<1>. QED
  BY <1>1, <1>3, <1>6, <1>7

LEMMA NotFullIsAll ==
  ASSUME NEW after \in Nat, C!LastBatch(C!NextBatch(after)),
         NEW q \in Recipients, after < q
  PROVE  q \in C!NextBatch(after)
<1> DEFINE batch == C!NextBatch(after)
           missed == {r \in Recipients : after < r /\ r \notin batch}
<1>. SUFFICES ASSUME q \notin batch PROVE FALSE
  OBVIOUS
<1>1. missed \in SUBSET Nat /\ missed # {}
  BY CampaignAssumption
<1>2. C!First(missed) \in missed /\ \A r \in missed : C!First(missed) <= r
  BY <1>1, FirstExists
<1>3. PICK m \in missed : \A r \in missed : m <= r
  BY <1>2
<1> DEFINE between == {p \in Recipients : after < p /\ p < m}
<1>4. between \in SUBSET batch
  BY <1>1, <1>3, CampaignAssumption
<1>5. batch \in SUBSET Recipients
  BY BatchCounts
<1>6. Cardinality(between) <= Cardinality(batch)
  BY <1>4, <1>5, SomeRecipients, FS_Subset
<1>7. Cardinality(between) \in Nat /\ Cardinality(batch) \in Nat
  BY <1>4, <1>5, SomeRecipients
<1>8. Cardinality(between) < Batch
  <2>1. Cardinality(batch) < Batch
    BY BatchCounts
  <2>. HIDE DEF between, batch
  <2>. QED
    BY <1>6, <1>7, <2>1, CampaignAssumption
<1>9. m \in batch
  <2>1. m \in Recipients /\ m > after
    BY <1>1, <1>3
  <2>. QED
    BY <1>8, <2>1, BatchCounts
<1>. QED
  BY <1>3, <1>9

-----------------------------------------------------------------------------
(* A run visits its recipients one by one; it has dealt with those behind. *)
Visiting(n) == n.step \in {"row", "mail", "sent", "refused"}
Going(n)    == n.step \notin {"idle", "edit"}

Behind(n) ==
  CASE n.step = "batch"  -> {r \in Recipients : r <= n.after}
    [] n.step = "finish" -> Recipients
    [] OTHER             -> {r \in Recipients : r < n.at}

(* It stands in its batch and has counted no recipient twice.              *)
Placed(n) ==
  /\ Visiting(n) => /\ n.after < n.at /\ n.at <= n.upto
                    /\ \A q \in C!NextBatch(n.after) : q <= n.upto
  /\ Going(n) => n.sent + n.failed <= Cardinality(Behind(n))

(* Runs exclude each other, and the campaign shows that one is on.         *)
RunsExclude ==
  /\ overlapped => rearmed
  /\ ~ overlapped => \A c, d \in Runs : (C!Running(c) /\ C!Running(d)) => c = d
  /\ ~ rearmed => \A c \in Runs : C!Running(c) => campaign.status = "SENDING"

(* A mail shows in the row of its recipient, or its run is about to mark   *)
(* it, or the rows are gone; nobody is about to get a second one, or to    *)
(* lose the mark.                                                          *)
Shown(r) ==
  /\ mailed[r] <= 1
  /\ mailed[r] = 1 => \/ send[r] = "SENT"
                      \/ campaign.status = "deleted"
                      \/ \E c \in Runs : runCall[c].step = "sent" /\ runCall[c].at = r
  /\ \A c \in Runs : (runCall[c].step \in {"mail", "refused"} /\ runCall[c].at = r) =>
                       mailed[r] = 0

(* Before its one run a campaign has no rows; during it the rows are those *)
(* of the recipients behind, and the run counts them.                      *)
Untouched ==
  /\ send = [r \in Recipients |-> "none"]
  /\ campaign.sentCount = 0 /\ campaign.failedCount = 0

With(status) == {r \in Recipients : send[r] = status}

Progress(n) ==
  /\ \A r \in Recipients : IF r \in Behind(n) THEN send[r] \in {"SENT", "FAILED"}
                                              ELSE send[r] \in {"none", "PENDING"}
  /\ n.sent = Cardinality(With("SENT"))
  /\ n.failed = Cardinality(With("FAILED"))
  /\ campaign.sentCount = 0 /\ campaign.failedCount = 0

Progresses ==
  ~ rearmed =>
    /\ campaign.status \in {"DRAFT", "SCHEDULED", "CANCELLED"} => Untouched
    /\ \A c \in Runs : C!Running(c) => Progress(runCall[c])

MailsInv ==
  /\ C!TypeOK
  /\ RunsExclude
  /\ \A c \in Runs : Placed(runCall[c])
  /\ ~ overlapped => \A r \in Recipients \ unmarked : Shown(r)
  /\ Progresses
  /\ C!FinishedIsComplete

-----------------------------------------------------------------------------
(* The slots of runs, and how a run goes on.                               *)
SlotOK(n) == n \in C!Slots \cup {C!Idle}

LEMMA SlotParts ==
  ASSUME NEW n, SlotOK(n)
  PROVE  /\ n.step \in {"idle", "edit", "batch", "finish", "row", "mail", "sent", "refused"}
         /\ n.step = "idle" <=> n = C!Idle
         /\ n.step = "edit" => n.to \in {"SCHEDULED", "CANCELLED", "deleted"}
         /\ Going(n) => /\ n.after \in C!Cursor /\ n.after \in Nat
                        /\ n.sent \in C!Counts /\ n.sent \in Nat
                        /\ n.failed \in C!Counts /\ n.failed \in Nat
         /\ Visiting(n) =>
              /\ Going(n) /\ n.at \in Recipients /\ n.upto \in Recipients
              /\ n.at \in Nat /\ n.upto \in Nat
              /\ n \in [step : {"row", "mail", "sent", "refused"}, after : C!Cursor,
                        at : Recipients, upto : Recipients,
                        sent : C!Counts, failed : C!Counts]
<1> DEFINE Edits  == [step : {"edit"}, to : {"SCHEDULED", "CANCELLED", "deleted"}]
           Closing   == [step : {"batch", "finish"}, after : C!Cursor,
                      sent : C!Counts, failed : C!Counts]
           Visits == [step : {"row", "mail", "sent", "refused"}, after : C!Cursor,
                      at : Recipients, upto : Recipients,
                      sent : C!Counts, failed : C!Counts]
<1>1. n \in Edits \/ n \in Closing \/ n \in Visits \/ n = C!Idle
  BY DEF SlotOK, C!Slots
<1>2. C!Counts \subseteq Nat /\ C!Cursor \subseteq Nat /\ Recipients \subseteq Nat
  BY CampaignAssumption, BatchCounts DEF C!Cursor
<1>3. n.step \in {"idle", "edit", "batch", "finish", "row", "mail", "sent", "refused"}
  BY <1>1 DEF C!Idle
<1>4. n.step = "idle" <=> n = C!Idle
  BY <1>1 DEF C!Idle
<1>5. n.step = "edit" => n \in Edits
  BY <1>1 DEF C!Idle
<1>6. n.step \in {"batch", "finish"} => n \in Closing
  BY <1>1 DEF C!Idle
<1>7. Visiting(n) => n \in Visits
  BY <1>1 DEF C!Idle, Visiting
<1>8. n.step = "edit" => n.to \in {"SCHEDULED", "CANCELLED", "deleted"}
  BY <1>5
<1>9. Visiting(n) => Going(n)
  BY DEF Visiting, Going
<1>10. Going(n) => n \in Closing \/ n \in Visits
  BY <1>3, <1>6, <1>7 DEF Going, Visiting
<1>11. Going(n) => n.after \in C!Cursor /\ n.sent \in C!Counts /\ n.failed \in C!Counts
  BY <1>10
<1>12. Visiting(n) => n.at \in Recipients /\ n.upto \in Recipients
  BY <1>7
<1>. QED
  BY <1>2, <1>3, <1>4, <1>7, <1>8, <1>9, <1>11, <1>12

LEMMA SlotTypes ==
  ASSUME C!TypeOK, NEW c \in Runs
  PROVE  SlotOK(runCall[c])
  BY DEF C!TypeOK, SlotOK

LEMMA CountsFit ==
  ASSUME NEW R \in SUBSET Recipients, NEW s \in Nat, NEW f \in Nat, s + f <= Cardinality(R)
  PROVE  s \in C!Counts /\ f \in C!Counts
<1>1. Cardinality(R) \in Nat /\ Cardinality(R) <= Cardinality(Recipients)
      /\ Cardinality(Recipients) \in Nat
  BY SomeRecipients
<1>2. Cardinality(Recipients) <= 2 * Cardinality(Recipients)
  BY <1>1
<1>. QED
  BY <1>1, <1>2, BatchCounts

(* When a recipient is done its run goes to the next one of the batch, to  *)
(* the next batch or, when the batch was not full, to its end.             *)
Onwards(slot, s, f) ==
  LET later == {r \in Recipients : slot.at < r /\ r <= slot.upto} IN
  IF later = {}
  THEN [step |-> IF C!LastBatch(C!NextBatch(slot.after)) THEN "finish" ELSE "batch",
        after |-> slot.upto, sent |-> s, failed |-> f]
  ELSE [slot EXCEPT !.step = "row", !.at = C!First(later), !.sent = s, !.failed = f]

LEMMA OnwardGoes ==
  ASSUME NEW slot, SlotOK(slot), Placed(slot), Visiting(slot),
         NEW s \in Nat, NEW f \in Nat, s + f <= slot.sent + slot.failed + 1
  PROVE  /\ SlotOK(Onwards(slot, s, f)) /\ Placed(Onwards(slot, s, f))
         /\ Onwards(slot, s, f).step \in {"row", "batch", "finish"}
         /\ Onwards(slot, s, f).sent = s /\ Onwards(slot, s, f).failed = f
         /\ Behind(Onwards(slot, s, f)) = Behind(slot) \cup {slot.at}
<1> DEFINE batch == C!NextBatch(slot.after)
           later == {r \in Recipients : slot.at < r /\ r <= slot.upto}
           full  == Behind(slot) \cup {slot.at}
<1>1. SlotOK(slot)
  OBVIOUS
<1>2. /\ slot.after \in Nat /\ slot.after \in C!Cursor
      /\ slot.at \in Recipients /\ slot.at \in Nat /\ slot.upto \in Recipients
      /\ slot.upto \in Nat /\ slot.sent \in Nat /\ slot.failed \in Nat /\ Going(slot)
      /\ slot \in [step : {"row", "mail", "sent", "refused"}, after : C!Cursor,
                   at : Recipients, upto : Recipients,
                   sent : C!Counts, failed : C!Counts]
  BY <1>1, SlotParts
<1>3. /\ slot.after < slot.at /\ slot.at <= slot.upto
      /\ \A q \in batch : q <= slot.upto
      /\ slot.sent + slot.failed <= Cardinality(Behind(slot))
  BY <1>2 DEF Placed
<1>4. Behind(slot) = {r \in Recipients : r < slot.at}
  BY DEF Behind, Visiting
<1>5. full = {r \in Recipients : r <= slot.at}
  <2>1. \A r \in Recipients : r <= slot.at <=> (r < slot.at \/ r = slot.at)
    BY <1>2, CampaignAssumption
  <2>. QED
    BY <1>2, <1>4, <2>1
<1>6. full \in SUBSET Recipients /\ s + f <= Cardinality(full)
  <2>1. Behind(slot) \in SUBSET Recipients /\ slot.at \notin Behind(slot)
    BY <1>2, <1>4
  <2>2. Cardinality(full) = Cardinality(Behind(slot)) + 1 /\ Cardinality(Behind(slot)) \in Nat
    BY <1>2, <2>1, SomeRecipients
  <2>. QED
    BY <1>2, <1>3, <1>5, <2>2
<1>7. s \in C!Counts /\ f \in C!Counts
  BY <1>6, CountsFit
<1>8. CASE later = {}
  <2> DEFINE n == [step |-> IF C!LastBatch(batch) THEN "finish" ELSE "batch",
                   after |-> slot.upto, sent |-> s, failed |-> f]
  <2>1. Onwards(slot, s, f) = n
    BY <1>8 DEF Onwards
  <2>2. SlotOK(n)
    BY <1>2, <1>7 DEF SlotOK, C!Slots, C!Cursor
  <2>3. \A r \in Recipients : r <= slot.upto <=> r <= slot.at
    BY <1>2, <1>3, <1>8, CampaignAssumption
  <2>4. Behind(n) = full
    <3>1. CASE ~ C!LastBatch(batch)
      BY <1>5, <2>3, <3>1 DEF Behind
    <3>2. CASE C!LastBatch(batch)
      <4>1. ASSUME NEW r \in Recipients
            PROVE  r <= slot.at
        <5>1. slot.after < r => r <= slot.upto
          BY <1>2, <1>3, <3>2, NotFullIsAll
        <5>. QED
          BY <1>2, <1>3, <2>3, <5>1, CampaignAssumption
      <4>. QED
        BY <1>5, <3>2, <4>1 DEF Behind
    <3>. QED
      BY <3>1, <3>2
  <2>5. Placed(n)
    <3>1. ~ Visiting(n)
      BY DEF Visiting
    <3>2. n.sent + n.failed <= Cardinality(Behind(n))
      BY <1>6, <2>4
    <3>. QED
      BY <3>1, <3>2 DEF Placed
  <2>6. n.step \in {"row", "batch", "finish"} /\ n.sent = s /\ n.failed = f
    OBVIOUS
  <2>. QED
    BY <2>1, <2>2, <2>4, <2>5, <2>6
<1>9. CASE later # {}
  <2> DEFINE next == C!First(later)
             n == [slot EXCEPT !.step = "row", !.at = next, !.sent = s, !.failed = f]
  <2>1. Onwards(slot, s, f) = n
    BY <1>9 DEF Onwards
  <2>2. later \in SUBSET Nat
    BY CampaignAssumption
  <2>3. next \in later /\ \A r \in later : next <= r
    BY <1>9, <2>2, FirstExists
  <2>. HIDE DEF next
  <2>4. next \in Recipients /\ next \in Nat /\ slot.at < next /\ next <= slot.upto
    BY <2>2, <2>3
  <2>5. /\ n.step = "row" /\ n.at = next /\ n.sent = s /\ n.failed = f
        /\ n.after = slot.after /\ n.upto = slot.upto
        /\ n \in [step : {"row", "mail", "sent", "refused"}, after : C!Cursor,
                  at : Recipients, upto : Recipients,
                  sent : C!Counts, failed : C!Counts]
    BY <1>2, <1>7, <2>4
  <2>6. SlotOK(n)
    BY <2>5 DEF SlotOK, C!Slots
  <2>7. Behind(n) = {r \in Recipients : r < next}
    BY <2>5 DEF Behind
  <2>8. \A r \in Recipients : r < next <=> r <= slot.at
    BY <1>2, <2>3, <2>4, CampaignAssumption
  <2>9. Behind(n) = full
    BY <1>5, <2>7, <2>8
  <2>10. n.after < n.at
    BY <1>2, <1>3, <2>4, <2>5
  <2>11. Placed(n)
    BY <1>3, <1>6, <2>4, <2>5, <2>9, <2>10 DEF Placed
  <2>. QED
    BY <2>1, <2>5, <2>6, <2>9, <2>11
<1>. QED
  BY <1>8, <1>9

(* A run that reads its next batch has still dealt with the same ones.     *)
LEMMA ReadGoes ==
  ASSUME C!TypeOK, NEW c \in Runs, Placed(runCall[c]), C!ReadBatch(c)
  PROVE  \E n : /\ SlotOK(n) /\ Placed(n) /\ n.step \in {"row", "finish"}
                /\ n.sent = runCall[c].sent /\ n.failed = runCall[c].failed
                /\ Behind(n) = Behind(runCall[c])
                /\ runCall' = [runCall EXCEPT ![c] = n]
<1> DEFINE slot  == runCall[c]
           batch == C!NextBatch(slot.after)
<1>1. SlotOK(slot) /\ slot.step = "batch" /\ Going(slot)
  BY SlotTypes DEF C!ReadBatch, Going
<1>2. /\ slot.after \in Nat /\ slot.after \in C!Cursor /\ slot.sent \in C!Counts
      /\ slot.failed \in C!Counts
  BY <1>1, SlotParts
<1>3. Behind(slot) = {r \in Recipients : r <= slot.after}
  BY <1>1 DEF Behind
<1>4. slot.sent + slot.failed <= Cardinality(Behind(slot))
  BY <1>1 DEF Placed
<1>5. CASE batch = {}
  <2> DEFINE n == [step |-> "finish", after |-> 0, sent |-> slot.sent, failed |-> slot.failed]
  <2>1. runCall' = [runCall EXCEPT ![c] = n]
    BY <1>5 DEF C!ReadBatch, C!Finish, C!Set
  <2>2. SlotOK(n)
    BY <1>2 DEF SlotOK, C!Slots, C!Cursor
  <2>3. ASSUME NEW r \in Recipients
        PROVE  r <= slot.after
    <3>1. ~ (slot.after < r)
      BY <1>2, <1>5, FirstLeft
    <3>. QED
      BY <1>2, <3>1, CampaignAssumption
  <2>4. Behind(n) = Behind(slot)
    BY <1>3, <2>3 DEF Behind
  <2>5. n.step = "finish" /\ n.sent = slot.sent /\ n.failed = slot.failed
    OBVIOUS
  <2>6. Placed(n)
    BY <1>4, <2>4, <2>5 DEF Placed, Visiting
  <2>. QED
    BY <2>1, <2>2, <2>4, <2>5, <2>6
<1>6. CASE batch # {}
  <2> DEFINE first == C!First(batch)
             last  == C!Last(batch)
             n == [step |-> "row", after |-> slot.after, at |-> first, upto |-> last,
                   sent |-> slot.sent, failed |-> slot.failed]
  <2>1. runCall' = [runCall EXCEPT ![c] = n]
    BY <1>6 DEF C!ReadBatch, C!Visit, C!Set
  <2>2. batch \in SUBSET Recipients /\ \A r \in batch : r > slot.after
    BY BatchCounts
  <2>3. batch \in SUBSET Nat /\ IsFiniteSet(batch)
    BY <2>2, SomeRecipients
  <2>4. first \in batch /\ last \in batch /\ \A q \in batch : first <= q /\ q <= last
    BY <1>6, <2>3, FirstExists, LastExists
  <2>5. \A r \in Recipients : slot.after < r => first <= r
    BY <1>2, FirstLeft
  <2>. HIDE DEF first, last
  <2>6. /\ first \in Recipients /\ last \in Recipients /\ first \in Nat /\ last \in Nat
        /\ slot.after < first /\ first <= last
    BY <1>2, <2>2, <2>3, <2>4
  <2>7. /\ n.step = "row" /\ n.at = first /\ n.upto = last /\ n.after = slot.after
        /\ n.sent = slot.sent /\ n.failed = slot.failed
    OBVIOUS
  <2>8. SlotOK(n)
    BY <1>2, <2>6 DEF SlotOK, C!Slots
  <2>9. Behind(n) = {r \in Recipients : r < first}
    BY <2>7 DEF Behind
  <2>10. \A r \in Recipients : r < first <=> r <= slot.after
    BY <1>2, <2>5, <2>6, CampaignAssumption
  <2>11. Behind(n) = Behind(slot)
    BY <1>3, <2>9, <2>10
  <2>12. Placed(n)
    BY <1>4, <2>4, <2>6, <2>7, <2>11 DEF Placed
  <2>. QED
    BY <2>1, <2>7, <2>8, <2>11, <2>12
<1>. QED
  BY <1>5, <1>6

-----------------------------------------------------------------------------
(* The steps that write no row of the campaign.                            *)
LEMMA ExclusionStays ==
  ASSUME C!TypeOK, RunsExclude, NEW c \in Runs, NEW n,
         runCall' = [runCall EXCEPT ![c] = n], Going(n) => Going(runCall[c]),
         overlapped' = overlapped, rearmed => rearmed',
         ~ rearmed' => \/ campaign'.status = campaign.status
                       \/ campaign.status # "SENDING"
                       \/ ~ Going(n) /\ Going(runCall[c])
  PROVE  RunsExclude'
<1>1. /\ \A d \in Runs : C!Running(d) <=> Going(runCall[d])
      /\ \A d \in Runs : C!Running(d)' <=> Going(runCall'[d])
  BY DEF C!Running, Going
<1>2. runCall'[c] = n /\ \A d \in Runs \ {c} : runCall'[d] = runCall[d]
  BY DEF C!TypeOK
<1>3. \A d \in Runs : C!Running(d)' => C!Running(d)
  BY <1>1, <1>2
<1>4. overlapped' => rearmed'
  BY DEF RunsExclude
<1>5. ~ overlapped' => \A d, e \in Runs : (C!Running(d)' /\ C!Running(e)') => d = e
  BY <1>3 DEF RunsExclude
<1>6. ASSUME ~ rearmed', NEW d \in Runs, C!Running(d)'
      PROVE  campaign'.status = "SENDING"
  <2>1. ~ rearmed /\ ~ overlapped /\ C!Running(d) /\ campaign.status = "SENDING"
    BY <1>3, <1>6 DEF RunsExclude
  <2>2. CASE campaign'.status = campaign.status
    BY <2>1, <2>2
  <2>3. CASE ~ Going(n) /\ Going(runCall[c])
    <3>1. C!Running(c) /\ ~ C!Running(c)'
      BY <1>1, <1>2, <2>3
    <3>2. c = d
      BY <2>1, <3>1 DEF RunsExclude
    <3>. QED
      BY <1>6, <3>1, <3>2
  <2>. QED
    BY <1>6, <2>1, <2>2, <2>3
<1>. QED
  BY <1>4, <1>5, <1>6 DEF RunsExclude

LEMMA RunMoves ==
  ASSUME MailsInv, NEW c \in Runs, NEW n, runCall' = [runCall EXCEPT ![c] = n],
         SlotOK(n), Placed(n),
         UNCHANGED <<campaign, send, mailed, overlapped, rearmed>>,
         unmarked \subseteq unmarked', unmarked' \subseteq Recipients,
         runFailures' \in 0 .. MaxFailures,
         Going(n) => /\ Going(runCall[c]) /\ Behind(n) = Behind(runCall[c])
                     /\ n.sent = runCall[c].sent /\ n.failed = runCall[c].failed,
         runCall[c].step = "sent" =>
           campaign.status = "deleted" \/ runCall[c].at \in unmarked',
         n.step \in {"mail", "refused"} =>
           \/ runCall[c].step = "mail" /\ n.at = runCall[c].at
           \/ n.at \in unmarked'
  PROVE  MailsInv'
<1>1. C!TypeOK'
  BY DEF MailsInv, C!TypeOK, SlotOK
<1>2. runCall'[c] = n /\ \A d \in Runs \ {c} : runCall'[d] = runCall[d]
  BY DEF MailsInv, C!TypeOK
<1>3. RunsExclude'
  BY ExclusionStays DEF MailsInv
<1>4. \A d \in Runs : Placed(runCall[d])'
  BY <1>2 DEF MailsInv
<1>5. ASSUME ~ overlapped', NEW r \in Recipients \ unmarked'
      PROVE  Shown(r)'
  <2>1. Shown(r)
    BY <1>5 DEF MailsInv
  <2>2. ASSUME mailed'[r] = 1
        PROVE  \/ send'[r] = "SENT" \/ campaign'.status = "deleted"
               \/ \E d \in Runs : runCall'[d].step = "sent" /\ runCall'[d].at = r
    <3>1. CASE send[r] = "SENT" \/ campaign.status = "deleted"
      BY <3>1
    <3>2. CASE \E d \in Runs : runCall[d].step = "sent" /\ runCall[d].at = r
      <4>1. PICK d \in Runs : runCall[d].step = "sent" /\ runCall[d].at = r
        BY <3>2
      <4>2. CASE d = c
        BY <1>5, <4>1, <4>2
      <4>3. CASE d # c
        BY <1>2, <4>1, <4>3
      <4>. QED
        BY <4>2, <4>3
    <3>. QED
      BY <2>1, <2>2, <3>1, <3>2 DEF Shown
  <2>3. ASSUME NEW d \in Runs, runCall'[d].step \in {"mail", "refused"}, runCall'[d].at = r
        PROVE  mailed'[r] = 0
    <3>1. CASE d = c
      <4>1. runCall[c].step = "mail" /\ runCall[c].at = r
        BY <1>2, <1>5, <2>3, <3>1
      <4>. QED
        BY <2>1, <4>1 DEF Shown
    <3>2. CASE d # c
      BY <1>2, <2>1, <2>3, <3>2 DEF Shown
    <3>. QED
      BY <3>1, <3>2
  <2>. QED
    BY <2>1, <2>2, <2>3 DEF Shown
<1>6. Progresses'
  <2>1. \A m : Progress(m)' <=> Progress(m)
    BY DEF Progress, With
  <2>2. ASSUME ~ rearmed, NEW d \in Runs, C!Running(d)'
        PROVE  Progress(runCall'[d])
    <3>1. CASE d = c
      <4>1. Going(n)
        BY <1>2, <2>2, <3>1 DEF C!Running, Going
      <4>2. Progress(runCall[c])
        BY <2>2, <4>1 DEF MailsInv, Progresses, C!Running, Going
      <4>3. Progress(n)
        BY <4>1, <4>2 DEF Progress
      <4>. QED
        BY <1>2, <3>1, <4>3
    <3>2. CASE d # c
      BY <1>2, <2>2, <3>2 DEF MailsInv, Progresses, C!Running
    <3>. QED
      BY <3>1, <3>2
  <2>3. Untouched' <=> Untouched
    BY DEF Untouched
  <2>. QED
    BY <2>1, <2>2, <2>3 DEF MailsInv, Progresses
<1>7. C!FinishedIsComplete'
  BY DEF MailsInv, C!FinishedIsComplete, C!Done
<1>. QED
  BY <1>1, <1>3, <1>4, <1>5, <1>6, <1>7 DEF MailsInv

(* A request or a run that ends.                                           *)
LEMMA CallEnds ==
  ASSUME MailsInv, NEW c \in Runs, C!Return(c),
         UNCHANGED <<campaign, send, mailed, overlapped, rearmed>>,
         unmarked \subseteq unmarked', unmarked' \subseteq Recipients,
         runFailures' \in 0 .. MaxFailures,
         runCall[c].step = "sent" =>
           campaign.status = "deleted" \/ runCall[c].at \in unmarked'
  PROVE  MailsInv'
<1>1. SlotOK(C!Idle) /\ Placed(C!Idle) /\ ~ Going(C!Idle)
      /\ C!Idle.step \notin {"mail", "refused"}
  BY DEF SlotOK, C!Idle, Placed, Visiting, Going
<1>2. runCall' = [runCall EXCEPT ![c] = C!Idle]
  BY DEF C!Return, C!Set
<1>. QED
  BY <1>1, <1>2, RunMoves

LEMMA SlotsInv ==
  ASSUME MailsInv, NEW c \in Runs
  PROVE  /\ SlotOK(runCall[c]) /\ Placed(runCall[c])
         /\ runFailures \in Nat /\ runFailures \in 0 .. MaxFailures /\ MaxFailures \in Nat
         /\ unmarked \subseteq Recipients
  BY SlotTypes, CampaignAssumption DEF MailsInv, C!TypeOK

(* A step inside the visit of one recipient.                               *)
LEMMA VisitGoes ==
  ASSUME MailsInv, NEW c \in Runs, Visiting(runCall[c]),
         NEW step \in {"mail", "sent", "refused"}, C!Goto(c, step)
  PROVE  \E n : /\ SlotOK(n) /\ Placed(n) /\ n.step = step
                /\ Going(n) /\ Going(runCall[c]) /\ Behind(n) = Behind(runCall[c])
                /\ n.at = runCall[c].at
                /\ n.sent = runCall[c].sent /\ n.failed = runCall[c].failed
                /\ runCall' = [runCall EXCEPT ![c] = n]
<1> DEFINE slot == runCall[c]
           n    == [slot EXCEPT !.step = step]
<1>1. /\ Placed(slot) /\ Going(slot) /\ slot.after \in Nat
      /\ slot \in [step : {"row", "mail", "sent", "refused"}, after : C!Cursor,
                   at : Recipients, upto : Recipients,
                   sent : C!Counts, failed : C!Counts]
  BY SlotsInv, SlotParts
<1>2. runCall' = [runCall EXCEPT ![c] = n]
  BY DEF C!Goto
<1>3. /\ n.step = step /\ n.at = slot.at /\ n.after = slot.after /\ n.upto = slot.upto
      /\ n.sent = slot.sent /\ n.failed = slot.failed
      /\ n \in [step : {"row", "mail", "sent", "refused"}, after : C!Cursor,
                at : Recipients, upto : Recipients,
                sent : C!Counts, failed : C!Counts]
  BY <1>1
<1>4. SlotOK(n)
  BY <1>3 DEF SlotOK, C!Slots
<1>5. Behind(n) = Behind(slot)
  BY <1>3 DEF Behind, Visiting
<1>6. Placed(n) /\ Going(n)
  BY <1>1, <1>3, <1>5 DEF Placed, Visiting, Going
<1>. QED
  BY <1>1, <1>2, <1>3, <1>4, <1>5, <1>6

LEMMA EditReadKeeps ==
  ASSUME MailsInv, NEW c \in Runs, NEW to \in DOMAIN C!From, C!EditRead(c, to)
  PROVE  MailsInv'
<1> DEFINE n == [step |-> "edit", to |-> to]
<1>1. /\ runCall[c] = C!Idle /\ runCall' = [runCall EXCEPT ![c] = n]
      /\ UNCHANGED <<campaign, send, mailed, unmarked, overlapped, rearmed, runFailures>>
  BY DEF C!EditRead, C!Set, C!ghosts
<1>2. to \in {"SCHEDULED", "CANCELLED", "deleted"}
  BY DEF C!From
<1>3. SlotOK(n) /\ Placed(n) /\ ~ Going(n) /\ n.step \notin {"mail", "refused"}
  BY <1>2 DEF SlotOK, C!Slots, Placed, Visiting, Going
<1>4. runCall[c].step # "sent"
  BY <1>1 DEF C!Idle
<1>. QED
  BY <1>1, <1>3, <1>4, SlotsInv, RunMoves

LEMMA ReadBatchKeeps ==
  ASSUME MailsInv, NEW c \in Runs, C!ReadBatch(c)
  PROVE  MailsInv'
<1>1. /\ runCall[c].step = "batch"
      /\ UNCHANGED <<campaign, send, mailed, unmarked, overlapped, rearmed, runFailures>>
  BY DEF C!ReadBatch, C!ghosts
<1>2. PICK n : /\ SlotOK(n) /\ Placed(n) /\ n.step \in {"row", "finish"}
               /\ n.sent = runCall[c].sent /\ n.failed = runCall[c].failed
               /\ Behind(n) = Behind(runCall[c])
               /\ runCall' = [runCall EXCEPT ![c] = n]
  BY ReadGoes DEF MailsInv
<1>3. Going(runCall[c]) /\ n.step \notin {"mail", "refused"} /\ runCall[c].step # "sent"
  BY <1>1, <1>2 DEF Going
<1>. QED
  BY <1>1, <1>2, <1>3, SlotsInv, RunMoves

LEMMA MailFailsKeeps ==
  ASSUME MailsInv, NEW c \in Runs, C!MailFails(c)
  PROVE  MailsInv'
<1>1. /\ runCall[c].step = "mail" /\ C!Goto(c, "refused")
      /\ runFailures < MaxFailures /\ runFailures' = runFailures + 1
      /\ UNCHANGED <<campaign, send, mailed, unmarked, overlapped, rearmed>>
  BY DEF C!MailFails, C!ghosts
<1>2. Visiting(runCall[c])
  BY <1>1 DEF Visiting
<1>3. PICK n : /\ SlotOK(n) /\ Placed(n) /\ n.step = "refused"
               /\ Going(n) /\ Going(runCall[c]) /\ Behind(n) = Behind(runCall[c])
               /\ n.at = runCall[c].at
               /\ n.sent = runCall[c].sent /\ n.failed = runCall[c].failed
               /\ runCall' = [runCall EXCEPT ![c] = n]
  BY <1>1, <1>2, VisitGoes
<1>4. runFailures' \in 0 .. MaxFailures /\ unmarked' \subseteq Recipients
      /\ runCall[c].step # "sent"
  BY <1>1, SlotsInv
<1>. QED
  BY <1>1, <1>3, <1>4, RunMoves

LEMMA MarkSentFailsKeeps ==
  ASSUME MailsInv, NEW c \in Runs, C!MarkSentFails(c)
  PROVE  MailsInv'
<1>1. /\ runCall[c].step = "sent" /\ C!Goto(c, "refused")
      /\ runFailures < MaxFailures /\ runFailures' = runFailures + 1
      /\ unmarked' = unmarked \cup {runCall[c].at}
      /\ UNCHANGED <<campaign, send, mailed, overlapped, rearmed>>
  BY DEF C!MarkSentFails
<1>2. Visiting(runCall[c])
  BY <1>1 DEF Visiting
<1>3. PICK n : /\ SlotOK(n) /\ Placed(n) /\ n.step = "refused"
               /\ Going(n) /\ Going(runCall[c]) /\ Behind(n) = Behind(runCall[c])
               /\ n.at = runCall[c].at
               /\ n.sent = runCall[c].sent /\ n.failed = runCall[c].failed
               /\ runCall' = [runCall EXCEPT ![c] = n]
  BY <1>1, <1>2, VisitGoes
<1>4. runFailures' \in 0 .. MaxFailures
  BY <1>1, SlotsInv
<1>5. runCall[c].at \in Recipients
  BY <1>2, SlotsInv, SlotParts
<1>6. unmarked' \subseteq Recipients /\ unmarked \subseteq unmarked' /\ runCall[c].at \in unmarked'
  BY <1>1, <1>5, SlotsInv
<1>. QED
  BY <1>1, <1>3, <1>4, <1>6, RunMoves

LEMMA StopsKeeps ==
  ASSUME MailsInv, NEW c \in Runs, C!Stops(c)
  PROVE  MailsInv'
<1>1. /\ C!Return(c) /\ runFailures < MaxFailures /\ runFailures' = runFailures + 1
      /\ unmarked' = IF runCall[c].step = "sent" THEN unmarked \cup {runCall[c].at}
                                                 ELSE unmarked
      /\ UNCHANGED <<campaign, send, mailed, overlapped, rearmed>>
  BY DEF C!Stops
<1>2. runFailures' \in 0 .. MaxFailures
  BY <1>1, SlotsInv
<1>3. runCall[c].step = "sent" => runCall[c].at \in Recipients
  BY SlotsInv, SlotParts DEF Visiting
<1>4. /\ unmarked' \subseteq Recipients /\ unmarked \subseteq unmarked'
      /\ runCall[c].step = "sent" => runCall[c].at \in unmarked'
  BY <1>1, <1>3, SlotsInv
<1>. QED
  BY <1>1, <1>2, <1>4, CallEnds

LEMMA GoneKeeps ==
  ASSUME MailsInv, NEW c \in Runs, C!Gone(c)
  PROVE  MailsInv'
<1>1. /\ C!Return(c) /\ campaign.status = "deleted"
      /\ UNCHANGED <<campaign, send, mailed, unmarked, overlapped, rearmed, runFailures>>
  BY DEF C!Gone, C!ghosts
<1>. QED
  BY <1>1, SlotsInv, CallEnds

-----------------------------------------------------------------------------
(* The steps that write the campaign.                                      *)
LEMMA EditWriteKeeps ==
  ASSUME MailsInv, NEW c \in Runs, C!EditWrite(c)
  PROVE  MailsInv'
<1> DEFINE to == runCall[c].to
<1>1. /\ runCall[c].step = "edit" /\ campaign.status # "deleted"
      /\ campaign' = [campaign EXCEPT !.status = to]
      /\ send' = IF to = "deleted" THEN [r \in Recipients |-> "none"] ELSE send
      /\ rearmed' = (rearmed \/ campaign.status \in {"SENDING", "SENT", "FAILED"})
      /\ runCall' = [runCall EXCEPT ![c] = C!Idle]
      /\ UNCHANGED <<mailed, unmarked, overlapped, runFailures>>
  BY DEF C!EditWrite, C!Return, C!Set
<1>2. to \in {"SCHEDULED", "CANCELLED", "deleted"}
  BY <1>1, SlotsInv, SlotParts
<1>3. runCall'[c] = C!Idle /\ \A d \in Runs \ {c} : runCall'[d] = runCall[d]
  BY <1>1 DEF MailsInv, C!TypeOK
<1>4. /\ campaign.status \in C!CampaignStatuses /\ campaign'.status = to
      /\ campaign'.sentCount = campaign.sentCount
      /\ campaign'.failedCount = campaign.failedCount
  BY <1>1 DEF MailsInv, C!TypeOK
<1>5. C!Idle.step = "idle" /\ SlotOK(C!Idle) /\ Placed(C!Idle) /\ ~ Going(C!Idle)
  BY DEF C!Idle, SlotOK, Placed, Visiting, Going
<1>6. C!TypeOK'
  BY <1>1, <1>2 DEF MailsInv, C!TypeOK, C!CampaignStatuses
<1>7. RunsExclude'
  <2>1. rearmed => rearmed'
    BY <1>1
  <2>2. ~ rearmed' => campaign.status # "SENDING"
    BY <1>1
  <2>. QED
    BY <1>1, <1>5, <2>1, <2>2, ExclusionStays DEF MailsInv
<1>8. \A d \in Runs : Placed(runCall[d])'
  BY <1>3, <1>5 DEF MailsInv
<1>9. ASSUME ~ overlapped', NEW r \in Recipients \ unmarked'
      PROVE  Shown(r)'
  <2>1. Shown(r)
    BY <1>1, <1>9 DEF MailsInv
  <2>2. to # "deleted" => send' = send
    BY <1>1
  <2>3. \A d \in Runs : runCall[d].step = "sent" => runCall'[d] = runCall[d]
    BY <1>1, <1>3
  <2>4. \A d \in Runs : runCall'[d].step \in {"mail", "refused"} => runCall'[d] = runCall[d]
    BY <1>3, <1>5
  <2>. QED
    BY <1>1, <1>4, <2>1, <2>2, <2>3, <2>4 DEF Shown
<1>10. Progresses'
  <2>. SUFFICES ASSUME ~ rearmed' PROVE Progresses'
    BY DEF Progresses
  <2>1. ~ rearmed /\ campaign.status \in {"DRAFT", "SCHEDULED", "CANCELLED"}
    BY <1>1, <1>4 DEF C!CampaignStatuses
  <2>2. Untouched
    BY <2>1 DEF MailsInv, Progresses
  <2>3. Untouched'
    BY <1>1, <1>4, <2>2 DEF Untouched
  <2>4. \A d \in Runs : ~ C!Running(d)'
    <3>1. \A d \in Runs : ~ C!Running(d)
      BY <2>1 DEF MailsInv, RunsExclude
    <3>. QED
      BY <1>3, <1>5, <3>1 DEF C!Running
  <2>. QED
    BY <2>3, <2>4 DEF Progresses
<1>11. C!FinishedIsComplete'
  BY <1>2, <1>4 DEF C!FinishedIsComplete
<1>. QED
  BY <1>6, <1>7, <1>8, <1>9, <1>10, <1>11 DEF MailsInv

LEMMA ClaimKeeps ==
  ASSUME MailsInv, NEW c \in Runs, NEW statuses \in SUBSET {"DRAFT", "SCHEDULED"},
         C!Claim(c, statuses)
  PROVE  MailsInv'
<1> DEFINE n == [step |-> "batch", after |-> 0, sent |-> 0, failed |-> 0]
<1>1. /\ runCall[c] = C!Idle /\ campaign.status \in {"DRAFT", "SCHEDULED"}
      /\ campaign' = [campaign EXCEPT !.status = "SENDING"]
      /\ runCall' = [runCall EXCEPT ![c] = n]
      /\ overlapped' = (overlapped \/ \E d \in Runs : C!Running(d))
      /\ UNCHANGED <<send, mailed, unmarked, rearmed, runFailures>>
  BY DEF C!Claim, C!Claimable, C!Set
<1>2. runCall'[c] = n /\ \A d \in Runs \ {c} : runCall'[d] = runCall[d]
  BY <1>1 DEF MailsInv, C!TypeOK
<1>3. /\ campaign'.status = "SENDING"
      /\ campaign'.sentCount = campaign.sentCount
      /\ campaign'.failedCount = campaign.failedCount
  BY <1>1 DEF MailsInv, C!TypeOK
<1>4. Behind(n) = {}
  BY CampaignAssumption DEF Behind
<1>5. SlotOK(n) /\ Placed(n)
  <2>1. 0 \in C!Counts /\ 0 \in C!Cursor
    BY CountsFit, SomeRecipients DEF C!Cursor
  <2>2. n.sent + n.failed <= Cardinality(Behind(n))
    BY <1>4, FS_EmptySet
  <2>. QED
    BY <2>1, <2>2 DEF SlotOK, C!Slots, Placed, Visiting
<1>6. C!TypeOK'
  BY <1>1, <1>5 DEF MailsInv, C!TypeOK, C!CampaignStatuses, SlotOK
<1>7. ~ rearmed => \A d \in Runs : ~ C!Running(d)
  BY <1>1 DEF MailsInv, RunsExclude
<1>8. \A d \in Runs : C!Running(d)' => d = c \/ C!Running(d)
  BY <1>2 DEF C!Running
<1>9. RunsExclude'
  <2>1. overlapped' => rearmed'
    BY <1>1, <1>7 DEF MailsInv, RunsExclude, C!TypeOK
  <2>2. ~ overlapped' => \A d \in Runs : ~ C!Running(d)
    BY <1>1
  <2>3. ~ overlapped' => \A d, e \in Runs : (C!Running(d)' /\ C!Running(e)') => d = e
    BY <1>8, <2>2
  <2>. QED
    BY <1>3, <2>1, <2>3 DEF RunsExclude
<1>10. \A d \in Runs : Placed(runCall[d])'
  BY <1>2, <1>5 DEF MailsInv
<1>11. ASSUME ~ overlapped', NEW r \in Recipients \ unmarked'
       PROVE  Shown(r)'
  <2>1. Shown(r)
    BY <1>1, <1>11 DEF MailsInv
  <2>2. \A d \in Runs : runCall[d].step = "sent" => runCall'[d] = runCall[d]
    BY <1>1, <1>2 DEF C!Idle
  <2>3. \A d \in Runs : runCall'[d].step \in {"mail", "refused"} => runCall'[d] = runCall[d]
    BY <1>2
  <2>. QED
    BY <1>1, <2>1, <2>2, <2>3 DEF Shown
<1>12. Progresses'
  <2>. SUFFICES ASSUME ~ rearmed' PROVE Progresses'
    BY DEF Progresses
  <2>1. Untouched
    BY <1>1 DEF MailsInv, Progresses
  <2>2. /\ \A r \in Recipients : send'[r] = "none"
        /\ campaign'.sentCount = 0 /\ campaign'.failedCount = 0
    BY <1>1, <1>3, <2>1 DEF Untouched
  <2>3. With("SENT")' = {} /\ With("FAILED")' = {}
    BY <2>2 DEF With
  <2>4. Progress(n)'
    BY <1>4, <2>2, <2>3, FS_EmptySet DEF Progress
  <2>5. \A d \in Runs : C!Running(d)' => d = c
    BY <1>1, <1>7, <1>8
  <2>. QED
    BY <1>2, <1>3, <2>4, <2>5 DEF Progresses
<1>13. C!FinishedIsComplete'
  BY <1>3 DEF C!FinishedIsComplete
<1>. QED
  BY <1>6, <1>9, <1>10, <1>11, <1>12, <1>13 DEF MailsInv

(* A run ends: what it has behind it is everybody.                         *)
LEMMA FinishRunKeeps ==
  ASSUME MailsInv, NEW c \in Runs, C!FinishRun(c)
  PROVE  MailsInv'
<1> DEFINE slot == runCall[c]
<1>1. /\ slot.step = "finish" /\ campaign.status # "deleted"
      /\ campaign' = [status |-> IF slot.sent = 0 /\ slot.failed > 0 THEN "FAILED" ELSE "SENT",
                      sentCount |-> campaign.sentCount + slot.sent,
                      failedCount |-> campaign.failedCount + slot.failed]
      /\ runCall' = [runCall EXCEPT ![c] = C!Idle]
      /\ UNCHANGED <<send, mailed, unmarked, overlapped, rearmed, runFailures>>
  BY DEF C!FinishRun, C!Return, C!Set, C!ghosts
<1>2. Going(slot) /\ C!Running(c) /\ slot.sent \in Nat /\ slot.failed \in Nat
  BY <1>1, SlotsInv, SlotParts DEF Going, C!Running
<1>3. runCall'[c] = C!Idle /\ \A d \in Runs \ {c} : runCall'[d] = runCall[d]
  BY <1>1 DEF MailsInv, C!TypeOK
<1>4. C!Idle.step = "idle" /\ SlotOK(C!Idle) /\ Placed(C!Idle) /\ ~ Going(C!Idle)
  BY DEF C!Idle, SlotOK, Placed, Visiting, Going
<1>5. campaign'.status \in {"SENT", "FAILED"}
  BY <1>1
<1>6. C!TypeOK'
  <2>1. campaign.sentCount \in Nat /\ campaign.failedCount \in Nat
    BY DEF MailsInv, C!TypeOK
  <2>2. campaign' \in [status : C!CampaignStatuses, sentCount : Nat, failedCount : Nat]
    BY <1>1, <1>2, <2>1 DEF C!CampaignStatuses
  <2>. QED
    BY <1>1, <2>2 DEF MailsInv, C!TypeOK
<1>7. RunsExclude'
  BY <1>1, <1>2, <1>4, ExclusionStays DEF MailsInv
<1>8. \A d \in Runs : Placed(runCall[d])'
  BY <1>3, <1>4 DEF MailsInv
<1>9. ASSUME ~ overlapped', NEW r \in Recipients \ unmarked'
      PROVE  Shown(r)'
  <2>1. Shown(r)
    BY <1>1, <1>9 DEF MailsInv
  <2>2. \A d \in Runs : runCall[d].step = "sent" => runCall'[d] = runCall[d]
    BY <1>1, <1>3
  <2>3. \A d \in Runs : runCall'[d].step \in {"mail", "refused"} => runCall'[d] = runCall[d]
    BY <1>3, <1>4
  <2>. QED
    BY <1>1, <2>1, <2>2, <2>3 DEF Shown
<1>10. Progresses'
  <2>. SUFFICES ASSUME ~ rearmed' PROVE Progresses'
    BY DEF Progresses
  <2>1. ASSUME NEW d \in Runs, C!Running(d)'
        PROVE  FALSE
    <3>1. d # c
      BY <1>3, <1>4, <2>1 DEF C!Running
    <3>2. C!Running(d)
      BY <1>3, <2>1, <3>1 DEF C!Running
    <3>3. ~ overlapped
      BY <1>1 DEF MailsInv, RunsExclude
    <3>. QED
      BY <1>2, <3>1, <3>2, <3>3 DEF MailsInv, RunsExclude
  <2>. QED
    BY <1>5, <2>1 DEF Progresses
<1>11. C!FinishedIsComplete'
  <2>. SUFFICES ASSUME ~ rearmed PROVE C!FinishedIsComplete'
    BY <1>1 DEF C!FinishedIsComplete
  <2>1. Progress(slot)
    BY <1>2 DEF MailsInv, Progresses
  <2>2. Behind(slot) = Recipients
    BY <1>1 DEF Behind
  <2>3. /\ campaign'.sentCount = slot.sent /\ campaign'.failedCount = slot.failed
    BY <1>1, <1>2, <2>1 DEF Progress
  <2>4. \A r \in Recipients : send'[r] \in {"SENT", "FAILED"}
    BY <1>1, <2>1, <2>2 DEF Progress
  <2>5. /\ campaign'.sentCount = C!Cardinality({r \in Recipients : send'[r] = "SENT"})
        /\ campaign'.failedCount = C!Cardinality({r \in Recipients : send'[r] = "FAILED"})
    BY <1>1, <2>1, <2>3, BatchCounts DEF Progress, With
  <2>. QED
    BY <2>4, <2>5 DEF C!FinishedIsComplete, C!Done
<1>. QED
  BY <1>6, <1>7, <1>8, <1>9, <1>10, <1>11 DEF MailsInv

(* A run that cannot read its segment ends: it has nobody behind it.       *)
LEMMA UnreadableKeeps ==
  ASSUME MailsInv, NEW c \in Runs, C!Unreadable(c)
  PROVE  MailsInv'
<1> DEFINE slot == runCall[c]
<1>1. /\ slot.step = "batch" /\ slot.after = 0
      /\ campaign' = [campaign EXCEPT !.status = "FAILED"]
      /\ runCall' = [runCall EXCEPT ![c] = C!Idle]
      /\ UNCHANGED <<send, mailed, unmarked, overlapped, rearmed, runFailures>>
  BY DEF C!Unreadable, C!Starts, C!Return, C!Set, C!ghosts
<1>2. Going(slot) /\ C!Running(c)
  BY <1>1 DEF Going, C!Running
<1>3. runCall'[c] = C!Idle /\ \A d \in Runs \ {c} : runCall'[d] = runCall[d]
  BY <1>1 DEF MailsInv, C!TypeOK
<1>4. C!Idle.step = "idle" /\ SlotOK(C!Idle) /\ Placed(C!Idle) /\ ~ Going(C!Idle)
  BY DEF C!Idle, SlotOK, Placed, Visiting, Going
<1>5. /\ campaign'.status = "FAILED" /\ campaign.status \in C!CampaignStatuses
      /\ campaign'.sentCount = campaign.sentCount
      /\ campaign'.failedCount = campaign.failedCount
  BY <1>1 DEF MailsInv, C!TypeOK
<1>6. C!TypeOK'
  BY <1>1 DEF MailsInv, C!TypeOK, C!CampaignStatuses
<1>7. RunsExclude'
  BY <1>1, <1>2, <1>4, ExclusionStays DEF MailsInv
<1>8. \A d \in Runs : Placed(runCall[d])'
  BY <1>3, <1>4 DEF MailsInv
<1>9. ASSUME ~ overlapped', NEW r \in Recipients \ unmarked'
      PROVE  Shown(r)'
  <2>1. Shown(r)
    BY <1>1, <1>9 DEF MailsInv
  <2>2. \A d \in Runs : runCall[d].step = "sent" => runCall'[d] = runCall[d]
    BY <1>1, <1>3
  <2>3. \A d \in Runs : runCall'[d].step \in {"mail", "refused"} => runCall'[d] = runCall[d]
    BY <1>3, <1>4
  <2>4. campaign.status # "deleted"
    BY DEF C!Unreadable
  <2>. QED
    BY <1>1, <2>1, <2>2, <2>3, <2>4 DEF Shown
<1>10. Progresses'
  <2>. SUFFICES ASSUME ~ rearmed' PROVE Progresses'
    BY DEF Progresses
  <2>1. ASSUME NEW d \in Runs, C!Running(d)'
        PROVE  FALSE
    <3>1. d # c
      BY <1>3, <1>4, <2>1 DEF C!Running
    <3>2. C!Running(d)
      BY <1>3, <2>1, <3>1 DEF C!Running
    <3>3. ~ overlapped
      BY <1>1 DEF MailsInv, RunsExclude
    <3>. QED
      BY <1>2, <3>1, <3>2, <3>3 DEF MailsInv, RunsExclude
  <2>. QED
    BY <1>5, <2>1 DEF Progresses
<1>11. C!FinishedIsComplete'
  <2>. SUFFICES ASSUME ~ rearmed PROVE C!FinishedIsComplete'
    BY <1>1 DEF C!FinishedIsComplete
  <2>1. Progress(slot)
    BY <1>2 DEF MailsInv, Progresses
  <2>2. Behind(slot) = {}
    BY <1>1, CampaignAssumption DEF Behind
  <2>3. \A r \in Recipients : send'[r] \notin {"SENT", "FAILED"}
    BY <1>1, <2>1, <2>2 DEF Progress
  <2>4. With("SENT") = {} /\ With("FAILED") = {}
    BY <1>1, <2>3 DEF With
  <2>5. campaign.sentCount = 0 /\ campaign.failedCount = 0
    BY <2>1 DEF Progress
  <2>6. /\ campaign'.sentCount = C!Cardinality({r \in Recipients : send'[r] = "SENT"})
        /\ campaign'.failedCount = C!Cardinality({r \in Recipients : send'[r] = "FAILED"})
    BY <1>1, <1>5, <2>4, <2>5, BatchCounts, FS_EmptySet DEF With
  <2>. QED
    BY <1>5, <2>3, <2>6 DEF C!FinishedIsComplete, C!Done
<1>. QED
  BY <1>6, <1>7, <1>8, <1>9, <1>10, <1>11 DEF MailsInv

-----------------------------------------------------------------------------
(* The steps of a run that write the row of a recipient, or mail it.       *)
LEMMA RunAlone ==
  ASSUME MailsInv, NEW c \in Runs, Going(runCall[c])
  PROVE  /\ ~ rearmed => ~ overlapped
         /\ ~ rearmed => campaign.status = "SENDING" /\ Progress(runCall[c])
         /\ ~ overlapped => \A d \in Runs \ {c} : ~ Going(runCall[d])
<1>1. \A d \in Runs : C!Running(d) <=> Going(runCall[d])
  BY DEF C!Running, Going
<1>. QED
  BY <1>1 DEF MailsInv, RunsExclude, Progresses

LEMMA RunWrites ==
  ASSUME MailsInv, NEW c \in Runs, NEW n, runCall' = [runCall EXCEPT ![c] = n],
         SlotOK(n), Placed(n), Going(runCall[c]), Going(n),
         UNCHANGED <<campaign, unmarked, overlapped, rearmed, runFailures>>,
         send' \in [Recipients -> {"none", "PENDING", "SENT", "FAILED"}],
         mailed' \in [Recipients -> 0 .. 2],
         ~ rearmed => Progress(n)',
         ~ overlapped => \A r \in Recipients \ unmarked : Shown(r)'
  PROVE  MailsInv'
<1>1. C!TypeOK'
  BY DEF MailsInv, C!TypeOK, SlotOK
<1>2. runCall'[c] = n /\ \A d \in Runs \ {c} : runCall'[d] = runCall[d]
  BY DEF MailsInv, C!TypeOK
<1>3. RunsExclude'
  BY ExclusionStays DEF MailsInv
<1>4. \A d \in Runs : Placed(runCall[d])'
  BY <1>2 DEF MailsInv
<1>5. ~ overlapped' => \A r \in Recipients \ unmarked' : Shown(r)'
  OBVIOUS
<1>6. Progresses'
  <2>. SUFFICES ASSUME ~ rearmed' PROVE Progresses'
    BY DEF Progresses
  <2>1. campaign'.status = "SENDING" /\ \A d \in Runs \ {c} : ~ Going(runCall[d])
    BY RunAlone
  <2>2. \A d \in Runs : C!Running(d)' => d = c
    BY <1>2, <2>1 DEF C!Running, Going
  <2>. QED
    BY <1>2, <2>1, <2>2 DEF Progresses
<1>7. C!FinishedIsComplete'
  BY RunAlone DEF C!FinishedIsComplete
<1>. QED
  BY <1>1, <1>3, <1>4, <1>5, <1>6, <1>7 DEF MailsInv

LEMMA NotBehind ==
  ASSUME MailsInv, NEW c \in Runs, Visiting(runCall[c])
  PROVE  /\ runCall[c].at \in Recipients /\ Going(runCall[c])
         /\ runCall[c].at \notin Behind(runCall[c])
         /\ runCall[c].sent \in Nat /\ runCall[c].failed \in Nat
<1>1. runCall[c].at \in Recipients /\ runCall[c].at \in Nat /\ Going(runCall[c])
      /\ runCall[c].sent \in Nat /\ runCall[c].failed \in Nat
  BY SlotsInv, SlotParts
<1>2. Behind(runCall[c]) = {r \in Recipients : r < runCall[c].at}
  BY DEF Behind, Visiting
<1>. QED
  BY <1>1, <1>2

LEMMA SendRowKeeps ==
  ASSUME MailsInv, NEW c \in Runs, C!SendRow(c)
  PROVE  MailsInv'
<1> DEFINE slot == runCall[c]
           at   == slot.at
<1>1. /\ slot.step = "row" /\ campaign.status # "deleted"
      /\ send' = IF send[at] = "none" THEN [send EXCEPT ![at] = "PENDING"] ELSE send
      /\ IF send[at] = "SENT" THEN C!Onward(c, slot.sent, slot.failed) ELSE C!Goto(c, "mail")
      /\ UNCHANGED <<campaign, mailed, unmarked, overlapped, rearmed, runFailures>>
  BY DEF C!SendRow, C!AlreadySent, C!ghosts
<1>2. Visiting(slot) /\ SlotOK(slot) /\ Placed(slot)
  BY <1>1, SlotsInv DEF Visiting
<1>3. /\ at \in Recipients /\ Going(slot) /\ at \notin Behind(slot)
      /\ slot.sent \in Nat /\ slot.failed \in Nat
  BY <1>2, NotBehind
<1>4. /\ send \in [Recipients -> {"none", "PENDING", "SENT", "FAILED"}]
      /\ mailed \in [Recipients -> 0 .. 2] /\ DOMAIN runCall = Runs
  BY DEF MailsInv, C!TypeOK
<1>5. /\ send' \in [Recipients -> {"none", "PENDING", "SENT", "FAILED"}]
      /\ \A r \in Recipients : send'[r] = send[r]
                                \/ (r = at /\ send[r] = "none" /\ send'[r] = "PENDING")
  BY <1>1, <1>3, <1>4
<1>6. mailed' \in [Recipients -> 0 .. 2]
  BY <1>1, <1>4
<1>7. CASE send[at] = "SENT"
  <2>1. PICK n : /\ SlotOK(n) /\ Placed(n)
                 /\ n.step \in {"row", "batch", "finish"}
                 /\ n.sent = slot.sent /\ n.failed = slot.failed
                 /\ Behind(n) = Behind(slot) \cup {at}
                 /\ runCall' = [runCall EXCEPT ![c] = n]
    <3>1. slot.sent + slot.failed <= slot.sent + slot.failed + 1
      BY <1>3
    <3>2. runCall' = [runCall EXCEPT ![c] = Onwards(slot, slot.sent, slot.failed)]
      BY <1>1, <1>7 DEF C!Onward, C!Set, Onwards
    <3> DEFINE n == Onwards(slot, slot.sent, slot.failed)
    <3>3. /\ SlotOK(n) /\ Placed(n) /\ n.step \in {"row", "batch", "finish"}
          /\ n.sent = slot.sent /\ n.failed = slot.failed
          /\ Behind(n) = Behind(slot) \cup {at}
      BY <1>2, <1>3, <3>1, OnwardGoes
    <3>. QED
      BY <3>2, <3>3
  <2>2. Going(n)
    BY <2>1 DEF Going
  <2>3. rearmed
    BY <1>3, <1>7, RunAlone DEF Progress, MailsInv, C!TypeOK
  <2>4. ASSUME ~ overlapped, NEW r \in Recipients \ unmarked
        PROVE  Shown(r)'
    <3>1. Shown(r)
      BY <2>4 DEF MailsInv
    <3>2. runCall'[c] = n /\ \A d \in Runs \ {c} : runCall'[d] = runCall[d]
      BY <1>4, <2>1
    <3>3. \A d \in Runs : runCall[d].step = "sent" => runCall'[d] = runCall[d]
      BY <1>1, <3>2
    <3>4. \A d \in Runs : runCall'[d].step \in {"mail", "refused"} => runCall'[d] = runCall[d]
      BY <2>1, <3>2
    <3>5. send'[r] = send[r]
      BY <1>1, <1>7
    <3>. QED
      BY <1>1, <3>1, <3>3, <3>4, <3>5 DEF Shown
  <2>. QED
    BY <1>1, <1>3, <1>5, <1>6, <2>1, <2>2, <2>3, <2>4, RunWrites
<1>8. CASE send[at] # "SENT"
  <2>1. PICK n : /\ SlotOK(n) /\ Placed(n) /\ n.step = "mail"
                 /\ Going(n) /\ Going(slot) /\ Behind(n) = Behind(slot) /\ n.at = at
                 /\ n.sent = slot.sent /\ n.failed = slot.failed
                 /\ runCall' = [runCall EXCEPT ![c] = n]
    BY <1>1, <1>2, <1>8, VisitGoes
  <2>2. runCall'[c] = n /\ \A d \in Runs \ {c} : runCall'[d] = runCall[d]
    BY <1>4, <2>1
  <2>3. ASSUME ~ rearmed
        PROVE  Progress(n)'
    <3>1. Progress(slot)
      BY <1>3, <2>3, RunAlone
    <3>2. With("SENT")' = With("SENT") /\ With("FAILED")' = With("FAILED")
      BY <1>5 DEF With
    <3>3. \A r \in Recipients : IF r \in Behind(n) THEN send'[r] \in {"SENT", "FAILED"}
                                                   ELSE send'[r] \in {"none", "PENDING"}
      BY <1>5, <2>1, <3>1 DEF Progress
    <3>. QED
      BY <1>1, <2>1, <3>1, <3>2, <3>3 DEF Progress
  <2>4. ASSUME ~ overlapped, NEW r \in Recipients \ unmarked
        PROVE  Shown(r)'
    <3>1. Shown(r) /\ mailed[r] \in 0 .. 2
      BY <1>4, <2>4 DEF MailsInv
    <3>2. \A d \in Runs \ {c} : ~ Going(runCall[d])
      BY <1>3, <2>4, RunAlone
    <3>3. \A d \in Runs : runCall[d].step # "sent"
      BY <1>1, <3>2 DEF Going
    <3>4. r = at => mailed[r] = 0
      BY <1>1, <1>8, <3>1, <3>3 DEF Shown
    <3>5. \A d \in Runs : runCall'[d].step \in {"mail", "refused"} => d = c
      BY <2>2, <3>2 DEF Going
    <3>6. send[r] = "SENT" => send'[r] = "SENT"
      BY <1>5
    <3>. QED
      BY <1>1, <2>1, <2>2, <3>1, <3>3, <3>4, <3>5, <3>6 DEF Shown
  <2>. QED
    BY <1>1, <1>5, <1>6, <2>1, <2>3, <2>4, RunWrites
<1>. QED
  BY <1>7, <1>8

LEMMA MailKeeps ==
  ASSUME MailsInv, NEW c \in Runs, C!Mail(c)
  PROVE  MailsInv'
<1> DEFINE slot == runCall[c]
           at   == slot.at
<1>1. /\ slot.step = "mail" /\ C!Goto(c, "sent")
      /\ mailed' = [mailed EXCEPT ![at] = IF mailed[at] = 0 THEN 1 ELSE 2]
      /\ UNCHANGED <<campaign, send, unmarked, overlapped, rearmed, runFailures>>
  BY DEF C!Mail, C!ghosts
<1>2. Visiting(slot)
  BY <1>1 DEF Visiting
<1>3. at \in Recipients /\ Going(slot)
  BY <1>2, NotBehind
<1>4. /\ send \in [Recipients -> {"none", "PENDING", "SENT", "FAILED"}]
      /\ mailed \in [Recipients -> 0 .. 2] /\ DOMAIN runCall = Runs
  BY DEF MailsInv, C!TypeOK
<1>5. mailed' \in [Recipients -> 0 .. 2]
  BY <1>1, <1>3, <1>4
<1>6. PICK n : /\ SlotOK(n) /\ Placed(n) /\ n.step = "sent"
               /\ Going(n) /\ Going(slot) /\ Behind(n) = Behind(slot) /\ n.at = at
               /\ n.sent = slot.sent /\ n.failed = slot.failed
               /\ runCall' = [runCall EXCEPT ![c] = n]
  BY <1>1, <1>2, VisitGoes
<1>7. runCall'[c] = n /\ \A d \in Runs \ {c} : runCall'[d] = runCall[d]
  BY <1>4, <1>6
<1>8. ASSUME ~ rearmed
      PROVE  Progress(n)'
  BY <1>1, <1>3, <1>6, <1>8, RunAlone DEF Progress, With
<1>9. ASSUME ~ overlapped, NEW r \in Recipients \ unmarked
      PROVE  Shown(r)'
  <2>1. Shown(r)
    BY <1>9 DEF MailsInv
  <2>2. \A d \in Runs \ {c} : ~ Going(runCall[d])
    BY <1>3, <1>9, RunAlone
  <2>3. \A d \in Runs : runCall'[d].step \notin {"mail", "refused"}
    BY <1>6, <1>7, <2>2 DEF Going
  <2>4. CASE r = at
    <3>1. mailed[r] = 0
      BY <1>1, <2>1, <2>4 DEF Shown
    <3>2. mailed'[r] = 1
      BY <1>1, <1>4, <2>4, <3>1
    <3>. QED
      BY <1>6, <1>7, <2>3, <2>4, <3>2 DEF Shown
  <2>5. CASE r # at
    <3>1. mailed'[r] = mailed[r]
      BY <1>1, <1>4, <2>5
    <3>2. \A d \in Runs : runCall[d].step # "sent"
      BY <1>1, <2>2 DEF Going
    <3>. QED
      BY <1>1, <2>1, <2>3, <3>1, <3>2 DEF Shown
  <2>. QED
    BY <2>4, <2>5
<1>. QED
  BY <1>1, <1>3, <1>4, <1>5, <1>6, <1>8, <1>9, RunWrites

(* The row of a recipient is marked, and the run goes on to the next.      *)
LEMMA Marks ==
  ASSUME MailsInv, NEW c \in Runs, Visiting(runCall[c]),
         NEW status \in {"SENT", "FAILED"},
         send' = [send EXCEPT ![runCall[c].at] = status],
         C!Onward(c, runCall[c].sent + (IF status = "SENT" THEN 1 ELSE 0),
                     runCall[c].failed + (IF status = "SENT" THEN 0 ELSE 1)),
         status = "FAILED" => runCall[c].step = "refused",
         UNCHANGED <<campaign, mailed, unmarked, overlapped, rearmed, runFailures>>
  PROVE  MailsInv'
<1> DEFINE slot   == runCall[c]
           at     == slot.at
           sent   == slot.sent + (IF status = "SENT" THEN 1 ELSE 0)
           failed == slot.failed + (IF status = "SENT" THEN 0 ELSE 1)
<1>1. /\ at \in Recipients /\ Going(slot) /\ at \notin Behind(slot)
      /\ slot.sent \in Nat /\ slot.failed \in Nat /\ Placed(slot)
  BY NotBehind, SlotsInv
<1>2. /\ send \in [Recipients -> {"none", "PENDING", "SENT", "FAILED"}]
      /\ mailed \in [Recipients -> 0 .. 2] /\ DOMAIN runCall = Runs
  BY DEF MailsInv, C!TypeOK
<1>3. /\ send' \in [Recipients -> {"none", "PENDING", "SENT", "FAILED"}]
      /\ send'[at] = status /\ \A r \in Recipients \ {at} : send'[r] = send[r]
  BY <1>1, <1>2
<1>4. PICK n : /\ SlotOK(n) /\ Placed(n)
               /\ n.step \in {"row", "batch", "finish"}
               /\ n.sent = sent /\ n.failed = failed
               /\ Behind(n) = Behind(slot) \cup {at}
               /\ runCall' = [runCall EXCEPT ![c] = n]
  <2>1. sent \in Nat /\ failed \in Nat /\ sent + failed <= slot.sent + slot.failed + 1
    BY <1>1
  <2>2. runCall' = [runCall EXCEPT ![c] = Onwards(slot, sent, failed)]
    BY DEF C!Onward, C!Set, Onwards
  <2>3. SlotOK(slot)
    BY SlotsInv
  <2>. HIDE DEF sent, failed
  <2> DEFINE n == Onwards(slot, sent, failed)
  <2>4. /\ SlotOK(n) /\ Placed(n) /\ n.step \in {"row", "batch", "finish"}
        /\ n.sent = sent /\ n.failed = failed
        /\ Behind(n) = Behind(slot) \cup {at}
    BY <1>1, <2>1, <2>3, OnwardGoes
  <2>. QED
    BY <2>2, <2>4
<1>5. runCall'[c] = n /\ \A d \in Runs \ {c} : runCall'[d] = runCall[d]
  BY <1>2, <1>4
<1>6. Going(n)
  BY <1>4 DEF Going
<1>7. ASSUME ~ rearmed
      PROVE  Progress(n)'
  <2>1. Progress(slot)
    BY <1>1, <1>7, RunAlone
  <2>2. send[at] \in {"none", "PENDING"}
    BY <1>1, <2>1 DEF Progress
  <2>3. CASE status = "SENT"
    <3>1. With("SENT")' = With("SENT") \cup {at} /\ With("FAILED")' = With("FAILED")
      BY <1>1, <1>3, <2>2, <2>3 DEF With
    <3>2. at \notin With("SENT") /\ With("SENT") \in SUBSET Recipients
      BY <2>2 DEF With
    <3>3. Cardinality(With("SENT")') = Cardinality(With("SENT")) + 1
      BY <1>1, <3>1, <3>2, SomeRecipients
    <3>4. n.sent = Cardinality(With("SENT")') /\ n.failed = Cardinality(With("FAILED")')
      BY <1>1, <1>4, <2>1, <2>3, <3>1, <3>3 DEF Progress
    <3>. QED
      BY <1>3, <1>4, <2>1, <2>3, <3>4 DEF Progress
  <2>4. CASE status = "FAILED"
    <3>1. With("FAILED")' = With("FAILED") \cup {at} /\ With("SENT")' = With("SENT")
      BY <1>1, <1>3, <2>2, <2>4 DEF With
    <3>2. at \notin With("FAILED") /\ With("FAILED") \in SUBSET Recipients
      BY <2>2 DEF With
    <3>3. Cardinality(With("FAILED")') = Cardinality(With("FAILED")) + 1
      BY <1>1, <3>1, <3>2, SomeRecipients
    <3>4. n.sent = Cardinality(With("SENT")') /\ n.failed = Cardinality(With("FAILED")')
      BY <1>1, <1>4, <2>1, <2>4, <3>1, <3>3 DEF Progress
    <3>. QED
      BY <1>3, <1>4, <2>1, <2>4, <3>4 DEF Progress
  <2>. QED
    BY <2>3, <2>4
<1>8. ASSUME ~ overlapped, NEW r \in Recipients \ unmarked
      PROVE  Shown(r)'
  <2>1. Shown(r)
    BY <1>8 DEF MailsInv
  <2>2. \A d \in Runs \ {c} : ~ Going(runCall[d])
    BY <1>1, <1>8, RunAlone
  <2>3. \A d \in Runs : runCall'[d].step \notin {"mail", "refused"}
    BY <1>4, <1>5, <2>2 DEF Going
  <2>4. CASE r = at
    <3>1. status = "FAILED" => mailed[r] = 0
      BY <2>1, <2>4 DEF Shown
    <3>. QED
      BY <1>3, <2>1, <2>3, <2>4, <3>1 DEF Shown
  <2>5. CASE r # at
    <3>1. \A d \in Runs : runCall[d].step = "sent" => runCall[d].at # r
      BY <2>2, <2>5 DEF Going
    <3>. QED
      BY <1>3, <2>1, <2>3, <2>5, <3>1 DEF Shown
  <2>. QED
    BY <2>4, <2>5
<1>. QED
  BY <1>1, <1>2, <1>3, <1>4, <1>6, <1>7, <1>8, RunWrites

LEMMA MarkSentKeeps ==
  ASSUME MailsInv, NEW c \in Runs, C!MarkSent(c)
  PROVE  MailsInv'
<1>1. /\ runCall[c].step = "sent" /\ send' = [send EXCEPT ![runCall[c].at] = "SENT"]
      /\ C!Onward(c, runCall[c].sent + 1, runCall[c].failed)
      /\ UNCHANGED <<campaign, mailed, unmarked, overlapped, rearmed, runFailures>>
  BY DEF C!MarkSent, C!ghosts
<1>2. Visiting(runCall[c])
  BY <1>1 DEF Visiting
<1>3. runCall[c].failed + 0 = runCall[c].failed
  BY <1>2, NotBehind
<1>. QED
  BY <1>1, <1>2, <1>3, Marks

LEMMA MarkFailedKeeps ==
  ASSUME MailsInv, NEW c \in Runs, C!MarkFailed(c)
  PROVE  MailsInv'
<1>1. /\ runCall[c].step = "refused" /\ send' = [send EXCEPT ![runCall[c].at] = "FAILED"]
      /\ C!Onward(c, runCall[c].sent, runCall[c].failed + 1)
      /\ UNCHANGED <<campaign, mailed, unmarked, overlapped, rearmed, runFailures>>
  BY DEF C!MarkFailed, C!ghosts
<1>2. Visiting(runCall[c])
  BY <1>1 DEF Visiting
<1>3. runCall[c].sent + 0 = runCall[c].sent
  BY <1>2, NotBehind
<1>. QED
  BY <1>1, <1>2, <1>3, Marks

-----------------------------------------------------------------------------
(* Every campaign: it begins with the invariant and every step keeps it.   *)
LEMMA MailsBegin == C!Init => MailsInv
<1>. SUFFICES ASSUME C!Init PROVE MailsInv
  OBVIOUS
<1>1. /\ campaign.status \in {"DRAFT", "SCHEDULED"}
      /\ campaign.sentCount = 0 /\ campaign.failedCount = 0
      /\ campaign \in [status : C!CampaignStatuses, sentCount : Nat, failedCount : Nat]
  BY DEF C!Init, C!CampaignStatuses
<1>2. /\ send = [r \in Recipients |-> "none"] /\ mailed = [r \in Recipients |-> 0]
      /\ unmarked = {} /\ overlapped = FALSE /\ rearmed = FALSE
      /\ runCall = [c \in Runs |-> C!Idle] /\ runFailures = 0
  BY DEF C!Init
<1>3. C!TypeOK
  <2>1. runCall \in [Runs -> C!Slots \cup {C!Idle}]
    BY <1>2
  <2>2. runFailures \in 0 .. MaxFailures
    BY <1>2, CampaignAssumption
  <2>3. mailed \in [Recipients -> 0 .. 2]
    BY <1>2
  <2>. QED
    BY <1>1, <1>2, <2>1, <2>2, <2>3 DEF C!TypeOK
<1>4. \A c \in Runs : runCall[c].step = "idle" /\ ~ C!Running(c) /\ Placed(runCall[c])
  BY <1>2 DEF C!Idle, C!Running, Placed, Visiting, Going
<1>5. RunsExclude
  BY <1>2, <1>4 DEF RunsExclude
<1>6. \A r \in Recipients : Shown(r)
  BY <1>2, <1>4 DEF Shown
<1>7. Progresses
  BY <1>1, <1>2, <1>4 DEF Progresses, Untouched
<1>8. C!FinishedIsComplete
  BY <1>1 DEF C!FinishedIsComplete
<1>. QED
  BY <1>3, <1>4, <1>5, <1>6, <1>7, <1>8 DEF MailsInv

LEMMA MailsGo == MailsInv /\ [C!Next]_C!vars => MailsInv'
<1>. SUFFICES ASSUME MailsInv, [C!Next]_C!vars PROVE MailsInv'
  OBVIOUS
<1>1. CASE UNCHANGED C!vars
  <2>1. UNCHANGED <<campaign, send, mailed, unmarked, overlapped, rearmed, runCall, runFailures>>
    BY <1>1 DEF C!vars, C!ghosts
  <2>2. C!TypeOK' /\ (C!FinishedIsComplete)'
    BY <2>1 DEF MailsInv, C!TypeOK, C!FinishedIsComplete, C!Done
  <2>3. RunsExclude'
    BY <2>1 DEF MailsInv, RunsExclude, C!Running
  <2>4. /\ \A c \in Runs : Placed(runCall[c])'
        /\ (~ overlapped => \A r \in Recipients \ unmarked : Shown(r))'
    BY <2>1 DEF MailsInv, Shown
  <2>5. \A c \in Runs : Progress(runCall[c])' <=> Progress(runCall[c])
    BY <2>1 DEF Progress, With
  <2>6. Progresses'
    BY <2>1, <2>5 DEF MailsInv, Progresses, C!Running, Untouched
  <2>. QED
    BY <2>2, <2>3, <2>4, <2>6 DEF MailsInv
<1>2. ASSUME NEW c \in Runs, C!Run(c)
      PROVE  MailsInv'
  BY <1>2, UnreadableKeeps, ReadBatchKeeps, SendRowKeeps, MailKeeps, MailFailsKeeps, MarkSentKeeps,
     MarkSentFailsKeeps, MarkFailedKeeps, FinishRunKeeps, GoneKeeps DEF C!Run
<1>3. ASSUME NEW c \in Runs, C!sendCampaignNow(c) \/ C!processDueCampaigns(c)
      PROVE  MailsInv'
  <2>1. {"DRAFT", "SCHEDULED"} \in SUBSET {"DRAFT", "SCHEDULED"}
        /\ {"SCHEDULED"} \in SUBSET {"DRAFT", "SCHEDULED"}
    OBVIOUS
  <2>. QED
    BY <1>3, <2>1, ClaimKeeps DEF C!sendCampaignNow, C!processDueCampaigns
<1>. QED
  BY <1>1, <1>2, <1>3, EditReadKeeps, EditWriteKeeps, StopsKeeps DEF C!Next

LEMMA MailsOf == SendingSpec => C!Init /\ [][C!Next]_C!vars
<1>1. SendingInit => C!Init
  BY DEF SendingInit
<1>2. [SendingNext]_focusVars => [C!Next]_C!vars
  BY DEF SendingNext, focusVars, campaignVars, C!vars, C!ghosts
<1>. QED
  BY <1>1, <1>2, PTL DEF SendingSpec

(* A campaign mails every recipient once, whatever edits, claims and cron  *)
(* ticks interleave and wherever a run stops, except after an edit that    *)
(* reopened it under a run or a mail that was not marked; and once it is   *)
(* finished its counts are those of the rows, in however many batches.     *)
THEOREM EveryRecipientOnce == SendingSpec => []OneMailEach
<1>1. MailsInv => OneMailEach
  BY DEF MailsInv, RunsExclude, Shown, OneMailEach, C!OneMailEach, C!ClaimIsLock,
     C!MailedOnce
<1>2. MailsInv /\ [C!Next]_C!vars => MailsInv'
  BY MailsGo
<1>. QED
  BY <1>1, <1>2, MailsBegin, MailsOf, PTL
=============================================================================
