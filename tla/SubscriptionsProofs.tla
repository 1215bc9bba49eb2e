------------------------- MODULE SubscriptionsProofs -------------------------
(***************************************************************************)
(* Proofs about Subscriptions, for any plans, codes, requests, deliveries  *)
(* and failures.                                                           *)
(***************************************************************************)
EXTENDS Subscriptions, TLAPS

Reported(k, s)   == \E e \in events : e.k = k /\ e.sub.status = s
StatusTold(k, s) == \E e \in events : e.k = k /\ toUpperCase[e.sub.status] = s
Exists(k)        == stripeSub[k].status # "absent"

(* Events are about subscriptions Stripe has, and a deletion is final.     *)
StripeTellsTheTruth ==
  /\ \A k \in Keys : Exists(k) => firstReply[k] # "absent"
  /\ \A k \in Keys : firstReply[k] # "absent" => Reported(k, firstReply[k])
  /\ \A e \in events :
       /\ Exists(e.k)
       /\ e.deleted <=> e.sub.status = "canceled"
       /\ e.deleted => ~ IsLive(e.k)

RowsExist == \A k \in Keys : HasRow(k) => Exists(k)

(* What a request relies on at the step that comes next.                   *)
ReqKnows(r) ==
  LET k == req[r].k IN
  /\ req[r].at \in {"subscribe.tx", "subscribe.undo"} =>
       req[r].reply \in Live /\ Reported(k, req[r].reply)
  /\ req[r].at \in {"cancel.stripe", "cancel.row", "admin.stripe", "admin.row"} =>
       HasRow(k)
  /\ req[r].at \in {"admin.stripe", "admin.row"} =>
       req[r].seen # "CANCELED" /\ StatusTold(k, req[r].seen)
  /\ req[r].at = "admin.row" /\ req[r].immediate /\ failures = 0 => ~ IsLive(k)

HookKnows(h) == hook[h].at \in {"hook.apply", "hook.done"} => hook[h].e \in events

Subscribing(r, k) == req[r].at \in {"subscribe.tx", "subscribe.undo"} /\ req[r].k = k

(* A subscription without a row is in the hands of a subscribe that will   *)
(* write the row or compensate.                                            *)
InHands(k) ==
  failures = 0 /\ IsLive(k) /\ ~ HasRow(k) => \E r \in Requests : Subscribing(r, k)

IInv ==
  /\ TypeOK
  /\ StatusCameFromStripe
  /\ CanceledRowIsOver
  /\ StripeTellsTheTruth
  /\ RowsExist
  /\ \A r \in Requests : ReqKnows(r)
  /\ \A h \in Deliveries : HookKnows(h)
  /\ \A k \in Keys : InHands(k)

(* What no step takes back.                                                *)
Kept ==
  /\ events \subseteq events'
  /\ \A k \in Keys : Exists(k) => Exists(k)' /\ (~ IsLive(k) => ~ IsLive(k)')
  /\ \A k \in Keys : HasRow(k) => HasRow(k)'
  /\ failures' = 0 => failures = 0

-----------------------------------------------------------------------------
LEMMA UpperCase ==
  ASSUME NEW s \in StripeStatuses
  PROVE  /\ toUpperCase[s] \in RowStatuses
         /\ toUpperCase[s] = "CANCELED" <=> s = "canceled"
  BY DEF StripeStatuses, Live, toUpperCase, RowStatuses

LEMMA KeyOf ==
  ASSUME TypeOK, NEW r \in Requests, req[r].at # "idle"
  PROVE  req[r] \in Handlers /\ req[r].k \in Keys
<1>1. req[r] \in Handlers
  BY DEF TypeOK, Idle
<1>. QED
  BY <1>1 DEF Handlers

LEMMA SubscribeState ==
  ASSUME TypeOK, NEW r \in Requests, req[r].at \in {"subscribe.tx", "subscribe.undo"}
  PROVE  /\ req[r].k \in Keys /\ req[r].reply \in StripeStatuses
         /\ req[r] = [at |-> req[r].at, k |-> req[r].k, reply |-> req[r].reply]
<1>1. req[r] \in Handlers
  BY DEF TypeOK, Idle
<1>. QED
  BY <1>1 DEF Handlers

LEMMA CancelState ==
  ASSUME TypeOK, NEW r \in Requests, req[r].at \in {"cancel.stripe", "cancel.row"}
  PROVE  req[r].k \in Keys /\ req[r] = [at |-> req[r].at, k |-> req[r].k]
<1>1. req[r] \in Handlers
  BY DEF TypeOK, Idle
<1>. QED
  BY <1>1 DEF Handlers

LEMMA AdminState ==
  ASSUME TypeOK, NEW r \in Requests, req[r].at \in {"admin.stripe", "admin.row"}
  PROVE  /\ req[r].k \in Keys /\ req[r].seen \in RowStatuses
         /\ req[r].immediate \in BOOLEAN
         /\ req[r] = [at |-> req[r].at, k |-> req[r].k, seen |-> req[r].seen,
                      immediate |-> req[r].immediate]
<1>1. req[r] \in Handlers
  BY DEF TypeOK, Idle
<1>. QED
  BY <1>1 DEF Handlers

LEMMA HookState ==
  ASSUME TypeOK, NEW h \in Deliveries, hook[h].at # "idle"
  PROVE  hook[h] \in Hooks /\ hook[h].e \in Events
<1>1. hook[h] \in Hooks
  BY DEF TypeOK, Idle
<1>. QED
  BY <1>1 DEF Hooks

(* Requests and deliveries that do not move still know what they knew.     *)
LEMMA ReqStillKnows ==
  ASSUME IInv, Kept, NEW r \in Requests, req'[r] = req[r]
  PROVE  ReqKnows(r)'
<1>. DEFINE k == req[r].k
<1>1. /\ req[r].at \in {"subscribe.tx", "subscribe.undo"} =>
           req[r].reply \in Live /\ Reported(k, req[r].reply)'
      /\ req[r].at \in {"admin.stripe", "admin.row"} =>
           req[r].seen # "CANCELED" /\ StatusTold(k, req[r].seen)'
  BY DEF IInv, Kept, ReqKnows, Reported, StatusTold
<1>2. CASE req[r].at \in {"cancel.stripe", "cancel.row", "admin.stripe", "admin.row"}
  <2>1. k \in Keys /\ HasRow(k)
    BY <1>2, KeyOf DEF IInv, ReqKnows
  <2>2. Exists(k) /\ HasRow(k)'
    BY <2>1 DEF IInv, RowsExist, Kept
  <2>3. req[r].at = "admin.row" /\ req[r].immediate /\ failures' = 0 => ~ IsLive(k)'
    BY <2>1, <2>2 DEF IInv, ReqKnows, Kept
  <2>. QED
    BY <1>1, <2>2, <2>3 DEF ReqKnows
<1>3. CASE req[r].at \notin {"cancel.stripe", "cancel.row", "admin.stripe", "admin.row"}
  BY <1>1, <1>3 DEF ReqKnows
<1>. QED
  BY <1>2, <1>3

LEMMA HooksStillKnow ==
  ASSUME IInv, Kept, UNCHANGED hook
  PROVE  \A h \in Deliveries : HookKnows(h)'
  BY DEF IInv, Kept, HookKnows

(* Nothing that the rows and Stripe know changes.                          *)
LEMMA SameRows ==
  ASSUME IInv, UNCHANGED <<stripeVars, row>>, failures' = 0 => failures = 0
  PROVE  Kept /\ StatusCameFromStripe' /\ CanceledRowIsOver'
           /\ StripeTellsTheTruth' /\ RowsExist'
<1>1. Kept
  BY DEF Kept, stripeVars, Exists, IsLive, HasRow
<1>2. StatusCameFromStripe' /\ CanceledRowIsOver' /\ RowsExist'
  BY DEF IInv, stripeVars, StatusCameFromStripe, CanceledRowIsOver, RowsExist,
         IsLive, HasRow, Exists
<1>3. StripeTellsTheTruth'
  BY DEF IInv, stripeVars, StripeTellsTheTruth, Reported, Exists, IsLive
<1>. QED
  BY <1>1, <1>2, <1>3

(* A step of a request that writes nothing.                                *)
LEMMA QuietRequest ==
  ASSUME IInv, NEW r \in Requests, NEW slot \in Handlers \cup {Idle},
         req' = [req EXCEPT ![r] = slot],
         UNCHANGED <<stripeVars, row, processed, hook>>,
         failures' \in 0 .. MaxFailures, failures' = 0 => failures = 0,
         ReqKnows(r)',
         \A k \in Keys : Subscribing(r, k) /\ IsLive(k) /\ ~ HasRow(k)
                           => Subscribing(r, k)' \/ failures' # 0
  PROVE  IInv'
<1>1. Kept /\ StatusCameFromStripe' /\ CanceledRowIsOver' /\ StripeTellsTheTruth'
        /\ RowsExist'
  BY SameRows
<1>2. TypeOK'
  BY DEF IInv, TypeOK, stripeVars
<1>3. \A x \in Requests \ {r} : req'[x] = req[x]
  BY DEF IInv, TypeOK
<1>4. \A x \in Requests : ReqKnows(x)'
  BY <1>1, <1>3, ReqStillKnows
<1>5. \A h \in Deliveries : HookKnows(h)'
  BY <1>1, HooksStillKnow
<1>6. ASSUME NEW k \in Keys PROVE InHands(k)'
  <2>1. SUFFICES ASSUME failures' = 0, IsLive(k), ~ HasRow(k)
                 PROVE  \E x \in Requests : Subscribing(x, k)'
    BY DEF InHands, IsLive, HasRow, stripeVars
  <2>2. PICK x \in Requests : Subscribing(x, k)
    BY <2>1 DEF IInv, InHands
  <2>3. CASE x = r
    BY <2>1, <2>2, <2>3
  <2>4. CASE x # r
    BY <2>2, <2>4, <1>3 DEF Subscribing
  <2>. QED
    BY <2>3, <2>4
<1>. QED
  BY <1>1, <1>2, <1>4, <1>5, <1>6 DEF IInv

(* A row is written, by a request or a delivery.                           *)
LEMMA RowWritten ==
  ASSUME IInv, NEW k \in Keys, NEW new \in Rows, Exists(k),
         row' = [row EXCEPT ![k] = new], UNCHANGED <<stripeVars, failures>>,
         new.status \in {"INCOMPLETE", "ACTIVE"} => StatusTold(k, new.status),
         failures = 0 /\ new.status = "CANCELED" => ~ IsLive(k)
  PROVE  /\ row' \in [Keys -> Rows \cup {NoRow}] /\ Kept /\ HasRow(k)'
         /\ \A j \in Keys \ {k} : row'[j] = row[j]
         /\ StatusCameFromStripe' /\ CanceledRowIsOver' /\ StripeTellsTheTruth'
         /\ RowsExist'
<1>1. /\ row' \in [Keys -> Rows \cup {NoRow}] /\ row'[k] = new
      /\ \A j \in Keys \ {k} : row'[j] = row[j]
  BY DEF IInv, TypeOK
<1>2. new # NoRow
  BY DEF Rows, NoRow, RowStatuses
<1>3. Kept
  BY <1>1, <1>2 DEF Kept, stripeVars, Exists, IsLive, HasRow
<1>4. StatusCameFromStripe'
  BY <1>1 DEF IInv, StatusCameFromStripe, StatusTold, stripeVars
<1>5. CanceledRowIsOver' /\ RowsExist'
  BY <1>1 DEF IInv, CanceledRowIsOver, RowsExist, IsLive, Exists, HasRow, stripeVars
<1>6. StripeTellsTheTruth'
  BY DEF IInv, stripeVars, StripeTellsTheTruth, Reported, Exists, IsLive
<1>. QED
  BY <1>1, <1>2, <1>3, <1>4, <1>5, <1>6 DEF HasRow

(* The last step of a request, which writes a row.                         *)
LEMMA RequestWrites ==
  ASSUME IInv, NEW r \in Requests, NEW k \in Keys, k = req[r].k,
         NEW new \in Rows, Exists(k),
         row' = [row EXCEPT ![k] = new], Return(r),
         UNCHANGED <<stripeVars, processed, hook, failures>>,
         new.status \in {"INCOMPLETE", "ACTIVE"} => StatusTold(k, new.status),
         failures = 0 /\ new.status = "CANCELED" => ~ IsLive(k)
  PROVE  IInv'
<1>1. UNCHANGED <<stripeVars, failures>>
  OBVIOUS
<1>2. /\ row' \in [Keys -> Rows \cup {NoRow}] /\ Kept /\ HasRow(k)'
      /\ \A j \in Keys \ {k} : row'[j] = row[j]
      /\ StatusCameFromStripe' /\ CanceledRowIsOver' /\ StripeTellsTheTruth'
      /\ RowsExist'
  BY <1>1, RowWritten
<1>3. TypeOK'
  BY <1>2 DEF IInv, TypeOK, stripeVars, Return
<1>4. req'[r] = Idle /\ \A x \in Requests \ {r} : req'[x] = req[x]
  BY DEF IInv, TypeOK, Return
<1>5. \A x \in Requests : ReqKnows(x)'
  <2>1. ReqKnows(r)'
    BY <1>4 DEF ReqKnows, Idle
  <2>. QED
    BY <1>2, <1>4, <2>1, ReqStillKnows
<1>6. \A h \in Deliveries : HookKnows(h)'
  BY <1>2, HooksStillKnow
<1>7. ASSUME NEW j \in Keys PROVE InHands(j)'
  <2>1. CASE j = k
    BY <1>2, <2>1 DEF InHands
  <2>2. CASE j # k
    <3>1. SUFFICES ASSUME failures = 0, IsLive(j), ~ HasRow(j)
                   PROVE  \E x \in Requests : Subscribing(x, j)'
      BY <1>2, <2>2 DEF InHands, IsLive, HasRow, stripeVars
    <3>2. PICK x \in Requests : Subscribing(x, j)
      BY <3>1 DEF IInv, InHands
    <3>3. x # r
      BY <2>2, <3>2 DEF Subscribing
    <3>. QED
      BY <1>4, <3>2, <3>3 DEF Subscribing
  <2>. QED
    BY <2>1, <2>2
<1>. QED
  BY <1>2, <1>3, <1>5, <1>6, <1>7 DEF IInv

(* Stripe changes a subscription that it has, or creates it.               *)
LEMMA StripeMoves ==
  ASSUME IInv, NEW k \in Keys, NEW new \in Snapshots, Becomes(k, new),
         UNCHANGED <<row, failures>>,
         \/ IsLive(k) /\ UNCHANGED firstReply
         \/ /\ ~ Exists(k) /\ new.status \in Live
            /\ firstReply' = [firstReply EXCEPT ![k] = new.status]
  PROVE  /\ stripeSub' \in [Keys -> [status : StripeStatuses \cup {"absent"},
                                     atPeriodEnd : BOOLEAN]]
         /\ firstReply' \in [Keys -> Live \cup {"absent"}]
         /\ events' \subseteq Events /\ events \subseteq events'
         /\ \A j \in Keys \ {k} : stripeSub'[j] = stripeSub[j]
         /\ stripeSub'[k] = new
         /\ Reported(k, new.status)'
         /\ Kept /\ StatusCameFromStripe' /\ CanceledRowIsOver'
         /\ StripeTellsTheTruth' /\ RowsExist'
<1>. DEFINE event == [k |-> k, deleted |-> new.status = "canceled", sub |-> new]
<1>1. /\ new.status \in StripeStatuses /\ new.atPeriodEnd \in BOOLEAN
      /\ new.status # "absent"
  BY DEF Snapshots, StripeStatuses, Live
<1>2. events' = events \cup {event}
  BY DEF Becomes
<1>3. event \in Events
  BY <1>1 DEF Events
<1>4. events' \subseteq Events /\ events \subseteq events'
  BY <1>2, <1>3 DEF IInv, TypeOK
<1>5. /\ stripeSub' \in [Keys -> [status : StripeStatuses \cup {"absent"},
                                  atPeriodEnd : BOOLEAN]]
      /\ stripeSub'[k] = new
      /\ \A j \in Keys \ {k} : stripeSub'[j] = stripeSub[j]
  BY DEF IInv, TypeOK, Becomes, Snapshots
<1>6. /\ firstReply' \in [Keys -> Live \cup {"absent"}]
      /\ \A j \in Keys \ {k} : firstReply'[j] = firstReply[j]
  BY DEF IInv, TypeOK
<1>7. Reported(k, new.status)'
  <2>1. event \in events' /\ event.k = k /\ event.sub.status = new.status
    BY <1>2
  <2>. QED
    BY <2>1 DEF Reported
<1>8. IsLive(k) => Exists(k)
  BY DEF IsLive, Exists, Live
<1>9. Kept
  BY <1>1, <1>4, <1>5, <1>8 DEF Kept, Exists, IsLive, HasRow
<1>10. StatusCameFromStripe' /\ RowsExist'
  BY <1>4, <1>9 DEF IInv, StatusCameFromStripe, RowsExist, HasRow, Kept
<1>11. CanceledRowIsOver'
  <2>1. \A j \in Keys : row[j].status = "CANCELED" => HasRow(j)
    BY DEF HasRow, NoRow
  <2>. QED
    BY <1>9, <2>1 DEF IInv, CanceledRowIsOver, RowsExist, Kept
<1>12. StripeTellsTheTruth'
  <2>1. ASSUME NEW j \in Keys, Exists(j)'
        PROVE  firstReply'[j] # "absent" 
    BY <1>1, <1>5, <1>6, <1>8, <2>1 DEF IInv, TypeOK, StripeTellsTheTruth, Exists,
                                         Live
  <2>2. ASSUME NEW j \in Keys, firstReply'[j] # "absent"
        PROVE  Reported(j, firstReply[j])'
    <3>1. CASE firstReply'[j] = firstReply[j]
      BY <1>4, <2>2, <3>1 DEF IInv, StripeTellsTheTruth, Reported
    <3>2. CASE firstReply'[j] # firstReply[j]
      <4>1. j = k /\ firstReply'[j] = new.status
        BY <1>6, <3>2 DEF IInv, TypeOK
      <4>. QED
        BY <1>7, <4>1 DEF Reported
    <3>. QED
      BY <3>1, <3>2
  <2>3. ASSUME NEW e \in events'
        PROVE  /\ Exists(e.k)'
               /\ e.deleted <=> e.sub.status = "canceled"
               /\ e.deleted => ~ IsLive(e.k)'
    <3>1. CASE e \in events
      <4>1. e.k \in Keys
        BY <3>1 DEF IInv, TypeOK, Events
      <4>. QED
        BY <1>9, <3>1, <4>1 DEF IInv, StripeTellsTheTruth, Kept
    <3>2. CASE e = event
      BY <1>1, <1>5, <3>2 DEF Exists, IsLive, Live
    <3>. QED
      BY <1>2, <3>1, <3>2
  <2>. QED
    BY <2>1, <2>2, <2>3 DEF StripeTellsTheTruth
<1>. QED
  BY <1>4, <1>5, <1>6, <1>7, <1>9, <1>10, <1>11, <1>12

(* A request changes its subscription at Stripe.                           *)
LEMMA RequestAtStripe ==
  ASSUME IInv, NEW r \in Requests, NEW k \in Keys, k = req[r].k,
         NEW new \in Snapshots, NEW slot \in Handlers \cup {Idle}, Becomes(k, new),
         \/ IsLive(k) /\ UNCHANGED firstReply
         \/ /\ ~ Exists(k) /\ new.status \in Live
            /\ firstReply' = [firstReply EXCEPT ![k] = new.status],
         req' = [req EXCEPT ![r] = slot],
         UNCHANGED <<row, processed, hook, failures>>,
         (Kept /\ stripeSub'[k] = new /\ Reported(k, new.status)') => ReqKnows(r)',
         new.status \in Live => HasRow(k) \/ Subscribing(r, k)'
  PROVE  IInv'
<1>1. UNCHANGED <<row, failures>>
  OBVIOUS
<1>2. /\ stripeSub' \in [Keys -> [status : StripeStatuses \cup {"absent"},
                                  atPeriodEnd : BOOLEAN]]
      /\ firstReply' \in [Keys -> Live \cup {"absent"}]
      /\ events' \subseteq Events /\ events \subseteq events'
      /\ \A j \in Keys \ {k} : stripeSub'[j] = stripeSub[j]
      /\ stripeSub'[k] = new
      /\ Reported(k, new.status)'
      /\ Kept /\ StatusCameFromStripe' /\ CanceledRowIsOver'
      /\ StripeTellsTheTruth' /\ RowsExist'
  BY <1>1, StripeMoves
<1>3. TypeOK'
  BY <1>2 DEF IInv, TypeOK
<1>4. req'[r] = slot /\ \A x \in Requests \ {r} : req'[x] = req[x]
  BY DEF IInv, TypeOK
<1>5. \A x \in Requests : ReqKnows(x)'
  BY <1>2, <1>4, ReqStillKnows
<1>6. \A h \in Deliveries : HookKnows(h)'
  BY <1>2, HooksStillKnow
<1>7. ASSUME NEW j \in Keys PROVE InHands(j)'
  <2>1. CASE j = k
    BY <1>2, <2>1 DEF InHands, IsLive, HasRow
  <2>2. CASE j # k
    <3>1. SUFFICES ASSUME failures = 0, IsLive(j), ~ HasRow(j)
                   PROVE  \E x \in Requests : Subscribing(x, j)'
      BY <1>2, <2>2 DEF InHands, IsLive, HasRow
    <3>2. PICK x \in Requests : Subscribing(x, j)
      BY <3>1 DEF IInv, InHands
    <3>3. x # r
      BY <2>2, <3>2 DEF Subscribing
    <3>. QED
      BY <1>4, <3>2, <3>3 DEF Subscribing
  <2>. QED
    BY <2>1, <2>2
<1>. QED
  BY <1>2, <1>3, <1>5, <1>6, <1>7 DEF IInv

(* Stripe changes a subscription on its own.                               *)
LEMMA StripeAlone ==
  ASSUME IInv, NEW k \in Keys, NEW new \in Snapshots, Becomes(k, new), IsLive(k),
         UNCHANGED <<firstReply, row, processed, req, hook, failures>>
  PROVE  IInv'
<1>1. UNCHANGED <<row, failures>> /\ UNCHANGED firstReply
  OBVIOUS
<1>2. /\ stripeSub' \in [Keys -> [status : StripeStatuses \cup {"absent"},
                                  atPeriodEnd : BOOLEAN]]
      /\ firstReply' \in [Keys -> Live \cup {"absent"}]
      /\ events' \subseteq Events /\ events \subseteq events'
      /\ \A j \in Keys \ {k} : stripeSub'[j] = stripeSub[j]
      /\ Kept /\ StatusCameFromStripe' /\ CanceledRowIsOver'
      /\ StripeTellsTheTruth' /\ RowsExist'
  BY <1>1, StripeMoves
<1>3. TypeOK'
  BY <1>2 DEF IInv, TypeOK
<1>4. \A x \in Requests : ReqKnows(x)'
  BY <1>2, ReqStillKnows
<1>5. \A h \in Deliveries : HookKnows(h)'
  BY <1>2, HooksStillKnow
<1>6. \A j \in Keys : IsLive(j)' => IsLive(j)
  BY <1>2 DEF IsLive
<1>7. \A j \in Keys : InHands(j)'
  BY <1>6 DEF IInv, InHands, HasRow, Subscribing
<1>. QED
  BY <1>2, <1>3, <1>4, <1>5, <1>7 DEF IInv

-----------------------------------------------------------------------------
(* The steps of subscribe.                                                 *)

LEMMA SubscribeStartKeeps ==
  ASSUME IInv, NEW r \in Requests, NEW k \in Keys, SubscribeStart(r, k)
  PROVE  IInv'
<1>. DEFINE slot == [at |-> "subscribe.create", k |-> k]
<1>1. slot \in Handlers \cup {Idle} /\ req' = [req EXCEPT ![r] = slot]
  BY DEF SubscribeStart, Handlers
<1>2. req'[r] = slot
  BY <1>1 DEF IInv, TypeOK
<1>3. ReqKnows(r)'
  BY <1>2 DEF ReqKnows
<1>4. \A j \in Keys : ~ Subscribing(r, j)
  BY DEF SubscribeStart, Subscribing, Idle
<1>5. failures' \in 0 .. MaxFailures
  BY DEF IInv, TypeOK, SubscribeStart
<1>. QED
  BY <1>1, <1>3, <1>4, <1>5, QuietRequest DEF SubscribeStart

LEMMA SubscribeCreateKeeps ==
  ASSUME IInv, NEW r \in Requests, NEW s, SubscribeCreate(r, s)
  PROVE  IInv'
<1>1. PICK k \in Keys : k = req[r].k
  BY KeyOf DEF IInv, SubscribeCreate
<1>. DEFINE new  == [status |-> s, atPeriodEnd |-> FALSE]
            slot == [at |-> "subscribe.tx", k |-> k, reply |-> s]
<1>2. s \in Live /\ new \in Snapshots /\ slot \in Handlers \cup {Idle}
  BY DEF SubscribeCreate, Snapshots, StripeStatuses, Handlers
<1>3. /\ Becomes(k, new) /\ ~ Exists(k)
      /\ firstReply' = [firstReply EXCEPT ![k] = new.status]
      /\ req' = [req EXCEPT ![r] = slot]
      /\ UNCHANGED <<row, processed, hook, failures>>
  BY <1>1 DEF SubscribeCreate, Answered, Exists
<1>4. req'[r] = slot
  BY <1>3 DEF IInv, TypeOK
<1>5. Reported(k, new.status)' => ReqKnows(r)'
  BY <1>2, <1>4 DEF ReqKnows, Reported
<1>6. Subscribing(r, k)'
  BY <1>4 DEF Subscribing
<1>7. new.status \in Live
  BY <1>2
<1>. HIDE DEF new, slot
<1>. QED
  BY <1>1, <1>2, <1>3, <1>5, <1>6, <1>7, RequestAtStripe

LEMMA SubscribeReplayKeeps ==
  ASSUME IInv, NEW r \in Requests, SubscribeReplay(r)
  PROVE  IInv'
<1>1. PICK k \in Keys : k = req[r].k
  BY KeyOf DEF IInv, SubscribeReplay
<1>2. PICK s \in Live : s = firstReply[k] /\ Reported(k, s)
  BY <1>1 DEF IInv, TypeOK, StripeTellsTheTruth, Exists, SubscribeReplay
<1>. DEFINE slot == [at |-> "subscribe.tx", k |-> k, reply |-> s]
<1>3. slot \in Handlers \cup {Idle} /\ req' = [req EXCEPT ![r] = slot]
  BY <1>1, <1>2 DEF SubscribeReplay, Answered, Handlers, StripeStatuses
<1>4. req'[r] = slot
  BY <1>3 DEF IInv, TypeOK
<1>5. ReqKnows(r)'
  BY <1>2, <1>4 DEF ReqKnows, Reported, SubscribeReplay, stripeVars
<1>6. \A j \in Keys : ~ Subscribing(r, j)
  BY DEF SubscribeReplay, Subscribing
<1>7. failures' \in 0 .. MaxFailures
  BY DEF IInv, TypeOK, SubscribeReplay
<1>. QED
  BY <1>3, <1>5, <1>6, <1>7, QuietRequest DEF SubscribeReplay

LEMMA SubscribeTxKeeps ==
  ASSUME IInv, NEW r \in Requests, SubscribeTx(r)
  PROVE  IInv'
<1>1. PICK k \in Keys : k = req[r].k
  BY KeyOf DEF IInv, SubscribeTx
<1>2. PICK s \in Live : s = req[r].reply /\ Reported(k, s)
  BY <1>1 DEF IInv, ReqKnows, SubscribeTx
<1>. DEFINE new == [status |-> toUpperCase[s], cancelAtPeriodEnd |-> FALSE]
<1>3. new \in Rows /\ new.status # "CANCELED"
  BY <1>2, UpperCase DEF Rows, StripeStatuses, Live
<1>4. Exists(k)
  BY <1>2 DEF IInv, StripeTellsTheTruth, Reported
<1>5. StatusTold(k, new.status)
  BY <1>2 DEF Reported, StatusTold
<1>6. /\ row' = [row EXCEPT ![k] = new] /\ Return(r)
      /\ UNCHANGED <<stripeVars, processed, hook, failures>>
  BY <1>1, <1>2 DEF SubscribeTx
<1>. HIDE DEF new
<1>. QED
  BY <1>1, <1>3, <1>4, <1>5, <1>6, RequestWrites

(* The two steps that go to the compensation.                              *)
LEMMA ToCompensationKeeps ==
  ASSUME IInv, NEW r \in Requests, SubscribeConflict(r) \/ SubscribeCouponRefused(r)
  PROVE  IInv'
<1>1. req[r].at = "subscribe.tx"
  BY DEF SubscribeConflict, SubscribeCouponRefused
<1>2. /\ req[r].k \in Keys /\ req[r].reply \in StripeStatuses
      /\ req[r] = [at |-> req[r].at, k |-> req[r].k, reply |-> req[r].reply]
  BY <1>1, SubscribeState DEF IInv
<1>3. PICK slot : slot = [at |-> "subscribe.undo", k |-> req[r].k, reply |-> req[r].reply]
  OBVIOUS
<1>4. slot \in Handlers \cup {Idle}
  BY <1>2, <1>3 DEF Handlers
<1>5. req' = [req EXCEPT ![r] = slot]
  BY <1>2, <1>3 DEF SubscribeConflict, SubscribeCouponRefused, Goto
<1>6. req'[r] = slot
  BY <1>5 DEF IInv, TypeOK
<1>7. UNCHANGED <<stripeVars, row, processed, hook>> /\ UNCHANGED failures
  BY DEF SubscribeConflict, SubscribeCouponRefused
<1>8. ReqKnows(r)'
  BY <1>1, <1>3, <1>6, <1>7 DEF IInv, ReqKnows, Reported, stripeVars
<1>9. \A j \in Keys : Subscribing(r, j) => Subscribing(r, j)'
  BY <1>3, <1>6 DEF Subscribing
<1>10. failures' \in 0 .. MaxFailures
  BY <1>7 DEF IInv, TypeOK
<1>. QED
  BY <1>4, <1>5, <1>7, <1>8, <1>9, <1>10, QuietRequest

(* A request that ends and writes nothing: what it held must not bill.     *)
LEMMA ReturnKeeps ==
  ASSUME IInv, NEW r \in Requests, Return(r),
         UNCHANGED <<stripeVars, row, processed, hook>>,
         failures' \in 0 .. MaxFailures, failures' = 0 => failures = 0,
         \A k \in Keys : Subscribing(r, k) /\ IsLive(k) => failures' # 0
  PROVE  IInv'
<1>1. req' = [req EXCEPT ![r] = Idle] /\ Idle \in Handlers \cup {Idle}
  BY DEF Return
<1>2. req'[r] = Idle
  BY <1>1 DEF IInv, TypeOK
<1>3. ReqKnows(r)'
  BY <1>2 DEF ReqKnows, Idle
<1>. QED
  BY <1>1, <1>3, QuietRequest

LEMMA SubscribeUndoKeeps ==
  ASSUME IInv, NEW r \in Requests, SubscribeUndo(r)
  PROVE  IInv'
<1>1. PICK k \in Keys : k = req[r].k
  BY KeyOf DEF IInv, SubscribeUndo
<1>2. CASE IsLive(k)
  <2>. DEFINE new == CanceledNow(k)
  <2>1. new \in Snapshots /\ new.status = "canceled"
    BY <1>2 DEF IInv, TypeOK, CanceledNow, Snapshots, IsLive, Live, StripeStatuses
  <2>2. Becomes(k, new) /\ UNCHANGED firstReply
    BY <1>1, <1>2 DEF SubscribeUndo
  <2>3. req' = [req EXCEPT ![r] = Idle] /\ Idle \in Handlers \cup {Idle}
    BY DEF SubscribeUndo, Return
  <2>4. ReqKnows(r)'
    BY <2>3 DEF IInv, TypeOK, ReqKnows, Idle
  <2>5. UNCHANGED <<row, processed, hook, failures>>
    BY DEF SubscribeUndo
  <2>6. new.status \notin Live
    BY <2>1 DEF Live
  <2>. HIDE DEF new
  <2>. QED
    BY <1>1, <1>2, <2>1, <2>2, <2>3, <2>4, <2>5, <2>6, RequestAtStripe
<1>3. CASE ~ IsLive(k)
  <2>1. UNCHANGED <<stripeVars, row, processed, hook>> /\ UNCHANGED failures
    BY <1>1, <1>3 DEF SubscribeUndo, stripeVars
  <2>2. \A j \in Keys : Subscribing(r, j) => ~ IsLive(j)
    BY <1>1, <1>3 DEF Subscribing
  <2>3. Return(r) /\ failures' \in 0 .. MaxFailures
    BY <2>1 DEF SubscribeUndo, IInv, TypeOK
  <2>. QED
    BY <2>1, <2>2, <2>3, ReturnKeeps
<1>. QED
  BY <1>2, <1>3

LEMMA RequestFailsKeeps ==
  ASSUME IInv, NEW r \in Requests, RequestFails(r)
  PROVE  IInv'
<1>1. failures' \in 0 .. MaxFailures /\ failures' # 0
  BY SubscriptionAssumption DEF IInv, TypeOK, RequestFails, OneMoreFailure
<1>. QED
  BY <1>1, ReturnKeeps DEF RequestFails

-----------------------------------------------------------------------------
(* The steps of the two cancellations.                                     *)

LEMMA CancelStartKeeps ==
  ASSUME IInv, NEW r \in Requests, NEW k \in Keys, CancelStart(r, k)
  PROVE  IInv'
<1>. DEFINE slot == [at |-> "cancel.stripe", k |-> k]
<1>1. slot \in Handlers \cup {Idle} /\ req' = [req EXCEPT ![r] = slot]
  BY DEF CancelStart, Handlers
<1>2. req'[r] = slot
  BY <1>1 DEF IInv, TypeOK
<1>3. ReqKnows(r)'
  BY <1>2 DEF ReqKnows, CancelStart, HasRow
<1>4. \A j \in Keys : ~ Subscribing(r, j)
  BY DEF CancelStart, Subscribing, Idle
<1>5. failures' \in 0 .. MaxFailures
  BY DEF IInv, TypeOK, CancelStart
<1>. QED
  BY <1>1, <1>3, <1>4, <1>5, QuietRequest DEF CancelStart

LEMMA CancelStripeKeeps ==
  ASSUME IInv, NEW r \in Requests, CancelStripe(r)
  PROVE  IInv'
<1>1. PICK k \in Keys : k = req[r].k
  BY KeyOf DEF IInv, CancelStripe
<1>. DEFINE new  == CanceledSoon(k)
            slot == [at |-> "cancel.row", k |-> k]
<1>2. req[r].at = "cancel.stripe" /\ slot = [req[r] EXCEPT !.at = "cancel.row"]
  <2>1. req[r] = [at |-> "cancel.stripe", k |-> k]
    BY <1>1, CancelState DEF IInv, CancelStripe
  <2>. QED
    BY <2>1
<1>3. new \in Snapshots /\ slot \in Handlers \cup {Idle}
  BY <1>1 DEF IInv, TypeOK, CanceledSoon, Snapshots, CancelStripe, IsLive, Live,
              StripeStatuses, Handlers
<1>4. /\ Becomes(k, new) /\ IsLive(k) /\ UNCHANGED firstReply
      /\ req' = [req EXCEPT ![r] = slot]
      /\ UNCHANGED <<row, processed, hook, failures>>
  BY <1>1, <1>2 DEF CancelStripe, Goto
<1>5. req'[r] = slot
  BY <1>4 DEF IInv, TypeOK
<1>6. HasRow(k)
  BY <1>1, <1>2 DEF IInv, ReqKnows
<1>7. ReqKnows(r)'
  BY <1>4, <1>5, <1>6 DEF ReqKnows, HasRow
<1>. HIDE DEF new, slot
<1>. QED
  BY <1>1, <1>3, <1>4, <1>6, <1>7, RequestAtStripe

LEMMA CancelRefusedKeeps ==
  ASSUME IInv, NEW r \in Requests, CancelRefused(r)
  PROVE  IInv'
<1>1. failures' \in 0 .. MaxFailures
  BY DEF IInv, TypeOK, CancelRefused
<1>2. \A k \in Keys : ~ Subscribing(r, k)
  BY DEF CancelRefused, Subscribing
<1>. QED
  BY <1>1, <1>2, ReturnKeeps DEF CancelRefused

LEMMA CancelRowKeeps ==
  ASSUME IInv, NEW r \in Requests, CancelRow(r)
  PROVE  IInv'
<1>1. PICK k \in Keys : k = req[r].k
  BY KeyOf DEF IInv, CancelRow
<1>2. HasRow(k) /\ Exists(k)
  BY <1>1 DEF IInv, ReqKnows, RowsExist, CancelRow
<1>. DEFINE new == [row[k] EXCEPT !.cancelAtPeriodEnd = TRUE]
<1>3. new \in Rows /\ new.status = row[k].status
  BY <1>2 DEF IInv, TypeOK, Rows, HasRow
<1>4. /\ row' = [row EXCEPT ![k] = new] /\ Return(r)
      /\ UNCHANGED <<stripeVars, processed, hook, failures>>
  BY <1>1 DEF IInv, TypeOK, CancelRow
<1>5. new.status \in {"INCOMPLETE", "ACTIVE"} => StatusTold(k, new.status)
  BY <1>3 DEF IInv, StatusCameFromStripe, StatusTold
<1>6. failures = 0 /\ new.status = "CANCELED" => ~ IsLive(k)
  BY <1>3 DEF IInv, CanceledRowIsOver
<1>. HIDE DEF new
<1>. QED
  BY <1>1, <1>2, <1>3, <1>4, <1>5, <1>6, RequestWrites

LEMMA AdminCancelStartKeeps ==
  ASSUME IInv, NEW r \in Requests, NEW k \in Keys, NEW immediate \in BOOLEAN,
         AdminCancelStart(r, k, immediate)
  PROVE  IInv'
<1>1. PICK s \in RowStatuses : s = row[k].status /\ s # "CANCELED"
  BY DEF IInv, TypeOK, AdminCancelStart, HasRow, Rows
<1>. DEFINE slot == [at |-> "admin.stripe", k |-> k, seen |-> s,
                     immediate |-> immediate]
<1>2. slot \in Handlers \cup {Idle} /\ req' = [req EXCEPT ![r] = slot]
  BY <1>1 DEF AdminCancelStart, Handlers
<1>3. req'[r] = slot
  BY <1>2 DEF IInv, TypeOK
<1>4. HasRow(k)' /\ StatusTold(k, s)'
  BY <1>1 DEF IInv, StatusCameFromStripe, StatusTold, AdminCancelStart, HasRow,
              stripeVars, RowStatuses
<1>5. ReqKnows(r)'
  BY <1>1, <1>3, <1>4 DEF ReqKnows, HasRow, StatusTold
<1>6. \A j \in Keys : ~ Subscribing(r, j)
  BY DEF AdminCancelStart, Subscribing, Idle
<1>7. failures' \in 0 .. MaxFailures
  BY DEF IInv, TypeOK, AdminCancelStart
<1>. QED
  BY <1>2, <1>5, <1>6, <1>7, QuietRequest DEF AdminCancelStart

LEMMA AdminCancelStripeKeeps ==
  ASSUME IInv, NEW r \in Requests, AdminCancelStripe(r)
  PROVE  IInv'
<1>1. PICK k \in Keys : k = req[r].k
  BY KeyOf DEF IInv, AdminCancelStripe
<1>2. PICK s \in RowStatuses, i \in BOOLEAN :
        /\ req[r].at = "admin.stripe" /\ req[r].seen = s /\ req[r].immediate = i
        /\ [at |-> "admin.row", k |-> k, seen |-> s, immediate |-> i]
             = [req[r] EXCEPT !.at = "admin.row"]
  <2>1. PICK s \in RowStatuses, i \in BOOLEAN :
          /\ req[r].at = "admin.stripe" /\ req[r].seen = s /\ req[r].immediate = i
          /\ req[r] = [at |-> "admin.stripe", k |-> k, seen |-> s, immediate |-> i]
    BY <1>1, AdminState DEF IInv, AdminCancelStripe
  <2>2. [at |-> "admin.row", k |-> k, seen |-> s, immediate |-> i]
          = [req[r] EXCEPT !.at = "admin.row"]
    BY <2>1
  <2>. QED
    BY <2>1, <2>2
<1>3. PICK new : new = IF i THEN CanceledNow(k) ELSE CanceledSoon(k)
  OBVIOUS
<1>. DEFINE slot == [at |-> "admin.row", k |-> k, seen |-> s, immediate |-> i]
<1>4. new \in Snapshots /\ (i => new.status = "canceled")
  BY <1>1, <1>3 DEF IInv, TypeOK, CanceledNow, CanceledSoon, Snapshots,
                    AdminCancelStripe, IsLive, Live, StripeStatuses
<1>5. slot \in Handlers \cup {Idle}
  BY DEF Handlers
<1>6. /\ Becomes(k, new) /\ IsLive(k) /\ UNCHANGED firstReply
      /\ req' = [req EXCEPT ![r] = slot]
      /\ UNCHANGED <<row, processed, hook, failures>>
  BY <1>1, <1>2, <1>3 DEF AdminCancelStripe, Goto
<1>7. req'[r] = slot
  BY <1>6 DEF IInv, TypeOK
<1>8. HasRow(k) /\ s # "CANCELED" /\ StatusTold(k, s)
  BY <1>1, <1>2 DEF IInv, ReqKnows
<1>9. ASSUME Kept, stripeSub'[k] = new PROVE ReqKnows(r)'
  <2>1. HasRow(k)' /\ StatusTold(k, s)'
    BY <1>8, <1>9 DEF Kept, StatusTold
  <2>2. i => ~ IsLive(k)'
    BY <1>4, <1>9 DEF IsLive, Live
  <2>. QED
    BY <1>7, <1>8, <2>1, <2>2 DEF ReqKnows, HasRow, StatusTold, IsLive
<1>. HIDE DEF slot
<1>. QED
  BY <1>1, <1>4, <1>5, <1>6, <1>8, <1>9, RequestAtStripe

LEMMA AdminCancelSwallowedKeeps ==
  ASSUME IInv, NEW r \in Requests, AdminCancelSwallowed(r)
  PROVE  IInv'
<1>1. PICK k \in Keys : k = req[r].k
  BY KeyOf DEF IInv, AdminCancelSwallowed
<1>2. PICK s \in RowStatuses, i \in BOOLEAN :
        /\ req[r].at = "admin.stripe" /\ req[r].seen = s /\ req[r].immediate = i
        /\ [at |-> "admin.row", k |-> k, seen |-> s, immediate |-> i]
             = [req[r] EXCEPT !.at = "admin.row"]
  <2>1. PICK s \in RowStatuses, i \in BOOLEAN :
          /\ req[r].at = "admin.stripe" /\ req[r].seen = s /\ req[r].immediate = i
          /\ req[r] = [at |-> "admin.stripe", k |-> k, seen |-> s, immediate |-> i]
    BY <1>1, AdminState DEF IInv, AdminCancelSwallowed
  <2>2. [at |-> "admin.row", k |-> k, seen |-> s, immediate |-> i]
          = [req[r] EXCEPT !.at = "admin.row"]
    BY <2>1
  <2>. QED
    BY <2>1, <2>2
<1>. DEFINE slot == [at |-> "admin.row", k |-> k, seen |-> s, immediate |-> i]
<1>3. slot \in Handlers \cup {Idle} /\ req' = [req EXCEPT ![r] = slot]
  BY <1>2 DEF AdminCancelSwallowed, Goto, Handlers
<1>4. req'[r] = slot
  BY <1>3 DEF IInv, TypeOK
<1>5. /\ failures' \in 0 .. MaxFailures
      /\ failures' = 0 => failures = 0 /\ ~ IsLive(k)
  BY <1>1, SubscriptionAssumption DEF IInv, TypeOK, AdminCancelSwallowed,
                                      OneMoreFailure
<1>6. HasRow(k) /\ s # "CANCELED" /\ StatusTold(k, s)
  BY <1>1, <1>2 DEF IInv, ReqKnows
<1>7. UNCHANGED <<stripeVars, row, processed, hook>>
  BY DEF AdminCancelSwallowed
<1>8. ReqKnows(r)'
  BY <1>4, <1>5, <1>6, <1>7 DEF ReqKnows, HasRow, StatusTold, IsLive, stripeVars
<1>9. \A j \in Keys : ~ Subscribing(r, j)
  BY <1>2 DEF Subscribing
<1>. QED
  BY <1>3, <1>5, <1>7, <1>8, <1>9, QuietRequest

LEMMA AdminCancelRowKeeps ==
  ASSUME IInv, NEW r \in Requests, AdminCancelRow(r)
  PROVE  IInv'
<1>1. PICK k \in Keys : k = req[r].k
  BY KeyOf DEF IInv, AdminCancelRow
<1>2. PICK s \in RowStatuses, i \in BOOLEAN :
        req[r].at = "admin.row" /\ req[r].seen = s /\ req[r].immediate = i
  BY <1>1, AdminState DEF IInv, AdminCancelRow
<1>3. HasRow(k) /\ s # "CANCELED" /\ StatusTold(k, s)
      /\ (i /\ failures = 0 => ~ IsLive(k))
  BY <1>1, <1>2 DEF IInv, ReqKnows
<1>4. Exists(k)
  BY <1>3 DEF IInv, RowsExist
<1>. DEFINE new == [status |-> IF i THEN "CANCELED" ELSE s,
                    cancelAtPeriodEnd |-> ~ i]
<1>5. new \in Rows
  BY DEF Rows, RowStatuses
<1>6. /\ row' = [row EXCEPT ![k] = new] /\ Return(r)
      /\ UNCHANGED <<stripeVars, processed, hook, failures>>
  BY <1>1, <1>2 DEF AdminCancelRow
<1>7. new.status \in {"INCOMPLETE", "ACTIVE"} => StatusTold(k, new.status)
  BY <1>3
<1>8. failures = 0 /\ new.status = "CANCELED" => ~ IsLive(k)
  BY <1>3
<1>. HIDE DEF new
<1>. QED
  BY <1>1, <1>4, <1>5, <1>6, <1>7, <1>8, RequestWrites

-----------------------------------------------------------------------------
(* The steps of Stripe and of the webhook.                                 *)

LEMMA StripeStepKeeps ==
  ASSUME IInv, NEW k \in Keys, FirstPayment(k) \/ SubscriptionEnds(k)
  PROVE  IInv'
<1>1. IsLive(k)
  BY DEF FirstPayment, SubscriptionEnds, IsLive, Live
<1>2. PICK new \in Snapshots : Becomes(k, new)
  BY <1>1 DEF IInv, TypeOK, FirstPayment, SubscriptionEnds, CanceledNow, Snapshots,
              IsLive, Live, StripeStatuses
<1>. QED
  BY <1>1, <1>2, StripeAlone DEF FirstPayment, SubscriptionEnds

(* A delivery that writes no row.                                          *)
LEMMA QuietHook ==
  ASSUME IInv, NEW h \in Deliveries, NEW slot \in Hooks \cup {Idle},
         hook' = [hook EXCEPT ![h] = slot], HookKnows(h)',
         UNCHANGED <<stripeVars, row, req, failures>>, processed' \subseteq events
  PROVE  IInv'
<1>1. UNCHANGED <<stripeVars, row>> /\ (failures' = 0 => failures = 0)
  OBVIOUS
<1>2. Kept /\ StatusCameFromStripe' /\ CanceledRowIsOver' /\ StripeTellsTheTruth'
        /\ RowsExist'
  BY <1>1, SameRows
<1>3. TypeOK'
  BY DEF IInv, TypeOK, stripeVars
<1>4. \A x \in Requests : ReqKnows(x)'
  BY <1>2, ReqStillKnows
<1>5. \A x \in Deliveries : HookKnows(x)'
  BY DEF IInv, TypeOK, HookKnows, stripeVars
<1>6. \A j \in Keys : InHands(j)'
  BY DEF IInv, InHands, IsLive, HasRow, Subscribing, stripeVars
<1>. QED
  BY <1>2, <1>3, <1>4, <1>5, <1>6 DEF IInv

LEMMA HookStartKeeps ==
  ASSUME IInv, NEW h \in Deliveries, NEW e \in events, HookStart(h, e)
  PROVE  IInv'
<1>. DEFINE slot == [at |-> "hook.apply", e |-> e]
<1>1. slot \in Hooks \cup {Idle} /\ hook' = [hook EXCEPT ![h] = slot]
  BY DEF IInv, TypeOK, HookStart, Hooks
<1>2. HookKnows(h)'
  BY <1>1 DEF IInv, TypeOK, HookKnows, HookStart, stripeVars
<1>3. processed' \subseteq events
  BY DEF IInv, TypeOK, HookStart
<1>. QED
  BY <1>1, <1>2, <1>3, QuietHook DEF HookStart

LEMMA HookApplyKeeps ==
  ASSUME IInv, NEW h \in Deliveries, HookApply(h)
  PROVE  IInv'
<1>1. PICK e \in events :
        /\ hook[h].e = e
        /\ [at |-> "hook.done", e |-> e] = [hook[h] EXCEPT !.at = "hook.done"]
  <2>1. hook[h] \in Hooks
    BY HookState DEF IInv, HookApply
  <2>2. hook[h].e \in events
    BY DEF IInv, HookKnows, HookApply
  <2>. QED
    BY <2>1, <2>2 DEF Hooks, HookApply
<1>2. PICK slot \in Hooks \cup {Idle} : slot = [at |-> "hook.done", e |-> e]
  BY <1>1 DEF IInv, TypeOK, Hooks
<1>3. hook' = [hook EXCEPT ![h] = slot]
  BY <1>1, <1>2 DEF HookApply
<1>4. /\ hook' \in [Deliveries -> Hooks \cup {Idle}] /\ hook'[h] = slot
      /\ \A x \in Deliveries \ {h} : hook'[x] = hook[x]
  BY <1>3 DEF IInv, TypeOK
<1>5. UNCHANGED <<stripeVars, processed, req, failures>>
  BY DEF HookApply
<1>6. PICK k \in Keys : k = e.k
  BY DEF IInv, TypeOK, Events
<1>7. CASE ~ HasRow(k)
  <2>1. row' = row
    BY <1>1, <1>6, <1>7 DEF HookApply, IInv, TypeOK, HasRow
  <2>2. HookKnows(h)'
    BY <1>2, <1>4, <1>5 DEF HookKnows, stripeVars
  <2>3. UNCHANGED <<stripeVars, row, req, failures>> /\ processed' \subseteq events
    BY <1>5, <2>1 DEF IInv, TypeOK
  <2>. QED
    BY <1>3, <2>2, <2>3, QuietHook
<1>8. CASE HasRow(k)
  <2>1. PICK new : new = IF e.deleted
                           THEN [status |-> "CANCELED", cancelAtPeriodEnd |-> FALSE]
                           ELSE [status |-> toUpperCase[e.sub.status],
                                 cancelAtPeriodEnd |-> e.sub.atPeriodEnd]
    OBVIOUS
  <2>2. row' = [row EXCEPT ![k] = new]
    BY <1>1, <1>6, <1>8, <2>1 DEF HookApply
  <2>3. e.sub.status \in StripeStatuses /\ e.sub.atPeriodEnd \in BOOLEAN
    BY DEF IInv, TypeOK, Events, Snapshots
  <2>4. /\ Exists(k)
        /\ e.deleted <=> e.sub.status = "canceled"
        /\ e.deleted => ~ IsLive(k)
    BY <1>6 DEF IInv, StripeTellsTheTruth
  <2>5. /\ toUpperCase[e.sub.status] \in RowStatuses
        /\ toUpperCase[e.sub.status] = "CANCELED" <=> e.sub.status = "canceled"
    BY <2>3, UpperCase
  <2>6. new \in Rows
    BY <2>1, <2>3, <2>5 DEF Rows, RowStatuses
  <2>7. new.status \in {"INCOMPLETE", "ACTIVE"} => StatusTold(k, new.status)
    BY <1>6, <2>1 DEF StatusTold
  <2>8. failures = 0 /\ new.status = "CANCELED" => ~ IsLive(k)
    BY <2>1, <2>4, <2>5
  <2>9. UNCHANGED <<stripeVars, failures>>
    BY <1>5
  <2>10. /\ row' \in [Keys -> Rows \cup {NoRow}] /\ Kept /\ HasRow(k)'
         /\ \A j \in Keys \ {k} : row'[j] = row[j]
         /\ StatusCameFromStripe' /\ CanceledRowIsOver' /\ StripeTellsTheTruth'
         /\ RowsExist'
    BY <2>2, <2>4, <2>6, <2>7, <2>8, <2>9, RowWritten
  <2>11. TypeOK'
    BY <1>4, <1>5, <2>10 DEF IInv, TypeOK, stripeVars
  <2>12. \A x \in Requests : ReqKnows(x)'
    BY <1>5, <2>10, ReqStillKnows
  <2>13. \A x \in Deliveries : HookKnows(x)'
    BY <1>2, <1>4, <1>5 DEF IInv, HookKnows, stripeVars
  <2>14. \A j \in Keys : InHands(j)'
    BY <1>5, <2>10 DEF IInv, InHands, IsLive, HasRow, Subscribing, Kept, stripeVars
  <2>. QED
    BY <2>10, <2>11, <2>12, <2>13, <2>14 DEF IInv
<1>. QED
  BY <1>7, <1>8

(* HookDone and HookFails.                                                 *)
LEMMA HookEndsKeeps ==
  ASSUME IInv, NEW h \in Deliveries, HookDone(h) \/ HookFails(h)
  PROVE  IInv'
<1>1. hook' = [hook EXCEPT ![h] = Idle] /\ Idle \in Hooks \cup {Idle}
  BY DEF HookDone, HookFails
<1>2. HookKnows(h)'
  BY <1>1 DEF IInv, TypeOK, HookKnows, Idle
<1>3. processed' \subseteq events
  BY DEF IInv, TypeOK, HookKnows, HookDone, HookFails
<1>4. UNCHANGED <<stripeVars, row, req, failures>>
  BY DEF HookDone, HookFails
<1>. QED
  BY <1>1, <1>2, <1>3, <1>4, QuietHook

-----------------------------------------------------------------------------
LEMMA RequestStepKeeps ==
  ASSUME IInv, NEW r \in Requests, RequestStep(r)
  PROVE  IInv'
  BY SubscribeStartKeeps, SubscribeCreateKeeps, SubscribeReplayKeeps, SubscribeTxKeeps,
     ToCompensationKeeps, SubscribeUndoKeeps, CancelStartKeeps, CancelStripeKeeps,
     CancelRefusedKeeps, CancelRowKeeps, AdminCancelStartKeeps, AdminCancelStripeKeeps,
     AdminCancelSwallowedKeeps, AdminCancelRowKeeps, RequestFailsKeeps
  DEF RequestStep

LEMMA Initially == Init => IInv
  BY SubscriptionAssumption
  DEF Init, IInv, TypeOK, StatusCameFromStripe, CanceledRowIsOver, StripeTellsTheTruth,
      RowsExist, ReqKnows, HookKnows, InHands, NoRow, Idle, Exists, IsLive, HasRow, Live

LEMMA Inductive == IInv /\ [Next]_vars => IInv'
<1>. SUFFICES ASSUME IInv, [Next]_vars PROVE IInv'
  OBVIOUS
<1>1. ASSUME NEW r \in Requests, RequestStep(r) PROVE IInv'
  BY <1>1, RequestStepKeeps
<1>2. ASSUME NEW k \in Keys, FirstPayment(k) \/ SubscriptionEnds(k) PROVE IInv'
  BY <1>2, StripeStepKeeps
<1>3. ASSUME NEW h \in Deliveries, HookStep(h) PROVE IInv'
  BY <1>3, HookStartKeeps, HookApplyKeeps, HookEndsKeeps DEF HookStep
<1>4. CASE UNCHANGED vars
  <2>1. UNCHANGED <<stripeVars, row>> /\ (failures' = 0 => failures = 0)
    BY <1>4 DEF vars
  <2>2. Kept /\ StatusCameFromStripe' /\ CanceledRowIsOver' /\ StripeTellsTheTruth'
          /\ RowsExist'
    BY <2>1, SameRows
  <2>3. TypeOK'
    BY <1>4 DEF IInv, TypeOK, vars, stripeVars
  <2>4. \A x \in Requests : ReqKnows(x)'
    BY <1>4, <2>2, ReqStillKnows DEF vars
  <2>5. \A h \in Deliveries : HookKnows(h)'
    BY <1>4, <2>2, HooksStillKnow DEF vars
  <2>6. \A k \in Keys : InHands(k)'
    BY <1>4 DEF IInv, InHands, IsLive, HasRow, Subscribing, vars, stripeVars
  <2>. QED
    BY <2>2, <2>3, <2>4, <2>5, <2>6 DEF IInv
<1>. QED
  BY <1>1, <1>2, <1>3, <1>4 DEF Next

LEMMA Invariance == Spec => []IInv
  BY Initially, Inductive, PTL DEF Spec

(* Every variable of the subscriptions of a user keeps its type.           *)
THEOREM TypeCorrect == Spec => []TypeOK
<1>1. IInv => TypeOK
  BY DEF IInv
<1>. QED
  BY <1>1, Invariance, PTL

(* A row's status was reported by Stripe: no replayed answer, late event or *)
(* stale read of an admin invents one.                                     *)
THEOREM StatusIsStripes == Spec => []StatusCameFromStripe
<1>1. IInv => StatusCameFromStripe
  BY DEF IInv
<1>. QED
  BY <1>1, Invariance, PTL

(* A CANCELED row belongs to a subscription that no longer bills, as long   *)
(* as no call to Stripe failed.                                            *)
THEOREM CanceledIsOver == Spec => []CanceledRowIsOver
<1>1. IInv => CanceledRowIsOver
  BY DEF IInv
<1>. QED
  BY <1>1, Invariance, PTL

(* Between requests, and as long as none stopped half way, no subscription *)
(* bills the user without a local row: the compensation leaves no orphan.  *)
THEOREM NoOrphans == Spec => []NoOrphanedSubscription
<1>1. IInv => NoOrphanedSubscription
  BY DEF IInv, NoOrphanedSubscription, InHands, Subscribing, Quiet, Idle
<1>. QED
  BY <1>1, Invariance, PTL
=============================================================================
