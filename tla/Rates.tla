-------------------------------- MODULE Rates --------------------------------
(***************************************************************************)
(* The exchange rates in ONE process: a call reads the stored rates and,   *)
(* when they are older than their lifetime, starts a refresh or waits for  *)
(* the one in flight.  A step is what runs between two awaits; a refresh   *)
(* that settles wakes the calls that wait for it.                          *)
(***************************************************************************)
EXTENDS Naturals

CONSTANTS
  Calls,      \* the calls of getRates
  Lifetime,   \* RATE_TTL_MS
  LastTime    \* bound: the clock

VARIABLES
  now,        \* the clock
  stored,     \* fetchedAt of the stored rates, in a set, or {} for none
  inflight,   \* the call that started the refresh in flight, in a set
  call        \* requests: where they are, what they read and waited for

vars == <<now, stored, inflight, call>>

Times  == 0 .. LastTime
Reads  == {{}} \cup {{t} : t \in Times}

(* read: what loadFromDb returned; at "persist" the time of the fetch.     *)
Idle  == [at |-> "idle"]
Slots == [at : {"read", "fetch", "persist", "answer"}, read : Reads]
           \cup [at : {"wait"}, for : Calls, read : Reads]

Refreshing(c) == call[c].at \in {"fetch", "persist", "answer"}

Goto(c, at)  == call' = [call EXCEPT ![c].at = at]

Init ==
  /\ now = 0
  /\ stored = {}
  /\ inflight = {}
  /\ call = [c \in Calls |-> Idle]

loadFromDb(c) ==
  /\ call[c] = Idle
  /\ call' = [call EXCEPT ![c] = [at |-> "read", read |-> stored]]
  /\ UNCHANGED <<now, stored, inflight>>

Stale(read) == \A t \in read : now - t > Lifetime

Fresh(c) ==
  /\ call[c].at = "read"
  /\ ~ Stale(call[c].read)
  /\ call' = [call EXCEPT ![c] = Idle]
  /\ UNCHANGED <<now, stored, inflight>>

(* A variant the checks refute: every stale call starts its own refresh.   *)
Nobodys == {}

Current == inflight

(* The test of inflight and its assignment are one step: no await between. *)
refreshOnce(c) ==
  /\ call[c].at = "read"
  /\ Stale(call[c].read)
  /\ IF Current = {}
       THEN Goto(c, "fetch") /\ inflight' = {c}
       ELSE /\ \E d \in Current :
                 call' = [call EXCEPT ![c] = [at |-> "wait", for |-> d,
                                              read |-> call[c].read]]
            /\ UNCHANGED inflight
  /\ UNCHANGED <<now, stored>>

Fetched(c) ==
  /\ call[c].at = "fetch"
  /\ call' = [call EXCEPT ![c] = [at |-> "persist", read |-> {now}]]
  /\ UNCHANGED <<now, stored, inflight>>

Persist(c) ==
  /\ call[c].at = "persist"
  /\ stored' = IF \A t \in stored : \A u \in call[c].read : t <= u
                 THEN call[c].read ELSE stored
  /\ Goto(c, "answer")
  /\ UNCHANGED <<now, inflight>>

(* The calls that return with the refresh of c, the one that started it    *)
(* and those that wait for it.                                             *)
Settled(c) == [d \in Calls |-> IF d = c \/ (call[d].at = "wait" /\ call[d].for = c)
                                 THEN Idle ELSE call[d]]

Refreshed(c) ==
  /\ call[c].at = "answer"
  /\ call' = Settled(c)
  /\ inflight' = {}
  /\ UNCHANGED <<now, stored>>

Cleared == {}

(* The provider or the database fails: each call serves what it had read.  *)
RefreshFails(c) ==
  /\ call[c].at \in {"fetch", "persist"}
  /\ call' = Settled(c)
  /\ inflight' = Cleared
  /\ UNCHANGED <<now, stored>>

Tick ==
  /\ now < LastTime
  /\ now' = now + 1
  /\ UNCHANGED <<stored, inflight, call>>

Next ==
  \/ \E c \in Calls :
       \/ loadFromDb(c) \/ Fresh(c) \/ refreshOnce(c) \/ Fetched(c) \/ Persist(c)
       \/ Refreshed(c) \/ RefreshFails(c)
  \/ Tick

Spec == Init /\ [][Next]_vars

-----------------------------------------------------------------------------
(* Every variable keeps its type.                                          *)
TypeOK ==
  /\ now \in Times
  /\ stored \in Reads
  /\ inflight \in {{}} \cup {{c} : c \in Calls}
  /\ call \in [Calls -> Slots \cup {Idle}]

(* One request to the provider at a time, however many calls find the      *)
(* rates stale.                                                            *)
OneRefresh == \A c, d \in Calls : Refreshing(c) /\ Refreshing(d) => c = d

(* The refresh that calls wait for is in progress: after a failure "the    *)
(* next request will retry" and nobody waits for what is over.             *)
NobodyWaitsInVain ==
  /\ \A c \in inflight : Refreshing(c)
  /\ \A d \in Calls : call[d].at = "wait" => Refreshing(call[d].for)

(* The calls that find stale rates share one refresh.                      *)
RefreshIsShared == TypeOK /\ OneRefresh /\ NobodyWaitsInVain
=============================================================================
