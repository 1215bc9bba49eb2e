----------------------------- MODULE AdminRoles -----------------------------
(***************************************************************************)
(* The roles and the status of the users, as admins set them.  A request   *)
(* is authenticated with the role its user has then; it reads its target;  *)
(* its transaction asks for the target's role once more.                   *)
(***************************************************************************)
CONSTANTS
  Users,      \* the users
  Calls       \* slots: requests in flight

VARIABLES
  user,       \* User: role, status
  crossed,    \* two requests of SUPER_ADMINs were in flight at once
  call        \* requests in flight

vars == <<user, crossed, call>>

(* USER stands for every role that is not in ADMIN_ROLE_GROUPS.ALL.        *)
Senior   == {"SUPER_ADMIN", "ADMIN"}
Roles    == Senior \cup {"USER"}
Statuses == {"ACTIVE", "SUSPENDED"}
UserRows == [role : Roles, status : Statuses]

Idle  == [at |-> "idle"]
Slots == [at : {"auth", "tx"}, actor : Users, as : Senior, target : Users,
          field : {"role"}, to : Roles]
           \cup [at : {"auth", "tx"}, actor : Users, as : Senior, target : Users,
                 field : {"status"}, to : Statuses]

Set(c, slot) == call' = [call EXCEPT ![c] = slot]
Return(c)    == Set(c, Idle)

BySuper(c) == call[c] # Idle /\ call[c].as = "SUPER_ADMIN"

(* The seed, or an operator at the database, made somebody SUPER_ADMIN.    *)
Init ==
  /\ \E S \in SUBSET Users :
       /\ S # {}
       /\ user = [u \in Users |-> [role |-> IF u \in S THEN "SUPER_ADMIN" ELSE "USER",
                                   status |-> "ACTIVE"]]
  /\ crossed = FALSE
  /\ call = [c \in Calls |-> Idle]

(* The guards of the controller: the role of the actor is what it is now.  *)
Authenticate(c, a, t, field, to) ==
  /\ call[c] = Idle
  /\ user[a].role \in Senior
  /\ user[a].status = "ACTIVE"
  /\ field = "role" /\ to \in Senior => user[a].role = "SUPER_ADMIN"
  /\ Set(c, [at |-> "auth", actor |-> a, as |-> user[a].role,
             target |-> t, field |-> field, to |-> to])
  /\ crossed' = (crossed \/ (user[a].role = "SUPER_ADMIN" /\ \E d \in Calls : BySuper(d)))
  /\ UNCHANGED user

NotOneself(slot) == slot.target # slot.actor

TargetRead(c) ==
  LET slot == call[c] IN
  /\ slot.at = "auth"
  /\ IF NotOneself(slot)
        /\ (user[slot.target].role \in Senior => slot.as = "SUPER_ADMIN")
        /\ user[slot.target][slot.field] # slot.to
       THEN call' = [call EXCEPT ![c].at = "tx"]
       ELSE Return(c)
  /\ UNCHANGED <<user, crossed>>

(* A variant the checks refute: the transaction trusts the read.           *)
ById(slot) == TRUE

Permitted(slot) == slot.as = "SUPER_ADMIN" \/ user[slot.target].role \notin Senior

SetTx(c) ==
  LET slot == call[c] IN
  /\ slot.at = "tx"
  /\ user' = IF Permitted(slot)
               THEN [user EXCEPT ![slot.target][slot.field] = slot.to] ELSE user
  /\ Return(c)
  /\ UNCHANGED crossed

(* A request stops before its transaction.                                 *)
Stops(c) ==
  /\ call[c] # Idle
  /\ Return(c)
  /\ UNCHANGED <<user, crossed>>

setUserRole(c, a, t, to)   == Authenticate(c, a, t, "role", to)
setUserStatus(c, a, t, to) == Authenticate(c, a, t, "status", to)

Next ==
  \E c \in Calls :
    \/ \E a, t \in Users :
         \/ \E to \in Roles : setUserRole(c, a, t, to)
         \/ \E to \in Statuses : setUserStatus(c, a, t, to)
    \/ TargetRead(c) \/ SetTx(c) \/ Stops(c)

Spec == Init /\ [][Next]_vars

-----------------------------------------------------------------------------
(* Every variable keeps its type.                                          *)
TypeOK ==
  /\ user \in [Users -> UserRows]
  /\ crossed \in BOOLEAN
  /\ call \in [Calls -> Slots \cup {Idle}]

(* Who is ADMIN or SUPER_ADMIN when a change is written is changed by a    *)
(* SUPER_ADMIN only, however lately the role was granted: "close the       *)
(* TOCTOU race".                                                           *)
SeniorityStep ==
  \A u \in Users :
    user'[u] # user[u] /\ user[u].role \in Senior =>
      \E c \in Calls : BySuper(c) /\ call[c].at = "tx" /\ call'[c] = Idle
                       /\ call[c].target = u

SeniorityHolds == [][SeniorityStep]_vars

(* Nobody is locked out: an active SUPER_ADMIN is left, unless requests of *)
(* two SUPER_ADMINs, or two of one, were in flight at once.                *)
SomebodyIsLeft ==
  ~ crossed =>
    \E u \in Users : user[u] = [role |-> "SUPER_ADMIN", status |-> "ACTIVE"]

Consistent == TypeOK /\ SomebodyIsLeft

(* The senior roles are in the hands of SUPER_ADMINs, of whom one is left. *)
SeniorityIsSafe == []Consistent /\ SeniorityHolds
=============================================================================
