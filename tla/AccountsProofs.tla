--------------------------- MODULE AccountsProofs ----------------------------
(***************************************************************************)
(* Proofs about what the platform does around the engagements: the roles   *)
(* admins set (AdminRoles), the tokens of the mails (AccountTokens), the   *)
(* exchange rates (Rates), the model connections (ModelConnections), the   *)
(* uploads (Uploads) and the drip sequences (DripSequences), for any       *)
(* number of users, tokens, keys, steps and requests in flight.  Each is   *)
(* proved of the component alone, then of the behaviours the run           *)
(* "platform" checks.                                                      *)
(***************************************************************************)
EXTENDS MCPlatform, FiniteSetTheorems, TLAPS

-----------------------------------------------------------------------------
(* AdminRoles                                                              *)

Active(u) == user[u].role = "SUPER_ADMIN" /\ user[u].status = "ACTIVE"

RoleTypes ==
  /\ user \in [Users -> R!UserRows]
  /\ crossed \in BOOLEAN
  /\ roleCall \in [Calls -> R!Slots \cup {R!Idle}]

(* One request of a SUPER_ADMIN at a time, whose actor stays one and is    *)
(* not its target: the actor is who is left.                               *)
RolesInv ==
  /\ RoleTypes
  /\ \A c \in Calls : roleCall[c].at = "tx" => R!NotOneself(roleCall[c])
  /\ ~ crossed =>
       /\ \E u \in Users : Active(u)
       /\ \A c \in Calls : R!BySuper(c) => Active(roleCall[c].actor)
       /\ \A c, d \in Calls : R!BySuper(c) /\ R!BySuper(d) => c = d

LEMMA RoleSlot ==
  ASSUME RoleTypes, NEW c \in Calls, roleCall[c] # R!Idle
  PROVE  /\ roleCall[c].at \in {"auth", "tx"} /\ roleCall[c].as \in R!Senior
         /\ roleCall[c].actor \in Users /\ roleCall[c].target \in Users
         /\ \/ roleCall[c].field = "role" /\ roleCall[c].to \in R!Roles
            \/ roleCall[c].field = "status" /\ roleCall[c].to \in R!Statuses
         /\ [roleCall[c] EXCEPT !.at = "tx"] \in R!Slots
<1>1. roleCall[c] \in R!Slots
  BY DEF RoleTypes
<1>. QED
  BY <1>1 DEF R!Slots

LEMMA RolesInitially == R!Init => RolesInv
<1>. SUFFICES ASSUME R!Init PROVE RolesInv
  OBVIOUS
<1>1. PICK seeded \in SUBSET Users :
        /\ seeded # {}
        /\ user = [u \in Users |-> [role |-> IF u \in seeded THEN "SUPER_ADMIN" ELSE "USER",
                                    status |-> "ACTIVE"]]
  BY DEF R!Init
<1>2. RoleTypes /\ \E s \in Users : Active(s)
  BY <1>1 DEF R!Init, RoleTypes, R!UserRows, R!Roles, R!Senior, R!Statuses, Active
<1>3. \A c \in Calls : roleCall[c] = R!Idle /\ roleCall[c].at # "tx" /\ ~ R!BySuper(c)
  BY DEF R!Init, R!Idle, R!BySuper
<1>. QED
  BY <1>2, <1>3 DEF RolesInv

(* A request that ends and writes nothing.                                 *)
LEMMA RoleReturns ==
  ASSUME RolesInv, NEW c \in Calls, R!Return(c), UNCHANGED <<user, crossed>>
  PROVE  RolesInv'
<1>1. /\ roleCall'[c] = R!Idle /\ \A d \in Calls \ {c} : roleCall'[d] = roleCall[d]
      /\ RoleTypes'
  BY DEF R!Return, R!Set, RolesInv, RoleTypes
<1>2. R!Idle.at # "tx"
  BY DEF R!Idle
<1>. QED
  BY <1>1, <1>2 DEF RolesInv, R!BySuper, R!NotOneself, Active

LEMMA AuthenticateKeeps ==
  ASSUME RolesInv, NEW c \in Calls, NEW a \in Users, NEW t \in Users,
         NEW field, NEW to, R!Authenticate(c, a, t, field, to),
         \/ field = "role" /\ to \in R!Roles
         \/ field = "status" /\ to \in R!Statuses
  PROVE  RolesInv'
<1>. DEFINE slot == [at |-> "auth", actor |-> a, as |-> user[a].role,
                     target |-> t, field |-> field, to |-> to]
<1>1. slot \in R!Slots
  BY DEF R!Slots, R!Authenticate
<1>2. roleCall' = [roleCall EXCEPT ![c] = slot] /\ UNCHANGED user
  BY DEF R!Authenticate, R!Set
<1>3. /\ roleCall'[c] = slot /\ \A d \in Calls \ {c} : roleCall'[d] = roleCall[d]
      /\ RoleTypes'
  BY <1>1, <1>2 DEF RolesInv, RoleTypes, R!Authenticate
<1>4. \A d \in Calls : roleCall'[d].at = "tx" => R!NotOneself(roleCall[d])'
  BY <1>2, <1>3 DEF RolesInv, R!NotOneself
<1>5. ASSUME ~ crossed'
      PROVE  /\ \E u \in Users : Active(u)'
             /\ \A d \in Calls : R!BySuper(d)' => Active(roleCall[d].actor)'
             /\ \A d, e \in Calls : R!BySuper(d)' /\ R!BySuper(e)' => d = e
  <2>1. /\ ~ crossed
        /\ user[a].role = "SUPER_ADMIN" => \A d \in Calls : ~ R!BySuper(d)
        /\ user[a].status = "ACTIVE"
    BY <1>5 DEF R!Authenticate, RolesInv, RoleTypes
  <2>2. R!BySuper(c)' => Active(a)
    BY <1>3, <2>1 DEF R!BySuper, Active
  <2>3. \A d \in Calls \ {c} : R!BySuper(d)' <=> R!BySuper(d)
    BY <1>3 DEF R!BySuper
  <2>4. R!BySuper(c)' => \A d \in Calls : ~ R!BySuper(d)
    BY <1>3, <2>1 DEF R!BySuper
  <2>. QED
    BY <1>2, <1>3, <2>1, <2>2, <2>3, <2>4 DEF RolesInv, Active
<1>. QED
  BY <1>3, <1>4, <1>5 DEF RolesInv

LEMMA TargetReadKeeps ==
  ASSUME RolesInv, NEW c \in Calls, R!TargetRead(c)
  PROVE  RolesInv'
<1>1. roleCall[c] # R!Idle /\ UNCHANGED <<user, crossed>>
  BY DEF R!TargetRead, R!Idle
<1>2. CASE R!Return(c)
  BY <1>1, <1>2, RoleReturns
<1>3. CASE R!NotOneself(roleCall[c]) /\ roleCall' = [roleCall EXCEPT ![c].at = "tx"]
  <2>1. PICK slot \in R!Slots :
          /\ slot = [roleCall[c] EXCEPT !.at = "tx"]
          /\ slot.as = roleCall[c].as /\ slot.actor = roleCall[c].actor
          /\ slot.target = roleCall[c].target /\ slot # R!Idle
    <3>1. roleCall[c] \in R!Slots
      BY <1>1 DEF RolesInv, RoleTypes
    <3>2. [roleCall[c] EXCEPT !.at = "tx"] \in R!Slots
      BY <1>1, RoleSlot DEF RolesInv
    <3>3. /\ [roleCall[c] EXCEPT !.at = "tx"].as = roleCall[c].as
          /\ [roleCall[c] EXCEPT !.at = "tx"].actor = roleCall[c].actor
          /\ [roleCall[c] EXCEPT !.at = "tx"].target = roleCall[c].target
          /\ [roleCall[c] EXCEPT !.at = "tx"].at = "tx"
      BY <3>1 DEF R!Slots
    <3>. QED
      BY <3>2, <3>3 DEF R!Idle
  <2>2. /\ roleCall' = [roleCall EXCEPT ![c] = slot]
        /\ roleCall'[c] = slot /\ \A d \in Calls \ {c} : roleCall'[d] = roleCall[d]
        /\ RoleTypes'
    BY <1>1, <1>3, <2>1 DEF RolesInv, RoleTypes
  <2>3. \A d \in Calls : /\ R!BySuper(d)' <=> R!BySuper(d)
                         /\ roleCall'[d].actor = roleCall[d].actor
    BY <1>1, <2>1, <2>2 DEF R!BySuper
  <2>4. \A d \in Calls : roleCall'[d].at = "tx" => R!NotOneself(roleCall[d])'
    BY <1>3, <2>1, <2>2 DEF RolesInv, R!NotOneself
  <2>. QED
    BY <1>1, <2>2, <2>3, <2>4 DEF RolesInv, Active
<1>. QED
  BY <1>2, <1>3 DEF R!TargetRead

LEMMA SetTxKeeps ==
  ASSUME RolesInv, NEW c \in Calls, R!SetTx(c)
  PROVE  RolesInv'
<1>. DEFINE t == roleCall[c].target
<1>1. /\ roleCall[c] # R!Idle /\ roleCall[c].at = "tx" /\ R!Return(c) /\ UNCHANGED crossed
  BY DEF R!SetTx, R!Idle
<1>2. CASE ~ R!Permitted(roleCall[c])
  <2>1. UNCHANGED user
    BY <1>2 DEF R!SetTx
  <2>. QED
    BY <1>1, <2>1, RoleReturns
<1>3. CASE R!Permitted(roleCall[c])
  <2>1. /\ t \in Users
        /\ \/ roleCall[c].field = "role" /\ roleCall[c].to \in R!Roles
           \/ roleCall[c].field = "status" /\ roleCall[c].to \in R!Statuses
    BY <1>1, RoleSlot DEF RolesInv
  <2>2. user' = [user EXCEPT ![t] = [user[t] EXCEPT ![roleCall[c].field] = roleCall[c].to]]
    BY <1>3 DEF R!SetTx
  <2>3. user[t] \in R!UserRows
    BY <2>1 DEF RolesInv, RoleTypes
  <2>4. [user[t] EXCEPT ![roleCall[c].field] = roleCall[c].to] \in R!UserRows
    <3>1. CASE roleCall[c].field = "role" /\ roleCall[c].to \in R!Roles
      BY <2>3, <3>1 DEF R!UserRows
    <3>2. CASE roleCall[c].field = "status" /\ roleCall[c].to \in R!Statuses
      BY <2>3, <3>2 DEF R!UserRows
    <3>. QED
      BY <2>1, <3>1, <3>2
  <2>5. /\ user' \in [Users -> R!UserRows]
        /\ \A u \in Users \ {t} : user'[u] = user[u]
    BY <2>2, <2>4 DEF RolesInv, RoleTypes
  <2>6. /\ roleCall'[c] = R!Idle /\ \A d \in Calls \ {c} : roleCall'[d] = roleCall[d]
        /\ RoleTypes'
    BY <1>1, <2>5 DEF R!Return, R!Set, RolesInv, RoleTypes
  <2>7. \A d \in Calls : roleCall'[d].at = "tx" => R!NotOneself(roleCall[d])'
    BY <2>6 DEF RolesInv, R!NotOneself, R!Idle
  <2>8. \A d \in Calls : R!BySuper(d)' => d # c /\ R!BySuper(d)
    BY <2>6 DEF R!BySuper
  <2>9. ASSUME ~ crossed
        PROVE  /\ \E u \in Users : Active(u)'
               /\ \A d \in Calls : R!BySuper(d)' => Active(roleCall[d].actor)'
               /\ \A d, e \in Calls : R!BySuper(d)' /\ R!BySuper(e)' => d = e
    <3>1. CASE R!BySuper(c)
      <4>1. \A d \in Calls : ~ R!BySuper(d)'
        BY <2>8, <2>9, <3>1 DEF RolesInv
      <4>2. Active(roleCall[c].actor) /\ roleCall[c].actor \in Users \ {t}
        BY <1>1, <2>9, <3>1, RoleSlot DEF RolesInv, R!NotOneself
      <4>3. user'[roleCall[c].actor] = user[roleCall[c].actor]
        BY <2>5, <4>2
      <4>. QED
        BY <4>1, <4>2, <4>3 DEF Active
    <3>2. CASE ~ R!BySuper(c)
      <4>1. user[t].role \notin R!Senior
        BY <1>1, <1>3, <3>2 DEF R!Permitted, R!BySuper
      <4>2. \A u \in Users : Active(u) => Active(u)'
        BY <2>5, <4>1 DEF Active, R!Senior
      <4>3. \A d \in Calls : R!BySuper(d)' => /\ R!BySuper(d)
                                              /\ roleCall'[d] = roleCall[d]
                                              /\ roleCall[d].actor \in Users
        BY <2>6, <2>8, RoleSlot DEF RolesInv, R!BySuper
      <4>4. \A d \in Calls : R!BySuper(d)' => Active(roleCall[d].actor)'
        BY <2>9, <4>2, <4>3 DEF RolesInv, Active
      <4>. QED
        BY <2>9, <4>2, <4>3, <4>4 DEF RolesInv
    <3>. QED
      BY <3>1, <3>2
  <2>. QED
    BY <1>1, <2>6, <2>7, <2>9 DEF RolesInv
<1>. QED
  BY <1>2, <1>3

LEMMA RolesInductive == RolesInv /\ [R!Next]_R!vars => RolesInv'
<1>. SUFFICES ASSUME RolesInv, [R!Next]_R!vars PROVE RolesInv'
  OBVIOUS
<1>1. ASSUME NEW c \in Calls, NEW a \in Users, NEW t \in Users, NEW to \in R!Roles,
             R!setUserRole(c, a, t, to)
      PROVE  RolesInv'
  BY <1>1, AuthenticateKeeps DEF R!setUserRole
<1>2. ASSUME NEW c \in Calls, NEW a \in Users, NEW t \in Users, NEW to \in R!Statuses,
             R!setUserStatus(c, a, t, to)
      PROVE  RolesInv'
  BY <1>2, AuthenticateKeeps DEF R!setUserStatus
<1>3. ASSUME NEW c \in Calls, R!Stops(c) PROVE RolesInv'
  BY <1>3, RoleReturns DEF R!Stops
<1>4. CASE UNCHANGED R!vars
  BY <1>4 DEF R!vars, RolesInv, RoleTypes, R!BySuper, R!NotOneself, Active
<1>. QED
  BY <1>1, <1>2, <1>3, <1>4, TargetReadKeeps, SetTxKeeps DEF R!Next

LEMMA RolesInvariance == R!Spec => []RolesInv
  BY RolesInitially, RolesInductive, PTL DEF R!Spec

(* Nobody is locked out: with the requests of SUPER_ADMINs one after the   *)
(* other, an active SUPER_ADMIN is always left.                            *)
THEOREM NobodyLockedOut == R!Spec => []R!SomebodyIsLeft
<1>1. RolesInv => R!SomebodyIsLeft
  <2>1. ASSUME RolesInv, NEW u \in Users, Active(u)
        PROVE  user[u] = [role |-> "SUPER_ADMIN", status |-> "ACTIVE"]
    BY <2>1 DEF RolesInv, RoleTypes, R!UserRows, Active
  <2>. QED
    BY <2>1 DEF RolesInv, R!SomebodyIsLeft
<1>. QED
  BY <1>1, RolesInvariance, PTL

(* ADMINs and SUPER_ADMINs are changed by SUPER_ADMINs only, however       *)
(* lately they were promoted.                                              *)
THEOREM SeniorityStands == R!Spec => R!SeniorityHolds
<1>1. RolesInv /\ [R!Next]_R!vars => [R!SeniorityStep]_R!vars
  <2>. SUFFICES ASSUME RolesInv, R!Next, NEW u \in Users, user'[u] # user[u],
                       user[u].role \in R!Senior
                PROVE  \E c \in Calls : R!BySuper(c) /\ roleCall[c].at = "tx"
                                        /\ roleCall'[c] = R!Idle /\ roleCall[c].target = u
    BY DEF R!SeniorityStep
  <2>1. PICK c \in Calls : R!SetTx(c)
    BY DEF R!Next, R!setUserRole, R!setUserStatus, R!Authenticate, R!TargetRead, R!Stops
  <2>2. roleCall[c].at = "tx" /\ roleCall[c] # R!Idle /\ roleCall'[c] = R!Idle
    BY <2>1 DEF R!SetTx, R!Return, R!Set, R!Idle, RolesInv, RoleTypes
  <2>3. R!Permitted(roleCall[c]) /\ roleCall[c].target = u
    BY <2>1 DEF R!SetTx, RolesInv, RoleTypes
  <2>4. R!BySuper(c)
    BY <2>2, <2>3 DEF R!Permitted, R!BySuper
  <2>. QED
    BY <2>2, <2>3, <2>4
<1>. QED
  BY <1>1, RolesInvariance, PTL DEF R!Spec, R!SeniorityHolds

-----------------------------------------------------------------------------
(* AccountTokens                                                           *)

TokenTypes ==
  /\ kind \in {"verify", "reset"}
  /\ now \in Nat
  /\ token \in [Tokens -> [row : BOOLEAN, consumed : BOOLEAN, expiresAt : Nat]]
  /\ verified \in BOOLEAN
  /\ uses \in [Tokens -> 0 .. 2]
  /\ overlapped \in BOOLEAN
  /\ tokenCall \in [Calls -> T!Slots \cup {T!Idle}]

AdminVerifies == \A c \in Calls : tokenCall[c].at = "admin" => kind = "verify"

Once ==
  /\ late = {}
  /\ \A t \in Tokens : uses[t] <= 1 /\ (uses[t] > 0 => ~ T!Unconsumed(t))
  /\ \A t \in Tokens : uses[t] > 0 => token[t].row

(* With nothing overlapping, one request issues at a time: it finds no     *)
(* token to work when it creates its own, and nobody verified.             *)
OneIssue ==
  ~ overlapped =>
    /\ \A c, d \in Calls : T!Issuing(c) /\ T!Issuing(d) => c = d
    /\ \A c \in Calls : tokenCall[c].at = "create" => \A t \in Tokens : ~ T!Unconsumed(t)
    /\ verified /\ kind = "verify" => \A c \in Calls : ~ T!Issuing(c)
    /\ verified => kind = "verify"

TokenInv ==
  /\ TokenTypes
  /\ AdminVerifies
  /\ Once
  /\ OneIssue
  /\ T!NewestWorks

LEMMA Consumed ==
  ASSUME TokenTypes, token' = T!Consume(Tokens)
  PROVE  /\ token' \in [Tokens -> [row : BOOLEAN, consumed : BOOLEAN, expiresAt : Nat]]
         /\ \A t \in Tokens : ~ T!Unconsumed(t)' /\ token'[t].row = token[t].row
  BY DEF TokenTypes, T!Consume, T!Unconsumed

LEMMA TokensInitially == T!Init => TokenInv
<1>. SUFFICES ASSUME T!Init PROVE TokenInv
  OBVIOUS
<1>1. TokenTypes
  <2>1. T!NoRow \in [row : BOOLEAN, consumed : BOOLEAN, expiresAt : Nat]
    BY DEF T!NoRow
  <2>2. token \in [Tokens -> [row : BOOLEAN, consumed : BOOLEAN, expiresAt : Nat]]
    BY <2>1 DEF T!Init
  <2>3. uses \in [Tokens -> 0 .. 2] /\ now \in Nat
    BY DEF T!Init
  <2>. QED
    BY <2>2, <2>3 DEF T!Init, TokenTypes
<1>2. \A t \in Tokens : ~ T!Unconsumed(t) /\ uses[t] = 0
  BY DEF T!Init, T!NoRow, T!Unconsumed
<1>3. \A c \in Calls : ~ T!Issuing(c) /\ tokenCall[c].at \notin {"create", "admin"}
  BY DEF T!Init, T!Idle, T!Issuing
<1>. QED
  BY <1>1, <1>2, <1>3 DEF T!Init, TokenInv, AdminVerifies, Once, OneIssue, T!NewestWorks

(* A request that changes only what it holds, and does not begin to issue. *)
LEMMA TokensQuiet ==
  ASSUME TokenInv, NEW c \in Calls, NEW slot \in T!Slots \cup {T!Idle},
         tokenCall' = [tokenCall EXCEPT ![c] = slot],
         slot.at \notin {"issue", "create"}, slot.at = "admin" => kind = "verify",
         UNCHANGED <<kind, token, verified, uses, late, overlapped>>, now' \in Nat
  PROVE  TokenInv'
<1>1. /\ tokenCall'[c] = slot /\ \A d \in Calls \ {c} : tokenCall'[d] = tokenCall[d]
      /\ TokenTypes'
  BY DEF TokenInv, TokenTypes
<1>2. \A d \in Calls : /\ T!Issuing(d)' => T!Issuing(d)
                       /\ tokenCall'[d].at = "create" => tokenCall[d].at = "create"
  BY <1>1 DEF T!Issuing
<1>3. Once' /\ OneIssue' /\ T!NewestWorks'
  BY <1>2 DEF TokenInv, Once, OneIssue, T!NewestWorks, T!Unconsumed
<1>4. AdminVerifies'
  BY <1>1 DEF TokenInv, AdminVerifies
<1>. QED
  BY <1>1, <1>3, <1>4 DEF TokenInv

(* Every token of the user is consumed: by a use or by an admin.           *)
LEMMA TokensEnd ==
  ASSUME TokenInv, NEW c \in Calls, T!Return(c), token' = T!Consume(Tokens),
         uses' \in [Tokens -> 0 .. 2], \A t \in Tokens : uses'[t] <= 1,
         \A t \in Tokens : uses'[t] > 0 => token[t].row, late' = {},
         verified' \in BOOLEAN, verified' => verified \/ kind = "verify",
         overlapped' = (overlapped \/ \E d \in Calls : T!Issuing(d)),
         UNCHANGED <<kind, now>>
  PROVE  TokenInv'
<1>1. /\ tokenCall'[c] = T!Idle /\ \A d \in Calls \ {c} : tokenCall'[d] = tokenCall[d]
      /\ tokenCall' \in [Calls -> T!Slots \cup {T!Idle}]
  BY DEF T!Return, T!Set, TokenInv, TokenTypes
<1>2. /\ token' \in [Tokens -> [row : BOOLEAN, consumed : BOOLEAN, expiresAt : Nat]]
      /\ \A t \in Tokens : ~ T!Unconsumed(t)' /\ token'[t].row = token[t].row
  BY Consumed DEF TokenInv
<1>3. overlapped' \in BOOLEAN
  OBVIOUS
<1>4. TokenTypes'
  BY <1>1, <1>2, <1>3 DEF TokenInv, TokenTypes
<1>5. \A d \in Calls : T!Issuing(d)' => T!Issuing(d)
  BY <1>1 DEF T!Issuing, T!Idle
<1>6. OneIssue'
  BY <1>2, <1>5 DEF TokenInv, OneIssue, T!Issuing
<1>7. T!NewestWorks' /\ Once'
  BY <1>2 DEF T!NewestWorks, Once
<1>8. AdminVerifies'
  BY <1>1 DEF TokenInv, AdminVerifies, T!Idle
<1>. QED
  BY <1>4, <1>6, <1>7, <1>8 DEF TokenInv

LEMMA IssueReadKeeps ==
  ASSUME TokenInv, NEW c \in Calls, T!IssueRead(c)
  PROVE  TokenInv'
<1>. DEFINE slot == [at |-> "issue"]
<1>1. slot \in T!Slots
  BY DEF T!Slots
<1>2. /\ tokenCall' = [tokenCall EXCEPT ![c] = slot]
      /\ UNCHANGED <<kind, now, token, verified, uses, late>>
      /\ overlapped' = (overlapped \/ \E d \in Calls : T!Issuing(d))
      /\ kind = "verify" => ~ verified
  BY DEF T!IssueRead, T!Set
<1>3. /\ tokenCall'[c] = slot /\ \A d \in Calls \ {c} : tokenCall'[d] = tokenCall[d]
      /\ TokenTypes'
  BY <1>1, <1>2 DEF TokenInv, TokenTypes
<1>4. Once' /\ T!NewestWorks'
  BY <1>2 DEF TokenInv, Once, T!NewestWorks, T!Unconsumed
<1>5. OneIssue'
  <2>1. SUFFICES ASSUME ~ overlapped'
                 PROVE  /\ \A d, e \in Calls : T!Issuing(d)' /\ T!Issuing(e)' => d = e
                        /\ \A d \in Calls : tokenCall'[d].at # "create"
                        /\ ~ verified
    BY <1>2 DEF OneIssue
  <2>2. ~ overlapped /\ \A d \in Calls : ~ T!Issuing(d)
    BY <1>2, <2>1
  <2>3. \A d \in Calls \ {c} : ~ T!Issuing(d)' /\ tokenCall'[d].at # "create"
    BY <1>3, <2>2 DEF T!Issuing
  <2>4. tokenCall'[c].at # "create"
    BY <1>3
  <2>5. ~ verified
    BY <1>2, <2>2 DEF TokenInv, OneIssue
  <2>. QED
    BY <2>3, <2>4, <2>5
<1>6. AdminVerifies'
  BY <1>2, <1>3 DEF TokenInv, AdminVerifies
<1>. QED
  BY <1>3, <1>4, <1>5, <1>6 DEF TokenInv

LEMMA IssueInvalidateKeeps ==
  ASSUME TokenInv, NEW c \in Calls, T!IssueInvalidate(c)
  PROVE  TokenInv'
<1>. DEFINE slot == [at |-> "create"]
<1>1. slot \in T!Slots
  BY DEF T!Slots
<1>2. /\ tokenCall' = [tokenCall EXCEPT ![c] = slot] /\ token' = T!Consume(Tokens)
      /\ UNCHANGED <<kind, now, verified, uses, late, overlapped>>
      /\ T!Issuing(c)
  BY DEF T!IssueInvalidate, T!Set, T!Earlier, T!ghosts, T!Issuing
<1>3. /\ token' \in [Tokens -> [row : BOOLEAN, consumed : BOOLEAN, expiresAt : Nat]]
      /\ \A t \in Tokens : ~ T!Unconsumed(t)' /\ token'[t].row = token[t].row
  BY <1>2, Consumed DEF TokenInv
<1>4. /\ tokenCall'[c] = slot /\ \A d \in Calls \ {c} : tokenCall'[d] = tokenCall[d]
      /\ TokenTypes'
  BY <1>1, <1>2, <1>3 DEF TokenInv, TokenTypes
<1>5. \A d \in Calls : T!Issuing(d)' <=> T!Issuing(d)
  BY <1>2, <1>4 DEF T!Issuing
<1>6. OneIssue'
  BY <1>2, <1>3, <1>5 DEF TokenInv, OneIssue
<1>7. T!NewestWorks' /\ Once'
  BY <1>2, <1>3 DEF TokenInv, T!NewestWorks, Once
<1>8. AdminVerifies'
  BY <1>2, <1>4 DEF TokenInv, AdminVerifies
<1>. QED
  BY <1>4, <1>6, <1>7, <1>8 DEF TokenInv

LEMMA IssueCreateKeeps ==
  ASSUME TokenInv, Lifetime \in Nat, NEW c \in Calls, NEW t \in Tokens,
         T!IssueCreate(c, t)
  PROVE  TokenInv'
<1>. DEFINE new == [row |-> TRUE, consumed |-> FALSE, expiresAt |-> now + Lifetime]
<1>1. new \in [row : BOOLEAN, consumed : BOOLEAN, expiresAt : Nat]
  BY DEF TokenInv, TokenTypes
<1>2. /\ token' = [token EXCEPT ![t] = new] /\ tokenCall' = [tokenCall EXCEPT ![c] = T!Idle]
      /\ UNCHANGED <<kind, now, verified, uses, late, overlapped>>
      /\ ~ token[t].row /\ tokenCall[c].at = "create" /\ T!Issuing(c)
  BY DEF T!IssueCreate, T!Return, T!Set, T!ghosts, T!Issuing
<1>3. /\ tokenCall'[c] = T!Idle /\ \A d \in Calls \ {c} : tokenCall'[d] = tokenCall[d]
      /\ \A s \in Tokens \ {t} : token'[s] = token[s]
      /\ TokenTypes'
  BY <1>1, <1>2 DEF TokenInv, TokenTypes
<1>4. \A s \in Tokens \ {t} : T!Unconsumed(s)' <=> T!Unconsumed(s)
  BY <1>3 DEF T!Unconsumed
<1>5. \A d \in Calls : T!Issuing(d)' => T!Issuing(d) /\ d # c
  BY <1>3 DEF T!Issuing, T!Idle
<1>6. Once'
  BY <1>2, <1>3, <1>4 DEF TokenInv, Once
<1>7. OneIssue'
  <2>1. ~ overlapped => \A d \in Calls : ~ T!Issuing(d)' /\ tokenCall'[d].at # "create"
    BY <1>2, <1>3, <1>5 DEF TokenInv, OneIssue, T!Issuing
  <2>. QED
    BY <1>2, <2>1 DEF TokenInv, OneIssue
<1>8. T!NewestWorks'
  BY <1>2, <1>4 DEF TokenInv, OneIssue, T!NewestWorks
<1>9. AdminVerifies'
  BY <1>2, <1>3 DEF TokenInv, AdminVerifies, T!Idle
<1>. QED
  BY <1>3, <1>6, <1>7, <1>8, <1>9 DEF TokenInv

LEMMA UseTxKeeps ==
  ASSUME TokenInv, NEW c \in Calls, T!UseTx(c)
  PROVE  TokenInv'
<1>1. PICK t \in Tokens : t = tokenCall[c].t
  <2>1. tokenCall[c] \in T!Slots
    BY DEF T!UseTx, T!Idle, TokenInv, TokenTypes
  <2>. QED
    BY <2>1 DEF T!Slots, T!UseTx
<1>2. T!Return(c) /\ UNCHANGED <<kind, now>>
  BY DEF T!UseTx
<1>3. CASE ~ T!Claimable(t)
  <2>1. UNCHANGED <<kind, now, token, verified, uses, late, overlapped>>
    BY <1>1, <1>2, <1>3 DEF T!UseTx, T!ghosts
  <2>2. tokenCall' = [tokenCall EXCEPT ![c] = T!Idle] /\ T!Idle.at \notin {"issue", "create"}
    BY <1>2 DEF T!Return, T!Set, T!Idle
  <2>3. now' \in Nat
    BY <2>1 DEF TokenInv, TokenTypes
  <2>. QED
    BY <2>1, <2>2, <2>3, TokensQuiet DEF T!Idle
<1>4. CASE T!Claimable(t)
  <2>1. /\ token' = T!Consume(Tokens)
        /\ verified' = (verified \/ kind = "verify")
        /\ uses' = [uses EXCEPT ![t] = IF uses[t] = 0 THEN 1 ELSE 2]
        /\ late' = IF token[t].expiresAt <= now THEN late \cup {t} ELSE late
        /\ overlapped' = (overlapped \/ \E d \in Calls : T!Issuing(d))
    BY <1>1, <1>4 DEF T!UseTx
  <2>2. T!Unconsumed(t) /\ token[t].expiresAt > now /\ token[t].row
    BY <1>4 DEF T!Claimable, T!Unconsumed
  <2>3. late' = {}
    <3>1. now \in Nat /\ token[t].expiresAt \in Nat
      BY DEF TokenInv, TokenTypes
    <3>2. ~ (token[t].expiresAt <= now)
      BY <2>2, <3>1
    <3>. QED
      BY <2>1, <3>2 DEF TokenInv, Once
  <2>4. uses[t] = 0
    BY <2>2 DEF TokenInv, TokenTypes, Once
  <2>5. /\ uses' \in [Tokens -> 0 .. 2] /\ \A s \in Tokens : uses'[s] <= 1
        /\ \A s \in Tokens : uses'[s] > 0 => token[s].row
    BY <2>1, <2>2, <2>4 DEF TokenInv, TokenTypes, Once
  <2>6. verified' \in BOOLEAN /\ (verified' => verified \/ kind = "verify")
    BY <2>1
  <2>. QED
    BY <1>2, <2>1, <2>3, <2>5, <2>6, TokensEnd
<1>. QED
  BY <1>3, <1>4

LEMMA AdminTxKeeps ==
  ASSUME TokenInv, NEW c \in Calls, T!AdminTx(c)
  PROVE  TokenInv'
<1>1. /\ T!Return(c) /\ token' = T!Consume(Tokens)
      /\ overlapped' = (overlapped \/ \E d \in Calls : T!Issuing(d))
      /\ verified' \in BOOLEAN /\ UNCHANGED <<kind, now>> /\ UNCHANGED <<uses, late>>
      /\ kind = "verify"
  BY DEF T!AdminTx, TokenInv, AdminVerifies
<1>2. /\ uses' \in [Tokens -> 0 .. 2] /\ \A s \in Tokens : uses'[s] <= 1
      /\ \A s \in Tokens : uses'[s] > 0 => token[s].row
      /\ late' = {}
  BY <1>1 DEF TokenInv, TokenTypes, Once
<1>. QED
  BY <1>1, <1>2, TokensEnd

LEMMA TokensInductive ==
  ASSUME Lifetime \in Nat
  PROVE  TokenInv /\ [T!Next]_T!vars => TokenInv'
<1>. SUFFICES ASSUME TokenInv, [T!Next]_T!vars PROVE TokenInv'
  OBVIOUS
<1>1. ASSUME NEW c \in Calls, NEW t \in Tokens, T!UseRead(c, t) PROVE TokenInv'
  <2>. DEFINE slot == [at |-> "use", t |-> t]
  <2>1. slot \in T!Slots /\ slot.at = "use"
    BY DEF T!Slots
  <2>2. /\ tokenCall' = [tokenCall EXCEPT ![c] = slot]
        /\ UNCHANGED <<kind, token, verified, uses, late, overlapped>> /\ now' \in Nat
    BY <1>1 DEF T!UseRead, T!Set, T!ghosts, TokenInv, TokenTypes
  <2>. HIDE DEF slot
  <2>. QED
    BY <2>1, <2>2, TokensQuiet
<1>2. ASSUME NEW c \in Calls, T!AdminRead(c) PROVE TokenInv'
  <2>. DEFINE slot == [at |-> "admin"]
  <2>1. slot \in T!Slots /\ slot.at = "admin"
    BY DEF T!Slots
  <2>2. /\ tokenCall' = [tokenCall EXCEPT ![c] = slot] /\ kind = "verify"
        /\ UNCHANGED <<kind, token, verified, uses, late, overlapped>> /\ now' \in Nat
    BY <1>2 DEF T!AdminRead, T!Set, T!ghosts, TokenInv, TokenTypes
  <2>. HIDE DEF slot
  <2>. QED
    BY <2>1, <2>2, TokensQuiet
<1>3. ASSUME NEW c \in Calls, T!Stops(c) PROVE TokenInv'
  <2>1. /\ tokenCall' = [tokenCall EXCEPT ![c] = T!Idle]
        /\ T!Idle.at \notin {"issue", "create", "admin"}
        /\ UNCHANGED <<kind, token, verified, uses, late, overlapped>> /\ now' \in Nat
    BY <1>3 DEF T!Stops, T!Return, T!Set, T!ghosts, T!Idle, TokenInv, TokenTypes
  <2>. QED
    BY <2>1, TokensQuiet
<1>4. CASE T!Tick \/ UNCHANGED T!vars
  <2>1. now' \in Nat /\ UNCHANGED <<kind, token, verified, uses, late, overlapped, tokenCall>>
    BY <1>4 DEF T!Tick, T!vars, T!ghosts, TokenInv, TokenTypes
  <2>. QED
    BY <2>1 DEF TokenInv, TokenTypes, AdminVerifies, Once, OneIssue, T!NewestWorks,
       T!Issuing, T!Unconsumed
<1>. QED
  BY <1>1, <1>2, <1>3, <1>4, IssueReadKeeps, IssueInvalidateKeeps, IssueCreateKeeps,
     UseTxKeeps, AdminTxKeeps
  DEF T!Next

(* A link has its effect once and in time, however long its requests take. *)
THEOREM LinksWorkOnce ==
  ASSUME Lifetime \in Nat
  PROVE  T!Spec => []T!UsedOnceInTime
<1>1. TokenInv => T!UsedOnceInTime
  BY DEF TokenInv, Once, T!UsedOnceInTime
<1>. QED
  BY <1>1, TokensInitially, TokensInductive, PTL DEF T!Spec

(* At most the newest link works, and none once the address is verified,   *)
(* as long as nothing overlaps with the issue of a token.                  *)
THEOREM NewestLinkWorks ==
  ASSUME Lifetime \in Nat
  PROVE  T!Spec => []T!NewestWorks
<1>1. TokenInv => T!NewestWorks
  BY DEF TokenInv
<1>. QED
  BY <1>1, TokensInitially, TokensInductive, PTL DEF T!Spec
(* The bounds of the clock, which no other part depends on.                *)
TokenClock == now \in 0 .. LastTime /\ \A t \in Tokens : token[t].expiresAt \in T!Times

LEMMA TokenClockKept == TokenInv /\ TokenClock /\ [T!Next]_T!vars => TokenClock'
<1>. SUFFICES ASSUME TokenInv, TokenClock, [T!Next]_T!vars PROVE TokenClock'
  OBVIOUS
<1>1. ASSUME NEW S, token' = T!Consume(S), UNCHANGED now PROVE TokenClock'
  <2>1. \A t \in Tokens : token'[t].expiresAt = token[t].expiresAt
    BY <1>1 DEF T!Consume, TokenInv, TokenTypes
  <2>. QED
    BY <1>1, <2>1 DEF TokenClock
<1>2. ASSUME NEW c \in Calls, NEW t \in Tokens, T!IssueCreate(c, t) PROVE TokenClock'
  <2>1. now + Lifetime \in T!Times /\ UNCHANGED now
    BY <1>2, TimesAssumption DEF T!IssueCreate, TokenClock, T!Times
  <2>2. \A s \in Tokens : \/ token'[s].expiresAt = now + Lifetime
                          \/ token'[s].expiresAt = token[s].expiresAt
    BY <1>2 DEF T!IssueCreate, TokenInv, TokenTypes
  <2>. QED
    BY <2>1, <2>2 DEF TokenClock
<1>3. CASE T!Tick
  BY <1>3, TimesAssumption DEF T!Tick, TokenClock
<1>4. CASE UNCHANGED <<now, token>>
  BY <1>4 DEF TokenClock
<1>5. ASSUME NEW c \in Calls, T!IssueInvalidate(c) PROVE TokenClock'
  BY <1>1, <1>5 DEF T!IssueInvalidate
<1>6. ASSUME NEW c \in Calls, T!UseTx(c) PROVE TokenClock'
  BY <1>1, <1>4, <1>6 DEF T!UseTx
<1>7. ASSUME NEW c \in Calls, T!AdminTx(c) PROVE TokenClock'
  BY <1>1, <1>4, <1>7 DEF T!AdminTx
<1>. QED
  BY <1>2, <1>3, <1>4, <1>5, <1>6, <1>7
  DEF T!Next, T!IssueRead, T!AdminRead, T!UseRead, T!Stops, T!vars

-----------------------------------------------------------------------------
(* Rates                                                                   *)

(* The refresh in flight is of the one call that is refreshing, and who    *)
(* waits does so for a call that is.                                       *)
RatesInv ==
  /\ X!TypeOK
  /\ \A c \in Readers : X!Refreshing(c) <=> c \in inflight
  /\ \A d \in Readers : rateCall[d].at = "wait" => rateCall[d].for \in inflight

LEMMA RateSlot ==
  ASSUME X!TypeOK, NEW c \in Readers
  PROVE  \/ rateCall[c] = X!Idle
         \/ /\ rateCall[c] = [at |-> rateCall[c].at, read |-> rateCall[c].read]
            /\ rateCall[c].at \in {"read", "fetch", "persist", "answer"}
            /\ rateCall[c].read \in X!Reads
         \/ /\ rateCall[c].at = "wait" /\ rateCall[c].for \in Readers
            /\ rateCall[c].read \in X!Reads
BY DEF X!TypeOK, X!Slots

(* A call starts the refresh, or goes on with what is no refresh.          *)
LEMMA ReaderMoves ==
  ASSUME RatesInv, NEW c \in Readers, NEW slot \in X!Slots \cup {X!Idle},
         rateCall' = [rateCall EXCEPT ![c] = slot],
         clock' \in X!Times, stored' \in X!Reads,
         \/ slot.at \in {"fetch", "persist", "answer"} /\ inflight' = {c} /\ inflight \subseteq {c}
         \/ /\ slot.at \notin {"fetch", "persist", "answer"} /\ c \notin inflight
            /\ inflight' = inflight /\ (slot.at = "wait" => slot.for \in inflight)
  PROVE  RatesInv'
<1>1. /\ rateCall'[c] = slot /\ \A d \in Readers \ {c} : rateCall'[d] = rateCall[d]
      /\ rateCall' \in [Readers -> X!Slots \cup {X!Idle}]
  BY DEF RatesInv, X!TypeOK
<1>2. inflight' \in {{}} \cup {{d} : d \in Readers}
  BY DEF RatesInv, X!TypeOK
<1>3. \A d \in Readers : X!Refreshing(d)' <=> d \in inflight'
  BY <1>1 DEF RatesInv, X!Refreshing
<1>4. \A d \in Readers : rateCall'[d].at = "wait" => rateCall'[d].for \in inflight'
  BY <1>1 DEF RatesInv
<1>. QED
  BY <1>1, <1>2, <1>3, <1>4 DEF RatesInv, X!TypeOK

(* The refresh is over for everybody who has to do with it.                *)
LEMMA ReadersSettle ==
  ASSUME RatesInv, NEW c \in Readers, X!Refreshing(c),
         rateCall' = X!Settled(c), inflight' = {}, UNCHANGED <<clock, stored>>
  PROVE  RatesInv'
<1>1. inflight = {c}
  BY DEF RatesInv, X!TypeOK
<1>2. \A d \in Readers : rateCall'[d] = X!Idle \/ (/\ rateCall'[d] = rateCall[d] /\ d # c
                                                   /\ rateCall[d].at # "wait")
  BY <1>1 DEF X!Settled, RatesInv
<1>3. \A d \in Readers : ~ X!Refreshing(d)' /\ rateCall'[d].at # "wait"
  BY <1>1, <1>2 DEF X!Refreshing, X!Idle, RatesInv
<1>4. rateCall' \in [Readers -> X!Slots \cup {X!Idle}]
  BY DEF X!Settled, RatesInv, X!TypeOK
<1>. QED
  BY <1>3, <1>4 DEF RatesInv, X!TypeOK

LEMMA RatesInitially == X!Init => RatesInv
BY TimesAssumption DEF X!Init, RatesInv, X!TypeOK, X!Times, X!Reads, X!Idle, X!Refreshing

LEMMA RatesInductive == RatesInv /\ [X!Next]_X!vars => RatesInv'
<1>. SUFFICES ASSUME RatesInv, [X!Next]_X!vars PROVE RatesInv'
  OBVIOUS
<1>t. clock \in X!Times /\ stored \in X!Reads
  BY DEF RatesInv, X!TypeOK
<1>1. ASSUME NEW c \in Readers, X!loadFromDb(c) PROVE RatesInv'
  <2>1. [at |-> "read", read |-> stored] \in X!Slots
    BY <1>t DEF X!Slots
  <2>2. c \notin inflight
    BY <1>1 DEF X!loadFromDb, RatesInv, X!Refreshing, X!Idle
  <2>. QED
    BY <1>1, <1>t, <2>1, <2>2, ReaderMoves DEF X!loadFromDb
<1>2. ASSUME NEW c \in Readers, X!Fresh(c) PROVE RatesInv'
  <2>1. c \notin inflight
    BY <1>2 DEF X!Fresh, RatesInv, X!Refreshing
  <2>. QED
    BY <1>2, <1>t, <2>1, ReaderMoves DEF X!Fresh, X!Idle
<1>3. ASSUME NEW c \in Readers, X!refreshOnce(c) PROVE RatesInv'
  <2>1. /\ rateCall[c].read \in X!Reads /\ c \notin inflight
        /\ rateCall[c] = [at |-> "read", read |-> rateCall[c].read]
    BY <1>3, RateSlot DEF X!refreshOnce, RatesInv, X!Refreshing, X!Idle
  <2>2. CASE inflight = {}
    <3>1. [rateCall[c] EXCEPT !.at = "fetch"] = [at |-> "fetch", read |-> rateCall[c].read]
      BY <2>1
    <3>2. /\ [at |-> "fetch", read |-> rateCall[c].read] \in X!Slots
          /\ rateCall' = [rateCall EXCEPT ![c] = [at |-> "fetch", read |-> rateCall[c].read]]
          /\ inflight' = {c} /\ UNCHANGED <<clock, stored>>
      BY <1>3, <2>1, <2>2, <3>1 DEF X!refreshOnce, X!Goto, X!Current, X!Slots
    <3>. QED
      BY <1>t, <2>2, <3>2, ReaderMoves
  <2>3. CASE inflight # {}
    <3>1. PICK d \in inflight :
            rateCall' = [rateCall EXCEPT ![c] = [at |-> "wait", for |-> d,
                                                 read |-> rateCall[c].read]]
      BY <1>3, <2>3 DEF X!refreshOnce, X!Current
    <3>2. d \in Readers
      BY DEF RatesInv, X!TypeOK
    <3>3. [at |-> "wait", for |-> d, read |-> rateCall[c].read] \in X!Slots
      BY <2>1, <3>2 DEF X!Slots
    <3>. QED
      BY <1>3, <1>t, <2>1, <2>3, <3>1, <3>3, ReaderMoves DEF X!refreshOnce, X!Current
  <2>. QED
    BY <2>2, <2>3
<1>4. ASSUME NEW c \in Readers, X!Fetched(c) PROVE RatesInv'
  <2>1. [at |-> "persist", read |-> {clock}] \in X!Slots
    BY <1>t DEF X!Slots, X!Reads
  <2>2. inflight = {c}
    BY <1>4 DEF X!Fetched, RatesInv, X!TypeOK, X!Refreshing
  <2>. QED
    BY <1>4, <1>t, <2>1, <2>2, ReaderMoves DEF X!Fetched
<1>5. ASSUME NEW c \in Readers, X!Persist(c) PROVE RatesInv'
  <2>1. /\ rateCall[c].read \in X!Reads
        /\ rateCall[c] = [at |-> "persist", read |-> rateCall[c].read]
    BY <1>5, RateSlot DEF X!Persist, RatesInv, X!Idle
  <2>2. [rateCall[c] EXCEPT !.at = "answer"] = [at |-> "answer", read |-> rateCall[c].read]
    BY <2>1
  <2>3. /\ [at |-> "answer", read |-> rateCall[c].read] \in X!Slots
        /\ rateCall' = [rateCall EXCEPT ![c] = [at |-> "answer", read |-> rateCall[c].read]]
        /\ stored' \in X!Reads /\ clock' \in X!Times
    BY <1>5, <1>t, <2>1, <2>2 DEF X!Persist, X!Goto, X!Slots
  <2>4. inflight = {c} /\ inflight' = {c}
    BY <1>5 DEF X!Persist, RatesInv, X!TypeOK, X!Refreshing
  <2>. QED
    BY <2>3, <2>4, ReaderMoves
<1>6. ASSUME NEW c \in Readers, X!Refreshed(c) \/ X!RefreshFails(c) PROVE RatesInv'
  BY <1>6, ReadersSettle DEF X!Refreshed, X!RefreshFails, X!Refreshing, X!Cleared
<1>7. CASE X!Tick \/ UNCHANGED X!vars
  <2>1. clock' \in X!Times /\ UNCHANGED <<stored, inflight, rateCall>>
    BY <1>7, <1>t, TimesAssumption DEF X!Tick, X!vars, X!Times
  <2>. QED
    BY <2>1 DEF RatesInv, X!TypeOK, X!Refreshing
<1>. QED
  BY <1>1, <1>2, <1>3, <1>4, <1>5, <1>6, <1>7 DEF X!Next

(* The strengthening says what the property does.                          *)
LEMMA RatesShared == RatesInv => X!RefreshIsShared
<1>. SUFFICES ASSUME RatesInv PROVE X!RefreshIsShared
  OBVIOUS
<1>1. X!OneRefresh
  BY DEF X!OneRefresh, RatesInv, X!TypeOK
<1>2. X!NobodyWaitsInVain
  <2>1. inflight \subseteq Readers
    BY DEF RatesInv, X!TypeOK
  <2>. QED
    BY <2>1 DEF X!NobodyWaitsInVain, RatesInv
<1>. QED
  BY <1>1, <1>2 DEF X!RefreshIsShared, RatesInv

-----------------------------------------------------------------------------
(* ModelConnections                                                        *)

(* Until an edit or a removal is written under another request, the edits  *)
(* in flight are of the row as it is and a connection that was removed is  *)
(* left alone.                                                             *)
ConnectionInv ==
  /\ TypeOK
  /\ status = "ACTIVE" => probed
  /\ ~ raced =>
       /\ Usable(row)
       /\ \A c \in Calls : call[c].at = "update" => Usable(Merged(call[c].patch))
       /\ deleted => status = "DISABLED" /\ \A c \in Calls : call[c] = Idle

(* A patch is a part of some configuration, ...                            *)
LEMMA PatchFields ==
  ASSUME NEW patch \in Patches
  PROVE  \A f \in DOMAIN patch : \E config \in Configs : patch[f] = config[f]
<1>1. PICK F : patch \in {[f \in F |-> config[f]] :
                            config \in {k \in Configs : k.endpointUrl = "set"}}
  BY DEF Patches
<1>. QED
  BY <1>1

(* ... so that the row merged with it is a configuration.                  *)
LEMMA MergedIsConfig ==
  ASSUME row \in Configs, NEW patch \in Patches
  PROVE  Merged(patch) \in Configs
<1>. DEFINE m == Merged(patch)
<1>1. \A f \in Fields : \E config \in Configs : m[f] = config[f]
  BY PatchFields DEF Merged
<1>2. m = [provider |-> m["provider"], endpointUrl |-> m["endpointUrl"],
           region |-> m["region"], authKind |-> m["authKind"],
           credentials |-> m["credentials"]]
  BY DEF Merged, Fields
<1>3. /\ m["provider"] \in {"HOSTED", "BEDROCK", "ANTHROPIC"}
      /\ m["endpointUrl"] \in {"null", "set"} /\ m["region"] \in {"null", "set"}
      /\ m["authKind"] \in {"none", "bearer", "aws_sigv4"}
      /\ m["credentials"] \in {"null", "set"}
  <2>. HIDE DEF m
  <2>. QED
    BY <1>1 DEF Fields, Configs
<1>. QED
  BY <1>2, <1>3 DEF Configs

LEMMA ConnectionsInitially == Init => ConnectionInv
<1>. SUFFICES ASSUME Init PROVE ConnectionInv
  OBVIOUS
<1>1. \A c \in Calls : call[c] = Idle /\ call[c].at # "update"
  BY DEF Init, Idle
<1>2. TypeOK
  BY DEF Init, TypeOK
<1>. QED
  BY <1>1, <1>2 DEF Init, ConnectionInv

(* A request that starts on a connection that is there.                    *)
LEMMA ConnectionRead ==
  ASSUME ConnectionInv, NEW c \in Calls, NEW slot \in Slots, Set(c, slot), ~ deleted,
         slot.at = "update" => Usable(Merged(slot.patch)),
         UNCHANGED <<row, status, deleted, ghosts>>
  PROVE  ConnectionInv'
<1>1. /\ call'[c] = slot /\ \A d \in Calls \ {c} : call'[d] = call[d]
      /\ TypeOK'
  BY DEF ConnectionInv, TypeOK, Set, ghosts
<1>2. \A patch : Merged(patch)' = Merged(patch)
  BY DEF Merged
<1>. QED
  BY <1>1, <1>2 DEF ConnectionInv, Usable, ghosts

(* A request that ends and leaves the row and what is gone as they are.    *)
LEMMA ConnectionReturn ==
  ASSUME ConnectionInv, NEW c \in Calls, call[c] # Idle, Return(c),
         UNCHANGED <<row, deleted, raced>>,
         status' \in {"DRAFT", "ACTIVE", "DISABLED"}, probed' \in BOOLEAN,
         status' = "ACTIVE" => probed'
  PROVE  ConnectionInv'
<1>1. /\ call'[c] = Idle /\ \A d \in Calls \ {c} : call'[d] = call[d]
      /\ TypeOK'
  BY DEF ConnectionInv, TypeOK, Return, Set
<1>2. \A patch : Merged(patch)' = Merged(patch)
  BY DEF Merged
<1>3. Idle.at # "update"
  BY DEF Idle
<1>. QED
  BY <1>1, <1>2, <1>3 DEF ConnectionInv, Usable

(* A write under no other request: nobody holds what it outdates.          *)
LEMMA ConnectionWrite ==
  ASSUME ConnectionInv, NEW c \in Calls, call[c] # Idle, Return(c),
         raced' = (raced \/ InFlight(c)), row' \in Configs, deleted' \in BOOLEAN,
         status' \in {"DRAFT", "ACTIVE", "DISABLED"}, UNCHANGED probed,
         status' = "ACTIVE" => probed,
         ~ raced => Usable(row)' /\ (deleted' => status' = "DISABLED")
  PROVE  ConnectionInv'
<1>1. /\ call'[c] = Idle /\ \A d \in Calls \ {c} : call'[d] = call[d]
      /\ TypeOK'
  BY DEF ConnectionInv, TypeOK, Return, Set
<1>2. Idle.at # "update"
  BY DEF Idle
<1>3. ~ raced' => ~ raced /\ \A d \in Calls : call'[d] = Idle
  BY <1>1 DEF InFlight
<1>. QED
  BY <1>1, <1>2, <1>3 DEF ConnectionInv

LEMMA ConnectionsInductive == ConnectionInv /\ [Next]_vars => ConnectionInv'
<1>. SUFFICES ASSUME ConnectionInv, [Next]_vars PROVE ConnectionInv'
  OBVIOUS
<1>t. /\ row \in Configs /\ status \in {"DRAFT", "ACTIVE", "DISABLED"}
      /\ deleted \in BOOLEAN /\ probed \in BOOLEAN
      /\ \A c \in Calls : call[c] \in Slots \cup {Idle}
  BY DEF ConnectionInv, TypeOK
<1>1. ASSUME NEW c \in Calls, NEW patch \in Patches, UpdateRead(c, patch)
      PROVE  ConnectionInv'
  <2>1. [at |-> "update", patch |-> patch] \in Slots
    BY DEF Slots
  <2>. QED
    BY <1>1, <2>1, ConnectionRead DEF UpdateRead, Allowed
<1>2. ASSUME NEW c \in Calls, UpdateWrite(c) PROVE ConnectionInv'
  <2>1. call[c] # Idle /\ call[c].patch \in Patches
    BY <1>2, <1>t DEF UpdateWrite, Slots, Idle
  <2>2. row' \in Configs /\ (~ raced => Usable(row)' /\ ~ deleted)
    BY <1>2, <1>t, <2>1, MergedIsConfig DEF UpdateWrite, ConnectionInv, Usable
  <2>3. status = "ACTIVE" => probed
    BY DEF ConnectionInv
  <2>. QED
    BY <1>2, <1>t, <2>1, <2>2, <2>3, ConnectionWrite DEF UpdateWrite
<1>3. ASSUME NEW c \in Calls, TestRead(c) PROVE ConnectionInv'
  <2>1. [at |-> "test", draft |-> status = "DRAFT"] \in Slots
    BY DEF Slots
  <2>. QED
    BY <1>3, <2>1, ConnectionRead DEF TestRead
<1>4. ASSUME NEW c \in Calls, NEW ok \in BOOLEAN, TestWrite(c, ok) PROVE ConnectionInv'
  <2>1. call[c] # Idle
    BY <1>4 DEF TestWrite, Idle
  <2>2. /\ status' \in {"DRAFT", "ACTIVE", "DISABLED"} /\ probed' \in BOOLEAN
        /\ status' = "ACTIVE" => probed'
    BY <1>4, <1>t DEF TestWrite, Promoted, ConnectionInv
  <2>. QED
    BY <1>4, <2>1, <2>2, ConnectionReturn DEF TestWrite
<1>5. ASSUME NEW c \in Calls, RemoveRead(c) PROVE ConnectionInv'
  <2>1. [at |-> "remove"] \in Slots
    BY DEF Slots
  <2>. QED
    BY <1>5, <2>1, ConnectionRead DEF RemoveRead
<1>6. ASSUME NEW c \in Calls, RemoveWrite(c) PROVE ConnectionInv'
  <2>1. call[c] # Idle
    BY <1>6 DEF RemoveWrite, Idle
  <2>2. ~ raced => Usable(row)'
    BY <1>6 DEF RemoveWrite, ConnectionInv, Usable
  <2>. QED
    BY <1>6, <1>t, <2>1, <2>2, ConnectionWrite DEF RemoveWrite
<1>7. ASSUME NEW c \in Calls, Stops(c) PROVE ConnectionInv'
  BY <1>7, <1>t, ConnectionReturn DEF Stops, ConnectionInv, ghosts
<1>8. CASE UNCHANGED vars
  BY <1>8 DEF vars, ghosts, ConnectionInv, TypeOK, Usable, Merged
<1>. QED
  BY <1>1, <1>2, <1>3, <1>4, <1>5, <1>6, <1>7, <1>8 DEF Next

-----------------------------------------------------------------------------
(* Uploads                                                                 *)

LogoValues == {{}} \cup {{j} : j \in U!Keys \cup {Elsewhere}}

(* A request is the only one for its row, and has what it read before it:  *)
(* the object it commits, the key that its commit or its deletion drops.   *)
OnlyFor(c) ==
  \A d \in Calls \ {c} : uploadCall[d] # U!Idle => uploadCall[d].k \notin U!RowOf(uploadCall[c].k)

UpToDate(c) ==
  LET slot == uploadCall[c] IN
  /\ slot.at \in {"found", "commit"} => slot.k \in store /\ slot.k \notin doomed
  /\ slot.at = "commit" => slot.old = U!Previous(slot.k)
  /\ slot.at = "delete" => slot.old = U!Current(slot.k)
  /\ slot.at = "tail" => slot.old \cap U!Referred \subseteq keyRaced

(* Keys are handed out before they are used, and a request drops none but  *)
(* those of its row, or raced ones.                                        *)
KeysOfRow(slot) ==
  slot # U!Idle =>
    /\ slot.at \in {"found", "commit"} => slot.k \in presigned
    /\ slot.at # "found" =>
         /\ slot.old \subseteq presigned
         /\ slot.old \subseteq U!RowOf(slot.k) \cup keyRaced

FilesInv ==
  /\ U!TypeOK
  /\ U!Referred \subseteq presigned
  /\ \A c \in Calls : KeysOfRow(uploadCall[c])
  /\ \A k \in keyRaced : U!RowOf(k) \subseteq keyRaced
  /\ logo \cap Assets \subseteq keyRaced
  /\ removable \cap keyRaced = {}
  /\ \A c \in Calls : /\ uploadCall[c] # U!Idle
                      /\ uploadCall[c].k \notin keyRaced
                      => OnlyFor(c) /\ UpToDate(c)
  /\ U!LiveIsStored
  /\ U!NothingStaysBehind

LEMMA UploadSlot ==
  ASSUME U!TypeOK, NEW c \in Calls, uploadCall[c] # U!Idle
  PROVE  /\ uploadCall[c].k \in U!Keys
         /\ uploadCall[c].at \in {"found", "commit", "delete", "tail"}
         /\ uploadCall[c].at # "found" =>
              /\ uploadCall[c].old \in U!Held
              /\ uploadCall[c] = [at |-> uploadCall[c].at, k |-> uploadCall[c].k,
                                  old |-> uploadCall[c].old]
BY DEF U!TypeOK, U!Slots

(* The rows of the keys do not overlap.                                    *)
LEMMA RowsApart ==
  ASSUME NEW j \in U!Keys, NEW k \in U!Keys
  PROVE  /\ k \in U!RowOf(k) /\ U!RowOf(k) \subseteq U!Keys
         /\ j \in U!RowOf(k) => U!RowOf(j) = U!RowOf(k)
         /\ j \in U!RowOf(k) => k \in U!RowOf(j)
BY DEF U!RowOf, U!Keys

(* Raced keys are whole rows, and the logo names no other key of an asset. *)
LEMMA RacedRows ==
  ASSUME FilesInv, NEW k \in U!Keys
  PROVE  /\ keyRaced \subseteq U!Keys
         /\ k \in keyRaced => U!RowOf(k) \subseteq keyRaced
         /\ \A j \in U!RowOf(k) : j \in keyRaced => k \in keyRaced
         /\ \A j \in logo : j \in Assets => j \in keyRaced
BY RowsApart DEF FilesInv, U!TypeOK

(* A step of a request, which touches no row but its own.                  *)
LEMMA RequestStep ==
  ASSUME FilesInv, NEW c \in Calls, NEW k \in U!Keys, NEW slot \in U!Slots \cup {U!Idle},
         uploadCall' = [uploadCall EXCEPT ![c] = slot],
         uploadCall[c] # U!Idle => uploadCall[c].k = k,
         slot # U!Idle => slot.k = k, KeysOfRow(slot),
         IF uploadCall[c] = U!Idle THEN keyRaced' = U!Overlap(c, k) ELSE keyRaced' = keyRaced,
         UNCHANGED <<presigned, store>>,
         doomed' \subseteq presigned, \A j : j \in doomed => j \in doomed',
         \A j : j \in doomed' => j \in doomed \/ j \in U!RowOf(k) \/ j \in keyRaced,
         logo' \in LogoValues, \A j \in logo' : j \in Assets => j \in keyRaced,
         asset' \in [Assets -> {"none", "live", "deleted"}],
         IF k \in Logos THEN asset' = asset
           ELSE logo' = logo /\ \A j \in Assets \ {k} : asset'[j] = asset[j],
         (U!Referred)' \subseteq presigned,
         removable' \subseteq U!Keys, removable' \cap keyRaced' = {},
         slot # U!Idle /\ k \notin keyRaced' => UpToDate(c)',
         k \notin keyRaced' =>
           \A j \in U!RowOf(k) \cap (U!Referred)' : j \in store /\ j \notin doomed',
         (U!NothingStaysBehind)'
  PROVE  FilesInv'
<1>1. /\ uploadCall'[c] = slot /\ \A d \in Calls \ {c} : uploadCall'[d] = uploadCall[d]
      /\ uploadCall' \in [Calls -> U!Slots \cup {U!Idle}]
  BY DEF FilesInv, U!TypeOK
<1>2. /\ keyRaced' = keyRaced \/ keyRaced' = keyRaced \cup U!RowOf(k)
      /\ keyRaced \subseteq keyRaced'
  BY DEF U!Overlap
<1>3. /\ (U!TypeOK)' /\ \A j \in keyRaced' : U!RowOf(j) \subseteq keyRaced'
      /\ logo' \cap Assets \subseteq keyRaced'
  <2>1. keyRaced' \subseteq U!Keys /\ \A j \in keyRaced' : U!RowOf(j) \subseteq keyRaced'
    BY <1>2, RowsApart DEF FilesInv, U!TypeOK
  <2>. QED
    BY <1>1, <1>2, <2>1 DEF FilesInv, U!TypeOK, LogoValues
<1>4. \A d \in Calls : KeysOfRow(uploadCall[d])'
  BY <1>1, <1>2 DEF FilesInv, KeysOfRow
<1>5. \A j \in U!Keys \ (U!RowOf(k) \cup keyRaced') :
        /\ j \in (U!Referred)' <=> j \in U!Referred
        /\ j \in doomed' <=> j \in doomed
  <2>1. ASSUME NEW j \in U!Keys \ (U!RowOf(k) \cup keyRaced')
        PROVE  /\ j \in logo' <=> j \in logo
               /\ j \in (U!Live)' <=> j \in U!Live
    <3>1. CASE k \in Logos
      <4>1. j \in Assets /\ j \notin keyRaced
        BY <1>2, <3>1 DEF U!RowOf, U!Keys
      <4>2. j \notin logo' /\ j \notin logo
        BY <4>1, RacedRows
      <4>. QED
        BY <3>1, <4>2 DEF U!Live
    <3>2. CASE k \notin Logos
      BY <3>2 DEF U!Live, U!RowOf
    <3>. QED
      BY <3>1, <3>2
  <2>. QED
    BY <1>2, <2>1 DEF U!Referred
<1>6. \A d \in Calls \ {c} : /\ uploadCall[d] # U!Idle
                             /\ uploadCall[d].k \notin keyRaced'
                             => uploadCall[d].k \in U!Keys \ U!RowOf(k)
  <2>. SUFFICES ASSUME NEW d \in Calls \ {c}, uploadCall[d] # U!Idle,
                       uploadCall[d].k \notin keyRaced', uploadCall[d].k \in U!RowOf(k)
                PROVE  FALSE
    BY UploadSlot DEF FilesInv
  <2>1. uploadCall[d].k \in U!Keys
    BY UploadSlot DEF FilesInv
  <2>2. CASE uploadCall[c] = U!Idle
    BY <2>2, RowsApart DEF U!Overlap
  <2>3. CASE uploadCall[c] # U!Idle
    <3>1. k \notin keyRaced
      BY <1>2, <2>1, <2>3, RowsApart DEF FilesInv
    <3>. QED
      BY <2>3, <3>1 DEF FilesInv, OnlyFor
  <2>. QED
    BY <2>2, <2>3
<1>7. ASSUME NEW d \in Calls, uploadCall'[d] # U!Idle, uploadCall'[d].k \notin keyRaced'
      PROVE  OnlyFor(d)' /\ UpToDate(d)'
  <2>1. CASE d = c
    <3>1. k \notin keyRaced' /\ slot # U!Idle
      BY <1>1, <1>7, <2>1
    <3>2. \A e \in Calls \ {c} : uploadCall[e] # U!Idle => uploadCall[e].k \notin U!RowOf(k)
      <4>. SUFFICES ASSUME NEW e \in Calls \ {c}, uploadCall[e] # U!Idle,
                           uploadCall[e].k \in U!RowOf(k)
                    PROVE  FALSE
        OBVIOUS
      <4>1. uploadCall[e].k \in keyRaced'
        BY <1>6, UploadSlot DEF FilesInv
      <4>2. uploadCall[e].k \in U!Keys
        BY UploadSlot DEF FilesInv
      <4>. QED
        BY <1>3, <3>1, <4>1, <4>2, RowsApart
    <3>3. OnlyFor(c)'
      BY <1>1, <3>1, <3>2 DEF OnlyFor, U!RowOf
    <3>. QED
      BY <2>1, <3>1, <3>3
  <2>2. CASE d # c
    <3>1. /\ uploadCall'[d] = uploadCall[d]
          /\ uploadCall[d].k \in U!Keys \ (U!RowOf(k) \cup keyRaced')
          /\ OnlyFor(d) /\ UpToDate(d)
      BY <1>1, <1>2, <1>6, <1>7, <2>2 DEF FilesInv
    <3>2. k \notin U!RowOf(uploadCall[d].k)
      BY <3>1, RowsApart
    <3>3. OnlyFor(d)'
      BY <1>1, <3>1, <3>2 DEF OnlyFor, U!RowOf
    <3>4. uploadCall[d].k \in Logos => logo' = logo
      BY <3>1 DEF U!RowOf
    <3>5. /\ U!Current(uploadCall[d].k)' = U!Current(uploadCall[d].k)
          /\ U!Previous(uploadCall[d].k)' = U!Previous(uploadCall[d].k)
      BY <3>1, <3>4 DEF U!Previous, U!Current
    <3>6. uploadCall[d].at = "tail" => uploadCall[d].old \cap (U!Referred)' \subseteq keyRaced'
      <4>. SUFFICES ASSUME uploadCall[d].at = "tail", NEW j \in uploadCall[d].old,
                           j \in (U!Referred)', j \notin keyRaced'
                    PROVE  FALSE
        OBVIOUS
      <4>1. j \notin keyRaced /\ j \in U!RowOf(uploadCall[d].k)
        BY <1>2, <2>2, <1>7, <3>1 DEF FilesInv, KeysOfRow
      <4>2. j \in U!Keys \ (U!RowOf(k) \cup keyRaced')
        BY <3>1, <4>1, RowsApart
      <4>3. j \in U!Referred
        BY <1>5, <4>2
      <4>. QED
        BY <3>1, <4>1, <4>3 DEF UpToDate
    <3>7. UpToDate(d)'
      BY <1>5, <3>1, <3>5, <3>6 DEF UpToDate
    <3>. QED
      BY <3>3, <3>7
  <2>. QED
    BY <2>1, <2>2
<1>8. (U!LiveIsStored)'
  <2>. SUFFICES ASSUME NEW j \in (U!Referred)', j \notin keyRaced'
                PROVE  j \in store /\ j \notin doomed'
    BY DEF U!LiveIsStored
  <2>1. j \in U!Keys
    BY DEF U!Referred, U!Live, U!Keys
  <2>2. CASE j \in U!RowOf(k)
    BY <1>3, <2>1, <2>2, RowsApart
  <2>3. CASE j \notin U!RowOf(k)
    BY <1>2, <1>5, <2>1, <2>3 DEF FilesInv, U!LiveIsStored
  <2>. QED
    BY <2>2, <2>3
<1>. QED
  BY <1>1, <1>3, <1>4, <1>7, <1>8 DEF FilesInv

(* What the rows that nothing raced for refer to is there.                 *)
LEMMA RowIsStored ==
  ASSUME FilesInv, NEW k \in U!Keys, k \notin keyRaced
  PROVE  \A j \in U!RowOf(k) \cap U!Referred : j \in store /\ j \notin doomed
<1>. SUFFICES ASSUME NEW j \in U!RowOf(k), j \in U!Referred
              PROVE  j \in store /\ j \notin doomed
  OBVIOUS
<1>1. j \in U!Keys /\ k \in U!RowOf(j)
  BY RowsApart
<1>2. j \notin keyRaced
  BY <1>1 DEF FilesInv
<1>. QED
  BY <1>2 DEF FilesInv, U!LiveIsStored

(* A step that writes no row and ends no removal leaves nothing behind.    *)
LEMMA NothingNewBehind ==
  ASSUME FilesInv, NEW c \in Calls, NEW slot,
         uploadCall' = [uploadCall EXCEPT ![c] = slot], uploadCall[c].at # "tail",
         UNCHANGED <<store, doomed, logo, asset>>, removable' \subseteq removable
  PROVE  (U!NothingStaysBehind)' /\ (U!Referred)' = U!Referred
<1>1. \A d \in Calls : uploadCall[d].at = "tail" => uploadCall'[d] = uploadCall[d]
  BY DEF FilesInv, U!TypeOK
<1>. QED
  BY <1>1 DEF FilesInv, U!NothingStaysBehind, U!Referred, U!Live

(* What a row holds is one key, handed out, of the row or raced.           *)
LEMMA CurrentOfRow ==
  ASSUME FilesInv, NEW k \in U!Keys, k \in Logos \/ k \in presigned
  PROVE  /\ U!Current(k) \in U!Held /\ U!Previous(k) \in U!Held
         /\ U!Current(k) \subseteq presigned /\ U!Previous(k) \subseteq U!Current(k)
         /\ U!Current(k) \subseteq U!RowOf(k) \cup keyRaced
<1>1. CASE k \in Logos
  <2>1. U!Current(k) = logo \cap U!Keys /\ U!RowOf(k) = Logos
    BY <1>1 DEF U!Current, U!RowOf
  <2>2. U!Current(k) \subseteq presigned /\ U!Current(k) \subseteq Logos \cup keyRaced
    BY <2>1 DEF FilesInv, U!Referred, U!Keys
  <2>3. U!Current(k) \in U!Held
    BY <2>1 DEF U!Held, FilesInv, U!TypeOK
  <2>. QED
    BY <2>1, <2>2, <2>3 DEF U!Previous, U!Held
<1>2. CASE k \notin Logos
  BY <1>2, RowsApart DEF U!Current, U!Previous, U!Held
<1>. QED
  BY <1>1, <1>2

LEMMA CommitHeadKeeps ==
  ASSUME FilesInv, NEW c \in Calls, NEW k \in U!Keys, U!CommitHead(c, k)
  PROVE  FilesInv'
<1>. DEFINE slot == [at |-> "found", k |-> k]
<1>1. slot \in U!Slots /\ slot # U!Idle /\ KeysOfRow(slot)
  BY DEF U!Slots, U!Idle, KeysOfRow, U!CommitHead, U!Head, FilesInv, U!TypeOK
<1>2. /\ uploadCall[c] = U!Idle /\ uploadCall' = [uploadCall EXCEPT ![c] = slot]
      /\ k \in store /\ keyRaced' = U!Overlap(c, k) /\ removable' = removable \ keyRaced'
      /\ UNCHANGED <<presigned, store, doomed, logo, asset>>
  BY DEF U!CommitHead, U!Head, U!Set, U!files, U!rows
<1>3. uploadCall'[c] = slot
  BY <1>2 DEF FilesInv, U!TypeOK
<1>4. k \notin keyRaced' => UpToDate(c)'
  BY <1>2, <1>3, RowsApart DEF UpToDate, U!Overlap
<1>5. keyRaced \subseteq keyRaced' /\ uploadCall[c].at # "tail"
  BY <1>2 DEF U!Overlap, U!Idle
<1>6. (U!NothingStaysBehind)' /\ (U!Referred)' = U!Referred
  BY <1>2, <1>5, NothingNewBehind
<1>7. k \notin keyRaced' =>
        \A j \in U!RowOf(k) \cap (U!Referred)' : j \in store /\ j \notin doomed'
  BY <1>2, <1>5, <1>6, RowIsStored
<1>8. U!TypeOK /\ U!Referred \subseteq presigned
  BY DEF FilesInv
<1>9. /\ slot # U!Idle => slot.k = k
      /\ uploadCall[c] # U!Idle => uploadCall[c].k = k
      /\ logo' \in LogoValues /\ \A j \in logo' : j \in Assets => j \in keyRaced
      /\ asset' \in [Assets -> {"none", "live", "deleted"}]
      /\ removable' \subseteq U!Keys /\ removable' \cap keyRaced' = {}
      /\ doomed' \subseteq presigned /\ (U!Referred)' \subseteq presigned
  BY <1>2, <1>6, <1>8, RacedRows DEF U!TypeOK, LogoValues
<1>. HIDE DEF slot
<1>. QED
  BY <1>1, <1>2, <1>4, <1>6, <1>7, <1>9, RequestStep

LEMMA DeleteReadKeeps ==
  ASSUME FilesInv, NEW c \in Calls, NEW k \in U!Keys, U!DeleteRead(c, k)
  PROVE  FilesInv'
<1>. DEFINE slot == [at |-> "delete", k |-> k, old |-> U!Current(k)]
<1>1. k \in Logos \/ k \in presigned
  BY DEF U!DeleteRead, FilesInv, U!Referred
<1>2. slot \in U!Slots /\ slot # U!Idle /\ KeysOfRow(slot)
  BY <1>1, CurrentOfRow DEF U!Slots, U!Idle, KeysOfRow
<1>3. /\ uploadCall[c] = U!Idle /\ uploadCall' = [uploadCall EXCEPT ![c] = slot]
      /\ keyRaced' = U!Overlap(c, k) /\ removable' = removable \ keyRaced'
      /\ UNCHANGED <<presigned, store, doomed, logo, asset>>
  BY DEF U!DeleteRead, U!Set, U!files, U!rows
<1>4. uploadCall'[c] = slot
  BY <1>3 DEF FilesInv, U!TypeOK
<1>5. keyRaced \subseteq keyRaced' /\ uploadCall[c].at # "tail"
  BY <1>3 DEF U!Overlap, U!Idle
<1>6. (U!NothingStaysBehind)' /\ (U!Referred)' = U!Referred
  BY <1>3, <1>5, NothingNewBehind
<1>7. UpToDate(c)'
  <2>1. U!Current(k)' = U!Current(k)
    BY <1>3 DEF U!Current
  <2>2. uploadCall'[c].at = "delete" /\ uploadCall'[c].k = k /\ uploadCall'[c].old = U!Current(k)
    BY <1>4
  <2>. HIDE DEF slot
  <2>. QED
    BY <2>1, <2>2 DEF UpToDate
<1>8. k \notin keyRaced' =>
        \A j \in U!RowOf(k) \cap (U!Referred)' : j \in store /\ j \notin doomed'
  BY <1>3, <1>5, <1>6, RowIsStored
<1>9. U!TypeOK /\ U!Referred \subseteq presigned
  BY DEF FilesInv
<1>10. /\ slot # U!Idle => slot.k = k
       /\ uploadCall[c] # U!Idle => uploadCall[c].k = k
       /\ logo' \in LogoValues /\ \A j \in logo' : j \in Assets => j \in keyRaced
       /\ asset' \in [Assets -> {"none", "live", "deleted"}]
       /\ removable' \subseteq U!Keys /\ removable' \cap keyRaced' = {}
       /\ doomed' \subseteq presigned /\ (U!Referred)' \subseteq presigned
  BY <1>3, <1>6, <1>9, RacedRows DEF U!TypeOK, LogoValues
<1>. HIDE DEF slot
<1>. QED
  BY <1>2, <1>3, <1>6, <1>7, <1>8, <1>10, RequestStep

LEMMA CommitReadKeeps ==
  ASSUME FilesInv, NEW c \in Calls, U!CommitRead(c)
  PROVE  FilesInv'
<1>. DEFINE k == uploadCall[c].k
            slot == [at |-> "commit", k |-> k, old |-> U!Previous(k)]
<1>1. /\ uploadCall[c] # U!Idle /\ uploadCall[c].at = "found"
      /\ uploadCall' = [uploadCall EXCEPT ![c] = slot]
      /\ UNCHANGED <<presigned, store, doomed, logo, asset, removable, keyRaced>>
  BY DEF U!CommitRead, U!Idle, U!Set, U!files, U!rows, U!ghosts
<1>2. k \in U!Keys /\ k \in presigned
  BY <1>1, UploadSlot DEF FilesInv, KeysOfRow
<1>3. slot \in U!Slots /\ slot # U!Idle /\ KeysOfRow(slot)
  <2>1. /\ U!Previous(k) \in U!Held /\ U!Previous(k) \subseteq presigned
        /\ U!Previous(k) \subseteq U!RowOf(k) \cup keyRaced
    BY <1>2, CurrentOfRow
  <2>. QED
    BY <1>2, <2>1 DEF U!Slots, U!Idle, KeysOfRow
<1>4. uploadCall'[c] = slot
  BY <1>1 DEF FilesInv, U!TypeOK
<1>5. (U!NothingStaysBehind)' /\ (U!Referred)' = U!Referred
  BY <1>1, NothingNewBehind
<1>6. k \notin keyRaced => UpToDate(c)'
  <2>1. U!Previous(k)' = U!Previous(k)
    BY <1>1, <1>4 DEF U!Previous, U!Current
  <2>2. k \notin keyRaced => k \in store /\ k \notin doomed
    BY <1>1 DEF FilesInv, UpToDate
  <2>. QED
    BY <1>1, <1>4, <2>1, <2>2 DEF UpToDate, U!Previous, U!Current
<1>7. k \notin keyRaced' =>
        \A j \in U!RowOf(k) \cap (U!Referred)' : j \in store /\ j \notin doomed'
  BY <1>1, <1>2, <1>5, RowIsStored
<1>8. U!TypeOK /\ U!Referred \subseteq presigned /\ removable \cap keyRaced = {}
  BY DEF FilesInv
<1>9. /\ slot # U!Idle => slot.k = k
      /\ uploadCall[c] # U!Idle => uploadCall[c].k = k
      /\ logo' \in LogoValues /\ \A j \in logo' : j \in Assets => j \in keyRaced
      /\ asset' \in [Assets -> {"none", "live", "deleted"}]
      /\ removable' \subseteq U!Keys /\ removable' \cap keyRaced' = {}
      /\ doomed' \subseteq presigned /\ (U!Referred)' \subseteq presigned
  BY <1>1, <1>2, <1>5, <1>8, RacedRows DEF U!TypeOK, LogoValues
<1>. HIDE DEF slot
<1>. QED
  BY <1>1, <1>2, <1>3, <1>5, <1>6, <1>7, <1>9, RequestStep

LEMMA CommitWriteKeeps ==
  ASSUME FilesInv, NEW c \in Calls, U!CommitWrite(c)
  PROVE  FilesInv'
<1>. DEFINE k == uploadCall[c].k
            slot == [at |-> "tail", k |-> k, old |-> uploadCall[c].old]
<1>1. /\ uploadCall[c] # U!Idle /\ uploadCall[c].at = "commit"
      /\ IF k \in Logos THEN logo' = {k} /\ asset' = asset
           ELSE asset' = [asset EXCEPT ![k] = "live"] /\ logo' = logo
      /\ removable' = removable \cup ({k} \ keyRaced)
      /\ UNCHANGED <<presigned, store, doomed, keyRaced>>
  BY DEF U!CommitWrite, U!Idle, U!files
<1>2. /\ k \in U!Keys /\ k \in presigned
      /\ uploadCall[c] = [at |-> "commit", k |-> k, old |-> uploadCall[c].old]
      /\ uploadCall[c].old \in U!Held /\ KeysOfRow(uploadCall[c])
  <2>1. KeysOfRow(uploadCall[c]) /\ U!TypeOK
    BY DEF FilesInv
  <2>2. k \in presigned
    BY <1>1, <2>1 DEF KeysOfRow
  <2>. QED
    BY <1>1, <2>1, <2>2, UploadSlot
<1>3. [uploadCall[c] EXCEPT !.at = "tail"] = slot
  BY <1>2
<1>4. /\ uploadCall' = [uploadCall EXCEPT ![c] = slot] /\ uploadCall'[c] = slot
      /\ \A d \in Calls \ {c} : uploadCall'[d] = uploadCall[d]
  BY <1>3 DEF U!CommitWrite, FilesInv, U!TypeOK
<1>5. slot \in U!Slots /\ slot # U!Idle /\ KeysOfRow(slot)
  BY <1>1, <1>2 DEF U!Slots, U!Idle, KeysOfRow
<1>6. (U!Referred)' = IF k \in Logos THEN {k} \cup U!Live
                      ELSE (logo \cap U!Keys) \cup U!Live \cup {k}
  <2>1. k \notin Logos => k \in Assets
    BY <1>2 DEF U!Keys
  <2>2. U!TypeOK
    BY DEF FilesInv
  <2>3. (U!Live)' = IF k \in Logos THEN U!Live ELSE U!Live \cup {k}
    BY <1>1, <2>1, <2>2 DEF U!Live, U!TypeOK
  <2>. QED
    BY <1>1, <1>2, <2>3 DEF U!Referred
<1>7. /\ k \in (U!Referred)'
      /\ \A j \in U!Keys : /\ j \in (U!Referred)' => j = k \/ j \in U!Referred
                           /\ j \in U!Referred => j \in (U!Referred)' \/ (k \in Logos /\ j \in logo \ {k})
  BY <1>6 DEF U!Referred
<1>8. k \notin keyRaced => /\ k \in store /\ k \notin doomed
                           /\ uploadCall[c].old = U!Previous(k)
  BY <1>1 DEF FilesInv, UpToDate
<1>9. k \notin keyRaced => UpToDate(c)'
  <2>. SUFFICES ASSUME k \notin keyRaced, NEW j \in uploadCall[c].old, j \in (U!Referred)'
                PROVE  j \in keyRaced
    BY <1>1, <1>4 DEF UpToDate
  <2>1. j \in U!Previous(k) /\ j # k /\ k \in Logos /\ j \in logo
    BY <1>8 DEF U!Previous, U!Current
  <2>2. j \in Assets
    BY <1>6, <2>1 DEF U!Live
  <2>. QED
    BY <1>2, <2>1, <2>2, RacedRows
<1>10. k \notin keyRaced' =>
         \A j \in U!RowOf(k) \cap (U!Referred)' : j \in store /\ j \notin doomed'
  BY <1>1, <1>2, <1>7, <1>8, RowIsStored, RowsApart
<1>11. (U!NothingStaysBehind)'
  <2>. SUFFICES ASSUME NEW j \in removable', j \in store, j \notin (U!Referred)'
                PROVE  j \in doomed \/ \E d \in Calls : uploadCall'[d].at = "tail" /\ j \in uploadCall'[d].old
    BY <1>1 DEF U!NothingStaysBehind
  <2>1. j \in U!Keys /\ j # k /\ j \in removable /\ j \notin keyRaced
    BY <1>1, <1>7 DEF FilesInv, U!TypeOK
  <2>2. CASE j \in U!Referred
    <3>1. k \in Logos /\ j \in logo \ {k} /\ j \in U!RowOf(k)
      BY <1>2, <1>7, <2>1, <2>2, RacedRows DEF U!RowOf, U!Keys
    <3>2. k \notin keyRaced
      BY <1>2, <2>1, <3>1, RacedRows
    <3>. QED
      BY <1>4, <1>8, <2>1, <3>1, <3>2 DEF U!Previous, U!Current
  <2>3. CASE j \notin U!Referred
    BY <1>1, <1>4, <2>1, <2>3 DEF FilesInv, U!NothingStaysBehind
  <2>. QED
    BY <2>2, <2>3
<1>12. /\ logo' \in LogoValues /\ \A j \in logo' : j \in Assets => j \in keyRaced
  BY <1>1, <1>2, RacedRows, KeysAssumption DEF FilesInv, U!TypeOK, LogoValues
<1>13. /\ asset' \in [Assets -> {"none", "live", "deleted"}]
       /\ k \notin Logos => \A j \in Assets \ {k} : asset'[j] = asset[j]
  BY <1>1 DEF FilesInv, U!TypeOK
<1>14. /\ (U!Referred)' \subseteq presigned
       /\ removable' \subseteq U!Keys /\ removable' \cap keyRaced' = {}
  BY <1>1, <1>2, <1>6 DEF FilesInv, U!TypeOK, U!Referred
<1>15. doomed' \subseteq presigned
  BY <1>1 DEF FilesInv, U!TypeOK
<1>. HIDE DEF slot
<1>. QED
  BY <1>1, <1>2, <1>4, <1>5, <1>9, <1>10, <1>11, <1>12, <1>13, <1>14, <1>15, RequestStep
     DEF slot

LEMMA DeleteWriteKeeps ==
  ASSUME FilesInv, NEW c \in Calls, U!DeleteWrite(c)
  PROVE  FilesInv'
<1>. DEFINE k == uploadCall[c].k
            slot == [at |-> "tail", k |-> k, old |-> uploadCall[c].old]
<1>1. /\ uploadCall[c] # U!Idle /\ uploadCall[c].at = "delete"
      /\ IF k \in Logos THEN logo' = {} /\ asset' = asset
           ELSE asset' = [asset EXCEPT ![k] = "deleted"] /\ logo' = logo
      /\ UNCHANGED <<presigned, store, doomed, removable, keyRaced>>
  BY DEF U!DeleteWrite, U!Idle, U!files, U!ghosts
<1>2. /\ k \in U!Keys
      /\ uploadCall[c] = [at |-> "delete", k |-> k, old |-> uploadCall[c].old]
      /\ uploadCall[c].old \in U!Held /\ KeysOfRow(uploadCall[c])
  BY <1>1, UploadSlot DEF FilesInv
<1>3. [uploadCall[c] EXCEPT !.at = "tail"] = slot
  BY <1>2
<1>4. /\ uploadCall' = [uploadCall EXCEPT ![c] = slot] /\ uploadCall'[c] = slot
      /\ \A d \in Calls \ {c} : uploadCall'[d] = uploadCall[d]
  BY <1>3 DEF U!DeleteWrite, FilesInv, U!TypeOK
<1>5. slot \in U!Slots /\ slot # U!Idle /\ KeysOfRow(slot)
  BY <1>1, <1>2 DEF U!Slots, U!Idle, KeysOfRow
<1>6. (U!Referred)' = IF k \in Logos THEN U!Live ELSE (logo \cap U!Keys) \cup (U!Live \ {k})
  <2>1. k \notin Logos => k \in Assets
    BY <1>2 DEF U!Keys
  <2>2. U!TypeOK
    BY DEF FilesInv
  <2>3. (U!Live)' = IF k \in Logos THEN U!Live ELSE U!Live \ {k}
    BY <1>1, <2>1, <2>2 DEF U!Live, U!TypeOK
  <2>. QED
    BY <1>1, <2>3 DEF U!Referred
<1>7. /\ (U!Referred)' \subseteq U!Referred
      /\ \A j \in U!Referred : \/ j \in (U!Referred)'
                               \/ IF k \in Logos THEN j \in logo ELSE j = k
  BY <1>6 DEF U!Referred
<1>8. k \notin keyRaced => uploadCall[c].old = U!Current(k)
  BY <1>1 DEF FilesInv, UpToDate
<1>9. k \notin keyRaced => UpToDate(c)'
  <2>. SUFFICES ASSUME k \notin keyRaced, NEW j \in uploadCall[c].old, j \in (U!Referred)'
                PROVE  j \in keyRaced
    BY <1>1, <1>4 DEF UpToDate
  <2>1. j \in U!Current(k)
    BY <1>8
  <2>2. CASE k \in Logos
    BY <1>2, <1>6, <2>1, <2>2, RacedRows DEF U!Current, U!Live
  <2>3. CASE k \notin Logos
    BY <1>2, <1>6, <2>1, <2>3, RacedRows DEF U!Current, U!Keys
  <2>. QED
    BY <2>2, <2>3
<1>10. k \notin keyRaced' =>
         \A j \in U!RowOf(k) \cap (U!Referred)' : j \in store /\ j \notin doomed'
  BY <1>1, <1>2, <1>7, RowIsStored
<1>11. (U!NothingStaysBehind)'
  <2>. SUFFICES ASSUME NEW j \in removable, j \in store, j \notin (U!Referred)'
                PROVE  j \in doomed \/ \E d \in Calls : uploadCall'[d].at = "tail" /\ j \in uploadCall'[d].old
    BY <1>1 DEF U!NothingStaysBehind
  <2>1. j \in U!Keys /\ j \notin keyRaced
    BY DEF FilesInv, U!TypeOK
  <2>2. CASE j \in U!Referred
    <3>1. IF k \in Logos THEN j \in logo ELSE j = k
      BY <1>7, <2>2
    <3>2. j \in U!RowOf(k)
      BY <1>2, <2>1, <3>1, RacedRows, RowsApart DEF U!RowOf, U!Keys
    <3>3. k \notin keyRaced
      BY <1>2, <2>1, <3>2, RacedRows
    <3>4. j \in U!Current(k)
      BY <2>1, <3>1 DEF U!Current
    <3>. QED
      BY <1>4, <1>8, <3>3, <3>4
  <2>3. CASE j \notin U!Referred
    BY <1>1, <1>4, <2>1, <2>3 DEF FilesInv, U!NothingStaysBehind
  <2>. QED
    BY <2>2, <2>3
<1>12. /\ logo' \in LogoValues /\ \A j \in logo' : j \in Assets => j \in keyRaced
  BY <1>1, <1>2, RacedRows DEF FilesInv, U!TypeOK, LogoValues
<1>13. /\ asset' \in [Assets -> {"none", "live", "deleted"}]
       /\ k \notin Logos => \A j \in Assets \ {k} : asset'[j] = asset[j]
  BY <1>1 DEF FilesInv, U!TypeOK
<1>14. /\ (U!Referred)' \subseteq presigned /\ doomed' \subseteq presigned
       /\ removable' \subseteq U!Keys /\ removable' \cap keyRaced' = {}
  BY <1>1, <1>7 DEF FilesInv, U!TypeOK
<1>. HIDE DEF slot
<1>. QED
  BY <1>1, <1>2, <1>4, <1>5, <1>9, <1>10, <1>11, <1>12, <1>13, <1>14, RequestStep DEF slot

(* The request of a slot is over, and its old keys are doomed or nobody    *)
(* is to remove them.                                                      *)
LEMMA UploadEnds ==
  ASSUME FilesInv, NEW c \in Calls, uploadCall[c] # U!Idle, U!Return(c),
         UNCHANGED <<presigned, store, logo, asset, keyRaced>>,
         doomed' = doomed \/ (uploadCall[c].at = "tail" /\ doomed' = doomed \cup uploadCall[c].old),
         removable' \subseteq removable,
         uploadCall[c].at = "tail" => uploadCall[c].old \cap removable' \subseteq doomed'
  PROVE  FilesInv'
<1>. DEFINE k == uploadCall[c].k
<1>1. /\ uploadCall' = [uploadCall EXCEPT ![c] = U!Idle]
      /\ \A d \in Calls \ {c} : uploadCall'[d] = uploadCall[d]
  BY DEF U!Return, U!Set, FilesInv, U!TypeOK
<1>2. /\ k \in U!Keys
      /\ uploadCall[c].at = "tail" => /\ uploadCall[c].old \subseteq presigned
                                      /\ uploadCall[c].old \subseteq U!RowOf(k) \cup keyRaced
  <2>1. KeysOfRow(uploadCall[c]) /\ U!TypeOK
    BY DEF FilesInv
  <2>. QED
    BY <2>1, UploadSlot DEF KeysOfRow
<1>3. (U!Referred)' = U!Referred
  BY DEF U!Referred, U!Live
<1>4. k \notin keyRaced' =>
        \A j \in U!RowOf(k) \cap (U!Referred)' : j \in store /\ j \notin doomed'
  <2>. SUFFICES ASSUME k \notin keyRaced, NEW j \in U!RowOf(k), j \in U!Referred
                PROVE  j \in store /\ j \notin doomed'
    BY <1>3
  <2>1. uploadCall[c].at = "tail" => uploadCall[c].old \cap U!Referred \subseteq keyRaced
    BY DEF FilesInv, UpToDate
  <2>2. j \notin keyRaced
    BY <1>2, RacedRows
  <2>3. j \in store /\ j \notin doomed
    BY <1>2, RowIsStored
  <2>. QED
    BY <2>1, <2>2, <2>3
<1>5. (U!NothingStaysBehind)'
  <2>. SUFFICES ASSUME NEW j \in removable', j \in store, j \notin U!Referred
                PROVE  j \in doomed' \/ \E d \in Calls : uploadCall'[d].at = "tail" /\ j \in uploadCall'[d].old
    BY <1>3 DEF U!NothingStaysBehind
  <2>1. j \in doomed \/ \E d \in Calls : uploadCall[d].at = "tail" /\ j \in uploadCall[d].old
    BY DEF FilesInv, U!NothingStaysBehind
  <2>2. j \in doomed => j \in doomed'
    OBVIOUS
  <2>3. uploadCall[c].at = "tail" /\ j \in uploadCall[c].old => j \in doomed'
    OBVIOUS
  <2>. QED
    BY <1>1, <2>1, <2>2, <2>3
<1>6. /\ doomed' \subseteq presigned /\ U!Referred \subseteq presigned
      /\ logo' \in LogoValues /\ asset' \in [Assets -> {"none", "live", "deleted"}]
      /\ removable' \subseteq U!Keys /\ removable' \cap keyRaced' = {}
  BY <1>2 DEF FilesInv, U!TypeOK, LogoValues
<1>7. /\ \A j \in logo' : j \in Assets => j \in keyRaced
      /\ \A j : j \in doomed' => j \in doomed \/ j \in U!RowOf(k) \/ j \in keyRaced
      /\ KeysOfRow(U!Idle) /\ (U!Referred)' \subseteq presigned
      /\ \A j : j \in doomed => j \in doomed'
  BY <1>2, <1>3, <1>6, RacedRows DEF KeysOfRow
<1>. HIDE DEF k
<1>. QED
  BY <1>1, <1>2, <1>4, <1>5, <1>6, <1>7, RequestStep DEF k

LEMMA TailKeeps ==
  ASSUME FilesInv, NEW c \in Calls, U!Tail(c)
  PROVE  FilesInv'
<1>1. uploadCall[c] # U!Idle
  BY DEF U!Tail, U!Idle
<1>. QED
  BY <1>1, UploadEnds DEF U!Tail, U!rows, U!ghosts

LEMMA UploadStops ==
  ASSUME FilesInv, NEW c \in Calls, U!Stops(c)
  PROVE  FilesInv'
BY UploadEnds DEF U!Stops, U!files, U!rows

(* A step on the objects alone: those of live rows stay, what is being     *)
(* removed is removed or nobody is to remove it.                           *)
LEMMA ObjectStep ==
  ASSUME FilesInv, UNCHANGED <<logo, asset, keyRaced, uploadCall>>,
         presigned' \subseteq U!Keys, presigned \subseteq presigned',
         store' \subseteq presigned', doomed' \subseteq doomed,
         \A j : j \in store /\ j \notin doomed => j \in store',
         removable' \subseteq removable,
         \A j \in removable' : j \in store' => j \in store \/ j \in U!Referred,
         \A j \in doomed : j \in doomed' \/ j \notin store' \/ j \notin removable'
  PROVE  FilesInv'
<1>1. (U!Referred)' = U!Referred
  BY DEF U!Referred, U!Live
<1>2. (U!TypeOK)' /\ U!Referred \subseteq presigned' /\ removable' \cap keyRaced' = {}
  BY DEF FilesInv, U!TypeOK
<1>3. \A c \in Calls : KeysOfRow(uploadCall[c])'
  <2>1. \A c \in Calls : KeysOfRow(uploadCall[c])
    BY DEF FilesInv
  <2>. QED
    BY <2>1 DEF KeysOfRow
<1>4. \A c \in Calls : /\ OnlyFor(c) => OnlyFor(c)'
                       /\ UpToDate(c) => UpToDate(c)'
  <2>1. \A j : U!Previous(j)' = U!Previous(j) /\ U!Current(j)' = U!Current(j)
    BY DEF U!Previous, U!Current
  <2>. QED
    BY <1>1, <2>1 DEF OnlyFor, UpToDate
<1>5. (U!LiveIsStored)'
  BY <1>1 DEF FilesInv, U!LiveIsStored
<1>6. (U!NothingStaysBehind)'
  BY <1>1 DEF FilesInv, U!NothingStaysBehind
<1>. QED
  BY <1>1, <1>2, <1>3, <1>4, <1>5, <1>6 DEF FilesInv

(* The logo is set past the requests: those for it are raced, and so is    *)
(* what it names unless it is a logo whose object is there to stay.        *)
LEMMA UpdateMeKeeps ==
  ASSUME FilesInv, NEW new \in {{}, {Elsewhere}} \cup {{k} : k \in presigned}, U!updateMe(new)
  PROVE  FilesInv'
<1>. DEFINE strange == {j \in new \cap U!Keys : U!Strange(j)}
            busy == {k \in Logos : \E c \in Calls :
                                     uploadCall[c] # U!Idle /\ uploadCall[c].k \in Logos}
<1>1. /\ logo' = new /\ UNCHANGED <<presigned, store, doomed, asset, uploadCall>>
      /\ removable' = ((removable \ logo) \cup (new \cap U!Keys)) \ keyRaced'
      /\ keyRaced \subseteq keyRaced' /\ busy \subseteq keyRaced'
      /\ \A k \in strange : U!RowOf(k) \subseteq keyRaced'
      /\ \A j \in keyRaced' : j \in keyRaced \cup busy \/ \E k \in strange : j \in U!RowOf(k)
  BY DEF U!updateMe, U!files
<1>2. /\ keyRaced \subseteq keyRaced' /\ keyRaced' \subseteq U!Keys
      /\ \A j \in keyRaced' : U!RowOf(j) \subseteq keyRaced'
  <2>1. keyRaced \subseteq U!Keys /\ \A j \in keyRaced : U!RowOf(j) \subseteq keyRaced
    BY DEF FilesInv, U!TypeOK
  <2>2. \A k \in strange : /\ U!RowOf(k) \subseteq U!Keys
                           /\ \A j \in U!RowOf(k) : U!RowOf(j) = U!RowOf(k)
    BY RowsApart
  <2>3. busy \subseteq U!Keys /\ \A j \in busy : U!RowOf(j) = busy
    BY DEF U!RowOf, U!Keys
  <2>. HIDE DEF strange, busy
  <2>. QED
    BY <1>1, <2>1, <2>2, <2>3
<1>3. \A j \in new \cap U!Keys : j \in keyRaced' \/ (j \in Logos /\ j \in store /\ j \notin doomed)
  <2>1. \A j \in new \cap U!Keys : U!Strange(j) => j \in strange /\ j \in U!RowOf(j)
    BY RowsApart
  <2>2. \A j \in strange : U!RowOf(j) \subseteq keyRaced'
    BY <1>1
  <2>. QED
    BY <2>1, <2>2 DEF U!Strange, U!Keys
<1>4. logo' \cap Assets \subseteq keyRaced'
  BY <1>1, <1>3, KeysAssumption DEF U!Keys
<1>5. \A c \in Calls : /\ uploadCall[c] # U!Idle
                       /\ uploadCall[c].k \notin keyRaced'
                       => uploadCall[c].k \in Assets \ Logos
  <2>1. \A c \in Calls : uploadCall[c] # U!Idle /\ uploadCall[c].k \in Logos
                           => uploadCall[c].k \in busy
    OBVIOUS
  <2>2. \A c \in Calls : uploadCall[c] # U!Idle => uploadCall[c].k \in Logos \cup Assets
    BY UploadSlot DEF FilesInv, U!Keys
  <2>3. busy \subseteq keyRaced'
    BY <1>1
  <2>. HIDE DEF busy
  <2>. QED
    BY <2>1, <2>2, <2>3
<1>6. /\ (U!Live)' = U!Live /\ U!Referred = (logo \cap U!Keys) \cup U!Live
      /\ (U!Referred)' = (new \cap U!Keys) \cup U!Live
  BY <1>1 DEF U!Referred, U!Live
<1>7. (U!TypeOK)' /\ (U!Referred)' \subseteq presigned
  <2>1. U!TypeOK /\ U!Live \subseteq presigned
    BY <1>6 DEF FilesInv
  <2>2. new \in LogoValues /\ new \cap U!Keys \subseteq presigned
    BY <2>1, KeysAssumption DEF LogoValues, U!TypeOK, U!Keys
  <2>3. removable' \subseteq U!Keys
    BY <1>1, <2>1 DEF U!TypeOK
  <2>. QED
    BY <1>1, <1>2, <1>6, <2>1, <2>2, <2>3 DEF U!TypeOK, LogoValues
<1>8. \A c \in Calls : KeysOfRow(uploadCall[c])'
  <2>1. \A c \in Calls : KeysOfRow(uploadCall[c])
    BY DEF FilesInv
  <2>. QED
    BY <1>1, <1>2, <2>1 DEF KeysOfRow
<1>9. ASSUME NEW c \in Calls, uploadCall[c] # U!Idle, uploadCall[c].k \notin keyRaced'
      PROVE  OnlyFor(c)' /\ UpToDate(c)'
  <2>1. uploadCall[c].k \in Assets \ Logos /\ OnlyFor(c) /\ UpToDate(c)
    BY <1>2, <1>5, <1>9 DEF FilesInv
  <2>2. OnlyFor(c)'
    BY <1>1, <2>1 DEF OnlyFor
  <2>3. /\ U!Current(uploadCall[c].k)' = U!Current(uploadCall[c].k)
        /\ U!Previous(uploadCall[c].k)' = U!Previous(uploadCall[c].k)
    BY <1>1, <2>1 DEF U!Current, U!Previous
  <2>4. uploadCall[c].at = "tail" => uploadCall[c].old \cap (U!Referred)' \subseteq keyRaced'
    <3>. SUFFICES ASSUME uploadCall[c].at = "tail", NEW j \in uploadCall[c].old,
                         j \in (U!Referred)', j \notin keyRaced'
                  PROVE  FALSE
      OBVIOUS
    <3>1. j = uploadCall[c].k
      BY <1>2, <1>9, <2>1 DEF FilesInv, KeysOfRow, U!RowOf
    <3>2. j \in U!Live
      BY <1>3, <1>6, <2>1, <3>1
    <3>. QED
      BY <1>2, <1>6, <2>1, <3>2 DEF UpToDate
  <2>. QED
    BY <1>1, <2>1, <2>2, <2>3, <2>4 DEF UpToDate
<1>10. (U!LiveIsStored)'
  <2>. SUFFICES ASSUME NEW j \in (U!Referred)', j \notin keyRaced'
                PROVE  j \in store /\ j \notin doomed
    BY <1>1 DEF U!LiveIsStored
  <2>1. CASE j \in new \cap U!Keys
    BY <1>3, <2>1
  <2>2. CASE j \in U!Live
    BY <1>2, <1>6, <2>2 DEF FilesInv, U!LiveIsStored
  <2>. QED
    BY <1>6, <2>1, <2>2
<1>11. (U!NothingStaysBehind)'
  BY <1>1, <1>6 DEF FilesInv, U!NothingStaysBehind
<1>. QED
  BY <1>1, <1>2, <1>4, <1>7, <1>8, <1>9, <1>10, <1>11 DEF FilesInv

LEMMA FilesInitially == U!Init => FilesInv
<1>. SUFFICES ASSUME U!Init PROVE FilesInv
  OBVIOUS
<1>1. \A c \in Calls : uploadCall[c] = U!Idle
  BY DEF U!Init
<1>2. U!Referred = {}
  BY DEF U!Init, U!Referred, U!Live
<1>3. U!TypeOK
  BY DEF U!Init, U!TypeOK
<1>. QED
  BY <1>1, <1>2, <1>3 DEF U!Init, FilesInv, KeysOfRow, U!LiveIsStored, U!NothingStaysBehind

LEMMA FilesInductive == FilesInv /\ [U!Next]_U!vars => FilesInv'
<1>. SUFFICES ASSUME FilesInv, [U!Next]_U!vars PROVE FilesInv'
  OBVIOUS
<1>t. presigned \subseteq U!Keys /\ store \subseteq presigned /\ doomed \subseteq presigned
  BY DEF FilesInv, U!TypeOK
<1>1. ASSUME NEW k \in U!Keys, U!presign(k) PROVE FilesInv'
  BY <1>1, <1>t, ObjectStep DEF U!presign, U!rows, U!ghosts
<1>2. ASSUME NEW k \in U!Keys, U!Put(k) PROVE FilesInv'
  BY <1>2, <1>t, ObjectStep DEF U!Put, U!rows
<1>3. ASSUME NEW k \in U!Keys, U!Remove(k) PROVE FilesInv'
  BY <1>3, <1>t, ObjectStep DEF U!Remove, U!rows, U!ghosts
<1>4. ASSUME NEW k \in U!Keys, U!RemoveFails(k) PROVE FilesInv'
  BY <1>4, <1>t, ObjectStep DEF U!RemoveFails, U!rows
<1>5. CASE UNCHANGED U!vars
  BY <1>5, <1>t, ObjectStep DEF U!vars, U!files, U!rows, U!ghosts
<1>. QED
  BY <1>1, <1>2, <1>3, <1>4, <1>5, CommitHeadKeeps, DeleteReadKeeps, CommitReadKeeps,
     CommitWriteKeeps, DeleteWriteKeeps, TailKeeps, UploadStops, UpdateMeKeeps DEF U!Next

-----------------------------------------------------------------------------
(* Drip sequences: the orders of the steps.                                *)

(* The cardinality of the instance is the library's.                       *)
LEMMA DripCounts ==
  /\ \A S : D!Cardinality(S) = Cardinality(S)
  /\ \A o, s : D!Place(o, s) = Cardinality({t \in DOMAIN o : o[t] < o[s]})
  /\ D!Orders = 0 .. Cardinality(Steps)
<1>1. \A S : D!Cardinality(S) = Cardinality(S)
  BY DEF D!Cardinality, Cardinality
<1>. QED
  BY <1>1 DEF D!Place, D!Orders

LEMMA SomeSteps ==
  ASSUME NEW S \in SUBSET Steps
  PROVE  /\ IsFiniteSet(S) /\ Cardinality(S) \in Nat
         /\ Cardinality(Steps) \in Nat /\ Cardinality(S) <= Cardinality(Steps)
         /\ \A s \in S : Cardinality(S \ {s}) = Cardinality(S) - 1
         /\ \A s \in Steps \ S : Cardinality(S \cup {s}) = Cardinality(S) + 1
         /\ \A part \in SUBSET S : Cardinality(part) <= Cardinality(S) /\ Cardinality(part) \in Nat
<1>1. /\ IsFiniteSet(S) /\ Cardinality(S) \in Nat
      /\ Cardinality(Steps) \in Nat /\ Cardinality(S) <= Cardinality(Steps)
  BY StepsAssumption, FS_Subset, FS_CardinalityType
<1>2. \A s \in S : Cardinality(S \ {s}) = Cardinality(S) - 1
  BY <1>1, FS_RemoveElement
<1>3. \A s \in Steps \ S : Cardinality(S \cup {s}) = Cardinality(S) + 1
  BY <1>1, FS_AddElement
<1>4. ASSUME NEW part \in SUBSET S
      PROVE  Cardinality(part) <= Cardinality(S) /\ Cardinality(part) \in Nat
  BY <1>1, FS_Subset, FS_CardinalityType
<1>. QED
  BY <1>1, <1>2, <1>3, <1>4

(* Orders of steps: natural numbers, no two the same.                      *)
Ordered(o) ==
  /\ DOMAIN o \in SUBSET Steps
  /\ \A s \in DOMAIN o : o[s] \in Nat
  /\ \A s, t \in DOMAIN o : o[s] = o[t] => s = t

(* Places are orders without a gap.                                        *)
LEMMA PlacesArePacked ==
  ASSUME NEW o, Ordered(o), NEW s \in DOMAIN o
  PROVE  /\ D!Place(o, s) \in Nat /\ D!Place(o, s) < Cardinality(DOMAIN o)
         /\ \A t \in DOMAIN o : D!Place(o, s) = D!Place(o, t) => s = t
<1> DEFINE before(t) == {u \in DOMAIN o : o[u] < o[t]}
<1>1. \A t \in DOMAIN o : before(t) \in SUBSET Steps /\ D!Place(o, t) = Cardinality(before(t))
  BY DripCounts DEF Ordered
<1>2. \A t \in DOMAIN o : Cardinality(before(t)) \in Nat
  BY <1>1, SomeSteps
<1>3. ASSUME NEW t \in DOMAIN o, NEW u \in DOMAIN o, o[t] < o[u]
      PROVE  Cardinality(before(t)) < Cardinality(before(u))
  <2>1. o[t] \in Nat /\ o[u] \in Nat /\ \A v \in DOMAIN o : o[v] \in Nat
    BY DEF Ordered
  <2>2. t \notin before(t) /\ t \in Steps
    BY <2>1 DEF Ordered
  <2>3. before(t) \cup {t} \in SUBSET before(u)
    BY <1>3, <2>1
  <2>4. Cardinality(before(t) \cup {t}) <= Cardinality(before(u))
    BY <1>1, <2>3, SomeSteps
  <2>5. Cardinality(before(t) \cup {t}) = Cardinality(before(t)) + 1
    BY <1>1, <2>2, SomeSteps
  <2>. QED
    BY <1>2, <2>4, <2>5
<1>4. Cardinality(before(s)) < Cardinality(DOMAIN o)
  <2>1. s \in Steps /\ o[s] \in Nat
    BY DEF Ordered
  <2>2. before(s) \in SUBSET (DOMAIN o \ {s})
    BY <2>1
  <2>3. DOMAIN o \in SUBSET Steps /\ DOMAIN o \ {s} \in SUBSET Steps
    BY DEF Ordered
  <2>4. Cardinality(before(s)) <= Cardinality(DOMAIN o \ {s})
    BY <2>2, <2>3, SomeSteps
  <2>5. Cardinality(DOMAIN o \ {s}) = Cardinality(DOMAIN o) - 1
        /\ Cardinality(DOMAIN o) \in Nat
    BY <2>3, SomeSteps
  <2>. QED
    BY <1>2, <2>4, <2>5
<1>5. ASSUME NEW t \in DOMAIN o, D!Place(o, s) = D!Place(o, t)
      PROVE  s = t
  <2>1. o[s] \in Nat /\ o[t] \in Nat
    BY DEF Ordered
  <2>2. Cardinality(before(s)) = Cardinality(before(t)) /\ Cardinality(before(s)) \in Nat
    BY <1>1, <1>2, <1>5
  <2>3. o[s] < o[t] => Cardinality(before(s)) < Cardinality(before(t))
    BY <1>3
  <2>4. o[t] < o[s] => Cardinality(before(t)) < Cardinality(before(s))
    BY <1>3
  <2>5. ~ (o[s] < o[t]) /\ ~ (o[t] < o[s])
    <3>. HIDE DEF before
    <3>. QED
      BY <2>2, <2>3, <2>4
  <2>. QED
    BY <2>1, <2>5 DEF Ordered
<1>. QED
  BY <1>1, <1>2, <1>4, <1>5

(* Orders without a gap: every one is taken.                               *)
PackedOrders(o) == \A s \in DOMAIN o : o[s] < Cardinality(DOMAIN o)

LEMMA PackedIsOnto ==
  ASSUME NEW o, Ordered(o), PackedOrders(o), NEW i \in Nat, i < Cardinality(DOMAIN o)
  PROVE  \E s \in DOMAIN o : o[s] = i
<1> DEFINE n == Cardinality(DOMAIN o)
           f == [t \in DOMAIN o |-> o[t]]
<1>1. DOMAIN o \in SUBSET Steps /\ \A t \in DOMAIN o : o[t] \in Nat
  BY DEF Ordered
<1>2. n \in Nat /\ IsFiniteSet(DOMAIN o)
  BY <1>1, SomeSteps
<1>3. IsFiniteSet(0 .. n - 1) /\ Cardinality(0 .. n - 1) = n
  <2>. HIDE DEF n
  <2>. QED
    BY <1>2, FS_Interval
<1>4. f \in Injection(DOMAIN o, 0 .. n - 1)
  <2>1. f \in [DOMAIN o -> 0 .. n - 1]
    BY <1>1, <1>2 DEF PackedOrders
  <2>2. \A t, u \in DOMAIN o : f[t] = f[u] => t = u
    BY DEF Ordered
  <2>. QED
    BY <2>1, <2>2 DEF Injection, IsInjective
<1>5. f \in Surjection(DOMAIN o, 0 .. n - 1)
  <2>. HIDE DEF f, n
  <2>. QED
    BY <1>3, <1>4, FS_Injection DEF n
<1>6. i \in 0 .. n - 1
  BY <1>2
<1>. QED
  BY <1>5, <1>6 DEF Surjection

(* And each is the place of its step.                                      *)
LEMMA PackedIsPlace ==
  ASSUME NEW o, Ordered(o), PackedOrders(o), NEW s \in DOMAIN o
  PROVE  D!Place(o, s) = o[s]
<1> DEFINE n == Cardinality(DOMAIN o)
           before == {t \in DOMAIN o : o[t] < o[s]}
           g == [t \in before |-> o[t]]
<1>1. DOMAIN o \in SUBSET Steps /\ o[s] \in Nat /\ \A t \in DOMAIN o : o[t] \in Nat
  BY DEF Ordered
<1>2. n \in Nat /\ IsFiniteSet(DOMAIN o)
  BY <1>1, SomeSteps
<1>3. \A i \in Nat : i < n => \E t \in DOMAIN o : o[t] = i
  BY PackedIsOnto
<1>4. o[s] < n
  BY DEF PackedOrders
<1>5. g \in Bijection(before, 0 .. o[s] - 1)
  <2>1. g \in [before -> 0 .. o[s] - 1]
    BY <1>1
  <2>2. \A t, u \in before : g[t] = g[u] => t = u
    BY DEF Ordered
  <2>3. \A i \in 0 .. o[s] - 1 : \E t \in before : g[t] = i
    BY <1>1, <1>2, <1>3, <1>4
  <2>. QED
    BY <2>1, <2>2, <2>3 DEF Bijection, Injection, Surjection, IsInjective
<1>6. Cardinality(0 .. o[s] - 1) = o[s]
  BY <1>1, FS_Interval
<1>7. IsFiniteSet(before) /\ D!Place(o, s) = Cardinality(before)
  BY <1>1, SomeSteps, DripCounts
<1>. QED
  <2>1. ExistsBijection(before, 0 .. o[s] - 1)
    BY <1>5 DEF ExistsBijection
  <2>. HIDE DEF before
  <2>. QED
    BY <1>6, <1>7, <2>1, FS_Bijection

(* When a step goes, those behind it move one place forward.               *)
LEMMA PlaceWithout ==
  ASSUME NEW o, Ordered(o), PackedOrders(o), NEW s \in DOMAIN o,
         NEW rest, rest = [t \in DOMAIN o \ {s} |-> o[t]]
  PROVE  /\ Ordered(rest) /\ DOMAIN rest = DOMAIN o \ {s}
         /\ \A t \in DOMAIN rest :
              D!Place(rest, t) = IF o[t] > o[s] THEN o[t] - 1 ELSE o[t]
<1>1. DOMAIN rest = DOMAIN o \ {s} /\ \A t \in DOMAIN rest : rest[t] = o[t]
  OBVIOUS
<1>2. Ordered(rest)
  BY <1>1 DEF Ordered
<1>3. ASSUME NEW t \in DOMAIN rest
      PROVE  D!Place(rest, t) = IF o[t] > o[s] THEN o[t] - 1 ELSE o[t]
  <2> DEFINE before == {u \in DOMAIN o : o[u] < o[t]}
             left   == {u \in DOMAIN rest : rest[u] < rest[t]}
  <2>1. t \in DOMAIN o /\ o[t] \in Nat /\ o[s] \in Nat /\ s \in Steps
        /\ before \in SUBSET Steps
    BY <1>1 DEF Ordered
  <2>2. Cardinality(before) = o[t]
    BY <2>1, PackedIsPlace, DripCounts
  <2>3. D!Place(rest, t) = Cardinality(left)
    BY DripCounts
  <2>4. left = before \ {s}
    BY <1>1
  <2>5. CASE o[t] > o[s]
    <3>1. s \in before
      BY <2>1, <2>5
    <3>2. Cardinality(before \ {s}) = Cardinality(before) - 1
      BY <2>1, <3>1, SomeSteps
    <3>. QED
      BY <2>2, <2>3, <2>4, <2>5, <3>2
  <2>6. CASE ~ (o[t] > o[s])
    <3>1. s \notin before
      BY <2>1, <2>6
    <3>2. left = before
      BY <2>4, <3>1
    <3>. QED
      BY <2>2, <2>3, <2>6, <3>2
  <2>. QED
    BY <2>5, <2>6
<1>. QED
  BY <1>1, <1>2, <1>3

-----------------------------------------------------------------------------
(* What a request or a tick knows of the rows it read.                     *)
Ticking(c) == dripCall[c].at \in D!Ticks

(* A tick works on an enrollment that was active when it was read.         *)
SeenActive(n) ==
  /\ n = [at |-> n.at, steps |-> n.steps, seen |-> n.seen]
  /\ n.seen.row /\ ~ n.seen.completed /\ ~ n.seen.cancelled

(* Until steps change under a call what it read of them is still so.       *)
SlotKnows(n) ==
  /\ n.at = "add" => /\ n.order <= Cardinality(D!Existing)
                     /\ n.s \notin D!Existing => mailed[n.s] = 0
  /\ n.at = "delete" => n.s \in D!Existing /\ n.order = order[n.s]
  /\ n.at \in D!Ticks => /\ n.steps = order
                         /\ n.seen.idx = enrollment.idx /\ ~ enrollment.completed
  /\ n.at = "mailed" => /\ n.seen.idx < Cardinality(D!Existing)
                        /\ \A s \in D!Existing : order[s] = n.seen.idx => mailed[s] > 0

(* The steps behind the index were mailed, and those alone; the tick that  *)
(* has mailed the current one is about to advance.                         *)
MailedBefore(s) ==
  /\ mailed[s] <= 1
  /\ (mailed[s] > 0 /\ s \in D!Existing) =>
        \/ order[s] < enrollment.idx
        \/ \E c \in Calls : dripCall[c].at = "mailed" /\ order[s] = enrollment.idx

(* What holds however ticks and edits of the steps interleave.             *)
DripRows ==
  /\ D!TypeOK
  /\ DOMAIN dripCall = Calls
  /\ owed \subseteq D!Existing
  /\ enrollment.completed \/ enrollment.cancelled => enrollment.row
  /\ ~ enrollment.row => \A s \in Steps : mailed[s] = 0
  /\ \A c \in Calls : Ticking(c) => SeenActive(dripCall[c]) /\ enrollment.row
  /\ \A c \in Calls : dripCall[c].at = "cancel" => enrollment.row

(* What holds until ticks overlap or the steps change under a call.        *)
DripSteps ==
  /\ PackedOrders(order)
  /\ \A c \in Calls : SlotKnows(dripCall[c])
  /\ \A c, d \in Calls : Ticking(c) /\ Ticking(d) => c = d
  /\ D!Active => /\ enrollment.idx <= Cardinality(D!Existing)
                 /\ \A s \in owed : order[s] < enrollment.idx => mailed[s] > 0
  /\ enrollment.completed /\ ~ enrollment.cancelled => \A s \in owed : mailed[s] > 0
  /\ ~ dropped => \A s \in Steps : MailedBefore(s)

DripInv == DripRows /\ (~ dripRaced => DripSteps)

DripSlotOK(n) == n \in D!Slots \cup {D!Idle} \/ D!TickSlot(n)

LEMMA DripSlotParts ==
  ASSUME NEW n, DripSlotOK(n)
  PROVE  /\ n.at \in {"idle", "enroll", "cancel", "add", "delete"} \cup D!Ticks
         /\ n.at \in {"add", "delete"} =>
              n.s \in Steps /\ n.order \in D!Orders /\ n.order \in Nat
         /\ n.at \in D!Ticks => n.seen \in D!Enrollments /\ n.seen.idx \in Nat
<1>1. D!Orders \subseteq Nat
  BY DripCounts
<1>2. CASE n \in D!Slots
  BY <1>1, <1>2 DEF D!Slots, D!Ticks
<1>3. CASE n = D!Idle
  BY <1>3 DEF D!Idle, D!Ticks
<1>4. CASE D!TickSlot(n)
  BY <1>4 DEF D!TickSlot, D!Ticks, D!Enrollments
<1>. QED
  BY <1>2, <1>3, <1>4 DEF DripSlotOK

LEMMA DripTypes ==
  ASSUME DripRows
  PROVE  /\ Ordered(order) /\ D!Existing \in SUBSET Steps /\ D!Existing = DOMAIN order
         /\ Cardinality(D!Existing) \in Nat
         /\ enrollment \in D!Enrollments /\ enrollment.idx \in Nat
         /\ enrollment.row \in BOOLEAN /\ enrollment.completed \in BOOLEAN
         /\ enrollment.cancelled \in BOOLEAN /\ enrollment.armed \in BOOLEAN
         /\ mailed \in [Steps -> 0 .. 2] /\ owed \in SUBSET D!Existing
         /\ dropped \in BOOLEAN /\ dripRaced \in BOOLEAN
         /\ dripFailures \in 0 .. MaxFailures /\ dripFailures \in Nat /\ MaxFailures \in Nat
         /\ \A c \in Calls : DripSlotOK(dripCall[c])
<1>1. /\ D!Existing \in SUBSET Steps /\ D!Existing = DOMAIN order
      /\ \A s \in DOMAIN order : order[s] \in Nat
      /\ \A s, t \in DOMAIN order : order[s] = order[t] => s = t
  BY DripCounts DEF DripRows, D!TypeOK, D!Existing
<1>2. Cardinality(D!Existing) \in Nat
  BY <1>1, SomeSteps
<1>3. enrollment \in D!Enrollments
  BY DEF DripRows, D!TypeOK
<1>4. /\ enrollment.idx \in Nat /\ enrollment.row \in BOOLEAN /\ enrollment.completed \in BOOLEAN
      /\ enrollment.cancelled \in BOOLEAN /\ enrollment.armed \in BOOLEAN
  BY <1>3 DEF D!Enrollments
<1>. QED
  BY <1>1, <1>2, <1>3, <1>4, StepsAssumption DEF DripRows, D!TypeOK, Ordered, DripSlotOK

(* A call moves and nothing else but the marks of what went wrong.         *)
LEMMA DripCallMoves ==
  ASSUME DripInv, NEW c \in Calls, NEW n, dripCall' = [dripCall EXCEPT ![c] = n],
         UNCHANGED <<order, enabled, enrollment, mailed, owed>>,
         DripSlotOK(n), n.at \in D!Ticks => SeenActive(n) /\ enrollment.row,
         n.at = "cancel" => enrollment.row,
         dripFailures' \in 0 .. MaxFailures,
         dropped' \in BOOLEAN, dropped => dropped', dripCall[c].at = "mailed" => dropped',
         dripRaced' \in BOOLEAN, dripRaced => dripRaced',
         ~ dripRaced' => SlotKnows(n),
         ~ dripRaced' /\ n.at \in D!Ticks => \A d \in Calls \ {c} : ~ Ticking(d)
  PROVE  DripInv'
<1>1. /\ DOMAIN dripCall' = Calls /\ dripCall'[c] = n
      /\ \A d \in Calls \ {c} : dripCall'[d] = dripCall[d]
  BY DEF DripInv, DripRows
<1>2. D!TypeOK'
  BY <1>1 DEF DripInv, DripRows, D!TypeOK, D!Existing, DripSlotOK, D!TickSlot
<1>3. DripRows'
  BY <1>1, <1>2 DEF DripInv, DripRows, Ticking, D!Existing
<1>4. ASSUME ~ dripRaced'
      PROVE  DripSteps'
  <2>1. DripSteps
    BY <1>4 DEF DripInv
  <2>2. \A m : SlotKnows(m)' <=> SlotKnows(m)
    BY DEF SlotKnows, D!Existing
  <2>3. \A d \in Calls : SlotKnows(dripCall'[d])
    BY <1>1, <1>4, <2>1 DEF DripSteps
  <2>4. \A d, e \in Calls : Ticking(d)' /\ Ticking(e)' => d = e
    BY <1>1, <1>4, <2>1 DEF DripSteps, Ticking
  <2>5. ASSUME ~ dropped', NEW s \in Steps
        PROVE  MailedBefore(s)'
    <3>1. MailedBefore(s) /\ dripCall[c].at # "mailed"
      BY <2>1, <2>5 DEF DripSteps
    <3>2. \A d \in Calls : dripCall[d].at = "mailed" => dripCall'[d] = dripCall[d]
      BY <1>1, <3>1
    <3>. QED
      BY <3>1, <3>2 DEF MailedBefore, D!Existing
  <2>. QED
    BY <2>1, <2>2, <2>3, <2>4, <2>5 DEF DripSteps, D!Active, D!Existing, PackedOrders
<1>. QED
  BY <1>3, <1>4 DEF DripInv

(* A request or a tick ends, and nothing else happens.                     *)
LEMMA DripCallEnds ==
  ASSUME DripInv, NEW c \in Calls, D!Return(c),
         UNCHANGED <<order, enabled, enrollment, mailed, owed, dripRaced>>,
         dripFailures' \in 0 .. MaxFailures,
         dropped' \in BOOLEAN, dropped => dropped', dripCall[c].at = "mailed" => dropped'
  PROVE  DripInv'
<1>1. /\ DripSlotOK(D!Idle) /\ D!Idle.at \notin D!Ticks /\ D!Idle.at # "cancel"
      /\ SlotKnows(D!Idle)
  BY DEF DripSlotOK, D!Idle, D!Ticks, SlotKnows
<1>2. dripCall' = [dripCall EXCEPT ![c] = D!Idle]
  BY DEF D!Return, D!Set
<1>3. dripRaced' \in BOOLEAN
  BY DripTypes DEF DripInv
<1>. QED
  BY <1>1, <1>2, <1>3, DripCallMoves

-----------------------------------------------------------------------------
(* The steps that move one call only.                                      *)
TickAt(slot, at) == [at |-> at, steps |-> slot.steps, seen |-> slot.seen]

LEMMA TickGoes ==
  ASSUME DripInv, NEW c \in Calls, Ticking(c), NEW at \in D!Ticks, D!Goto(c, at)
  PROVE  /\ dripCall' = [dripCall EXCEPT ![c] = TickAt(dripCall[c], at)]
         /\ DripSlotOK(TickAt(dripCall[c], at)) /\ SeenActive(TickAt(dripCall[c], at))
         /\ enrollment.row /\ TickAt(dripCall[c], at).at = at
         /\ TickAt(dripCall[c], at).steps = dripCall[c].steps
         /\ TickAt(dripCall[c], at).seen = dripCall[c].seen
<1> DEFINE slot == dripCall[c]
<1>1. SeenActive(slot) /\ enrollment.row
  BY DEF DripInv, DripRows
<1>2. D!TickSlot(slot)
  BY DripTypes DEF DripInv, Ticking, DripSlotOK, D!Slots, D!Idle, D!Ticks, D!TickSlot
<1>3. slot = [at |-> slot.at, steps |-> slot.steps, seen |-> slot.seen]
  BY <1>1 DEF SeenActive
<1>4. [slot EXCEPT !.at = at] = TickAt(slot, at)
  BY <1>3 DEF TickAt
<1>5. dripCall' = [dripCall EXCEPT ![c] = TickAt(slot, at)]
  BY <1>4 DEF D!Goto
<1>6. DripSlotOK(TickAt(slot, at))
  BY <1>2 DEF TickAt, DripSlotOK, D!TickSlot
<1>7. SeenActive(TickAt(slot, at))
  BY <1>1 DEF TickAt, SeenActive
<1>. QED
  BY <1>1, <1>5, <1>6, <1>7 DEF TickAt

LEMMA DripAddReads ==
  ASSUME DripInv, NEW c \in Calls, NEW s \in Steps, D!AddRead(c, s)
  PROVE  DripInv'
<1> DEFINE n == [at |-> "add", s |-> s, order |-> D!Cardinality(D!Existing)]
<1>1. /\ dripCall[c] = D!Idle /\ s \notin D!Existing /\ mailed[s] = 0
      /\ dripCall' = [dripCall EXCEPT ![c] = n]
      /\ UNCHANGED <<order, enabled, enrollment, mailed, owed, dropped, dripRaced, dripFailures>>
  BY DEF D!AddRead, D!Set, D!ghosts
<1>2. n.order = Cardinality(D!Existing) /\ Cardinality(D!Existing) \in D!Orders
  BY DripCounts, DripTypes, SomeSteps DEF DripInv
<1>3. DripSlotOK(n) /\ n.at \notin D!Ticks /\ n.at # "cancel"
  BY <1>2 DEF DripSlotOK, D!Slots, D!Ticks
<1>4. SlotKnows(n)
  BY <1>1, <1>2, DripTypes DEF SlotKnows, D!Ticks, DripInv
<1>5. /\ dropped \in BOOLEAN /\ dripRaced \in BOOLEAN /\ dripFailures \in 0 .. MaxFailures
      /\ dripCall[c].at # "mailed"
  BY <1>1, DripTypes DEF DripInv, D!Idle
<1>. QED
  BY <1>1, <1>3, <1>4, <1>5, DripCallMoves

LEMMA DripDeleteReads ==
  ASSUME DripInv, NEW c \in Calls, NEW s \in Steps, D!DeleteRead(c, s)
  PROVE  DripInv'
<1> DEFINE n == [at |-> "delete", s |-> s, order |-> order[s]]
<1>1. /\ dripCall[c] = D!Idle /\ s \in D!Existing
      /\ dripCall' = [dripCall EXCEPT ![c] = n]
      /\ UNCHANGED <<order, enabled, enrollment, mailed, owed, dropped, dripRaced, dripFailures>>
  BY DEF D!DeleteRead, D!Set, D!ghosts
<1>2. order[s] \in D!Orders
  BY <1>1 DEF DripInv, DripRows, D!TypeOK
<1>3. DripSlotOK(n) /\ n.at \notin D!Ticks /\ n.at # "cancel"
  BY <1>2 DEF DripSlotOK, D!Slots, D!Ticks
<1>4. SlotKnows(n)
  BY <1>1 DEF SlotKnows, D!Ticks
<1>5. /\ dropped \in BOOLEAN /\ dripRaced \in BOOLEAN /\ dripFailures \in 0 .. MaxFailures
      /\ dripCall[c].at # "mailed"
  BY <1>1, DripTypes DEF DripInv, D!Idle
<1>. QED
  BY <1>1, <1>3, <1>4, <1>5, DripCallMoves

LEMMA DripEnrollReads ==
  ASSUME DripInv, NEW c \in Calls, D!EnrollRead(c)
  PROVE  DripInv'
<1> DEFINE n == [at |-> "enroll"]
<1>1. /\ dripCall[c] = D!Idle /\ dripCall' = [dripCall EXCEPT ![c] = n]
      /\ UNCHANGED <<order, enabled, enrollment, mailed, owed, dropped, dripRaced, dripFailures>>
  BY DEF D!EnrollRead, D!Set, D!ghosts
<1>2. DripSlotOK(n) /\ n.at \notin D!Ticks /\ n.at # "cancel" /\ SlotKnows(n)
  BY DEF DripSlotOK, D!Slots, D!Ticks, SlotKnows
<1>3. /\ dropped \in BOOLEAN /\ dripRaced \in BOOLEAN /\ dripFailures \in 0 .. MaxFailures
      /\ dripCall[c].at # "mailed"
  BY <1>1, DripTypes DEF DripInv, D!Idle
<1>. QED
  BY <1>1, <1>2, <1>3, DripCallMoves

LEMMA DripCancelReads ==
  ASSUME DripInv, NEW c \in Calls, D!CancelRead(c)
  PROVE  DripInv'
<1> DEFINE n == [at |-> "cancel"]
<1>1. /\ dripCall[c] = D!Idle /\ dripCall' = [dripCall EXCEPT ![c] = n] /\ enrollment.row
      /\ UNCHANGED <<order, enabled, enrollment, mailed, owed, dropped, dripRaced, dripFailures>>
  BY DEF D!CancelRead, D!Set, D!ghosts, D!Active
<1>2. DripSlotOK(n) /\ n.at \notin D!Ticks /\ SlotKnows(n)
  BY DEF DripSlotOK, D!Slots, D!Ticks, SlotKnows
<1>3. /\ dropped \in BOOLEAN /\ dripRaced \in BOOLEAN /\ dripFailures \in 0 .. MaxFailures
      /\ dripCall[c].at # "mailed"
  BY <1>1, DripTypes DEF DripInv, D!Idle
<1>. QED
  BY <1>1, <1>2, <1>3, DripCallMoves

LEMMA DripTickReads ==
  ASSUME DripInv, NEW c \in Calls, NEW at \in {"tick", "inactive"}, D!TickRead(c, at)
  PROVE  DripInv'
<1> DEFINE n == [at |-> at, steps |-> order, seen |-> enrollment]
<1>1. /\ dripCall[c] = D!Idle /\ dripCall' = [dripCall EXCEPT ![c] = n]
      /\ enrollment.row /\ ~ enrollment.completed /\ ~ enrollment.cancelled
      /\ dripRaced' = (dripRaced \/ \E d \in Calls \ {c} : dripCall[d].at \in D!Ticks)
      /\ UNCHANGED <<order, enabled, enrollment, mailed, owed, dropped, dripFailures>>
  BY DEF D!TickRead, D!Set, D!Due, D!Active, D!InFlight
<1>2. DOMAIN order \in SUBSET Steps /\ enrollment \in D!Enrollments
  BY DripTypes DEF DripInv
<1>3. DripSlotOK(n) /\ n.at # "cancel"
  BY <1>2 DEF DripSlotOK, D!TickSlot, D!Ticks
<1>4. SeenActive(n)
  BY <1>1 DEF SeenActive
<1>5. SlotKnows(n)
  BY <1>1 DEF SlotKnows, D!Ticks
<1>6. ~ dripRaced' => \A d \in Calls \ {c} : ~ Ticking(d)
  BY <1>1 DEF Ticking
<1>7. /\ dropped \in BOOLEAN /\ dripRaced' \in BOOLEAN /\ dripFailures \in 0 .. MaxFailures
      /\ dripCall[c].at # "mailed"
  BY <1>1, DripTypes DEF DripInv, D!Idle
<1>. QED
  BY <1>1, <1>3, <1>4, <1>5, <1>6, <1>7, DripCallMoves

LEMMA DripMailFails ==
  ASSUME DripInv, NEW c \in Calls, D!MailFails(c)
  PROVE  DripInv'
<1> DEFINE n == TickAt(dripCall[c], "retry")
<1>1. /\ dripCall[c].at = "tick" /\ D!Goto(c, "retry")
      /\ dripFailures < MaxFailures /\ dripFailures' = dripFailures + 1
      /\ UNCHANGED <<order, enabled, enrollment, mailed, owed, dropped, dripRaced>>
  BY DEF D!MailFails, D!ghosts
<1>2. Ticking(c) /\ "retry" \in D!Ticks
  BY <1>1 DEF Ticking, D!Ticks
<1>3. /\ dripCall' = [dripCall EXCEPT ![c] = n] /\ DripSlotOK(n) /\ SeenActive(n)
      /\ enrollment.row /\ n.at = "retry" /\ n.steps = dripCall[c].steps
      /\ n.seen = dripCall[c].seen
  BY <1>1, <1>2, TickGoes
<1>4. ~ dripRaced => SlotKnows(n) /\ \A d \in Calls \ {c} : ~ Ticking(d)
  <2>. SUFFICES ASSUME ~ dripRaced
                PROVE  SlotKnows(n) /\ \A d \in Calls \ {c} : ~ Ticking(d)
    OBVIOUS
  <2>1. SlotKnows(dripCall[c]) /\ \A d \in Calls \ {c} : ~ Ticking(d)
    BY <1>2 DEF DripInv, DripSteps
  <2>2. SlotKnows(n)
    BY <1>1, <1>3, <2>1 DEF SlotKnows, D!Ticks
  <2>. QED
    BY <2>1, <2>2
<1>5. /\ dropped \in BOOLEAN /\ dripRaced \in BOOLEAN /\ dripFailures' \in 0 .. MaxFailures
      /\ dripCall[c].at # "mailed"
  BY <1>1, DripTypes DEF DripInv
<1>. QED
  BY <1>1, <1>3, <1>4, <1>5, DripCallMoves

LEMMA DripStops ==
  ASSUME DripInv, NEW c \in Calls, D!Stops(c)
  PROVE  DripInv'
<1>1. /\ D!Return(c) /\ dripFailures < MaxFailures /\ dripFailures' = dripFailures + 1
      /\ dropped' = (dropped \/ dripCall[c].at = "mailed")
      /\ UNCHANGED <<order, enabled, enrollment, mailed, owed, dripRaced>>
  BY DEF D!Stops
<1>2. dripFailures' \in 0 .. MaxFailures /\ dropped' \in BOOLEAN
  BY <1>1, DripTypes DEF DripInv
<1>. QED
  BY <1>1, <1>2, DripCallEnds

LEMMA DripDeleteGone ==
  ASSUME DripInv, NEW c \in Calls, D!DeleteGone(c)
  PROVE  DripInv'
<1>1. /\ D!Return(c) /\ dripCall[c].at = "delete"
      /\ UNCHANGED <<order, enabled, enrollment, mailed, owed, dropped, dripRaced, dripFailures>>
  BY DEF D!DeleteGone, D!ghosts
<1>2. dripFailures' \in 0 .. MaxFailures /\ dropped' \in BOOLEAN
  BY <1>1, DripTypes DEF DripInv
<1>. QED
  BY <1>1, <1>2, DripCallEnds

-----------------------------------------------------------------------------
(* The steps that write the enrollment.                                    *)
LEMMA EnrollmentMoves ==
  ASSUME DripInv, NEW c \in Calls, D!Return(c),
         UNCHANGED <<order, enabled, mailed, owed, dropped, dripRaced, dripFailures>>,
         enrollment.row, enrollment' \in D!Enrollments, enrollment'.row,
         Ticking(c) \/ (enrollment'.idx = enrollment.idx
                          /\ enrollment'.completed = enrollment.completed),
         ~ dripRaced =>
           /\ ~ enrollment'.completed /\ ~ enrollment'.cancelled =>
                /\ enrollment'.idx <= Cardinality(D!Existing)
                /\ \A s \in owed : order[s] < enrollment'.idx => mailed[s] > 0
           /\ enrollment'.completed /\ ~ enrollment'.cancelled => \A s \in owed : mailed[s] > 0
           /\ enrollment'.idx >= enrollment.idx
           /\ dripCall[c].at = "mailed" => enrollment'.idx > enrollment.idx
  PROVE  DripInv'
<1>1. /\ DOMAIN dripCall' = Calls /\ dripCall'[c] = D!Idle
      /\ \A d \in Calls \ {c} : dripCall'[d] = dripCall[d]
  BY DEF DripInv, DripRows, D!Return, D!Set
<1>2. /\ D!Idle.at = "idle" /\ D!Idle.at \notin D!Ticks /\ DripSlotOK(D!Idle)
  BY DEF D!Idle, D!Ticks, DripSlotOK
<1>3. D!TypeOK'
  BY <1>1, <1>2 DEF DripInv, DripRows, D!TypeOK, D!Existing, DripSlotOK, D!TickSlot
<1>4. DripRows'
  BY <1>1, <1>2, <1>3 DEF DripInv, DripRows, Ticking, D!Existing
<1>5. ASSUME ~ dripRaced'
      PROVE  DripSteps'
  <2>1. DripSteps /\ ~ dripRaced
    BY <1>5 DEF DripInv
  <2>2. /\ Ordered(order) /\ D!Existing = DOMAIN order /\ enrollment.idx \in Nat
        /\ enrollment'.idx \in Nat
    BY DripTypes DEF DripInv, D!Enrollments
  <2>3. ASSUME NEW d \in Calls
        PROVE  SlotKnows(dripCall[d])'
    <3>1. CASE d = c
      BY <1>1, <1>2, <3>1 DEF SlotKnows
    <3>2. CASE d # c
      <4>1. SlotKnows(dripCall[d]) /\ dripCall'[d] = dripCall[d]
        BY <1>1, <2>1, <3>2 DEF DripSteps
      <4>2. Ticking(d) => /\ enrollment'.idx = enrollment.idx
                          /\ enrollment'.completed = enrollment.completed
        BY <2>1, <3>2 DEF DripSteps
      <4>. QED
        BY <4>1, <4>2 DEF SlotKnows, Ticking, D!Existing
    <3>. QED
      BY <3>1, <3>2
  <2>4. \A d, e \in Calls : Ticking(d)' /\ Ticking(e)' => d = e
    BY <1>1, <1>2, <2>1 DEF DripSteps, Ticking
  <2>5. ASSUME ~ dropped', NEW s \in Steps
        PROVE  MailedBefore(s)'
    <3>1. MailedBefore(s)
      BY <2>1, <2>5 DEF DripSteps
    <3>2. s \in D!Existing => order[s] \in Nat
      BY <2>2 DEF Ordered
    <3>3. ASSUME mailed[s] > 0, s \in D!Existing
          PROVE  \/ order[s] < enrollment'.idx
                 \/ \E d \in Calls : dripCall'[d].at = "mailed" /\ order[s] = enrollment'.idx
      <4>1. CASE order[s] < enrollment.idx
        BY <2>1, <2>2, <3>2, <3>3, <4>1
      <4>2. CASE \E d \in Calls : dripCall[d].at = "mailed" /\ order[s] = enrollment.idx
        <5>1. PICK d \in Calls : dripCall[d].at = "mailed" /\ order[s] = enrollment.idx
          BY <4>2
        <5>2. CASE d = c
          BY <2>1, <2>2, <3>2, <3>3, <5>1, <5>2
        <5>3. CASE d # c
          <6>1. Ticking(d)
            BY <5>1 DEF Ticking, D!Ticks
          <6>2. ~ Ticking(c)
            BY <2>1, <5>3, <6>1 DEF DripSteps
          <6>. QED
            BY <1>1, <5>1, <5>3, <6>2
        <5>. QED
          BY <5>2, <5>3
      <4>. QED
        BY <3>1, <3>3, <4>1, <4>2 DEF MailedBefore
    <3>. QED
      BY <3>1, <3>3 DEF MailedBefore, D!Existing
  <2>. QED
    BY <2>1, <2>3, <2>4, <2>5 DEF DripSteps, D!Active, D!Existing, PackedOrders
<1>. QED
  BY <1>4, <1>5 DEF DripInv

LEMMA DripSmallSteps ==
  ASSUME DripInv
  PROVE  /\ D!Toggle => DripInv'
         /\ \A c \in Calls : D!CancelWrite(c) \/ D!TickInactive(c) \/ D!Retry(c) => DripInv'
<1>1. /\ enrollment \in D!Enrollments /\ enrollment.idx \in Nat
      /\ enrollment = [row |-> enrollment.row, idx |-> enrollment.idx, armed |-> enrollment.armed,
                       completed |-> enrollment.completed, cancelled |-> enrollment.cancelled]
  BY DripTypes DEF DripInv, D!Enrollments
<1>2. ASSUME D!Toggle
      PROVE  DripInv'
  <2>1. enabled' \in BOOLEAN
    BY <1>2 DEF D!Toggle
  <2>2. UNCHANGED <<order, enrollment, mailed, owed, dropped, dripRaced, dripCall, dripFailures>>
    BY <1>2 DEF D!Toggle, D!ghosts
  <2>3. DripRows'
    BY <2>1, <2>2 DEF DripInv, DripRows, D!TypeOK, D!Existing, Ticking
  <2>4. ~ dripRaced' => DripSteps'
    BY <2>2 DEF DripInv, DripSteps, D!Existing, D!Active, Ticking, PackedOrders, SlotKnows,
                MailedBefore
  <2>. QED
    BY <2>3, <2>4 DEF DripInv
<1>3. ASSUME NEW c \in Calls, D!CancelWrite(c) \/ D!TickInactive(c)
      PROVE  DripInv'
  <2>1. /\ enrollment' = [enrollment EXCEPT !.cancelled = TRUE, !.armed = FALSE]
        /\ D!Return(c) /\ dripCall[c].at \in {"cancel", "inactive"}
        /\ UNCHANGED <<order, enabled, mailed, owed, dropped, dripRaced, dripFailures>>
    BY <1>3 DEF D!CancelWrite, D!TickInactive, D!Cancelled, D!ghosts
  <2>2. enrollment.row
    BY <2>1 DEF DripInv, DripRows, Ticking, D!Ticks
  <2>3. /\ enrollment' \in D!Enrollments /\ enrollment'.row /\ enrollment'.cancelled
        /\ enrollment'.idx = enrollment.idx /\ enrollment'.completed = enrollment.completed
    BY <1>1, <2>1, <2>2 DEF D!Enrollments
  <2>. QED
    BY <1>1, <2>1, <2>2, <2>3, EnrollmentMoves
<1>4. ASSUME NEW c \in Calls, D!Retry(c)
      PROVE  DripInv'
  <2>1. /\ enrollment' = [enrollment EXCEPT !.armed = TRUE]
        /\ D!Return(c) /\ dripCall[c].at = "retry"
        /\ UNCHANGED <<order, enabled, mailed, owed, dropped, dripRaced, dripFailures>>
    BY <1>4 DEF D!Retry, D!ghosts
  <2>2. enrollment.row /\ Ticking(c)
    BY <2>1 DEF DripInv, DripRows, Ticking, D!Ticks
  <2>3. /\ enrollment' \in D!Enrollments /\ enrollment'.row
        /\ enrollment'.cancelled = enrollment.cancelled
        /\ enrollment'.idx = enrollment.idx /\ enrollment'.completed = enrollment.completed
    BY <1>1, <2>1, <2>2 DEF D!Enrollments
  <2>4. ~ dripRaced => DripSteps
    BY DEF DripInv
  <2>5. ~ dripRaced =>
          /\ ~ enrollment'.completed /\ ~ enrollment'.cancelled =>
               /\ enrollment'.idx <= Cardinality(D!Existing)
               /\ \A s \in owed : order[s] < enrollment'.idx => mailed[s] > 0
          /\ enrollment'.completed /\ ~ enrollment'.cancelled => \A s \in owed : mailed[s] > 0
          /\ enrollment'.idx >= enrollment.idx
          /\ dripCall[c].at = "mailed" => enrollment'.idx > enrollment.idx
    BY <1>1, <2>1, <2>2, <2>3, <2>4 DEF DripSteps, D!Active
  <2>. QED
    BY <2>1, <2>2, <2>3, <2>5, EnrollmentMoves
<1>. QED
  BY <1>2, <1>3, <1>4

LEMMA DripNoStep ==
  ASSUME DripInv, NEW c \in Calls, D!TickNoStep(c)
  PROVE  DripInv'
<1>1. /\ enrollment' = [enrollment EXCEPT !.completed = TRUE, !.armed = FALSE]
      /\ D!Return(c) /\ dripCall[c].at = "tick"
      /\ ~ (dripCall[c].seen.idx < Cardinality(DOMAIN dripCall[c].steps))
      /\ UNCHANGED <<order, enabled, mailed, owed, dropped, dripRaced, dripFailures>>
  BY DripCounts DEF D!TickNoStep, D!HasStep, D!StepCount, D!ghosts
<1>2. enrollment.row /\ Ticking(c)
  BY <1>1 DEF DripInv, DripRows, Ticking, D!Ticks
<1>3. /\ enrollment' \in D!Enrollments /\ enrollment'.row /\ enrollment.idx \in Nat
      /\ enrollment'.cancelled = enrollment.cancelled
      /\ enrollment'.idx = enrollment.idx /\ enrollment'.completed
  BY <1>1, <1>2, DripTypes DEF DripInv, D!Enrollments
<1>4. ASSUME ~ dripRaced, ~ enrollment'.cancelled, NEW s \in owed
      PROVE  mailed[s] > 0
  <2>1. DripSteps /\ SlotKnows(dripCall[c])
    BY <1>4 DEF DripInv, DripSteps
  <2>2. /\ dripCall[c].steps = order /\ dripCall[c].seen.idx = enrollment.idx
        /\ ~ enrollment.completed
    BY <1>1, <2>1 DEF SlotKnows, D!Ticks
  <2>3. /\ s \in DOMAIN order /\ order[s] \in Nat /\ Cardinality(DOMAIN order) \in Nat
        /\ D!Existing = DOMAIN order
    BY DripTypes DEF DripInv, Ordered
  <2>4. order[s] < Cardinality(DOMAIN order)
    BY <2>1, <2>3 DEF DripSteps, PackedOrders
  <2>5. order[s] < enrollment.idx
    BY <1>1, <1>3, <2>2, <2>3, <2>4
  <2>. QED
    BY <1>2, <1>3, <1>4, <2>1, <2>2, <2>5 DEF DripSteps, D!Active
<1>5. ~ dripRaced =>
          /\ ~ enrollment'.completed /\ ~ enrollment'.cancelled =>
               /\ enrollment'.idx <= Cardinality(D!Existing)
               /\ \A s \in owed : order[s] < enrollment'.idx => mailed[s] > 0
          /\ enrollment'.completed /\ ~ enrollment'.cancelled => \A s \in owed : mailed[s] > 0
          /\ enrollment'.idx >= enrollment.idx
          /\ dripCall[c].at = "mailed" => enrollment'.idx > enrollment.idx
  BY <1>1, <1>3, <1>4
<1>. QED
  BY <1>1, <1>2, <1>3, <1>5, EnrollmentMoves

LEMMA DripAdvance ==
  ASSUME DripInv, NEW c \in Calls, D!Advance(c)
  PROVE  DripInv'
<1> DEFINE next == dripCall[c].seen.idx + 1
           last == next >= Cardinality(DOMAIN dripCall[c].steps)
<1>1. /\ enrollment' = [enrollment EXCEPT !.idx = next, !.armed = ~ last,
                                          !.completed = @ \/ last]
      /\ D!Return(c) /\ dripCall[c].at = "mailed"
      /\ UNCHANGED <<order, enabled, mailed, owed, dropped, dripRaced, dripFailures>>
  BY DripCounts DEF D!Advance, D!StepCount, D!ghosts
<1>2. enrollment.row /\ Ticking(c)
  BY <1>1 DEF DripInv, DripRows, Ticking, D!Ticks
<1>3. next \in Nat
  BY <1>2, DripTypes, DripSlotParts DEF DripInv, Ticking
<1>4. /\ enrollment \in D!Enrollments /\ enrollment.idx \in Nat
  BY DripTypes DEF DripInv
<1>5. /\ enrollment' \in D!Enrollments /\ enrollment'.row
      /\ enrollment'.cancelled = enrollment.cancelled /\ enrollment'.idx = next
      /\ enrollment'.completed = (enrollment.completed \/ last)
  <2>. HIDE DEF next, last
  <2>1. (~ last) \in BOOLEAN
    OBVIOUS
  <2>. QED
    BY <1>1, <1>2, <1>3, <1>4, <2>1 DEF D!Enrollments
<1>6. ASSUME ~ dripRaced
      PROVE  /\ next <= Cardinality(D!Existing) /\ next > enrollment.idx
             /\ ~ enrollment.cancelled => \A s \in owed : order[s] < next => mailed[s] > 0
             /\ last => \A s \in owed : order[s] < next
  <2>1. DripSteps /\ SlotKnows(dripCall[c])
    BY <1>6 DEF DripInv, DripSteps
  <2>2. /\ dripCall[c].steps = order /\ dripCall[c].seen.idx = enrollment.idx
        /\ ~ enrollment.completed /\ enrollment.idx < Cardinality(D!Existing)
        /\ \A s \in D!Existing : order[s] = enrollment.idx => mailed[s] > 0
    BY <1>1, <2>1 DEF SlotKnows, D!Ticks
  <2>3. /\ D!Existing = DOMAIN order /\ Cardinality(D!Existing) \in Nat /\ owed \in SUBSET D!Existing
        /\ \A s \in D!Existing : order[s] \in Nat
    BY DripTypes DEF DripInv, Ordered
  <2>4. next = enrollment.idx + 1
    BY <2>2
  <2>5. ~ enrollment.cancelled => \A s \in owed : order[s] < enrollment.idx => mailed[s] > 0
    BY <1>2, <2>1, <2>2 DEF DripSteps, D!Active
  <2>6. \A s \in owed : order[s] < Cardinality(D!Existing)
    BY <2>1, <2>3 DEF DripSteps, PackedOrders
  <2>7. last => next >= Cardinality(D!Existing)
    BY <2>2, <2>3
  <2>. HIDE DEF next, last
  <2>8. next <= Cardinality(D!Existing) /\ next > enrollment.idx
    BY <1>4, <2>2, <2>3, <2>4
  <2>9. \A s \in owed : order[s] < next => order[s] < enrollment.idx \/ order[s] = enrollment.idx
    BY <1>4, <2>3, <2>4
  <2>10. last => \A s \in owed : order[s] < next
    BY <1>3, <2>3, <2>6, <2>7
  <2>. QED
    BY <2>2, <2>3, <2>5, <2>8, <2>9, <2>10
<1>. HIDE DEF next, last
<1>7. ~ dripRaced =>
        /\ ~ enrollment'.completed /\ ~ enrollment'.cancelled =>
             /\ enrollment'.idx <= Cardinality(D!Existing)
             /\ \A s \in owed : order[s] < enrollment'.idx => mailed[s] > 0
        /\ enrollment'.completed /\ ~ enrollment'.cancelled => \A s \in owed : mailed[s] > 0
        /\ enrollment'.idx >= enrollment.idx
        /\ dripCall[c].at = "mailed" => enrollment'.idx > enrollment.idx
  <2>. SUFFICES ASSUME ~ dripRaced
                PROVE  /\ enrollment'.idx <= Cardinality(D!Existing)
                       /\ ~ enrollment.cancelled =>
                            \A s \in owed : order[s] < enrollment'.idx => mailed[s] > 0
                       /\ enrollment'.completed => \A s \in owed : order[s] < enrollment'.idx
                       /\ enrollment'.idx > enrollment.idx /\ enrollment'.idx >= enrollment.idx
    BY <1>5
  <2>1. ~ enrollment.completed
    <3>1. SlotKnows(dripCall[c])
      BY DEF DripInv, DripSteps
    <3>. QED
      BY <1>1, <3>1 DEF SlotKnows, D!Ticks
  <2>2. enrollment'.completed => last
    BY <1>5, <2>1
  <2>3. next >= enrollment.idx
    BY <1>3, <1>4, <1>6
  <2>. QED
    BY <1>5, <1>6, <2>2, <2>3
<1>. QED
  BY <1>1, <1>2, <1>5, <1>7, EnrollmentMoves

LEMMA DripEnrollWrites ==
  ASSUME DripInv, NEW c \in Calls, D!EnrollWrite(c)
  PROVE  DripInv'
<1>1. /\ dripCall[c].at = "enroll" /\ D!Return(c)
      /\ UNCHANGED <<order, enabled, mailed, dropped, dripRaced, dripFailures>>
  BY DEF D!EnrollWrite
<1>2. CASE enrollment.row
  <2>1. UNCHANGED <<enrollment, owed>>
    BY <1>2 DEF D!EnrollWrite
  <2>2. dripFailures' \in 0 .. MaxFailures /\ dropped' \in BOOLEAN
    BY <1>1, DripTypes DEF DripInv
  <2>. QED
    BY <1>1, <2>1, <2>2, DripCallEnds
<1>3. CASE ~ enrollment.row
  <2>1. /\ enrollment' = [row |-> TRUE, idx |-> 0, armed |-> TRUE, completed |-> FALSE,
                          cancelled |-> FALSE]
        /\ owed' = D!Existing
    BY <1>3 DEF D!EnrollWrite, D!NotEnrolled
  <2>2. /\ DOMAIN dripCall' = Calls /\ dripCall'[c] = D!Idle
        /\ \A d \in Calls \ {c} : dripCall'[d] = dripCall[d]
    BY <1>1 DEF DripInv, DripRows, D!Return, D!Set
  <2>3. D!Idle.at = "idle" /\ D!Idle.at \notin D!Ticks /\ DripSlotOK(D!Idle) /\ SlotKnows(D!Idle)
    BY DEF D!Idle, D!Ticks, DripSlotOK, SlotKnows
  <2>4. \A d \in Calls : ~ Ticking(d) /\ ~ dripCall'[d].at \in D!Ticks
    BY <1>3, <2>2, <2>3 DEF DripInv, DripRows, Ticking
  <2>5. \A s \in Steps : mailed[s] = 0
    BY <1>3 DEF DripInv, DripRows
  <2>6. enrollment' \in D!Enrollments
    BY <2>1 DEF D!Enrollments
  <2>7. D!TypeOK'
    BY <1>1, <2>1, <2>2, <2>3, <2>6
       DEF DripInv, DripRows, D!TypeOK, D!Existing, DripSlotOK, D!TickSlot
  <2>8. DripRows'
    BY <1>1, <2>1, <2>2, <2>4, <2>7 DEF DripInv, DripRows, Ticking, D!Existing
  <2>9. ASSUME ~ dripRaced'
        PROVE  DripSteps'
    <3>1. DripSteps
      BY <1>1, <2>9 DEF DripInv
    <3>2. \A d \in Calls : SlotKnows(dripCall[d])'
      BY <1>1, <2>2, <2>3, <2>4, <3>1 DEF DripSteps, SlotKnows, D!Existing
    <3>3. \A s \in Steps : MailedBefore(s)'
      BY <1>1, <2>5 DEF MailedBefore
    <3>4. /\ D!Existing = DOMAIN order /\ Cardinality(D!Existing) \in Nat
          /\ \A s \in D!Existing : order[s] \in Nat
      BY DripTypes DEF DripInv, Ordered
    <3>5. /\ enrollment'.idx = 0 /\ enrollment'.idx <= Cardinality(D!Existing)
          /\ \A s \in owed' : ~ (order[s] < enrollment'.idx) /\ ~ enrollment'.completed
      BY <2>1, <3>4
    <3>. QED
      BY <1>1, <2>1, <2>4, <3>1, <3>2, <3>3, <3>5
         DEF DripSteps, D!Existing, PackedOrders, Ticking, D!Active
  <2>. QED
    BY <2>8, <2>9 DEF DripInv
<1>. QED
  BY <1>2, <1>3

-----------------------------------------------------------------------------
(* The steps that mail, add or delete a step.                              *)

(* The step a tick mails is the one at the index of the enrollment.        *)
LEMMA CurrentIsNext ==
  ASSUME DripInv, NEW c \in Calls, dripCall[c].steps = order,
         dripCall[c].seen.idx = enrollment.idx, enrollment.idx < Cardinality(D!Existing),
         PackedOrders(order)
  PROVE  /\ D!Current(c) \in D!Existing /\ order[D!Current(c)] = enrollment.idx
         /\ \A s \in D!Existing : order[s] = enrollment.idx => s = D!Current(c)
<1>1. Ordered(order) /\ D!Existing = DOMAIN order /\ enrollment.idx \in Nat
  BY DripTypes DEF DripInv
<1>2. PICK s \in DOMAIN order : order[s] = enrollment.idx
  BY <1>1, PackedIsOnto
<1>3. \A t \in DOMAIN order : D!Place(order, t) = order[t]
  BY <1>1, PackedIsPlace
<1>4. D!Current(c) = CHOOSE t \in DOMAIN order : D!Place(order, t) = enrollment.idx
  BY DEF D!Current
<1>5. \E t \in DOMAIN order : D!Place(order, t) = enrollment.idx
  BY <1>2, <1>3
<1>6. D!Current(c) \in DOMAIN order /\ D!Place(order, D!Current(c)) = enrollment.idx
  BY <1>4, <1>5
<1>. QED
  BY <1>1, <1>3, <1>6 DEF Ordered

LEMMA DripMails ==
  ASSUME DripInv, NEW c \in Calls, D!Mail(c)
  PROVE  DripInv'
<1> DEFINE n == TickAt(dripCall[c], "mailed")
           cur == D!Current(c)
<1>1. /\ dripCall[c].at = "tick" /\ D!Goto(c, "mailed")
      /\ dripCall[c].seen.idx < Cardinality(DOMAIN dripCall[c].steps)
      /\ mailed' = [mailed EXCEPT ![cur] = IF mailed[cur] = 0 THEN 1 ELSE 2]
      /\ UNCHANGED <<order, enabled, enrollment, owed, dropped, dripRaced, dripFailures>>
  BY DripCounts DEF D!Mail, D!HasStep, D!StepCount, D!ghosts
<1>2. Ticking(c) /\ "mailed" \in D!Ticks
  BY <1>1 DEF Ticking, D!Ticks
<1>3. /\ dripCall' = [dripCall EXCEPT ![c] = n] /\ DripSlotOK(n) /\ SeenActive(n)
      /\ enrollment.row /\ n.at = "mailed" /\ n.steps = dripCall[c].steps
      /\ n.seen = dripCall[c].seen
  BY <1>1, <1>2, TickGoes
<1>. HIDE DEF n
<1>4. /\ DOMAIN dripCall' = Calls /\ dripCall'[c] = n
      /\ \A d \in Calls \ {c} : dripCall'[d] = dripCall[d]
  BY <1>3 DEF DripInv, DripRows
<1>5. mailed' \in [Steps -> 0 .. 2] /\ \A s \in Steps : s # cur => mailed'[s] = mailed[s]
  <2>1. mailed \in [Steps -> 0 .. 2]
    BY DripTypes DEF DripInv
  <2> DEFINE v == IF mailed[cur] = 0 THEN 1 ELSE 2
  <2>2. v \in 0 .. 2 /\ mailed' = [mailed EXCEPT ![cur] = v]
    BY <1>1
  <2>. HIDE DEF cur, v
  <2>. QED
    BY <2>1, <2>2
<1>6. D!TypeOK'
  BY <1>1, <1>3, <1>4, <1>5
     DEF DripInv, DripRows, D!TypeOK, D!Existing, DripSlotOK, D!TickSlot
<1>7. DripRows'
  BY <1>1, <1>2, <1>3, <1>4, <1>6 DEF DripInv, DripRows, Ticking, D!Existing
<1>8. ASSUME ~ dripRaced'
      PROVE  DripSteps'
  <2>1. DripSteps /\ SlotKnows(dripCall[c]) /\ \A d \in Calls \ {c} : ~ Ticking(d)
    BY <1>1, <1>2, <1>8 DEF DripInv, DripSteps
  <2>2. /\ dripCall[c].steps = order /\ dripCall[c].seen.idx = enrollment.idx
        /\ ~ enrollment.completed
    BY <1>1, <2>1 DEF SlotKnows, D!Ticks
  <2>3. /\ D!Existing = DOMAIN order /\ D!Existing \in SUBSET Steps
        /\ mailed \in [Steps -> 0 .. 2]
    BY DripTypes DEF DripInv
  <2>4. enrollment.idx < Cardinality(D!Existing)
    BY <1>1, <2>2, <2>3
  <2>5. /\ cur \in D!Existing /\ order[cur] = enrollment.idx
        /\ \A s \in D!Existing : order[s] = enrollment.idx => s = cur
    BY <2>1, <2>2, <2>4, CurrentIsNext DEF DripSteps
  <2>. HIDE DEF cur
  <2>6. cur \in Steps /\ mailed'[cur] > 0 /\ (mailed[cur] = 0 => mailed'[cur] = 1)
    BY <1>1, <2>3, <2>5
  <2>7. \A s \in Steps : mailed[s] > 0 => mailed'[s] > 0
    BY <1>5, <2>6
  <2>8. ASSUME NEW d \in Calls
        PROVE  SlotKnows(dripCall[d])'
    <3>1. CASE d = c
      BY <1>1, <1>3, <1>4, <2>2, <2>4, <2>5, <2>6, <3>1 DEF SlotKnows, D!Existing, D!Ticks
    <3>2. CASE d # c
      <4>1. SlotKnows(dripCall[d]) /\ dripCall'[d] = dripCall[d] /\ ~ Ticking(d)
        BY <1>4, <2>1, <3>2 DEF DripSteps
      <4>2. dripCall[d].at = "add" => dripCall[d].s \in Steps
        BY DripTypes, DripSlotParts DEF DripInv
      <4>3. dripCall[d].at # "mailed"
        BY <4>1 DEF Ticking, D!Ticks
      <4>. QED
        BY <1>1, <1>5, <2>5, <4>1, <4>2, <4>3 DEF SlotKnows, D!Existing, Ticking
    <3>. QED
      BY <3>1, <3>2
  <2>9. ASSUME ~ dropped', NEW s \in Steps
        PROVE  MailedBefore(s)'
    <3>1. MailedBefore(s) /\ MailedBefore(cur)
      BY <1>1, <2>1, <2>6, <2>9 DEF DripSteps
    <3>2. CASE s = cur
      <4>1. ~ (order[cur] < enrollment.idx)
        BY <2>5, DripTypes DEF DripInv
      <4>2. \A d \in Calls : dripCall[d].at # "mailed"
        BY <1>1, <2>1 DEF Ticking, D!Ticks
      <4>3. mailed[cur] = 0
        BY <2>3, <2>5, <2>6, <3>1, <4>1, <4>2 DEF MailedBefore
      <4>4. mailed'[cur] = 1
        BY <2>6, <4>3
      <4>. QED
        BY <1>1, <1>3, <1>4, <2>5, <3>2, <4>4 DEF MailedBefore, D!Existing
    <3>3. CASE s # cur
      <4>1. \A d \in Calls : dripCall[d].at # "mailed"
        BY <1>1, <2>1 DEF Ticking, D!Ticks
      <4>. QED
        BY <1>1, <1>5, <3>1, <3>3, <4>1 DEF MailedBefore, D!Existing
    <3>. QED
      BY <3>2, <3>3
  <2>10. \A d, e \in Calls : Ticking(d)' /\ Ticking(e)' => d = e
    BY <1>4, <2>1 DEF Ticking
  <2>11. owed \subseteq Steps
    BY <2>3, DripTypes DEF DripInv
  <2>. QED
    BY <1>1, <2>1, <2>7, <2>8, <2>9, <2>10, <2>11 DEF DripSteps, D!Existing, PackedOrders, D!Active
<1>. QED
  BY <1>7, <1>8 DEF DripInv

LEMMA DripAddWrites ==
  ASSUME DripInv, NEW c \in Calls, D!AddWrite(c)
  PROVE  DripInv'
<1> DEFINE s == dripCall[c].s
           o == dripCall[c].order
           free == s \notin D!Existing /\ D!OrderFree(o)
<1>1. /\ dripCall[c].at = "add" /\ D!Return(c)
      /\ dripRaced' = (dripRaced \/ D!InFlight(c, D!Ticks \cup {"delete", "enroll"}))
      /\ UNCHANGED <<enabled, enrollment, mailed, dropped, dripFailures>>
  BY DEF D!AddWrite
<1>2. s \in Steps /\ o \in D!Orders /\ o \in Nat
  BY <1>1, DripTypes, DripSlotParts DEF DripInv
<1>3. /\ DOMAIN dripCall' = Calls /\ dripCall'[c] = D!Idle
      /\ \A d \in Calls \ {c} : dripCall'[d] = dripCall[d]
  BY <1>1 DEF DripInv, DripRows, D!Return, D!Set
<1>4. D!Idle.at = "idle" /\ D!Idle.at \notin D!Ticks /\ DripSlotOK(D!Idle) /\ SlotKnows(D!Idle)
  BY DEF D!Idle, D!Ticks, DripSlotOK, SlotKnows
<1>5. /\ D!Existing = DOMAIN order /\ D!Existing \in SUBSET Steps /\ Ordered(order)
      /\ Cardinality(D!Existing) \in Nat /\ owed \in SUBSET D!Existing
      /\ \A t \in D!Existing : order[t] \in Nat
      /\ \A t, u \in D!Existing : order[t] = order[u] => t = u
      /\ enrollment.idx \in Nat
      /\ dropped \in BOOLEAN /\ dripRaced \in BOOLEAN /\ dripFailures \in 0 .. MaxFailures
  BY DripTypes DEF DripInv, Ordered
<1>6. dripRaced' \in BOOLEAN /\ (dripRaced => dripRaced')
  BY <1>1, <1>5 DEF D!InFlight
<1>7. CASE ~ free
  <2>1. UNCHANGED <<order, owed>>
    BY <1>7 DEF D!AddWrite
  <2>2. dripCall' = [dripCall EXCEPT ![c] = D!Idle] /\ D!Idle.at # "cancel"
    BY <1>1, <1>4 DEF D!Return, D!Set
  <2>. QED
    BY <1>1, <1>4, <1>5, <1>6, <2>1, <2>2, DripCallMoves
<1>8. CASE free
  <2>1. /\ order' = [t \in D!Existing \cup {s} |-> IF t = s THEN o ELSE order[t]]
        /\ owed' = IF D!Active THEN owed \cup {s} ELSE owed
    BY <1>8 DEF D!AddWrite
  <2>2. /\ s \notin D!Existing /\ \A t \in D!Existing : order[t] # o
    BY <1>8 DEF D!OrderFree
  <2>. HIDE DEF s, o, free
  <2>3. /\ D!Existing' = D!Existing \cup {s} /\ order'[s] = o
        /\ \A t \in D!Existing : order'[t] = order[t]
        /\ owed' \in SUBSET D!Existing' /\ owed' \in SUBSET (owed \cup {s})
        /\ Cardinality(D!Existing') = Cardinality(D!Existing) + 1
    <3>1. D!Existing' = D!Existing \cup {s} /\ order'[s] = o
      BY <2>1 DEF D!Existing
    <3>2. \A t \in D!Existing : order'[t] = order[t]
      BY <2>1, <2>2
    <3>3. Cardinality(D!Existing \cup {s}) = Cardinality(D!Existing) + 1
      BY <1>2, <1>5, <2>2, SomeSteps
    <3>. QED
      BY <1>5, <2>1, <3>1, <3>2, <3>3
  <2>4. \A d \in Calls : DripSlotOK(dripCall'[d])
    BY <1>3, <1>4, DripTypes DEF DripInv
  <2>5. D!TypeOK'
    <3>1. D!Existing' \subseteq Steps /\ owed' \subseteq Steps
      BY <1>2, <1>5, <2>3
    <3>2. \A t \in D!Existing' : order'[t] \in D!Orders
      BY <1>2, <2>3 DEF DripInv, DripRows, D!TypeOK
    <3>3. \A t, u \in D!Existing' : order'[t] = order'[u] => t = u
      BY <1>5, <2>2, <2>3
    <3>4. enabled' \in BOOLEAN /\ enrollment' \in D!Enrollments /\ mailed' \in [Steps -> 0 .. 2]
      BY <1>1 DEF DripInv, DripRows, D!TypeOK
    <3>. QED
      BY <1>1, <1>5, <1>6, <2>4, <3>1, <3>2, <3>3, <3>4
         DEF D!TypeOK, DripSlotOK, D!TickSlot, D!Slots, D!Orders, D!Enrollments, D!Ticks, D!Idle
  <2>6. DripRows'
    BY <1>1, <1>3, <1>4, <2>3, <2>5 DEF DripInv, DripRows, Ticking
  <2>7. ASSUME ~ dripRaced'
        PROVE  DripSteps'
    <3>1. /\ DripSteps /\ SlotKnows(dripCall[c])
          /\ \A d \in Calls \ {c} : dripCall[d].at \notin D!Ticks \cup {"delete", "enroll"}
      BY <1>1, <1>6, <2>7 DEF DripInv, DripSteps, D!InFlight
    <3>2. o <= Cardinality(D!Existing) /\ mailed[s] = 0
      BY <1>1, <2>2, <3>1 DEF SlotKnows, s, o
    <3>3. o = Cardinality(D!Existing)
      <4>1. ~ (o < Cardinality(D!Existing))
        BY <1>2, <1>5, <2>2, <3>1, PackedIsOnto DEF DripSteps
      <4>. QED
        BY <1>2, <1>5, <3>2, <4>1
    <3>4. \A t \in D!Existing : order[t] < Cardinality(D!Existing)
      BY <1>5, <3>1 DEF DripSteps, PackedOrders
    <3>5. PackedOrders(order)'
      <4>1. \A t \in D!Existing' : order'[t] < Cardinality(D!Existing) + 1
        BY <1>2, <1>5, <2>3, <3>3, <3>4
      <4>. QED
        BY <2>3, <4>1 DEF PackedOrders, D!Existing
    <3>6. ASSUME NEW d \in Calls
          PROVE  SlotKnows(dripCall[d])' /\ dripCall'[d].at \notin D!Ticks
      <4>1. CASE d = c
        BY <1>3, <1>4, <4>1 DEF SlotKnows, D!Ticks
      <4>2. CASE d # c
        <5>1. SlotKnows(dripCall[d]) /\ dripCall'[d] = dripCall[d]
          BY <1>3, <3>1, <4>2 DEF DripSteps
        <5>2. /\ dripCall[d].at \notin {"delete", "mailed"} /\ dripCall[d].at \notin D!Ticks
          BY <3>1, <4>2 DEF D!Ticks
        <5>3. dripCall[d].at = "add" => dripCall[d].order \in Nat
          BY DripTypes, DripSlotParts DEF DripInv
        <5>4. dripCall[d].at = "add" =>
                /\ dripCall[d].order <= Cardinality(D!Existing')
                /\ dripCall[d].s \notin D!Existing' => mailed[dripCall[d].s] = 0
          BY <1>5, <2>3, <5>1, <5>3 DEF SlotKnows
        <5>. QED
          BY <1>1, <5>1, <5>2, <5>4 DEF SlotKnows
      <4>. QED
        BY <4>1, <4>2
    <3>7. D!Active' => /\ enrollment'.idx <= Cardinality(D!Existing')
                       /\ \A t \in owed' : order'[t] < enrollment'.idx => mailed'[t] > 0
      <4>. SUFFICES ASSUME D!Active
                    PROVE  /\ enrollment.idx <= Cardinality(D!Existing')
                           /\ \A t \in owed' : order'[t] < enrollment.idx => mailed[t] > 0
        BY <1>1 DEF D!Active
      <4>1. /\ enrollment.idx <= Cardinality(D!Existing)
            /\ \A t \in owed : order[t] < enrollment.idx => mailed[t] > 0
        BY <3>1 DEF DripSteps
      <4>2. ~ (order'[s] < enrollment.idx)
        BY <1>5, <2>3, <3>3, <4>1
      <4>3. enrollment.idx <= Cardinality(D!Existing')
        BY <1>5, <2>3, <4>1
      <4>. QED
        BY <1>5, <2>3, <4>1, <4>2, <4>3
    <3>8. enrollment'.completed /\ ~ enrollment'.cancelled => \A t \in owed' : mailed'[t] > 0
      BY <1>1, <2>1, <3>1 DEF DripSteps, D!Active
    <3>9. ASSUME ~ dropped', NEW t \in Steps
          PROVE  MailedBefore(t)'
      <4>1. MailedBefore(t) /\ \A d \in Calls : dripCall[d].at # "mailed"
        BY <1>1, <3>1, <3>9 DEF DripSteps, D!Ticks
      <4>2. mailed'[t] > 0 => t # s
        BY <1>1, <3>2
      <4>. QED
        BY <1>1, <2>3, <4>1, <4>2 DEF MailedBefore
    <3>. QED
      BY <3>5, <3>6, <3>7, <3>8, <3>9 DEF DripSteps, Ticking
  <2>. QED
    BY <2>6, <2>7 DEF DripInv
<1>. QED
  BY <1>7, <1>8

LEMMA DripDeletes ==
  ASSUME DripInv, NEW c \in Calls, D!DeleteTx(c)
  PROVE  DripInv'
<1> DEFINE s == dripCall[c].s
           del == dripCall[c].order
           rest == [t \in D!Existing \ {s} |-> order[t]]
           idx == D!IndexAfter(enrollment.idx, del)
           over == idx >= Cardinality(DOMAIN rest)
           places == [t \in DOMAIN rest |-> D!Place(rest, t)]
<1>1. /\ dripCall[c].at = "delete" /\ s \in D!Existing /\ D!Return(c)
      /\ order' = places
      /\ enrollment' = IF ~ D!Active THEN enrollment
                       ELSE [enrollment EXCEPT !.idx = idx, !.completed = over,
                                               !.armed = @ /\ ~ over]
      /\ owed' = owed \ {s}
      /\ dripRaced' = (dripRaced \/ D!InFlight(c, D!Ticks \cup {"delete", "add", "enroll"}))
      /\ UNCHANGED <<enabled, mailed, dropped, dripFailures>>
  BY DripCounts DEF D!DeleteTx
<1>2. del \in Nat
  BY <1>1, DripTypes, DripSlotParts DEF DripInv
<1>3. /\ DOMAIN dripCall' = Calls /\ dripCall'[c] = D!Idle
      /\ \A d \in Calls \ {c} : dripCall'[d] = dripCall[d]
  BY <1>1 DEF DripInv, DripRows, D!Return, D!Set
<1>4. D!Idle.at = "idle" /\ D!Idle.at \notin D!Ticks /\ DripSlotOK(D!Idle) /\ SlotKnows(D!Idle)
  BY DEF D!Idle, D!Ticks, DripSlotOK, SlotKnows
<1>5. /\ D!Existing = DOMAIN order /\ D!Existing \in SUBSET Steps /\ Ordered(order)
      /\ Cardinality(D!Existing) \in Nat /\ owed \in SUBSET D!Existing
      /\ \A t \in D!Existing : order[t] \in Nat
      /\ \A t, u \in D!Existing : order[t] = order[u] => t = u
      /\ enrollment \in D!Enrollments /\ enrollment.idx \in Nat /\ dropped \in BOOLEAN
      /\ dripRaced \in BOOLEAN /\ dripFailures \in 0 .. MaxFailures
  BY DripTypes DEF DripInv, Ordered
<1>6. dripRaced' \in BOOLEAN /\ (dripRaced => dripRaced')
  BY <1>1, <1>5 DEF D!InFlight
<1>7. /\ DOMAIN rest = D!Existing \ {s} /\ DOMAIN rest \in SUBSET Steps /\ Ordered(rest)
  BY <1>5 DEF Ordered
<1>8. Cardinality(DOMAIN rest) \in Nat /\ Cardinality(DOMAIN rest) <= Cardinality(Steps)
      /\ Cardinality(Steps) \in Nat
  BY <1>7, SomeSteps
<1>9. D!Existing' = DOMAIN rest /\ \A t \in DOMAIN rest : order'[t] = D!Place(rest, t)
  BY <1>1 DEF D!Existing
<1>10. /\ \A t \in DOMAIN rest : order'[t] \in Nat /\ order'[t] < Cardinality(DOMAIN rest)
       /\ \A t, u \in DOMAIN rest : order'[t] = order'[u] => t = u
  BY <1>7, <1>9, PlacesArePacked
<1>11. /\ idx \in Nat /\ idx = IF enrollment.idx > del THEN enrollment.idx - 1 ELSE enrollment.idx
  BY <1>2, <1>5 DEF D!IndexAfter
<1>. HIDE DEF rest, idx, places
<1>12. /\ enrollment' \in D!Enrollments /\ enrollment'.row = enrollment.row
       /\ enrollment'.cancelled = enrollment.cancelled
       /\ D!Active => enrollment'.idx = idx /\ enrollment'.completed = over
       /\ ~ D!Active => enrollment' = enrollment
  <2>1. over \in BOOLEAN /\ (~ over) \in BOOLEAN
    OBVIOUS
  <2>. HIDE DEF over
  <2>. QED
    BY <1>1, <1>5, <1>11, <2>1 DEF D!Enrollments
<1>. HIDE DEF over
<1>13. \A d \in Calls : DripSlotOK(dripCall'[d])
  BY <1>3, <1>4, DripTypes DEF DripInv
<1>14. D!TypeOK'
  <2>1. D!Existing' \subseteq Steps /\ owed' \subseteq Steps
    BY <1>1, <1>5, <1>7, <1>9
  <2>2. \A t \in D!Existing' : order'[t] \in D!Orders
    BY <1>8, <1>9, <1>10, DripCounts
  <2>3. enabled' \in BOOLEAN /\ mailed' \in [Steps -> 0 .. 2]
    BY <1>1 DEF DripInv, DripRows, D!TypeOK
  <2>. QED
    BY <1>1, <1>5, <1>6, <1>9, <1>10, <1>12, <1>13, <2>1, <2>2, <2>3
       DEF D!TypeOK, DripSlotOK, D!TickSlot, D!Slots, D!Orders, D!Enrollments, D!Ticks, D!Idle
<1>15. DripRows'
  <2>1. owed' \subseteq D!Existing'
    BY <1>1, <1>5, <1>7, <1>9
  <2>2. enrollment'.completed \/ enrollment'.cancelled => enrollment'.row
    BY <1>12 DEF DripInv, DripRows, D!Active
  <2>. QED
    BY <1>1, <1>3, <1>4, <1>12, <1>14, <2>1, <2>2 DEF DripInv, DripRows, Ticking
<1>16. ASSUME ~ dripRaced'
       PROVE  DripSteps'
  <2>1. /\ DripSteps /\ SlotKnows(dripCall[c])
        /\ \A d \in Calls \ {c} : dripCall[d].at \notin D!Ticks \cup {"delete", "add", "enroll"}
    BY <1>1, <1>6, <1>16 DEF DripInv, DripSteps, D!InFlight
  <2>2. del = order[s]
    BY <1>1, <2>1 DEF SlotKnows
  <2>3. \A t \in DOMAIN rest : /\ t \in D!Existing /\ t # s
                               /\ order'[t] = IF order[t] > order[s] THEN order[t] - 1
                                              ELSE order[t]
    BY <1>1, <1>5, <1>7, <1>9, <2>1, PlaceWithout DEF rest, DripSteps
  <2>4. PackedOrders(order)'
    BY <1>9, <1>10 DEF PackedOrders, D!Existing
  <2>5. ASSUME NEW d \in Calls
        PROVE  SlotKnows(dripCall[d])' /\ dripCall'[d].at \notin D!Ticks
    <3>1. CASE d = c
      BY <1>3, <1>4, <3>1 DEF SlotKnows, D!Ticks
    <3>2. CASE d # c
      BY <1>3, <2>1, <3>2 DEF SlotKnows, D!Ticks
    <3>. QED
      BY <3>1, <3>2
  <2>6. ASSUME NEW t \in DOMAIN rest
        PROVE  order'[t] < idx <=> order[t] < enrollment.idx
    <3>1. /\ order[t] \in Nat /\ order[s] \in Nat /\ order[t] # order[s]
          /\ order'[t] = IF order[t] > order[s] THEN order[t] - 1 ELSE order[t]
      BY <1>1, <1>5, <2>3
    <3>. QED
      BY <1>5, <1>11, <2>2, <3>1
  <2>7. owed' \in SUBSET (owed \cap DOMAIN rest)
    BY <1>1, <1>5, <1>7
  <2>8. D!Active => \A t \in owed' : order'[t] < idx => mailed[t] > 0
    BY <2>1, <2>6, <2>7 DEF DripSteps
  <2>9. ASSUME D!Active, over, NEW t \in owed'
        PROVE  mailed[t] > 0
    <3>1. order'[t] < idx
      BY <1>8, <1>10, <1>11, <2>7, <2>9 DEF over
    <3>. QED
      BY <2>8, <2>9, <3>1
  <2>10. enrollment'.completed /\ ~ enrollment'.cancelled => \A t \in owed' : mailed'[t] > 0
    BY <1>1, <1>12, <2>1, <2>7, <2>9 DEF DripSteps
  <2>11. D!Active' => /\ enrollment'.idx <= Cardinality(D!Existing')
                      /\ \A t \in owed' : order'[t] < enrollment'.idx => mailed'[t] > 0
    <3>. SUFFICES ASSUME D!Active'
                  PROVE  /\ enrollment'.idx <= Cardinality(D!Existing')
                         /\ \A t \in owed' : order'[t] < enrollment'.idx => mailed'[t] > 0
      OBVIOUS
    <3>1. D!Active
      BY <1>12 DEF D!Active
    <3>2. ~ over /\ enrollment'.idx = idx
      BY <1>12, <3>1 DEF D!Active
    <3>3. idx <= Cardinality(D!Existing')
      BY <1>8, <1>9, <1>11, <3>2 DEF over
    <3>. QED
      BY <1>1, <2>8, <3>1, <3>2, <3>3
  <2>12. ASSUME ~ dropped', NEW t \in Steps
         PROVE  MailedBefore(t)'
    <3>1. MailedBefore(t) /\ \A d \in Calls : dripCall[d].at # "mailed"
      BY <1>1, <2>1, <2>12 DEF DripSteps, D!Ticks
    <3>2. ASSUME mailed[t] > 0, t \in DOMAIN rest
          PROVE  order'[t] < enrollment'.idx
      <4>1. order[t] < enrollment.idx
        BY <2>3, <3>1, <3>2 DEF MailedBefore
      <4>2. CASE D!Active
        BY <1>12, <2>6, <3>2, <4>1, <4>2
      <4>3. CASE ~ D!Active
        <5>1. order[t] \in Nat /\ order[s] \in Nat
          BY <1>1, <1>5, <2>3, <3>2
        <5>. QED
          BY <1>5, <1>12, <2>3, <3>2, <4>1, <4>3, <5>1
      <4>. QED
        BY <4>2, <4>3
    <3>. QED
      BY <1>1, <1>9, <3>1, <3>2 DEF MailedBefore
  <2>. QED
    BY <2>4, <2>5, <2>10, <2>11, <2>12 DEF DripSteps, Ticking
<1>. QED
  BY <1>15, <1>16 DEF DripInv

-----------------------------------------------------------------------------
LEMMA DripInitInv ==
  ASSUME D!Init
  PROVE  DripInv
<1>1. /\ DOMAIN order = {} /\ D!Existing = {} /\ owed = {} /\ dropped = FALSE
      /\ dripRaced = FALSE /\ dripFailures = 0 /\ enabled = TRUE
      /\ mailed = [s \in Steps |-> 0] /\ dripCall = [c \in Calls |-> D!Idle]
      /\ enrollment = [row |-> FALSE, idx |-> 0, armed |-> FALSE, completed |-> FALSE,
                       cancelled |-> FALSE]
  BY DEF D!Init, D!Existing, D!NotEnrolled
<1>2. D!Idle.at = "idle" /\ D!Idle.at \notin D!Ticks /\ SlotKnows(D!Idle)
  BY DEF D!Idle, D!Ticks, SlotKnows
<1>3. enrollment \in D!Enrollments /\ dripFailures \in 0 .. MaxFailures
  BY <1>1, StepsAssumption DEF D!Enrollments
<1>4. D!TypeOK
  <2>1. mailed \in [Steps -> 0 .. 2] /\ \A c \in Calls : dripCall[c] = D!Idle
    BY <1>1
  <2>2. /\ D!Existing \subseteq Steps /\ owed \subseteq Steps
        /\ enabled \in BOOLEAN /\ dropped \in BOOLEAN /\ dripRaced \in BOOLEAN
    BY <1>1
  <2>. QED
    BY <1>1, <1>3, <2>1, <2>2 DEF D!TypeOK
<1>5. DripRows
  BY <1>1, <1>2, <1>4 DEF DripRows, Ticking
<1>6. DripSteps
  BY <1>1, <1>2 DEF DripSteps, PackedOrders, Ticking, MailedBefore, D!Active
<1>. QED
  BY <1>5, <1>6 DEF DripInv

LEMMA DripStep ==
  ASSUME DripInv, [D!Next]_D!vars
  PROVE  DripInv'
<1>1. CASE UNCHANGED D!vars
  <2>1. UNCHANGED <<order, enabled, enrollment, mailed, owed, dropped, dripRaced, dripCall,
                    dripFailures>>
    BY <1>1 DEF D!vars, D!ghosts
  <2>2. DripRows'
    BY <2>1 DEF DripInv, DripRows, D!TypeOK, D!TickSlot, D!Existing, Ticking
  <2>3. ~ dripRaced' => DripSteps'
    BY <2>1 DEF DripInv, DripSteps, D!Existing, D!Active, Ticking, PackedOrders, SlotKnows,
                MailedBefore
  <2>. QED
    BY <2>2, <2>3 DEF DripInv
<1>2. CASE D!Toggle
  BY <1>2, DripSmallSteps
<1>3. CASE \E c \in Calls : \E s \in Steps : D!AddRead(c, s) \/ D!DeleteRead(c, s)
  BY <1>3, DripAddReads, DripDeleteReads
<1>4. CASE \E c \in Calls : \E at \in {"tick", "inactive"} : D!TickRead(c, at)
  BY <1>4, DripTickReads
<1>5. ASSUME NEW c \in Calls, D!AddWrite(c) \/ D!DeleteTx(c) \/ D!DeleteGone(c)
      PROVE  DripInv'
  BY <1>5, DripAddWrites, DripDeletes, DripDeleteGone
<1>6. ASSUME NEW c \in Calls,
             D!EnrollRead(c) \/ D!EnrollWrite(c) \/ D!CancelRead(c) \/ D!CancelWrite(c)
      PROVE  DripInv'
  BY <1>6, DripEnrollReads, DripEnrollWrites, DripCancelReads, DripSmallSteps
<1>7. ASSUME NEW c \in Calls,
             \/ D!TickInactive(c) \/ D!TickNoStep(c) \/ D!Mail(c) \/ D!MailFails(c)
             \/ D!Retry(c) \/ D!Advance(c) \/ D!Stops(c)
      PROVE  DripInv'
  BY <1>7, DripSmallSteps, DripNoStep, DripMails, DripMailFails, DripAdvance, DripStops
<1>. QED
  BY <1>1, <1>2, <1>3, <1>4, <1>5, <1>6, <1>7 DEF D!Next

(* What the run checks follows from the invariant.                         *)
LEMMA DripConsistent ==
  ASSUME DripInv
  PROVE  D!Consistent
<1>1. D!TypeOK
  BY DEF DripInv, DripRows
<1>2. D!StepMailedOnce
  BY DEF DripInv, DripSteps, D!StepMailedOnce, MailedBefore
<1>3. D!EveryStepMailed
  BY DEF DripInv, DripSteps, D!EveryStepMailed
<1>. QED
  BY <1>1, <1>2, <1>3 DEF D!Consistent

(* Only a tick mails, and it had read the enrollment before it was         *)
(* cancelled.                                                              *)
LEMMA CancelledIsOld ==
  ASSUME DripInv, [D!Next]_D!vars
  PROVE  D!CancelStep
<1>. SUFFICES ASSUME mailed' # mailed
              PROVE  \E c \in Calls : /\ dripCall[c].at = "tick" /\ dripCall'[c] # dripCall[c]
                                      /\ ~ dripCall[c].seen.cancelled
  BY DEF D!CancelStep
<1>1. \E c \in Calls : D!Mail(c)
  BY DEF D!Next, D!vars, D!Toggle, D!AddRead, D!DeleteRead, D!AddWrite, D!DeleteTx, D!DeleteGone,
         D!EnrollRead, D!EnrollWrite, D!CancelRead, D!CancelWrite, D!TickRead, D!TickInactive,
         D!TickNoStep, D!MailFails, D!Retry, D!Advance, D!Stops
<1>2. PICK c \in Calls : D!Mail(c)
  BY <1>1
<1>3. dripCall[c].at = "tick" /\ D!Goto(c, "mailed")
  BY <1>2 DEF D!Mail
<1>4. Ticking(c) /\ "mailed" \in D!Ticks
  BY <1>3 DEF Ticking, D!Ticks
<1>5. dripCall' = [dripCall EXCEPT ![c] = TickAt(dripCall[c], "mailed")]
  BY <1>3, <1>4, TickGoes
<1>6. dripCall'[c].at = "mailed"
  BY <1>5 DEF TickAt, DripInv, DripRows
<1>7. ~ dripCall[c].seen.cancelled
  BY <1>4 DEF DripInv, DripRows, SeenActive
<1>. QED
  BY <1>3, <1>6, <1>7

-----------------------------------------------------------------------------
(* The behaviours of the run: each component's while it is in focus, and   *)
(* steps that leave it alone otherwise.                                    *)

LEMMA RolesOf == PlatformSpec => R!Spec
<1>1. PlatformInit => R!Init
  BY DEF PlatformInit
<1>2. [PlatformNext]_focusVars => [R!Next]_R!vars
  BY DEF PlatformNext, focusVars, roleVars, R!vars
<1>. QED
  BY <1>1, <1>2, PTL DEF PlatformSpec, R!Spec

LEMMA TokensOf == PlatformSpec => T!Spec
<1>1. PlatformInit => T!Init
  BY DEF PlatformInit
<1>2. [PlatformNext]_focusVars => [T!Next]_T!vars
  BY DEF PlatformNext, focusVars, tokenVars, T!vars, T!ghosts
<1>. QED
  BY <1>1, <1>2, PTL DEF PlatformSpec, T!Spec

(* Somebody is an active SUPER_ADMIN, and whoever is senior when a change  *)
(* is written is changed by such a user only.                              *)
THEOREM RolesAreSafe == PlatformSpec => SeniorityIsSafe
<1>1. RolesInv => R!TypeOK
  BY DEF RolesInv, RoleTypes, R!TypeOK
<1>2. R!TypeOK /\ R!SomebodyIsLeft => R!Consistent
  BY DEF R!Consistent
<1>. QED
  BY <1>1, <1>2, RolesOf, RolesInvariance, NobodyLockedOut, SeniorityStands, PTL
  DEF SeniorityIsSafe, R!SeniorityIsSafe

(* A link has its effect once and in time; the newest one works, and none  *)
(* once the address is verified, as long as nothing overlaps an issue.     *)
THEOREM LinksAreKept == PlatformSpec => []LinksAreSafe
<1>1. T!Init => TokenClock
  BY TimesAssumption DEF T!Init, T!NoRow, TokenClock, T!Times
<1>2. TokenInv /\ TokenClock => LinksAreSafe
  <2>1. SUFFICES ASSUME TokenInv, TokenClock PROVE T!TypeOK /\ T!UsedOnceInTime
    BY DEF LinksAreSafe, T!LinksAreSafe, TokenInv
  <2>2. token \in [Tokens -> [row : BOOLEAN, consumed : BOOLEAN, expiresAt : T!Times]]
    BY <2>1 DEF TokenInv, TokenTypes, TokenClock
  <2>3. \A t \in Tokens : uses[t] > 0 => token[t].consumed
    BY <2>1 DEF TokenInv, Once, T!Unconsumed
  <2>4. late = {} /\ \A t \in Tokens : uses[t] <= 1
    BY <2>1 DEF TokenInv, Once
  <2>. QED
    BY <2>1, <2>2, <2>3, <2>4
    DEF T!TypeOK, T!UsedOnceInTime, TokenInv, TokenTypes, TokenClock
<1>3. TokenInv /\ [T!Next]_T!vars => TokenInv'
  BY TokensInductive, TimesAssumption
<1>. QED
  BY <1>1, <1>2, <1>3, TokensOf, TokensInitially, TokenClockKept, PTL DEF T!Spec

LEMMA RatesOf == PlatformSpec => X!Spec
<1>1. PlatformInit => X!Init
  BY DEF PlatformInit
<1>2. [PlatformNext]_focusVars => [X!Next]_X!vars
  BY DEF PlatformNext, focusVars, rateVars, X!vars
<1>. QED
  BY <1>1, <1>2, PTL DEF PlatformSpec, X!Spec

(* However many calls find the rates stale, one request at a time goes to  *)
(* the provider, and no call waits for a refresh that is over.             *)
THEOREM RefreshStaysShared == PlatformSpec => []RefreshIsShared
BY RatesInitially, RatesInductive, RatesShared, RatesOf, PTL DEF X!Spec, RefreshIsShared

LEMMA ConnectionsOf == PlatformSpec => Spec
<1>1. PlatformInit => Init
  BY DEF PlatformInit
<1>2. [PlatformNext]_focusVars => [Next]_vars
  BY DEF PlatformNext, focusVars
<1>. QED
  BY <1>1, <1>2, PTL DEF PlatformSpec, Spec

(* A connection that was edited piece by piece can be used, only a probe   *)
(* that succeeded activates it, and one that was removed stays disabled.   *)
THEOREM ConnectionStaysSound == PlatformSpec => []ConnectionIsSound
<1>1. ConnectionInv => ConnectionIsSound
  BY DEF ConnectionInv, ConnectionIsSound, ConfigIsUsable, StatusIsEarned
<1>. QED
  BY <1>1, ConnectionsInitially, ConnectionsInductive, ConnectionsOf, PTL DEF Spec

LEMMA UploadsOf == PlatformSpec => U!Spec
<1>1. PlatformInit => U!Init
  BY DEF PlatformInit
<1>2. [PlatformNext]_focusVars => [U!Next]_U!vars
  BY DEF PlatformNext, focusVars, uploadVars, U!vars, U!files, U!rows, U!ghosts
<1>. QED
  BY <1>1, <1>2, PTL DEF PlatformSpec, U!Spec

(* No removal takes the object of a live row, and an object that a row no  *)
(* longer refers to is removed, unless requests for the row overlap, the   *)
(* removal fails or the object is put again.                               *)
THEOREM FilesStayWithRows == PlatformSpec => []FilesMatchRows
<1>1. FilesInv => FilesMatchRows
  BY DEF FilesInv, FilesMatchRows, U!FilesMatchRows
<1>. QED
  BY <1>1, FilesInitially, FilesInductive, UploadsOf, PTL DEF U!Spec

LEMMA SequencesOf == PlatformSpec => D!Spec
<1>1. PlatformInit => D!Init
  BY DEF PlatformInit
<1>2. [PlatformNext]_focusVars => [D!Next]_D!vars
  BY DEF PlatformNext, focusVars, dripVars, D!vars, D!ghosts
<1>. QED
  BY <1>1, <1>2, PTL DEF PlatformSpec, D!Spec

(* Whatever is added, deleted, mailed or fails: a completed enrollment was *)
(* mailed its steps, each once until ticks overlap or the steps change     *)
(* under one, and a cancelled one is mailed by the ticks before it alone.  *)
THEOREM SequenceStaysKept == PlatformSpec => SequenceIsKept
<1>1. DripInv /\ [D!Next]_D!vars => DripInv' /\ D!CancelStep
  BY DripStep, CancelledIsOld
<1>. QED
  BY <1>1, DripInitInv, DripConsistent, SequencesOf, PTL
  DEF D!Spec, SequenceIsKept, D!SequenceIsKept, D!CancelStopsMails
=============================================================================
