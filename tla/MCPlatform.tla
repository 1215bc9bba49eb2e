----------------------------- MODULE MCPlatform -----------------------------
(***************************************************************************)
(* What the platform does around the engagements: model connections, drip  *)
(* sequences, the tokens in mails (AccountTokens), the roles of the users  *)
(* (AdminRoles), exchange rates and uploads.                               *)
(* They share no row, so a behaviour is one of them, and their state       *)
(* spaces add up instead of multiplying.                                   *)
(***************************************************************************)
EXTENDS ModelConnections, TLC

CONSTANTS
  Steps, MaxFailures,                    \* DripSequences
  Tokens, Lifetime, LastTime, Readers,   \* AccountTokens, Rates; Readers: its calls
  Users,                                 \* AdminRoles
  Logos, Assets, Elsewhere, MaxCount     \* Uploads

(* The clock of the tokens and the lifetime they get.                      *)
ASSUME TimesAssumption == Lifetime \in Nat /\ LastTime \in Nat

(* A sequence has finitely many steps.                                     *)
ASSUME StepsAssumption == IsFiniteSet(Steps) /\ MaxFailures \in Nat

(* A storage key names the kind of its upload.                             *)
ASSUME KeysAssumption ==
  /\ Logos \cap Assets = {}
  /\ Elsewhere \notin Logos \cup Assets

VARIABLES focus,
          order, enabled, enrollment, mailed, owed, dropped, dripRaced, dripCall,
          dripFailures,
          kind, now, token, verified, uses, late, overlapped, tokenCall,
          user, crossed, roleCall,
          clock, stored, inflight, rateCall,
          presigned, store, doomed, logo, asset, removable, keyRaced, uploadCall

dripVars   == <<order, enabled, enrollment, mailed, owed, dropped, dripRaced, dripCall,
                dripFailures>>
tokenVars  == <<kind, now, token, verified, uses, late, overlapped, tokenCall>>
roleVars   == <<user, crossed, roleCall>>
rateVars   == <<clock, stored, inflight, rateCall>>
uploadVars == <<presigned, store, doomed, logo, asset, removable, keyRaced, uploadCall>>

focusVars ==
  <<focus, vars, dripVars, tokenVars, roleVars, rateVars, uploadVars>>

D == INSTANCE DripSequences WITH
       raced <- dripRaced, call <- dripCall, failures <- dripFailures
T == INSTANCE AccountTokens WITH call <- tokenCall
R == INSTANCE AdminRoles WITH call <- roleCall
X == INSTANCE Rates WITH Calls <- Readers, now <- clock, call <- rateCall
U == INSTANCE Uploads WITH raced <- keyRaced, call <- uploadCall

(* What has several initial states has one of them under another focus.    *)
PlatformInit ==
  /\ focus \in {"models", "drip", "tokens", "roles", "rates", "uploads"}
  /\ Init /\ D!Init /\ T!Init /\ R!Init /\ X!Init /\ U!Init
  /\ focus # "roles" => \A u \in Users : user[u].role = "SUPER_ADMIN"
  /\ focus # "tokens" => kind = "reset"
  /\ focus # "models" =>
       row = [provider |-> "ANTHROPIC", endpointUrl |-> "null", region |-> "null",
              authKind |-> "none", credentials |-> "null"]

PlatformNext ==
  /\ UNCHANGED focus
  /\ \/ /\ focus = "models" /\ Next
        /\ UNCHANGED <<dripVars, tokenVars, roleVars, rateVars, uploadVars>>
     \/ /\ focus = "drip" /\ D!Next
        /\ UNCHANGED <<vars, tokenVars, roleVars, rateVars, uploadVars>>
     \/ /\ focus = "tokens" /\ T!Next
        /\ UNCHANGED <<vars, dripVars, roleVars, rateVars, uploadVars>>
     \/ /\ focus = "roles" /\ R!Next
        /\ UNCHANGED <<vars, dripVars, tokenVars, rateVars, uploadVars>>
     \/ /\ focus = "rates" /\ X!Next
        /\ UNCHANGED <<vars, dripVars, tokenVars, roleVars, uploadVars>>
     \/ /\ focus = "uploads" /\ U!Next
        /\ UNCHANGED <<vars, dripVars, tokenVars, roleVars, rateVars>>

PlatformSpec == PlatformInit /\ [][PlatformNext]_focusVars

(* The users and the tokens share the model values of the steps.           *)
Symmetric == Permutations(Calls) \cup Permutations(Steps) \cup Permutations(Logos)

-----------------------------------------------------------------------------
(* The properties of the other modules, stated for the code there.         *)

(* A subscriber gets every step of a sequence, once, until the enrollment  *)
(* is cancelled.                                                           *)
SequenceIsKept == D!SequenceIsKept

(* A link works once and in time, and only the newest one does.            *)
LinksAreSafe == T!LinksAreSafe

(* Somebody is an active SUPER_ADMIN, and only such a user changes who is. *)
SeniorityIsSafe == R!SeniorityIsSafe

(* One request to the provider of the rates at a time, and nobody waits    *)
(* for one that is over.                                                   *)
RefreshIsShared == X!RefreshIsShared

(* What a row refers to is stored; what none refers to any more is not.    *)
FilesMatchRows == U!FilesMatchRows
=============================================================================
