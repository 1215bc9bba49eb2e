---------------------------- MODULE AccountTokens ----------------------------
(***************************************************************************)
(* The tokens of ONE user in the mails that verify an address or reset a   *)
(* password.  Both kinds are issued and used in the same way: issuing      *)
(* consumes the earlier tokens and creates one in two statements; using    *)
(* reads the token, later claims it in a transaction that has the effect   *)
(* and consumes the others.                                                *)
(***************************************************************************)
EXTENDS Naturals

CONSTANTS
  Tokens,     \* bound: the tokens issued to the user
  Lifetime,   \* VERIFY_TOKEN_TTL_MS, RESET_TOKEN_TTL_MS
  LastTime,   \* bound: the clock
  Calls       \* slots: requests in flight

VARIABLES
  kind,       \* the kind of the tokens
  now,        \* the clock
  token,      \* the tokens: consumedAt is set, expiresAt
  verified,   \* User.emailVerifiedAt is set
  uses,       \* how often a token had its effect, 2 for more than once
  late,       \* tokens that had their effect past their expiry
  overlapped, \* an issue overlapped with another or with a verification
  call        \* requests in flight

ghosts == <<uses, late, overlapped>>
vars   == <<kind, now, token, verified, ghosts, call>>

NoRow == [row |-> FALSE, consumed |-> FALSE, expiresAt |-> 0]
Times == 0 .. LastTime + Lifetime

Idle  == [at |-> "idle"]
Slots == [at : {"issue", "create", "admin"}] \cup [at : {"use"}, t : Tokens]

Set(c, slot) == call' = [call EXCEPT ![c] = slot]
Return(c)    == Set(c, Idle)
Issuing(c)   == call[c].at \in {"issue", "create"}

Init ==
  /\ kind \in {"verify", "reset"}
  /\ now = 0
  /\ token = [t \in Tokens |-> NoRow]
  /\ verified = FALSE
  /\ uses = [t \in Tokens |-> 0]
  /\ late = {}
  /\ overlapped = FALSE
  /\ call = [c \in Calls |-> Idle]

Unconsumed(t) == token[t].row /\ ~ token[t].consumed

Consume(S) == [t \in Tokens |-> IF token[t].row /\ t \in S
                                  THEN [token[t] EXCEPT !.consumed = TRUE] ELSE token[t]]

-----------------------------------------------------------------------------
(* issueVerificationEmail (and resendVerification), issuePasswordResetEmail *)

IssueRead(c) ==
  /\ call[c] = Idle
  /\ kind = "verify" => ~ verified
  /\ overlapped' = (overlapped \/ \E d \in Calls : Issuing(d))
  /\ Set(c, [at |-> "issue"])
  /\ UNCHANGED <<kind, now, token, verified, uses, late>>

Earlier == Tokens

IssueInvalidate(c) ==
  /\ call[c].at = "issue"
  /\ token' = Consume(Earlier)
  /\ Set(c, [at |-> "create"])
  /\ UNCHANGED <<kind, now, verified, ghosts>>

IssueCreate(c, t) ==
  /\ call[c].at = "create"
  /\ ~ token[t].row
  /\ token' = [token EXCEPT ![t] = [row |-> TRUE, consumed |-> FALSE,
                                    expiresAt |-> now + Lifetime]]
  /\ Return(c)
  /\ UNCHANGED <<kind, now, verified, ghosts>>

-----------------------------------------------------------------------------
(* verifyEmail, resetPassword and the admin's markEmailVerified            *)

UseRead(c, t) ==
  /\ call[c] = Idle
  /\ Unconsumed(t)
  /\ token[t].expiresAt >= now
  /\ Set(c, [at |-> "use", t |-> t])
  /\ UNCHANGED <<kind, now, token, verified, ghosts>>

(* A variant the checks refute: the claim does not ask for the expiry.     *)
ClaimExpired(t) == Unconsumed(t)

Claimable(t) == Unconsumed(t) /\ token[t].expiresAt > now

(* The claim, the effect and the end of the user's other tokens.           *)
UseTx(c) ==
  LET t == call[c].t IN
  /\ call[c].at = "use"
  /\ IF Claimable(t)
       THEN /\ token' = Consume(Tokens)
            /\ verified' = (verified \/ kind = "verify")
            /\ uses' = [uses EXCEPT ![t] = IF @ = 0 THEN 1 ELSE 2]
            /\ late' = IF token[t].expiresAt <= now THEN late \cup {t} ELSE late
            /\ overlapped' = (overlapped \/ \E d \in Calls : Issuing(d))
       ELSE UNCHANGED <<token, verified, ghosts>>
  /\ Return(c)
  /\ UNCHANGED <<kind, now>>

AdminRead(c) ==
  /\ call[c] = Idle
  /\ kind = "verify" /\ ~ verified
  /\ Set(c, [at |-> "admin"])
  /\ UNCHANGED <<kind, now, token, verified, ghosts>>

AdminTx(c) ==
  /\ call[c].at = "admin"
  /\ verified' = TRUE
  /\ token' = Consume(Tokens)
  /\ overlapped' = (overlapped \/ \E d \in Calls : Issuing(d))
  /\ Return(c)
  /\ UNCHANGED <<kind, now, uses, late>>

-----------------------------------------------------------------------------
(* A request stops.  An issue that stops has consumed the earlier tokens.  *)
Stops(c) ==
  /\ call[c] # Idle
  /\ Return(c)
  /\ UNCHANGED <<kind, now, token, verified, ghosts>>

Tick ==
  /\ now < LastTime
  /\ now' = now + 1
  /\ UNCHANGED <<kind, token, verified, ghosts, call>>

Next ==
  \/ \E c \in Calls :
       \/ IssueRead(c) \/ IssueInvalidate(c) \/ UseTx(c) \/ AdminRead(c) \/ AdminTx(c)
       \/ \E t \in Tokens : IssueCreate(c, t) \/ UseRead(c, t)
       \/ Stops(c)
  \/ Tick

Spec == Init /\ [][Next]_vars

-----------------------------------------------------------------------------
(* Every variable keeps its type, and only tokens that exist were used.    *)
TypeOK ==
  /\ kind \in {"verify", "reset"}
  /\ now \in 0 .. LastTime
  /\ token \in [Tokens -> [row : BOOLEAN, consumed : BOOLEAN, expiresAt : Times]]
  /\ verified \in BOOLEAN
  /\ uses \in [Tokens -> 0 .. 2]
  /\ late \subseteq Tokens
  /\ overlapped \in BOOLEAN
  /\ call \in [Calls -> Slots \cup {Idle}]
  /\ \A t \in Tokens : uses[t] > 0 => token[t].consumed

(* A link has its effect once and in time, however long its requests take  *)
(* and however many are made of it.                                        *)
UsedOnceInTime == late = {} /\ \A t \in Tokens : uses[t] <= 1

(* Of the links a user was sent at most one still works ("so only the      *)
(* newest link works"), and none that verifies what is verified, unless    *)
(* one was being issued while another was, or while one was used.          *)
NewestWorks ==
  ~ overlapped =>
    /\ \A s, t \in Tokens : Unconsumed(s) /\ Unconsumed(t) => s = t
    /\ verified => \A t \in Tokens : ~ Unconsumed(t)

(* The links in the mails are good for one use, the newest of them alone.  *)
LinksAreSafe == TypeOK /\ UsedOnceInTime /\ NewestWorks
=============================================================================
