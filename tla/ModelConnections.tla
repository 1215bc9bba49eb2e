-------------------------- MODULE ModelConnections --------------------------
(***************************************************************************)
(* ONE model connection of a company: edits, which are checked against the *)
(* row merged with the patch, live tests, which await the provider, and    *)
(* removal.  Every handler reads the row first and writes by id.           *)
(***************************************************************************)
EXTENDS Naturals, FiniteSets

CONSTANTS
  MaxFields,  \* bound: the fields of a patch
  Calls       \* slots: requests in flight

VARIABLES
  row,        \* ModelConnection: its configuration
  status,     \* ModelConnection.status
  deleted,    \* deletedAt is set
  probed,     \* a test of the connection succeeded
  raced,      \* an edit or a removal was written under another request
  call        \* requests in flight

ghosts == <<probed, raced>>
vars   == <<row, status, deleted, ghosts, call>>

(* HOSTED stands for the providers that need an endpointUrl, ANTHROPIC for *)
(* those that need nothing.                                                *)
Configs == [provider : {"HOSTED", "BEDROCK", "ANTHROPIC"},
            endpointUrl : {"null", "set"}, region : {"null", "set"},
            authKind : {"none", "bearer", "aws_sigv4"},
            credentials : {"null", "set"}]
Fields  == {"provider", "endpointUrl", "region", "authKind", "credentials"}

(* Some fields and their new values; an endpoint is replaced, not cleared. *)
Patches ==
  UNION {{[f \in F |-> config[f]] : config \in {k \in Configs : k.endpointUrl = "set"}} :
           F \in {G \in SUBSET Fields : Cardinality(G) \in 1 .. MaxFields}}

Idle  == [at |-> "idle"]
Slots == [at : {"update"}, patch : Patches]
           \cup [at : {"test"}, draft : BOOLEAN] \cup [at : {"remove"}]

Set(c, slot)   == call' = [call EXCEPT ![c] = slot]
Return(c)      == Set(c, Idle)
InFlight(c)    == \E d \in Calls \ {c} : call[d] # Idle
Merged(patch)  == [f \in Fields |-> IF f \in DOMAIN patch THEN patch[f] ELSE row[f]]

(* The rules of the providers and of the credentials.                      *)
Usable(config) ==
  /\ config.provider = "HOSTED" => config.endpointUrl = "set"
  /\ config.provider = "BEDROCK" => config.region = "set"
  /\ config.authKind = "aws_sigv4" => config.provider = "BEDROCK"
  /\ config.authKind # "none" => config.credentials = "set"

(* create: the schema of the request asks the same.                        *)
Init ==
  /\ row \in {config \in Configs : Usable(config)}
  /\ status = "DRAFT"
  /\ deleted = FALSE
  /\ probed = FALSE
  /\ raced = FALSE
  /\ call = [c \in Calls |-> Idle]

-----------------------------------------------------------------------------
(* update                                                                  *)

(* A variant the checks refute: the rules are asked of the patch alone.    *)
PatchUsable(patch) ==
  \E config \in Configs : Usable(config) /\ \A f \in DOMAIN patch : config[f] = patch[f]

Allowed(patch) == Usable(Merged(patch))

UpdateRead(c, patch) ==
  /\ call[c] = Idle
  /\ ~ deleted
  /\ Allowed(patch)
  /\ Set(c, [at |-> "update", patch |-> patch])
  /\ UNCHANGED <<row, status, deleted, ghosts>>

UpdateWrite(c) ==
  /\ call[c].at = "update"
  /\ row' = Merged(call[c].patch)
  /\ raced' = (raced \/ InFlight(c))
  /\ Return(c)
  /\ UNCHANGED <<status, deleted, probed>>

-----------------------------------------------------------------------------
(* test and remove                                                         *)

TestRead(c) ==
  /\ call[c] = Idle
  /\ ~ deleted
  /\ Set(c, [at |-> "test", draft |-> status = "DRAFT"])
  /\ UNCHANGED <<row, status, deleted, ghosts>>

Promoted(ok, draft) == ok /\ draft

(* The probe is awaited before; the status that was read decides.          *)
TestWrite(c, ok) ==
  /\ call[c].at = "test"
  /\ status' = IF Promoted(ok, call[c].draft) THEN "ACTIVE" ELSE status
  /\ probed' = (probed \/ ok)
  /\ Return(c)
  /\ UNCHANGED <<row, deleted, raced>>

RemoveRead(c) ==
  /\ call[c] = Idle
  /\ ~ deleted
  /\ Set(c, [at |-> "remove"])
  /\ UNCHANGED <<row, status, deleted, ghosts>>

RemoveWrite(c) ==
  /\ call[c].at = "remove"
  /\ deleted' = TRUE
  /\ status' = "DISABLED"
  /\ raced' = (raced \/ InFlight(c))
  /\ Return(c)
  /\ UNCHANGED <<row, probed>>

(* A request stops before its write.                                       *)
Stops(c) ==
  /\ call[c] # Idle
  /\ Return(c)
  /\ UNCHANGED <<row, status, deleted, ghosts>>

Next ==
  \E c \in Calls :
    \/ \E patch \in Patches : UpdateRead(c, patch)
    \/ \E ok \in BOOLEAN : TestWrite(c, ok)
    \/ UpdateWrite(c) \/ TestRead(c) \/ RemoveRead(c) \/ RemoveWrite(c) \/ Stops(c)

Spec == Init /\ [][Next]_vars

-----------------------------------------------------------------------------
(* Every variable keeps its type.                                          *)
TypeOK ==
  /\ row \in Configs
  /\ status \in {"DRAFT", "ACTIVE", "DISABLED"}
  /\ deleted \in BOOLEAN /\ probed \in BOOLEAN /\ raced \in BOOLEAN
  /\ call \in [Calls -> Slots \cup {Idle}]

(* However many partial edits a connection has seen, one that is wired up  *)
(* can be used: no edit leaves it "in a permanently-failing state", until  *)
(* an edit is written under another one that was checked before it.        *)
ConfigIsUsable == ~ raced => Usable(row)

(* Only a probe that succeeded activates a connection, and one that was    *)
(* removed stays DISABLED, until it is removed under another request.      *)
StatusIsEarned ==
  /\ status = "ACTIVE" => probed
  /\ deleted /\ ~ raced => status = "DISABLED"

(* A connection that is there can be used as its status says.              *)
ConnectionIsSound == TypeOK /\ ConfigIsUsable /\ StatusIsEarned
=============================================================================
