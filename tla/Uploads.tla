------------------------------- MODULE Uploads -------------------------------
(***************************************************************************)
(* The uploads of ONE owner: the logo (or the avatar), a field that holds  *)
(* one key, and the assets (or attachments), a row per key that is deleted *)
(* softly.  Committing and deleting read the row, write it by id and leave *)
(* the removal of the object that is replaced to the background.  The logo *)
(* of a company has another writer, updateMe of CompaniesService, which    *)
(* takes any URL, or none, and removes nothing.                            *)
(***************************************************************************)
EXTENDS Naturals, FiniteSets

CONSTANTS
  Logos,      \* bound: the keys presigned for the logo
  Assets,     \* bound: the keys presigned for assets
  Elsewhere,  \* any URL that names no object of the store
  MaxCount,   \* UPLOAD_QUOTAS[kind].maxCount of the assets
  Calls       \* slots: requests in flight

VARIABLES
  presigned,  \* keys that were handed out
  store,      \* keys of the objects that are stored
  doomed,     \* keys whose objects are being removed in the background
  logo,       \* what Company.logoUrl or User.avatarUrl names, a key or
              \* Elsewhere, in a set
  asset,      \* TrainerAsset or ApplicationAttachment: deletedAt, if there is a row
  removable,  \* keys that were committed, whose objects the code is to remove
              \* once no row refers to them; none of them is raced
  raced,      \* keys of rows whose requests or removals overlapped, or that
              \* were given a URL whose object was not theirs or not there
  call        \* requests in flight

files  == <<presigned, store, doomed>>
rows   == <<logo, asset>>
ghosts == <<removable, raced>>
vars   == <<files, rows, ghosts, call>>

Keys == Logos \cup Assets
Held == {{}} \cup {{k} : k \in Keys}

(* old: the key to remove once the row is written.                         *)
Idle  == [at |-> "idle"]
Slots == [at : {"found"}, k : Keys]
           \cup [at : {"commit", "delete", "tail"}, k : Keys, old : Held]

Set(c, slot) == call' = [call EXCEPT ![c] = slot]
Return(c)    == Set(c, Idle)

Init ==
  /\ presigned = {} /\ store = {} /\ doomed = {}
  /\ logo = {}
  /\ asset = [k \in Assets |-> "none"]
  /\ removable = {} /\ raced = {}
  /\ call = [c \in Calls |-> Idle]

Live     == {k \in Assets : asset[k] = "live"}
Referred == (logo \cap Keys) \cup Live

(* The keys of the row that k is or would be in.                           *)
RowOf(k) == IF k \in Logos THEN Logos ELSE {k}

Overlap(c, k) ==
  IF k \in doomed \/ \E d \in Calls \ {c} : call[d] # Idle /\ call[d].k \in RowOf(k)
    THEN raced \cup RowOf(k) ELSE raced

-----------------------------------------------------------------------------
(* presign, and the client's PUT                                           *)

presign(k) ==
  /\ k \notin presigned
  /\ k \in Assets => Cardinality(Live) < MaxCount
  /\ presigned' = presigned \cup {k}
  /\ UNCHANGED <<store, doomed, rows, ghosts, call>>

(* What is put where no row refers to it nobody will remove.               *)
Put(k) ==
  /\ k \in presigned
  /\ store' = store \cup {k}
  /\ removable' = IF k \in Referred THEN removable ELSE removable \ {k}
  /\ UNCHANGED <<presigned, doomed, rows, raced, call>>

-----------------------------------------------------------------------------
(* commit                                                                  *)

Head(k) == k \in store

CommitHead(c, k) ==
  /\ call[c] = Idle
  /\ Head(k)
  /\ Set(c, [at |-> "found", k |-> k])
  /\ raced' = Overlap(c, k)
  /\ removable' = removable \ raced'
  /\ UNCHANGED <<files, rows>>

(* A variant the checks refute: what the logo was is never removed.        *)
NoPrevious(k) == {}

(* extractObjectKeyFromPublicUrl: a URL from elsewhere has no key.         *)
Current(k)  == IF k \in Logos THEN logo \cap Keys ELSE {k}
Previous(k) == Current(k) \ {k}

CommitRead(c) ==
  /\ call[c].at = "found"
  /\ Set(c, [at |-> "commit", k |-> call[c].k, old |-> Previous(call[c].k)])
  /\ UNCHANGED <<files, rows, ghosts>>

(* An asset's row is upserted; one that was deleted comes back.            *)
CommitWrite(c) ==
  LET k == call[c].k IN
  /\ call[c].at = "commit"
  /\ IF k \in Logos THEN logo' = {k} /\ UNCHANGED asset
                    ELSE asset' = [asset EXCEPT ![k] = "live"] /\ UNCHANGED logo
  /\ removable' = removable \cup ({k} \ raced)
  /\ call' = [call EXCEPT ![c].at = "tail"]
  /\ UNCHANGED <<files, raced>>

-----------------------------------------------------------------------------
(* delete                                                                  *)

(* Any key of Logos stands for the row of the logo.                        *)
DeleteRead(c, k) ==
  /\ call[c] = Idle
  /\ IF k \in Logos THEN logo # {} ELSE k \in Live
  /\ Set(c, [at |-> "delete", k |-> k, old |-> Current(k)])
  /\ raced' = Overlap(c, k)
  /\ removable' = removable \ raced'
  /\ UNCHANGED <<files, rows>>

DeleteWrite(c) ==
  LET k == call[c].k IN
  /\ call[c].at = "delete"
  /\ IF k \in Logos THEN logo' = {} /\ UNCHANGED asset
                    ELSE asset' = [asset EXCEPT ![k] = "deleted"] /\ UNCHANGED logo
  /\ call' = [call EXCEPT ![c].at = "tail"]
  /\ UNCHANGED <<files, ghosts>>

-----------------------------------------------------------------------------
(* PATCH /companies/me: one write, of null or of a URL the owner typed or  *)
(* pasted, which may be that of an upload.  The object of the old logo is  *)
(* left where it is.                                                        *)
Strange(k) == k \in Assets \/ k \notin store \/ k \in doomed

updateMe(new) ==
  /\ new # logo
  /\ logo' = new
  /\ raced' = raced
       \cup (UNION {RowOf(k) : k \in {j \in new \cap Keys : Strange(j)}})
       \cup {k \in Logos : \E c \in Calls : call[c] # Idle /\ call[c].k \in Logos}
  /\ removable' = ((removable \ logo) \cup (new \cap Keys)) \ raced'
  /\ UNCHANGED <<files, asset, call>>

-----------------------------------------------------------------------------
(* After the audit row: "void this.storage.delete(...)".                   *)
Tail(c) ==
  /\ call[c].at = "tail"
  /\ doomed' = doomed \cup call[c].old
  /\ Return(c)
  /\ UNCHANGED <<presigned, store, rows, ghosts>>

Remove(k) ==
  /\ k \in doomed
  /\ store' = store \ {k}
  /\ doomed' = doomed \ {k}
  /\ UNCHANGED <<presigned, rows, ghosts, call>>

RemoveFails(k) ==
  /\ k \in doomed
  /\ doomed' = doomed \ {k}
  /\ removable' = removable \ {k}
  /\ UNCHANGED <<presigned, store, rows, raced, call>>

(* A request stops, after its write when the audit row fails.              *)
Stops(c) ==
  /\ call[c] # Idle
  /\ removable' = IF call[c].at = "tail" THEN removable \ call[c].old ELSE removable
  /\ Return(c)
  /\ UNCHANGED <<files, rows, raced>>

Next ==
  \/ \E k \in Keys : presign(k) \/ Put(k) \/ Remove(k) \/ RemoveFails(k)
  \/ \E new \in {{}, {Elsewhere}} \cup {{k} : k \in presigned} : updateMe(new)
  \/ \E c \in Calls :
       \/ \E k \in Keys : CommitHead(c, k) \/ DeleteRead(c, k)
       \/ CommitRead(c) \/ CommitWrite(c) \/ DeleteWrite(c) \/ Tail(c) \/ Stops(c)

Spec == Init /\ [][Next]_vars

-----------------------------------------------------------------------------
(* Every variable keeps its type.                                          *)
TypeOK ==
  /\ presigned \subseteq Keys /\ store \subseteq presigned /\ doomed \subseteq presigned
  /\ logo \in {{}} \cup {{k} : k \in Keys \cup {Elsewhere}}
  /\ asset \in [Assets -> {"none", "live", "deleted"}]
  /\ removable \subseteq Keys /\ raced \subseteq Keys
  /\ call \in [Calls -> Slots \cup {Idle}]

(* What a row refers to is stored and will stay: however keys are put,     *)
(* committed twice, replaced, deleted and committed again, and whatever    *)
(* the logo is set to between, no removal takes the object of a live row,  *)
(* unless the row was raced for.                                           *)
LiveIsStored == \A k \in Referred \ raced : k \in store /\ k \notin doomed

(* What no row refers to any more is removed: an object that a commit      *)
(* replaced or a request deleted does not stay behind, unless its removal  *)
(* failed, its request is not over, its row was raced for or the client    *)
(* put it again.  What updateMe took out of the logo is not removable.     *)
NothingStaysBehind ==
  \A k \in (removable \cap store) \ Referred :
    k \in doomed \/ \E c \in Calls : call[c].at = "tail" /\ k \in call[c].old

(* The code breaks these two.  What leaves the logo is left to a request   *)
(* that removes it: not what updateMe takes out.  What the logo names is   *)
(* stored: not where updateMe is given the URL of a removed object.        *)
DroppedIsRemoved ==
  [][\A k \in (logo \cap store) \ (Referred' \cup raced') :
       \E c \in Calls : call'[c].at = "tail" /\ k \in call'[c].old]_vars
LogoIsStored == logo \cap Keys \subseteq store

(* The quota of the assets, "maximum number of live (non-soft-deleted)     *)
(* rows per owner entity".  The code breaks this one: only presign counts. *)
WithinQuota == Cardinality(Live) <= MaxCount

(* What is stored is what rows refer to, as far as uploads, commits and    *)
(* deletions go.                                                           *)
FilesMatchRows == TypeOK /\ LiveIsStored /\ NothingStaysBehind
=============================================================================
