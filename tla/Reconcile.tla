------------------------------ MODULE Reconcile ------------------------------
(***************************************************************************)
(* Full ("reconciliation") rounds of the sync engine for one platform:     *)
(* runFull, processNode and reconcileDeletes of internal/engine, the       *)
(* documents table of internal/manifest, the body files on disk, and a     *)
(* remote that is edited, renamed, shared and unshared at any moment.      *)
(*                                                                         *)
(* A document's placement (buildTree's body path) is one member of Places; *)
(* what a title or a parent is does not matter here, only that two         *)
(* documents of one enumeration never get the same path.  Containers have  *)
(* no body file and are not in Docs.  Link texts are not part of a file's  *)
(* content.  All rounds run on one trash day.                              *)
(***************************************************************************)
EXTENDS Naturals, Sequences, FiniteSets

CONSTANTS
  Docs,         \* documents with a body
  Places,       \* body paths relative to the platform's root
  Titles,       \* Titles[d]: the places document d may be given over time
  Gone,         \* the place of a document that is deleted or not shared
  NoPath,       \* local_path of a document that has no row
  NoFile,       \* content of a path where there is no file
  Forced,       \* values of the --full flag rounds are started with
  Stable,       \* further active documents of the platform, never changing
  Return,       \* may a document return to a path where a file was left?
  Undo,         \* may an edit bring back an earlier text?
  Coarse,       \* may an edit leave last_edited_time unchanged?
  MaxRevisions, \* bound: revisions of one document
  MaxFaults,    \* bound: faults in a behaviour
  FaultKinds    \* the faults that can happen, a subset of AllFaults

AllFaults == {"jitter",  \* an enumeration omits shared documents
              "fetch",   \* FetchMarkdown fails
              "store",   \* a file write or a manifest write fails
              "crash",   \* the process dies
              "tamper"}  \* somebody edits a file of the mirror

ASSUME ConstantsAssumption ==
  /\ Titles \in [Docs -> SUBSET Places]
  /\ Gone \notin Places
  /\ Forced \subseteq BOOLEAN
  /\ Stable \in Nat
  /\ Return \in BOOLEAN /\ Undo \in BOOLEAN /\ Coarse \in BOOLEAN
  /\ MaxRevisions \in Nat /\ MaxFaults \in Nat
  /\ FaultKinds \subseteq AllFaults

VARIABLES
  history,   \* remote: the revisions of each document, oldest first
  place,     \* remote: where each document belongs, or Gone
  row,       \* manifest: the documents table
  disk,      \* the file at each path, in the tree and in the trash
  stored,    \* texts of each document whose assets are all in the pool
  pc,        \* where the round is
  force,     \* e.full of the running round
  listing,   \* the round's inventory: listing[d] or Unlisted
  todo,      \* nodes of the walk not visited yet
  cur,       \* the document being processed
  draft,     \* hash and status the current document will be saved with
  doomed,    \* documents still to be trashed
  failed,    \* Stats.Failures: documents whose processing failed
  faults     \* faults so far

remote   == <<history, place>>
volatile == <<force, listing, todo, cur, draft, doomed, failed>>
local    == <<row, disk, stored>>
vars     == <<remote, local, pc, volatile, faults>>

-----------------------------------------------------------------------------
Tree(p)  == <<"tree", p>>
Trash(p) == <<"trash", p>>
Paths    == {"tree", "trash"} \X Places

Revision == [body: Nat, edited: Nat]
File     == [doc: Docs, body: Nat, whole: BOOLEAN]
Row      == [status: {"none", "active", "pending_assets", "trashed"},
             path: Paths \cup {NoPath}, edited: Nat, hash: Nat]
\* since is an observation for the properties; no step reads it.
Entry    == [path: Paths, edited: Nat, since: Nat]

ASSUME AbsenceAssumption == NoPath \notin Paths /\ NoFile \notin File

NoRow    == [status |-> "none", path |-> NoPath, edited |-> 0, hash |-> 0]
Unlisted == [path |-> NoPath, edited |-> 0, since |-> 0]
NoDraft  == [hash |-> 0, status |-> "none"]
NoDoc    == NoPath

Tip(d)    == history[d][Len(history[d])]
Shared    == {d \in Docs : place[d] # Gone}
Listed    == {d \in Docs : listing[d] # Unlisted}
\* (mutant of Active) delete detection also considers documents that wait for assets.
ActiveOrPending == {d \in Docs : row[d].status \in {"active", "pending_assets"}}
Active    == {d \in Docs : row[d].status = "active"}
Mirrored  == {d \in Docs : row[d].status \in {"active", "pending_assets"}}
Target(d) == listing[d].path

\* The UNIQUE constraint on documents.local_path would refuse path x for d.
Taken(d, x) == \E e \in Docs \ {d} : row[e].path = x

Init ==
  /\ history = [d \in Docs |-> <<>>]
  /\ place   = [d \in Docs |-> Gone]
  /\ row     = [d \in Docs |-> NoRow]
  /\ disk    = [x \in Paths |-> NoFile]
  /\ stored  = [d \in Docs |-> {}]
  /\ pc = "idle" /\ force = FALSE
  /\ listing = [d \in Docs |-> Unlisted]
  /\ todo = {} /\ cur = NoDoc /\ draft = NoDraft
  /\ doomed = {} /\ failed = {} /\ faults = 0

Fault(kind) ==
  /\ kind \in FaultKinds /\ faults < MaxFaults
  /\ faults' = faults + 1

-----------------------------------------------------------------------------
(***************************************************************************)
(* The remote.  Naming gives the documents of one enumeration distinct     *)
(* paths, so a place is free when no other shared document has it.         *)
(***************************************************************************)
Free(d) ==
  {p \in Titles[d] :
     /\ \A e \in Docs \ {d} : place[e] # p
     /\ Return \/ disk[Tree(p)] = NoFile \/ row[d].path = Tree(p)}

Share(d) ==
  /\ place[d] = Gone
  /\ \E p \in Free(d) : place' = [place EXCEPT ![d] = p]
  /\ history' = IF history[d] = <<>>
                THEN [history EXCEPT ![d] = <<[body |-> 1, edited |-> 1]>>]
                ELSE history
  /\ UNCHANGED <<local, pc, volatile, faults>>

Unshare(d) ==
  /\ place[d] # Gone
  /\ place' = [place EXCEPT ![d] = Gone]
  /\ UNCHANGED <<history, local, pc, volatile, faults>>

Rename(d) ==
  /\ place[d] # Gone
  /\ \E p \in Free(d) \ {place[d]} : place' = [place EXCEPT ![d] = p]
  /\ UNCHANGED <<history, local, pc, volatile, faults>>

Edit(d) ==
  LET n     == Len(history[d])
      texts == {Tip(d).body, n + 1}
                 \cup (IF Undo THEN {history[d][i].body : i \in 1..n} ELSE {})
      times == {Tip(d).edited + 1} \cup (IF Coarse THEN {Tip(d).edited} ELSE {})
  IN  /\ place[d] # Gone /\ n < MaxRevisions
      /\ \E b \in texts, t \in times :
           history' = [history EXCEPT ![d] = Append(@, [body |-> b, edited |-> t])]
      /\ UNCHANGED <<place, local, pc, volatile, faults>>

Remote == \E d \in Docs : Share(d) \/ Unshare(d) \/ Rename(d) \/ Edit(d)

\* A reader of the mirror edits a body file; 0 is a text no revision has.
Tamper(x) ==
  /\ pc = "idle" /\ disk[x] # NoFile
  /\ Fault("tamper")
  /\ disk' = [disk EXCEPT ![x].body = 0]
  /\ UNCHANGED <<remote, row, stored, pc, volatile>>

-----------------------------------------------------------------------------
\* The round is over, or the process died: nothing volatile is left.
Rest ==
  /\ pc' = "idle" /\ force' = FALSE
  /\ listing' = [d \in Docs |-> Unlisted]
  /\ todo' = {} /\ cur' = NoDoc /\ draft' = NoDraft
  /\ doomed' = {} /\ failed' = {}

\* collectEnumeration and buildTree: the inventory this round works from.
StartRound ==
  /\ pc = "idle"
  /\ \E S \in SUBSET Shared, f \in Forced :
       /\ \/ S = Shared /\ UNCHANGED faults
          \/ S # Shared /\ Fault("jitter")
       /\ listing' = [d \in Docs |->
            IF d \in S THEN [path |-> Tree(place[d]), edited |-> Tip(d).edited,
                             since |-> Len(history[d])]
            ELSE Unlisted]
       /\ todo' = S /\ force' = f
  /\ pc' = "walk"
  /\ UNCHANGED <<remote, local, cur, draft, doomed, failed>>

\* processNode follows a move: the row knows the document at another path.
Moved(d) == row[d].status \in {"active", "pending_assets"} /\ row[d].path # Target(d)

\* (mutant of Relocated) the stale file is removed and left to the fetch to rewrite.
RelocatedByRemoval(d) ==
  IF Moved(d) THEN [disk EXCEPT ![row[d].path] = NoFile] ELSE disk

Relocated(d) ==
  LET old == row[d].path
  IN  IF Moved(d) /\ disk[old] # NoFile
      THEN [disk EXCEPT ![Target(d)] = disk[old], ![old] = NoFile]
      ELSE disk

\* (mutants of Unchanged) the skip trusts the row, or does not compare edit times.
UnchangedWithoutFile(d) ==
  ~force /\ row[d].status = "active" /\ row[d].edited = listing[d].edited
UnchangedEver(d) ==
  ~force /\ row[d].status = "active" /\ Relocated(d)[Target(d)] # NoFile

\* The pre-fetch skip.
Unchanged(d) ==
  /\ ~force /\ row[d].status = "active"
  /\ row[d].edited = listing[d].edited
  /\ Relocated(d)[Target(d)] # NoFile

Visit(d) ==
  /\ pc = "walk" /\ d \in todo
  /\ todo' = todo \ {d}
  /\ disk' = Relocated(d)
  /\ \/ /\ Unchanged(d) /\ ~Moved(d)
        /\ UNCHANGED <<pc, cur, draft>>
     \/ /\ Unchanged(d) /\ Moved(d)
        /\ pc' = "save" /\ cur' = d
        /\ draft' = [hash |-> row[d].hash, status |-> "active"]
     \/ /\ ~Unchanged(d)
        /\ pc' = "fetch" /\ cur' = d
        /\ UNCHANGED draft
  /\ UNCHANGED <<remote, row, stored, force, listing, doomed, failed, faults>>

\* processNode fails before it has moved anything, or in the move itself.
FailBeforeMove(d) ==
  /\ pc = "walk" /\ d \in todo /\ Fault("store")
  /\ todo' = todo \ {d} /\ failed' = failed \cup {d}
  /\ UNCHANGED <<remote, local, pc, force, listing, cur, draft, doomed>>

\* (mutants of SameContent) no look at the file, at the flag.
SameContentWithoutFile(d, body) ==
  ~force /\ row[d].status \notin {"none", "pending_assets"} /\ row[d].hash = body
SameContentForced(d, body) ==
  /\ row[d].status \notin {"none", "pending_assets"}
  /\ row[d].hash = body /\ disk[Target(d)] # NoFile

\* The content-hash skip.
SameContent(d, body) ==
  /\ ~force
  /\ row[d].status \notin {"none", "pending_assets"}
  /\ row[d].hash = body /\ disk[Target(d)] # NoFile

\* FetchMarkdown, then processAssets: what is in the pool already is reused,
\* the rest is downloaded now or stays pending.
Fetch ==
  /\ pc = "fetch" /\ place[cur] # Gone
  /\ LET body == Tip(cur).body
     IN  \/ /\ body \in stored[cur]
            /\ draft' = [hash |-> body, status |-> "active"]
            /\ pc' = IF SameContent(cur, body) THEN "save" ELSE "write"
            /\ UNCHANGED stored
         \/ /\ body \notin stored[cur]
            /\ draft' = [hash |-> body, status |-> "active"]
            /\ pc' = "write"
            /\ stored' = [stored EXCEPT ![cur] = @ \cup {body}]
         \/ /\ body \notin stored[cur]
            /\ draft' = [hash |-> body, status |-> "pending_assets"]
            /\ pc' = "write"
            /\ UNCHANGED stored
  /\ UNCHANGED <<remote, row, disk, force, listing, todo, cur, doomed, failed, faults>>

Write ==
  /\ pc = "write"
  /\ disk' = [disk EXCEPT ![Target(cur)] =
       [doc |-> cur, body |-> draft.hash, whole |-> draft.status = "active"]]
  /\ pc' = "save"
  /\ UNCHANGED <<remote, row, stored, volatile, faults>>

\* upsertDoc with the edit time of the inventory.
Save ==
  /\ pc = "save" /\ ~Taken(cur, Target(cur))
  /\ row' = [row EXCEPT ![cur] = [status |-> draft.status, path |-> Target(cur),
                                  edited |-> listing[cur].edited, hash |-> draft.hash]]
  /\ pc' = "walk" /\ cur' = NoDoc /\ draft' = NoDraft
  /\ UNCHANGED <<remote, disk, stored, force, listing, todo, doomed, failed, faults>>

\* (mutant of FailNode) the failure is logged only.
FailNodeSilently ==
  /\ \/ pc = "fetch" /\ place[cur] = Gone /\ UNCHANGED faults
     \/ pc = "fetch" /\ place[cur] # Gone /\ Fault("fetch")
     \/ pc = "save" /\ Taken(cur, Target(cur)) /\ UNCHANGED faults
  /\ pc' = "walk" /\ cur' = NoDoc /\ draft' = NoDraft
  /\ UNCHANGED <<remote, local, force, listing, todo, doomed, failed>>

\* (mutant of FailNode) the row's edit time is brought up to date all the same.
FailNodeMarksSeen ==
  /\ \/ pc = "fetch" /\ place[cur] = Gone /\ UNCHANGED faults
     \/ pc = "fetch" /\ Fault("fetch")
  /\ failed' = failed \cup {cur}
  /\ row' = [row EXCEPT ![cur].edited = listing[cur].edited]
  /\ pc' = "walk" /\ cur' = NoDoc /\ draft' = NoDraft
  /\ UNCHANGED <<remote, disk, stored, force, listing, todo, doomed>>

\* processNode returns an error: it is recorded and the walk goes on.
FailNode ==
  /\ \/ pc = "fetch" /\ place[cur] = Gone /\ UNCHANGED faults
     \/ pc = "fetch" /\ place[cur] # Gone /\ Fault("fetch")
     \/ pc = "save" /\ Taken(cur, Target(cur)) /\ UNCHANGED faults
     \/ pc \in {"fetch", "write", "save"} /\ Fault("store")
  /\ failed' = failed \cup {cur}
  /\ pc' = "walk" /\ cur' = NoDoc /\ draft' = NoDraft
  /\ UNCHANGED <<remote, local, force, listing, todo, doomed>>

-----------------------------------------------------------------------------
\* belowJitterThreshold: 0.8 of the active documents, in integers.
BelowJitterThreshold(enumCount, activeCount) ==
  activeCount > 0 /\ 5 * enumCount < 4 * activeCount

BeginDeletes ==
  /\ pc = "walk" /\ todo = {}
  /\ doomed' = IF BelowJitterThreshold(Cardinality(Listed) + Stable,
                                       Cardinality(Active) + Stable)
               THEN {} ELSE Active \ Listed
  /\ pc' = "reap"
  /\ UNCHANGED <<remote, local, force, listing, todo, cur, draft, failed, faults>>

TrashPath(d) == Trash(row[d].path[2])

\* The body goes to the trash first ...
MoveToTrash(d) ==
  /\ pc = "reap" /\ d \in doomed
  /\ disk' = LET x == row[d].path
             IN  IF disk[x] # NoFile
                 THEN [disk EXCEPT ![TrashPath(d)] = disk[x], ![x] = NoFile]
                 ELSE disk
  /\ doomed' = doomed \ {d} /\ cur' = d /\ pc' = "tombstone"
  /\ UNCHANGED <<remote, row, stored, force, listing, todo, draft, failed, faults>>

\* ... then SetDocumentTrashed flips the row.
Tombstone ==
  /\ pc = "tombstone" /\ ~Taken(cur, TrashPath(cur))
  /\ row' = [row EXCEPT ![cur].status = "trashed", ![cur].path = TrashPath(cur)]
  /\ pc' = "reap" /\ cur' = NoDoc
  /\ UNCHANGED <<remote, disk, stored, force, listing, todo, draft, doomed, failed, faults>>

\* An error of the delete step aborts the round.
AbortRound ==
  /\ \/ pc = "tombstone" /\ Taken(cur, TrashPath(cur)) /\ UNCHANGED faults
     \/ pc \in {"reap", "tombstone"} /\ Fault("store")
  /\ Rest
  /\ UNCHANGED <<remote, local>>

\* finalizeLinks and the checkpoint do not touch what is modelled here.
Finish ==
  /\ pc = "reap" /\ doomed = {}
  /\ Rest
  /\ UNCHANGED <<remote, local, faults>>

Crash ==
  /\ pc # "idle" /\ Fault("crash")
  /\ Rest
  /\ UNCHANGED <<remote, local>>

Round == \/ StartRound \/ Fetch \/ Write \/ Save \/ FailNode
         \/ BeginDeletes \/ Tombstone \/ AbortRound \/ Finish
         \/ \E d \in Docs : Visit(d) \/ FailBeforeMove(d) \/ MoveToTrash(d)

Next == Remote \/ Round \/ Crash \/ \E x \in Paths : Tamper(x)

Spec     == Init /\ [][Next]_vars
FairSpec == Spec /\ WF_vars(Round)

-----------------------------------------------------------------------------
(***************************************************************************)
(* Properties.                                                             *)
(***************************************************************************)
TypeOK ==
  /\ history \in [Docs -> Seq(Revision)]
  /\ place \in [Docs -> Places \cup {Gone}]
  /\ row \in [Docs -> Row]
  /\ disk \in [Paths -> File \cup {NoFile}]
  /\ stored \in [Docs -> SUBSET Nat]
  /\ pc \in {"idle", "walk", "fetch", "write", "save", "reap", "tombstone"}
  /\ force \in BOOLEAN
  /\ listing \in [Docs -> Entry \cup {Unlisted}]
  /\ todo \subseteq Docs /\ doomed \subseteq Docs /\ failed \subseteq Docs
  /\ cur \in Docs \cup {NoDoc}
  /\ draft \in [hash : Nat, status : {"none", "active", "pending_assets"}]
  /\ faults \in Nat

\* Body b of document d is the text of a revision at least as recent as edit
\* time t.
NotOlder(d, b, t) ==
  \E i \in 1..Len(history[d]) : history[d][i].body = b /\ history[d][i].edited >= t

(* The manifest never claims more than was fetched: the hash in a row is that
   of a revision at least as recent as the row's remote_edited, because the
   edit time saved is the enumerated one, read before the body was fetched. An
   edit that races the fetch is therefore seen as dirty by the next round. *)
RowNotAhead ==
  \A d \in Docs : row[d].status # "none" => NotOlder(d, row[d].hash, row[d].edited)

RoundDone == pc = "reap" /\ doomed = {}

\* The mirror shows d where the inventory puts it, with a text that is current
\* or became current after the inventory was taken, and no active document
\* shows a pending-asset marker.
Faithful(d) ==
  LET file == disk[Target(d)]
  IN  /\ d \in Mirrored /\ row[d].path = Target(d)
      /\ file # NoFile /\ file.doc = d
      /\ \E i \in listing[d].since..Len(history[d]) : history[d][i].body = file.body
      /\ d \in Active => file.whole

(* A round that recorded no failure has mirrored all it enumerated, whatever
   earlier rounds left behind when they failed or died. *)
CleanRoundIsFaithful ==
  RoundDone /\ failed = {} => \A d \in Listed : Faithful(d)

(* --full repairs the mirror: whatever was left behind by earlier rounds, a move
   that was not completed, a local edit, a text that came back or an edit that
   did not change the edit time, a forced round that reports no failure leaves
   none of it. *)
ForcedRoundIsFaithful ==
  RoundDone /\ force /\ failed = {} => \A d \in Listed : Faithful(d)

(* Delete detection: the only documents a step ever marks trashed are those
   the finished walk of a complete inventory did not contain, and a document
   that waits for an asset is not among them. *)
OnlyAbsentTrashed ==
  [][\A d \in Docs :
       row'[d].status = "trashed" /\ row[d].status # "trashed" =>
         d \notin Listed /\ todo = {} /\ row[d].status = "active"]_vars

(* The permission-jitter guard: when a step decides to trash documents, those
   it condemns are at most 20% of the platform's active inventory. *)
AtMostAFifthTrashed ==
  [][pc = "walk" /\ pc' = "reap" =>
       5 * Cardinality(doomed') <= Cardinality(Active) + Stable]_vars

\* The mirror is equal to the remote: every shared document is at its place with
\* its last text, and no document is active that is not shared.
Settled ==
  \A d \in Docs :
    IF place[d] = Gone THEN d \notin Active
    ELSE /\ d \in Mirrored /\ row[d].path = Tree(place[d])
         /\ disk[row[d].path] # NoFile
         /\ disk[row[d].path].doc = d /\ disk[row[d].path].body = Tip(d).body
=============================================================================
