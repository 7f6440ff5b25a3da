--------------------------- MODULE ReconcileProofs ---------------------------
(***************************************************************************)
(* Proofs about Reconcile, Disturbances and Reports, for every number of   *)
(* documents, places, faults and revisions, every fault kind and every     *)
(* value of the flags: types, what may be trashed, that rows are not       *)
(* ahead, and that rounds are faithful: to regular documents, when they    *)
(* are forced, and as long as nothing was reported.                        *)
(***************************************************************************)
EXTENDS Reports, Disturbances, SequenceTheorems, TLAPS

\* Which document a control state is about.
Control ==
  /\ \A d \in Docs : place[d] # Gone => Len(history[d]) > 0
  /\ \A d \in Docs : row[d].status # "none" => row[d].path \in Paths
  /\ todo \subseteq Listed
  /\ pc \in {"fetch", "write", "save"} => cur \in Listed
  /\ doomed \subseteq Active \ Listed
  /\ pc = "tombstone" => cur \in (Active \ Listed) \ doomed
  /\ pc \in {"reap", "tombstone"} => todo = {}
  /\ pc \notin {"reap", "tombstone"} => doomed = {}

TypeInv == TypeOK /\ Control

LEMMA InitTypeInv == Init => TypeInv
<1>. SUFFICES ASSUME Init PROVE TypeInv
  OBVIOUS
<1>1. Listed = {} /\ Active = {}
  BY DEF Init, Listed, Active, NoRow
<1>2. history \in [Docs -> Seq(Revision)] /\ row \in [Docs -> Row]
  BY DEF Init, NoRow, Row
<1>3. listing \in [Docs -> Entry \cup {Unlisted}] /\ disk \in [Paths -> File \cup {NoFile}]
  BY DEF Init
<1>4. draft \in [hash : Nat, status : {"none", "active", "pending_assets"}]
  BY DEF Init, NoDraft
<1>5. TypeOK
  BY <1>2, <1>3, <1>4 DEF Init, TypeOK, NoDoc
<1>6. Control
  BY <1>1 DEF Init, Control, NoRow
<1>. QED
  BY <1>5, <1>6 DEF TypeInv

LEMMA HistoryTyped ==
  ASSUME TypeOK, NEW d \in Docs
  PROVE  /\ Len(history[d]) \in Nat
         /\ \A i \in 1..Len(history[d]) :
              history[d][i].body \in Nat /\ history[d][i].edited \in Nat
<1>1. history[d] \in Seq(Revision)
  BY DEF TypeOK
<1>2. \A i \in 1..Len(history[d]) : history[d][i] \in Revision
  BY <1>1, ElementOfSeq
<1>. QED
  BY <1>1, <1>2 DEF Revision

LEMMA FreeIsPlace == \A d \in Docs : Free(d) \subseteq Places
  BY ConstantsAssumption DEF Free

\* The remote only appends revisions.
LEMMA EditAppends ==
  ASSUME TypeInv, NEW d \in Docs, Edit(d)
  PROVE  /\ place[d] # Gone /\ Len(history[d]) > 0 /\ Tip(d).edited \in Nat
         /\ \E b \in Nat, t \in Nat :
              /\ t \in {Tip(d).edited, Tip(d).edited + 1}
              /\ history' = [history EXCEPT ![d] =
                               Append(history[d], [body |-> b, edited |-> t])]
<1>1. place[d] # Gone /\ Len(history[d]) > 0 /\ Len(history[d]) \in Nat
  BY HistoryTyped DEF Edit, TypeInv, Control
<1>2. \A i \in 1..Len(history[d]) : history[d][i].body \in Nat /\ history[d][i].edited \in Nat
  BY HistoryTyped DEF TypeInv
<1>3. Tip(d).body \in Nat /\ Tip(d).edited \in Nat
  BY <1>1, <1>2 DEF Tip
<1>4. PICK b \in {Tip(d).body, Len(history[d]) + 1}
                   \cup (IF Undo THEN {history[d][i].body : i \in 1..Len(history[d])} ELSE {}),
           t \in {Tip(d).edited + 1} \cup (IF Coarse THEN {Tip(d).edited} ELSE {}) :
        history' = [history EXCEPT ![d] = Append(@, [body |-> b, edited |-> t])]
  BY DEF Edit
<1>5. b \in Nat
  BY <1>1, <1>2, <1>3
<1>6. t \in Nat /\ t \in {Tip(d).edited, Tip(d).edited + 1}
  BY <1>3
<1>. QED
  BY <1>1, <1>3, <1>4, <1>5, <1>6 DEF TypeInv, TypeOK

LEMMA RemoteTypeInv ==
  ASSUME TypeInv, Remote
  PROVE  TypeInv'
<1>. USE DEF TypeInv
<1>1. UNCHANGED <<local, pc, volatile, faults>>
  BY DEF Remote, Share, Unshare, Rename, Edit
<1>2. place' \in [Docs -> Places \cup {Gone}]
  <2>1. CASE \E d \in Docs : Share(d)
    BY <2>1, FreeIsPlace DEF Share, TypeOK
  <2>2. CASE \E d \in Docs : Unshare(d)
    BY <2>2 DEF Unshare, TypeOK
  <2>3. CASE \E d \in Docs : Rename(d)
    BY <2>3, FreeIsPlace DEF Rename, TypeOK
  <2>4. CASE \E d \in Docs : Edit(d)
    BY <2>4 DEF Edit, TypeOK
  <2>. QED
    BY <2>1, <2>2, <2>3, <2>4 DEF Remote
<1>3. history' \in [Docs -> Seq(Revision)]
  <2>1. CASE \E d \in Docs : Share(d)
    <3>1. <<[body |-> 1, edited |-> 1]>> \in Seq(Revision)
      BY DEF Revision
    <3>. QED
      BY <2>1, <3>1 DEF Share, TypeOK
  <2>2. CASE UNCHANGED history
    BY <2>2 DEF TypeOK
  <2>3. ASSUME NEW d \in Docs, Edit(d) PROVE history' \in [Docs -> Seq(Revision)]
    <3>1. PICK b \in Nat, t \in Nat :
            history' = [history EXCEPT ![d] = Append(history[d], [body |-> b, edited |-> t])]
      BY <2>3, EditAppends
    <3>2. history[d] \in Seq(Revision) /\ [body |-> b, edited |-> t] \in Revision
      BY DEF TypeOK, Revision
    <3>. QED
      BY <3>1, <3>2 DEF TypeOK
  <2>. QED
    BY <2>1, <2>2, <2>3 DEF Remote, Unshare, Rename
<1>4. \A d \in Docs : place'[d] # Gone => Len(history'[d]) > 0
  <2>1. CASE \E d \in Docs : Share(d)
    BY <2>1 DEF Share, TypeOK, Control, Revision
  <2>2. CASE \E d \in Docs : Unshare(d)
    BY <2>2 DEF Unshare, TypeOK, Control
  <2>3. CASE \E d \in Docs : Rename(d)
    BY <2>3 DEF Rename, TypeOK, Control
  <2>4. CASE \E d \in Docs : Edit(d)
    BY <2>4 DEF Edit, TypeOK, Control, Tip, Revision
  <2>. QED
    BY <2>1, <2>2, <2>3, <2>4 DEF Remote
<1>. QED
  BY <1>1, <1>2, <1>3, <1>4 DEF TypeOK, Control, local, volatile, Listed, Active

LEMMA RestTypeInv ==
  ASSUME TypeInv, Rest, UNCHANGED <<remote, local>>, faults' \in Nat
  PROVE  TypeInv'
<1>1. Listed' = {} /\ todo' = {} /\ doomed' = {} /\ pc' = "idle"
  BY DEF Rest, Listed
<1>2. UNCHANGED <<history, place, row, disk, stored>>
  BY DEF remote, local
<1>3. listing' \in [Docs -> Entry \cup {Unlisted}] /\ force' \in BOOLEAN /\ failed' = {}
      /\ cur' = NoDoc /\ draft' = NoDraft
  BY DEF Rest
<1>4. TypeOK'
  BY <1>1, <1>2, <1>3 DEF TypeInv, TypeOK, NoDraft
<1>. QED
  BY <1>1, <1>2, <1>4 DEF TypeInv, Control

LEMMA FaultIsNat ==
  ASSUME TypeOK, NEW kind, UNCHANGED faults \/ Fault(kind)
  PROVE  faults' \in Nat
  BY DEF TypeOK, Fault

\* What is listed has an entry, and its target is a path.
LEMMA ListedEntry ==
  ASSUME TypeOK, NEW d \in Listed
  PROVE  d \in Docs /\ listing[d] \in Entry /\ Target(d) \in Paths
         /\ listing[d].edited \in Nat
  BY DEF TypeOK, Listed, Target, Entry

LEMMA RelocatedTyped ==
  ASSUME TypeInv, NEW d \in Listed
  PROVE  Relocated(d) \in [Paths -> File \cup {NoFile}]
<1>1. Target(d) \in Paths /\ d \in Docs
  BY ListedEntry DEF TypeInv
<1>2. CASE Moved(d)
  <2>1. row[d].path \in Paths
    BY <1>1, <1>2 DEF TypeInv, Control, Moved
  <2>. QED
    BY <1>1, <2>1 DEF TypeInv, TypeOK, Relocated
<1>3. CASE ~Moved(d)
  BY <1>3 DEF Relocated, TypeInv, TypeOK
<1>. QED
  BY <1>2, <1>3

LEMMA StartRoundTypeInv ==
  ASSUME TypeInv, StartRound
  PROVE  TypeInv'
<1>1. PICK S \in SUBSET Shared, f \in Forced :
        /\ \/ S = Shared /\ UNCHANGED faults
           \/ S # Shared /\ Fault("jitter")
        /\ listing' = [d \in Docs |->
             IF d \in S THEN [path |-> Tree(place[d]), edited |-> Tip(d).edited,
                              since |-> Len(history[d])]
             ELSE Unlisted]
        /\ todo' = S /\ force' = f
  BY DEF StartRound
<1>2. \A d \in S : [path |-> Tree(place[d]), edited |-> Tip(d).edited,
                    since |-> Len(history[d])] \in Entry
  <2>. SUFFICES ASSUME NEW d \in S
                PROVE  Tree(place[d]) \in Paths /\ Tip(d).edited \in Nat /\ Len(history[d]) \in Nat
    BY DEF Entry
  <2>1. d \in Docs /\ place[d] \in Places /\ Len(history[d]) > 0
    BY DEF Shared, TypeInv, TypeOK, Control
  <2>. QED
    BY <2>1, HistoryTyped DEF Tree, Paths, Tip, TypeInv
<1>3. listing' \in [Docs -> Entry \cup {Unlisted}]
  BY <1>1, <1>2
<1>4. \A d \in S : d \in Listed'
  <2>. SUFFICES ASSUME NEW d \in S PROVE d \in Docs /\ listing'[d] # Unlisted
    BY DEF Listed
  <2>1. d \in Docs /\ Len(history[d]) > 0
    BY DEF Shared, TypeInv, Control
  <2>2. listing'[d].since # Unlisted.since
    BY <1>1, <2>1 DEF Unlisted
  <2>. QED
    BY <2>1, <2>2
<1>. QED
  BY <1>1, <1>3, <1>4, FaultIsNat, ConstantsAssumption
     DEF StartRound, TypeInv, TypeOK, Control, remote, local, Shared, Active

LEMMA VisitTypeInv ==
  ASSUME TypeInv, NEW d \in Docs, Visit(d)
  PROVE  TypeInv'
<1>1. d \in Listed
  BY DEF Visit, TypeInv, Control
<1>2. disk' \in [Paths -> File \cup {NoFile}]
  BY <1>1, RelocatedTyped DEF Visit
<1>3. /\ pc = "walk" /\ pc' \in {"walk", "save", "fetch"}
      /\ pc' = "walk" \/ cur' = d
      /\ cur' \in Docs \cup {NoDoc}
  BY DEF Visit, TypeInv, TypeOK
<1>4. draft' \in [hash : Nat, status : {"none", "active", "pending_assets"}]
  BY DEF Visit, TypeInv, TypeOK, Row
<1>5. UNCHANGED <<history, place, row, stored, force, listing, doomed, failed, faults>>
      /\ todo' = todo \ {d}
  BY DEF Visit, remote
<1>6. TypeOK'
  BY <1>2, <1>3, <1>4, <1>5 DEF TypeInv, TypeOK
<1>7. Control'
  BY <1>1, <1>3, <1>5 DEF TypeInv, Control, Listed, Active
<1>. QED
  BY <1>6, <1>7 DEF TypeInv

LEMMA FailBeforeMoveTypeInv ==
  ASSUME TypeInv, NEW d \in Docs, FailBeforeMove(d)
  PROVE  TypeInv'
<1>1. /\ UNCHANGED <<history, place, row, disk, stored, pc, force, listing, cur, draft, doomed>>
      /\ pc = "walk" /\ todo' = todo \ {d} /\ failed' = failed \cup {d} /\ faults' \in Nat
  BY FaultIsNat DEF FailBeforeMove, remote, local, TypeInv
<1>2. TypeOK'
  BY <1>1 DEF TypeInv, TypeOK
<1>3. Control'
  BY <1>1 DEF TypeInv, Control, Listed, Active
<1>. QED
  BY <1>2, <1>3 DEF TypeInv

LEMMA NodeTypeInv ==
  ASSUME TypeInv, Fetch \/ Write \/ Save \/ FailNode
  PROVE  TypeInv'
<1>. USE DEF TypeInv
<1>1. CASE Fetch
  <2>1. cur \in Docs /\ Len(history[cur]) > 0
    BY <1>1, ListedEntry DEF Fetch, Control
  <2>2. Tip(cur).body \in Nat
    BY <2>1, HistoryTyped DEF Tip
  <2>3. /\ pc = "fetch" /\ pc' \in {"save", "write"}
        /\ draft' \in [hash : Nat, status : {"none", "active", "pending_assets"}]
        /\ stored' \in [Docs -> SUBSET Nat]
        /\ UNCHANGED <<history, place, row, disk, force, listing, todo, cur, doomed, failed, faults>>
    BY <1>1, <2>1, <2>2 DEF Fetch, TypeOK, remote
  <2>. QED
    BY <2>3 DEF TypeOK, Control, Listed, Active
<1>2. CASE Write
  <2>1. cur \in Docs /\ Target(cur) \in Paths
    BY <1>2, ListedEntry DEF Write, Control
  <2>2. disk' \in [Paths -> File \cup {NoFile}]
    BY <1>2, <2>1 DEF Write, TypeOK, File
  <2>3. pc = "write" /\ pc' = "save"
        /\ UNCHANGED <<history, place, row, stored, force, listing, todo, cur, draft, doomed, failed, faults>>
    BY <1>2 DEF Write, remote, volatile
  <2>. QED
    BY <2>2, <2>3 DEF TypeOK, Control, Listed, Active
<1>3. CASE Save
  <2>1. cur \in Listed /\ cur \in Docs /\ Target(cur) \in Paths /\ listing[cur].edited \in Nat
    BY <1>3, ListedEntry DEF Save, Control
  <2>2. row' \in [Docs -> Row] /\ \A d \in Docs : row'[d].status # "none" => row'[d].path \in Paths
    BY <1>3, <2>1 DEF Save, TypeOK, Control, Row
  <2>3. pc = "save" /\ pc' = "walk" /\ doomed = {} /\ doomed' = {}
        /\ cur' = NoDoc /\ draft' = NoDraft
        /\ UNCHANGED <<history, place, disk, stored, force, listing, todo, failed, faults>>
    BY <1>3 DEF Save, remote, Control
  <2>. QED
    BY <2>2, <2>3 DEF TypeOK, Control, Listed, NoDraft
<1>4. CASE FailNode
  <2>1. faults' \in Nat
    BY <1>4, FaultIsNat DEF FailNode
  <2>2. cur \in Docs /\ pc \in {"fetch", "write", "save"}
    BY <1>4, ListedEntry DEF FailNode, Control
  <2>3. pc' = "walk" /\ cur' = NoDoc /\ draft' = NoDraft /\ failed' = failed \cup {cur}
        /\ UNCHANGED <<history, place, row, disk, stored, force, listing, todo, doomed>>
    BY <1>4 DEF FailNode, remote, local
  <2>. QED
    BY <2>1, <2>2, <2>3 DEF TypeOK, Control, Listed, Active, NoDraft
<1>. QED
  BY <1>1, <1>2, <1>3, <1>4

LEMMA TrashedRow ==
  ASSUME NEW r \in Row, NEW x \in Paths
  PROVE  [r EXCEPT !.status = "trashed", !.path = x] \in Row
  BY DEF Row

LEMMA TombstoneRow ==
  ASSUME TypeInv, Tombstone
  PROVE  /\ cur \in (Active \ Listed) \ doomed /\ cur \in Docs
         /\ row' = [row EXCEPT ![cur] = [row[cur] EXCEPT !.status = "trashed",
                                                       !.path = TrashPath(cur)]]
<1>1. cur \in (Active \ Listed) \ doomed /\ cur \in Docs
  BY DEF Tombstone, TypeInv, Control, Active
<1>. QED
  BY <1>1 DEF Tombstone, TypeInv, TypeOK

LEMMA DeleteTypeInv ==
  ASSUME TypeInv, BeginDeletes \/ (\E d \in Docs : MoveToTrash(d)) \/ Tombstone
  PROVE  TypeInv'
<1>. USE DEF TypeInv
<1>0. \A d \in Docs : d \in Active => row[d].path \in Paths /\ TrashPath(d) \in Paths
  BY DEF Active, Control, TrashPath, Trash, Paths
<1>1. CASE BeginDeletes
  <2>1. doomed' \subseteq Active \ Listed /\ doomed' \subseteq Docs
    BY <1>1 DEF BeginDeletes, Active
  <2>2. pc' = "reap" /\ todo = {}
        /\ UNCHANGED <<history, place, row, disk, stored, force, listing, todo, cur, draft, failed, faults>>
    BY <1>1 DEF BeginDeletes, remote, local
  <2>. QED
    BY <2>1, <2>2 DEF TypeOK, Control, Listed, Active
<1>2. ASSUME NEW d \in Docs, MoveToTrash(d) PROVE TypeInv'
  <2>1. d \in Active \ Listed
    BY <1>2 DEF MoveToTrash, Control
  <2>2. disk' \in [Paths -> File \cup {NoFile}]
    BY <1>0, <1>2, <2>1 DEF MoveToTrash, TypeOK
  <2>3. pc = "reap" /\ pc' = "tombstone" /\ cur' = d /\ doomed' = doomed \ {d}
        /\ UNCHANGED <<history, place, row, stored, force, listing, todo, draft, failed, faults>>
    BY <1>2 DEF MoveToTrash, remote
  <2>. QED
    BY <2>1, <2>2, <2>3 DEF TypeOK, Control, Listed, Active
<1>3. CASE Tombstone
  <2>1. cur \in (Active \ Listed) \ doomed /\ cur \in Docs /\ TrashPath(cur) \in Paths
    BY <1>0, <1>3, TombstoneRow
  <2>2. row' = [row EXCEPT ![cur] = [row[cur] EXCEPT !.status = "trashed",
                                                     !.path = TrashPath(cur)]]
    BY <1>3, TombstoneRow
  <2>3. row' \in [Docs -> Row]
    <3>1. [row[cur] EXCEPT !.status = "trashed", !.path = TrashPath(cur)] \in Row
      BY <2>1, TrashedRow DEF TypeOK
    <3>. QED
      BY <2>1, <2>2, <3>1 DEF TypeOK
  <2>4. \A d \in Docs : row'[d].status # "none" => row'[d].path \in Paths
    BY <2>1, <2>2 DEF TypeOK, Control, Row
  <2>5. Active' = Active \ {cur}
    BY <2>1, <2>2 DEF TypeOK, Active, Row
  <2>6. pc = "tombstone" /\ pc' = "reap" /\ cur' = NoDoc
        /\ UNCHANGED <<history, place, disk, stored, force, listing, todo, draft, doomed, failed, faults>>
    BY <1>3 DEF Tombstone, remote
  <2>7. TypeOK'
    BY <2>3, <2>6 DEF TypeOK
  <2>8. Control'
    BY <2>1, <2>4, <2>5, <2>6 DEF Control, Listed
  <2>. QED
    BY <2>7, <2>8
<1>. QED
  BY <1>1, <1>2, <1>3

LEMMA OtherTypeInv ==
  ASSUME TypeInv, AbortRound \/ Finish \/ Crash \/ \E x \in Paths : Tamper(x)
  PROVE  TypeInv'
<1>1. CASE AbortRound \/ Finish \/ Crash
  BY <1>1, RestTypeInv, FaultIsNat DEF AbortRound, Finish, Crash, TypeInv, remote, local
<1>2. ASSUME NEW x \in Paths, Tamper(x) PROVE TypeInv'
  <2>1. disk' \in [Paths -> File \cup {NoFile}]
    <3>1. disk[x] \in File /\ disk' = [disk EXCEPT ![x] = [disk[x] EXCEPT !.body = 0]]
      BY <1>2 DEF Tamper, TypeInv, TypeOK
    <3>2. [disk[x] EXCEPT !.body = 0] \in File
      BY <3>1 DEF File
    <3>. QED
      BY <3>1, <3>2 DEF TypeInv, TypeOK
  <2>2. faults' \in Nat
    BY <1>2, FaultIsNat DEF Tamper, TypeInv
  <2>3. UNCHANGED <<history, place, row, stored, pc, volatile>>
    BY <1>2 DEF Tamper, remote
  <2>. QED
    BY <2>1, <2>2, <2>3 DEF TypeInv, TypeOK, Control, Listed, Active, volatile
<1>. QED
  BY <1>1, <1>2

LEMMA StutterTypeInv ==
  ASSUME TypeInv, UNCHANGED vars
  PROVE  TypeInv'
  BY DEF vars, remote, local, volatile, TypeInv, TypeOK, Control, Listed, Active

LEMMA NextTypeInv ==
  ASSUME TypeInv, [Next]_vars
  PROVE  TypeInv'
  BY RemoteTypeInv, StartRoundTypeInv, VisitTypeInv, FailBeforeMoveTypeInv,
     NodeTypeInv, DeleteTypeInv, OtherTypeInv,
     StutterTypeInv DEF Next, Round

(* Every variable keeps its type, and each control state is about a document it
   can be about: the document fetched, written and saved is one of this round's
   inventory, and the one being trashed is active and not in it. *)
THEOREM TypeCorrect == Spec => []TypeInv
<1>1. Init => TypeInv
  BY InitTypeInv
<1>2. TypeInv /\ [Next]_vars => TypeInv'
  BY NextTypeInv
<1>. QED
  BY <1>1, <1>2, PTL DEF Spec

(* Rows, files, inventory and the state of processNode are always well typed. *)
COROLLARY TypeOKHolds == Spec => []TypeOK
<1>1. TypeInv => TypeOK
  BY DEF TypeInv
<1>. QED
  BY <1>1, TypeCorrect, PTL

(* Delete detection never trashes a document of the inventory, nor one that
   waits for an asset, nor anything before the walk is over. *)
THEOREM TrashesOnlyAbsent == Spec => OnlyAbsentTrashed
<1>. DEFINE Step == \A d \in Docs :
       row'[d].status = "trashed" /\ row[d].status # "trashed" =>
         d \notin Listed /\ todo = {} /\ row[d].status = "active"
<1>1. ASSUME TypeInv, Next PROVE Step
  <2>. SUFFICES ASSUME NEW d \in Docs, row'[d].status = "trashed", row[d].status # "trashed"
                PROVE  d \notin Listed /\ todo = {} /\ row[d].status = "active"
    OBVIOUS
  <2>1. CASE Save
    <3>1. cur \in Docs /\ row' = [row EXCEPT ![cur] =
            [status |-> draft.status, path |-> Target(cur),
             edited |-> listing[cur].edited, hash |-> draft.hash]]
      BY <1>1, <2>1, ListedEntry DEF Save, TypeInv, Control
    <3>2. row'[d].status \in {row[d].status, draft.status}
      BY <1>1, <3>1 DEF TypeInv, TypeOK
    <3>3. draft.status # "trashed"
      BY <1>1 DEF TypeInv, TypeOK
    <3>. QED
      BY <3>2, <3>3
  <2>2. CASE Tombstone
    <3>1. cur \in Active \ Listed /\ (row'[d] = row[d] \/ d = cur)
      BY <1>1, <2>2, TombstoneRow DEF TypeInv, TypeOK
    <3>. QED
      BY <1>1, <2>2, <3>1 DEF Tombstone, TypeInv, Control, Active
  <2>3. CASE ~Save /\ ~Tombstone
    <3>1. UNCHANGED row
      BY <1>1, <2>3 DEF Next, Remote, Share, Unshare, Rename, Edit, Round, StartRound, Visit, FailBeforeMove,
         Fetch, Write, FailNode, BeginDeletes, MoveToTrash, AbortRound, Finish, Crash, Tamper,
         local
    <3>. QED
      BY <3>1
  <2>. QED
    BY <2>1, <2>2, <2>3
<1>2. TypeInv /\ [Next]_vars => [Step]_vars
  BY <1>1
<1>. QED
  BY <1>2, TypeCorrect, PTL DEF Spec, OnlyAbsentTrashed

-----------------------------------------------------------------------------
(***************************************************************************)
(* RowNotAhead.  It is not inductive: what Save writes is right because    *)
(* the text was fetched after the inventory was taken, so the invariant    *)
(* follows the edit time from the inventory through fetch and write.       *)
(***************************************************************************)
EditTimesGrow ==
  \A d \in Docs : \A i, j \in 1..Len(history[d]) :
    i <= j => history[d][i].edited <= history[d][j].edited

ListingNotAhead ==
  \A d \in Listed : Len(history[d]) > 0 /\ listing[d].edited <= Tip(d).edited

DraftNotAhead ==
  pc \in {"write", "save"} => NotOlder(cur, draft.hash, listing[cur].edited)

Times == EditTimesGrow /\ ListingNotAhead /\ DraftNotAhead /\ RowNotAhead

LEMMA InitTimes == Init => Times
  BY DEF Init, Times, EditTimesGrow, ListingNotAhead, DraftNotAhead, RowNotAhead, Listed, NoRow

\* A step of the remote keeps the revisions there are.
LEMMA HistoryGrows ==
  ASSUME TypeInv, Remote, NEW d \in Docs
  PROVE  /\ Len(history[d]) <= Len(history'[d])
         /\ \A i \in 1..Len(history[d]) : history'[d][i] = history[d][i]
<1>1. history[d] \in Seq(Revision) /\ history'[d] \in Seq(Revision)
  BY RemoteTypeInv DEF TypeInv, TypeOK
<1>2. CASE \E e \in Docs : Share(e)
  <2>1. history'[d] = history[d] \/ history[d] = <<>>
    BY <1>2 DEF Share, TypeInv, TypeOK
  <2>. QED
    BY <1>1, <2>1
<1>3. CASE UNCHANGED history
  BY <1>1, <1>3
<1>4. ASSUME NEW e \in Docs, Edit(e)
      PROVE /\ Len(history[d]) <= Len(history'[d])
            /\ \A i \in 1..Len(history[d]) : history'[d][i] = history[d][i]
  <2>1. PICK b \in Nat, t \in Nat :
          history' = [history EXCEPT ![e] = Append(history[e], [body |-> b, edited |-> t])]
    BY <1>4, EditAppends
  <2>2. history'[d] = history[d] \/ history'[d] = Append(history[d], [body |-> b, edited |-> t])
    BY <2>1 DEF TypeInv, TypeOK
  <2>. QED
    BY <1>1, <2>2
<1>. QED
  BY <1>2, <1>3, <1>4 DEF Remote, Unshare, Rename

LEMMA NotOlderStable ==
  ASSUME TypeInv, Remote, NEW d \in Docs, NEW b, NEW t, NotOlder(d, b, t)
  PROVE  \E i \in 1..Len(history'[d]) :
           history'[d][i].body = b /\ history'[d][i].edited >= t
<1>1. Len(history[d]) \in Nat /\ Len(history'[d]) \in Nat
  BY HistoryTyped, RemoteTypeInv DEF TypeInv, TypeOK
<1>2. PICK i \in 1..Len(history[d]) : history[d][i].body = b /\ history[d][i].edited >= t
  BY DEF NotOlder
<1>3. i \in 1..Len(history'[d]) /\ history'[d][i] = history[d][i]
  BY <1>1, HistoryGrows
<1>. QED
  BY <1>2, <1>3

LEMMA EditTimesStayOrdered ==
  ASSUME TypeInv, Times, Remote
  PROVE  EditTimesGrow'
<1>. SUFFICES ASSUME NEW d \in Docs, NEW i \in 1..Len(history'[d]), NEW j \in 1..Len(history'[d]),
                     i <= j
              PROVE  history'[d][i].edited <= history'[d][j].edited
  BY DEF EditTimesGrow
<1>0. history[d] \in Seq(Revision) /\ Len(history[d]) \in Nat
  BY HistoryTyped DEF TypeInv, TypeOK
<1>1. CASE history'[d] = history[d]
  BY <1>1 DEF Times, EditTimesGrow
<1>2. CASE history[d] = <<>> /\ history'[d] = <<[body |-> 1, edited |-> 1]>>
  BY <1>2
<1>3. CASE Edit(d)
  <2>1. Len(history[d]) > 0 /\ Tip(d).edited \in Nat
    BY <1>3, EditAppends
  <2>2. \A k \in 1..Len(history[d]) : history[d][k].edited \in Nat
    BY HistoryTyped DEF TypeInv
  <2>3. PICK b \in Nat, t \in Nat :
          /\ t \in {Tip(d).edited, Tip(d).edited + 1}
          /\ history'[d] = Append(history[d], [body |-> b, edited |-> t])
    <3>1. PICK b \in Nat, t \in Nat :
            /\ t \in {Tip(d).edited, Tip(d).edited + 1}
            /\ history' = [history EXCEPT ![d] =
                             Append(history[d], [body |-> b, edited |-> t])]
      BY <1>3, EditAppends
    <3>2. history'[d] = Append(history[d], [body |-> b, edited |-> t])
      BY <3>1 DEF TypeInv, TypeOK
    <3>. QED
      BY <3>1, <3>2
  <2>4. Tip(d).edited <= t
    BY <2>1, <2>3
  <2>5. \A k \in 1..Len(history[d]) : history[d][k].edited <= t
    BY <1>0, <2>1, <2>2, <2>4 DEF Times, EditTimesGrow, Tip
  <2>6. \A k \in 1..Len(history[d]) : history'[d][k] = history[d][k]
    BY <1>0, <2>3
  <2>7. Len(history'[d]) = Len(history[d]) + 1
        /\ history'[d][Len(history[d]) + 1] = [body |-> b, edited |-> t]
    BY <1>0, <2>3
  <2>8. CASE j \in 1..Len(history[d])
    BY <1>0, <2>6, <2>8 DEF Times, EditTimesGrow
  <2>9. CASE j = Len(history[d]) + 1
    <3>1. CASE i \in 1..Len(history[d])
      BY <2>5, <2>6, <2>7, <2>9, <3>1
    <3>2. CASE i = Len(history[d]) + 1
      BY <2>4, <2>7, <2>9, <3>2
    <3>. QED
      BY <1>0, <2>7, <3>1, <3>2
  <2>. QED
    BY <1>0, <2>7, <2>8, <2>9
<1>. QED
  <2>1. ASSUME NEW e \in Docs, Share(e)
        PROVE  history'[d] = history[d]
               \/ (history[d] = <<>> /\ history'[d] = <<[body |-> 1, edited |-> 1]>>)
    <3>1. CASE history[e] = <<>>
      <4>1. history' = [history EXCEPT ![e] = <<[body |-> 1, edited |-> 1]>>]
        BY <2>1, <3>1 DEF Share
      <4>2. DOMAIN history = Docs
        BY DEF TypeInv, TypeOK
      <4>3. CASE d = e
        BY <3>1, <4>1, <4>2, <4>3
      <4>4. CASE d # e
        BY <4>1, <4>2, <4>4
      <4>. QED
        BY <4>3, <4>4
    <3>2. CASE history[e] # <<>>
      <4>1. history' = history
        BY <2>1, <3>2 DEF Share
      <4>. QED
        BY <4>1
    <3>. QED
      BY <3>1, <3>2
  <2>2. ASSUME NEW e \in Docs, Edit(e), e # d
        PROVE  history'[d] = history[d]
    BY <2>2, EditAppends DEF TypeInv, TypeOK
  <2>. QED
    BY <1>1, <1>2, <1>3, <2>1, <2>2 DEF Remote, Unshare, Rename

\* A step that leaves the remote and the rows alone and fetches nothing.
LEMMA IdleTimes ==
  ASSUME TypeInv, Times, UNCHANGED <<history, row>>,
         Listed' \subseteq Listed, \A d \in Listed' : listing'[d] = listing[d],
         pc' \in {"write", "save"} =>
           pc \in {"write", "save"} /\ UNCHANGED <<cur, draft, listing>>
  PROVE  Times'
<1>1. EditTimesGrow' /\ RowNotAhead'
  BY DEF Times, EditTimesGrow, RowNotAhead, NotOlder
<1>2. ListingNotAhead'
  BY DEF Times, ListingNotAhead, Tip
<1>3. DraftNotAhead'
  BY DEF Times, DraftNotAhead, NotOlder
<1>. QED
  BY <1>1, <1>2, <1>3 DEF Times

LEMMA RemoteTimes ==
  ASSUME TypeInv, Times, Remote
  PROVE  Times'
<1>1. UNCHANGED <<row, listing, pc, cur, draft>>
  BY DEF Remote, Share, Unshare, Rename, Edit, local, volatile
<1>2. RowNotAhead'
  <2>. SUFFICES ASSUME NEW d \in Docs, row[d].status # "none"
                PROVE  NotOlder(d, row[d].hash, row[d].edited)'
    BY <1>1 DEF RowNotAhead
  <2>1. NotOlder(d, row[d].hash, row[d].edited)
    BY DEF Times, RowNotAhead
  <2>2. \E i \in 1..Len(history'[d]) :
          history'[d][i].body = row[d].hash /\ history'[d][i].edited >= row[d].edited
    BY <2>1, NotOlderStable
  <2>. QED
    BY <1>1, <2>2 DEF NotOlder
<1>3. ListingNotAhead'
  <2>. SUFFICES ASSUME NEW d \in Listed
                PROVE  Len(history'[d]) > 0 /\ listing[d].edited <= Tip(d)'.edited
    BY <1>1 DEF ListingNotAhead, Listed
  <2>1. d \in Docs /\ listing[d].edited \in Nat
    BY ListedEntry DEF TypeInv
  <2>2. Len(history[d]) > 0 /\ listing[d].edited <= Tip(d).edited /\ Len(history[d]) \in Nat
    BY <2>1, HistoryTyped DEF Times, ListingNotAhead, TypeInv
  <2>3. Len(history'[d]) \in Nat /\ Len(history[d]) <= Len(history'[d])
        /\ history'[d][Len(history[d])] = Tip(d)
    BY <2>1, <2>2, HistoryTyped, HistoryGrows, RemoteTypeInv DEF TypeInv, TypeOK, Tip
  <2>4. \A i \in 1..Len(history'[d]) : history'[d][i].edited \in Nat
    <3>1. history'[d] \in Seq(Revision)
      BY <2>1, RemoteTypeInv DEF TypeInv, TypeOK
    <3>2. \A i \in 1..Len(history'[d]) : history'[d][i] \in Revision
      BY <3>1, ElementOfSeq
    <3>. QED
      BY <3>2 DEF Revision
  <2>5. history'[d][Len(history[d])].edited <= history'[d][Len(history'[d])].edited
    BY <2>1, <2>2, <2>3, EditTimesStayOrdered DEF EditTimesGrow
  <2>. QED
    BY <2>1, <2>2, <2>3, <2>4, <2>5 DEF Tip
<1>4. DraftNotAhead'
  <2>. SUFFICES ASSUME pc \in {"write", "save"}
                PROVE  NotOlder(cur, draft.hash, listing[cur].edited)'
    BY <1>1 DEF DraftNotAhead
  <2>1. cur \in Docs /\ NotOlder(cur, draft.hash, listing[cur].edited)
    BY ListedEntry DEF Times, DraftNotAhead, TypeInv, Control
  <2>2. \E i \in 1..Len(history'[cur]) :
          history'[cur][i].body = draft.hash /\ history'[cur][i].edited >= listing[cur].edited
    BY <2>1, NotOlderStable
  <2>. QED
    BY <1>1, <2>2 DEF NotOlder
<1>. QED
  BY <1>2, <1>3, <1>4, EditTimesStayOrdered DEF Times

\* The inventory is the remote's present state.
LEMMA StartRoundTimes ==
  ASSUME TypeInv, Times, StartRound
  PROVE  Times'
<1>1. UNCHANGED <<history, row>> /\ pc' = "walk"
  BY DEF StartRound, remote, local
<1>2. PICK S \in SUBSET Shared :
        listing' = [d \in Docs |->
          IF d \in S THEN [path |-> Tree(place[d]), edited |-> Tip(d).edited,
                           since |-> Len(history[d])]
          ELSE Unlisted]
  BY DEF StartRound
<1>3. \A d \in Listed' : d \in Docs /\ d \in S /\ listing'[d].edited = Tip(d).edited
  BY <1>2 DEF Listed
<1>4. \A d \in Listed' : Len(history[d]) > 0 /\ Tip(d).edited \in Nat
  <2>. SUFFICES ASSUME NEW d \in Listed' PROVE Len(history[d]) > 0 /\ Tip(d).edited \in Nat
    OBVIOUS
  <2>1. Len(history[d]) > 0 /\ d \in Docs
    BY <1>3 DEF Shared, TypeInv, Control
  <2>. QED
    BY <2>1, HistoryTyped DEF Tip, TypeInv
<1>5. ListingNotAhead'
  BY <1>1, <1>3, <1>4 DEF ListingNotAhead, Tip
<1>6. EditTimesGrow' /\ RowNotAhead' /\ DraftNotAhead'
  BY <1>1 DEF Times, EditTimesGrow, RowNotAhead, NotOlder, DraftNotAhead
<1>. QED
  BY <1>5, <1>6 DEF Times

\* A move without a fetch keeps hash and edit time; they stay a matching pair.
LEMMA VisitTimes ==
  ASSUME TypeInv, Times, NEW d \in Docs, Visit(d)
  PROVE  Times'
<1>1. UNCHANGED <<history, row, listing>> /\ pc' \in {"walk", "save", "fetch"} /\ d \in Listed
  BY DEF Visit, remote, TypeInv, Control
<1>2. EditTimesGrow' /\ RowNotAhead' /\ ListingNotAhead'
  BY <1>1 DEF Times, EditTimesGrow, RowNotAhead, NotOlder, ListingNotAhead, Listed, Tip
<1>3. ASSUME pc' = "save"
      PROVE  cur' = d /\ draft'.hash = row[d].hash /\ row[d].edited = listing[d].edited
             /\ row[d].status # "none"
  BY <1>3 DEF Visit, Unchanged
<1>4. DraftNotAhead'
  BY <1>1, <1>3 DEF Times, DraftNotAhead, RowNotAhead, NotOlder
<1>. QED
  BY <1>2, <1>4 DEF Times

\* What is fetched is the last revision, which the inventory is not ahead of.
LEMMA FetchTimes ==
  ASSUME TypeInv, Times, Fetch
  PROVE  Times'
<1>1. UNCHANGED <<history, row, listing, cur>> /\ cur \in Listed /\ cur \in Docs
      /\ draft'.hash = Tip(cur).body
  BY ListedEntry DEF Fetch, remote, TypeInv, Control
<1>2. EditTimesGrow' /\ RowNotAhead' /\ ListingNotAhead'
  BY <1>1 DEF Times, EditTimesGrow, RowNotAhead, NotOlder, ListingNotAhead, Listed, Tip
<1>3. Len(history[cur]) \in 1..Len(history[cur]) /\ listing[cur].edited <= Tip(cur).edited
      /\ Tip(cur).edited \in Nat /\ listing[cur].edited \in Nat
  BY <1>1, HistoryTyped, ListedEntry DEF Times, ListingNotAhead, TypeInv, Tip
<1>4. NotOlder(cur, Tip(cur).body, listing[cur].edited)
  BY <1>3 DEF NotOlder, Tip
<1>5. DraftNotAhead'
  BY <1>1, <1>4 DEF DraftNotAhead, NotOlder
<1>. QED
  BY <1>2, <1>5 DEF Times

LEMMA SaveTimes ==
  ASSUME TypeInv, Times, Save
  PROVE  Times'
<1>1. UNCHANGED <<history, listing>> /\ pc' = "walk" /\ cur \in Docs
      /\ NotOlder(cur, draft.hash, listing[cur].edited)
  BY ListedEntry DEF Save, remote, TypeInv, Control, Times, DraftNotAhead
<1>2. EditTimesGrow' /\ ListingNotAhead' /\ DraftNotAhead'
  BY <1>1 DEF Times, EditTimesGrow, ListingNotAhead, DraftNotAhead, Listed, Tip
<1>3. \A d \in Docs : \/ row'[d] = row[d]
                      \/ d = cur /\ row'[d].hash = draft.hash
                                 /\ row'[d].edited = listing[cur].edited
  BY <1>1 DEF Save, TypeInv, TypeOK
<1>4. RowNotAhead'
  <2>. SUFFICES ASSUME NEW d \in Docs, row'[d].status # "none"
                PROVE  NotOlder(d, row[d].hash, row[d].edited)'
    BY DEF RowNotAhead
  <2>. QED
    BY <1>1, <1>3 DEF Times, RowNotAhead, NotOlder
<1>. QED
  BY <1>2, <1>4 DEF Times

LEMMA TombstoneTimes ==
  ASSUME TypeInv, Times, Tombstone
  PROVE  Times'
<1>1. UNCHANGED <<history, listing>> /\ pc' = "reap" /\ cur \in Docs /\ row[cur].status # "none"
  BY TombstoneRow DEF Tombstone, remote, Active
<1>2. EditTimesGrow' /\ ListingNotAhead' /\ DraftNotAhead'
  BY <1>1 DEF Times, EditTimesGrow, ListingNotAhead, DraftNotAhead, Listed, Tip
<1>3. \A d \in Docs : /\ row'[d].hash = row[d].hash /\ row'[d].edited = row[d].edited
                      /\ row'[d].status # "none" => row[d].status # "none"
  <2>1. \A d \in Docs : row'[d] = IF d = cur THEN [row[cur] EXCEPT !.status = "trashed",
                                                              !.path = TrashPath(cur)]
                                 ELSE row[d]
    BY TombstoneRow DEF TypeInv, TypeOK
  <2>2. row[cur] \in Row
    BY <1>1 DEF TypeInv, TypeOK
  <2>3. LET r == [row[cur] EXCEPT !.status = "trashed", !.path = TrashPath(cur)]
        IN  r.hash = row[cur].hash /\ r.edited = row[cur].edited
    BY <2>2 DEF Row
  <2>. QED
    BY <1>1, <2>1, <2>3
<1>4. RowNotAhead'
  BY <1>1, <1>3 DEF Times, RowNotAhead, NotOlder
<1>. QED
  BY <1>2, <1>4 DEF Times

LEMMA RestTimes ==
  ASSUME TypeInv, Times, Rest, UNCHANGED <<remote, local>>
  PROVE  Times'
<1>1. Listed' = {} /\ pc' = "idle" /\ UNCHANGED <<history, row>>
  BY DEF Rest, Listed, remote, local
<1>. QED
  BY <1>1, IdleTimes

LEMMA NextTimes ==
  ASSUME TypeInv, Times, [Next]_vars
  PROVE  Times'
<1>1. CASE Remote
  BY <1>1, RemoteTimes
<1>2. CASE StartRound \/ Fetch \/ Save \/ Tombstone \/ \E d \in Docs : Visit(d)
  BY <1>2, StartRoundTimes, FetchTimes, SaveTimes, TombstoneTimes, VisitTimes
<1>3. CASE AbortRound \/ Finish \/ Crash
  BY <1>3, RestTimes DEF AbortRound, Finish, Crash, remote, local
<1>4. CASE Write \/ FailNode \/ BeginDeletes \/ (\E d \in Docs : FailBeforeMove(d) \/ MoveToTrash(d))
           \/ (\E x \in Paths : Tamper(x)) \/ UNCHANGED vars
  <2>1. UNCHANGED <<history, row, listing>>
    BY <1>4 DEF Write, FailNode, FailBeforeMove, BeginDeletes, MoveToTrash, Tamper, vars, remote, local, volatile
  <2>2. pc' \in {"write", "save"} => pc \in {"write", "save"} /\ UNCHANGED <<cur, draft>>
    BY <1>4 DEF Write, FailNode, FailBeforeMove, BeginDeletes, MoveToTrash, Tamper, vars, volatile
  <2>3. Listed' = Listed
    BY <2>1 DEF Listed
  <2>. QED
    BY <2>1, <2>2, <2>3, IdleTimes
<1>. QED
  BY <1>1, <1>2, <1>3, <1>4 DEF Next, Round

(* The manifest never claims more than was fetched: for every document, every
   interleaving of edits with rounds, every fault and any sharing of paths, the
   hash in a row is that of a revision at least as recent as the row's edit
   time, so no edit is ever taken for mirrored that is not. *)
THEOREM ManifestNotAhead == Spec => []RowNotAhead
<1>1. Init => TypeInv /\ Times
  BY InitTypeInv, InitTimes
<1>2. TypeInv /\ Times /\ [Next]_vars => TypeInv' /\ Times'
  BY NextTypeInv, NextTimes
<1>3. TypeInv /\ Times => RowNotAhead
  BY DEF Times
<1>. QED
  BY <1>1, <1>2, <1>3, PTL DEF Spec

-----------------------------------------------------------------------------
(***************************************************************************)
(* A regular document is mirrored by every round that does not report it,   *)
(* it is never lost, and a skip leaves what it should, whatever happens to   *)
(* the others: the invariant is stated document by document, for the set H  *)
(* of the places that it has had.                                           *)
(***************************************************************************)
-----------------------------------------------------------------------------
(* The invariant of one document. *)

Mine(H)   == {"tree", "trash"} \X H
InHand(d) == pc \in {"fetch", "write", "save"} /\ cur = d

\* The row may stand for this file, and for what lies at x, if anything does.
Fits(d, file) ==
  /\ NotOlder(d, file.body, row[d].edited) /\ file.body >= row[d].hash
  /\ row[d].status \in {"active", "trashed"} /\ file.body = row[d].hash => file.whole
Good(d, x) == disk[x] # NoFile => Fits(d, disk[x])

Homes(d, H) ==
  /\ place[d] # Gone => place[d] \in H
  /\ row[d].status = "none" => row[d] = NoRow
  /\ d \in Mirrored => row[d].path \in {"tree"} \X H
  /\ row[d].status = "trashed" => row[d].path \in {"trash"} \X H
  /\ d \in Listed => Target(d) \in {"tree"} \X H

Texts(d) ==
  /\ \A i \in 1..Len(history[d]) : history[d][i].body <= i
  /\ \A i, j \in 1..Len(history[d]) :
       i < j => /\ history[d][i].body <= history[d][j].body
                /\ history[d][i].edited < history[d][j].edited
  /\ row[d].status \in {"active", "trashed"} => row[d].hash \in stored[d]

Files(d, H) ==
  \A x \in Mine(H) : disk[x] # NoFile =>
    disk[x].doc = d /\ \E i \in 1..Len(history[d]) : history[d][i].body = disk[x].body

\* Wherever the next steps look for the body: where the row says, where the
\* document belongs and where the inventory puts it.
Goods(d) ==
  /\ d \in Mirrored => Good(d, row[d].path)
  /\ place[d] # Gone => Good(d, Tree(place[d]))
  /\ d \in Listed => Good(d, Target(d))

Kept(d, H) ==
  row[d].status # "none" =>
    \E x \in Mine(H) : disk[x] # NoFile /\ NotOlder(d, disk[x].body, row[d].edited)

\* The inventory's entry; and nothing lies where the document has gone since,
\* unless it has been there all the time.
Dated(d) ==
  d \in Listed =>
    /\ listing[d].since \in 1..Len(history[d])
    /\ listing[d].edited = history[d][listing[d].since].edited
    /\ row[d].edited <= listing[d].edited
    /\ place[d] # Gone /\ Tree(place[d]) # Target(d) /\ disk[Tree(place[d])] # NoFile =>
         row[d].path = Tree(place[d])

\* Before it is visited, nothing of the document is newer than the inventory.
Waits(d, H) ==
  d \in todo =>
    /\ ~InHand(d)
    /\ row[d].hash <= history[d][listing[d].since].body
    /\ \A x \in Mine(H) :
         disk[x] # NoFile => disk[x].body <= history[d][listing[d].since].body

Recent(d, b) == \E i \in listing[d].since..Len(history[d]) : history[d][i].body = b

\* While it is processed: the old path is left, the draft is recent, and what is
\* saved is on disk.
Handled(d) ==
  InHand(d) =>
    /\ d \in Mirrored /\ row[d].path # Target(d) => disk[row[d].path] = NoFile
    /\ pc \in {"write", "save"} =>
         /\ draft.status # "none" /\ draft.hash >= row[d].hash /\ Recent(d, draft.hash)
         /\ draft.status = "active" => draft.hash \in stored[d]
    /\ pc = "write" /\ row[d].status \in {"active", "trashed"} /\ row[d].hash = draft.hash =>
         draft.status = "active"
    /\ pc = "save" =>
         /\ disk[Target(d)] # NoFile /\ disk[Target(d)].body = draft.hash
         /\ draft.status = "active" => disk[Target(d)].whole

Done(d) == d \in Listed /\ d \notin todo \cup failed /\ ~InHand(d) => Faithful(d)

Own(d, H) ==
  /\ Homes(d, H) /\ Texts(d) /\ Files(d, H) /\ Goods(d) /\ Kept(d, H)
  /\ Dated(d) /\ Waits(d, H) /\ Handled(d) /\ Done(d)

\* What is written and saved is active or waits for an asset.
Drafted == pc \in {"write", "save"} => draft.status \in {"active", "pending_assets"}

\* Every file lies where some document has been.
Inhabited == \A x \in Paths : disk[x] # NoFile => \E e \in Docs : x \in Mine(been[e])

Inv == /\ TypeInv /\ Times
       /\ been \in [Docs -> SUBSET Places] /\ disturbed \subseteq Docs
       /\ \A d \in Docs : Homes(d, been[d])
       /\ Drafted /\ Inhabited
       /\ \A d \in Docs : Regular(d) => Own(d, been[d])
       /\ pc = "idle" => todo = {}

-----------------------------------------------------------------------------
(* Types. *)

LEMMA Typed ==
  ASSUME TypeInv, NEW d \in Docs
  PROVE  /\ row[d] \in Row /\ row[d].edited \in Nat /\ row[d].hash \in Nat
         /\ row[d].status \in {"none", "active", "pending_assets", "trashed"}
         /\ place[d] \in Places \cup {Gone}
         /\ listing[d] \in Entry \cup {Unlisted}
         /\ stored[d] \subseteq Nat
  BY ConstantsAssumption DEF TypeInv, TypeOK, Row

LEMMA MinePaths ==
  ASSUME NEW H \in SUBSET Places
  PROVE  /\ Mine(H) \subseteq Paths
         /\ \A p \in H : Tree(p) \in Mine(H) /\ Trash(p) \in Mine(H) /\ Tree(p) # Trash(p)
         /\ {"tree"} \X H \subseteq Mine(H) /\ {"trash"} \X H \subseteq Mine(H)
BY DEF Mine, Paths, Tree, Trash

LEMMA FileTyped ==
  ASSUME TypeInv, NEW H \in SUBSET Places, NEW x \in Mine(H), disk[x] # NoFile
  PROVE  disk[x].doc \in Docs /\ disk[x].body \in Nat /\ disk[x].whole \in BOOLEAN
<1>1. x \in Paths  BY MinePaths
<1>2. QED  BY <1>1 DEF TypeInv, TypeOK, File

-----------------------------------------------------------------------------
(* Frames. *)

\* Steps that are not about the document.
LEMMA Frame ==
  ASSUME TypeInv, NEW d \in Docs, NEW H \in SUBSET Places, Own(d, H),
         row'[d] = row[d], place'[d] = place[d], history'[d] = history[d],
         stored[d] \subseteq stored'[d], listing'[d] = listing[d],
         \A x \in Mine(H) : disk'[x] = disk[x],
         d \in todo' => d \in todo, d \in todo => d \in todo' \cup failed',
         d \in failed => d \in failed',
         InHand(d)' => InHand(d) /\ pc' = pc /\ draft' = draft,
         InHand(d) => InHand(d)' \/ d \in failed'
  PROVE  Own(d, H)'
<1>1. /\ (d \in Listed)' = (d \in Listed) /\ (d \in Mirrored)' = (d \in Mirrored)
      /\ (d \in Active)' = (d \in Active) /\ Target(d)' = Target(d)
  BY DEF Listed, Mirrored, Active, Target
<1>2. Homes(d, H)'  BY <1>1 DEF Own, Homes
<1>3. Texts(d)'  BY DEF Own, Texts
<1>4. Files(d, H)'  BY DEF Own, Files
<1>5. /\ d \in Mirrored => row[d].path \in Mine(H)
      /\ place[d] # Gone => Tree(place[d]) \in Mine(H)
      /\ d \in Listed => Target(d) \in Mine(H)
  BY MinePaths DEF Own, Homes
<1>6. \A x \in Mine(H) : Good(d, x) => Good(d, x)'
  BY DEF Good, Fits, NotOlder
<1>7. Goods(d)'
  BY <1>1, <1>5 DEF Own, Goods, Good, Fits, NotOlder
<1>8. Kept(d, H)'  BY DEF Own, Kept, NotOlder
<1>9. Dated(d)'  BY <1>1, <1>5 DEF Own, Dated
<1>10. Waits(d, H)'
  BY DEF Own, Waits
<1>11. Handled(d)'
  <2>1. CASE InHand(d)'
    <3>1. InHand(d) /\ pc' = pc /\ draft' = draft  BY <2>1
    <3>2. Handled(d)  BY DEF Own
    <3>3. Recent(d, draft.hash)' = Recent(d, draft.hash)  BY <3>1 DEF Recent
    <3>4. d \in Mirrored => disk'[row[d].path] = disk[row[d].path]  BY <1>5
    <3>5. d \in Listed /\ disk'[Target(d)] = disk[Target(d)]
      BY <1>5, <3>1 DEF InHand, TypeInv, Control
    <3>6. QED  BY <1>1, <3>1, <3>2, <3>3, <3>4, <3>5 DEF Handled
  <2>2. QED  BY <2>1 DEF Handled
<1>12. Done(d)'
  BY <1>1, <1>5 DEF Own, Done, Faithful
<1>13. QED
  BY <1>2, <1>3, <1>4, <1>7, <1>8, <1>9, <1>10, <1>11, <1>12 DEF Own

LEMMA Apart ==
  ASSUME NEW H, NEW G, H \cap G = {}
  PROVE  Mine(H) \cap Mine(G) = {}
  BY DEF Mine

LEMMA InitOwn ==
  ASSUME Init, NEW d \in Docs, NEW H \in SUBSET Places
  PROVE  Own(d, H)
<1>1. /\ history[d] = <<>> /\ place[d] = Gone /\ row[d] = NoRow /\ listing[d] = Unlisted
      /\ todo = {} /\ pc = "idle" /\ \A x \in Mine(H) : disk[x] = NoFile
  BY MinePaths DEF Init
<1>2. /\ d \notin Listed /\ d \notin Mirrored /\ row[d].status = "none" /\ ~InHand(d)
      /\ Len(history[d]) = 0
  BY <1>1 DEF Listed, Mirrored, NoRow, InHand
<1>3. Homes(d, H) /\ Texts(d) /\ Files(d, H) /\ Goods(d) /\ Kept(d, H)
  BY <1>1, <1>2 DEF Homes, Texts, Files, Goods, Kept
<1>4. Dated(d) /\ Waits(d, H) /\ Handled(d) /\ Done(d)
  BY <1>1, <1>2 DEF Dated, Waits, Handled, Done
<1>5. QED  BY <1>3, <1>4 DEF Own

LEMMA RestOwn ==
  ASSUME NEW d \in Docs, NEW H \in SUBSET Places, Own(d, H), Rest, UNCHANGED <<remote, local>>
  PROVE  Own(d, H)'
<1>1. /\ UNCHANGED <<history, place, row, disk, stored>> /\ todo' = {} /\ pc' = "idle"
      /\ listing'[d] = Unlisted
  BY DEF Rest, remote, local
<1>2. d \notin Listed' /\ ~InHand(d)' /\ (d \in Mirrored)' = (d \in Mirrored)
  BY <1>1 DEF Listed, InHand, Mirrored
<1>3. Homes(d, H)' /\ Texts(d)' /\ Files(d, H)' /\ Kept(d, H)'
  BY <1>1, <1>2 DEF Own, Homes, Texts, Files, Kept, NotOlder
<1>4. Goods(d)'
  BY <1>1, <1>2 DEF Own, Goods, Good, Fits, NotOlder
<1>5. Dated(d)' /\ Waits(d, H)' /\ Handled(d)' /\ Done(d)'
  BY <1>1, <1>2 DEF Dated, Waits, Handled, Done
<1>6. QED  BY <1>3, <1>4, <1>5 DEF Own

LEMMA QuietOwn ==
  ASSUME TypeInv, NEW d \in Docs, NEW H \in SUBSET Places, Own(d, H),
         \/ FailNode \/ BeginDeletes \/ UNCHANGED vars
         \/ \E e \in Docs : FailBeforeMove(e)
  PROVE  Own(d, H)'
<1>1. /\ UNCHANGED <<history, place, row, disk, stored, listing>>
      /\ todo' \subseteq todo /\ todo \subseteq todo' \cup failed' /\ failed \subseteq failed'
  BY DEF FailNode, BeginDeletes, FailBeforeMove, vars, remote, local, volatile
<1>2. InHand(d)' => InHand(d) /\ pc' = pc /\ draft' = draft
  BY DEF FailNode, BeginDeletes, FailBeforeMove, vars, volatile, InHand
<1>3. InHand(d) => InHand(d)' \/ d \in failed'
  BY DEF FailNode, BeginDeletes, FailBeforeMove, vars, volatile, InHand
<1>4. QED  BY <1>1, <1>2, <1>3, Frame

-----------------------------------------------------------------------------
(* The remote. *)

\* The document gets one of its places: there is nothing there, or it is there itself.
Goes(d, H) ==
  place'[d] \in H /\ (disk[Tree(place'[d])] = NoFile \/ row[d].path = Tree(place'[d]))

\* A place where nothing lies, in the tree or in the trash, may be counted to those
\* of a document.
LEMMA GrownOwn ==
  ASSUME TypeInv, NEW d \in Docs, NEW H \in SUBSET Places, Own(d, H),
         NEW p \in Places, disk[Tree(p)] = NoFile, disk[Trash(p)] = NoFile
  PROVE  Own(d, H \cup {p})
<1>1. /\ Mine(H \cup {p}) = Mine(H) \cup {Tree(p), Trash(p)}
      /\ {"tree"} \X H \subseteq {"tree"} \X (H \cup {p})
      /\ {"trash"} \X H \subseteq {"trash"} \X (H \cup {p})
  BY DEF Mine, Tree, Trash
<1>2. Homes(d, H \cup {p})  BY <1>1 DEF Own, Homes
<1>3. Files(d, H \cup {p}) /\ Kept(d, H \cup {p}) /\ Waits(d, H \cup {p})
  BY <1>1 DEF Own, Files, Kept, Waits
<1>4. QED  BY <1>2, <1>3 DEF Own

\* Revisions are added, and the document may go.
LEMMA ChangedOwn ==
  ASSUME TypeInv, NEW d \in Docs, NEW H \in SUBSET Places, Own(d, H), Texts(d)',
         place'[d] = place[d] \/ place'[d] = Gone \/ Goes(d, H),
         Len(history[d]) \in Nat, Len(history'[d]) \in Nat,
         Len(history[d]) <= Len(history'[d]),
         \A i \in 1..Len(history[d]) : history'[d][i] = history[d][i],
         UNCHANGED <<local, pc, volatile>>
  PROVE  Own(d, H)'
<1>1. UNCHANGED <<row, disk, stored, pc, listing, todo, cur, draft, failed>>
  BY DEF local, volatile
<1>2. /\ (d \in Listed)' = (d \in Listed) /\ (d \in Mirrored)' = (d \in Mirrored)
      /\ Target(d)' = Target(d) /\ InHand(d)' = InHand(d) /\ (d \in Active)' = (d \in Active)
  BY <1>1 DEF Listed, Mirrored, Target, InHand, Active
<1>3. Goes(d, H) =>
        /\ place'[d] \in H
        /\ disk[Tree(place'[d])] = NoFile \/ row[d].path = Tree(place'[d])
  BY DEF Goes
<1>4. ASSUME NEW p \in H, row[d].path = Tree(p) PROVE d \in Mirrored
  <2>1. Tree(p) \in Paths /\ Tree(p) = <<"tree", p>>  BY MinePaths DEF Tree
  <2>2. row[d].status # "none"  BY <1>4, <2>1, AbsenceAssumption DEF Own, Homes, NoRow
  <2>3. row[d].status # "trashed"
    BY <1>4, <2>1 DEF Own, Homes
  <2>4. QED
    BY <2>2, <2>3, Typed DEF Mirrored
<1>5. place'[d] # Gone => Good(d, Tree(place'[d]))
  <2>1. ASSUME Goes(d, H), row[d].path = Tree(place'[d])
        PROVE  Good(d, Tree(place'[d]))
    BY <1>3, <1>4, <2>1 DEF Own, Goods
  <2>2. ASSUME Goes(d, H), row[d].path # Tree(place'[d])
        PROVE  Good(d, Tree(place'[d]))
    BY <1>3, <2>2 DEF Good
  <2>3. QED  BY <2>1, <2>2 DEF Own, Goods
<1>6. \A b, t : NotOlder(d, b, t) => NotOlder(d, b, t)'
  BY DEF NotOlder
<1>7. \A b : d \in Listed /\ Recent(d, b) => Recent(d, b)'
  <2>1. d \in Listed => listing[d].since \in 1..Len(history[d])  BY DEF Own, Dated
  <2>2. QED  BY <1>1, <2>1 DEF Recent
<1>8. Goods(d)'
  BY <1>1, <1>2, <1>5, <1>6 DEF Own, Goods, Good, Fits
<1>9. Homes(d, H)'  BY <1>1, <1>2, <1>3 DEF Own, Homes
<1>10. Files(d, H)' /\ Kept(d, H)'
  BY <1>1, <1>6 DEF Own, Files, Kept
<1>11. Dated(d)'
  BY <1>1, <1>2, <1>3 DEF Own, Dated
<1>12. Waits(d, H)'
  <2>1. d \in todo => d \in Listed  BY DEF TypeInv, Control
  <2>2. d \in todo => history'[d][listing[d].since] = history[d][listing[d].since]
    BY <2>1 DEF Own, Dated
  <2>3. QED  BY <1>1, <1>2, <2>2 DEF Own, Waits
<1>13. Handled(d)'
  <2>1. InHand(d) => d \in Listed  BY DEF InHand, TypeInv, Control
  <2>2. QED  BY <1>1, <1>2, <1>7, <2>1 DEF Own, Handled
<1>14. Done(d)'
  <2>1. ASSUME Faithful(d), d \in Listed PROVE Faithful(d)'
    <3>1. PICK i \in listing[d].since..Len(history[d]) :
            history[d][i].body = disk[Target(d)].body
      BY <2>1 DEF Faithful
    <3>2. listing[d].since \in 1..Len(history[d])  BY <2>1 DEF Own, Dated
    <3>3. i \in listing'[d].since..Len(history'[d]) /\ history'[d][i] = history[d][i]
      BY <1>1, <3>2
    <3>4. QED  BY <1>1, <1>2, <2>1, <3>1, <3>3 DEF Faithful
  <2>2. QED  BY <1>1, <1>2, <2>1 DEF Own, Done
<1>15. QED
  BY <1>8, <1>9, <1>10, <1>11, <1>12, <1>13, <1>14 DEF Own

\* An edit has a new time, and the text it finds or a new one.
LEMMA EditedTexts ==
  ASSUME TypeInv, NEW d \in Docs, NEW H \in SUBSET Places, Own(d, H), Edit(d), ~Repeats(d)
  PROVE  Texts(d)'
<1> DEFINE n == Len(history[d])
<1>1. n \in Nat /\ n > 0 /\ history[d] \in Seq(Revision)
      /\ \A i \in 1..n : history[d][i].body \in Nat /\ history[d][i].edited \in Nat
  BY EditAppends, HistoryTyped DEF TypeInv, TypeOK
<1>2. PICK b, t :
        /\ b \in {Tip(d).body, n + 1} \cup {history[d][i].body : i \in 1..n}
        /\ t \in {Tip(d).edited, Tip(d).edited + 1}
        /\ history' = [history EXCEPT ![d] = Append(history[d], [body |-> b, edited |-> t])]
  BY DEF Edit
<1>3. Tip(d) = history[d][n]  BY DEF Tip
<1>4. history'[d] = Append(history[d], [body |-> b, edited |-> t])
  BY <1>2 DEF TypeInv, TypeOK
<1>5. history'[d] \in Seq(Revision)  BY RemoteTypeInv DEF Remote, TypeInv, TypeOK
<1> DEFINE rev == [body |-> b, edited |-> t]
<1>6. rev.body = b /\ rev.edited = t
  OBVIOUS
<1> HIDE DEF rev
<1>7. /\ Len(history'[d]) = n + 1 /\ history'[d][n + 1] = rev
      /\ \A i \in 1..n : history'[d][i] = history[d][i]
      /\ Tip(d)' = rev
  <2>1. rev \in Revision  BY <1>1, <1>2, <1>3 DEF Revision, rev
  <2>2. /\ Len(history'[d]) = n + 1 /\ history'[d][n + 1] = rev
        /\ \A i \in 1..n : history'[d][i] = history[d][i]
    BY <1>1, <1>4, <2>1, AppendProperties DEF rev
  <2>3. QED  BY <2>2 DEF Tip
<1> HIDE DEF n
<1>8. Texts(d)  BY DEF Own
<1>9. \A i \in 1..n : history[d][i].body <= i /\ history[d][i].body <= history[d][n].body
  BY <1>1, <1>8 DEF Texts, n
<1>10. \A i \in 1..n : history[d][i].edited <= history[d][n].edited
  BY <1>1, <1>8 DEF Texts, n
<1>11. b <= n + 1 /\ \A i \in 1..n : history[d][i].body <= b /\ history[d][i].edited < t
  <2>1. history[d] # <<>> /\ history'[d] # history[d]
    BY <1>1, <1>7 DEF n
  <2>2. t = Tip(d).edited + 1 /\ b \in {Tip(d).body, n + 1}
    BY <1>2, <1>6, <1>7, <2>1 DEF Repeats, n
  <2>3. /\ Tip(d).body \in Nat /\ Tip(d).edited \in Nat /\ Tip(d).body <= n
        /\ \A i \in 1..n : /\ history[d][i].body <= Tip(d).body
                           /\ history[d][i].edited <= Tip(d).edited
    BY <1>1, <1>3, <1>9, <1>10
  <2>4. ASSUME NEW i \in 1..n PROVE history[d][i].edited < t
    BY <1>1, <2>2, <2>3
  <2>5. CASE b = Tip(d).body  BY <1>1, <2>3, <2>4, <2>5
  <2>6. CASE b = n + 1
    <3>1. ASSUME NEW i \in 1..n PROVE history[d][i].body <= b
      BY <1>1, <1>9, <2>6
    <3>2. QED  BY <1>1, <2>4, <2>6, <3>1
  <2>7. QED  BY <2>2, <2>5, <2>6
<1>12. \A i \in 1..Len(history'[d]) : history'[d][i].body <= i
  BY <1>1, <1>6, <1>7, <1>9, <1>11
<1>13. ASSUME NEW i \in 1..Len(history'[d]), NEW j \in 1..Len(history'[d]), i < j
       PROVE  /\ history'[d][i].body <= history'[d][j].body
              /\ history'[d][i].edited < history'[d][j].edited
  <2>1. i \in 1..n /\ history'[d][i] = history[d][i]  BY <1>1, <1>7, <1>13
  <2>2. CASE j = n + 1  BY <1>6, <1>7, <1>11, <2>1, <2>2
  <2>3. CASE j \in 1..n
    <3>1. history'[d][j] = history[d][j]  BY <1>7, <2>3
    <3>2. QED  BY <1>8, <1>13, <2>1, <2>3, <3>1 DEF Texts, n
  <2>4. QED  BY <1>1, <1>7, <2>2, <2>3
<1>14. UNCHANGED <<row, stored>>  BY DEF Edit, local
<1>15. QED  BY <1>8, <1>12, <1>13, <1>14 DEF Texts

LEMMA RemoteOwn ==
  ASSUME TypeInv, NEW d \in Docs, NEW H \in SUBSET Places, Own(d, H), Remote, ~Repeats(d),
         place'[d] = place[d] \/ place'[d] = Gone \/ Goes(d, H)
  PROVE  Own(d, H)'
<1>1. PICK e \in Docs : Share(e) \/ Unshare(e) \/ Rename(e) \/ Edit(e)  BY DEF Remote
<1>2. UNCHANGED <<local, pc, volatile>>
  BY <1>1 DEF Share, Unshare, Rename, Edit
<1>3. /\ Len(history[d]) \in Nat /\ Len(history'[d]) \in Nat
      /\ Len(history[d]) <= Len(history'[d])
      /\ \A i \in 1..Len(history[d]) : history'[d][i] = history[d][i]
  <2>1. history[d] \in Seq(Revision) /\ history'[d] \in Seq(Revision)
    BY RemoteTypeInv DEF TypeInv, TypeOK
  <2>2. QED  BY <2>1, HistoryGrows
<1>5. Texts(d)'
  <2>1. CASE history'[d] = history[d]
    BY <1>2, <2>1 DEF Own, Texts, local
  <2>2. CASE history'[d] = <<[body |-> 1, edited |-> 1]>>
    <3>1. Len(history'[d]) = 1 /\ history'[d][1].body = 1  BY <2>2
    <3>2. QED  BY <1>2, <3>1 DEF Own, Texts, local
  <2>3. CASE Edit(d)  BY <2>3, EditedTexts
  <2>4. ASSUME Share(e)
        PROVE  history'[d] = history[d] \/ history'[d] = <<[body |-> 1, edited |-> 1]>>
    <3>1. history' = history \/ history' = [history EXCEPT ![e] = <<[body |-> 1, edited |-> 1]>>]
      BY <2>4 DEF Share
    <3>2. QED  BY <3>1 DEF TypeInv, TypeOK
  <2>5. ASSUME Edit(e), e # d PROVE history'[d] = history[d]
    BY <2>5, EditAppends DEF TypeInv, TypeOK
  <2>6. Unshare(e) \/ Rename(e) => history'[d] = history[d]  BY DEF Unshare, Rename
  <2>7. QED  BY <1>1, <2>1, <2>2, <2>3, <2>4, <2>5, <2>6
<1>6. QED  BY <1>2, <1>3, <1>5, ChangedOwn

-----------------------------------------------------------------------------
(* The round begins. *)

\* The last revision is the newest, and no row and no file is ahead of it.
LEMMA TipFacts ==
  ASSUME TypeInv, Times, NEW d \in Docs, NEW H \in SUBSET Places, Own(d, H), Len(history[d]) > 0
  PROVE  /\ Len(history[d]) \in 1..Len(history[d]) /\ Tip(d) = history[d][Len(history[d])]
         /\ Tip(d).body \in Nat /\ Tip(d).edited \in Nat
         /\ \A i \in 1..Len(history[d]) : /\ history[d][i].body <= Tip(d).body
                                          /\ history[d][i].edited <= Tip(d).edited
         /\ row[d].hash <= Tip(d).body /\ row[d].edited <= Tip(d).edited
         /\ \A x \in Mine(H) : disk[x] # NoFile => disk[x].body <= Tip(d).body
<1> DEFINE n == Len(history[d])
<1>1. n \in 1..n /\ \A i \in 1..n : history[d][i].body \in Nat /\ history[d][i].edited \in Nat
  BY HistoryTyped DEF TypeInv
<1>2. Tip(d) = history[d][n]  BY DEF Tip
<1> HIDE DEF n
<1>3. \A i \in 1..n : history[d][i].body <= Tip(d).body /\ history[d][i].edited <= Tip(d).edited
  BY <1>1, <1>2 DEF Own, Texts, n
<1>4. row[d].hash <= Tip(d).body /\ row[d].edited <= Tip(d).edited
  <2>1. CASE row[d].status = "none"
    <3>1. row[d].hash = 0 /\ row[d].edited = 0  BY <2>1 DEF Own, Homes, NoRow
    <3>2. QED  BY <1>1, <1>2, <3>1
  <2>2. CASE row[d].status # "none"
    <3>1. PICK i \in 1..n : history[d][i].body = row[d].hash /\ history[d][i].edited >= row[d].edited
      BY <2>2 DEF Times, RowNotAhead, NotOlder, n
    <3>2. QED  BY <1>1, <1>2, <1>3, <3>1, Typed
  <2>3. QED  BY <2>1, <2>2
<1>5. \A x \in Mine(H) : disk[x] # NoFile => disk[x].body <= Tip(d).body
  BY <1>3 DEF Own, Files, n
<1>6. QED  BY <1>1, <1>2, <1>3, <1>4, <1>5 DEF n

LEMMA StartRoundOwn ==
  ASSUME TypeInv, Times, NEW d \in Docs, NEW H \in SUBSET Places, Own(d, H), StartRound
  PROVE  Own(d, H)'
<1>1. PICK S \in SUBSET Shared :
        /\ listing' = [e \in Docs |->
             IF e \in S THEN [path |-> Tree(place[e]), edited |-> Tip(e).edited,
                              since |-> Len(history[e])]
             ELSE Unlisted]
        /\ todo' = S
  BY DEF StartRound
<1>2. UNCHANGED <<history, place, row, disk, stored, failed>> /\ pc' = "walk"
  BY DEF StartRound, remote, local
<1>3. ~InHand(d)' /\ (d \in Mirrored)' = (d \in Mirrored)
  BY <1>2 DEF InHand, Mirrored
<1>4. Texts(d)' /\ Files(d, H)' /\ Kept(d, H)' /\ Handled(d)'
  BY <1>2, <1>3 DEF Own, Texts, Files, Kept, NotOlder, Handled
<1>5. CASE d \notin S
  <2>1. d \notin Listed'  BY <1>1, <1>5 DEF Listed
  <2>2. Homes(d, H)' /\ Goods(d)' /\ Dated(d)' /\ Waits(d, H)' /\ Done(d)'
    BY <1>1, <1>2, <1>3, <1>5, <2>1 DEF Own, Homes, Goods, Good, Fits, NotOlder, Dated, Waits, Done
  <2>3. QED  BY <1>4, <2>2 DEF Own
<1>6. CASE d \in S
  <2>1. /\ listing'[d].path = Tree(place[d]) /\ listing'[d].edited = Tip(d).edited
        /\ listing'[d].since = Len(history[d])
    BY <1>1, <1>6
  <2>2. Target(d)' = Tree(place[d]) /\ place[d] # Gone /\ Len(history[d]) > 0
    BY <1>6, <2>1 DEF Target, Shared, TypeInv, Control
  <2>3. Homes(d, H)'
    BY <1>2, <1>3, <2>2, MinePaths DEF Own, Homes, Tree
  <2>4. Goods(d)'
    BY <1>2, <1>3, <2>2 DEF Own, Goods, Good, Fits, NotOlder
  <2>5. Dated(d)'
    BY <1>2, <2>1, <2>2, TipFacts DEF Dated
  <2>6. Waits(d, H)'
    BY <1>2, <1>3, <2>1, <2>2, TipFacts DEF Waits
  <2>7. Done(d)'  BY <1>1, <1>6 DEF Done
  <2>8. QED  BY <1>4, <2>3, <2>4, <2>5, <2>6, <2>7 DEF Own
<1>7. QED  BY <1>5, <1>6

-----------------------------------------------------------------------------
(* A visit moves the body. *)

\* Relocation moves a file between places of the document.
LEMMA RelocatedElsewhere ==
  ASSUME TypeInv, NEW d \in Docs, NEW H \in SUBSET Places, Homes(d, H), d \in Listed
  PROVE  \A y \in Paths \ Mine(H) : Relocated(d)[y] = disk[y]
<1>1. Target(d) \in Mine(H) /\ (Moved(d) => row[d].path \in Mine(H))
  BY MinePaths DEF Homes, Moved, Mirrored
<1>2. QED  BY <1>1 DEF Relocated, TypeInv, TypeOK

\* What relocation makes of a document's files.
LEMMA RelocatedFacts ==
  ASSUME TypeInv, NEW d \in Docs, NEW H \in SUBSET Places, Own(d, H), d \in Listed
  PROVE  /\ \A y \in Mine(H) \ {Target(d)} : Relocated(d)[y] \in {disk[y], NoFile}
         /\ \A y \in Mine(H) : Relocated(d)[y] # NoFile =>
              \E z \in Mine(H) : disk[z] = Relocated(d)[y]
         /\ Moved(d) => row[d].path \in Mine(H) /\ Relocated(d)[row[d].path] = NoFile
         /\ Relocated(d)[Target(d)] # NoFile => Fits(d, Relocated(d)[Target(d)])
         /\ \A z \in Mine(H) : disk[z] # NoFile =>
              \/ Relocated(d)[z] = disk[z]
              \/ Relocated(d)[Target(d)] # NoFile
<1> DEFINE a == row[d].path
           x == Target(d)
<1>1. x \in Mine(H) /\ x \in Paths /\ (Moved(d) => a \in Mine(H) /\ a \in Paths /\ a # x)
  BY MinePaths DEF Own, Homes, Moved, Mirrored
<1>2. DOMAIN disk = Paths  BY DEF TypeInv, TypeOK
<1>3. Good(d, x) /\ (Moved(d) => Good(d, a))
  BY DEF Own, Goods, Moved, Mirrored
<1>4. CASE Moved(d) /\ disk[a] # NoFile
  <2>1. Relocated(d) = [disk EXCEPT ![x] = disk[a], ![a] = NoFile]
    BY <1>4 DEF Relocated
  <2>2. /\ Relocated(d)[x] = disk[a] /\ Relocated(d)[a] = NoFile
        /\ \A y \in Paths \ {a, x} : Relocated(d)[y] = disk[y]
    BY <1>1, <1>2, <1>4, <2>1
  <2> HIDE DEF a, x
  <2>3. QED  BY <1>1, <1>3, <1>4, <2>2, MinePaths DEF Good, a, x
<1>5. CASE ~(Moved(d) /\ disk[a] # NoFile)
  <2>1. Relocated(d) = disk  BY <1>5 DEF Relocated
  <2>2. QED  BY <1>1, <1>3, <1>5, <2>1 DEF Good
<1>6. QED  BY <1>4, <1>5

\* The pre-fetch skip leaves the text the row's hash stands for, which is that of
\* the inventory.
LEMMA UnchangedFacts ==
  ASSUME TypeInv, Times, NEW d \in Docs, NEW H \in SUBSET Places, Own(d, H),
         d \in todo, Unchanged(d)
  PROVE  LET file == Relocated(d)[Target(d)]
         IN  /\ file # NoFile /\ file.doc = d /\ file.body = row[d].hash /\ file.whole
             /\ row[d].hash = history[d][listing[d].since].body
<1> DEFINE file == Relocated(d)[Target(d)]
           s == listing[d].since
<1>1. d \in Listed  BY DEF TypeInv, Control
<1>2. file # NoFile /\ row[d].status = "active" /\ row[d].edited = listing[d].edited
  BY DEF Unchanged
<1>3. Target(d) \in Mine(H)  BY <1>1, MinePaths DEF Own, Homes
<1>4. PICK z \in Mine(H) : disk[z] = file  BY <1>1, <1>2, <1>3, RelocatedFacts
<1>5. Fits(d, file)  BY <1>1, <1>2, RelocatedFacts
<1>6. s \in 1..Len(history[d]) /\ history[d][s].edited = listing[d].edited
  BY <1>1 DEF Own, Dated
<1>7. /\ file.doc = d /\ file.body \in Nat /\ file.body <= history[d][s].body
      /\ file.body >= row[d].hash
  BY <1>2, <1>4, <1>5, FileTyped DEF Own, Files, Waits, Fits
<1> HIDE DEF file, s
<1>8. PICK i \in 1..Len(history[d]) :
        history[d][i].body = row[d].hash /\ history[d][i].edited >= row[d].edited
  BY <1>2 DEF Times, RowNotAhead, NotOlder
<1>9. /\ Len(history[d]) \in Nat /\ \A k \in 1..Len(history[d]) :
           history[d][k].body \in Nat /\ history[d][k].edited \in Nat
  BY HistoryTyped DEF TypeInv
<1>10. ~(i < s)
  <2>1. i < s => history[d][i].edited < history[d][s].edited  BY <1>6 DEF Own, Texts
  <2>2. QED  BY <1>2, <1>6, <1>8, <1>9, <2>1
<1>11. history[d][s].body <= history[d][i].body
  <2>1. CASE s = i  BY <1>9, <2>1
  <2>2. CASE s < i  BY <1>6, <2>2 DEF Own, Texts
  <2>3. QED  BY <1>6, <1>9, <1>10, <2>1, <2>2
<1>12. file.body = row[d].hash /\ row[d].hash = history[d][s].body
  BY <1>6, <1>7, <1>8, <1>9, <1>11
<1>13. file.whole  BY <1>2, <1>5, <1>12 DEF Fits
<1>14. QED  BY <1>2, <1>7, <1>12, <1>13 DEF file, s

LEMMA VisitOther ==
  ASSUME TypeInv, NEW d \in Docs, NEW H \in SUBSET Places, Own(d, H),
         NEW e \in Docs, NEW G \in SUBSET Places, Homes(e, G),
         Mine(H) \cap Mine(G) = {}, e # d, Visit(e)
  PROVE  Own(d, H)'
<1>1. e \in Listed  BY DEF Visit, TypeInv, Control
<1>2. \A x \in Mine(H) : disk'[x] = disk[x]
  <2>1. Mine(H) \subseteq Paths \ Mine(G)  BY MinePaths
  <2>2. disk' = Relocated(e)  BY DEF Visit
  <2>3. QED  BY <1>1, <2>1, <2>2, RelocatedElsewhere
<1>3. /\ UNCHANGED <<row, place, history, stored, listing, failed>>
      /\ pc = "walk" /\ todo' = todo \ {e}
  BY DEF Visit, remote
<1>4. InHand(d)' => FALSE
  BY <1>3 DEF Visit, InHand
<1>5. ~InHand(d)  BY <1>3 DEF InHand
<1>6. QED  BY <1>2, <1>3, <1>4, <1>5, Frame

LEMMA VisitOwn ==
  ASSUME TypeInv, Times, NEW d \in Docs, NEW H \in SUBSET Places, Own(d, H), Visit(d)
  PROVE  Own(d, H)'
<1> DEFINE x == Target(d)
           s == listing[d].since
<1>1. /\ UNCHANGED <<history, place, row, stored, listing, failed>> /\ pc = "walk"
      /\ d \in todo /\ todo' = todo \ {d} /\ disk' = Relocated(d) /\ d \in Listed
  BY DEF Visit, remote, TypeInv, Control
<1>2. /\ (d \in Listed)' /\ (d \in Mirrored)' = (d \in Mirrored) /\ Target(d)' = x
      /\ (d \in Active)' = (d \in Active) /\ d \notin todo'
  BY <1>1 DEF Listed, Mirrored, Target, Active
<1>3. /\ \A y \in Mine(H) \ {x} : disk'[y] \in {disk[y], NoFile}
      /\ \A y \in Mine(H) : disk'[y] # NoFile => \E z \in Mine(H) : disk[z] = disk'[y]
      /\ Moved(d) => row[d].path \in Mine(H) /\ disk'[row[d].path] = NoFile
      /\ disk'[x] # NoFile => Fits(d, disk'[x])
      /\ \A z \in Mine(H) : disk[z] # NoFile => disk'[z] = disk[z] \/ disk'[x] # NoFile
  BY <1>1, RelocatedFacts
<1>4. /\ x \in Mine(H)
      /\ d \in Mirrored => row[d].path \in Mine(H)
      /\ place[d] # Gone => Tree(place[d]) \in Mine(H)
  BY <1>1, MinePaths DEF Own, Homes
<1>5. Homes(d, H)' /\ Texts(d)'
  BY <1>1, <1>2 DEF Own, Homes, Texts
<1>6. Files(d, H)'
  BY <1>1, <1>3 DEF Own, Files
<1>8. \A y \in Mine(H) :
        Good(d, y) => (disk'[y] # NoFile => Fits(d, disk'[y]))
  BY <1>3 DEF Good
<1>9. Goods(d)'
  <2>1. d \in Mirrored => (disk'[row[d].path] # NoFile => Fits(d, disk'[row[d].path]))
    BY <1>4, <1>8 DEF Own, Goods
  <2>2. place[d] # Gone =>
          (disk'[Tree(place[d])] # NoFile => Fits(d, disk'[Tree(place[d])]))
    BY <1>4, <1>8 DEF Own, Goods
  <2>3. QED
    BY <1>1, <1>2, <1>3, <2>1, <2>2 DEF Goods, Good, Fits, NotOlder
<1>10. Kept(d, H)'
  <2>1. SUFFICES ASSUME row[d].status # "none"
                 PROVE  \E y \in Mine(H) : disk'[y] # NoFile
                                           /\ NotOlder(d, disk'[y].body, row[d].edited)
    BY <1>1 DEF Kept, NotOlder
  <2>2. PICK z \in Mine(H) : disk[z] # NoFile /\ NotOlder(d, disk[z].body, row[d].edited)
    BY <2>1 DEF Own, Kept
  <2>3. QED  BY <1>3, <1>4, <2>2 DEF Fits
<1>11. Dated(d)'
  BY <1>1, <1>2, <1>3, <1>4 DEF Own, Dated
<1>12. Waits(d, H)'  BY <1>2 DEF Waits
<1>13. Unchanged(d) =>
         /\ disk'[x] # NoFile /\ disk'[x].doc = d /\ disk'[x].body = row[d].hash
         /\ disk'[x].whole /\ row[d].hash = history[d][s].body
         /\ row[d].status = "active"
  BY <1>1, UnchangedFacts DEF Unchanged
<1>14. s \in 1..Len(history[d]) /\ Len(history[d]) \in Nat
  BY <1>1, HistoryTyped DEF Own, Dated, TypeInv
<1>15. s \in s..Len(history[d])  BY <1>14
<1>16. d \in Mirrored /\ row[d].path # x <=> Moved(d)
  BY DEF Mirrored, Moved
<1>17. CASE Unchanged(d) /\ ~Moved(d)
  <2>1. pc' = "walk" /\ ~InHand(d)'  BY <1>1, <1>17 DEF Visit, InHand
  <2>2. Handled(d)'  BY <2>1 DEF Handled
  <2>3. d \in Mirrored /\ row[d].path = x
    BY <1>13, <1>16, <1>17 DEF Mirrored
  <2>4. Faithful(d)'
    BY <1>1, <1>2, <1>13, <1>15, <1>17, <2>3 DEF Faithful
  <2>5. Done(d)'  BY <2>4 DEF Done
  <2>6. QED  BY <1>5, <1>6, <1>9, <1>10, <1>11, <1>12, <2>2, <2>5 DEF Own
<1>18. CASE Unchanged(d) /\ Moved(d)
  <2>1. pc' = "save" /\ cur' = d /\ draft' = [hash |-> row[d].hash, status |-> "active"]
    BY <1>1, <1>18 DEF Visit
  <2>2. InHand(d)'  BY <2>1 DEF InHand
  <2>3. draft'.hash = row[d].hash /\ draft'.status = "active"  BY <2>1
  <2>4. Recent(d, draft.hash)'
    BY <1>1, <1>13, <1>15, <1>18, <2>3 DEF Recent
  <2>5. row[d].hash \in stored[d] /\ row[d].hash \in Nat
    BY <1>13, <1>18, Typed DEF Own, Texts
  <2>6. Handled(d)'
    BY <1>1, <1>2, <1>3, <1>13, <1>16, <1>18, <2>1, <2>3, <2>4, <2>5 DEF Handled
  <2>7. Done(d)'  BY <2>2 DEF Done
  <2>8. QED  BY <1>5, <1>6, <1>9, <1>10, <1>11, <1>12, <2>6, <2>7 DEF Own
<1>19. CASE ~Unchanged(d)
  <2>1. pc' = "fetch" /\ cur' = d  BY <1>1, <1>19 DEF Visit
  <2>2. InHand(d)'  BY <2>1 DEF InHand
  <2>3. Handled(d)'
    BY <1>1, <1>2, <1>3, <1>16, <2>1 DEF Handled
  <2>4. Done(d)'  BY <2>2 DEF Done
  <2>5. QED  BY <1>5, <1>6, <1>9, <1>10, <1>11, <1>12, <2>3, <2>4 DEF Own
<1>20. QED  BY <1>17, <1>18, <1>19

-----------------------------------------------------------------------------
(* The document in hand. *)

\* After a fetch everything but draft and stored is as it was.
LEMMA FetchOther ==
  ASSUME TypeInv, NEW d \in Docs, NEW H \in SUBSET Places, Own(d, H), Fetch, cur # d
  PROVE  Own(d, H)'
<1>1. /\ UNCHANGED <<row, place, history, disk, listing, todo, failed, cur>>
      /\ stored[d] \subseteq stored'[d]
  BY DEF Fetch, remote, TypeInv, TypeOK
<1>2. ~InHand(d) /\ ~InHand(d)'  BY <1>1 DEF InHand
<1>3. QED  BY <1>1, <1>2, Frame

\* The content-hash skip leaves the text that was fetched.
LEMMA SameContentFacts ==
  ASSUME TypeInv, Times, NEW d \in Docs, NEW H \in SUBSET Places, Own(d, H),
         d \in Listed, SameContent(d, Tip(d).body)
  PROVE  LET file == disk[Target(d)]
         IN  /\ file # NoFile /\ file.doc = d /\ file.body = row[d].hash /\ file.whole
             /\ row[d].hash = Tip(d).body
<1> DEFINE file == disk[Target(d)]
<1>1. /\ file # NoFile /\ row[d].hash = Tip(d).body /\ row[d].status \in {"active", "trashed"}
  BY Typed DEF SameContent
<1>2. Target(d) \in Mine(H)  BY MinePaths DEF Own, Homes
<1>3. Len(history[d]) > 0  BY DEF Times, ListingNotAhead
<1>4. file.doc = d /\ file.body \in Nat /\ file.body <= Tip(d).body /\ Tip(d).body \in Nat
  BY <1>1, <1>2, <1>3, FileTyped, TipFacts DEF Own, Files
<1>5. Fits(d, file)  BY <1>1 DEF Own, Goods, Good
<1> HIDE DEF file
<1>6. file.body = row[d].hash  BY <1>1, <1>4, <1>5 DEF Fits
<1>7. QED  BY <1>1, <1>4, <1>5, <1>6 DEF Fits, file

LEMMA FetchOwn ==
  ASSUME TypeInv, Times, NEW d \in Docs, NEW H \in SUBSET Places, Own(d, H), Fetch, cur = d
  PROVE  Own(d, H)'
<1> DEFINE body == Tip(d).body
<1>1. /\ UNCHANGED <<row, place, history, disk, listing, todo, failed, cur>>
      /\ pc = "fetch" /\ pc' \in {"write", "save"} /\ d \in Listed
      /\ stored[d] \subseteq stored'[d]
      /\ draft'.hash = body /\ draft'.status # "none"
      /\ draft'.status = "active" => body \in stored'[d]
      /\ body \in stored[d] => draft'.status = "active"
      /\ pc' = "save" => draft'.status = "active" /\ SameContent(d, body)
  BY DEF Fetch, remote, TypeInv, TypeOK, Control
<1>2. /\ (d \in Listed)' = (d \in Listed) /\ (d \in Mirrored)' = (d \in Mirrored)
      /\ (d \in Active)' = (d \in Active) /\ Target(d)' = Target(d)
      /\ InHand(d) /\ InHand(d)'
  BY <1>1 DEF Listed, Mirrored, Active, Target, InHand
<1>3. Homes(d, H)' /\ Texts(d)' /\ Files(d, H)' /\ Kept(d, H)' /\ Dated(d)'
  BY <1>1, <1>2 DEF Own, Homes, Texts, Files, Kept, NotOlder, Dated
<1>4. Goods(d)'  BY <1>1, <1>2 DEF Own, Goods, Good, Fits, NotOlder
<1>5. Waits(d, H)' /\ Done(d)'  BY <1>1, <1>2 DEF Own, Waits, Done
<1>6. Len(history[d]) > 0  BY <1>1 DEF Times, ListingNotAhead
<1>7. Recent(d, body)
  <2>1. listing[d].since \in 1..Len(history[d]) /\ Len(history[d]) \in Nat
    BY <1>1, HistoryTyped DEF Own, Dated, TypeInv
  <2>2. Len(history[d]) \in listing[d].since..Len(history[d])  BY <2>1
  <2>3. QED  BY <2>2 DEF Recent, Tip
<1>8. body >= row[d].hash  BY <1>6, TipFacts
<1>9. pc' = "save" => disk[Target(d)] # NoFile /\ disk[Target(d)].body = body
                      /\ disk[Target(d)].whole
  BY <1>1, SameContentFacts
<1> HIDE DEF body
<1>10. Recent(d, draft.hash)'  BY <1>1, <1>7 DEF Recent
<1>11. row[d].status \in {"active", "trashed"} /\ row[d].hash = body => draft'.status = "active"
  BY <1>1 DEF Own, Texts
<1>12. d \in Mirrored /\ row[d].path # Target(d) => disk[row[d].path] = NoFile
  BY <1>2 DEF Own, Handled
<1>13. Handled(d)'
  BY <1>1, <1>2, <1>8, <1>9, <1>10, <1>11, <1>12 DEF Handled
<1>14. QED  BY <1>3, <1>4, <1>5, <1>13 DEF Own

LEMMA WriteOther ==
  ASSUME TypeInv, NEW d \in Docs, NEW H \in SUBSET Places, Own(d, H),
         NEW e \in Docs, NEW G \in SUBSET Places, Homes(e, G),
         Mine(H) \cap Mine(G) = {}, Write, cur = e, e # d
  PROVE  Own(d, H)'
<1>1. /\ UNCHANGED <<row, place, history, stored, listing, todo, failed, cur>>
      /\ e \in Listed
  BY DEF Write, remote, volatile, TypeInv, Control
<1>2. Target(e) \in Mine(G)  BY <1>1, MinePaths DEF Homes
<1>3. \A x \in Mine(H) : disk'[x] = disk[x]
  BY <1>2, MinePaths DEF Write, TypeInv, TypeOK
<1>4. ~InHand(d) /\ ~InHand(d)'  BY <1>1 DEF InHand
<1>5. QED  BY <1>1, <1>3, <1>4, Frame

LEMMA WriteOwn ==
  ASSUME TypeInv, Times, NEW d \in Docs, NEW H \in SUBSET Places, Own(d, H), Write, cur = d
  PROVE  Own(d, H)'
<1> DEFINE x == Target(d)
           f == [doc |-> d, body |-> draft.hash, whole |-> draft.status = "active"]
<1>1. /\ UNCHANGED <<row, place, history, stored, listing, todo, failed, cur, draft>>
      /\ pc = "write" /\ pc' = "save" /\ d \in Listed
      /\ disk' = [disk EXCEPT ![x] = f]
  BY DEF Write, remote, volatile, TypeInv, Control
<1>2. /\ (d \in Listed)' = (d \in Listed) /\ (d \in Mirrored)' = (d \in Mirrored)
      /\ Target(d)' = x /\ InHand(d) /\ InHand(d)'
  BY <1>1 DEF Listed, Mirrored, Target, InHand
<1>3. /\ x \in Mine(H) /\ x \in Paths
      /\ d \in Mirrored => row[d].path \in Mine(H)
      /\ place[d] # Gone => Tree(place[d]) \in Mine(H)
  BY <1>1, MinePaths DEF Own, Homes
<1>4. disk'[x] = f /\ \A y \in Mine(H) \ {x} : disk'[y] = disk[y]
  BY <1>1, <1>3, MinePaths DEF TypeInv, TypeOK
<1>5. f # NoFile /\ f.doc = d /\ f.body = draft.hash /\ f.whole = (draft.status = "active")
  <2>1. f \in File  BY DEF File, TypeInv, TypeOK
  <2>2. QED  BY <2>1, AbsenceAssumption
<1> HIDE DEF x, f
<1>6. /\ d \in Mirrored /\ row[d].path # x => disk[row[d].path] = NoFile
      /\ draft.status # "none" /\ draft.hash >= row[d].hash /\ Recent(d, draft.hash)
      /\ draft.status = "active" => draft.hash \in stored[d]
      /\ row[d].status \in {"active", "trashed"} /\ row[d].hash = draft.hash =>
           draft.status = "active"
  BY <1>1, <1>2 DEF Own, Handled, x
<1>7. NotOlder(d, draft.hash, row[d].edited)
  <2>1. PICK i \in 1..Len(history[d]) :
          history[d][i].body = draft.hash /\ history[d][i].edited >= listing[d].edited
    BY <1>1 DEF Times, DraftNotAhead, NotOlder
  <2>2. row[d].edited <= listing[d].edited  BY <1>1 DEF Own, Dated
  <2>3. listing[d].edited \in Nat /\ row[d].edited \in Nat /\ history[d][i].edited \in Nat
    BY <1>1, Typed, ListedEntry, HistoryTyped DEF TypeInv
  <2>4. QED  BY <2>1, <2>2, <2>3 DEF NotOlder
<1>8. Fits(d, f)  BY <1>5, <1>6, <1>7 DEF Fits
<1>9. \A y \in Mine(H) : Good(d, y) => (disk'[y] # NoFile => Fits(d, disk'[y]))
  BY <1>4, <1>8 DEF Good
<1>10. Goods(d)'
  <2>1. d \in Mirrored => (disk'[row[d].path] # NoFile => Fits(d, disk'[row[d].path]))
    BY <1>3, <1>9 DEF Own, Goods
  <2>2. place[d] # Gone =>
          (disk'[Tree(place[d])] # NoFile => Fits(d, disk'[Tree(place[d])]))
    BY <1>3, <1>9 DEF Own, Goods
  <2>3. QED
    BY <1>1, <1>2, <1>4, <1>8, <2>1, <2>2 DEF Goods, Good, Fits, NotOlder
<1>11. Homes(d, H)' /\ Texts(d)'
  BY <1>1, <1>2 DEF Own, Homes, Texts, x
<1>12. Files(d, H)'
  <2>1. \E i \in 1..Len(history[d]) : history[d][i].body = draft.hash
    BY <1>7 DEF NotOlder
  <2>2. QED  BY <1>1, <1>4, <1>5, <2>1 DEF Own, Files
<1>13. Kept(d, H)'
  BY <1>1, <1>3, <1>4, <1>5, <1>7 DEF Kept, NotOlder
<1>14. Dated(d)'
  BY <1>1, <1>2, <1>3, <1>4 DEF Own, Dated, x
<1>15. Waits(d, H)' /\ Done(d)'  BY <1>1, <1>2 DEF Own, Waits, Done
<1>16. Handled(d)'
  <2>1. Recent(d, draft.hash)'  BY <1>1, <1>6 DEF Recent
  <2>2. d \in Mirrored /\ row[d].path # x => disk'[row[d].path] = NoFile
    BY <1>3, <1>4, <1>6
  <2>3. QED  BY <1>1, <1>2, <1>4, <1>5, <1>6, <2>1, <2>2 DEF Handled
<1>17. QED
  BY <1>10, <1>11, <1>12, <1>13, <1>14, <1>15, <1>16 DEF Own

\* A file lies where the document has gone since only if the row says so.
LEMMA NothingAhead ==
  ASSUME TypeInv, NEW d \in Docs, NEW H \in SUBSET Places, Own(d, H), InHand(d),
         place[d] # Gone, Tree(place[d]) # Target(d)
  PROVE  disk[Tree(place[d])] = NoFile
<1>1. d \in Listed  BY DEF InHand, TypeInv, Control
<1>2. SUFFICES ASSUME disk[Tree(place[d])] # NoFile PROVE FALSE
  OBVIOUS
<1>3. row[d].path = Tree(place[d])  BY <1>1, <1>2 DEF Own, Dated
<1>4. Tree(place[d]) \in Paths /\ Tree(place[d]) = <<"tree", place[d]>>
  BY MinePaths DEF Own, Homes, Tree
<1>5. row[d].status # "none"  BY <1>3, <1>4, AbsenceAssumption DEF Own, Homes, NoRow
<1>6. row[d].status # "trashed"  BY <1>3, <1>4 DEF Own, Homes
<1>7. d \in Mirrored  BY <1>5, <1>6, Typed DEF Mirrored
<1>8. QED  BY <1>2, <1>3, <1>7 DEF Own, Handled

LEMMA SaveOther ==
  ASSUME TypeInv, NEW d \in Docs, NEW H \in SUBSET Places, Own(d, H), Save, cur # d
  PROVE  Own(d, H)'
<1>1. /\ UNCHANGED <<place, history, disk, stored, listing, todo, failed>>
      /\ row'[d] = row[d] /\ pc' = "walk"
  BY DEF Save, remote, TypeInv, TypeOK
<1>2. ~InHand(d) /\ ~InHand(d)'  BY <1>1 DEF InHand
<1>3. QED  BY <1>1, <1>2, Frame

LEMMA SaveOwn ==
  ASSUME TypeInv, Times, NEW d \in Docs, NEW H \in SUBSET Places, Own(d, H), Save, cur = d
  PROVE  Own(d, H)'
<1> DEFINE x == Target(d)
           r == [status |-> draft.status, path |-> x,
                 edited |-> listing[d].edited, hash |-> draft.hash]
<1>1. /\ UNCHANGED <<place, history, disk, stored, listing, todo, failed>>
      /\ pc = "save" /\ pc' = "walk" /\ d \in Listed
      /\ row'[d] = r
  BY DEF Save, remote, TypeInv, TypeOK, Control
<1>2. /\ (d \in Listed)' /\ Target(d)' = x /\ InHand(d) /\ ~InHand(d)'
  BY <1>1 DEF Listed, Target, InHand
<1>3. /\ r.status = draft.status /\ r.path = x /\ r.edited = listing[d].edited
      /\ r.hash = draft.hash
  OBVIOUS
<1>4. x \in Mine(H) /\ x \in {"tree"} \X H
  BY <1>1, MinePaths DEF Own, Homes
<1> HIDE DEF x, r
<1>5. /\ draft.status \in {"active", "pending_assets"} /\ Recent(d, draft.hash)
      /\ draft.status = "active" => draft.hash \in stored[d]
      /\ disk[x] # NoFile /\ disk[x].body = draft.hash
      /\ draft.status = "active" => disk[x].whole
  BY <1>1, <1>2 DEF Own, Handled, x, TypeInv, TypeOK
<1>6. NotOlder(d, draft.hash, listing[d].edited)
  BY <1>1 DEF Times, DraftNotAhead
<1>7. /\ (d \in Mirrored)' /\ (d \in Active)' = (draft.status = "active")
  BY <1>1, <1>3, <1>5 DEF Mirrored, Active
<1>8. Homes(d, H)' /\ Texts(d)' /\ Files(d, H)'
  <2>1. row'[d].status \in {"active", "pending_assets"}  BY <1>1, <1>3, <1>5
  <2>2. Homes(d, H)'  BY <1>1, <1>2, <1>3, <1>4, <2>1 DEF Own, Homes
  <2>3. Texts(d)'  BY <1>1, <1>3, <1>5, <2>1 DEF Own, Texts
  <2>4. QED  BY <1>1, <2>2, <2>3 DEF Own, Files
<1>9. draft.hash \in Nat /\ listing[d].edited \in Nat
  BY <1>1, ListedEntry DEF TypeInv, TypeOK
<1>10. Goods(d)'
  <2>1. place[d] # Gone /\ Tree(place[d]) # x => disk[Tree(place[d])] = NoFile
    BY <1>2, NothingAhead DEF x
  <2>2. QED
    BY <1>1, <1>2, <1>3, <1>5, <1>6, <1>9, <2>1 DEF Goods, Good, Fits, NotOlder
<1>11. Kept(d, H)'
  BY <1>1, <1>3, <1>4, <1>5, <1>6 DEF Kept, NotOlder
<1>12. Dated(d)'
  <2>1. place[d] # Gone /\ Tree(place[d]) # x => disk[Tree(place[d])] = NoFile
    BY <1>2, NothingAhead DEF x
  <2>2. QED  BY <1>1, <1>2, <1>3, <1>9, <2>1 DEF Own, Dated
<1>13. Waits(d, H)' /\ Handled(d)'
  BY <1>1, <1>2 DEF Own, Waits, Handled
<1>14. Done(d)'
  <2>1. disk[x].doc = d  BY <1>4, <1>5 DEF Own, Files
  <2>2. Faithful(d)'
    BY <1>1, <1>2, <1>3, <1>5, <1>7, <2>1 DEF Faithful, Recent
  <2>3. QED  BY <2>2 DEF Done
<1>15. QED
  BY <1>8, <1>10, <1>11, <1>12, <1>13, <1>14 DEF Own

-----------------------------------------------------------------------------
(* Delete detection. *)

\* Where the body of a document with a row in the tree goes.
LEMMA TrashOwn ==
  ASSUME NEW d \in Docs, NEW H \in SUBSET Places, Homes(d, H), d \in Mirrored
  PROVE  /\ row[d].path \in Mine(H) /\ TrashPath(d) \in Mine(H) /\ row[d].path # TrashPath(d)
         /\ TrashPath(d) \in {"trash"} \X H /\ row[d].path \in {"tree"} \X H
<1>1. row[d].path \in {"tree"} \X H  BY DEF Homes
<1>2. PICK p \in H : row[d].path = <<"tree", p>>  BY <1>1
<1>3. TrashPath(d) = <<"trash", p>>  BY <1>2 DEF TrashPath, Trash
<1>4. QED  BY <1>2, <1>3, MinePaths

LEMMA MoveToTrashOther ==
  ASSUME TypeInv, NEW d \in Docs, NEW H \in SUBSET Places, Own(d, H),
         NEW e \in Docs, NEW G \in SUBSET Places, Homes(e, G), Mine(H) \cap Mine(G) = {},
         MoveToTrash(e)
  PROVE  Own(d, H)'
<1>1. /\ UNCHANGED <<row, place, history, stored, listing, todo, failed>>
      /\ pc = "reap" /\ pc' = "tombstone" /\ e \in Mirrored
  BY DEF MoveToTrash, remote, TypeInv, Control, Active, Mirrored
<1>2. ~InHand(d) /\ ~InHand(d)'  BY <1>1 DEF InHand
<1>3. row[e].path \in Mine(G) /\ TrashPath(e) \in Mine(G)  BY <1>1, TrashOwn
<1>4. \A y \in Mine(H) : disk'[y] = disk[y]
  BY <1>3, MinePaths DEF MoveToTrash, TypeInv, TypeOK
<1>5. QED  BY <1>1, <1>2, <1>4, Frame

LEMMA MoveToTrashOwn ==
  ASSUME TypeInv, NEW d \in Docs, NEW H \in SUBSET Places, Own(d, H), MoveToTrash(d)
  PROVE  Own(d, H)'
<1> DEFINE x == row[d].path
           t == TrashPath(d)
<1>1. /\ UNCHANGED <<row, place, history, stored, listing, todo, failed>>
      /\ pc = "reap" /\ pc' = "tombstone" /\ d \in Active /\ d \notin Listed /\ d \in Mirrored
      /\ todo = {}
  BY DEF MoveToTrash, remote, TypeInv, Control, Active, Mirrored
<1>2. ~InHand(d) /\ ~InHand(d)'  BY <1>1 DEF InHand
<1>3. x \in Mine(H) /\ t \in Mine(H) /\ x # t /\ x \in Paths /\ t \in Paths
      /\ t \in {"trash"} \X H
  BY <1>1, TrashOwn, MinePaths DEF Own
<1>4. disk' = IF disk[x] # NoFile THEN [disk EXCEPT ![t] = disk[x], ![x] = NoFile] ELSE disk
  BY DEF MoveToTrash
<1>5. \A y \in Paths \ {x, t} : disk'[y] = disk[y]
  BY <1>4 DEF TypeInv, TypeOK
<1>7. CASE disk[x] = NoFile
  <2>1. \A y \in Mine(H) : disk'[y] = disk[y]  BY <1>4, <1>7
  <2>2. QED  BY <1>1, <1>2, <2>1, Frame
<1>8. CASE disk[x] # NoFile
  <2>1. disk'[x] = NoFile /\ disk'[t] = disk[x]
    BY <1>3, <1>4, <1>8 DEF TypeInv, TypeOK
  <2>2. /\ d \notin Listed /\ d \notin Listed' /\ (d \in Mirrored)' = (d \in Mirrored)
    BY <1>1, <1>8 DEF Listed, Mirrored
  <2>3. Fits(d, disk[x])  BY <1>1, <1>8 DEF Own, Goods, Good
  <2>4. place[d] # Gone => Tree(place[d]) # t /\ Tree(place[d]) \in Paths
    BY <1>3, MinePaths DEF Own, Homes, Tree
  <2> HIDE DEF x, t
  <2>5. Goods(d)'
    <3>1. place[d] # Gone =>
            disk'[Tree(place[d])] \in {disk[Tree(place[d])], NoFile}
      BY <1>5, <2>1, <2>4
    <3>2. disk'[row[d].path] = NoFile  BY <1>8, <2>1 DEF x
    <3>3. QED
      BY <1>1, <2>2, <3>1, <3>2 DEF Own, Goods, Good, Fits, NotOlder
  <2>6. Homes(d, H)' /\ Texts(d)'  BY <1>1, <2>2 DEF Own, Homes, Texts
  <2>7. Files(d, H)'
    <3>1. \A y \in Mine(H) : disk'[y] # NoFile => \E z \in Mine(H) : disk'[y] = disk[z]
      BY <1>3, <1>5, <1>8, <2>1, MinePaths
    <3>2. QED  BY <1>1, <3>1 DEF Own, Files
  <2>8. Kept(d, H)'
    BY <1>1, <1>3, <1>8, <2>1, <2>3 DEF Kept, Fits, NotOlder
  <2>9. Dated(d)' /\ Waits(d, H)' /\ Handled(d)' /\ Done(d)'
    BY <1>1, <1>2, <2>2 DEF Dated, Waits, Handled, Done
  <2>10. QED  BY <2>5, <2>6, <2>7, <2>8, <2>9 DEF Own
<1>9. QED  BY <1>7, <1>8

LEMMA TombstoneOwn ==
  ASSUME TypeInv, NEW d \in Docs, NEW H \in SUBSET Places, Own(d, H), Tombstone
  PROVE  Own(d, H)'
<1>1. /\ UNCHANGED <<place, history, disk, stored, listing, todo, failed>>
      /\ pc = "tombstone" /\ pc' = "reap" /\ cur \in Docs /\ cur \in Active /\ cur \notin Listed
      /\ todo = {}
      /\ row' = [row EXCEPT ![cur].status = "trashed", ![cur].path = TrashPath(cur)]
  BY DEF Tombstone, remote, TypeInv, Control, Active
<1>2. ~InHand(d) /\ ~InHand(d)'  BY <1>1 DEF InHand
<1>3. CASE cur # d
  <2>1. row'[d] = row[d]  BY <1>1, <1>3 DEF TypeInv, TypeOK
  <2>2. QED  BY <1>1, <1>2, <2>1, Frame
<1>4. CASE cur = d
  <2>1. row[d] \in Row /\ row[d].status = "active" /\ d \in Mirrored /\ d \notin Listed
    BY <1>1, <1>4, Typed DEF Active, Mirrored
  <2>2. row'[d] = [row[d] EXCEPT !.status = "trashed", !.path = TrashPath(d)]
    BY <1>1, <1>4 DEF TypeInv, TypeOK
  <2>3. /\ row'[d].status = "trashed" /\ row'[d].path = TrashPath(d)
        /\ row'[d].hash = row[d].hash /\ row'[d].edited = row[d].edited
    BY <2>1, <2>2 DEF Row
  <2>4. d \notin Listed' /\ d \notin Mirrored'
    BY <1>1, <2>1, <2>3 DEF Listed, Mirrored
  <2>5. Homes(d, H)'  BY <1>1, <2>1, <2>3, <2>4, TrashOwn DEF Own, Homes
  <2>6. Texts(d)'  BY <1>1, <2>1, <2>3 DEF Own, Texts
  <2>7. Files(d, H)' /\ Kept(d, H)'
    BY <1>1, <2>1, <2>3 DEF Own, Files, Kept, NotOlder
  <2>8. Goods(d)'
    BY <1>1, <2>1, <2>3, <2>4 DEF Own, Goods, Good, Fits, NotOlder
  <2>9. Dated(d)' /\ Waits(d, H)' /\ Handled(d)' /\ Done(d)'
    BY <1>1, <1>2, <2>4 DEF Dated, Waits, Handled, Done
  <2>10. QED  BY <2>5, <2>6, <2>7, <2>8, <2>9 DEF Own
<1>5. QED  BY <1>3, <1>4

-----------------------------------------------------------------------------
(* The invariant. *)

LEMMA DraftedNext ==
  ASSUME Drafted, [Next]_vars
  PROVE  Drafted'
<1>1. CASE Fetch  BY <1>1 DEF Fetch, Drafted
<1>2. ASSUME NEW d \in Docs, Visit(d) PROVE Drafted'
  BY <1>2 DEF Visit, Drafted
<1>3. CASE ~Fetch /\ ~ \E d \in Docs : Visit(d)
  <2>1. \/ pc' \notin {"write", "save"}
        \/ draft' = draft /\ (pc' = pc \/ pc = "write")
    BY <1>3
       DEF Next, Remote, Share, Unshare, Rename, Edit, Round, StartRound, FailBeforeMove, Write,
           Save, FailNode, BeginDeletes, MoveToTrash, Tombstone, AbortRound, Finish, Crash, Rest,
           Tamper, vars, volatile
  <2>2. QED  BY <2>1 DEF Drafted
<1>4. QED  BY <1>1, <1>2, <1>3

\* What an observed step does to what is known of a document.
LEMMA Watched ==
  ASSUME TypeInv, TypeInv', been \in [Docs -> SUBSET Places], disturbed \subseteq Docs, Watch
  PROVE  /\ been' \in [Docs -> SUBSET Places] /\ disturbed' \subseteq Docs
         /\ \A d \in Docs :
              /\ been[d] \subseteq been'[d]
              /\ place'[d] # Gone => place'[d] \in been'[d]
              /\ place'[d] \in been[d] \cup {Gone} => been'[d] = been[d]
              /\ place'[d] \notin been[d] \cup {Gone} => been'[d] = been[d] \cup {place'[d]}
BY DEF Watch, TypeInv, TypeOK

LEMMA RegularBefore ==
  ASSUME been \in [Docs -> SUBSET Places], Watch, NEW d \in Docs, Regular(d)'
  PROVE  /\ Regular(d) /\ ~ComesBack(d) /\ ~Repeats(d) /\ ~TamperedWith(d)
         /\ \A e \in Docs \ {d} : been'[d] \cap been'[e] = {} /\ been[d] \cap been[e] = {}
<1>1. d \notin disturbed' /\ \A e \in Docs \ {d} : been'[d] \cap been'[e] = {}  BY DEF Regular
<1>2. \A e \in Docs : been[e] \subseteq been'[e]  BY DEF Watch
<1>3. d \notin disturbed /\ ~ComesBack(d) /\ ~Repeats(d) /\ ~TamperedWith(d)
  BY <1>1 DEF Watch
<1>4. \A e \in Docs \ {d} : been[d] \cap been[e] = {}  BY <1>1, <1>2
<1>5. QED  BY <1>1, <1>3, <1>4 DEF Regular

\* The homes of a set are those of a greater one.
LEMMA HomesNext ==
  ASSUME Inv, TypeInv', Next, Watch, NEW d \in Docs
  PROVE  Homes(d, been[d])'
<1> DEFINE H == been[d]
           K == been'[d]
<1>1. /\ TypeInv /\ Homes(d, H) /\ H \subseteq K /\ H \in SUBSET Places
      /\ place'[d] # Gone => place'[d] \in K
  BY Watched DEF Inv
<1>2. /\ place[d] # Gone => place[d] \in H
      /\ row[d].status = "none" => row[d] = NoRow
      /\ d \in Mirrored => row[d].path \in {"tree"} \X H
      /\ row[d].status = "trashed" => row[d].path \in {"trash"} \X H
      /\ d \in Listed => Target(d) \in {"tree"} \X H
  BY <1>1 DEF Homes
<1>3. /\ row'[d].status = "none" => row'[d] = NoRow
      /\ row'[d].status \in {"active", "pending_assets"} => row'[d].path \in {"tree"} \X K
      /\ row'[d].status = "trashed" => row'[d].path \in {"trash"} \X K
  <2>1. CASE row'[d] = row[d]  BY <1>1, <1>2, <2>1 DEF Mirrored
  <2>2. CASE Save /\ row'[d] # row[d]
    <3>1. cur = d /\ d \in Listed /\ row'[d].path = Target(d) /\ row'[d].status = draft.status
      BY <1>1, <2>2 DEF Save, TypeInv, TypeOK, Control
    <3>2. Target(d) \in {"tree"} \X K  BY <1>1, <1>2, <3>1
    <3>3. PICK st \in {"active", "pending_assets"} : draft.status = st
      BY <1>1, <2>2 DEF Save, Inv, Drafted
    <3>4. QED  BY <3>1, <3>2, <3>3
  <2>3. CASE Tombstone /\ row'[d] # row[d]
    <3>1. cur = d /\ d \in Mirrored
      BY <1>1, <2>3 DEF Tombstone, TypeInv, TypeOK, Control, Active, Mirrored
    <3>2. row'[d].status = "trashed" /\ row'[d].path = TrashPath(d)
      <4>1. row[d] \in Row  BY <1>1, Typed
      <4>2. row'[d] = [row[d] EXCEPT !.status = "trashed", !.path = TrashPath(d)]
        BY <1>1, <2>3, <3>1 DEF Tombstone, TypeInv, TypeOK
      <4>3. QED  BY <4>1, <4>2 DEF Row
    <3>3. TrashPath(d) \in {"trash"} \X H  BY <1>1, <3>1, TrashOwn
    <3>4. QED  BY <1>1, <3>2, <3>3
  <2>4. Save \/ Tombstone \/ row' = row
    BY DEF Next, Remote, Share, Unshare, Rename, Edit, Round, StartRound, Visit, FailBeforeMove,
           Fetch, Write, FailNode, BeginDeletes, MoveToTrash, AbortRound, Finish, Crash, Tamper,
           local
  <2>5. QED  BY <2>1, <2>2, <2>3, <2>4
<1>4. listing'[d] # Unlisted => listing'[d].path \in {"tree"} \X K
  <2>1. CASE listing'[d] = listing[d]  BY <1>1, <1>2, <2>1 DEF Listed, Target
  <2>2. CASE StartRound
    <3>1. listing'[d] # Unlisted => place[d] # Gone /\ listing'[d].path = Tree(place[d])
      BY <2>2 DEF StartRound, Shared
    <3>2. place[d] # Gone => place[d] \in K  BY <1>1, <1>2
    <3>3. place[d] # Gone => Tree(place[d]) \in {"tree"} \X K  BY <3>2 DEF Tree
    <3>4. QED  BY <3>1, <3>3
  <2>3. CASE Rest  BY <2>3 DEF Rest
  <2>4. StartRound \/ Rest \/ listing' = listing
    BY DEF Next, Remote, Share, Unshare, Rename, Edit, Round, Visit, FailBeforeMove,
           Fetch, Write, Save, FailNode, BeginDeletes, MoveToTrash, Tombstone, AbortRound, Finish,
           Crash, Tamper, volatile
  <2>5. QED  BY <2>1, <2>2, <2>3, <2>4
<1>5. QED  BY <1>1, <1>3, <1>4 DEF Homes, Mirrored, Listed, Target

LEMMA InhabitedNext ==
  ASSUME Inv, TypeInv', Next, Watch
  PROVE  Inhabited'
<1>1. /\ TypeInv /\ Inhabited /\ \A e \in Docs : Homes(e, been[e]) /\ been[e] \in SUBSET Places
      /\ \A e \in Docs : Mine(been[e]) \subseteq Mine(been'[e])
  <2>1. \A e \in Docs : been[e] \subseteq been'[e]  BY Watched DEF Inv
  <2>2. QED  BY <2>1 DEF Inv, Mine
<1>2. SUFFICES ASSUME NEW x \in Paths, disk'[x] # NoFile
               PROVE  disk[x] # NoFile \/ \E e \in Docs : x \in Mine(been[e])
  BY <1>1 DEF Inhabited
<1>3. ASSUME NEW e \in Docs, Visit(e) PROVE disk[x] # NoFile \/ x \in Mine(been[e])
  <2>1. e \in Listed  BY <1>1, <1>3 DEF Visit, TypeInv, Control
  <2>2. disk' = Relocated(e)  BY <1>3 DEF Visit
  <2>3. QED  BY <1>1, <1>2, <2>1, <2>2, RelocatedElsewhere
<1>4. ASSUME Write PROVE disk[x] # NoFile \/ x \in Mine(been[cur])
  <2>1. cur \in Docs /\ cur \in Listed  BY <1>1, <1>4 DEF Write, TypeInv, Control, Listed
  <2>2. Target(cur) \in Mine(been[cur])  BY <1>1, <2>1, MinePaths DEF Homes
  <2>3. QED  BY <1>1, <1>2, <1>4, <2>2 DEF Write, TypeInv, TypeOK
<1>5. ASSUME NEW e \in Docs, MoveToTrash(e) PROVE disk[x] # NoFile \/ x \in Mine(been[e])
  <2>1. e \in Mirrored  BY <1>1, <1>5 DEF MoveToTrash, TypeInv, Control, Active, Mirrored
  <2>2. TrashPath(e) \in Mine(been[e])  BY <1>1, <2>1, TrashOwn
  <2>3. QED  BY <1>1, <1>2, <1>5, <2>2 DEF MoveToTrash, TypeInv, TypeOK
<1>6. ASSUME NEW y \in Paths, Tamper(y) PROVE disk[x] # NoFile
  BY <1>1, <1>2, <1>6 DEF Tamper, TypeInv, TypeOK
<1>7. \/ \E e \in Docs : Visit(e) \/ MoveToTrash(e)
      \/ Write \/ (\E y \in Paths : Tamper(y)) \/ disk' = disk
  BY DEF Next, Remote, Share, Unshare, Rename, Edit, Round, StartRound, FailBeforeMove,
         Fetch, Save, FailNode, BeginDeletes, Tombstone, AbortRound, Finish, Crash, local
<1>8. CASE Write
  <2>1. cur \in Docs  BY <1>1, <1>8 DEF Write, TypeInv, Control, Listed
  <2>2. QED  BY <1>4, <1>8, <2>1
<1>9. QED  BY <1>2, <1>3, <1>5, <1>6, <1>7, <1>8

\* An edit of a file that is not the document's.
LEMMA TamperOwn ==
  ASSUME TypeInv, NEW d \in Docs, NEW H \in SUBSET Places, Own(d, H), ~TamperedWith(d),
         NEW x \in Paths, Tamper(x)
  PROVE  Own(d, H)'
<1>1. /\ UNCHANGED <<row, place, history, stored, listing, todo, failed, pc, cur, draft>>
      /\ pc = "idle" /\ pc' = "idle" /\ disk[x] # NoFile
      /\ \A y \in Paths \ {x} : disk'[y] = disk[y]
  BY DEF Tamper, remote, volatile, TypeInv, TypeOK
<1>2. x \in Mine(H) => disk'[x] = disk[x]
  BY <1>1 DEF Own, Files, TamperedWith
<1>3. \A y \in Mine(H) : disk'[y] = disk[y]  BY <1>1, <1>2, MinePaths
<1>4. ~InHand(d) /\ ~InHand(d)'  BY <1>1 DEF InHand
<1>5. QED  BY <1>1, <1>3, <1>4, Frame

\* A step of a round, whatever document it is about.
LEMMA RoundOwn ==
  ASSUME TypeInv, Times, NEW d \in Docs, NEW H \in SUBSET Places, Own(d, H),
         \A e \in Docs \ {d} : \E G \in SUBSET Places : Homes(e, G) /\ H \cap G = {},
         Round \/ Crash
  PROVE  Own(d, H)'
<1>1. ASSUME NEW e \in Docs, e # d
      PROVE  \E G \in SUBSET Places : Homes(e, G) /\ Mine(H) \cap Mine(G) = {}
  BY <1>1, Apart
<1>2. CASE StartRound  BY <1>2, StartRoundOwn
<1>3. CASE Fetch  BY <1>3, FetchOther, FetchOwn
<1>4. CASE Write
  <2>1. cur \in Docs  BY <1>4, ListedEntry DEF Write, TypeInv, Control
  <2>2. QED  BY <1>1, <1>4, <2>1, WriteOther, WriteOwn
<1>5. CASE Save  BY <1>5, SaveOther, SaveOwn
<1>6. CASE FailNode \/ BeginDeletes \/ \E e \in Docs : FailBeforeMove(e)
  BY <1>6, QuietOwn
<1>7. CASE Tombstone  BY <1>7, TombstoneOwn
<1>8. CASE AbortRound \/ Finish \/ Crash
  <2>1. Rest /\ UNCHANGED <<remote, local>>
    BY <1>8 DEF AbortRound, Finish, Crash
  <2>2. QED  BY <2>1, RestOwn
<1>9. ASSUME NEW e \in Docs, Visit(e) PROVE Own(d, H)'
  BY <1>1, <1>9, VisitOther, VisitOwn
<1>10. ASSUME NEW e \in Docs, MoveToTrash(e) PROVE Own(d, H)'
  BY <1>1, <1>10, MoveToTrashOther, MoveToTrashOwn
<1>11. QED
  BY <1>2, <1>3, <1>4, <1>5, <1>6, <1>7, <1>8, <1>9, <1>10 DEF Round

\* A document that stays regular and gets a new place was never followed there by
\* another one: nothing lies there.
LEMMA NewPlaceIsEmpty ==
  ASSUME Inv, TypeInv', Watch, NEW d \in Docs, Regular(d)',
         place'[d] \notin been[d] \cup {Gone}
  PROVE  disk[Tree(place'[d])] = NoFile /\ disk[Trash(place'[d])] = NoFile
<1> DEFINE p == place'[d]
<1>1. p \in Places /\ p \in been'[d]  BY Watched DEF Inv, TypeInv, TypeOK
<1>2. \A e \in Docs : p \notin been[e]
  <2>1. \A e \in Docs \ {d} : p \notin been'[e] /\ been[e] \subseteq been'[e]
    BY <1>1, RegularBefore, Watched DEF Inv
  <2>2. QED  BY <2>1
<1>3. Tree(p) \in Paths /\ Trash(p) \in Paths  BY <1>1 DEF Paths, Tree, Trash
<1>4. \A e \in Docs : Tree(p) \notin Mine(been[e]) /\ Trash(p) \notin Mine(been[e])
  BY <1>2 DEF Mine, Tree, Trash
<1>5. QED  BY <1>3, <1>4 DEF Inv, Inhabited

LEMMA NextOwn ==
  ASSUME Inv, TypeInv', Next, Watch, NEW d \in Docs, Regular(d)'
  PROVE  Own(d, been[d])'
<1>1. /\ TypeInv /\ Times /\ Regular(d) /\ Own(d, been[d]) /\ been[d] \in SUBSET Places
      /\ \A e \in Docs : Homes(e, been[e]) /\ been[e] \in SUBSET Places
      /\ ~Repeats(d) /\ ~ComesBack(d) /\ ~TamperedWith(d)
      /\ \A e \in Docs \ {d} : been[d] \cap been[e] = {}
  BY RegularBefore DEF Inv
<1>2. SUFFICES ASSUME NEW H \in SUBSET Places, H = been'[d] PROVE Own(d, H)'
  <2>1. been'[d] \in SUBSET Places  BY Watched DEF Inv
  <2>2. ASSUME NEW H \in SUBSET Places, H = been'[d], Own(d, H)' PROVE Own(d, been[d])'
    BY <2>2 DEF Own, Homes, Files, Kept, Waits
  <2>3. QED  BY <1>2, <2>1, <2>2
<1>3. CASE place'[d] \in been[d] \cup {Gone}
  <2>1. H = been[d]  BY <1>2, <1>3, Watched DEF Inv
  <2>2. Own(d, H)  BY <1>1, <2>1 DEF Own, Homes, Files, Kept, Waits
  <2>3. CASE Remote
    <3>1. place'[d] = place[d] \/ place'[d] = Gone \/ Goes(d, H)
      BY <1>1, <1>3, <2>1 DEF ComesBack, Goes
    <3>2. QED  BY <1>1, <2>2, <2>3, <3>1, RemoteOwn
  <2>4. CASE Round \/ Crash
    <3>1. \A e \in Docs \ {d} : \E G \in SUBSET Places : Homes(e, G) /\ H \cap G = {}
      <4>1. SUFFICES ASSUME NEW e \in Docs \ {d}
                     PROVE  \E G \in SUBSET Places : Homes(e, G) /\ H \cap G = {}
        OBVIOUS
      <4>2. Homes(e, been[e]) /\ H \cap been[e] = {} /\ been[e] \in SUBSET Places
        BY <1>1, <2>1
      <4>3. QED  BY <4>2 DEF Homes
    <3>2. QED  BY <1>1, <2>2, <2>4, <3>1, RoundOwn
  <2>5. ASSUME NEW x \in Paths, Tamper(x) PROVE Own(d, H)'
    BY <1>1, <2>2, <2>5, TamperOwn
  <2>6. QED  BY <2>3, <2>4, <2>5 DEF Next
<1>4. CASE place'[d] \notin been[d] \cup {Gone}
  <2> DEFINE p == place'[d]
  <2>1. H = been[d] \cup {p} /\ p \in Places
    BY <1>2, <1>4, Watched DEF Inv, TypeInv, TypeOK
  <2>2. disk[Tree(p)] = NoFile /\ disk[Trash(p)] = NoFile
    BY <1>4, NewPlaceIsEmpty
  <2>3. PICK F \in SUBSET Places : F = been[d]  BY <1>1
  <2>4. Own(d, F)  BY <1>1, <2>3 DEF Own, Homes, Files, Kept, Waits
  <2>5. Own(d, F \cup {p})  BY <1>1, <2>1, <2>2, <2>4, GrownOwn
  <2>6. H = F \cup {p}  BY <2>1, <2>3
  <2>7. Own(d, H)  BY <2>5, <2>6 DEF Own, Homes, Files, Kept, Waits
  <2>8. Goes(d, H)  BY <2>1, <2>2 DEF Goes
  <2>9. Remote
    <3>1. place'[d] # place[d]  BY <1>1, <1>4 DEF Homes
    <3>2. QED
      BY <3>1 DEF Next, Round, StartRound, Visit, FailBeforeMove, Fetch, Write, Save, FailNode,
                  BeginDeletes, MoveToTrash, Tombstone, AbortRound, Finish, Crash, Tamper, remote
  <2>10. QED  BY <1>1, <2>7, <2>8, <2>9, RemoteOwn
<1>5. QED  BY <1>3, <1>4

LEMMA NextIdle ==
  ASSUME Inv, [Next]_vars
  PROVE  pc' = "idle" => todo' = {}
<1>1. CASE Rest  BY <1>1 DEF Rest
<1>2. CASE pc' = pc /\ todo' = todo  BY <1>2 DEF Inv
<1>3. Rest \/ (pc' = pc /\ todo' = todo) \/ pc' # "idle"
  BY DEF Next, Remote, Share, Unshare, Rename, Edit, Round, StartRound, Visit, FailBeforeMove,
         Fetch, Write, Save, FailNode, BeginDeletes, MoveToTrash, Tombstone, AbortRound, Finish,
         Crash, Tamper, vars, volatile
<1>4. QED  BY <1>1, <1>2, <1>3

LEMMA StutterInv ==
  ASSUME Inv, UNCHANGED watchedVars
  PROVE  Inv'
<1>1. /\ UNCHANGED vars /\ been' = been /\ disturbed' = disturbed /\ TypeInv /\ Times
      /\ pc' = "idle" => todo' = {}
  BY DEF Inv, watchedVars, vars, volatile
<1>2. TypeInv' /\ Times'  BY <1>1, NextTypeInv, NextTimes
<1>3. UNCHANGED <<row, place, disk, listing, pc, draft>>
  BY <1>1 DEF vars, remote, local, volatile
<1>4. Drafted' /\ Inhabited'  BY <1>1, <1>3 DEF Inv, Drafted, Inhabited
<1>5. ASSUME NEW d \in Docs PROVE Homes(d, been[d])'
  BY <1>1, <1>3, <1>5 DEF Inv, Homes, Mirrored, Listed, Target
<1>6. ASSUME NEW d \in Docs, Regular(d)' PROVE Own(d, been[d])'
  <2>1. Regular(d)  BY <1>1, <1>6 DEF Regular
  <2>2. PICK H \in SUBSET Places : H = been[d]  BY <1>1 DEF Inv
  <2>3. Own(d, H)  BY <2>1, <2>2 DEF Inv, Own, Homes, Files, Kept, Waits
  <2>4. Own(d, H)'  BY <1>1, <2>3, QuietOwn
  <2>5. QED  BY <1>1, <2>2, <2>4 DEF Own, Homes, Files, Kept, Waits
<1>7. QED  BY <1>1, <1>2, <1>4, <1>5, <1>6 DEF Inv

LEMMA InvAlways == WatchedSpec => []Inv
<1>1. WatchedInit => Inv
  <2>1. SUFFICES ASSUME WatchedInit PROVE Inv  OBVIOUS
  <2>2. /\ Init /\ disturbed = {} /\ been \in [Docs -> SUBSET Places]
        /\ \A d \in Docs : been[d] = {}
    BY <2>1 DEF WatchedInit
  <2>3. TypeInv /\ Times  BY <2>2, InitTypeInv, InitTimes
  <2>4. Drafted /\ Inhabited /\ (pc = "idle" => todo = {})
    BY <2>2 DEF Init, Drafted, Inhabited
  <2>5. ASSUME NEW d \in Docs PROVE Own(d, been[d])
    BY <2>2, InitOwn
  <2>6. \A d \in Docs : Homes(d, been[d])  BY <2>5 DEF Own
  <2>7. QED  BY <2>2, <2>3, <2>4, <2>5, <2>6 DEF Inv
<1>2. Inv /\ [Next /\ Watch]_watchedVars => Inv'
  <2>1. SUFFICES ASSUME Inv, Next, Watch PROVE Inv'
    BY StutterInv
  <2>2. TypeInv' /\ Times'  BY <2>1, NextTypeInv, NextTimes DEF Inv
  <2>3. been' \in [Docs -> SUBSET Places] /\ disturbed' \subseteq Docs
    BY <2>1, <2>2, Watched DEF Inv
  <2>4. Drafted' /\ Inhabited' /\ (pc' = "idle" => todo' = {})
    BY <2>1, <2>2, DraftedNext, InhabitedNext, NextIdle DEF Inv
  <2>5. \A d \in Docs : Homes(d, been[d])'
    BY <2>1, <2>2, HomesNext
  <2>6. ASSUME NEW d \in Docs, Regular(d)' PROVE Own(d, been[d])'
    BY <2>1, <2>2, <2>6, NextOwn
  <2>7. QED  BY <2>2, <2>3, <2>4, <2>5, <2>6 DEF Inv
<1>3. QED  BY <1>1, <1>2, PTL DEF WatchedSpec

-----------------------------------------------------------------------------
(* The theorems. *)

\* What the invariant says of a regular document, for the places it has had.
LEMMA RegularOwn ==
  ASSUME Inv, NEW d \in Docs, Regular(d)
  PROVE  \E H \in SUBSET Places : Own(d, H)
<1>1. PICK H \in SUBSET Places : H = been[d]  BY DEF Inv
<1>2. Own(d, H)  BY <1>1 DEF Inv, Own, Homes, Files, Kept, Waits
<1>3. QED  BY <1>2

(* What was mirrored once is never lost: wherever a fault or a crash interrupts
   the rename, the write, the save or the trashing of a regular document, some
   file of the tree or the trash holds a text at least as recent as its row
   says, whatever happens to the documents that are not regular. *)
THEOREM BodyAlwaysKept == WatchedSpec => []BodyKept
<1>1. Inv => BodyKept
  <2>1. SUFFICES ASSUME Inv, NEW d \in Docs, Regular(d), row[d].status # "none"
                 PROVE  \E x \in Paths : /\ disk[x] # NoFile /\ disk[x].doc = d
                                         /\ NotOlder(d, disk[x].body, row[d].edited)
    BY DEF BodyKept
  <2>2. PICK H \in SUBSET Places : Own(d, H)  BY <2>1, RegularOwn
  <2>3. QED  BY <2>1, <2>2, MinePaths DEF Own, Kept, Files
<1>2. QED  BY <1>1, InvAlways, PTL

(* A round has mirrored every regular document that it enumerated and does not
   report as failed, whatever earlier rounds left behind when they failed or
   died, and whatever becomes of the documents that are not regular. *)
THEOREM RoundsAlwaysFaithful == WatchedSpec => []RoundIsFaithful
<1>1. Inv => RoundIsFaithful
  <2>1. SUFFICES ASSUME Inv, RoundDone, NEW d \in Listed \ failed, Regular(d) PROVE Faithful(d)
    BY DEF RoundIsFaithful
  <2>2. d \in Docs /\ todo = {} /\ ~InHand(d)
    BY <2>1 DEF Inv, TypeInv, Control, RoundDone, Listed, InHand
  <2>3. PICK H \in SUBSET Places : Own(d, H)  BY <2>1, <2>2, RegularOwn
  <2>4. QED  BY <2>1, <2>2, <2>3 DEF Own, Done
<1>2. QED  BY <1>1, InvAlways, PTL

(* Whenever processNode leaves the file of a regular document as it is, before
   the fetch or after it, that file is the document's own and holds the text
   the row's hash stands for. *)
THEOREM SkipsAlwaysSafe == WatchedSpec => SkipsAreSafe
<1> DEFINE Safe(d) == LET file == disk'[Target(d)]
                      IN  file # NoFile /\ file.doc = d /\ file.body = row[d].hash
           Skip(d) == \/ d \in (todo \ todo') \ failed' /\ pc' \in {"walk", "save"}
                      \/ d = cur /\ pc = "fetch" /\ pc' = "save"
           Skips == \A d \in Docs : /\ Regular(d)
                                    /\ Skip(d)
                                    => Safe(d)
<1>1. Inv /\ [Next /\ Watch]_watchedVars => [Skips]_watchedVars
  <2>1. SUFFICES ASSUME Inv, Next, NEW d \in Docs, Regular(d), Skip(d) PROVE Safe(d)
    OBVIOUS
  <2>2. TypeInv /\ Times  BY <2>1 DEF Inv
  <2>3. PICK H \in SUBSET Places : Own(d, H)  BY <2>1, RegularOwn
  <2>4. CASE d \in (todo \ todo') \ failed' /\ pc' \in {"walk", "save"}
    <3>1. ~Rest /\ pc # "idle"  BY <2>1, <2>4 DEF Rest, Inv
    <3>2. Visit(d)
      BY <2>1, <2>4, <3>1
         DEF Next, Remote, Share, Unshare, Rename, Edit, Round, StartRound, Visit,
             FailBeforeMove, Fetch, Write, Save, FailNode, BeginDeletes, MoveToTrash,
             Tombstone, AbortRound, Finish, Crash, Tamper, volatile
    <3>3. Unchanged(d) /\ disk' = Relocated(d) /\ d \in todo
      BY <2>4, <3>2 DEF Visit
    <3>4. QED  BY <2>1, <2>2, <2>3, <3>3, UnchangedFacts
  <2>5. CASE d = cur /\ pc = "fetch" /\ pc' = "save"
    <3>1. ~Rest /\ Fetch
      BY <2>1, <2>5
         DEF Rest, Next, Remote, Share, Unshare, Rename, Edit, Round, StartRound, Visit,
             FailBeforeMove, Write, Save, FailNode, BeginDeletes, MoveToTrash,
             Tombstone, AbortRound, Finish, Crash, Tamper
    <3>2. SameContent(d, Tip(d).body) /\ disk' = disk
      BY <2>5, <3>1 DEF Fetch
    <3>3. d \in Listed  BY <2>2, <2>5 DEF TypeInv, Control
    <3>4. QED  BY <2>2, <2>3, <3>2, <3>3, SameContentFacts
  <2>6. QED  BY <2>1, <2>4, <2>5
<1>2. QED  BY <1>1, InvAlways, PTL DEF WatchedSpec, SkipsAreSafe

-----------------------------------------------------------------------------
(***************************************************************************)
(* Forced rounds.  Here documents may compete for paths and come back to    *)
(* files that were left, texts may come back, edits keep their edit time    *)
(* and anybody edit the mirror: nothing is assumed.  What a forced round    *)
(* has written stays, since rows have paths of their own.                   *)
(***************************************************************************)
Tidy ==
  /\ \A d \in Listed : /\ Target(d) \in {"tree"} \X Places
                       /\ listing[d].since \in 1..Len(history[d])
  /\ \A d, e \in Docs : d # e =>
       /\ place[d] = place[e] => place[d] = Gone
       /\ row[d].path = row[e].path => row[d].path = NoPath
       /\ d \in Listed /\ e \in Listed => Target(d) # Target(e)

\* A forced round writes what it fetches, and what it has written stays.
Renewed(d) ==
  pc # "idle" /\ force /\ d \in Listed =>
    /\ ~InHand(d) /\ d \notin todo \cup failed => Faithful(d)
    /\ InHand(d) /\ pc \in {"write", "save"} =>
         draft.status \in {"active", "pending_assets"} /\ Recent(d, draft.hash)
    /\ InHand(d) /\ pc = "save" =>
         disk[Target(d)] = [doc |-> d, body |-> draft.hash, whole |-> draft.status = "active"]

ForcedInv == TypeInv /\ Tidy /\ \A d \in Docs : Renewed(d)

LEMMA HistoryKept ==
  ASSUME TypeInv, NEW d \in Docs, Remote \/ UNCHANGED history
  PROVE  /\ Len(history[d]) \in Nat /\ Len(history'[d]) \in Nat
         /\ Len(history[d]) <= Len(history'[d])
         /\ \A i \in 1..Len(history[d]) : history'[d][i] = history[d][i]
<1>1. history[d] \in Seq(Revision) /\ history'[d] \in Seq(Revision)
  BY RemoteTypeInv DEF TypeInv, TypeOK
<1>2. CASE UNCHANGED history  BY <1>1, <1>2
<1>3. CASE Remote  BY <1>1, <1>3, HistoryGrows
<1>4. QED  BY <1>2, <1>3

-----------------------------------------------------------------------------
(* Rows, places and inventories have paths of their own. *)

LEMMA TidyTargets ==
  ASSUME TypeInv, Tidy, NEW d \in Listed
  PROVE  /\ d \in Docs /\ Target(d) \in Paths /\ Target(d) \in {"tree"} \X Places
         /\ listing[d].since \in 1..Len(history[d]) /\ Len(history[d]) \in Nat
  BY ListedEntry, HistoryTyped DEF Tidy, TypeInv

\* Steps that keep the places and the rows, and the inventory or drop it.
LEMMA TidyFrame ==
  ASSUME TypeInv, Tidy, Remote \/ UNCHANGED history,
         UNCHANGED place, UNCHANGED row, UNCHANGED listing \/ Listed' = {}
  PROVE  Tidy'
<1>1. \A d \in Docs : Len(history[d]) \in Nat /\ Len(history'[d]) \in Nat
                      /\ Len(history[d]) <= Len(history'[d])
  BY HistoryKept
<1>2. CASE UNCHANGED listing
  <2>1. Listed' = Listed /\ Listed \subseteq Docs /\ \A d \in Docs : Target(d)' = Target(d)
    BY <1>2 DEF Listed, Target
  <2>2. \A d \in Listed : listing[d].since \in 1..Len(history'[d])
    BY <1>1, <2>1 DEF Tidy
  <2>3. QED  BY <1>2, <2>1, <2>2 DEF Tidy
<1>3. CASE Listed' = {}  BY <1>3 DEF Tidy
<1>4. QED  BY <1>2, <1>3

LEMMA TidyRemote ==
  ASSUME TypeInv, Tidy, Remote
  PROVE  Tidy'
<1>1. UNCHANGED <<row, listing>> /\ Listed' = Listed /\ Listed \subseteq Docs
      /\ \A d \in Docs : Target(d)' = Target(d)
  BY DEF Remote, Share, Unshare, Rename, Edit, local, volatile, Listed, Target
<1>2. \A d \in Docs : Len(history[d]) \in Nat /\ Len(history'[d]) \in Nat
                      /\ Len(history[d]) <= Len(history'[d])
  BY HistoryKept
<1>3. \A d \in Listed : listing[d].since \in 1..Len(history'[d])
  BY <1>1, <1>2 DEF Tidy
<1>4. \A d, e \in Docs : d # e /\ place'[d] = place'[e] => place'[d] = Gone
  <2>1. CASE \E d \in Docs : Share(d) \/ Rename(d)
    <3>1. PICK d \in Docs : \E p \in Free(d) : place' = [place EXCEPT ![d] = p]
      BY <2>1 DEF Share, Rename
    <3>2. PICK p : place' = [place EXCEPT ![d] = p] /\ \A e \in Docs \ {d} : place[e] # p
      BY <3>1 DEF Free
    <3>3. QED  BY <3>2 DEF Tidy, TypeInv, TypeOK
  <2>2. CASE \E d \in Docs : Unshare(d)
    BY <2>2 DEF Unshare, Tidy, TypeInv, TypeOK
  <2>3. CASE \E d \in Docs : Edit(d)
    BY <2>3 DEF Edit, Tidy
  <2>4. QED  BY <2>1, <2>2, <2>3 DEF Remote
<1>5. QED  BY <1>1, <1>3, <1>4 DEF Tidy

LEMMA TidyStart ==
  ASSUME TypeInv, Tidy, StartRound
  PROVE  Tidy'
<1>1. PICK S \in SUBSET Shared :
        /\ listing' = [e \in Docs |->
             IF e \in S THEN [path |-> Tree(place[e]), edited |-> Tip(e).edited,
                              since |-> Len(history[e])]
             ELSE Unlisted]
        /\ todo' = S
  BY DEF StartRound
<1>2. UNCHANGED <<history, place, row>>  BY DEF StartRound, remote, local
<1>3. \A d \in Listed' : d \in S /\ d \in Docs  BY <1>1 DEF Listed
<1>4. \A d \in S : /\ d \in Docs /\ place[d] # Gone /\ place[d] \in Places
                   /\ Target(d)' = Tree(place[d]) /\ listing'[d].since = Len(history[d])
                   /\ Len(history[d]) \in 1..Len(history[d])
  BY <1>1, HistoryTyped DEF Target, Shared, TypeInv, TypeOK, Control
<1>5. \A d \in Listed' : Target(d)' \in {"tree"} \X Places /\ listing'[d].since \in 1..Len(history[d])
  BY <1>3, <1>4 DEF Tree
<1>6. \A d, e \in Docs : d # e /\ d \in Listed' /\ e \in Listed' => Target(d)' # Target(e)'
  BY <1>3, <1>4 DEF Tidy, Tree
<1>7. QED  BY <1>2, <1>5, <1>6 DEF Tidy

\* UNIQUE(local_path): the row that is written gets a path no other row has.
LEMMA TidyRows ==
  ASSUME TypeInv, Tidy, Save \/ Tombstone
  PROVE  Tidy'
<1>1. /\ UNCHANGED <<history, place, listing>> /\ Listed' = Listed /\ Listed \subseteq Docs
      /\ \A d \in Docs : Target(d)' = Target(d)
  BY DEF Save, Tombstone, remote, Listed, Target
<1>2. cur \in Docs  BY ListedEntry DEF Save, Tombstone, TypeInv, Control, Active
<1>3. PICK x : /\ row'[cur].path = x /\ ~Taken(cur, x)
               /\ \A d \in Docs \ {cur} : row'[d] = row[d]
  <2>1. CASE Save
    <3> DEFINE r == [status |-> draft.status, path |-> Target(cur),
                     edited |-> listing[cur].edited, hash |-> draft.hash]
    <3>1. row'[cur] = r /\ r.path = Target(cur)  BY <1>2, <2>1 DEF Save, TypeInv, TypeOK
    <3>2. \A d \in Docs \ {cur} : row'[d] = row[d]  BY <2>1 DEF Save, TypeInv, TypeOK
    <3>3. ~Taken(cur, Target(cur))  BY <2>1 DEF Save
    <3>4. QED  BY <3>1, <3>2, <3>3
  <2>2. CASE Tombstone
    <3>1. row'[cur].path = TrashPath(cur)  BY <1>2, <2>2 DEF Tombstone, TypeInv, TypeOK, Row
    <3>2. \A d \in Docs \ {cur} : row'[d] = row[d]  BY <2>2 DEF Tombstone, TypeInv, TypeOK
    <3>3. ~Taken(cur, TrashPath(cur))  BY <2>2 DEF Tombstone
    <3>4. QED  BY <3>1, <3>2, <3>3
  <2>3. QED  BY <2>1, <2>2
<1>4. \A d, e \in Docs : d # e /\ row'[d].path = row'[e].path => row'[d].path = NoPath
  BY <1>2, <1>3 DEF Tidy, Taken
<1>5. \A d \in Listed' : Target(d)' \in {"tree"} \X Places /\ listing'[d].since \in 1..Len(history'[d])
  BY <1>1 DEF Tidy
<1>6. QED  BY <1>1, <1>4, <1>5 DEF Tidy

LEMMA TidyNext ==
  ASSUME TypeInv, Tidy, [Next]_vars
  PROVE  Tidy'
<1>1. CASE Remote  BY <1>1, TidyRemote
<1>2. CASE StartRound  BY <1>2, TidyStart
<1>3. CASE Save \/ Tombstone  BY <1>3, TidyRows
<1>4. CASE AbortRound \/ Finish \/ Crash
  <2>1. UNCHANGED <<history, place, row>> /\ Listed' = {}
    BY <1>4 DEF AbortRound, Finish, Crash, Rest, remote, local, Listed
  <2>2. QED  BY <2>1, TidyFrame
<1>5. CASE Fetch \/ Write \/ FailNode \/ BeginDeletes \/ UNCHANGED vars
           \/ (\E d \in Docs : Visit(d) \/ FailBeforeMove(d) \/ MoveToTrash(d))
           \/ (\E x \in Paths : Tamper(x))
  <2>1. UNCHANGED <<history, place, row, listing>>
    BY <1>5 DEF Fetch, Write, FailNode, BeginDeletes, Visit, FailBeforeMove, MoveToTrash,
             Tamper, vars, remote, local, volatile
  <2>2. QED  BY <2>1, TidyFrame
<1>6. QED  BY <1>1, <1>2, <1>3, <1>4, <1>5 DEF Next, Round

-----------------------------------------------------------------------------
(* What has been written stays. *)

\* Steps that are not about the document; its revisions may become more.
LEMMA RenewedFrame ==
  ASSUME TypeInv, Tidy, NEW d \in Docs, Renewed(d), Remote \/ UNCHANGED history,
         row'[d] = row[d], listing'[d] = listing[d], force' = force,
         d \in Listed /\ (InHand(d) \/ row[d].path = Target(d)) =>
           disk'[Target(d)] = disk[Target(d)],
         pc' # "idle" => pc # "idle",
         d \in todo \cup failed => d \in todo' \cup failed',
         InHand(d)' => InHand(d) /\ pc' = pc /\ draft' = draft,
         InHand(d) => InHand(d)' \/ d \in failed'
  PROVE  Renewed(d)'
<1>1. /\ (d \in Listed)' = (d \in Listed) /\ (d \in Mirrored)' = (d \in Mirrored)
      /\ (d \in Active)' = (d \in Active) /\ Target(d)' = Target(d)
  BY DEF Listed, Mirrored, Active, Target
<1>2. /\ Len(history[d]) \in Nat /\ Len(history'[d]) \in Nat
      /\ Len(history[d]) <= Len(history'[d])
      /\ \A i \in 1..Len(history[d]) : history'[d][i] = history[d][i]
  BY HistoryKept
<1>3. \A b : d \in Listed /\ Recent(d, b) =>
        \E i \in listing[d].since..Len(history'[d]) : history'[d][i].body = b
  BY <1>2, TidyTargets DEF Recent
<1>4. d \in Listed /\ Faithful(d) => Faithful(d)'
  <2>1. SUFFICES ASSUME d \in Listed, Faithful(d) PROVE Faithful(d)'
    OBVIOUS
  <2>2. disk'[Target(d)] = disk[Target(d)] /\ Recent(d, disk[Target(d)].body)
    BY <2>1 DEF Faithful, Recent
  <2>3. QED  BY <1>1, <1>3, <2>1, <2>2 DEF Faithful
<1>5. SUFFICES ASSUME pc' # "idle", force, d \in Listed
               PROVE  /\ (~InHand(d) /\ d \notin todo \cup failed => Faithful(d))'
                      /\ (InHand(d) /\ pc \in {"write", "save"} =>
                           draft.status \in {"active", "pending_assets"} /\ Recent(d, draft.hash))'
                      /\ (InHand(d) /\ pc = "save" =>
                           disk[Target(d)] = [doc |-> d, body |-> draft.hash,
                                              whole |-> draft.status = "active"])'
  BY <1>1 DEF Renewed
<1>6. (~InHand(d) /\ d \notin todo \cup failed => Faithful(d))'
  BY <1>4, <1>5 DEF Renewed
<1>7. ASSUME InHand(d)', pc' \in {"write", "save"}
      PROVE  draft'.status \in {"active", "pending_assets"} /\ Recent(d, draft.hash)'
  <2>1. draft' = draft /\ pc' = pc /\ InHand(d)  BY <1>7
  <2>2. draft.status \in {"active", "pending_assets"} /\ Recent(d, draft.hash)
    BY <1>5, <1>7, <2>1 DEF Renewed
  <2>3. QED  BY <1>3, <1>5, <2>1, <2>2 DEF Recent
<1>8. ASSUME InHand(d)', pc' = "save"
      PROVE  disk'[Target(d)'] = [doc |-> d, body |-> draft'.hash,
                                  whole |-> draft'.status = "active"]
  BY <1>1, <1>5, <1>8 DEF Renewed
<1>9. QED  BY <1>6, <1>7, <1>8

\* The file at a row's path is no other document's to move, overwrite or trash.
LEMMA RowPathIsSafe ==
  ASSUME TypeInv, Tidy, NEW d \in Listed, row[d].path = Target(d),
         \/ \E e \in Docs \ {d} : Visit(e)
         \/ Write /\ cur # d
         \/ \E e \in Docs : MoveToTrash(e)
  PROVE  disk'[Target(d)] = disk[Target(d)]
<1>1. d \in Docs /\ Target(d) \in Paths /\ Target(d) \in {"tree"} \X Places /\ Target(d) # NoPath
  BY TidyTargets, AbsenceAssumption
<1>2. ASSUME NEW e \in Docs \ {d}, Visit(e) PROVE disk'[Target(d)] = disk[Target(d)]
  <2>1. e \in Listed /\ disk' = Relocated(e)  BY <1>2 DEF Visit, TypeInv, Control
  <2>2. Target(e) # Target(d) /\ row[e].path # Target(d)
    BY <1>1, <2>1 DEF Tidy
  <2>3. QED  BY <1>1, <2>1, <2>2 DEF Relocated, TypeInv, TypeOK
<1>3. CASE Write /\ cur # d
  <2>1. cur \in Docs /\ cur \in Listed
    BY <1>3, ListedEntry DEF Write, TypeInv, Control
  <2>2. Target(cur) # Target(d)  BY <1>1, <1>3, <2>1 DEF Tidy
  <2>3. QED  BY <1>1, <1>3, <2>2 DEF Write, TypeInv, TypeOK
<1>4. ASSUME NEW e \in Docs, MoveToTrash(e) PROVE disk'[Target(d)] = disk[Target(d)]
  <2>1. e # d  BY <1>4 DEF MoveToTrash, TypeInv, Control
  <2>2. row[e].path # Target(d)  BY <1>1, <2>1 DEF Tidy
  <2>3. TrashPath(e) # Target(d)  BY <1>1 DEF TrashPath, Trash
  <2>4. QED  BY <1>1, <1>4, <2>2, <2>3 DEF MoveToTrash, TypeInv, TypeOK
<1>5. QED  BY <1>2, <1>3, <1>4

\* Fetch, write and save of the document in hand.
LEMMA RenewedInHand ==
  ASSUME TypeInv, Tidy, NEW d \in Docs, Renewed(d), cur = d, Fetch \/ Write \/ Save
  PROVE  Renewed(d)'
<1>1. /\ UNCHANGED <<history, listing, force, failed, todo>> /\ d \in Listed
      /\ pc # "idle" /\ InHand(d)
  BY DEF Fetch, Write, Save, remote, volatile, TypeInv, Control, InHand
<1>2. (d \in Listed)' /\ Target(d)' = Target(d)  BY <1>1 DEF Listed, Target
<1>3. Target(d) \in Paths /\ listing[d].since \in 1..Len(history[d]) /\ Len(history[d]) \in Nat
  BY <1>1, TidyTargets
<1>4. CASE Fetch
  <2>1. /\ UNCHANGED <<row, disk>> /\ cur' = d /\ pc' \in {"save", "write"}
        /\ draft'.hash = Tip(d).body /\ draft'.status \in {"active", "pending_assets"}
        /\ force => pc' = "write"
    BY <1>4 DEF Fetch, SameContent
  <2>2. Len(history[d]) \in listing[d].since..Len(history[d])  BY <1>3
  <2>3. Recent(d, Tip(d).body)  BY <2>2 DEF Recent, Tip
  <2>4. InHand(d)' /\ Recent(d, draft.hash)'
    BY <1>1, <2>1, <2>3 DEF InHand, Recent
  <2>5. QED  BY <1>1, <2>1, <2>4 DEF Renewed
<1>5. CASE Write
  <2>1. /\ UNCHANGED <<row, cur, draft>> /\ pc = "write" /\ pc' = "save"
        /\ disk'[Target(d)] = [doc |-> d, body |-> draft.hash, whole |-> draft.status = "active"]
    BY <1>3, <1>5 DEF Write, volatile, TypeInv, TypeOK
  <2>2. InHand(d)'  BY <1>1, <2>1 DEF InHand
  <2>3. force => Recent(d, draft.hash)' /\ draft.status \in {"active", "pending_assets"}
    BY <1>1, <2>1 DEF Renewed, Recent
  <2>4. QED  BY <1>1, <1>2, <2>1, <2>2, <2>3 DEF Renewed
<1>6. CASE Save
  <2> DEFINE r == [status |-> draft.status, path |-> Target(d),
                   edited |-> listing[d].edited, hash |-> draft.hash]
  <2>1. /\ UNCHANGED disk /\ pc = "save" /\ pc' = "walk" /\ row'[d] = r
    BY <1>6 DEF Save, TypeInv, TypeOK
  <2>2. r.status = draft.status /\ r.path = Target(d)  OBVIOUS
  <2> HIDE DEF r
  <2>3. ~InHand(d)'  BY <2>1 DEF InHand
  <2>4. ASSUME force PROVE Faithful(d)'
    <3> DEFINE f == [doc |-> d, body |-> draft.hash, whole |-> draft.status = "active"]
    <3>1. /\ draft.status \in {"active", "pending_assets"} /\ Recent(d, draft.hash)
          /\ disk[Target(d)] = f
      BY <1>1, <2>1, <2>4 DEF Renewed
    <3>2. f.doc = d /\ f.body = draft.hash /\ f.whole = (draft.status = "active")
      OBVIOUS
    <3>3. f # NoFile
      <4>1. f \in File  BY DEF File, TypeInv, TypeOK
      <4>2. QED  BY <4>1, AbsenceAssumption
    <3> HIDE DEF f
    <3>4. (d \in Mirrored)' /\ ((d \in Active)' => draft.status = "active")
      BY <2>1, <2>2, <3>1 DEF Mirrored, Active
    <3>5. QED
      BY <1>1, <1>2, <2>1, <2>2, <3>1, <3>2, <3>3, <3>4 DEF Faithful, Recent
  <2>5. QED  BY <1>1, <2>1, <2>3, <2>4 DEF Renewed
<1>7. QED  BY <1>4, <1>5, <1>6

LEMMA RenewedNext ==
  ASSUME TypeInv, Tidy, [Next]_vars, NEW d \in Docs, Renewed(d)
  PROVE  Renewed(d)'
<1>1. CASE Remote
  <2>1. UNCHANGED <<local, pc, volatile>>
    BY <1>1 DEF Remote, Share, Unshare, Rename, Edit
  <2>2. InHand(d)' = InHand(d)  BY <2>1 DEF InHand, volatile
  <2>3. QED  BY <1>1, <2>1, <2>2, RenewedFrame DEF local, volatile
<1>2. CASE StartRound
  <2>1. /\ pc' = "walk" /\ (d \in Listed' => d \in todo')
    BY <1>2 DEF StartRound, Listed
  <2>2. ~InHand(d)'  BY <2>1 DEF InHand
  <2>3. QED  BY <2>1, <2>2 DEF Renewed
<1>3. CASE AbortRound \/ Finish \/ Crash
  <2>1. pc' = "idle"  BY <1>3 DEF AbortRound, Finish, Crash, Rest
  <2>2. QED  BY <2>1 DEF Renewed
<1>4. CASE (Fetch \/ Write \/ Save) /\ cur = d  BY <1>4, RenewedInHand
<1>5. CASE Visit(d)
  <2>1. force' = force /\ (force => pc' = "fetch" /\ cur' = d)
    BY <1>5 DEF Visit, Unchanged
  <2>2. force => InHand(d)'  BY <2>1 DEF InHand
  <2>3. QED  BY <2>1, <2>2 DEF Renewed
<1>6. CASE Tombstone /\ cur = d
  <2>1. UNCHANGED listing /\ d \notin Listed
    BY <1>6 DEF Tombstone, TypeInv, Control
  <2>2. d \notin Listed'  BY <2>1 DEF Listed
  <2>3. QED  BY <2>2 DEF Renewed
<1>7. CASE (Fetch \/ Save \/ Tombstone) /\ cur # d
  <2>1. /\ UNCHANGED <<history, disk, listing, force, todo, failed>> /\ row'[d] = row[d]
        /\ pc # "idle" /\ cur' \in {cur, NoDoc}
        /\ pc' \in {"fetch", "write", "save"} => cur' = cur
    BY <1>7 DEF Fetch, Save, Tombstone, remote, TypeInv, TypeOK
  <2>2. ~InHand(d) /\ ~InHand(d)'
    BY <1>7, <2>1 DEF InHand
  <2>3. QED  BY <2>1, <2>2, RenewedFrame
<1>8. CASE Write /\ cur # d
  <2>1. /\ UNCHANGED <<history, row, listing, force, todo, failed, cur>> /\ pc = "write"
    BY <1>8 DEF Write, remote, volatile
  <2>2. ~InHand(d) /\ ~InHand(d)'  BY <1>8, <2>1 DEF InHand
  <2>3. d \in Listed /\ row[d].path = Target(d) => disk'[Target(d)] = disk[Target(d)]
    BY <1>8, RowPathIsSafe
  <2>4. QED  BY <2>1, <2>2, <2>3, RenewedFrame
<1>9. ASSUME NEW e \in Docs \ {d}, Visit(e) PROVE Renewed(d)'
  <2>1. /\ UNCHANGED <<history, row, listing, force, failed>> /\ pc = "walk"
        /\ todo' = todo \ {e} /\ (pc' = "walk" \/ cur' = e)
    BY <1>9 DEF Visit, remote
  <2>2. ~InHand(d) /\ ~InHand(d)'  BY <1>9, <2>1 DEF InHand
  <2>3. d \in Listed /\ row[d].path = Target(d) => disk'[Target(d)] = disk[Target(d)]
    BY <1>9, RowPathIsSafe
  <2>4. QED  BY <2>1, <2>2, <2>3, RenewedFrame
<1>10. ASSUME NEW e \in Docs, MoveToTrash(e) PROVE Renewed(d)'
  <2>1. /\ UNCHANGED <<history, row, listing, force, failed, todo>>
        /\ pc = "reap" /\ pc' = "tombstone"
    BY <1>10 DEF MoveToTrash, remote
  <2>2. ~InHand(d) /\ ~InHand(d)'  BY <2>1 DEF InHand
  <2>3. d \in Listed /\ row[d].path = Target(d) => disk'[Target(d)] = disk[Target(d)]
    BY <1>10, RowPathIsSafe
  <2>4. QED  BY <2>1, <2>2, <2>3, RenewedFrame
<1>11. CASE FailNode \/ BeginDeletes \/ UNCHANGED vars \/ \E e \in Docs : FailBeforeMove(e)
  <2>1. /\ UNCHANGED <<history, row, disk, listing, force>>
        /\ todo \cup failed \subseteq todo' \cup failed' /\ (pc' # "idle" => pc # "idle")
    BY <1>11 DEF FailNode, BeginDeletes, FailBeforeMove, vars, remote, local, volatile
  <2>2. InHand(d)' => InHand(d) /\ pc' = pc /\ draft' = draft
    BY <1>11 DEF FailNode, BeginDeletes, FailBeforeMove, vars, volatile, InHand
  <2>3. InHand(d) => InHand(d)' \/ d \in failed'
    BY <1>11 DEF FailNode, BeginDeletes, FailBeforeMove, vars, volatile, InHand
  <2>4. QED  BY <2>1, <2>2, <2>3, RenewedFrame
<1>12. ASSUME NEW x \in Paths, Tamper(x) PROVE Renewed(d)'
  <2>1. pc' = "idle"  BY <1>12 DEF Tamper
  <2>2. QED  BY <2>1 DEF Renewed
<1>13. QED
  BY <1>1, <1>2, <1>3, <1>4, <1>5, <1>6, <1>7, <1>8, <1>9, <1>10, <1>11, <1>12 DEF Next, Round

(* A forced round that reports no failure leaves nothing of what earlier rounds
   left behind, of local edits, of texts that came back and of edits that kept
   their edit time, however documents compete for paths. *)
THEOREM ForcedRoundAlwaysFaithful == Spec => []ForcedRoundIsFaithful
<1>1. Init => ForcedInv
  <2>1. SUFFICES ASSUME Init PROVE ForcedInv
    OBVIOUS
  <2>2. Listed = {} /\ pc = "idle" /\ \A d \in Docs : place[d] = Gone /\ row[d].path = NoPath
    BY <2>1 DEF Init, NoRow, Listed
  <2>3. Tidy  BY <2>2 DEF Tidy
  <2>4. QED  BY <2>1, <2>2, <2>3, InitTypeInv DEF ForcedInv, Renewed
<1>2. ForcedInv /\ [Next]_vars => ForcedInv'
  BY NextTypeInv, TidyNext, RenewedNext DEF ForcedInv
<1>3. ForcedInv => ForcedRoundIsFaithful
  <2>1. SUFFICES ASSUME ForcedInv, RoundDone, force, failed = {}, NEW d \in Listed
                 PROVE  Faithful(d)
    BY DEF ForcedRoundIsFaithful
  <2>2. d \in Docs /\ todo = {} /\ ~InHand(d) /\ pc # "idle"
    BY <2>1 DEF ForcedInv, TypeInv, Control, RoundDone, Listed, InHand
  <2>3. QED  BY <2>1, <2>2 DEF ForcedInv, Renewed
<1>4. QED  BY <1>1, <1>2, <1>3, PTL DEF Spec

-----------------------------------------------------------------------------
(***************************************************************************)
(* Rounds as long as nothing was reported.  Here documents compete for      *)
(* paths and rounds are unforced: a file is lost only to a document that    *)
(* will be refused its path, and that is a failure.                         *)
(***************************************************************************)
Located(d) == d \in Mirrored => row[d].path \in {"tree"} \X Places
Timed(d)   == d \in Listed => listing[d].edited = history[d][listing[d].since].edited

\* What holds whether or not anything was reported.
Known == TypeInv /\ Times /\ Tidy /\ Drafted /\ \A d \in Docs : Located(d) /\ Timed(d)

\* The file a row stands for.
Stands(d, file) ==
  file # NoFile /\ file.doc = d /\ file.body = row[d].hash /\ (d \in Active => file.whole)

\* The path of the document in hand: the walk may just have moved a file onto it.
Busy(x) == pc \in {"fetch", "write", "save"} /\ x = Target(cur)

Strict(d) ==
  \A i, j \in 1..Len(history[d]) : i < j => history[d][i].edited < history[d][j].edited

InPlace(d) ==
  d \in Mirrored /\ ~InHand(d) /\ ~Busy(row[d].path) /\ ~(pc = "tombstone" /\ cur = d) =>
    Stands(d, disk[row[d].path])

Finished(d) ==
  d \in Listed \ todo /\ ~InHand(d) =>
    d \in Mirrored /\ row[d].path = Target(d) /\ Recent(d, row[d].hash)

NoOrphans ==
  \A x \in {"tree"} \X Places : disk[x] # NoFile =>
    Busy(x) \/ \E d \in Mirrored : row[d].path = x /\ ~InHand(d)

Emptied == pc = "tombstone" => disk[row[cur].path] = NoFile

\* What is at the path of the document in hand, if no other row has that path.
Caught ==
  /\ pc \in {"write", "save"} => Recent(cur, draft.hash)
  /\ pc = "fetch" /\ ~Taken(cur, Target(cur)) /\ disk[Target(cur)] # NoFile =>
       cur \in Mirrored /\ Stands(cur, disk[Target(cur)])
  /\ pc = "save" /\ ~Taken(cur, Target(cur)) =>
       LET file == disk[Target(cur)]
       IN  file # NoFile /\ file.doc = cur /\ file.body = draft.hash
           /\ (draft.status = "active" => file.whole)

Sound ==
  /\ failed = {} /\ NoOrphans /\ Emptied /\ Caught
  /\ \A d \in Docs : Strict(d) /\ InPlace(d) /\ Finished(d)

-----------------------------------------------------------------------------
(* What is known anyway. *)

LEMMA InitKnown == Init => Known /\ Sound
<1>1. SUFFICES ASSUME Init PROVE Known /\ Sound
  OBVIOUS
<1>2. /\ Listed = {} /\ pc = "idle" /\ Mirrored = {} /\ failed = {}
      /\ \A d \in Docs : place[d] = Gone /\ row[d].path = NoPath /\ history[d] = <<>>
      /\ \A x \in Paths : disk[x] = NoFile
  BY <1>1 DEF Init, NoRow, Listed, Mirrored
<1>3. Tidy  BY <1>2 DEF Tidy
<1>4. Known  BY <1>1, <1>2, <1>3, InitTypeInv, InitTimes DEF Known, Drafted, Located, Timed
<1>5. {"tree"} \X Places \subseteq Paths  BY DEF Paths
<1>6. \A d \in Docs : Strict(d) /\ InPlace(d) /\ Finished(d)
  BY <1>2 DEF Strict, InPlace, Finished
<1>7. NoOrphans /\ Emptied /\ Caught  BY <1>2, <1>5 DEF NoOrphans, Emptied, Caught
<1>8. QED  BY <1>2, <1>4, <1>6, <1>7 DEF Sound

LEMMA HistoryStep == [Next]_vars => Remote \/ UNCHANGED history
  BY DEF Next, Round, StartRound, Visit, FailBeforeMove, Fetch, Write, Save, FailNode,
         BeginDeletes, MoveToTrash, Tombstone, AbortRound, Finish, Crash, Tamper, vars, remote

LEMMA LocatedNext ==
  ASSUME Known, [Next]_vars, NEW d \in Docs
  PROVE  Located(d)'
<1>1. CASE Save
  <2>1. cur \in Docs /\ Target(cur) \in {"tree"} \X Places
    BY <1>1, TidyTargets DEF Save, Known, TypeInv, Control
  <2> DEFINE r == [status |-> draft.status, path |-> Target(cur),
                   edited |-> listing[cur].edited, hash |-> draft.hash]
  <2>2. row' = [row EXCEPT ![cur] = r] /\ r.path = Target(cur)  BY <1>1 DEF Save
  <2> HIDE DEF r
  <2>3. row'[d] = IF d = cur THEN r ELSE row[d]  BY <2>2 DEF Known, TypeInv, TypeOK
  <2>4. QED  BY <2>1, <2>2, <2>3 DEF Known, Located, Mirrored
<1>2. CASE Tombstone
  <2>1. row'[d] = row[d] \/ row'[d].status = "trashed"
    BY <1>2 DEF Tombstone, Known, TypeInv, TypeOK, Row
  <2>2. QED  BY <2>1 DEF Known, Located, Mirrored
<1>3. CASE UNCHANGED row  BY <1>3 DEF Known, Located, Mirrored
<1>4. QED
  BY <1>1, <1>2, <1>3
     DEF Next, Remote, Share, Unshare, Rename, Edit, Round, StartRound, Visit, FailBeforeMove,
         Fetch, Write, FailNode, BeginDeletes, MoveToTrash, AbortRound, Finish, Crash, Tamper,
         vars, local

LEMMA TimedNext ==
  ASSUME Known, [Next]_vars, NEW d \in Docs
  PROVE  Timed(d)'
<1>1. CASE StartRound
  <2>1. UNCHANGED history /\ \A e \in Listed' :
          listing'[e].edited = Tip(e).edited /\ listing'[e].since = Len(history[e])
    BY <1>1 DEF StartRound, Listed, remote
  <2>2. QED  BY <2>1 DEF Timed, Tip
<1>2. CASE UNCHANGED listing
  <2>1. Listed' = Listed  BY <1>2 DEF Listed
  <2>2. d \in Listed => history'[d][listing[d].since] = history[d][listing[d].since]
    BY HistoryKept, HistoryStep, TidyTargets DEF Known
  <2>3. QED  BY <1>2, <2>1, <2>2 DEF Known, Timed
<1>3. CASE Rest  BY <1>3 DEF Rest, Listed, Timed
<1>4. QED
  BY <1>1, <1>2, <1>3
     DEF Next, Remote, Share, Unshare, Rename, Edit, Round, Visit, FailBeforeMove,
         Fetch, Write, Save, FailNode, BeginDeletes, MoveToTrash, Tombstone, AbortRound, Finish,
         Crash, Tamper, vars, volatile

LEMMA KnownNext ==
  ASSUME Known, [Next]_vars
  PROVE  Known'
  BY NextTypeInv, NextTimes, TidyNext, DraftedNext, LocatedNext, TimedNext DEF Known

\* A mirrored document's row has a path of the tree that no other row has.
LEMMA MirroredPath ==
  ASSUME Known, NEW d \in Docs, d \in Mirrored
  PROVE  /\ row[d].path \in {"tree"} \X Places /\ row[d].path \in Paths
         /\ \A e \in Docs \ {d} : row[e].path # row[d].path
<1>1. row[d].path \in {"tree"} \X Places /\ row[d].path \in Paths
  BY DEF Known, Located, Paths
<1>2. row[d].path # NoPath  BY <1>1, AbsenceAssumption
<1>3. QED  BY <1>1, <1>2 DEF Known, Tidy

\* Revisions are only added behind those there were.
LEMMA RecentKept ==
  ASSUME Known, NEW d \in Listed, NEW b, Recent(d, b), Remote \/ UNCHANGED history,
         listing' = listing
  PROVE  \E i \in listing'[d].since..Len(history'[d]) : history'[d][i].body = b
<1>1. d \in Docs /\ listing[d].since \in 1..Len(history[d]) /\ Len(history[d]) \in Nat
  BY TidyTargets DEF Known
<1>2. /\ Len(history'[d]) \in Nat /\ Len(history[d]) <= Len(history'[d])
      /\ \A i \in 1..Len(history[d]) : history'[d][i] = history[d][i]
  BY <1>1, HistoryKept DEF Known
<1>3. PICK i \in listing[d].since..Len(history[d]) : history[d][i].body = b
  BY DEF Recent
<1>4. i \in 1..Len(history[d]) /\ i \in listing[d].since..Len(history'[d])
  BY <1>1, <1>2, <1>3
<1>5. QED  BY <1>2, <1>3, <1>4

-----------------------------------------------------------------------------
(* A skip is of a text that is recent. *)

LEMMA SkipIsRecent ==
  ASSUME Known, NEW d \in Listed, Strict(d), row[d].status = "active",
         row[d].edited = listing[d].edited
  PROVE  Recent(d, row[d].hash)
<1>1. d \in Docs /\ listing[d].since \in 1..Len(history[d]) /\ Len(history[d]) \in Nat
  BY TidyTargets DEF Known
<1>2. listing[d].edited = history[d][listing[d].since].edited  BY <1>1 DEF Known, Timed
<1>3. PICK i \in 1..Len(history[d]) :
        history[d][i].body = row[d].hash /\ history[d][i].edited >= row[d].edited
  BY <1>1 DEF Known, Times, RowNotAhead, NotOlder
<1>4. history[d][i].edited \in Nat /\ history[d][listing[d].since].edited \in Nat
  BY <1>1, HistoryTyped DEF Known, TypeInv
<1>5. ~(i < listing[d].since)  BY <1>1, <1>2, <1>3, <1>4 DEF Strict
<1>6. i \in listing[d].since..Len(history[d])  BY <1>1, <1>5
<1>7. QED  BY <1>3, <1>6 DEF Recent

LEMMA StrictNext ==
  ASSUME Known, [Next]_vars, ~Spoils, NEW d \in Docs, Strict(d)
  PROVE  Strict(d)'
<1>1. history[d] \in Seq(Revision) /\ Len(history[d]) \in Nat
      /\ \A k \in 1..Len(history[d]) : history[d][k].edited \in Nat
  BY HistoryTyped DEF Known, TypeInv, TypeOK
<1>2. CASE history'[d] = history[d]  BY <1>2 DEF Strict
<1>3. CASE history'[d] = <<[body |-> 1, edited |-> 1]>>  BY <1>3 DEF Strict
<1>4. CASE Edit(d)
  <2>1. Len(history[d]) > 0 /\ Tip(d).edited \in Nat  BY <1>4, EditAppends DEF Known
  <2>2. PICK b \in Nat, t \in Nat :
          /\ t \in {Tip(d).edited, Tip(d).edited + 1}
          /\ history' = [history EXCEPT ![d] = Append(history[d], [body |-> b, edited |-> t])]
    BY <1>4, EditAppends DEF Known
  <2>3. history'[d] = Append(history[d], [body |-> b, edited |-> t])
    BY <2>2 DEF Known, TypeInv, TypeOK
  <2>4. /\ Len(history'[d]) = Len(history[d]) + 1
        /\ \A k \in 1..Len(history[d]) : history'[d][k] = history[d][k]
        /\ history'[d][Len(history[d]) + 1] = [body |-> b, edited |-> t]
    BY <1>1, <2>3
  <2>5. history'[d] # history[d] /\ history[d] # <<>>  BY <1>1, <2>1, <2>4
  <2>6. t # Tip(d).edited  BY <2>4, <2>5 DEF Spoils, Tip
  <2>7. t = Tip(d).edited + 1  BY <2>2, <2>6
  <2>8. SUFFICES ASSUME NEW i \in 1..Len(history'[d]), NEW j \in 1..Len(history'[d]), i < j
                 PROVE  history'[d][i].edited < history'[d][j].edited
    BY DEF Strict
  <2>9. CASE j <= Len(history[d])
    <3>1. i \in 1..Len(history[d]) /\ j \in 1..Len(history[d])  BY <1>1, <2>4, <2>8, <2>9
    <3>2. history'[d][i] = history[d][i] /\ history'[d][j] = history[d][j]
      BY <2>4, <3>1
    <3>3. QED  BY <2>8, <3>1, <3>2 DEF Strict
  <2>10. CASE j = Len(history[d]) + 1
    <3>1. i \in 1..Len(history[d])  BY <1>1, <2>4, <2>8, <2>10
    <3>2. history[d][i].edited <= Tip(d).edited
      BY <1>1, <2>1, <3>1 DEF Known, Times, EditTimesGrow, Tip
    <3>3. history'[d][i].edited = history[d][i].edited /\ history'[d][j].edited = t
      BY <2>4, <2>10, <3>1
    <3>4. QED  BY <1>1, <2>1, <2>7, <3>1, <3>2, <3>3
  <2>11. QED  BY <1>1, <2>4, <2>9, <2>10
<1>5. CASE Remote
  <2>1. ASSUME NEW e \in Docs, Share(e) PROVE Strict(d)'
    <3>1. history'[d] \in {history[d], <<[body |-> 1, edited |-> 1]>>}
      BY <2>1 DEF Share, Known, TypeInv, TypeOK
    <3>2. QED  BY <1>2, <1>3, <3>1
  <2>2. ASSUME NEW e \in Docs \ {d}, Edit(e) PROVE Strict(d)'
    <3>1. history'[d] = history[d]  BY <2>2 DEF Edit, Known, TypeInv, TypeOK
    <3>2. QED  BY <1>2, <3>1
  <2>3. QED  BY <1>2, <1>4, <1>5, <2>1, <2>2 DEF Remote, Unshare, Rename
<1>6. QED  BY <1>2, <1>5, HistoryStep

-----------------------------------------------------------------------------
(* One lemma per kind of step. *)

\* Steps that leave the round where it is.
LEMMA SoundSame ==
  ASSUME Known, Sound, Remote \/ UNCHANGED history,
         UNCHANGED <<row, disk, pc, listing, todo, cur, draft, failed>>,
         \A d \in Docs : Strict(d)'
  PROVE  Sound'
<1>1. /\ Listed' = Listed /\ Mirrored' = Mirrored /\ Active' = Active /\ Listed \subseteq Docs
      /\ \A d : Target(d)' = Target(d) /\ InHand(d)' = InHand(d)
      /\ \A x : Busy(x)' = Busy(x)
  BY DEF Listed, Mirrored, Active, Target, InHand, Busy
<1>2. Caught'
  <2>1. pc \in {"fetch", "write", "save"} => cur \in Listed  BY DEF Known, TypeInv, Control
  <2>2. pc \in {"write", "save"} => Recent(cur, draft.hash)'
    BY <2>1, RecentKept DEF Sound, Caught, Recent
  <2>3. QED  BY <1>1, <2>2 DEF Sound, Caught, Taken, Stands
<1>3. ASSUME NEW d \in Docs PROVE InPlace(d)' /\ Finished(d)'
  <2>1. InPlace(d)'  BY <1>1 DEF Sound, InPlace, Stands
  <2>2. d \in Listed /\ Recent(d, row[d].hash) => Recent(d, row[d].hash)'
    BY RecentKept DEF Recent
  <2>3. QED  BY <1>1, <2>1, <2>2 DEF Sound, Finished
<1>4. NoOrphans' /\ Emptied'  BY <1>1 DEF Sound, NoOrphans, Emptied
<1>5. QED  BY <1>2, <1>3, <1>4 DEF Sound

\* Steps between two documents.
LEMMA SoundBetween ==
  ASSUME Known, Sound, UNCHANGED <<history, row, disk>>, failed' = {},
         {pc, pc'} \subseteq {"idle", "walk", "reap"}, \A d \in Docs : Finished(d)'
  PROVE  Sound'
<1>1. /\ Mirrored' = Mirrored /\ Active' = Active
      /\ \A d : ~InHand(d) /\ ~InHand(d)'
      /\ \A x : ~Busy(x) /\ ~Busy(x)'
  BY DEF Mirrored, Active, InHand, Busy
<1>2. Caught' /\ Emptied'  BY DEF Caught, Emptied
<1>3. ASSUME NEW d \in Docs PROVE Strict(d)' /\ InPlace(d)'
  BY <1>1 DEF Sound, Strict, InPlace, Stands
<1>4. NoOrphans'  BY <1>1 DEF Sound, NoOrphans
<1>5. QED  BY <1>2, <1>3, <1>4 DEF Sound

\* The walk takes up a document: the file it has moved, or finds in place, is the
\* document's own, or the path is another row's.
LEMMA VisitSound ==
  ASSUME Known, Sound, NEW d \in Docs, Visit(d), \A e \in Docs : Strict(e)'
  PROVE  Sound'
<1> DEFINE x == Target(d)
           old == row[d].path
<1>1. /\ UNCHANGED <<history, row, listing, failed>> /\ pc = "walk" /\ d \in todo
      /\ todo' = todo \ {d} /\ disk' = Relocated(d) /\ d \in Listed
  BY DEF Visit, remote, Known, TypeInv, Control
<1>2. x \in Paths /\ x \in {"tree"} \X Places  BY <1>1, TidyTargets DEF Known
<1>3. /\ Listed' = Listed /\ Mirrored' = Mirrored /\ Active' = Active
      /\ \A e : Target(e)' = Target(e) /\ ~InHand(e) /\ ~Busy(e)
  BY <1>1 DEF Listed, Mirrored, Active, Target, InHand, Busy
<1>4. \A e \in Docs : e \in Mirrored => Stands(e, disk[row[e].path])
  BY <1>1, <1>3 DEF Sound, InPlace
<1>5. Unchanged(d) => d \in Mirrored /\ Recent(d, row[d].hash)
  BY <1>1, SkipIsRecent DEF Unchanged, Mirrored, Sound
<1>6. CASE pc' = "walk"
  <2>1. Unchanged(d) /\ ~Moved(d)  BY <1>6 DEF Visit
  <2>2. disk' = disk  BY <1>1, <2>1 DEF Relocated
  <2>3. row[d].path = x  BY <2>1 DEF Unchanged, Moved
  <2>4. ASSUME NEW e \in Docs PROVE Finished(e)'
    <3>1. CASE e = d  BY <1>1, <1>3, <1>5, <2>1, <2>3, <3>1 DEF Finished, Recent
    <3>2. CASE e # d
      <4>1. Finished(e)  BY DEF Sound
      <4>2. QED  BY <1>1, <1>3, <3>2, <4>1 DEF Finished, Recent
    <3>3. QED  BY <3>1, <3>2
  <2>5. QED  BY <1>1, <1>6, <2>2, <2>4, SoundBetween DEF Sound
<1>7. CASE pc' # "walk"
  <2>1. /\ pc' \in {"fetch", "save"} /\ cur' = d
        /\ pc' = "save" =>
             /\ Unchanged(d) /\ Moved(d) /\ draft'.hash = row[d].hash /\ draft'.status = "active"
    BY <1>7 DEF Visit
  <2>2. /\ \A e \in Docs : InHand(e)' = (e = d)
        /\ \A y : Busy(y)' = (y = x)
    BY <1>3, <2>1 DEF InHand, Busy
  <2>3. \A y \in Paths \ {x, old} : disk'[y] = disk[y]
    BY <1>1, <1>2 DEF Relocated, Known, TypeInv, TypeOK
  <2>4. Moved(d) => d \in Mirrored /\ old \in Paths /\ old # x /\ disk'[old] = NoFile
                    /\ disk'[x] = disk[old] /\ Stands(d, disk[old])
    <3>1. SUFFICES ASSUME Moved(d)
                   PROVE  d \in Mirrored /\ old \in Paths /\ old # x /\ disk'[old] = NoFile
                          /\ disk'[x] = disk[old] /\ Stands(d, disk[old])
      OBVIOUS
    <3>2. d \in Mirrored /\ old # x  BY <3>1 DEF Moved, Mirrored
    <3>3. old \in Paths /\ Stands(d, disk[old])  BY <1>4, <3>2, MirroredPath
    <3>4. disk[old] # NoFile  BY <3>3 DEF Stands
    <3>5. disk' = [disk EXCEPT ![x] = disk[old], ![old] = NoFile]
      BY <1>1, <3>1, <3>4 DEF Relocated
    <3>6. QED  BY <1>2, <3>2, <3>3, <3>5 DEF Known, TypeInv, TypeOK
  <2>5. ~Moved(d) => disk' = disk /\ (d \in Mirrored => old = x)
    BY <1>1 DEF Relocated, Moved, Mirrored
  <2> HIDE DEF x, old
  <2>6. ASSUME NEW e \in Docs PROVE InPlace(e)' /\ Finished(e)'
    <3>1. ASSUME e \in Mirrored, e # d, row[e].path # x PROVE disk'[row[e].path] = disk[row[e].path]
      <4>1. row[e].path \in Paths \ {x, old}  BY <3>1, MirroredPath DEF old
      <4>2. QED  BY <2>3, <4>1
    <3>2. InPlace(e)'
      BY <1>1, <1>3, <1>4, <2>2, <3>1 DEF InPlace, Stands
    <3>3. Finished(e)  BY DEF Sound
    <3>4. QED  BY <1>1, <1>3, <2>2, <3>2, <3>3 DEF Finished, Recent
  <2>7. NoOrphans'
    <3>1. SUFFICES ASSUME NEW y \in {"tree"} \X Places, disk'[y] # NoFile, y # x
                   PROVE  \E e \in Mirrored : row[e].path = y /\ e # d
      BY <1>1, <1>3, <2>2 DEF NoOrphans, Mirrored
    <3>2. y \in Paths  BY DEF Paths
    <3>3. y = old => d \notin Mirrored \/ ~Moved(d)  BY <2>4, <3>1
    <3>4. disk[y] # NoFile  BY <2>3, <2>4, <2>5, <3>1, <3>2
    <3>5. PICK e \in Mirrored : row[e].path = y  BY <1>3, <3>4 DEF Sound, NoOrphans
    <3>6. e # d  BY <2>4, <2>5, <3>1, <3>5 DEF old
    <3>7. QED  BY <3>5, <3>6
  <2>8. Caught'
    <3>1. pc' = "save" => Recent(d, row[d].hash) /\ Stands(d, disk'[x]) /\ d \in Active
      BY <1>5, <2>1, <2>4 DEF Unchanged, Active
    <3>2. ASSUME ~Taken(d, x), disk'[x] # NoFile PROVE d \in Mirrored /\ Stands(d, disk'[x])
      <4>1. CASE Moved(d)  BY <2>4, <4>1
      <4>2. CASE ~Moved(d)
        <5>1. disk[x] # NoFile  BY <2>5, <3>2, <4>2
        <5>2. PICK e \in Mirrored : row[e].path = x
          BY <1>2, <1>3, <5>1 DEF Sound, NoOrphans
        <5>3. e = d  BY <3>2, <5>2 DEF Taken, Mirrored
        <5>4. QED  BY <1>4, <2>5, <4>2, <5>2, <5>3
      <4>3. QED  BY <4>1, <4>2
    <3>3. (Taken(d, x))' = Taken(d, x)  BY <1>1, <1>3 DEF Taken, x
    <3>4. Target(cur)' = x  BY <1>3, <2>1 DEF x, Target
    <3>5. pc' \in {"write", "save"} => Recent(cur, draft.hash)'
      BY <1>1, <2>1, <3>1 DEF Recent
    <3>6. pc' = "fetch" /\ ~Taken(cur, Target(cur))' /\ disk'[x] # NoFile =>
            (cur \in Mirrored)' /\ Stands(cur, disk[Target(cur)])'
      BY <1>1, <1>3, <2>1, <3>2, <3>3, <3>4 DEF Stands, Taken
    <3>7. pc' = "save" => disk'[x] # NoFile /\ disk'[x].doc = cur' /\ disk'[x].body = draft'.hash
                          /\ disk'[x].whole
      BY <2>1, <3>1 DEF Stands
    <3>8. QED  BY <3>4, <3>5, <3>6, <3>7 DEF Caught
  <2>9. Emptied'  BY <2>1 DEF Emptied
  <2>10. QED  BY <1>1, <2>6, <2>7, <2>8, <2>9 DEF Sound
<1>8. QED  BY <1>6, <1>7

LEMMA FetchSound ==
  ASSUME Known, Sound, Fetch, \A d \in Docs : Strict(d)'
  PROVE  Sound'
<1>1. /\ UNCHANGED <<history, row, disk, listing, todo, cur, failed>>
      /\ pc = "fetch" /\ pc' \in {"write", "save"} /\ cur \in Listed
      /\ draft'.hash = Tip(cur).body
      /\ pc' = "save" => SameContent(cur, Tip(cur).body) /\ draft'.status = "active"
  BY DEF Fetch, remote, Known, TypeInv, Control
<1>2. /\ Listed' = Listed /\ Mirrored' = Mirrored /\ Active' = Active
      /\ \A d : Target(d)' = Target(d) /\ InHand(d)' = InHand(d)
      /\ \A x : Busy(x)' = Busy(x)
  BY <1>1 DEF Listed, Mirrored, Active, Target, InHand, Busy
<1>3. Recent(cur, draft.hash)'
  <2>1. cur \in Docs /\ listing[cur].since \in 1..Len(history[cur]) /\ Len(history[cur]) \in Nat
    BY <1>1, TidyTargets DEF Known
  <2>2. Len(history[cur]) \in listing[cur].since..Len(history[cur])  BY <2>1
  <2>3. QED  BY <1>1, <2>2 DEF Recent, Tip
<1>4. ASSUME pc' = "save", ~Taken(cur, Target(cur))
      PROVE  LET file == disk[Target(cur)]
             IN  file # NoFile /\ file.doc = cur /\ file.body = Tip(cur).body /\ file.whole
  <2>1. /\ disk[Target(cur)] # NoFile /\ row[cur].hash = Tip(cur).body
        /\ row[cur].status \notin {"none", "pending_assets"}
    BY <1>1, <1>4 DEF SameContent
  <2>2. cur \in Mirrored /\ Stands(cur, disk[Target(cur)])
    BY <1>1, <1>4, <2>1 DEF Sound, Caught
  <2>3. cur \in Active  BY <2>1, <2>2 DEF Mirrored, Active
  <2>4. QED  BY <2>1, <2>2, <2>3 DEF Stands
<1>5. Caught'
  BY <1>1, <1>2, <1>3, <1>4 DEF Caught, Taken
<1>6. ASSUME NEW d \in Docs PROVE InPlace(d)' /\ Finished(d)'
  <2>1. InPlace(d) /\ Finished(d)  BY DEF Sound
  <2>2. QED  BY <1>1, <1>2, <2>1 DEF InPlace, Finished, Stands, Recent
<1>7. NoOrphans' /\ Emptied'  BY <1>1, <1>2 DEF Sound, NoOrphans, Emptied
<1>8. QED  BY <1>1, <1>5, <1>6, <1>7 DEF Sound

LEMMA WriteSound ==
  ASSUME Known, Sound, Write, \A d \in Docs : Strict(d)'
  PROVE  Sound'
<1> DEFINE file == [doc |-> cur, body |-> draft.hash, whole |-> draft.status = "active"]
<1>1. /\ UNCHANGED <<history, row, listing, todo, cur, draft, failed>>
      /\ pc = "write" /\ pc' = "save" /\ cur \in Listed /\ cur \in Docs
      /\ disk' = [disk EXCEPT ![Target(cur)] = file]
  BY ListedEntry DEF Write, remote, volatile, Known, TypeInv, Control
<1>2. /\ Listed' = Listed /\ Mirrored' = Mirrored /\ Active' = Active
      /\ \A d : Target(d)' = Target(d) /\ InHand(d)' = InHand(d)
      /\ \A x : Busy(x)' = Busy(x) /\ Busy(x) = (x = Target(cur))
  BY <1>1 DEF Listed, Mirrored, Active, Target, InHand, Busy
<1>3. /\ Target(cur) \in Paths /\ disk'[Target(cur)] = file
      /\ \A x \in Paths \ {Target(cur)} : disk'[x] = disk[x]
  BY <1>1, TidyTargets DEF Known, TypeInv, TypeOK
<1>4. file # NoFile
  <2>1. file \in File  BY <1>1 DEF File, Known, TypeInv, TypeOK
  <2>2. QED  BY <2>1, AbsenceAssumption
<1>5. file.doc = cur /\ file.body = draft.hash /\ (draft.status = "active" => file.whole)
  OBVIOUS
<1> HIDE DEF file
<1>6. Recent(cur, draft.hash)'
  <2>1. Recent(cur, draft.hash)  BY <1>1 DEF Sound, Caught
  <2>2. QED  BY <1>1, <2>1 DEF Recent
<1>7. Caught'  BY <1>1, <1>2, <1>3, <1>4, <1>5, <1>6 DEF Caught
<1>8. ASSUME NEW d \in Docs PROVE InPlace(d)' /\ Finished(d)'
  <2>1. InPlace(d) /\ Finished(d)  BY DEF Sound
  <2>2. d \in Mirrored /\ row[d].path # Target(cur) => disk'[row[d].path] = disk[row[d].path]
    BY <1>3, MirroredPath
  <2>3. InPlace(d)'  BY <1>1, <1>2, <2>1, <2>2 DEF InPlace, Stands
  <2>4. QED  BY <1>1, <1>2, <2>1, <2>3 DEF Finished, Recent
<1>9. NoOrphans'
  <2>1. \A x \in {"tree"} \X Places : x \in Paths  BY DEF Paths
  <2>2. QED  BY <1>1, <1>2, <1>3, <2>1 DEF Sound, NoOrphans, Mirrored
<1>10. Emptied'  BY <1>1 DEF Emptied
<1>11. QED  BY <1>1, <1>7, <1>8, <1>9, <1>10 DEF Sound

\* UNIQUE(local_path) let the row be written: no other row had the path, and what
\* lies there is the document's own.
LEMMA SaveSound ==
  ASSUME Known, Sound, Save, \A d \in Docs : Strict(d)'
  PROVE  Sound'
<1> DEFINE x == Target(cur)
           r == [status |-> draft.status, path |-> x,
                 edited |-> listing[cur].edited, hash |-> draft.hash]
<1>1. /\ UNCHANGED <<history, disk, listing, todo, failed>>
      /\ pc = "save" /\ pc' = "walk" /\ cur \in Listed /\ cur \in Docs
      /\ row' = [row EXCEPT ![cur] = r] /\ ~Taken(cur, x)
  BY ListedEntry DEF Save, remote, Known, TypeInv, Control
<1>2. r.status = draft.status /\ r.path = x /\ r.hash = draft.hash
  OBVIOUS
<1>3. draft.status \in {"active", "pending_assets"} /\ Recent(cur, draft.hash)
      /\ LET file == disk[x]
         IN  file # NoFile /\ file.doc = cur /\ file.body = draft.hash
             /\ (draft.status = "active" => file.whole)
  BY <1>1 DEF Known, Drafted, Sound, Caught
<1>4. /\ Listed' = Listed
      /\ \A d : Target(d)' = Target(d) /\ ~InHand(d)' /\ InHand(d) = (d = cur)
      /\ \A y : ~Busy(y)' /\ Busy(y) = (y = x)
  BY <1>1 DEF Listed, Target, InHand, Busy
<1> HIDE DEF x, r
<1>5. /\ row'[cur] = r
      /\ \A d \in Docs \ {cur} : row'[d] = row[d] /\ row[d].path # x
  BY <1>1 DEF Taken, Known, TypeInv, TypeOK
<1>6. /\ cur \in Mirrored' /\ (cur \in Active') = (draft.status = "active")
      /\ \A d \in Docs \ {cur} : (d \in Mirrored)' = (d \in Mirrored)
                                 /\ (d \in Active)' = (d \in Active)
  BY <1>1, <1>2, <1>3, <1>5 DEF Mirrored, Active
<1>7. Caught' /\ Emptied'  BY <1>1 DEF Caught, Emptied
<1>8. ASSUME NEW d \in Docs PROVE InPlace(d)' /\ Finished(d)'
  <2>1. InPlace(d) /\ Finished(d)  BY DEF Sound
  <2>2. CASE d = cur
    <3>1. row'[d].path = x /\ row'[d].hash = draft.hash  BY <1>2, <1>5, <2>2
    <3>2. InPlace(d)'  BY <1>1, <1>3, <1>6, <2>2, <3>1 DEF InPlace, Stands
    <3>3. Target(d)' = x  BY <1>4, <2>2 DEF x
    <3>4. Finished(d)'
      BY <1>1, <1>3, <1>6, <2>2, <3>1, <3>3 DEF Finished, Recent
    <3>5. QED  BY <3>2, <3>4
  <2>3. CASE d # cur
    <3>1. InPlace(d)'
      BY <1>1, <1>4, <1>5, <1>6, <2>1, <2>3 DEF InPlace, Stands
    <3>2. Finished(d)'
      BY <1>1, <1>4, <1>5, <1>6, <2>1, <2>3 DEF Finished, Recent
    <3>3. QED  BY <3>1, <3>2
  <2>4. QED  BY <2>2, <2>3
<1>9. NoOrphans'
  <2>1. SUFFICES ASSUME NEW y \in {"tree"} \X Places, disk[y] # NoFile
                 PROVE  \E d \in Mirrored' : row'[d].path = y
    BY <1>1, <1>4 DEF NoOrphans
  <2>2. CASE y = x  BY <1>2, <1>5, <1>6, <2>2
  <2>3. CASE y # x
    <3>1. PICK d \in Mirrored : row[d].path = y /\ d # cur
      BY <1>4, <2>1, <2>3 DEF Sound, NoOrphans
    <3>2. QED  BY <1>5, <1>6, <3>1 DEF Mirrored
  <2>4. QED  BY <2>2, <2>3
<1>10. QED  BY <1>1, <1>7, <1>8, <1>9 DEF Sound

LEMMA MoveToTrashSound ==
  ASSUME Known, Sound, NEW d \in Docs, MoveToTrash(d), \A e \in Docs : Strict(e)'
  PROVE  Sound'
<1> DEFINE x == row[d].path
           t == TrashPath(d)
<1>1. /\ UNCHANGED <<history, row, listing, todo, failed>>
      /\ pc = "reap" /\ pc' = "tombstone" /\ cur' = d /\ d \in Active /\ d \in Mirrored
      /\ disk' = IF disk[x] # NoFile THEN [disk EXCEPT ![t] = disk[x], ![x] = NoFile] ELSE disk
  BY DEF MoveToTrash, remote, Known, TypeInv, Control, Active, Mirrored
<1>2. /\ Listed' = Listed /\ Mirrored' = Mirrored /\ Active' = Active
      /\ \A e : Target(e)' = Target(e) /\ ~InHand(e)' /\ ~InHand(e)
      /\ \A y : ~Busy(y)' /\ ~Busy(y)
  BY <1>1 DEF Listed, Mirrored, Active, Target, InHand, Busy
<1>3. x \in Paths /\ \A e \in Docs \ {d} : row[e].path # x  BY <1>1, MirroredPath
<1>4. \A y \in {"tree"} \X Places : y \in Paths /\ y # t  BY DEF TrashPath, Trash, Paths
<1>5. /\ disk'[x] = NoFile
      /\ \A y \in ({"tree"} \X Places) \ {x} : disk'[y] = disk[y]
  <2>1. x # t  BY <1>1, <1>4, MirroredPath
  <2>2. QED  BY <1>1, <1>3, <1>4, <2>1 DEF Known, TypeInv, TypeOK
<1> HIDE DEF x, t
<1>6. Caught'  BY <1>1 DEF Caught
<1>7. Emptied'  BY <1>1, <1>5 DEF Emptied, x
<1>8. ASSUME NEW e \in Docs PROVE InPlace(e)' /\ Finished(e)'
  <2>1. InPlace(e) /\ Finished(e)  BY DEF Sound
  <2>2. e \in Mirrored /\ e # d => disk'[row[e].path] = disk[row[e].path]
    BY <1>3, <1>5, MirroredPath
  <2>3. InPlace(e)'  BY <1>1, <1>2, <2>1, <2>2 DEF InPlace, Stands
  <2>4. QED  BY <1>1, <1>2, <2>1, <2>3 DEF Finished, Recent
<1>9. NoOrphans'
  <2>1. SUFFICES ASSUME NEW y \in {"tree"} \X Places, disk'[y] # NoFile
                 PROVE  \E e \in Mirrored : row[e].path = y
    BY <1>1, <1>2 DEF NoOrphans
  <2>2. disk[y] # NoFile  BY <1>5, <2>1
  <2>3. QED  BY <1>2, <2>2 DEF Sound, NoOrphans
<1>10. QED  BY <1>1, <1>6, <1>7, <1>8, <1>9 DEF Sound

LEMMA TombstoneSound ==
  ASSUME Known, Sound, Tombstone, \A d \in Docs : Strict(d)'
  PROVE  Sound'
<1>1. /\ UNCHANGED <<history, disk, listing, todo, failed>>
      /\ pc = "tombstone" /\ pc' = "reap" /\ cur \in Docs /\ cur \notin Listed
      /\ row'[cur].status = "trashed"
      /\ \A d \in Docs \ {cur} : row'[d] = row[d]
  BY DEF Tombstone, remote, Known, TypeInv, TypeOK, Control, Active, Row
<1>2. /\ Listed' = Listed /\ cur \notin Mirrored' /\ cur \notin Active'
      /\ \A d \in Docs \ {cur} : (d \in Mirrored)' = (d \in Mirrored)
                                 /\ (d \in Active)' = (d \in Active)
      /\ \A d : Target(d)' = Target(d) /\ ~InHand(d)' /\ ~InHand(d)
      /\ \A x : ~Busy(x)' /\ ~Busy(x)
  BY <1>1 DEF Listed, Mirrored, Active, Target, InHand, Busy
<1>3. Caught' /\ Emptied'  BY <1>1 DEF Caught, Emptied
<1>4. ASSUME NEW d \in Docs PROVE InPlace(d)' /\ Finished(d)'
  <2>1. InPlace(d) /\ Finished(d)  BY DEF Sound
  <2>2. CASE d = cur  BY <1>1, <1>2, <2>2 DEF InPlace, Finished
  <2>3. CASE d # cur
    <3>1. InPlace(d)'  BY <1>1, <1>2, <2>1, <2>3 DEF InPlace, Stands
    <3>2. QED  BY <1>1, <1>2, <2>1, <2>3, <3>1 DEF Finished, Recent
  <2>4. QED  BY <2>2, <2>3
<1>5. NoOrphans'
  <2>1. SUFFICES ASSUME NEW x \in {"tree"} \X Places, disk[x] # NoFile
                 PROVE  \E d \in Mirrored' : row'[d].path = x
    BY <1>1, <1>2 DEF NoOrphans
  <2>2. PICK d \in Mirrored : row[d].path = x  BY <1>2, <2>1 DEF Sound, NoOrphans
  <2>3. d # cur  BY <1>1, <2>1, <2>2 DEF Sound, Emptied
  <2>4. QED  BY <1>1, <1>2, <2>2, <2>3 DEF Mirrored
<1>6. QED  BY <1>1, <1>3, <1>4, <1>5 DEF Sound

\* Failures, aborted rounds and crashes are reported, local edits spoil.
LEMMA SoundNext ==
  ASSUME Known, Sound, [Next]_vars, ~Reported \/ UNCHANGED vars, ~Spoils
  PROVE  Sound'
<1>1. \A d \in Docs : Strict(d)'  BY StrictNext DEF Sound
<1>2. CASE UNCHANGED vars
  BY <1>1, <1>2, SoundSame DEF vars, remote, local, volatile
<1>3. SUFFICES ASSUME Next, ~Reported PROVE Sound'
  BY <1>2
<1>4. failed' = {} /\ failed = {}  BY <1>3 DEF Reported, Sound
<1>5. CASE Remote
  BY <1>1, <1>5, SoundSame DEF Remote, Share, Unshare, Rename, Edit, local, volatile
<1>6. CASE \E d \in Docs : Visit(d)      BY <1>1, <1>6, VisitSound
<1>7. CASE Fetch                         BY <1>1, <1>7, FetchSound
<1>8. CASE Write                         BY <1>1, <1>8, WriteSound
<1>9. CASE Save                          BY <1>1, <1>9, SaveSound
<1>10. CASE \E d \in Docs : MoveToTrash(d)  BY <1>1, <1>10, MoveToTrashSound
<1>11. CASE Tombstone                    BY <1>1, <1>11, TombstoneSound
<1>12. CASE StartRound
  <2>1. UNCHANGED <<history, row, disk>> /\ pc = "idle" /\ pc' = "walk" /\ Listed' \subseteq todo'
    BY <1>12 DEF StartRound, remote, local, Listed
  <2>2. \A d \in Docs : Finished(d)'  BY <2>1 DEF Finished
  <2>3. QED  BY <1>4, <2>1, <2>2, SoundBetween
<1>13. CASE BeginDeletes
  <2>1. UNCHANGED <<history, row, disk, listing, todo>> /\ pc = "walk" /\ pc' = "reap"
        /\ Listed' = Listed
    BY <1>13 DEF BeginDeletes, remote, local, Listed
  <2>2. ASSUME NEW d \in Docs PROVE Finished(d)'
    <3>1. Finished(d) /\ ~InHand(d)  BY <2>1 DEF Sound, InHand
    <3>2. QED  BY <2>1, <3>1 DEF Finished, Mirrored, Target, Recent
  <2>3. QED  BY <1>4, <2>1, <2>2, SoundBetween
<1>14. CASE Finish
  <2>1. UNCHANGED <<history, row, disk>> /\ pc = "reap" /\ pc' = "idle" /\ Listed' = {}
    BY <1>14 DEF Finish, Rest, remote, local, Listed
  <2>2. \A d \in Docs : Finished(d)'  BY <2>1 DEF Finished
  <2>3. QED  BY <1>4, <2>1, <2>2, SoundBetween
<1>15. ASSUME NEW x \in Paths, Tamper(x) PROVE Sound'
  <2>1. disk' = disk  BY <1>15 DEF Tamper, Spoils
  <2>2. QED  BY <1>1, <1>15, <2>1, SoundSame DEF Tamper, remote, volatile
<1>16. ~FailNode /\ ~Crash /\ ~AbortRound /\ ~ \E d \in Docs : FailBeforeMove(d)
  BY <1>3, <1>4 DEF FailNode, FailBeforeMove, AbortRound, Reported
<1>17. QED
  BY <1>3, <1>5, <1>6, <1>7, <1>8, <1>9, <1>10, <1>11, <1>12, <1>13, <1>14, <1>15, <1>16
     DEF Next, Round

(* As long as no round has reported a failure or died and nobody has edited the
   mirror or a document without changing its edit time, every finished round,
   forced or not, has mirrored what it enumerated, however documents compete for
   paths and whatever texts come back. *)
THEOREM CorruptionAlwaysReported == ReportsSpec => []CorruptionIsReported
<1> DEFINE Quiet == ~reported /\ ~spoiled
           All == Known /\ (Quiet => Sound)
<1>1. ReportsInit => All  BY InitKnown DEF ReportsInit
<1>2. All /\ [Next /\ Observe]_<<vars, reported, spoiled>> => All'
  <2>1. SUFFICES ASSUME All, [Next /\ Observe]_<<vars, reported, spoiled>> PROVE All'
    OBVIOUS
  <2>2. [Next]_vars  BY <2>1
  <2>3. Known'  BY <2>1, <2>2, KnownNext
  <2>4. ASSUME Quiet' PROVE Sound'
    <3>1. CASE Next /\ Observe
      <4>1. Quiet /\ ~Reported /\ ~Spoils  BY <2>4, <3>1 DEF Observe
      <4>2. QED  BY <2>1, <2>2, <4>1, SoundNext
    <3>2. CASE UNCHANGED <<vars, reported, spoiled>>
      <4>1. Quiet /\ UNCHANGED vars  BY <2>4, <3>2
      <4>2. ~Spoils  BY <4>1 DEF Spoils, vars, remote, local
      <4>3. QED  BY <2>1, <2>2, <4>1, <4>2, SoundNext
    <3>3. QED  BY <2>1, <3>1, <3>2
  <2>5. QED  BY <2>3, <2>4
<1>3. All => CorruptionIsReported
  <2>1. SUFFICES ASSUME Known, Sound, RoundDone, NEW d \in Listed PROVE Faithful(d)
    BY DEF CorruptionIsReported
  <2>2. d \in Docs /\ todo = {} /\ pc = "reap"
    BY <2>1 DEF Known, TypeInv, Control, RoundDone, Listed
  <2>3. ~InHand(d) /\ ~Busy(row[d].path)  BY <2>2 DEF InHand, Busy
  <2>4. d \in Mirrored /\ row[d].path = Target(d) /\ Recent(d, row[d].hash)
    BY <2>1, <2>2, <2>3 DEF Sound, Finished
  <2>5. Stands(d, disk[Target(d)])  BY <2>1, <2>2, <2>3, <2>4 DEF Sound, InPlace
  <2>6. QED  BY <2>4, <2>5 DEF Faithful, Stands, Recent
<1>4. QED  BY <1>1, <1>2, <1>3, PTL DEF ReportsSpec
===============================================================================
