----------------------------- MODULE Incremental -----------------------------
(***************************************************************************)
(* Incremental rounds of Notion: runIncremental of internal/engine places   *)
(* the documents that changed against the manifest, not against the round's *)
(* own tree, and leaves everything else where it is; full rounds, which     *)
(* place every document anew, run in between.                               *)
(*                                                                          *)
(* A name is a document's title or, when that is taken, the title with the  *)
(* document's id: Placement has the rest of naming.  A document that waits  *)
(* for an asset counts as active.  The remote rests while a round runs, and *)
(* which documents a search returns is the subject of Rounds: here it is    *)
(* any set of shared ones.  What trashing does on disk is in Trash.         *)
(***************************************************************************)
EXTENDS Naturals, Sequences, FiniteSets, TLC

CONSTANTS
  Pages,      \* pages, database rows among them: documents with a body
  Rows,       \* database rows, a subset of Pages
  Databases,  \* databases: directories without a body
  Titles,     \* Titles[d]: the titles document d may have
  Parents,    \* Parents[d]: where d may belong: documents, Root, Gone
  Root,       \* parent of a top-level document
  Gone,       \* parent of a document that is deleted or not shared
  Orphans,    \* the folder "_orphans"
  Trash,      \* the folder ".internal/trash/<date>"
  NoPath, NoTime,
  Orderings,  \* the orders in which documents may be enumerated
  MaxChanges, \* bound: changes of the remote
  MaxFaults   \* bound: failures of a node or a query, deaths of the process

Docs == Pages \cup Databases

ASSUME ConstantsAssumption ==
  /\ IsFiniteSet(Docs) /\ Rows \subseteq Pages /\ Pages \cap Databases = {}
  /\ {Root, Gone, Orphans} \cap Docs = {} /\ Root # Gone
  /\ \A d \in Docs : Parents[d] \subseteq Docs \cup {Root, Gone} /\ Titles[d] # {}
  /\ \A o \in Orderings : o \in Seq(Docs) /\ \A d \in Docs : \E i \in DOMAIN o : o[i] = d
  /\ MaxChanges \in Nat /\ MaxFaults \in Nat

\* Names are told apart: a title is not a title with an id (Component numbers those),
\* nor one of the two folders that have no document; what is trashed lies apart.
ASSUME NamesAssumption ==
  /\ Orphans # Trash
  /\ \A d \in Docs : \A t \in Titles[d] :
       /\ t \notin {Orphans, Trash} /\ <<t, d>> \notin {Orphans, Trash}
       /\ \A e \in Docs : \A u \in Titles[e] : t # <<u, e>>

VARIABLES
  parent, title, edits, \* remote: each document's parent, title, edit time
  row,                  \* manifest: the documents table
  file,                 \* the body files: a function on the paths there are
  checkpoint,           \* has a full round ended, so that there is a checkpoint?
  pc,                   \* "idle", "walk" or, in a full round, "reap"
  mode,                 \* "full" or "incremental"
  listing,              \* the documents the round enumerated
  nodes,                \* nodes still to be processed, in order
  queried,              \* databases whose rows were queried
  failed,               \* documents with a recorded failure
  before,               \* observation: the manifest when the round began
  changes, faults

remote == <<parent, title, edits>>
round  == <<pc, mode, listing, nodes, queried, failed, before>>
vars   == <<remote, row, file, checkpoint, round, changes, faults>>

-----------------------------------------------------------------------------
Leaf(at)   == [at |-> at, form |-> "leaf"]     \* <at>.md
Readme(at) == [at |-> at, form |-> "readme"]   \* <at>/README.md
Folder(at) == [at |-> at, form |-> "folder"]   \* <at>
NoRow == [status |-> "none", parent |-> Gone, title |-> NoTime, edited |-> NoTime,
          path |-> NoPath, body |-> NoTime]

Shared == {d \in Docs : parent[d] # Gone}
Live(t, d) == d \in Docs /\ t[d].status = "active"
IsDirForm(t, d) == t[d].status # "none" /\ t[d].path.form \in {"readme", "folder"}

\* From d upwards: where n steps through the parents `up` lead; what has none is the end.
Climb(up, d) ==
  LET at[n \in 0..Cardinality(Docs)] ==
        IF n = 0 THEN d ELSE IF at[n - 1] \in DOMAIN up THEN up[at[n - 1]] ELSE at[n - 1]
  IN  at

\* Is d below e on the remote?
Below(d, e) == \E n \in 0..Cardinality(Docs) : Climb(parent, d)[n] = e

Init ==
  /\ parent \in {f \in [Docs -> Docs \cup {Root, Gone}] : \A d \in Docs : f[d] \in Parents[d] \ {Gone}}
  /\ \A d \in Docs : Below(d, Root)
  /\ title = [d \in Docs |-> CHOOSE t \in Titles[d] : TRUE]
  /\ edits = [d \in Docs |-> 1]
  /\ row = [d \in Docs |-> NoRow] /\ file = <<>> /\ checkpoint = FALSE
  /\ pc = "idle" /\ mode = "full" /\ listing = {} /\ nodes = <<>>
  /\ queried = {} /\ failed = {} /\ before = row
  /\ changes = 0 /\ faults = 0

-----------------------------------------------------------------------------
(***************************************************************************)
(* The remote.  An edit or a new title sets the edit time; a page that is   *)
(* moved keeps it.                                                          *)
(***************************************************************************)
Change ==
  /\ pc = "idle" /\ changes < MaxChanges
  /\ changes' = changes + 1
  /\ UNCHANGED <<row, file, checkpoint, round, faults>>

Edit(d) ==
  /\ Change /\ d \in Shared
  /\ \E t \in Titles[d] : title' = [title EXCEPT ![d] = t]
  /\ edits' = [edits EXCEPT ![d] = @ + 1]
  /\ UNCHANGED parent

Move(d) ==
  /\ Change
  /\ \E p \in Parents[d] \ {parent[d]} :
       /\ p \in Docs => p \in Shared /\ ~Below(p, d)
       /\ parent' = [parent EXCEPT ![d] = p]
  /\ UNCHANGED <<title, edits>>

-----------------------------------------------------------------------------
(***************************************************************************)
(* Where a full round puts the documents: buildTree, for the enumeration    *)
(* order `order`.                                                           *)
(***************************************************************************)
Index(order, d) == CHOOSE i \in DOMAIN order : order[i] = d

TreeParent(d) == IF parent[d] \in Shared \cup {Root} THEN parent[d] ELSE Orphans
HasChildren(d) == \E e \in Shared : parent[e] = d

Component(d, used) == IF title[d] \in used THEN <<title[d], d>> ELSE title[d]

\* (mutant of TreeName) containers and pages are told apart among themselves only.
TreeNameOfKind(order, d) ==
  Component(d, {title[e] : e \in {f \in Shared : /\ TreeParent(f) = TreeParent(d)
                                                 /\ Index(order, f) < Index(order, d)
                                                 /\ f \in Databases <=> d \in Databases}})

TreeName(order, d) ==
  Component(d, {title[e] : e \in {f \in Shared : /\ TreeParent(f) = TreeParent(d)
                                                 /\ Index(order, f) < Index(order, d)}})

\* The names of the documents from the top down to d.
TreePath(order, d) ==
  LET up    == Climb([x \in Shared |-> TreeParent(x)], d)
      depth == Cardinality({n \in DOMAIN up : up[n] \in Shared})
      names == [i \in 1..depth |-> TreeName(order, up[depth - i])]
      at    == IF up[Cardinality(Docs)] = Orphans THEN <<Orphans>> \o names ELSE names
  IN  IF d \in Databases THEN Folder(at) ELSE IF HasChildren(d) THEN Readme(at) ELSE Leaf(at)

\* The lists in which every element of S comes once.
Lists(S) == {s \in [1..Cardinality(S) -> S] : S = {s[i] : i \in DOMAIN s}}

\* Orders in which the documents of S may come.
Orders(S) ==
  {s \in Lists(S) : \E o \in Orderings :
     \A i, j \in DOMAIN s : i < j => Index(o, s[i]) < Index(o, s[j])}

\* walk: parents come first, siblings in enumeration order with the orphans last,
\* and between a document and one below it there are only others below it.
Walks(order) ==
  LET sibling(d, e) ==
        \/ TreeParent(d) = TreeParent(e) /\ Index(order, d) < Index(order, e)
        \/ TreeParent(d) = Root /\ TreeParent(e) = Orphans
  IN  {s \in Lists(Shared) : \A i, j \in DOMAIN s :
         /\ TreeParent(s[j]) = s[i] \/ sibling(s[i], s[j]) => i < j
         /\ i < j /\ Below(s[j], s[i]) => \A k \in i..j : Below(s[k], s[i])}

Node(d, path) == [doc |-> d, parent |-> parent[d], title |-> title[d],
                  edited |-> edits[d], path |-> path]

StartFull ==
  /\ pc = "idle"
  /\ \E order \in Orders(Shared) : \E s \in Walks(order) :
       nodes' = [i \in DOMAIN s |-> Node(s[i], TreePath(order, s[i]))]
  /\ pc' = "walk" /\ mode' = "full" /\ listing' = Shared
  /\ queried' = {} /\ failed' = {} /\ before' = row
  /\ UNCHANGED <<remote, row, file, checkpoint, changes, faults>>

-----------------------------------------------------------------------------
(***************************************************************************)
(* Where an incremental round puts them: resolveIncrementalNodes.           *)
(***************************************************************************)
\* childContext goes from parent to parent through the manifest; where Loops, it
\* never returns, and the process dies with the round before anything is done.
Ancestor(tab, d) ==
  Climb([x \in {y \in Docs : Live(tab, y)} |-> tab[x].parent], d)[Cardinality(Docs)]
Rooted(tab, d) == Ancestor(tab, d) = Root
Loops(d) == Live(row, Ancestor(row, d))

ChildDir(p) == IF p = Root THEN <<>> ELSE IF Rooted(row, p) THEN row[p].path.at ELSE <<Orphans>>

\* The names the live documents occupy in a directory.
SiblingUsed(dir, self) ==
  {row[e].path.at[Len(dir) + 1] :
     e \in {f \in Docs \ {self} : /\ Live(row, f) /\ Len(row[f].path.at) > Len(dir)
                                  /\ SubSeq(row[f].path.at, 1, Len(dir)) = dir}}

\* (mutant of ClaimedIn) names are only made distinct from those in the manifest.
ClaimedNowhere(prev, dir) == {}

\* The names this round has given in a directory.
ClaimedIn(prev, dir) == {c[2] : c \in {k \in prev : k[1] = dir}}

\* (mutant of Reused) directories follow a new title or parent at once.
ReusedNever(d) == d \in Databases /\ row[d].path # NoPath

\* An existing directory is reused as it is, wherever its row says it is.
Reused(d) == IsDirForm(row, d)

OwnsSubtree(d, S) ==
  \E e \in Docs : (e \in S /\ parent[e] = d) \/ (Live(row, e) /\ row[e].parent = d)

\* placeIncrementalNode, when the names in claimed are given already: claimed holds
\* the names given so far, with their directories.
Place(d, S, claimed) ==
  LET dir  == ChildDir(parent[d])
      name == Component(d, SiblingUsed(dir, d) \cup ClaimedIn(claimed, dir))
      at   == Append(dir, name)
  IN  IF Reused(d) THEN [claimed |-> claimed, path |-> row[d].path]
      ELSE [claimed |-> claimed \cup {<<dir, name>>},
            path |-> IF d \in Databases THEN Folder(at)
                     ELSE IF OwnsSubtree(d, S) THEN Readme(at) ELSE Leaf(at)]

\* The documents of s are placed one after the other.
Placed(s) ==
  LET placed[i \in 0..Len(s)] ==
        IF i = 0 THEN [claimed |-> {}, path |-> NoPath]
        ELSE Place(s[i], {s[j] : j \in DOMAIN s}, placed[i - 1].claimed)
  IN  placed

\* (mutant of Converts) a leaf's children are placed, the leaf is left as it is.
NoConversions(S) == {}

\* Leaf pages that gain their first child and are not enumerated themselves.
Converts(S) ==
  {p \in Docs \ S : /\ Live(row, p) /\ Rooted(row, p) /\ row[p].path.form = "leaf"
                    /\ \E d \in S : parent[d] = p}

\* leafToDirNode, with the edit time of a listing that does not load it.
Conversion(p) ==
  [doc |-> p, parent |-> row[p].parent, title |-> row[p].title,
   edited |-> NoTime, path |-> Readme(row[p].path.at)]

Depth(n) == Len(n.path.at) + (IF n.path.form = "readme" THEN 1 ELSE 0)

\* Shallow paths first; the sort is stable.
ByDepth(s) ==
  {[i \in DOMAIN s |-> s[pos[i]]] :
     pos \in {p \in Lists(DOMAIN s) : \A i, j \in DOMAIN s : i < j =>
               \/ Depth(s[p[i]]) < Depth(s[p[j]])
               \/ Depth(s[p[i]]) = Depth(s[p[j]]) /\ p[i] < p[j]}}

\* (mutant of DirtyDatabases) a database that is not enumerated is not queried.
EnumeratedDatabases(S) == S \cap Databases

\* prequeryDirtyDatabases: the enumerated databases, and those of enumerated
\* rows if the manifest has them.
DirtyDatabases(S) ==
  {q \in Databases : \/ q \in S
                     \/ \E d \in S \cap Rows : parent[d] = q /\ Live(row, q)}

StartIncremental ==
  /\ pc = "idle" /\ checkpoint
  /\ \E S \in (SUBSET Shared) \ {{}} :
       /\ ~\E d \in S : parent[d] # Root /\ Loops(parent[d])
       /\ \E s \in Orders(S), c \in Orders(Converts(S)) :
            LET placed == Placed(s)
            IN  nodes' \in ByDepth([i \in DOMAIN s |-> Node(s[i], placed[i].path)]
                                     \o [i \in DOMAIN c |-> Conversion(c[i])])
       /\ listing' = S
       /\ \E ok \in SUBSET (DirtyDatabases(S) \cap Shared) :
            /\ queried' = ok /\ failed' = DirtyDatabases(S) \ ok
            /\ faults' = faults + Cardinality(failed' \cap Shared)
            /\ faults' <= MaxFaults
  /\ pc' = "walk" /\ mode' = "incremental" /\ before' = row
  /\ UNCHANGED <<remote, row, file, checkpoint, changes>>

-----------------------------------------------------------------------------
(***************************************************************************)
(* processNode, for the node at the head of the list.                       *)
(***************************************************************************)
N == Head(nodes)
Taken(d, x) == \E e \in Docs \ {d} : row[e].path = x

Advance ==
  /\ nodes' = Tail(nodes)
  /\ UNCHANGED <<remote, checkpoint, pc, mode, listing, before, changes>>

Fault == faults < MaxFaults /\ faults' = faults + 1
NoFault == UNCHANGED faults

\* upsertDoc and upsertFolder; UNIQUE(local_path) may refuse the row.
Saved(edited, body) ==
  [row EXCEPT ![N.doc] = [status |-> "active", parent |-> N.parent, title |-> N.title,
                          edited |-> edited, path |-> N.path, body |-> body]]

\* A container: its directory is made, its rows are queried unless they were.
ProcessFolder ==
  /\ pc = "walk" /\ nodes # <<>> /\ N.doc \in Databases
  /\ \E asked \in BOOLEAN :
       /\ IF asked THEN NoFault ELSE N.doc \notin queried /\ Fault
       /\ queried' = queried \cup (IF asked THEN {N.doc} ELSE {})
       /\ failed' = failed \cup (IF asked /\ ~Taken(N.doc, N.path) THEN {} ELSE {N.doc})
  /\ row' = IF Taken(N.doc, N.path) THEN row ELSE Saved(N.edited, NoTime)
  /\ UNCHANGED file /\ Advance

Moved == row[N.doc].status = "active" /\ row[N.doc].path # N.path

\* The files after the move to the node's path, if there is anything to move.
Relocated ==
  LET old == row[N.doc].path
  IN  IF Moved /\ old \in DOMAIN file
      THEN [x \in (DOMAIN file \ {old}) \cup {N.path} |-> IF x = N.path THEN file[old] ELSE file[x]]
      ELSE file

\* The pre-fetch skip.
Unchanged ==
  /\ row[N.doc].status = "active" /\ N.edited # NoTime
  /\ row[N.doc].edited = N.edited /\ N.path \in DOMAIN Relocated

SkipPage ==
  /\ pc = "walk" /\ nodes # <<>> /\ N.doc \in Pages /\ Unchanged
  /\ file' = Relocated
  /\ IF Moved /\ ~Taken(N.doc, N.path)
     THEN row' = Saved(N.edited, row[N.doc].body) /\ UNCHANGED failed
     ELSE row' = row /\ failed' = failed \cup (IF Moved THEN {N.doc} ELSE {})
  /\ UNCHANGED queried /\ NoFault /\ Advance

\* The text that is fetched, with the row's properties if they were queried;
\* the hash in the manifest is over both.
Fetched == [doc |-> N.doc, rev |-> edits[N.doc],
            props |-> N.doc \in Rows /\ parent[N.doc] \in queried]

\* Fetch, then write unless the content is the same, then save.
FetchPage ==
  /\ pc = "walk" /\ nodes # <<>> /\ N.doc \in Pages /\ ~Unchanged
  /\ file' = IF row[N.doc].body = Fetched /\ N.path \in DOMAIN Relocated THEN Relocated
             ELSE [x \in DOMAIN Relocated \cup {N.path} |->
                     IF x = N.path THEN Fetched ELSE Relocated[x]]
  /\ IF Taken(N.doc, N.path)
     THEN row' = row /\ failed' = failed \cup {N.doc}
     ELSE row' = Saved(N.edited, Fetched) /\ UNCHANGED failed
  /\ UNCHANGED queried /\ NoFault /\ Advance

\* processNode fails: before the move, or in the fetch that follows it.
FailPage ==
  /\ pc = "walk" /\ nodes # <<>> /\ N.doc \in Pages /\ Fault
  /\ \/ file' = file
     \/ ~Unchanged /\ file' = Relocated
  /\ failed' = failed \cup {N.doc}
  /\ UNCHANGED <<row, queried>> /\ Advance

\* The round is over, or the process died.
Rest ==
  /\ pc' = "idle" /\ mode' = "full" /\ listing' = {} /\ nodes' = <<>>
  /\ queried' = {} /\ failed' = {} /\ before' = row'

WalkDone == pc = "walk" /\ nodes = <<>>

EndIncremental ==
  /\ WalkDone /\ mode = "incremental" /\ UNCHANGED row /\ Rest
  /\ UNCHANGED <<remote, file, checkpoint, changes, faults>>

BeginDeletes ==
  /\ WalkDone /\ mode = "full" /\ pc' = "reap"
  /\ UNCHANGED <<remote, row, file, checkpoint, mode, listing, nodes, queried, failed,
                 before, changes, faults>>

Absent == {d \in Docs : Live(row, d) /\ d \notin listing}
TrashPath(d) == [row[d].path EXCEPT !.at = <<Trash>> \o @]

\* reconcileDeletes: the body moves to the trash, the row follows it; a path the
\* trash has already is refused, and the round aborted.
TrashOne ==
  /\ pc = "reap"
  /\ \E d \in Absent :
       LET old == row[d].path
       IN  /\ file' = IF old \in DOMAIN file
                      THEN [x \in (DOMAIN file \ {old}) \cup {TrashPath(d)} |->
                              IF x = TrashPath(d) THEN file[old] ELSE file[x]]
                      ELSE file
           /\ IF Taken(d, TrashPath(d))
              THEN row' = row /\ Rest
              ELSE /\ row' = [row EXCEPT ![d].status = "trashed", ![d].path = TrashPath(d)]
                   /\ UNCHANGED round
  /\ UNCHANGED <<remote, checkpoint, changes, faults>>

EndFull ==
  /\ pc = "reap" /\ Absent = {} /\ checkpoint' = TRUE /\ UNCHANGED row /\ Rest
  /\ UNCHANGED <<remote, file, changes, faults>>

Crash ==
  /\ pc # "idle" /\ Fault /\ UNCHANGED row /\ Rest
  /\ UNCHANGED <<remote, file, checkpoint, changes>>

Next ==
  \/ \E d \in Docs : Edit(d) \/ Move(d)
  \/ StartFull \/ StartIncremental
  \/ ProcessFolder \/ SkipPage \/ FetchPage \/ FailPage
  \/ EndIncremental \/ BeginDeletes \/ TrashOne \/ EndFull \/ Crash

Spec == Init /\ [][Next]_vars

-----------------------------------------------------------------------------
(***************************************************************************)
(* Properties.                                                              *)
(***************************************************************************)
TypeOK ==
  /\ \A d \in Docs : parent[d] \in Parents[d] /\ title[d] \in Titles[d]
  /\ \A d \in Docs : row[d].status \in {"none", "active", "trashed"}
  /\ \A d \in Docs : row[d].status # "none" =>
       row[d].path.form \in IF d \in Databases THEN {"folder"} ELSE {"leaf", "readme"}
  /\ \A x \in DOMAIN file : file[x].doc \in Pages /\ x.form # "folder"
  /\ checkpoint \in BOOLEAN /\ pc \in {"idle", "walk", "reap"} /\ mode \in {"full", "incremental"}
  /\ listing \subseteq Docs /\ queried \subseteq Databases /\ failed \subseteq Docs

InIncremental == pc = "walk" /\ mode = "incremental"

\* No body is lost whose file is where the row of a live document says.
BodiesStay ==
  \A x \in DOMAIN file :
    LET d == file[x].doc
    IN  Live(row, d) /\ row[d].path = x => \E y \in DOMAIN file' : file'[y].doc = d

\* The live documents have places of their own outside of the trash.
Orderly(tab) ==
  /\ \A d \in Docs : Live(tab, d) => Head(tab[d].path.at) # Trash
  /\ \A d, e \in Docs : d # e /\ Live(tab, d) /\ Live(tab, e) => tab[d].path.at # tab[e].path.at

(* An incremental round loses no body: where the file of a live document is at
   the path its row says, no step of the round moves or writes another file
   over it, though it places documents from the rows alone - if in these, when
   it began, the live documents had places of their own. *)
NothingOverwritten == [][InIncremental /\ Orderly(before) => BodiesStay]_vars

\* A directory is enumerated again that was trashed: it is reused where it lies.
Returning == \E d \in listing : IsDirForm(before, d) /\ ~Live(before, d)

(* Placing documents in rounds never mixes them up: when a full round without a
   failure has put away what is absent, the live documents have places of their
   own outside of the trash, and an incremental round, whatever fails in it, keeps
   it so after each node - unless a directory returns from the trash. *)
PlacesStayApart ==
  /\ pc = "reap" /\ Absent = {} /\ failed = {} => Orderly(row)
  /\ InIncremental /\ Orderly(before) /\ ~Returning => Orderly(row)

(* A plain rename of the body file is always correct: whatever the rows are that
   earlier rounds left, an incremental round moves no file over another body. *)
RenamesAreCorrect == [][InIncremental => BodiesStay]_vars

(* What lies in the trash are deleted documents: no live one is mirrored there. *)
LiveOutsideTrash == \A d \in Docs : Live(row, d) => Head(row[d].path.at) # Trash

\* c lies directly in the directory of p, as table tab knows them.
Inside(tab, c, p) ==
  /\ Live(tab, c) /\ Live(tab, p) /\ IsDirForm(tab, p)
  /\ Len(tab[c].path.at) = Len(tab[p].path.at) + 1
  /\ SubSeq(tab[c].path.at, 1, Len(tab[p].path.at)) = tab[p].path.at

(* Descendants that are not enumerated are never orphaned: in an incremental
   round a document that lies in its parent's directory, and is not in the
   round's result set, goes on lying in it. *)
SubtreesStayWhole ==
  [][InIncremental =>
       \A c \in Docs \ listing, p \in Docs :
         row[c].parent = p /\ Inside(row, c, p) => Inside(row', c, p)]_vars

\* The parent had live ancestors, and its directory is where it was, when the
\* round began.
Steady(p) ==
  p = Root \/ (Rooted(before, p) /\ Live(row, p) /\ row[p].path.at = before[p].path.at)

(* Incremental placement agrees with the full round's: when no failure was
   recorded, an enumerated document that was not a directory before lies
   directly in its parent's directory under a name of its title, and its parent
   owns that directory - unless the parent is new, was moved in the same round or
   has no live ancestors. *)
PlacedLikeFull ==
  WalkDone /\ mode = "incremental" /\ failed = {} =>
    \A d \in listing :
      LET p  == parent[d]
          at == row[d].path.at
      IN  ~IsDirForm(before, d) /\ Steady(p) =>
            /\ at[Len(at)] \in {title[d], <<title[d], d>>}
            /\ IF p = Root THEN Len(at) = 1 ELSE Inside(row, d, p)

\* The text of row r as it is, with its properties.
WithProperties(r) == [doc |-> r, rev |-> edits[r], props |-> TRUE]

(* A row whose text is new is written with its properties, in any order of nodes:
   when no failure was recorded, and its database is enumerated or, in an
   incremental round, mirrored, the file of a row that was edited is its text with
   them, unless that is what it was fetched with before. *)
EditedRowsHaveProperties ==
  WalkDone /\ failed = {} =>
    \A r \in Rows \cap listing :
      /\ before[r].edited # edits[r] /\ before[r].body # WithProperties(r)
      /\ parent[r] \in Databases
      /\ parent[r] \in listing \/ (mode = "incremental" /\ Live(before, parent[r]))
      => LET x == row[r].path IN x \in DOMAIN file /\ file[x] = WithProperties(r)

(* Resolving a changed document's ancestors through the manifest ends: whatever
   an incremental round may be given, childContext does not go in circles. *)
ResolutionEnds == pc = "idle" => \A d \in Shared : parent[d] # Root => ~Loops(parent[d])
=============================================================================
