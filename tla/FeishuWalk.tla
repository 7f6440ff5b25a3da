----------------------------- MODULE FeishuWalk ------------------------------
(***************************************************************************)
(* Feishu's enumeration (internal/feishu) and what a round makes of it.     *)
(* Feishu has no search: the adapter walks the wiki's nodes and the drive's *)
(* folders, one listing at a time and depth first, while documents are      *)
(* moved and deleted.  The round builds its tree of what the walk found,    *)
(* restores what is there again and trashes what is not.                    *)
(*                                                                          *)
(* A level of the wiki is one listing (the engine fetches all its pages), a *)
(* folder is listed page by page and its folders are walked in between.     *)
(* Bodies, names and failures of single documents are Reconcile's.          *)
(***************************************************************************)
EXTENDS Naturals, Sequences, FiniteSets

CONSTANTS
  Docs,        \* wiki nodes, files and folders that may move
  Folders,     \* those that are folders of the drive
  Sources,     \* sequence of the configured roots
  Wiki, Drive, \* a wiki space and a drive folder among them
  Nowhere,     \* parent of what is deleted; of what no listing named
  InitParent,  \* the documents' parents at first
  PageSize,    \* page_size of a folder's listing
  Stable,      \* documents outside the model: listed and active in every round
  MaxChanges, MaxFaults  \* bounds: moves and deletions, failures and deaths

Roots == {Sources[i] : i \in 1..Len(Sources)}
Places == Docs \cup Roots \cup {Nowhere}

ASSUME ConstantsAssumption ==
  /\ IsFiniteSet(Docs) /\ Folders \subseteq Docs
  /\ Sources \in Seq({Wiki, Drive}) /\ Roots = {Wiki, Drive} /\ Wiki # Drive
  /\ Roots \cap Docs = {} /\ Nowhere \notin Docs \cup Roots
  /\ InitParent \in [Docs -> Places]
  /\ PageSize \in Nat \ {0} /\ Stable \in Nat
  /\ MaxChanges \in Nat /\ MaxFaults \in Nat

VARIABLES
  parent,   \* remote: where documents are
  pc,       \* "idle", "walk" or "place"
  source,   \* how many sources the walk has entered
  stack,    \* the listings that are open, the innermost first
  found,    \* the walk's result: the parent of a document's last listing
  status,   \* manifest: "active" or "trashed"
  moved,    \* observation: documents moved or deleted since the walk began
  changes, faults

remote == <<parent, changes>>
walk == <<source, stack, found>>
vars == <<remote, pc, walk, status, moved, faults>>

\* todo: documents of the page at hand; seen: those of the pages so far.
Frame(at, todo, seen, more) == [at |-> at, todo |-> todo, seen |-> seen, more |-> more]
Entries == [doc : Docs, deep : BOOLEAN]
Frames == [at : Docs \cup Roots, todo : SUBSET Entries, seen : SUBSET Docs, more : BOOLEAN]

TypeOK ==
  /\ parent \in [Docs -> Places]
  /\ pc \in {"idle", "walk", "place"}
  /\ source \in 0..Len(Sources)
  /\ stack \in Seq(Frames)
  /\ found \in [Docs -> Places]
  /\ status \in [Docs -> {"active", "trashed"}]
  /\ moved \subseteq Docs
  /\ changes \in 0..MaxChanges /\ faults \in 0..MaxFaults

(***************************************************************************)
(* Trees: where documents are, and where a walk found them                  *)
(***************************************************************************)
Climb(tree, d) ==
  LET up[n \in 0..Cardinality(Docs)] ==
        IF n = 0 THEN {d}
        ELSE up[n - 1] \cup {tree[e] : e \in up[n - 1] \cap Docs}
  IN up
Lineage(tree, d) == Climb(tree, d)[Cardinality(Docs)]

Attached(tree, d) == Lineage(tree, d) \cap Roots # {}
Children(n) == {d \in Docs : parent[d] = n}

\* Nothing on the way to the document moved since the walk began.
Rested(d) == Attached(parent, d) /\ Lineage(parent, d) \cap moved = {}

InWiki(n) == n = Wiki \/ (n \in Docs /\ Wiki \in Lineage(parent, n))

\* Folders are in the drive, and what is not a folder holds nothing there.
Kinds(tree) ==
  /\ \A f \in Folders : tree[f] \in Folders \cup {Drive, Nowhere}
  /\ \A d, c \in Docs : tree[d] \in Folders \cup {Drive} /\ tree[c] = d => d \in Folders

ASSUME InitAssumption == Kinds(InitParent)

Init ==
  /\ parent = InitParent /\ status = [d \in Docs |-> "active"]
  /\ pc = "idle" /\ source = 0 /\ stack = <<>> /\ found = [d \in Docs |-> Nowhere]
  /\ moved = {} /\ changes = 0 /\ faults = 0

(***************************************************************************)
(* The remote: a file may move to the wiki, a folder stays in the drive     *)
(***************************************************************************)
CanHold(n, d) ==
  /\ n \notin Docs \/ (d \notin Lineage(parent, n) /\ Attached(parent, n))
  /\ \/ n = Nowhere
     \/ n \in Folders \cup {Drive} /\ (d \in Folders \/ Children(d) = {})
     \/ InWiki(n) /\ d \notin Folders

Move ==
  /\ changes < MaxChanges /\ changes' = changes + 1
  /\ \E d \in Docs, n \in Places :
       /\ CanHold(n, d) /\ n # parent[d]
       /\ parent' = [parent EXCEPT ![d] = n]
       /\ moved' = moved \cup {d}
  /\ UNCHANGED <<pc, walk, status, faults>>

(***************************************************************************)
(* enumerate                                                                *)
(***************************************************************************)
StartWalk ==
  /\ pc = "idle" /\ pc' = "walk"
  /\ source' = 0 /\ stack' = <<>> /\ found' = [d \in Docs |-> Nowhere] /\ moved' = {}
  /\ UNCHANGED <<remote, status, faults>>

Open(n) == stack' = <<Frame(n, {}, {}, TRUE)>> \o stack

EnterSource ==
  /\ pc = "walk" /\ stack = <<>> /\ source < Len(Sources)
  /\ source' = source + 1 /\ Open(Sources[source + 1])
  /\ UNCHANGED <<remote, pc, found, status, moved, faults>>

Top == stack[1]
Replace(frame) == stack' = <<frame>> \o Tail(stack)

\* A wiki level at once, each node with its has_child of that moment.
ListNodes ==
  /\ pc = "walk" /\ stack # <<>> /\ Top.todo = {} /\ Top.more /\ Top.at \notin Folders \cup {Drive}
  /\ Replace(Frame(Top.at, {[doc |-> d, deep |-> Children(d) # {}] : d \in Children(Top.at)},
                   Children(Top.at), FALSE))
  /\ UNCHANGED <<remote, pc, source, found, status, moved, faults>>

\* A page of a folder: files not listed yet, while there are any.
Page(n, seen, files) ==
  /\ files \subseteq Children(n) \ seen
  /\ Cardinality(files) <= PageSize
  /\ files = {} => Children(n) \subseteq seen

\* (mutant of HasMore) the loop ends with the first page
HasMoreNever(n, seen) == FALSE

HasMore(n, seen) == ~ (Children(n) \subseteq seen)

ListFiles ==
  /\ pc = "walk" /\ stack # <<>> /\ Top.todo = {} /\ Top.more /\ Top.at \in Folders \cup {Drive}
  /\ \E files \in SUBSET Docs :
       /\ Page(Top.at, Top.seen, files)
       /\ Replace(Frame(Top.at, {[doc |-> d, deep |-> d \in Folders] : d \in files},
                        Top.seen \cup files, HasMore(Top.at, Top.seen \cup files)))
  /\ UNCHANGED <<remote, pc, source, found, status, moved, faults>>

\* add, and the recursive call.
Add ==
  /\ pc = "walk" /\ stack # <<>>
  /\ \E entry \in Top.todo :
       LET rest == [Top EXCEPT !.todo = @ \ {entry}]
       IN /\ found' = [found EXCEPT ![entry.doc] = Top.at]
          /\ IF entry.deep
             THEN stack' = <<Frame(entry.doc, {}, {}, TRUE), rest>> \o Tail(stack)
             ELSE Replace(rest)
  /\ UNCHANGED <<remote, pc, source, status, moved, faults>>

Return ==
  /\ pc = "walk" /\ stack # <<>> /\ Top.todo = {} /\ ~ Top.more
  /\ stack' = Tail(stack)
  /\ UNCHANGED <<remote, pc, source, found, status, moved, faults>>

\* The last source is done and enrichMetadata has its answers.
EndWalk ==
  /\ pc = "walk" /\ stack = <<>> /\ source = Len(Sources) /\ pc' = "place"
  /\ UNCHANGED <<remote, walk, status, moved, faults>>

\* (mutant of Fail) what was listed so far is taken for the inventory
FailWithPart ==
  /\ pc = "walk" /\ faults < MaxFaults /\ faults' = faults + 1
  /\ pc' = "place" /\ stack' = <<>>
  /\ UNCHANGED <<remote, source, found, status, moved>>

\* An error of any call ends the walk and the round; so does the process.
Fail ==
  /\ pc # "idle" /\ faults < MaxFaults /\ faults' = faults + 1
  /\ pc' = "idle" /\ stack' = <<>>
  /\ UNCHANGED <<remote, source, found, status, moved>>

(***************************************************************************)
(* The round                                                                *)
(***************************************************************************)
\* buildTree: a document listed twice hangs where it was listed last, and
\* documents that were found below each other hang nowhere.
Present == {d \in Docs : found[d] # Nowhere /\ Attached(found, d)}
Active == {d \in Docs : status[d] = "active"}

BelowJitterThreshold(enumCount, activeCount) == 5 * enumCount < 4 * activeCount

\* (mutant of Restored) a tombstone is not made active again
RestoredNot(d) == FALSE

Restored(d) == status[d] = "trashed"

Round ==
  LET active == Active \cup {d \in Present : Restored(d)}
      blocked == BelowJitterThreshold(Cardinality(Present) + Stable, Cardinality(active) + Stable)
  IN /\ pc = "place" /\ pc' = "idle"
     /\ status' = [d \in Docs |->
          IF d \in active /\ (d \in Present \/ blocked) THEN "active" ELSE "trashed"]
     /\ UNCHANGED <<remote, walk, moved, faults>>

Step == StartWalk \/ EnterSource \/ ListNodes \/ ListFiles \/ Add \/ Return \/ EndWalk \/ Round
Next == Step \/ Move \/ Fail

Spec == Init /\ [][Next]_vars

\* Rounds are started again and again (launchd), and the platform answers.
FairSpec == Spec /\ WF_vars(Step)

(***************************************************************************)
(* Properties                                                               *)
(***************************************************************************)
\* A document is found under its parent if nothing above it moved while the
\* walk was under way: no listing loses it, whatever else moved around it,
\* into folders that were listed already or out of ones that were not.
RestingIsFound ==
  pc = "place" => \A d \in Docs : Rested(d) => found[d] = parent[d] /\ d \in Present

\* The walk trashes nothing of its own accord: what a round trashes was
\* deleted, or moved (it or a document above it) during that round's walk; a
\* walk that failed half way trashes nothing.
TrashedMoved ==
  [][\A d \in Docs : status[d] = "active" /\ status'[d] = "trashed" => ~ Rested(d)]_status

\* Once the remote and the network are quiet, every document there is comes
\* back and stays active, those that an unlucky walk trashed among them.
MissedComeBack == \A d \in Docs : <>[](Attached(parent, d) => status[d] = "active")

\* What pipeline.go says of delete detection, that a document absent from a
\* full round is gone; a document moved during the walk is not (see the README).
AbsentIsGone ==
  [][\A d \in Docs : status[d] = "active" /\ status'[d] = "trashed" => ~ Attached(parent, d)]_status
=============================================================================
