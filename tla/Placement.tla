------------------------------- MODULE Placement -------------------------------
(***************************************************************************)
(* Where an enumerated inventory is put: buildTree hangs every document    *)
(* below its parent, assignPaths names the children of one directory after *)
(* another, walk lists the nodes in the order they were named.             *)
(*                                                                         *)
(* A name is a sequence of tokens: pieces of text, the id prefixes (with   *)
(* their dash), the numbers of the tie-breaker, ".md".  Titles that look   *)
(* like a suffixed or numbered name are titles with such tokens.  A path   *)
(* is a sequence of names below the platform's directory.                  *)
(***************************************************************************)
EXTENDS Integers, Sequences, FiniteSets

CONSTANTS
  Ids,          \* identities of documents
  NoParent,     \* the empty ParentID
  Orphans,      \* the synthetic folder "_orphans"
  Top,          \* the platform's directory
  Tokens,       \* text tokens
  Lower,        \* strings.ToLower on text tokens that it changes
  Slug,         \* title |-> its slug
  Cut,          \* slugs of more than MaxComponentBytes |-> what is left of them
  Prefix,       \* id |-> dash and IDPrefix
  Reserved,     \* reserved names, in lower case
  Untitled, OrphansFolderName, Readme, Index, Md,  \* tokens
  Inventories   \* the enumerations that are placed

RemoteDoc == [id : Ids, parent : Ids \cup {NoParent}, title : DOMAIN Slug,
              type : {"page", "folder", "db"}]

Token == Tokens \cup Nat
Name == Seq(Token)

ASSUME PlacementAssumption ==
  /\ NoParent \notin Ids /\ Orphans \notin Ids \cup {NoParent} /\ Top \notin Ids \cup {Orphans}
  /\ \A t \in Tokens : t \notin Nat
  /\ \A t \in DOMAIN Lower : t \in Tokens /\ Lower[t] \in Tokens
  /\ \A t \in DOMAIN Slug : Slug[t] \in Name
  /\ \A s \in DOMAIN Cut : Cut[s] \in Name /\ Len(Cut[s]) >= 1
  /\ DOMAIN Prefix = Ids /\ \A d \in Ids : Prefix[d] \in Tokens
  /\ {Untitled, OrphansFolderName, Readme, Index, Md} \subseteq Tokens
  /\ Inventories \subseteq Seq(RemoteDoc)

VARIABLES
  docs,   \* the enumeration
  stack,  \* the calls of assignPaths under way, by directory, innermost first
  used,   \* the names taken in each directory, in lower case
  place   \* per node: its parent directory's path and its own name

vars == <<docs, stack, used, place>>

Nodes == Ids \cup {Orphans}
Unplaced == [dir |-> <<>>, name |-> <<>>]

-----------------------------------------------------------------------------
(* buildTree. *)

Known == {docs[i].id : i \in DOMAIN docs}

\* A document that is listed twice is the node of its last listing.
Order(d) ==
  IF d = Orphans THEN Len(docs) + 1
  ELSE CHOOSE i \in DOMAIN docs :
         docs[i].id = d /\ \A j \in DOMAIN docs : docs[j].id = d => j <= i

Doc(d) == docs[Order(d)]

ParentOf(n) ==
  IF n = Orphans \/ Doc(n).parent = NoParent THEN Top
  ELSE IF Doc(n).parent \in Known THEN Doc(n).parent ELSE Orphans

TreeWithoutOrphanFolder == Known

Tree == Known \cup {n \in {Orphans} : \E d \in Known : ParentOf(d) = Orphans}

Children(dir) == {n \in Tree : ParentOf(n) = dir}

IsContainer(n) == n = Orphans \/ Doc(n).type # "page"
IsDir(n) == IsContainer(n) \/ Children(n) # {}

-----------------------------------------------------------------------------
(* naming.Component. *)

Casefold(name) ==
  [i \in DOMAIN name |-> IF name[i] \in DOMAIN Lower THEN Lower[name[i]] ELSE name[i]]

\* Reserved names are single words: none is what a title becomes with an id.
ASSUME ReservedAssumption ==
  /\ \A t \in {OrphansFolderName, Readme, Index} : Casefold(<<t>>) \in Reserved
  /\ \A name \in Reserved : Len(name) = 1

ClaimAsIs(name, taken) == name

\* claim: a taken name gets the first free number.
Claim(name, taken) ==
  LET Numbered(i) == Append(name, i)
      Free == {i \in 2..(Cardinality(taken) + 2) : Casefold(Numbered(i)) \notin taken}
  IN IF Casefold(name) \notin taken THEN name
     ELSE Numbered(CHOOSE i \in Free : \A j \in Free : i <= j)

NeedsIDWhenTaken(base, taken) == Casefold(base) \in taken

NeedsID(base, taken) == Casefold(base) \in Reserved \cup taken

Component(title, id, taken) ==
  LET base == Slug[title]
      stem == IF base = <<>> THEN <<Untitled>>
              ELSE IF base \in DOMAIN Cut THEN Cut[base] ELSE base
  IN IF stem # base \/ NeedsID(base, taken)
     THEN Claim(Append(stem, Prefix[id]), taken)
     ELSE base

-----------------------------------------------------------------------------
(* assignPaths. *)

TakenAnywhere(dir) == UNION {used[x] : x \in DOMAIN used}

\* Each call of assignPaths starts with no name taken.
Taken(dir) == used[dir]

DirPath(dir) == IF dir = Top THEN <<>> ELSE Append(place[dir].dir, place[dir].name)

Placed == {n \in Nodes : place[n] # Unplaced}
Left(dir) == Children(dir) \ Placed

NameOf(n, dir) ==
  IF n = Orphans THEN <<OrphansFolderName>> ELSE Component(Doc(n).title, n, Taken(dir))

Init ==
  /\ docs \in Inventories
  /\ stack = <<Top>>
  /\ used = [dir \in Nodes \cup {Top} |-> {}]
  /\ place = [n \in Nodes |-> Unplaced]

\* One turn of the loop; a directory's children come next.
Assign ==
  /\ stack # <<>>
  /\ LET dir == Head(stack)
     IN \E n \in Left(dir) :
          /\ \A m \in Left(dir) : Order(n) <= Order(m)
          /\ used' = [used EXCEPT ![dir] = @ \cup {Casefold(NameOf(n, dir))}]
          /\ place' = [place EXCEPT ![n] = [dir |-> DirPath(dir), name |-> NameOf(n, dir)]]
          /\ stack' = IF IsDir(n) THEN <<n>> \o stack ELSE stack
  /\ UNCHANGED docs

Return ==
  /\ stack # <<>>
  /\ Left(Head(stack)) = {}
  /\ stack' = Tail(stack)
  /\ UNCHANGED <<docs, used, place>>

Next == Assign \/ Return
Spec == Init /\ [][Next]_vars

-----------------------------------------------------------------------------
(* What the pipeline creates for a placed node, as a case-insensitive file      *)
(* system sees it: directory, body, row index.                                  *)

AtPath(dir, name) == [i \in 1..(Len(dir) + 1) |-> Casefold(Append(dir, name)[i])]

Directories(n) == IF IsDir(n) THEN {AtPath(place[n].dir, place[n].name)} ELSE {}

Body(n) ==
  IF IsDir(n) THEN AtPath(DirPath(n), <<Readme, Md>>)
  ELSE AtPath(place[n].dir, Append(place[n].name, Md))

RowIndex(n) == AtPath(DirPath(n), <<Index, Md>>)

Files(n) ==
  (IF IsContainer(n) THEN {} ELSE {Body(n)})
    \cup (IF n # Orphans /\ Doc(n).type = "db" THEN {RowIndex(n)} ELSE {})

-----------------------------------------------------------------------------
(* Properties. *)

TypeOK ==
  /\ docs \in Seq(RemoteDoc)
  /\ stack \in Seq(Nodes \cup {Top})
  /\ used \in [Nodes \cup {Top} -> SUBSET Name]
  /\ place \in [Nodes -> [dir : Seq(Name), name : Name]]

Finished == stack = <<>>

\* Two nodes of one directory never have names that a case-insensitive file
\* system takes for one, whatever titles, id prefixes and enumeration order are
\* (Component and claim).
NamesDistinct ==
  \A m, n \in Placed :
    m # n /\ ParentOf(m) = ParentOf(n) => Casefold(place[m].name) # Casefold(place[n].name)

\* No directory, body or row index lands on that of another node: names are
\* distinct, reserved names keep off README.md and _index.md, and directories
\* nest as their nodes do.  Only a directory whose title ends in ".md", in small
\* or capital letters, can meet a file: naming knows names without extension
\* (Component, reserved).
PathsDistinct ==
  Finished =>
    \A m, n \in Placed : m # n =>
      /\ Directories(m) \cap Directories(n) = {}
      /\ Files(m) \cap Files(n) = {}
      /\ Files(m) \cap Directories(n) # {} =>
           Casefold(place[n].name)[Len(place[n].name)] = Casefold(<<Md>>)[1]

\* A document that has no place is below a cycle of parents: its parent was
\* enumerated and has no place either.  Missing parents, containers without
\* children and documents listed twice drop nothing (buildTree).
OnlyCyclesDropped ==
  Finished => \A d \in Known \ Placed : Doc(d).parent \in Known \ Placed

\* What the names of a sibling start with.
Stem(n) ==
  IF n = Orphans THEN <<OrphansFolderName>>
  ELSE LET base == Slug[Doc(n).title]
       IN IF base = <<>> THEN <<Untitled>>
          ELSE IF base \in DOMAIN Cut THEN Cut[base] ELSE base

StartsWith(name, stem) ==
  Len(stem) <= Len(name) /\ SubSeq(name, 1, Len(stem)) = stem

\* A document with an ordinary title, that no sibling's title is the beginning
\* of, has that title for its name, wherever it comes in the enumeration and
\* whatever other directories hold (assignPaths: each directory has its own set
\* of names).  Its path cannot change because other documents are edited.
PlainTitlesKept ==
  Finished =>
    \A n \in Placed \ {Orphans} :
      LET base == Slug[Doc(n).title]
      IN \/ base = <<>> \/ base \in DOMAIN Cut \/ Casefold(base) \in Reserved
         \/ \E m \in Children(ParentOf(n)) \ {n} : StartsWith(Casefold(base), Casefold(Stem(m)))
         \/ place[n].name = base
=============================================================================
