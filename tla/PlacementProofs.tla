---------------------------- MODULE PlacementProofs ----------------------------
(***************************************************************************)
(* Proofs about Placement, for every inventory, every title and any number *)
(* of documents that share a title or an id prefix.                        *)
(***************************************************************************)
EXTENDS Placement, SequenceTheorems, FiniteSetTheorems, WellFoundedInduction, TLAPS

-----------------------------------------------------------------------------
(* Least and greatest numbers, from the well-foundedness of finite subsets. *)

LEMMA LeastNumber ==
  ASSUME NEW T \in SUBSET Nat, T # {}
  PROVE  \E i \in T : \A j \in T : i <= j
<1> DEFINE Below(i) == 0..(i - 1)
           C == {Below(i) : i \in T}
           Smaller == StrictSubsetOrdering(Nat)
<1>1. C \subseteq FiniteSubsetsOf(Nat) /\ C # {}
  <2>1. \A i \in T : IsFiniteSet(Below(i)) /\ Below(i) \in SUBSET Nat
    <3> TAKE i \in T
    <3>1. IsFiniteSet(Below(i))
      BY FS_Interval
    <3>2. QED BY <3>1
  <2> HIDE DEF Below
  <2>2. QED BY <2>1 DEF FiniteSubsetsOf
<1>2. \E s \in C : \A t \in C : <<t, s>> \notin Smaller
  <2>1. IsWellFoundedOn(Smaller, FiniteSubsetsOf(Nat))
    BY FS_StrictSubsetOrderingWellFounded
  <2> HIDE DEF C, Smaller
  <2>2. QED BY <1>1, <2>1, WFMin
<1>3. PICK i \in T : \A t \in C : <<t, Below(i)>> \notin Smaller
  BY <1>2
<1>4. ASSUME NEW j \in T, j < i PROVE FALSE
  <2>1. /\ Below(j) \in SUBSET Nat /\ Below(i) \in SUBSET Nat
        /\ Below(j) \subseteq Below(i)
    BY <1>4
  <2>2. j \in Below(i) /\ j \notin Below(j)
    BY <1>4
  <2>3. <<Below(j), Below(i)>> \in Smaller
    BY <2>1, <2>2 DEF StrictSubsetOrdering
  <2>4. QED BY <1>3, <2>3
<1>5. QED BY <1>4

LEMMA LargestNumber ==
  ASSUME NEW n \in Nat, NEW T \in SUBSET (1..n), T # {}
  PROVE  \E i \in T : \A j \in T : j <= i
<1> DEFINE R == {n - i : i \in T}
<1>1. R \in SUBSET Nat
  <2>1. \A i \in T : n - i \in Nat
    <3>1. \A i \in T : i \in Int /\ i <= n OBVIOUS
    <3>2. QED BY <3>1
  <2>2. QED BY <2>1
<1>2. R # {}
  BY Zenon
<1>3. \E k \in R : \A j \in R : k <= j
  <2> HIDE DEF R
  <2>1. QED BY <1>1, <1>2, LeastNumber
<1>4. PICK i \in T : \A j \in R : n - i <= j
  BY <1>3, Zenon
<1>5. ASSUME NEW j \in T PROVE j <= i
  <2>1. n - i <= n - j
    BY <1>4
  <2>2. i \in Int /\ j \in Int
    OBVIOUS
  <2>3. QED BY <2>1, <2>2
<1>6. QED BY <1>5

-----------------------------------------------------------------------------
(* Names. *)

LEMMA CasefoldKeepsLength ==
  ASSUME NEW name \in Name
  PROVE  Casefold(name) \in Name /\ Len(Casefold(name)) = Len(name)
<1>1. \A i \in 1..Len(name) :
        (IF name[i] \in DOMAIN Lower THEN Lower[name[i]] ELSE name[i]) \in Token
  BY PlacementAssumption DEF Name, Token
<1>2. Len(name) \in Nat /\ DOMAIN name = 1..Len(name)
  BY DEF Name
<1>3. QED BY <1>1, <1>2, IsASeq DEF Casefold, Name

\* A number is not changed by folding.
LEMMA NumberedNames ==
  ASSUME NEW name \in Name, NEW i \in Nat
  PROVE  /\ Append(name, i) \in Name
         /\ Len(Append(name, i)) = Len(name) + 1
         /\ Casefold(Append(name, i))[Len(name) + 1] = i
<1>1. /\ Append(name, i) \in Name /\ Len(Append(name, i)) = Len(name) + 1
      /\ Append(name, i)[Len(name) + 1] = i
      /\ Len(name) + 1 \in DOMAIN Append(name, i)
  BY DEF Name, Token
<1>2. i \notin DOMAIN Lower
  BY PlacementAssumption
<1>3. QED BY <1>1, <1>2 DEF Casefold

\* Among enough numbers one is free, by the pigeonhole principle.
LEMMA FreeNumber ==
  ASSUME NEW name \in Name, NEW taken, IsFiniteSet(taken)
  PROVE  LET Free == {i \in 2..(Cardinality(taken) + 2) : Casefold(Append(name, i)) \notin taken}
             least == CHOOSE i \in Free : \A j \in Free : i <= j
         IN least \in Free /\ least \in Nat
<1> DEFINE c == Cardinality(taken)
           S == 2..(c + 2)
           Free == {i \in S : Casefold(Append(name, i)) \notin taken}
           least == CHOOSE i \in Free : \A j \in Free : i <= j
<1>1. c \in Nat
  BY FS_CardinalityType
<1>2. Free # {}
  <2>1. SUFFICES ASSUME Free = {} PROVE FALSE
    OBVIOUS
  <2> DEFINE f == [i \in S |-> Casefold(Append(name, i))]
  <2>2. f \in [S -> taken]
    BY <2>1
  <2>3. IsFiniteSet(S) /\ Cardinality(S) = c + 1
    BY <1>1, FS_Interval
  <2>4. \E i, j \in S : i # j /\ f[i] = f[j]
    <3>1. Cardinality(taken) < Cardinality(S)
      BY <1>1, <2>3
    <3> HIDE DEF f, S
    <3>2. QED BY <2>2, <2>3, <3>1, FS_PigeonHole
  <2>5. PICK i \in S, j \in S : i # j /\ Casefold(Append(name, i)) = Casefold(Append(name, j))
    BY <2>4
  <2>6. i \in Nat /\ j \in Nat
    BY <1>1
  <2>7. QED BY <2>5, <2>6, NumberedNames
<1>3. Free \in SUBSET Nat
  BY <1>1
<1>4. least \in Free
  <2> HIDE DEF Free
  <2>1. QED BY <1>2, <1>3, LeastNumber
<1> HIDE DEF least, Free
<1>5. least \in Nat
  BY <1>3, <1>4
<1>6. QED BY <1>4, <1>5 DEF least, Free

\* claim finds a free name.
LEMMA ClaimIsFree ==
  ASSUME NEW name \in Name, NEW taken, IsFiniteSet(taken)
  PROVE  /\ Claim(name, taken) \in Name
         /\ Len(Claim(name, taken)) >= Len(name)
         /\ Casefold(Claim(name, taken)) \notin taken
         /\ Claim(name, taken) = name \/ \E i \in Nat : Claim(name, taken) = Append(name, i)
<1> DEFINE Free == {i \in 2..(Cardinality(taken) + 2) : Casefold(Append(name, i)) \notin taken}
           least == CHOOSE i \in Free : \A j \in Free : i <= j
<1>1. CASE Casefold(name) \notin taken
  BY <1>1 DEF Claim, Name
<1>2. CASE Casefold(name) \in taken
  <2>1. Claim(name, taken) = Append(name, least)
    BY <1>2 DEF Claim
  <2>2. least \in Nat /\ Casefold(Append(name, least)) \notin taken
    BY FreeNumber
  <2> HIDE DEF least
  <2>3. Len(name) \in Nat
    BY DEF Name
  <2>4. Append(name, least) \in Name /\ Len(Append(name, least)) = Len(name) + 1
    BY <2>2, NumberedNames
  <2>5. QED BY <2>1, <2>2, <2>3, <2>4
<1>3. QED BY <1>1, <1>2

\* A document's component is free in its directory and is not "_orphans".
LEMMA ComponentIsFree ==
  ASSUME NEW title \in DOMAIN Slug, NEW id \in Ids, NEW taken, IsFiniteSet(taken)
  PROVE  /\ Component(title, id, taken) \in Name
         /\ Component(title, id, taken) # <<>>
         /\ Casefold(Component(title, id, taken)) \notin taken
         /\ Casefold(Component(title, id, taken)) # Casefold(<<OrphansFolderName>>)
<1> DEFINE base == Slug[title]
           stem == IF base = <<>> THEN <<Untitled>>
                   ELSE IF base \in DOMAIN Cut THEN Cut[base] ELSE base
           long == Append(stem, Prefix[id])
<1>1. base \in Name
  BY PlacementAssumption
<1>2. stem \in Name /\ Len(stem) >= 1
  <2>1. CASE base = <<>>
    <3>1. <<Untitled>> \in Name /\ Len(<<Untitled>>) = 1
      BY PlacementAssumption DEF Name, Token
    <3>2. stem = <<Untitled>>
      BY <2>1
    <3> HIDE DEF stem
    <3>3. QED BY <3>1, <3>2
  <2>2. CASE base # <<>> /\ base \in DOMAIN Cut
    BY <2>2, PlacementAssumption
  <2>3. CASE base # <<>> /\ base \notin DOMAIN Cut
    BY <1>1, <2>3, EmptySeq DEF Name
  <2>4. QED BY <2>1, <2>2, <2>3
<1>3. long \in Name /\ Len(long) >= 2
  <2>1. Prefix[id] \in Token
    BY PlacementAssumption DEF Token
  <2> HIDE DEF stem
  <2>2. QED BY <1>2, <2>1 DEF Name
<1>4. CASE stem # base \/ NeedsID(base, taken)
  <2>1. Component(title, id, taken) = Claim(long, taken)
    BY <1>4 DEF Component
  <2> DEFINE c == Claim(long, taken)
  <2>2. c \in Name /\ Len(c) >= 2 /\ Casefold(c) \notin taken
    <3> HIDE DEF long
    <3>1. Len(long) \in Nat
      BY <1>3 DEF Name
    <3>2. Len(Claim(long, taken)) \in Nat
      BY <1>3, ClaimIsFree DEF Name
    <3>3. QED BY <1>3, <3>1, <3>2, ClaimIsFree
  <2> HIDE DEF c
  <2>3. Len(Casefold(c)) >= 2 /\ c # <<>>
    BY <2>2, CasefoldKeepsLength
  <2>4. <<OrphansFolderName>> \in Name /\ Len(<<OrphansFolderName>>) = 1
    BY PlacementAssumption DEF Name, Token
  <2>5. Len(Casefold(<<OrphansFolderName>>)) = 1
    BY <2>4, CasefoldKeepsLength
  <2>6. QED BY <2>1, <2>2, <2>3, <2>5 DEF c
<1>5. CASE stem = base /\ ~NeedsID(base, taken)
  <2>1. Component(title, id, taken) = base
    BY <1>5 DEF Component
  <2>2. Casefold(base) \notin Reserved \cup taken
    BY <1>5 DEF NeedsID
  <2>3. base # <<>>
    BY <1>2, <1>5
  <2>4. QED BY <1>1, <2>1, <2>2, <2>3, ReservedAssumption
<1>6. QED BY <1>4, <1>5

-----------------------------------------------------------------------------
(* The inductive invariant. *)

\* The names of placed nodes are taken; "_orphans" is free until it is placed.
NamesTaken ==
  /\ \A n \in Placed : n \in Tree /\ Casefold(place[n].name) \in used[ParentOf(n)]
  /\ \A dir \in Nodes \cup {Top} : IsFiniteSet(used[dir])
  /\ Orphans \notin Placed =>
       \A dir \in Nodes \cup {Top} : Casefold(<<OrphansFolderName>>) \notin used[dir]

\* The children of a placed node are placed, or its call of assignPaths is
\* still under way.
Agenda ==
  \A dir \in Placed \cup {Top} :
    Children(dir) \subseteq Placed \/ \E i \in 1..Len(stack) : stack[i] = dir

Inv == TypeOK /\ NamesTaken /\ NamesDistinct /\ Agenda

-----------------------------------------------------------------------------
(* The nodes of an inventory. *)

LEMMA ListedDocument ==
  ASSUME TypeOK, NEW d \in Known
  PROVE  d \in Ids /\ Doc(d) \in RemoteDoc /\ Doc(d).id = d
<1> DEFINE T == {i \in DOMAIN docs : docs[i].id = d}
<1>1. Len(docs) \in Nat /\ DOMAIN docs = 1..Len(docs)
  BY DEF TypeOK
<1>2. T \in SUBSET (1..Len(docs)) /\ T # {}
  BY <1>1 DEF Known
<1>3. \E i \in T : \A j \in T : j <= i
  <2> HIDE DEF T
  <2>1. QED BY <1>1, <1>2, LargestNumber
<1>4. \A i \in DOMAIN docs : docs[i] \in RemoteDoc
  BY DEF TypeOK
<1>5. d \in Ids /\ d # Orphans
  BY <1>2, <1>4, PlacementAssumption DEF RemoteDoc
<1>6. Order(d) \in DOMAIN docs /\ docs[Order(d)].id = d
  BY <1>3, <1>5 DEF Order
<1>7. QED BY <1>4, <1>5, <1>6 DEF Doc

LEMMA TreeNodes ==
  ASSUME TypeOK
  PROVE  /\ Tree \subseteq Nodes
         /\ \A n \in Tree : n = Orphans \/ n \in Known
         /\ \A n \in Tree : ParentOf(n) \in Nodes \cup {Top}
<1>1. Known \subseteq Ids
  BY ListedDocument
<1>2. QED BY <1>1 DEF Tree, ParentOf, Nodes

\* The inventory of a placement does not change, nor does what it determines.
LEMMA SameInventory ==
  ASSUME docs' = docs
  PROVE  /\ Known' = Known /\ Tree' = Tree
         /\ \A n : Doc(n)' = Doc(n) /\ ParentOf(n)' = ParentOf(n)
         /\ \A dir : Children(dir)' = Children(dir)
<1>1. Known' = Known
  BY DEF Known
<1>2. \A n : Doc(n)' = Doc(n)
  BY DEF Doc, Order
<1>3. \A n : ParentOf(n)' = ParentOf(n)
  BY <1>1, <1>2 DEF ParentOf
<1>4. Tree' = Tree
  BY <1>1, <1>3 DEF Tree
<1>5. \A dir : Children(dir)' = Children(dir)
  BY <1>3, <1>4 DEF Children
<1>6. QED BY <1>1, <1>2, <1>3, <1>4, <1>5

-----------------------------------------------------------------------------
(* The invariant holds initially and is preserved. *)

LEMMA InitInv == Init => Inv
<1> SUFFICES ASSUME Init PROVE Inv
  OBVIOUS
<1>1. TypeOK
  <2>1. docs \in Seq(RemoteDoc)
    BY PlacementAssumption DEF Init
  <2>2. <<>> \in Seq(Name) /\ <<>> \in Name
    BY DEF Name
  <2>3. QED BY <2>1, <2>2 DEF Init, TypeOK, Unplaced
<1>2. Placed = {}
  BY DEF Init, Placed
<1>3. NamesTaken
  BY <1>2, FS_EmptySet DEF Init, NamesTaken
<1>4. NamesDistinct
  BY <1>2 DEF NamesDistinct
<1>5. Agenda
  <2>1. stack[1] = Top /\ Len(stack) = 1
    BY DEF Init
  <2>2. QED BY <1>2, <2>1 DEF Agenda
<1>6. QED BY <1>1, <1>3, <1>4, <1>5 DEF Inv

\* What one turn of assignPaths does: a node gets a name that is free in its
\* directory, and its children are put on the agenda.
LEMMA AssignStep ==
  ASSUME Inv, Assign
  PROVE  \E n \in Tree, name \in Name :
           /\ n \in Nodes \ Placed /\ name # <<>>
           /\ Casefold(name) \notin used[ParentOf(n)]
           /\ n # Orphans => Casefold(name) # Casefold(<<OrphansFolderName>>)
           /\ ParentOf(n) \in Nodes \cup {Top}
           /\ used' = [used EXCEPT ![ParentOf(n)] = @ \cup {Casefold(name)}]
           /\ place' = [place EXCEPT ![n] = [dir |-> DirPath(ParentOf(n)), name |-> name]]
           /\ DirPath(ParentOf(n)) \in Seq(Name)
           /\ stack' = IF IsDir(n) THEN <<n>> \o stack ELSE stack
           /\ ParentOf(n) = Head(stack) /\ name = NameOf(n, ParentOf(n))
<1> DEFINE dir == Head(stack)
<1>1. dir \in Nodes \cup {Top} /\ dir = Head(stack)
  BY DEF Inv, TypeOK, Assign
<1>2. PICK n \in Left(dir) :
        /\ used' = [used EXCEPT ![dir] = @ \cup {Casefold(NameOf(n, dir))}]
        /\ place' = [place EXCEPT ![n] = [dir |-> DirPath(dir), name |-> NameOf(n, dir)]]
        /\ stack' = IF IsDir(n) THEN <<n>> \o stack ELSE stack
  BY DEF Assign
<1> HIDE DEF dir
<1>3. n \in Tree /\ ParentOf(n) = dir /\ n \in Nodes \ Placed
  BY TreeNodes DEF Inv, Left, Children
<1>4. IsFiniteSet(used[dir])
  BY <1>1 DEF Inv, NamesTaken
<1>5. /\ NameOf(n, dir) \in Name /\ NameOf(n, dir) # <<>>
      /\ Casefold(NameOf(n, dir)) \notin used[dir]
      /\ n # Orphans => Casefold(NameOf(n, dir)) # Casefold(<<OrphansFolderName>>)
  <2>1. CASE n = Orphans
    <3>1. NameOf(n, dir) = <<OrphansFolderName>>
      BY <2>1 DEF NameOf
    <3>2. <<OrphansFolderName>> \in Name /\ <<OrphansFolderName>> # <<>>
      BY PlacementAssumption DEF Name, Token
    <3>3. QED BY <1>1, <1>3, <2>1, <3>1, <3>2 DEF Inv, NamesTaken
  <2>2. CASE n # Orphans
    <3>1. n \in Known
      BY <1>3, <2>2, TreeNodes DEF Inv
    <3>2. n \in Ids /\ Doc(n).title \in DOMAIN Slug
      BY <3>1, ListedDocument DEF Inv, RemoteDoc
    <3>3. NameOf(n, dir) = Component(Doc(n).title, n, used[dir])
      BY <2>2 DEF NameOf, Taken
    <3>4. QED BY <1>4, <3>2, <3>3, ComponentIsFree
  <2>3. QED BY <2>1, <2>2
<1>6. DirPath(dir) \in Seq(Name)
  <2>1. CASE dir = Top
    BY <2>1 DEF DirPath
  <2>2. CASE dir \in Nodes /\ dir # Top
    <3>1. place[dir].dir \in Seq(Name) /\ place[dir].name \in Name
      BY <2>2 DEF Inv, TypeOK
    <3>2. QED BY <2>2, <3>1 DEF DirPath
  <2>3. QED BY <1>1, <2>1, <2>2
<1>7. QED BY <1>1, <1>2, <1>3, <1>5, <1>6

LEMMA AssignInv == Inv /\ Assign => Inv'
<1> SUFFICES ASSUME Inv, Assign PROVE Inv'
  OBVIOUS
<1> USE DEF Inv
<1>1. PICK n \in Tree, name \in Name :
        /\ n \in Nodes \ Placed /\ name # <<>>
        /\ Casefold(name) \notin used[ParentOf(n)]
        /\ n # Orphans => Casefold(name) # Casefold(<<OrphansFolderName>>)
        /\ ParentOf(n) \in Nodes \cup {Top}
        /\ used' = [used EXCEPT ![ParentOf(n)] = @ \cup {Casefold(name)}]
        /\ place' = [place EXCEPT ![n] = [dir |-> DirPath(ParentOf(n)), name |-> name]]
        /\ DirPath(ParentOf(n)) \in Seq(Name)
        /\ stack' = IF IsDir(n) THEN <<n>> \o stack ELSE stack
  BY AssignStep
<1>2. /\ docs' = docs /\ Tree' = Tree
      /\ \A m : ParentOf(m)' = ParentOf(m)
      /\ \A dir : Children(dir)' = Children(dir)
  BY SameInventory DEF Assign
<1>3. Placed' = Placed \cup {n}
  BY <1>1 DEF Placed, Unplaced, TypeOK
<1>4. /\ place'[n].name = name
      /\ \A m \in Placed : place'[m] = place[m] /\ m # n
  BY <1>1 DEF Placed, TypeOK
<1>5. TypeOK'
  <2>1. stack' \in Seq(Nodes \cup {Top})
    <3>1. stack \in Seq(Nodes \cup {Top}) /\ <<n>> \in Seq(Nodes \cup {Top})
      BY <1>1 DEF TypeOK
    <3>2. <<n>> \o stack \in Seq(Nodes \cup {Top})
      BY <3>1, ConcatProperties
    <3>3. QED BY <1>1, <3>1, <3>2
  <2>2. used' \in [Nodes \cup {Top} -> SUBSET Name]
    BY <1>1, CasefoldKeepsLength DEF TypeOK
  <2>3. place' \in [Nodes -> [dir : Seq(Name), name : Name]]
    BY <1>1 DEF TypeOK
  <2>4. QED BY <1>2, <2>1, <2>2, <2>3 DEF TypeOK
<1>6. NamesTaken'
  <2>1. \A dir \in Nodes \cup {Top} :
          /\ used[dir] \subseteq used'[dir]
          /\ used'[dir] \subseteq used[dir] \cup {Casefold(name)}
    BY <1>1 DEF TypeOK
  <2>2. Casefold(name) \in used'[ParentOf(n)]
    BY <1>1 DEF TypeOK
  <2>3. \A m \in Placed' : m \in Tree' /\ Casefold(place'[m].name) \in used'[ParentOf(m)']
    <3> TAKE m \in Placed'
    <3>1. CASE m = n
      BY <1>1, <1>2, <1>4, <2>2, <3>1
    <3>2. CASE m \in Placed
      <4>1. m \in Tree /\ Casefold(place[m].name) \in used[ParentOf(m)]
        BY <3>2 DEF NamesTaken
      <4>2. ParentOf(m) \in Nodes \cup {Top}
        BY <4>1, TreeNodes
      <4>3. QED BY <1>2, <1>4, <2>1, <3>2, <4>1, <4>2
    <3>3. QED BY <1>3, <3>1, <3>2
  <2>4. \A dir \in Nodes \cup {Top} : IsFiniteSet(used'[dir])
    <3> TAKE dir \in Nodes \cup {Top}
    <3>1. IsFiniteSet(used[dir] \cup {Casefold(name)})
      BY FS_AddElement DEF NamesTaken
    <3>2. QED BY <2>1, <3>1, FS_Subset
  <2>5. Orphans \notin Placed' =>
          \A dir \in Nodes \cup {Top} : Casefold(<<OrphansFolderName>>) \notin used'[dir]
    BY <1>1, <1>3, <2>1 DEF NamesTaken
  <2>6. Casefold(<<OrphansFolderName>>)' = Casefold(<<OrphansFolderName>>)
    BY DEF Casefold
  <2>7. QED BY <2>3, <2>4, <2>5, <2>6 DEF NamesTaken, Casefold
<1>7. NamesDistinct'
  <2>1. ASSUME NEW m \in Placed, ParentOf(m) = ParentOf(n)
        PROVE  Casefold(place[m].name) # Casefold(name)
    BY <1>1, <2>1 DEF NamesTaken
  <2>2. SUFFICES ASSUME NEW k \in Placed', NEW m \in Placed',
                        k # m, ParentOf(k) = ParentOf(m)
                 PROVE  Casefold(place'[k].name) # Casefold(place'[m].name)
    BY <1>2 DEF NamesDistinct, Casefold
  <2>3. CASE k \in Placed /\ m \in Placed
    BY <1>4, <2>2, <2>3 DEF NamesDistinct
  <2>4. CASE k = n /\ m \in Placed
    BY <1>4, <2>1, <2>2, <2>4
  <2>5. CASE k \in Placed /\ m = n
    BY <1>4, <2>1, <2>2, <2>5
  <2>6. QED BY <1>3, <2>2, <2>3, <2>4, <2>5
<1>8. Agenda'
  <2>1. \A dir : (\E i \in 1..Len(stack) : stack[i] = dir)
                   => \E i \in 1..Len(stack') : stack'[i] = dir
    <3> TAKE dir
    <3>1. CASE IsDir(n)
      <4>1. stack' = <<n>> \o stack /\ stack \in Seq(Nodes \cup {Top}) /\ Len(stack) \in Nat
        BY <1>1, <3>1 DEF TypeOK
      <4>2. Len(stack') = Len(stack) + 1
            /\ \A i \in 1..Len(stack) : stack'[i + 1] = stack[i]
        BY <4>1
      <4>3. QED BY <4>1, <4>2
    <3>2. CASE ~IsDir(n)
      BY <1>1, <3>2
    <3>3. QED BY <3>1, <3>2
  <2>2. Children(n) = {} \/ \E i \in 1..Len(stack') : stack'[i] = n
    <3>1. CASE IsDir(n)
      <4>1. stack' = <<n>> \o stack /\ stack \in Seq(Nodes \cup {Top}) /\ Len(stack) \in Nat
        BY <1>1, <3>1 DEF TypeOK
      <4>2. stack'[1] = n /\ Len(stack') >= 1
        BY <4>1
      <4>3. QED BY <4>1, <4>2
    <3>2. CASE ~IsDir(n)
      BY <3>2 DEF IsDir
    <3>3. QED BY <3>1, <3>2
  <2>3. QED BY <1>2, <1>3, <2>1, <2>2 DEF Agenda
<1>9. QED BY <1>5, <1>6, <1>7, <1>8

LEMMA ReturnInv == Inv /\ Return => Inv'
<1> SUFFICES ASSUME Inv, Return PROVE Inv'
  OBVIOUS
<1> USE DEF Inv
<1>1. /\ docs' = docs /\ used' = used /\ place' = place /\ Tree' = Tree
      /\ \A n : ParentOf(n)' = ParentOf(n)
      /\ \A dir : Children(dir)' = Children(dir)
  BY SameInventory DEF Return
<1>2. stack \in Seq(Nodes \cup {Top}) /\ stack # <<>> /\ stack' = Tail(stack)
  BY DEF TypeOK, Return
<1>3. Placed' = Placed
  BY <1>1 DEF Placed
<1>4. TypeOK'
  BY <1>1, <1>2, HeadTailProperties DEF TypeOK
<1>5. NamesTaken'
  BY <1>1, <1>3 DEF NamesTaken, Casefold
<1>6. NamesDistinct'
  BY <1>1, <1>3 DEF NamesDistinct, Casefold
<1>7. Agenda'
  <2>1. Children(Head(stack)) \subseteq Placed
    BY DEF Return, Left
  <2>2. ASSUME NEW i \in 1..Len(stack), stack[i] # Head(stack)
        PROVE  \E j \in 1..Len(stack') : stack'[j] = stack[i]
    <3>1. i - 1 \in 1..Len(stack') /\ stack'[i - 1] = stack[i]
      BY <1>2, <2>2
    <3>2. QED BY <3>1
  <2>3. QED BY <1>1, <1>3, <2>1, <2>2 DEF Agenda
<1>8. QED BY <1>4, <1>5, <1>6, <1>7

LEMMA StutterInv == Inv /\ UNCHANGED vars => Inv'
<1> SUFFICES ASSUME Inv, UNCHANGED vars PROVE Inv'
  OBVIOUS
<1> USE DEF Inv, vars
<1>1. /\ Tree' = Tree
      /\ \A n : ParentOf(n)' = ParentOf(n)
      /\ \A dir : Children(dir)' = Children(dir)
  BY SameInventory
<1>2. Placed' = Placed
  BY DEF Placed
<1>3. TypeOK'
  BY DEF TypeOK
<1>4. NamesTaken'
  BY <1>1, <1>2 DEF NamesTaken, Casefold
<1>5. NamesDistinct'
  BY <1>1, <1>2 DEF NamesDistinct, Casefold
<1>6. Agenda'
  BY <1>1, <1>2 DEF Agenda
<1>7. QED BY <1>3, <1>4, <1>5, <1>6

LEMMA InvHolds == Spec => []Inv
<1>1. Inv /\ [Next]_vars => Inv'
  BY AssignInv, ReturnInv, StutterInv DEF Next
<1>2. QED BY InitInv, <1>1, PTL DEF Spec

-----------------------------------------------------------------------------
(* Names and their beginnings. *)

LEMMA FoldedTokens ==
  ASSUME NEW name \in Name
  PROVE  \A i \in 1..Len(name) : Casefold(name)[i] = Casefold(<<name[i]>>)[1]
BY DEF Casefold, Name

LEMMA FoldedEqual ==
  ASSUME NEW s \in Name, NEW t \in Name, Casefold(s) = Casefold(t)
  PROVE  /\ Len(s) = Len(t)
         /\ \A i \in 1..Len(s) : Casefold(<<s[i]>>)[1] = Casefold(<<t[i]>>)[1]
<1>1. Len(s) = Len(t)
  BY CasefoldKeepsLength
<1>2. QED BY <1>1, FoldedTokens

LEMMA FoldedTheSame ==
  ASSUME NEW s \in Name, NEW t \in Name, Len(s) = Len(t),
         \A i \in 1..Len(s) : Casefold(<<s[i]>>)[1] = Casefold(<<t[i]>>)[1]
  PROVE  Casefold(s) = Casefold(t)
<1>1. /\ Casefold(s) \in Seq(Token) /\ Casefold(t) \in Seq(Token)
      /\ Len(Casefold(s)) = Len(s) /\ Len(Casefold(t)) = Len(t)
  BY CasefoldKeepsLength DEF Name
<1>2. \A i \in 1..Len(s) : Casefold(s)[i] = Casefold(t)[i]
  BY FoldedTokens
<1>3. QED BY <1>1, <1>2, SeqEqual

LEMMA StartsPointwise ==
  ASSUME NEW name \in Name, NEW stem \in Name
  PROVE  StartsWith(name, stem) <=>
           /\ Len(stem) <= Len(name)
           /\ \A i \in 1..Len(stem) : name[i] = stem[i]
<1> DEFINE beginning == SubSeq(name, 1, Len(stem))
<1>1. SUFFICES ASSUME Len(stem) <= Len(name)
               PROVE  (beginning = stem) <=> \A i \in 1..Len(stem) : name[i] = stem[i]
  BY DEF StartsWith
<1>2. Len(stem) \in Nat /\ Len(name) \in Nat /\ \A i \in 1..Len(stem) : name[i] \in Token
  BY <1>1 DEF Name
<1>3. /\ beginning \in Seq(Token) /\ Len(beginning) = Len(stem)
      /\ \A i \in 1..Len(stem) : beginning[i] = name[i]
  BY <1>2, SubSeqProperties
<1>4. stem \in Seq(Token)
  BY DEF Name
<1> HIDE DEF beginning
<1>5. QED BY <1>3, <1>4, SeqEqual

LEMMA LongerStarts ==
  ASSUME NEW name \in Name, NEW stem \in Name, StartsWith(name, stem), NEW t \in Token
  PROVE  Append(name, t) \in Name /\ StartsWith(Append(name, t), stem)
<1>1. /\ Append(name, t) \in Name /\ Len(Append(name, t)) = Len(name) + 1
      /\ \A i \in 1..Len(name) : Append(name, t)[i] = name[i]
      /\ Len(name) \in Nat /\ Len(stem) \in Nat
  BY DEF Name
<1>2. Len(stem) <= Len(name) /\ \A i \in 1..Len(stem) : name[i] = stem[i]
  BY StartsPointwise
<1>3. \A i \in 1..Len(stem) : Append(name, t)[i] = stem[i]
  BY <1>1, <1>2
<1> HIDE DEF Name
<1>4. Len(stem) <= Len(Append(name, t))
  BY <1>1, <1>2
<1>5. Append(name, t) \in Name
  BY <1>1
<1>6. QED BY <1>3, <1>4, <1>5, StartsPointwise

LEMMA FoldedStarts ==
  ASSUME NEW name \in Name, NEW stem \in Name, StartsWith(name, stem)
  PROVE  StartsWith(Casefold(name), Casefold(stem))
<1>1. Len(stem) <= Len(name) /\ \A i \in 1..Len(stem) : name[i] = stem[i]
  BY StartsPointwise
<1>2. /\ Casefold(name) \in Name /\ Len(Casefold(name)) = Len(name)
      /\ Casefold(stem) \in Name /\ Len(Casefold(stem)) = Len(stem)
      /\ Len(name) \in Nat /\ Len(stem) \in Nat
  BY CasefoldKeepsLength DEF Name
<1>3. ASSUME NEW i \in 1..Len(stem) PROVE Casefold(name)[i] = Casefold(stem)[i]
  <2>1. i \in 1..Len(name) /\ name[i] = stem[i]
    BY <1>1, <1>2
  <2>2. QED BY <2>1, FoldedTokens
<1>4. QED BY <1>1, <1>2, <1>3, StartsPointwise

\* claim only appends.
LEMMA ClaimStarts ==
  ASSUME NEW name \in Name, NEW stem \in Name, StartsWith(name, stem),
         NEW taken, IsFiniteSet(taken)
  PROVE  StartsWith(Claim(name, taken), stem)
<1>1. CASE Claim(name, taken) = name
  BY <1>1
<1>2. ASSUME NEW i \in Nat, Claim(name, taken) = Append(name, i)
      PROVE  StartsWith(Claim(name, taken), stem)
  BY <1>2, LongerStarts DEF Token
<1>3. QED BY <1>1, <1>2, ClaimIsFree

\* A component starts with the stem of its title and is not reserved; it is the
\* slug itself when that fits, and is neither reserved nor taken.
LEMMA ComponentStarts ==
  ASSUME NEW title \in DOMAIN Slug, NEW id \in Ids, NEW taken, IsFiniteSet(taken)
  PROVE  LET base == Slug[title]
             stem == IF base = <<>> THEN <<Untitled>>
                     ELSE IF base \in DOMAIN Cut THEN Cut[base] ELSE base
         IN /\ stem \in Name
            /\ StartsWith(Component(title, id, taken), stem)
            /\ Casefold(Component(title, id, taken)) \notin Reserved
            /\ stem # base \/ Casefold(base) \in Reserved \cup taken
                 \/ Component(title, id, taken) = base
<1> DEFINE base == Slug[title]
           stem == IF base = <<>> THEN <<Untitled>>
                   ELSE IF base \in DOMAIN Cut THEN Cut[base] ELSE base
           long == Append(stem, Prefix[id])
<1>1. stem \in Name /\ Len(stem) >= 1
  <2>1. CASE base = <<>>
    <3>1. <<Untitled>> \in Name /\ Len(<<Untitled>>) = 1
      BY PlacementAssumption DEF Name, Token
    <3>2. stem = <<Untitled>>
      BY <2>1
    <3> HIDE DEF stem
    <3>3. QED BY <3>1, <3>2
  <2>2. CASE base # <<>> /\ base \in DOMAIN Cut
    BY <2>2, PlacementAssumption
  <2>3. CASE base # <<>> /\ base \notin DOMAIN Cut
    <3>1. base \in Name
      BY PlacementAssumption
    <3>2. QED BY <2>3, <3>1, EmptySeq DEF Name
  <2>4. QED BY <2>1, <2>2, <2>3
<1>2. StartsWith(stem, stem)
  <2> HIDE DEF stem
  <2>1. Len(stem) \in Nat
    BY <1>1 DEF Name
  <2>2. QED BY <1>1, <2>1, StartsPointwise
<1>3. long \in Name /\ Len(long) >= 2 /\ StartsWith(long, stem)
  <2>1. Prefix[id] \in Token
    BY PlacementAssumption DEF Token
  <2> HIDE DEF stem
  <2>2. Len(long) = Len(stem) + 1 /\ Len(stem) \in Nat
    BY <1>1, <2>1 DEF Name
  <2> HIDE DEF long
  <2>3. QED BY <1>1, <1>2, <2>1, <2>2, LongerStarts DEF long
<1>4. CASE stem # base \/ NeedsID(base, taken)
  <2> DEFINE c == Claim(long, taken)
  <2>1. Component(title, id, taken) = c
    BY <1>4 DEF Component
  <2>2. stem # base \/ Casefold(base) \in Reserved \cup taken
    BY <1>4 DEF NeedsID
  <2> HIDE DEF long, stem, base
  <2>3. c \in Name /\ Len(c) >= 2 /\ StartsWith(c, stem)
    <3>1. c \in Name /\ Len(c) >= Len(long) /\ StartsWith(c, stem)
      BY <1>1, <1>3, ClaimIsFree, ClaimStarts
    <3>2. Len(c) \in Nat /\ Len(long) \in Nat
      BY <1>3, <3>1 DEF Name
    <3> HIDE DEF c
    <3>3. QED BY <1>3, <3>1, <3>2
  <2> HIDE DEF c
  <2>4. Casefold(c) \notin Reserved
    <3>1. Len(Casefold(c)) = Len(c)
      BY <2>3, CasefoldKeepsLength
    <3>2. Len(Casefold(c)) # 1
      BY <2>3, <3>1
    <3>3. \A r \in Reserved : Len(r) = 1
      BY ReservedAssumption
    <3>4. QED BY <3>2, <3>3
  <2>5. QED BY <1>1, <2>1, <2>2, <2>3, <2>4 DEF base, stem
<1>5. CASE stem = base /\ ~NeedsID(base, taken)
  <2>1. Component(title, id, taken) = base
    BY <1>5 DEF Component
  <2>2. Casefold(base) \notin Reserved
    BY <1>5 DEF NeedsID
  <2> HIDE DEF stem, base
  <2>3. QED BY <1>1, <1>2, <1>5, <2>1, <2>2 DEF stem, base
<1>6. QED BY <1>4, <1>5

-----------------------------------------------------------------------------
(* Directories nest as their nodes do, and what the names are made of. *)

\* A node is placed in the directory of its parent, which has its place.
Nested ==
  /\ \A n \in Placed : /\ ParentOf(n) \in Placed \cup {Top}
                       /\ place[n].dir = DirPath(ParentOf(n))
  /\ \A i \in 1..Len(stack) : stack[i] \in Placed \cup {Top}

\* Every name taken is that of a placed node of the directory.
TakenByNodes ==
  \A dir \in Nodes \cup {Top} : \A name \in used[dir] :
    \E m \in Placed : ParentOf(m) = dir /\ Casefold(place[m].name) = name

\* Whether a name is the title's slug, unless there is a reason.
KeepsTitle(base, name, stems) ==
  \/ base = <<>> \/ base \in DOMAIN Cut \/ Casefold(base) \in Reserved
  \/ \E stem \in stems : StartsWith(Casefold(base), Casefold(stem))
  \/ name = base

OtherStems(n) == {Stem(m) : m \in Children(ParentOf(n)) \ {n}}

WellNamed(n) ==
  /\ Stem(n) \in Name /\ StartsWith(place[n].name, Stem(n))
  /\ n # Orphans => /\ Casefold(place[n].name) \notin Reserved
                    /\ KeepsTitle(Slug[Doc(n).title], place[n].name, OtherStems(n))

PathInv == Inv /\ Nested /\ TakenByNodes /\ \A n \in Placed : WellNamed(n)

LEMMA SameStems ==
  ASSUME docs' = docs
  PROVE  \A n : Stem(n)' = Stem(n) /\ OtherStems(n)' = OtherStems(n)
<1>1. \A n : Stem(n)' = Stem(n)
  BY SameInventory DEF Stem
<1>2. \A n : Children(ParentOf(n))' = Children(ParentOf(n))
  BY SameInventory
<1>3. QED BY <1>1, <1>2 DEF OtherStems

LEMMA SameWellNamed ==
  ASSUME docs' = docs, NEW n, place'[n] = place[n], WellNamed(n)
  PROVE  WellNamed(n)'
<1>1. Stem(n)' = Stem(n) /\ OtherStems(n)' = OtherStems(n) /\ Doc(n)' = Doc(n)
  BY SameInventory, SameStems
<1>2. QED BY <1>1 DEF WellNamed, StartsWith, Casefold, KeepsTitle

LEMMA NewWellNamed ==
  ASSUME PathInv, NEW n \in Tree, n \notin Placed, ParentOf(n) \in Nodes \cup {Top},
         docs' = docs, place'[n].name = NameOf(n, ParentOf(n))
  PROVE  WellNamed(n)'
<1> DEFINE dir == ParentOf(n)
           name == place'[n].name
<1>1. IsFiniteSet(used[dir])
  BY DEF PathInv, Inv, NamesTaken
<1>2. CASE n = Orphans
  <2>1. name = <<OrphansFolderName>> /\ Stem(n) = <<OrphansFolderName>>
    BY <1>2 DEF NameOf, Stem
  <2>2. <<OrphansFolderName>> \in Name /\ Len(<<OrphansFolderName>>) = 1
    BY PlacementAssumption DEF Name, Token
  <2>3. StartsWith(<<OrphansFolderName>>, <<OrphansFolderName>>)
    BY <2>2, StartsPointwise
  <2>4. Stem(n)' = Stem(n)
    BY SameStems
  <2>5. QED BY <1>2, <2>1, <2>2, <2>3, <2>4 DEF WellNamed, StartsWith
<1>3. CASE n # Orphans
  <2> DEFINE base == Slug[Doc(n).title]
             stem == IF base = <<>> THEN <<Untitled>>
                     ELSE IF base \in DOMAIN Cut THEN Cut[base] ELSE base
  <2>1. n \in Known
    BY <1>3, TreeNodes DEF PathInv, Inv
  <2>2. n \in Ids /\ Doc(n).title \in DOMAIN Slug
    BY <2>1, ListedDocument DEF PathInv, Inv, RemoteDoc
  <2>3. name = Component(Doc(n).title, n, used[dir]) /\ Stem(n) = stem
    BY <1>3 DEF NameOf, Taken, Stem
  <2>4. /\ stem \in Name /\ StartsWith(name, stem) /\ Casefold(name) \notin Reserved
        /\ stem # base \/ Casefold(base) \in Reserved \cup used[dir] \/ name = base
    BY <1>1, <2>2, <2>3, ComponentStarts
  <2>5. ASSUME stem = base, Casefold(base) \in used[dir]
        PROVE  \E m \in Children(dir) \ {n} : StartsWith(Casefold(base), Casefold(Stem(m)))
    <3>1. PICK m \in Placed : ParentOf(m) = dir /\ Casefold(place[m].name) = Casefold(base)
      BY <2>5 DEF PathInv, TakenByNodes
    <3>2. m \in Children(dir) /\ m # n
      BY <3>1 DEF PathInv, Inv, NamesTaken, Children
    <3>3. Stem(m) \in Name /\ StartsWith(place[m].name, Stem(m))
      BY DEF PathInv, WellNamed
    <3>4. place[m].name \in Name
      BY DEF PathInv, Inv, TypeOK, Placed
    <3>5. StartsWith(Casefold(place[m].name), Casefold(Stem(m)))
      BY <3>3, <3>4, FoldedStarts
    <3>6. QED BY <3>1, <3>2, <3>5
  <2>6. Stem(n)' = Stem(n) /\ OtherStems(n)' = OtherStems(n) /\ Doc(n)' = Doc(n)
    BY SameInventory, SameStems
  <2>7. KeepsTitle(base, name, OtherStems(n))
    BY <2>4, <2>5 DEF KeepsTitle, OtherStems
  <2> HIDE DEF stem
  <2>8. QED BY <1>3, <2>3, <2>4, <2>6, <2>7 DEF WellNamed, StartsWith, Casefold, KeepsTitle
<1>4. QED BY <1>2, <1>3

LEMMA AssignPathInv == PathInv /\ Assign => PathInv'
<1> SUFFICES ASSUME PathInv, Assign PROVE PathInv'
  OBVIOUS
<1>1. Inv /\ Inv' /\ TypeOK /\ TypeOK'
  BY AssignInv DEF PathInv, Inv
<1>2. PICK n \in Tree, name \in Name :
        /\ n \in Nodes \ Placed /\ name # <<>>
        /\ ParentOf(n) \in Nodes \cup {Top}
        /\ used' = [used EXCEPT ![ParentOf(n)] = @ \cup {Casefold(name)}]
        /\ place' = [place EXCEPT ![n] = [dir |-> DirPath(ParentOf(n)), name |-> name]]
        /\ stack' = IF IsDir(n) THEN <<n>> \o stack ELSE stack
        /\ ParentOf(n) = Head(stack) /\ name = NameOf(n, ParentOf(n))
  BY <1>1, AssignStep
<1>3. /\ docs' = docs /\ Tree' = Tree
      /\ \A m : ParentOf(m)' = ParentOf(m)
      /\ \A dir : Children(dir)' = Children(dir)
  BY SameInventory DEF Assign
<1>4. Placed' = Placed \cup {n}
  BY <1>1, <1>2 DEF Placed, Unplaced, TypeOK
<1>5. /\ place'[n] = [dir |-> DirPath(ParentOf(n)), name |-> name]
      /\ \A m \in Placed : place'[m] = place[m] /\ m # n
  BY <1>1, <1>2 DEF Placed, TypeOK
<1>6. ParentOf(n) \in Placed \cup {Top}
  <2>1. stack # <<>> /\ Head(stack) = stack[1] /\ 1 \in 1..Len(stack)
    BY <1>1 DEF Assign, TypeOK
  <2>2. QED BY <1>2, <2>1 DEF PathInv, Nested
<1>7. \A dir \in Placed \cup {Top} : DirPath(dir)' = DirPath(dir)
  BY <1>5 DEF DirPath
<1>8. Nested'
  <2>1. ASSUME NEW m \in Placed'
        PROVE  ParentOf(m)' \in Placed' \cup {Top} /\ place'[m].dir = DirPath(ParentOf(m))'
    <3>1. CASE m = n
      BY <1>3, <1>4, <1>5, <1>6, <1>7, <3>1
    <3>2. CASE m \in Placed
      <4>1. ParentOf(m) \in Placed \cup {Top} /\ place[m].dir = DirPath(ParentOf(m))
        BY <3>2 DEF PathInv, Nested
      <4>2. QED BY <1>3, <1>4, <1>5, <1>7, <3>2, <4>1
    <3>3. QED BY <1>4, <2>1, <3>1, <3>2
  <2>2. ASSUME NEW i \in 1..Len(stack') PROVE stack'[i] \in Placed' \cup {Top}
    <3>1. \A j \in 1..Len(stack) : stack[j] \in Placed \cup {Top}
      BY DEF PathInv, Nested
    <3>2. CASE IsDir(n)
      <4>1. stack' = <<n>> \o stack /\ stack \in Seq(Nodes \cup {Top}) /\ Len(stack) \in Nat
        BY <1>1, <1>2, <3>2 DEF TypeOK
      <4>2. /\ Len(stack') = Len(stack) + 1 /\ stack'[1] = n
            /\ i = 1 \/ (i - 1 \in 1..Len(stack) /\ stack'[i] = stack[i - 1])
        BY <2>2, <4>1
      <4>3. QED BY <1>4, <3>1, <4>2
    <3>3. CASE ~IsDir(n)
      BY <1>2, <1>4, <2>2, <3>1, <3>3
    <3>4. QED BY <3>2, <3>3
  <2>3. QED BY <2>1, <2>2 DEF Nested
<1>9. TakenByNodes'
  <2>1. SUFFICES ASSUME NEW dir \in Nodes \cup {Top}, NEW u \in used'[dir]
                 PROVE  \E m \in Placed' : ParentOf(m)' = dir /\ Casefold(place'[m].name) = u
    BY DEF TakenByNodes, Casefold
  <2>2. CASE u \in used[dir]
    <3>1. PICK m \in Placed : ParentOf(m) = dir /\ Casefold(place[m].name) = u
      BY <2>2 DEF PathInv, TakenByNodes
    <3>2. QED BY <1>3, <1>4, <1>5, <3>1
  <2>3. CASE u \notin used[dir]
    <3>1. dir = ParentOf(n) /\ u = Casefold(name)
      BY <1>1, <1>2, <2>1, <2>3 DEF TypeOK
    <3>2. QED BY <1>3, <1>4, <1>5, <3>1
  <2>4. QED BY <2>2, <2>3
<1>10. ASSUME NEW m \in Placed' PROVE WellNamed(m)'
  <2>1. CASE m = n
    <3>1. place'[n].name = NameOf(n, ParentOf(n))
      BY <1>2, <1>5
    <3>2. QED BY <1>2, <1>3, <2>1, <3>1, NewWellNamed
  <2>2. CASE m \in Placed
    BY <1>3, <1>5, <2>2, SameWellNamed DEF PathInv
  <2>3. QED BY <1>4, <1>10, <2>1, <2>2
<1>11. QED BY <1>1, <1>8, <1>9, <1>10 DEF PathInv

\* The other steps place nothing.
LEMMA OtherPathInv == PathInv /\ (Return \/ UNCHANGED vars) => PathInv'
<1> SUFFICES ASSUME PathInv, Return \/ UNCHANGED vars PROVE PathInv'
  OBVIOUS
<1>1. Inv /\ Inv' /\ TypeOK
  BY ReturnInv, StutterInv DEF PathInv, Inv
<1>2. docs' = docs /\ used' = used /\ place' = place
  BY DEF Return, vars
<1>3. Placed' = Placed /\ \A dir : DirPath(dir)' = DirPath(dir)
  BY <1>2 DEF Placed, DirPath
<1>4. \A n : ParentOf(n)' = ParentOf(n)
  BY <1>2, SameInventory
<1>5. ASSUME NEW i \in 1..Len(stack') PROVE stack'[i] \in Placed \cup {Top}
  <2>1. CASE Return
    <3>1. stack \in Seq(Nodes \cup {Top}) /\ stack # <<>> /\ stack' = Tail(stack)
      BY <1>1, <2>1 DEF TypeOK, Return
    <3>2. i + 1 \in 1..Len(stack) /\ stack'[i] = stack[i + 1]
      BY <1>5, <3>1
    <3>3. QED BY <3>2 DEF PathInv, Nested
  <2>2. CASE UNCHANGED vars
    BY <1>5, <2>2 DEF PathInv, Nested, vars
  <2>3. QED BY <2>1, <2>2
<1>6. Nested'
  BY <1>2, <1>3, <1>4, <1>5 DEF PathInv, Nested
<1>7. TakenByNodes'
  BY <1>2, <1>3, <1>4 DEF PathInv, TakenByNodes, Casefold
<1>8. \A n \in Placed' : WellNamed(n)'
  BY <1>2, <1>3, SameWellNamed DEF PathInv
<1>9. QED BY <1>1, <1>6, <1>7, <1>8 DEF PathInv

LEMMA PathInvHolds == Spec => []PathInv
<1>1. Init => PathInv
  <2>1. SUFFICES ASSUME Init PROVE PathInv
    OBVIOUS
  <2>2. Placed = {}
    BY <2>1 DEF Init, Placed
  <2>3. \A i \in 1..Len(stack) : stack[i] = Top
    BY <2>1 DEF Init
  <2>4. TakenByNodes
    BY <2>1 DEF Init, TakenByNodes
  <2>5. QED BY <2>1, <2>2, <2>3, <2>4, InitInv DEF PathInv, Nested
<1>2. PathInv /\ [Next]_vars => PathInv'
  BY AssignPathInv, OtherPathInv DEF Next
<1>3. QED BY <1>1, <1>2, PTL DEF Spec

-----------------------------------------------------------------------------
(* Paths.  Two nodes with one path would have parents with one path, and so on *)
(* up to two siblings with one name.                                           *)

LEMMA AppendFacts ==
  ASSUME NEW S, NEW seq \in Seq(S), NEW x \in S
  PROVE  /\ Append(seq, x) \in Seq(S) /\ Len(seq) \in Nat
         /\ Len(Append(seq, x)) = Len(seq) + 1
         /\ \A i \in 1..Len(seq) : Append(seq, x)[i] = seq[i]
         /\ Append(seq, x)[Len(seq) + 1] = x
OBVIOUS

\* Paths that a case-insensitive file system takes for one.
SameFolded(p, q) ==
  Len(p) = Len(q) /\ \A i \in 1..Len(p) : Casefold(p[i]) = Casefold(q[i])

LEMMA OneLevelUp ==
  ASSUME NEW d \in Seq(Name), NEW e \in Seq(Name), NEW s \in Name, NEW t \in Name
  PROVE  SameFolded(Append(d, s), Append(e, t))
           <=> SameFolded(d, e) /\ Casefold(s) = Casefold(t)
<1> DEFINE p == Append(d, s)
           q == Append(e, t)
<1>1. /\ Len(p) = Len(d) + 1 /\ p[Len(d) + 1] = s /\ Len(d) \in Nat
      /\ \A i \in 1..Len(d) : p[i] = d[i]
  BY AppendFacts
<1>2. /\ Len(q) = Len(e) + 1 /\ q[Len(e) + 1] = t /\ Len(e) \in Nat
      /\ \A i \in 1..Len(e) : q[i] = e[i]
  BY AppendFacts
<1> HIDE DEF p, q
<1>3. ASSUME SameFolded(p, q) PROVE SameFolded(d, e) /\ Casefold(s) = Casefold(t)
  <2>1. Len(d) = Len(e)
    BY <1>1, <1>2, <1>3 DEF SameFolded
  <2>2. Len(d) + 1 \in 1..Len(p) /\ \A i \in 1..Len(d) : i \in 1..Len(p)
    BY <1>1
  <2>3. Casefold(s) = Casefold(t)
    BY <1>1, <1>2, <1>3, <2>1, <2>2 DEF SameFolded
  <2>4. \A i \in 1..Len(d) : Casefold(d[i]) = Casefold(e[i])
    BY <1>1, <1>2, <1>3, <2>1, <2>2 DEF SameFolded
  <2>5. QED BY <2>1, <2>3, <2>4 DEF SameFolded
<1>4. ASSUME SameFolded(d, e), Casefold(s) = Casefold(t) PROVE SameFolded(p, q)
  <2>1. Len(p) = Len(q)
    BY <1>1, <1>2, <1>4 DEF SameFolded
  <2>2. ASSUME NEW i \in 1..Len(p) PROVE Casefold(p[i]) = Casefold(q[i])
    <3>1. i \in 1..Len(d) \/ i = Len(d) + 1
      BY <1>1
    <3>2. QED BY <1>1, <1>2, <1>4, <3>1 DEF SameFolded
  <2>3. QED BY <2>1, <2>2 DEF SameFolded
<1>5. QED BY <1>3, <1>4 DEF p, q

LEMMA SamePath ==
  ASSUME NEW d \in Seq(Name), NEW s \in Name, NEW e \in Seq(Name), NEW t \in Name
  PROVE  AtPath(d, s) = AtPath(e, t) <=> SameFolded(d, e) /\ Casefold(s) = Casefold(t)
<1> DEFINE p == Append(d, s)
           q == Append(e, t)
<1>1. /\ p \in Seq(Name) /\ q \in Seq(Name)
      /\ Len(p) = Len(d) + 1 /\ Len(q) = Len(e) + 1
      /\ Len(d) \in Nat /\ Len(e) \in Nat
  BY AppendFacts
<1>2. /\ AtPath(d, s) = [i \in 1..(Len(d) + 1) |-> Casefold(p[i])]
      /\ AtPath(e, t) = [i \in 1..(Len(e) + 1) |-> Casefold(q[i])]
  BY DEF AtPath
<1>3. SameFolded(p, q) <=> SameFolded(d, e) /\ Casefold(s) = Casefold(t)
  BY OneLevelUp
<1> HIDE DEF p, q
<1>4. ASSUME AtPath(d, s) = AtPath(e, t) PROVE SameFolded(p, q)
  <2>1. 1..(Len(d) + 1) = 1..(Len(e) + 1)
    BY <1>2, <1>4
  <2>2. Len(d) = Len(e)
    <3>1. Len(d) + 1 \in 1..(Len(e) + 1) /\ Len(e) + 1 \in 1..(Len(d) + 1)
      BY <1>1, <2>1
    <3>2. QED BY <1>1, <3>1
  <2>3. \A i \in 1..(Len(d) + 1) : AtPath(d, s)[i] = Casefold(p[i]) /\ AtPath(e, t)[i] = Casefold(q[i])
    BY <1>2, <2>2
  <2>4. QED BY <1>1, <1>4, <2>2, <2>3 DEF SameFolded
<1>5. ASSUME SameFolded(p, q) PROVE AtPath(d, s) = AtPath(e, t)
  <2>1. Len(d) = Len(e)
    BY <1>1, <1>5 DEF SameFolded
  <2>2. \A i \in 1..(Len(d) + 1) : Casefold(p[i]) = Casefold(q[i])
    BY <1>1, <1>5 DEF SameFolded
  <2>3. QED BY <1>2, <2>1, <2>2
<1>6. QED BY <1>3, <1>4, <1>5

LEMMA PlaceTypes ==
  ASSUME PathInv, NEW n \in Placed
  PROVE  /\ n \in Nodes /\ n # Top /\ n \in Tree
         /\ place[n].dir \in Seq(Name) /\ place[n].name \in Name
         /\ DirPath(n) = Append(place[n].dir, place[n].name)
         /\ DirPath(n) \in Seq(Name) /\ Len(DirPath(n)) = Len(place[n].dir) + 1
         /\ Len(place[n].dir) \in Nat
<1>1. n \in Nodes /\ n \in Tree /\ n # Top
  BY PlacementAssumption DEF PathInv, Inv, NamesTaken, Placed, Nodes
<1>2. place[n].dir \in Seq(Name) /\ place[n].name \in Name
  BY <1>1 DEF PathInv, Inv, TypeOK
<1>3. DirPath(n) = Append(place[n].dir, place[n].name)
  BY <1>1 DEF DirPath
<1>4. QED BY <1>1, <1>2, <1>3, AppendFacts

Clash(m, n) ==
  m # n /\ AtPath(place[m].dir, place[m].name) = AtPath(place[n].dir, place[n].name)

LEMMA ClashFolded ==
  ASSUME PathInv, NEW m \in Placed, NEW n \in Placed
  PROVE  Clash(m, n) <=> /\ m # n /\ SameFolded(place[m].dir, place[n].dir)
                         /\ Casefold(place[m].name) = Casefold(place[n].name)
<1>1. /\ place[m].dir \in Seq(Name) /\ place[m].name \in Name
      /\ place[n].dir \in Seq(Name) /\ place[n].name \in Name
  BY PlaceTypes
<1>2. QED BY <1>1, SamePath DEF Clash

\* Directories that are the same clash or are the same node's.
LEMMA DirectoriesFolded ==
  ASSUME PathInv, NEW m \in Placed, NEW n \in Placed,
         SameFolded(DirPath(m), DirPath(n)), m # n
  PROVE  Clash(m, n)
<1>1. /\ place[m].dir \in Seq(Name) /\ place[m].name \in Name
      /\ place[n].dir \in Seq(Name) /\ place[n].name \in Name
      /\ DirPath(m) = Append(place[m].dir, place[m].name)
      /\ DirPath(n) = Append(place[n].dir, place[n].name)
  BY PlaceTypes
<1>2. SameFolded(place[m].dir, place[n].dir) /\ Casefold(place[m].name) = Casefold(place[n].name)
  BY <1>1, OneLevelUp
<1>3. QED BY <1>2, ClashFolded

\* The parents of two nodes with one path clash, one level higher.
LEMMA ParentsClash ==
  ASSUME PathInv, NEW m \in Placed, NEW n \in Placed, Clash(m, n)
  PROVE  \E a, b \in Placed : Clash(a, b) /\ Len(place[a].dir) < Len(place[m].dir)
<1> DEFINE a == ParentOf(m)
           b == ParentOf(n)
<1>1. /\ a \in Placed \cup {Top} /\ place[m].dir = DirPath(a)
      /\ b \in Placed \cup {Top} /\ place[n].dir = DirPath(b)
  BY DEF PathInv, Nested
<1>2. /\ SameFolded(place[m].dir, place[n].dir)
      /\ Casefold(place[m].name) = Casefold(place[n].name) /\ m # n
  BY ClashFolded
<1>3. a # b
  BY <1>2 DEF PathInv, Inv, NamesDistinct
<1> HIDE DEF a, b
<1>4. DirPath(Top) = <<>> /\ Len(DirPath(Top)) = 0
  BY DEF DirPath
<1>5. a \in Placed /\ b \in Placed
  <2>1. \A c \in Placed : Len(DirPath(c)) # 0
    <3> TAKE c \in Placed
    <3>1. Len(DirPath(c)) = Len(place[c].dir) + 1 /\ Len(place[c].dir) \in Nat
      BY PlaceTypes
    <3>2. QED BY <3>1
  <2>2. Len(DirPath(a)) = Len(DirPath(b))
    BY <1>1, <1>2 DEF SameFolded
  <2>3. QED BY <1>1, <1>3, <1>4, <2>1, <2>2
<1>6. Clash(a, b)
  BY <1>1, <1>2, <1>3, <1>5, DirectoriesFolded
<1>7. Len(place[a].dir) < Len(place[m].dir)
  <2>1. Len(place[m].dir) = Len(place[a].dir) + 1 /\ Len(place[a].dir) \in Nat
    BY <1>1, <1>5, PlaceTypes
  <2>2. QED BY <2>1
<1>8. QED BY <1>5, <1>6, <1>7

LEMMA PathsApart ==
  ASSUME PathInv PROVE \A m, n \in Placed : ~ Clash(m, n)
<1> DEFINE Depth(k) == Len(place[k].dir)
           Depths == {j \in Nat : \E k, l \in Placed : Clash(k, l) /\ j = Depth(k)}
<1>1. SUFFICES ASSUME NEW m \in Placed, NEW n \in Placed, Clash(m, n) PROVE FALSE
  OBVIOUS
<1>2. \A k \in Placed : Depth(k) \in Nat
  <2> TAKE k \in Placed
  <2>1. place[k].dir \in Seq(Name)
    BY PlaceTypes
  <2>2. QED BY <2>1
<1> HIDE DEF Depth
<1>3. Depths \in SUBSET Nat /\ Depth(m) \in Depths
  BY <1>1, <1>2
<1>4. PICK i \in Depths : \A j \in Depths : i <= j
  <2> HIDE DEF Depths
  <2>1. Depths # {}
    BY <1>3
  <2>2. QED BY <1>3, <2>1, LeastNumber
<1>5. PICK k \in Placed, l \in Placed : Clash(k, l) /\ i = Depth(k)
  BY <1>4
<1>6. PICK a \in Placed, b \in Placed : Clash(a, b) /\ Depth(a) < Depth(k)
  BY <1>5, ParentsClash DEF Depth
<1>7. Depth(a) \in Depths /\ Depth(a) \in Nat /\ i \in Nat
  BY <1>2, <1>5, <1>6
<1>8. i <= Depth(a)
  BY <1>4, <1>7
<1>9. QED BY <1>5, <1>6, <1>7, <1>8

\* The two kinds of files: beside the directories, and within them.
BodyBeside(n) == AtPath(place[n].dir, Append(place[n].name, Md))

FilesWithin(n) == {AtPath(DirPath(n), <<Readme, Md>>), AtPath(DirPath(n), <<Index, Md>>)}

LEMMA FileNames ==
  /\ Md \in Token /\ \A t \in {Readme, Index} : <<t>> \in Name /\ <<t, Md>> = Append(<<t>>, Md)
  /\ \A name \in Name : Append(name, Md) \in Name
<1>1. {Md, Readme, Index} \subseteq Token
  BY PlacementAssumption DEF Token
<1>2. ASSUME NEW t \in Token PROVE <<t>> \in Name /\ <<t, Md>> = Append(<<t>>, Md)
  BY DEF Name
<1>3. \A name \in Name : Append(name, Md) \in Name
  BY <1>1, AppendFacts DEF Name
<1>4. QED BY <1>1, <1>2, <1>3

LEMMA FilesOf ==
  ASSUME NEW n
  PROVE  /\ Files(n) \subseteq {BodyBeside(n)} \cup FilesWithin(n)
         /\ n = Orphans => BodyBeside(n) \notin Files(n) \/ BodyBeside(n) \in FilesWithin(n)
BY DEF Files, Body, RowIndex, IsContainer, BodyBeside, FilesWithin

\* Names that are the same with ".md" are the same without.
LEMMA WithoutExtension ==
  ASSUME NEW s \in Name, NEW t \in Name, Casefold(Append(s, Md)) = Casefold(Append(t, Md))
  PROVE  Casefold(s) = Casefold(t)
<1>1. /\ Append(s, Md) \in Name /\ Append(t, Md) \in Name
      /\ Len(Append(s, Md)) = Len(s) + 1 /\ Len(Append(t, Md)) = Len(t) + 1
      /\ \A i \in 1..Len(s) : Append(s, Md)[i] = s[i]
      /\ \A i \in 1..Len(t) : Append(t, Md)[i] = t[i]
      /\ Len(s) \in Nat /\ Len(t) \in Nat
  BY FileNames, AppendFacts DEF Name
<1>2. Len(s) = Len(t)
  <2>1. Len(Append(s, Md)) = Len(Append(t, Md))
    BY <1>1, FoldedEqual
  <2>2. QED BY <1>1, <2>1
<1>3. ASSUME NEW i \in 1..Len(s) PROVE Casefold(<<s[i]>>)[1] = Casefold(<<t[i]>>)[1]
  <2>1. i \in 1..Len(Append(s, Md)) /\ i \in 1..Len(t)
    BY <1>1, <1>2
  <2>2. Casefold(<<Append(s, Md)[i]>>)[1] = Casefold(<<Append(t, Md)[i]>>)[1]
    BY <1>1, <2>1, FoldedEqual
  <2>3. QED BY <1>1, <1>2, <2>1, <2>2
<1>4. QED BY <1>2, <1>3, FoldedTheSame

LEMMA FilesApart ==
  ASSUME PathInv, NEW m \in Placed, NEW n \in Placed, m # n
  PROVE  Files(m) \cap Files(n) = {}
<1>1. ASSUME NEW k \in Placed
      PROVE  /\ place[k].dir \in Seq(Name) /\ place[k].name \in Name
             /\ Append(place[k].name, Md) \in Name /\ DirPath(k) \in Seq(Name)
  BY PlaceTypes, FileNames
<1>2. BodyBeside(m) # BodyBeside(n)
  <2>1. SUFFICES ASSUME BodyBeside(m) = BodyBeside(n) PROVE Clash(m, n)
    BY PathsApart
  <2>2. /\ SameFolded(place[m].dir, place[n].dir)
        /\ Casefold(Append(place[m].name, Md)) = Casefold(Append(place[n].name, Md))
    BY <1>1, <2>1, SamePath DEF BodyBeside
  <2>3. Casefold(place[m].name) = Casefold(place[n].name)
    BY <1>1, <2>2, WithoutExtension
  <2>4. QED BY <2>2, <2>3, ClashFolded
<1>3. ASSUME NEW s \in {Readme, Index}, NEW t \in {Readme, Index},
             AtPath(DirPath(m), <<s, Md>>) = AtPath(DirPath(n), <<t, Md>>)
      PROVE  FALSE
  <2>1. <<s, Md>> \in Name /\ <<t, Md>> \in Name
    BY FileNames
  <2>2. SameFolded(DirPath(m), DirPath(n))
    BY <1>1, <1>3, <2>1, SamePath
  <2>3. QED BY <2>2, DirectoriesFolded, PathsApart
<1>4. FilesWithin(m) \cap FilesWithin(n) = {}
  BY <1>3 DEF FilesWithin
<1>5. ASSUME NEW k \in Placed, k # Orphans, NEW l \in Placed, NEW t \in {Readme, Index},
             BodyBeside(k) = AtPath(DirPath(l), <<t, Md>>)
      PROVE  FALSE
  <2>1. <<t>> \in Name /\ <<t, Md>> = Append(<<t>>, Md) /\ <<t, Md>> \in Name
    BY FileNames
  <2>2. Casefold(Append(place[k].name, Md)) = Casefold(<<t, Md>>)
    BY <1>1, <1>5, <2>1, SamePath DEF BodyBeside
  <2>3. Casefold(place[k].name) = Casefold(<<t>>)
    BY <1>1, <2>1, <2>2, WithoutExtension
  <2>4. Casefold(place[k].name) \notin Reserved
    BY <1>5 DEF PathInv, WellNamed
  <2>5. QED BY <2>3, <2>4, ReservedAssumption
<1>6. \A k, l \in Placed : k # Orphans => BodyBeside(k) \notin FilesWithin(l)
  BY <1>5 DEF FilesWithin
<1>7. ASSUME NEW f \in Files(m), f \in Files(n) PROVE FALSE
  <2>1. f \in FilesWithin(m) \/ (f = BodyBeside(m) /\ m # Orphans)
    BY FilesOf
  <2>2. f \in FilesWithin(n) \/ (f = BodyBeside(n) /\ n # Orphans)
    BY <1>7, FilesOf
  <2>3. QED BY <1>2, <1>4, <1>6, <2>1, <2>2
<1>8. QED BY <1>7

\* A directory that meets a file is named like a file.
LEMMA FilesLikeDirectories ==
  ASSUME PathInv, NEW m \in Placed, NEW n \in Placed, Files(m) \cap Directories(n) # {}
  PROVE  Casefold(place[n].name)[Len(place[n].name)] = Casefold(<<Md>>)[1]
<1>1. PICK f \in Files(m) : f = AtPath(place[n].dir, place[n].name)
  BY DEF Directories
<1>2. PICK dir \in Seq(Name), name \in Name : f = AtPath(dir, Append(name, Md))
  <2>1. /\ place[m].dir \in Seq(Name) /\ place[m].name \in Name /\ DirPath(m) \in Seq(Name)
    BY PlaceTypes
  <2>2. CASE f = BodyBeside(m)
    BY <2>1, <2>2 DEF BodyBeside
  <2>3. ASSUME NEW t \in {Readme, Index}, f = AtPath(DirPath(m), <<t, Md>>)
        PROVE  \E dir \in Seq(Name), name \in Name : f = AtPath(dir, Append(name, Md))
    <3>1. <<t>> \in Name /\ f = AtPath(DirPath(m), Append(<<t>>, Md))
      BY <2>3, FileNames
    <3>2. QED BY <2>1, <3>1
  <2>4. f \in FilesWithin(m) => \E t \in {Readme, Index} : f = AtPath(DirPath(m), <<t, Md>>)
    BY DEF FilesWithin
  <2>5. QED BY <2>2, <2>3, <2>4, FilesOf
<1>3. place[n].dir \in Seq(Name) /\ place[n].name \in Name /\ Append(name, Md) \in Name
  BY PlaceTypes, FileNames
<1>4. Casefold(Append(name, Md)) = Casefold(place[n].name)
  <2> DEFINE file == Append(name, Md)
  <2>1. AtPath(dir, file) = AtPath(place[n].dir, place[n].name) /\ file \in Name
    BY <1>1, <1>2, <1>3
  <2> HIDE DEF file
  <2>2. Casefold(file) = Casefold(place[n].name)
    BY <1>3, <2>1, SamePath
  <2>3. QED BY <2>2 DEF file
<1>5. /\ Len(Append(name, Md)) = Len(name) + 1 /\ Len(name) \in Nat
      /\ Append(name, Md)[Len(name) + 1] = Md
  <2>1. name \in Seq(Token) /\ Md \in Token
    BY FileNames DEF Name
  <2>2. QED BY <2>1, AppendFacts
<1>6. Casefold(Append(name, Md))[Len(name) + 1] = Casefold(<<Md>>)[1]
  <2>1. Len(name) + 1 \in 1..Len(Append(name, Md))
    BY <1>5
  <2>2. QED BY <1>3, <1>5, <2>1, FoldedTokens
<1>7. Len(place[n].name) = Len(name) + 1
  BY <1>3, <1>4, <1>5, FoldedEqual
<1>8. QED BY <1>4, <1>6, <1>7

-----------------------------------------------------------------------------
(* Theorems. *)

\* Every reachable state of a placement is well typed.
THEOREM PlacementTypeCorrect == Spec => []TypeOK
<1>1. Inv => TypeOK
  BY DEF Inv
<1>2. QED BY InvHolds, <1>1, PTL

\* The nodes of a directory have names that stay apart on a case-insensitive
\* file system: naming.Component and its numbered tie-breaker never fail to
\* find a free name.
THEOREM SiblingsApart == Spec => []NamesDistinct
<1>1. Inv => NamesDistinct
  BY DEF Inv
<1>2. QED BY InvHolds, <1>1, PTL

\* buildTree and assignPaths give every document a path, save those whose
\* parents never lead to a root: each of these has a parent without a path.
THEOREM AllButCyclesPlaced == Spec => []OnlyCyclesDropped
<1>1. ASSUME Inv, Finished, NEW d \in Known \ Placed
      PROVE  Doc(d).parent \in Known \ Placed
  <2>1. \A dir \in Placed \cup {Top} : Children(dir) \subseteq Placed
    <3>1. Len(stack) = 0
      BY <1>1 DEF Finished
    <3>2. QED BY <1>1, <3>1 DEF Inv, Agenda
  <2>2. d \in Tree /\ d # Orphans
    BY <1>1, ListedDocument, PlacementAssumption DEF Inv, Tree
  <2>3. ParentOf(d) \notin Placed \cup {Top}
    BY <1>1, <2>1, <2>2 DEF Children
  <2>4. ParentOf(d) # Orphans
    <3>1. SUFFICES ASSUME ParentOf(d) = Orphans PROVE FALSE
      OBVIOUS
    <3>2. Orphans \in Tree /\ ParentOf(Orphans) = Top
      BY <1>1, <3>1 DEF Tree, ParentOf
    <3>3. Orphans \in Placed
      BY <2>1, <3>2 DEF Children
    <3>4. QED BY <2>3, <3>1, <3>3
  <2>5. QED BY <2>2, <2>3, <2>4 DEF ParentOf
<1>2. Inv => OnlyCyclesDropped
  BY <1>1 DEF OnlyCyclesDropped
<1>3. QED BY InvHolds, <1>2, PTL

\* Directories, bodies and row indexes of two nodes never have one path, and a
\* directory meets a file only when its title ends in ".md".
THEOREM PathsAreDistinct == Spec => []PathsDistinct
<1>1. ASSUME PathInv, NEW m \in Placed, NEW n \in Placed, m # n
      PROVE  Directories(m) \cap Directories(n) = {}
  BY <1>1, PathsApart DEF Directories, Clash
<1>2. PathInv => PathsDistinct
  BY <1>1, FilesApart, FilesLikeDirectories DEF PathsDistinct
<1>3. QED BY PathInvHolds, <1>2, PTL

\* An ordinary title is the name of its document, whatever else is enumerated.
THEOREM PlainTitlesAreKept == Spec => []PlainTitlesKept
<1>1. PathInv => PlainTitlesKept
  BY DEF PathInv, WellNamed, KeepsTitle, OtherStems, PlainTitlesKept
<1>2. QED BY PathInvHolds, <1>1, PTL
=============================================================================
