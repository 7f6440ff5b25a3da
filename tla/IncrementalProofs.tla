-------------------------- MODULE IncrementalProofs --------------------------
(***************************************************************************)
(* Proofs about Incremental, for every set of documents, every choice of    *)
(* titles and parents, any number of changes, failures and deaths: what an  *)
(* incremental round overwrites, which subtrees it keeps together, how its  *)
(* placement relates to the full round's, and what it writes of rows.       *)
(***************************************************************************)
EXTENDS Incremental, FiniteSetTheorems, SequenceTheorems, WellFoundedInduction, TLAPS

-----------------------------------------------------------------------------
(* Least numbers, from the well-foundedness of finite subsets. *)

LEMMA LeastNumber ==
  ASSUME NEW T \in SUBSET Nat, T # {}
  PROVE  \E i \in T : \A j \in T : i <= j
<1> DEFINE Smaller(i) == 0..(i - 1)
           C == {Smaller(i) : i \in T}
           Within == StrictSubsetOrdering(Nat)
<1>1. C \subseteq FiniteSubsetsOf(Nat) /\ C # {}
  <2>1. \A i \in T : IsFiniteSet(Smaller(i)) /\ Smaller(i) \in SUBSET Nat
    <3> TAKE i \in T
    <3>1. IsFiniteSet(Smaller(i))
      BY FS_Interval
    <3>2. QED BY <3>1
  <2> HIDE DEF Smaller
  <2>2. QED BY <2>1 DEF FiniteSubsetsOf
<1>2. \E s \in C : \A c \in C : <<c, s>> \notin Within
  <2>1. IsWellFoundedOn(Within, FiniteSubsetsOf(Nat))
    BY FS_StrictSubsetOrderingWellFounded
  <2> HIDE DEF C, Within
  <2>2. QED BY <1>1, <2>1, WFMin
<1>3. PICK i \in T : \A c \in C : <<c, Smaller(i)>> \notin Within
  BY <1>2
<1>4. ASSUME NEW j \in T, j < i PROVE FALSE
  <2>1. /\ Smaller(j) \in SUBSET Nat /\ Smaller(i) \in SUBSET Nat
        /\ Smaller(j) \subseteq Smaller(i)
    BY <1>4
  <2>2. j \in Smaller(i) /\ j \notin Smaller(j)
    BY <1>4
  <2>3. <<Smaller(j), Smaller(i)>> \in Within
    BY <2>1, <2>2 DEF StrictSubsetOrdering
  <2>4. QED BY <1>3, <2>3
<1>5. QED BY <1>4

\* The induction that each fact about a recursive function takes: its least exception.
LEMMA LeastException ==
  ASSUME NEW n \in Nat, NEW T \in SUBSET (0..n), T # {}
  PROVE  \E i \in T : \/ i = 0
                      \/ i \in 1..n /\ i - 1 \in 0..n /\ i - 1 \notin T
<1>1. T \in SUBSET Nat  OBVIOUS
<1>2. PICK i \in T : \A j \in T : i <= j  BY <1>1, LeastNumber
<1>3. i - 1 \notin T  BY <1>1, <1>2
<1>4. i = 0 \/ (i \in 1..n /\ i - 1 \in 0..n)  OBVIOUS
<1>5. QED  BY <1>3, <1>4

-----------------------------------------------------------------------------
(* Climbing through parents. *)

Height == Cardinality(Docs)

LEMMA HeightIsFinite == Height \in Nat
BY ConstantsAssumption, FS_CardinalityType DEF Height

\* One step up.
Onward(up, x) == IF x \in DOMAIN up THEN up[x] ELSE x

\* f climbs from d for k steps.
Climbs(up, d, f, k) ==
  f = [n \in 0..k |-> IF n = 0 THEN d ELSE Onward(up, f[n - 1])]

LEMMA ClimbExists ==
  ASSUME NEW up, NEW d
  PROVE  Climbs(up, d, Climb(up, d), Height)
<1> DEFINE Lacking == {k \in Nat : ~ \E f : Climbs(up, d, f, k)}
<1>1. Lacking = {}
  <2>1. SUFFICES ASSUME Lacking # {} PROVE FALSE  OBVIOUS
  <2>2. PICK k \in Lacking : \A j \in Lacking : k <= j
    <3>1. Lacking \in SUBSET Nat  OBVIOUS
    <3> HIDE DEF Lacking
    <3>2. QED  BY <2>1, <3>1, LeastNumber
  <2>3. CASE k = 0
    <3> DEFINE f == [n \in 0..0 |-> d]
    <3>1. Climbs(up, d, f, 0)  BY DEF Climbs
    <3>2. QED  BY <2>3, <3>1
  <2>4. CASE k # 0
    <3>1. k - 1 \in Nat /\ k - 1 \notin Lacking  BY <2>2, <2>4
    <3>2. PICK f : Climbs(up, d, f, k - 1)  BY <3>1
    <3>3. f = [n \in 0..(k - 1) |-> IF n = 0 THEN d ELSE Onward(up, f[n - 1])]
      BY <3>2 DEF Climbs
    <3> DEFINE g == [n \in 0..k |-> IF n = 0 THEN d ELSE Onward(up, f[n - 1])]
    <3>4. ASSUME NEW n \in 0..(k - 1) PROVE g[n] = f[n]
      <4>1. f[n] = IF n = 0 THEN d ELSE Onward(up, f[n - 1])  BY <3>3
      <4>2. n \in 0..k  BY <3>1
      <4>3. QED  BY <4>1, <4>2
    <3>5. \A n \in 0..k : g[n] = IF n = 0 THEN d ELSE Onward(up, g[n - 1])
      <4>1. \A n \in 0..k : n # 0 => n - 1 \in 0..(k - 1)  BY <3>1
      <4>2. QED  BY <3>4, <4>1
    <3>6. Climbs(up, d, g, k)
      <4> HIDE DEF g
      <4>1. g = [n \in 0..k |-> g[n]]  BY DEF g
      <4>2. QED  BY <3>5, <4>1 DEF Climbs
    <3>7. QED  BY <3>6
  <2>5. QED  BY <2>3, <2>4
<1>2. PICK f : Climbs(up, d, f, Height)
  BY <1>1, HeightIsFinite
<1>3. Climb(up, d) = CHOOSE g : Climbs(up, d, g, Height)
  BY DEF Climb, Climbs, Onward, Height
<1>4. QED  BY <1>2, <1>3

LEMMA ClimbStep ==
  ASSUME NEW up, NEW d
  PROVE  /\ DOMAIN Climb(up, d) = 0..Height
         /\ Climb(up, d)[0] = d
         /\ \A n \in 1..Height : /\ n - 1 \in 0..Height
                                 /\ Climb(up, d)[n] = Onward(up, Climb(up, d)[n - 1])
<1> DEFINE f == Climb(up, d)
<1>1. f = [n \in 0..Height |-> IF n = 0 THEN d ELSE Onward(up, f[n - 1])]
  BY ClimbExists DEF Climbs
<1> HIDE DEF f
<1>2. DOMAIN f = 0..Height /\ f[0] = d  BY <1>1, HeightIsFinite
<1>3. ASSUME NEW n \in 1..Height
      PROVE  n - 1 \in 0..Height /\ f[n] = Onward(up, f[n - 1])
  <2>1. n \in 0..Height /\ n # 0 /\ n - 1 \in 0..Height  BY HeightIsFinite
  <2>2. QED  BY <1>1, <2>1
<1>4. QED  BY <1>2, <1>3 DEF f

\* What has no parent is the end.
LEMMA ClimbEnds ==
  ASSUME NEW up, NEW d, d \notin DOMAIN up
  PROVE  \A n \in 0..Height : Climb(up, d)[n] = d
<1> DEFINE T == {n \in 0..Height : Climb(up, d)[n] # d}
<1>1. SUFFICES ASSUME T # {} PROVE FALSE  OBVIOUS
<1>2. PICK n \in T : \/ n = 0
                     \/ n \in 1..Height /\ n - 1 \in 0..Height /\ n - 1 \notin T
  <2>1. T \in SUBSET (0..Height)  OBVIOUS
  <2> HIDE DEF T
  <2>2. QED  BY <1>1, <2>1, LeastException, HeightIsFinite
<1>3. n # 0  BY ClimbStep
<1>4. Climb(up, d)[n - 1] = d  BY <1>2, <1>3
<1>5. QED  BY <1>2, <1>3, <1>4, ClimbStep DEF Onward

LEMMA RootedIsLive ==
  ASSUME NEW tab, NEW d \in Docs, Rooted(tab, d)
  PROVE  Live(tab, d)
<1>1. SUFFICES ASSUME ~Live(tab, d) PROVE FALSE  OBVIOUS
<1> DEFINE up == [x \in {y \in Docs : Live(tab, y)} |-> tab[x].parent]
<1>2. d \notin DOMAIN up  BY <1>1
<1>3. Ancestor(tab, d) = Climb(up, d)[Height]  BY DEF Ancestor, Height
<1> HIDE DEF up
<1>4. Ancestor(tab, d) = d  BY <1>2, <1>3, ClimbEnds, HeightIsFinite
<1>5. QED  BY <1>4, ConstantsAssumption DEF Rooted

-----------------------------------------------------------------------------
(* Lists in which every element of a set comes once. *)

LEMMA ListFacts ==
  ASSUME NEW S, IsFiniteSet(S), NEW s \in Lists(S)
  PROVE  /\ s \in Seq(S) /\ Len(s) = Cardinality(S) /\ Cardinality(S) \in Nat
         /\ DOMAIN s = 1..Len(s)
         /\ \A i, j \in 1..Len(s) : s[i] = s[j] => i = j
         /\ \A x \in S : \E i \in 1..Len(s) : s[i] = x
<1> DEFINE n == Cardinality(S)
<1>1. n \in Nat  BY FS_CardinalityType
<1>2. s \in [1..n -> S] /\ S = {s[i] : i \in DOMAIN s}  BY DEF Lists
<1>3. \A x \in S : \E i \in 1..n : s[i] = x  BY <1>2
<1>4. \A i, j \in 1..n : s[i] = s[j] => i = j
  <2>1. IsFiniteSet(1..n) /\ Cardinality(1..n) = n  BY <1>1, FS_Interval
  <2>2. s \in Surjection(1..n, S)  BY <1>2, <1>3 DEF Surjection
  <2>3. s \in Injection(1..n, S)
    <3> HIDE DEF n
    <3>1. n = Cardinality(S)  BY DEF n
    <3>2. QED  BY <2>1, <2>2, <3>1, FS_SurjSameCardinalityImpliesInj
  <2>4. QED  BY <2>3 DEF Injection, IsInjective
<1> HIDE DEF n
<1>5. s \in Seq(S)  BY <1>1, <1>2, SeqDef
<1>6. Len(s) = n /\ DOMAIN s = 1..n
  <2>1. DOMAIN s = 1..n /\ DOMAIN s = 1..Len(s) /\ Len(s) \in Nat
    BY <1>2, <1>5, LenProperties
  <2>2. QED  BY <1>1, <2>1
<1>7. QED  BY <1>1, <1>3, <1>4, <1>5, <1>6 DEF n

-----------------------------------------------------------------------------
(* Names, paths and tables. *)

Own(d) == Titles[d] \cup {<<t, d>> : t \in Titles[d]}
Names  == (UNION {Own(d) : d \in Docs}) \cup {Orphans, Trash}
Bases  == Docs \cup {Root, Gone}
Times  == Nat \cup {NoTime}
Labels == (UNION {Titles[d] : d \in Docs}) \cup {NoTime}
Paths  == [at : Seq(Names) \ {<<>>}, form : {"leaf", "readme", "folder"}]
Bodies == [doc : Pages, rev : Nat, props : BOOLEAN]

\* p may be the path of d: it has a form of its kind, and ends in a name of its own.
Fits(d, p) ==
  /\ p \in Paths
  /\ p.form \in IF d \in Databases THEN {"folder"} ELSE {"leaf", "readme"}
  /\ p.at[Len(p.at)] \in Own(d)

NodeRecords == [doc : Docs, parent : Bases, title : Labels, edited : Times, path : Paths]
RowRecords  == [status : {"none", "active", "trashed"}, parent : Bases, title : Labels,
                edited : Times, path : Paths \cup {NoPath}, body : Bodies \cup {NoTime}]

TableTyped(tab) ==
  /\ tab \in [Docs -> RowRecords]
  /\ \A d \in Docs : tab[d].status # "none" => Fits(d, tab[d].path)
  /\ \A d \in Docs : tab[d].status = "trashed" => Head(tab[d].path.at) = Trash

FilesTyped == \A x \in DOMAIN file : x \in Paths /\ x.form # "folder" /\ file[x] \in Bodies

RemoteTyped ==
  /\ parent \in [Docs -> Bases] /\ \A d \in Docs : parent[d] \in Parents[d]
  /\ title \in [Docs -> Labels] /\ \A d \in Docs : title[d] \in Titles[d]
  /\ edits \in [Docs -> Nat]

RoundTyped ==
  /\ pc \in {"idle", "walk", "reap"} /\ mode \in {"full", "incremental"}
  /\ listing \in SUBSET Docs /\ queried \in SUBSET Databases /\ failed \in SUBSET Docs
  /\ nodes \in Seq(NodeRecords) /\ \A i \in 1..Len(nodes) : Fits(nodes[i].doc, nodes[i].path)
  /\ checkpoint \in BOOLEAN

Typed == RemoteTyped /\ RoundTyped /\ FilesTyped /\ TableTyped(row) /\ TableTyped(before)

\* No path belongs to two rows.
OwnPaths(tab) ==
  \A d, e \in Docs : /\ d # e /\ tab[d].status # "none" /\ tab[e].status # "none"
                     => tab[d].path # tab[e].path

LEMMA PathFacts ==
  ASSUME NEW p \in Paths
  PROVE  /\ p.at \in Seq(Names) /\ p.at # <<>> /\ Len(p.at) \in Nat \ {0}
         /\ Head(p.at) = p.at[1] /\ 1 \in 1..Len(p.at) /\ Len(p.at) \in 1..Len(p.at)
<1>1. p.at \in Seq(Names) /\ p.at # <<>>  BY DEF Paths
<1>2. Len(p.at) \in Nat \ {0}  BY <1>1, EmptySeq, LenProperties
<1>3. QED  BY <1>1, <1>2

LEMMA OwnNames ==
  ASSUME NEW d \in Docs, NEW t \in Titles[d]
  PROVE  /\ t \in Own(d) /\ <<t, d>> \in Own(d) /\ Own(d) \subseteq Names
         /\ Own(d) \cap {Orphans, Trash} = {}
<1>1. t \in Own(d) /\ <<t, d>> \in Own(d) /\ Own(d) \subseteq Names  BY DEF Own, Names
<1>2. Own(d) \cap {Orphans, Trash} = {}  BY NamesAssumption DEF Own
<1>3. QED  BY <1>1, <1>2

\* Only d has names with the id of d.
LEMMA LongNames ==
  ASSUME NEW d \in Docs, NEW t \in Titles[d], NEW e \in Docs, <<t, d>> \in Own(e)
  PROVE  e = d
<1>1. CASE <<t, d>> \in Titles[e]  BY <1>1, NamesAssumption
<1>2. CASE \E u \in Titles[e] : <<t, d>> = <<u, e>>  BY <1>2
<1>3. QED  BY <1>1, <1>2 DEF Own

LEMMA MakePath ==
  ASSUME NEW at \in Seq(Names), at # <<>>
  PROVE  /\ Leaf(at) \in Paths /\ Leaf(at).at = at /\ Leaf(at).form = "leaf"
         /\ Readme(at) \in Paths /\ Readme(at).at = at /\ Readme(at).form = "readme"
         /\ Folder(at) \in Paths /\ Folder(at).at = at /\ Folder(at).form = "folder"
BY DEF Paths, Leaf, Readme, Folder

LEMMA AppendFacts ==
  ASSUME NEW dir \in Seq(Names), NEW name \in Names
  PROVE  /\ Append(dir, name) \in Seq(Names) /\ Append(dir, name) # <<>>
         /\ Len(Append(dir, name)) = Len(dir) + 1 /\ Len(dir) \in Nat
         /\ Append(dir, name)[Len(dir) + 1] = name
         /\ Append(dir, name)[Len(Append(dir, name))] = name
         /\ SubSeq(Append(dir, name), 1, Len(dir)) = dir
         /\ Head(Append(dir, name)) = IF dir = <<>> THEN name ELSE Head(dir)
<1>1. /\ Append(dir, name) \in Seq(Names) /\ Append(dir, name) # <<>>
      /\ Len(Append(dir, name)) = Len(dir) + 1 /\ Len(dir) \in Nat
      /\ Append(dir, name)[Len(dir) + 1] = name
  BY AppendProperties, LenProperties
<1>2. SubSeq(Append(dir, name), 1, Len(dir)) = dir  OBVIOUS
<1>3. Head(Append(dir, name)) = IF dir = <<>> THEN name ELSE Head(dir)
  BY HeadTailAppend
<1>4. QED  BY <1>1, <1>2, <1>3

LEMMA Kinds == Docs = Pages \cup Databases /\ Pages \cap Databases = {} /\ Rows \subseteq Pages
BY ConstantsAssumption DEF Docs

LEMMA RecordFacts ==
  ASSUME NEW tab, TableTyped(tab), NEW d \in Docs
  PROVE  /\ tab[d] \in RowRecords /\ DOMAIN tab = Docs
         /\ tab[d].status \in {"none", "active", "trashed"}
         /\ tab[d].status # "none" => Fits(d, tab[d].path) /\ tab[d].path \in Paths
         /\ Live(tab, d) <=> tab[d].status = "active"
         /\ tab[d].status = "trashed" => tab[d].path.at[1] = Trash
<1>1. tab[d] \in RowRecords /\ DOMAIN tab = Docs  BY DEF TableTyped
<1>2. tab[d].status \in {"none", "active", "trashed"}  BY <1>1 DEF RowRecords
<1>3. tab[d].status # "none" => Fits(d, tab[d].path) /\ tab[d].path \in Paths
  BY DEF TableTyped, Fits
<1>4. tab[d].status = "trashed" => tab[d].path.at[1] = Trash
  BY <1>3, PathFacts DEF TableTyped
<1>5. QED  BY <1>1, <1>2, <1>3, <1>4 DEF Live

LEMMA Naming ==
  ASSUME RemoteTyped, NEW d \in Docs, NEW used
  PROVE  /\ Component(d, used) \in {title[d], <<title[d], d>>}
         /\ Component(d, used) \in Own(d) /\ Component(d, used) \in Names
         /\ Component(d, used) = title[d] => title[d] \notin used
<1>1. title[d] \in Titles[d]  BY DEF RemoteTyped
<1>2. title[d] # <<title[d], d>>  BY <1>1, NamesAssumption
<1>3. QED  BY <1>1, <1>2, OwnNames DEF Component

-----------------------------------------------------------------------------
(* Where a full round puts a document: into its parent's directory, under a name  *)
(* of its own that no sibling has, so that no two documents are put at one place. *)

Up(d) == Climb([x \in Shared |-> TreeParent(x)], d)
TreeDepth(d) == Cardinality({n \in DOMAIN Up(d) : Up(d)[n] \in Shared})
TreeNames(order, d) == [i \in 1..TreeDepth(d) |-> TreeName(order, Up(d)[TreeDepth(d) - i])]
TreeAt(order, d) ==
  IF Up(d)[Height] = Orphans THEN <<Orphans>> \o TreeNames(order, d) ELSE TreeNames(order, d)

\* The directory of d.
TreeDir(order, d) ==
  IF TreeParent(d) \in Shared THEN TreeAt(order, TreeParent(d))
  ELSE IF TreeParent(d) = Orphans THEN <<Orphans>> ELSE <<>>

LEMMA SharedIsFinite == Shared \subseteq Docs /\ \A S \in SUBSET Docs : IsFiniteSet(S)
<1>1. IsFiniteSet(Docs)  BY ConstantsAssumption
<1>2. QED  BY <1>1, FS_Subset DEF Shared

LEMMA UpFacts ==
  ASSUME NEW d \in Shared
  PROVE  /\ DOMAIN Up(d) = 0..Height /\ Up(d)[0] = d
         /\ \A n \in 1..Height : n - 1 \in 0..Height /\ Up(d)[n] = Up(TreeParent(d))[n - 1]
         /\ \A n \in 1..Height :
              n - 1 \in 0..Height /\ (Up(d)[n - 1] \notin Shared => Up(d)[n] = Up(d)[n - 1])
<1> DEFINE par == [x \in Shared |-> TreeParent(x)]
           p == TreeParent(d)
           T == {n \in 0..Height : n # 0 /\ Up(d)[n] # Up(p)[n - 1]}
<1>1. Up(d) = Climb(par, d) /\ Up(p) = Climb(par, p) /\ DOMAIN par = Shared  BY DEF Up
<1>2. par[d] = p  OBVIOUS
<1> HIDE DEF par, p
<1>3. /\ DOMAIN Up(d) = 0..Height /\ Up(d)[0] = d /\ Up(p)[0] = p
      /\ \A n \in 1..Height : /\ n - 1 \in 0..Height
                              /\ Up(d)[n] = Onward(par, Up(d)[n - 1])
                              /\ Up(p)[n] = Onward(par, Up(p)[n - 1])
  <2>1. /\ DOMAIN Climb(par, d) = 0..Height /\ Climb(par, d)[0] = d
        /\ \A n \in 1..Height : /\ n - 1 \in 0..Height
                                /\ Climb(par, d)[n] = Onward(par, Climb(par, d)[n - 1])
    BY ClimbStep
  <2>2. /\ Climb(par, p)[0] = p
        /\ \A n \in 1..Height : Climb(par, p)[n] = Onward(par, Climb(par, p)[n - 1])
    BY ClimbStep
  <2>3. QED  BY <1>1, <2>1, <2>2
<1>4. T = {}
  <2>1. SUFFICES ASSUME T # {} PROVE FALSE  OBVIOUS
  <2>2. PICK n \in T : n = 0 \/ (n \in 1..Height /\ n - 1 \in 0..Height /\ n - 1 \notin T)
    <3>1. T \in SUBSET (0..Height)  OBVIOUS
    <3> HIDE DEF T
    <3>2. QED  BY <2>1, <3>1, LeastException, HeightIsFinite
  <2>3. n \in 1..Height /\ n - 1 \in 0..Height /\ n - 1 \notin T /\ Up(d)[n] # Up(p)[n - 1]
    BY <2>2
  <2>4. CASE n - 1 = 0
    <3>1. Up(d)[n] = Onward(par, d)  BY <1>3, <2>3, <2>4
    <3>2. Up(d)[n] = p  BY <1>1, <1>2, <3>1 DEF Onward
    <3>3. QED  BY <1>3, <2>3, <2>4, <3>2
  <2>5. CASE n - 1 # 0
    <3>1. Up(d)[n - 1] = Up(p)[(n - 1) - 1]  BY <2>3, <2>5
    <3>2. n - 1 \in 1..Height  BY <2>3, <2>5, HeightIsFinite
    <3>3. Up(d)[n] = Onward(par, Up(p)[(n - 1) - 1])  BY <1>3, <2>3, <3>1
    <3>4. Up(p)[n - 1] = Onward(par, Up(p)[(n - 1) - 1])  BY <1>3, <3>2
    <3>5. QED  BY <2>3, <3>3, <3>4
  <2>6. QED  BY <2>4, <2>5
<1>5. ASSUME NEW n \in 1..Height
      PROVE  n - 1 \in 0..Height /\ Up(d)[n] = Up(p)[n - 1]
  <2>1. n \in 0..Height /\ n # 0  BY HeightIsFinite
  <2>2. QED  BY <1>3, <1>4, <2>1
<1>6. \A n \in 1..Height : Up(d)[n - 1] \notin Shared => Up(d)[n] = Up(d)[n - 1]
  BY <1>1, <1>3 DEF Onward
<1>7. QED  BY <1>3, <1>5, <1>6 DEF p

\* The documents from d upwards: d's own place is TreeDepth(d) below its root.
LEMMA DepthFacts ==
  ASSUME NEW d \in Shared
  PROVE  /\ TreeDepth(d) \in Nat \ {0}
         /\ \A n \in 0..Height : Up(d)[n] \in Shared <=> n < TreeDepth(d)
         /\ \A n \in 0..(TreeDepth(d) - 1) : n \in 0..Height /\ Up(d)[n] \in Shared
<1> DEFINE T == {n \in DOMAIN Up(d) : Up(d)[n] \in Shared}
           depth == TreeDepth(d)
<1>1. /\ DOMAIN Up(d) = 0..Height /\ Up(d)[0] = d
      /\ \A n \in 1..Height :
           n - 1 \in 0..Height /\ (Up(d)[n - 1] \notin Shared => Up(d)[n] = Up(d)[n - 1])
  BY UpFacts
<1>2. T \in SUBSET (0..Height) /\ 0 \in T  BY <1>1, HeightIsFinite
<1>3. depth = Cardinality(T)  BY DEF TreeDepth
<1> HIDE DEF depth
<1>4. IsFiniteSet(T) /\ depth \in Nat
  <2>1. IsFiniteSet(0..Height)  BY HeightIsFinite, FS_Interval
  <2> HIDE DEF T
  <2>2. QED  BY <1>2, <1>3, <2>1, FS_Subset, FS_CardinalityType
\* Once out of the tree, always out of it.
<1>5. ASSUME NEW k \in 0..Height, k \notin T, NEW n \in T PROVE n < k
  <2>1. SUFFICES ASSUME n >= k PROVE FALSE  BY <1>2, HeightIsFinite
  <2> DEFINE U == {m \in T : m >= k}
  <2>2. U \in SUBSET Nat /\ U # {}  BY <1>2, <2>1, HeightIsFinite
  <2>3. PICK m \in U : \A l \in U : m <= l
    <3> HIDE DEF U
    <3>1. QED  BY <2>2, LeastNumber
  <2>4. m \in T /\ m > k /\ m \in 1..Height  BY <1>2, <1>5, <2>3, HeightIsFinite
  <2>5. m - 1 \in 0..Height /\ m - 1 \notin T
    <3>1. m - 1 >= k /\ m - 1 \in 0..Height  BY <2>4, HeightIsFinite
    <3>2. m - 1 \notin U  BY <2>3, <2>4, HeightIsFinite
    <3>3. QED  BY <3>1, <3>2
  <2>6. Up(d)[m] = Up(d)[m - 1]  BY <1>1, <2>4, <2>5
  <2>7. QED  BY <1>1, <2>4, <2>5, <2>6
<1>6. depth <= Height + 1
  <2>1. IsFiniteSet(0..Height) /\ Cardinality(0..Height) = Height + 1
    BY HeightIsFinite, FS_Interval
  <2> HIDE DEF T
  <2>2. QED  BY <1>2, <1>3, <2>1, FS_Subset
<1>7. ASSUME NEW k \in Nat PROVE IsFiniteSet(0..(k - 1)) /\ Cardinality(0..(k - 1)) = k
  <2> DEFINE l == k - 1
  <2>1. l \in Int /\ l - 0 + 1 = k /\ (0 > l => k = 0)  BY <1>7
  <2> HIDE DEF l
  <2>2. IsFiniteSet(0..l) /\ Cardinality(0..l) = IF 0 > l THEN 0 ELSE l - 0 + 1
    BY <2>1, FS_Interval
  <2>3. QED  BY <2>1, <2>2 DEF l
<1>8. \A k \in 0..(depth - 1) : k \in T
  <2>1. SUFFICES ASSUME NEW k \in 0..(depth - 1), k \notin T PROVE FALSE  OBVIOUS
  <2>2. k \in 0..Height /\ k \in Nat  BY <1>4, <1>6, <2>1, HeightIsFinite
  <2>3. T \in SUBSET (0..(k - 1))
    <3>1. \A n \in T : n < k /\ n \in Nat  BY <1>2, <1>5, <2>1, <2>2, HeightIsFinite
    <3> HIDE DEF T
    <3>2. QED  BY <2>2, <3>1, HeightIsFinite
  <2>4. depth <= k
    <3>1. IsFiniteSet(0..(k - 1)) /\ Cardinality(0..(k - 1)) = k  BY <1>7, <2>2
    <3> HIDE DEF T
    <3>2. QED  BY <1>3, <2>3, <3>1, FS_Subset
  <2>5. QED  BY <1>4, <2>1, <2>4
<1>9. \A k \in T : k < depth
  <2>1. SUFFICES ASSUME NEW k \in T, k >= depth PROVE FALSE  BY <1>2, <1>4, HeightIsFinite
  <2>2. k \in Nat /\ k + 1 \in Nat /\ k + 1 > depth  BY <1>2, <1>4, <2>1, HeightIsFinite
  <2>3. 0..k \subseteq T
    <3>1. ASSUME NEW j \in 0..k, j \notin T PROVE FALSE
      <4>1. j \in 0..Height /\ j <= k  BY <1>2, <2>1, <3>1, HeightIsFinite
      <4>2. k < j  BY <1>5, <3>1, <4>1
      <4>3. QED  BY <2>2, <3>1, <4>1, <4>2
    <3>2. QED  BY <3>1
  <2>4. Cardinality(0..k) = k + 1
    <3>1. (k + 1) - 1 = k  BY <2>2
    <3>2. Cardinality(0..((k + 1) - 1)) = k + 1  BY <1>7, <2>2
    <3>3. QED  BY <3>1, <3>2
  <2>5. k + 1 <= depth
    <3> HIDE DEF T
    <3>1. QED  BY <1>3, <1>4, <2>3, <2>4, FS_Subset
  <2>6. QED  BY <1>4, <2>2, <2>5
<1>10. depth >= 1  BY <1>2, <1>4, <1>9
<1>11. \A n \in 0..Height : Up(d)[n] \in Shared <=> n < depth
  <2>1. \A n \in 0..Height : n < depth => n \in 0..(depth - 1)  BY <1>4, HeightIsFinite
  <2>2. QED  BY <1>1, <1>8, <1>9, <2>1
<1>12. QED  BY <1>1, <1>4, <1>8, <1>10, <1>11 DEF depth

LEMMA TreeNamesTyped ==
  ASSUME RemoteTyped, NEW order, NEW d \in Shared
  PROVE  /\ TreeNames(order, d) \in Seq(Names) /\ Len(TreeNames(order, d)) = TreeDepth(d)
         /\ \A i \in 1..TreeDepth(d) : TreeNames(order, d)[i] = TreeName(order, Up(d)[TreeDepth(d) - i])
         /\ TreeName(order, d) \in Own(d) /\ TreeName(order, d) \in Names
<1> DEFINE depth == TreeDepth(d)
           names == TreeNames(order, d)
<1>1. depth \in Nat \ {0} /\ \A n \in 0..(depth - 1) : Up(d)[n] \in Shared
  BY DepthFacts
<1>2. Shared \subseteq Docs  BY DEF Shared
<1>3. \A e \in Shared : TreeName(order, e) \in Own(e) /\ TreeName(order, e) \in Names
  BY <1>2, Naming DEF TreeName
<1>4. names = [i \in 1..depth |-> TreeName(order, Up(d)[depth - i])]  BY DEF TreeNames
<1> HIDE DEF depth, names
<1>5. \A i \in 1..depth : depth - i \in 0..(depth - 1)  BY <1>1
<1>6. names \in [1..depth -> Names]  BY <1>1, <1>3, <1>4, <1>5
<1>7. names \in Seq(Names)  BY <1>1, <1>6, SeqDef
<1>8. Len(names) = depth  BY <1>1, <1>6, <1>7, LenProperties
<1>9. QED  BY <1>3, <1>4, <1>7, <1>8 DEF depth, names

LEMMA TreeAtTyped ==
  ASSUME RemoteTyped, NEW order, NEW d \in Shared
  PROVE  /\ TreeAt(order, d) \in Seq(Names) /\ TreeAt(order, d) # <<>>
         /\ TreeAt(order, d)[Len(TreeAt(order, d))] \in Own(d)
<1> DEFINE depth == TreeDepth(d)
           names == TreeNames(order, d)
           o == <<Orphans>>
<1>1. /\ names \in Seq(Names) /\ Len(names) = depth
      /\ \A i \in 1..depth : names[i] = TreeName(order, Up(d)[depth - i])
      /\ TreeName(order, d) \in Own(d)
  BY TreeNamesTyped
<1>2. depth \in Nat \ {0} /\ Up(d)[0] = d  BY DepthFacts, UpFacts
<1>3. o \in Seq(Names) /\ Len(o) = 1  BY DEF Names
<1>4. TreeAt(order, d) = IF Up(d)[Height] = Orphans THEN o \o names ELSE names  BY DEF TreeAt
<1> HIDE DEF depth, names, o
<1>5. names[depth] \in Own(d) /\ names # <<>>
  <2>1. depth \in 1..depth /\ depth - depth = 0  BY <1>2
  <2>2. QED  BY <1>1, <1>2, <2>1
<1>6. /\ o \o names \in Seq(Names) /\ Len(o \o names) = 1 + depth
      /\ (o \o names)[1 + depth] = names[depth]
  <2>1. /\ o \o names \in Seq(Names) /\ Len(o \o names) = Len(o) + Len(names)
        /\ \A i \in 1..(Len(o) + Len(names)) :
             (o \o names)[i] = IF i <= Len(o) THEN o[i] ELSE names[i - Len(o)]
    BY <1>1, <1>3, ConcatProperties
  <2>2. /\ 1 + depth \in 1..(Len(o) + Len(names)) /\ ~(1 + depth <= Len(o))
        /\ (1 + depth) - Len(o) = depth
    BY <1>1, <1>2, <1>3
  <2>3. QED  BY <1>1, <1>3, <2>1, <2>2
<1>7. o \o names # <<>>  BY <1>2, <1>6
<1>8. QED  BY <1>1, <1>4, <1>5, <1>6, <1>7

LEMMA TreePathIs ==
  ASSUME NEW order, NEW d
  PROVE  TreePath(order, d) = IF d \in Databases THEN Folder(TreeAt(order, d))
                              ELSE IF HasChildren(d) THEN Readme(TreeAt(order, d))
                              ELSE Leaf(TreeAt(order, d))
BY DEF TreePath, TreeAt, TreeNames, TreeDepth, Up, Height

LEMMA TreePathFits ==
  ASSUME RemoteTyped, NEW order, NEW d \in Shared
  PROVE  Fits(d, TreePath(order, d)) /\ TreePath(order, d).at = TreeAt(order, d)
BY TreePathIs, TreeAtTyped, MakePath, Kinds DEF Fits

LEMMA WalkFacts ==
  ASSUME NEW order, NEW s \in Walks(order)
  PROVE  /\ Len(s) \in Nat /\ Len(s) <= Height
         /\ \A i \in 1..Len(s) : s[i] \in Shared
         /\ \A x \in Shared : \E i \in 1..Len(s) : s[i] = x
         /\ \A i, j \in 1..Len(s) : TreeParent(s[j]) = s[i] => i < j
<1>1. /\ s \in Lists(Shared)
      /\ \A i, j \in DOMAIN s : TreeParent(s[j]) = s[i] => i < j
  BY DEF Walks
<1>2. /\ s \in Seq(Shared) /\ Len(s) = Cardinality(Shared) /\ Len(s) \in Nat
      /\ DOMAIN s = 1..Len(s)
      /\ \A x \in Shared : \E i \in 1..Len(s) : s[i] = x
  BY <1>1, SharedIsFinite, ListFacts
<1>3. Cardinality(Shared) <= Height
  BY ConstantsAssumption, SharedIsFinite, FS_Subset DEF Height
<1>4. QED  BY <1>1, <1>2, <1>3

\* Who is n above d comes n places before it, at least.
LEMMA AncestorsFirst ==
  ASSUME NEW order, NEW s \in Walks(order), NEW i \in 1..Len(s),
         NEW n \in 0..(TreeDepth(s[i]) - 1)
  PROVE  \E j \in 1..Len(s) : s[j] = Up(s[i])[n] /\ j + n <= i
<1> DEFINE d == s[i]
           depth == TreeDepth(d)
           l == depth - 1
           Found(k) == \E j \in 1..Len(s) : s[j] = Up(d)[k] /\ j + k <= i
           T == {k \in 0..l : ~Found(k)}
<1>1. /\ Len(s) \in Nat /\ d \in Shared
      /\ \A x \in Shared : \E j \in 1..Len(s) : s[j] = x
      /\ \A j, k \in 1..Len(s) : TreeParent(s[k]) = s[j] => j < k
  BY WalkFacts
<1>2. /\ depth \in Nat \ {0} /\ l \in Nat
      /\ \A k \in 0..l : k \in 0..Height /\ Up(d)[k] \in Shared
  BY <1>1, DepthFacts
<1>3. SUFFICES ASSUME T # {} PROVE FALSE  OBVIOUS
<1>4. PICK k \in T : k = 0 \/ (k \in 1..l /\ k - 1 \in 0..l /\ k - 1 \notin T)
  <2>1. T \in SUBSET (0..l)  OBVIOUS
  <2> HIDE DEF T, l
  <2>2. QED  BY <1>2, <1>3, <2>1, LeastException
<1> HIDE DEF d, depth, l
<1>5. k # 0
  <2>1. s[i] = Up(d)[0] /\ i + 0 <= i  BY <1>1, UpFacts DEF d
  <2>2. QED  BY <2>1
<1>6. PICK j \in 1..Len(s) : s[j] = Up(d)[k - 1] /\ j + (k - 1) <= i  BY <1>4, <1>5
<1>7. Up(d)[k] = TreeParent(s[j])
  <2>1. k \in 1..Height /\ k - 1 \in 0..Height /\ s[j] \in Shared
    BY <1>2, <1>4, <1>5, <1>6, HeightIsFinite
  <2>2. Up(d)[k] = Onward([x \in Shared |-> TreeParent(x)], s[j])
    BY <1>6, <2>1, ClimbStep DEF Up
  <2>3. QED  BY <2>1, <2>2 DEF Onward
<1>8. PICK m \in 1..Len(s) : s[m] = Up(d)[k]  BY <1>1, <1>2, <1>4
<1>9. m < j  BY <1>1, <1>7, <1>8
<1>10. m + k <= i  BY <1>1, <1>2, <1>4, <1>6, <1>9
<1>11. QED  BY <1>4, <1>8, <1>10

\* d's place is its parent's and one name.
LEMMA TreeStep ==
  ASSUME RemoteTyped, NEW order, NEW s \in Walks(order), NEW d \in Shared
  PROVE  /\ TreeDir(order, d) \in Seq(Names)
         /\ TreeAt(order, d) = Append(TreeDir(order, d), TreeName(order, d))
<1> DEFINE p == TreeParent(d)
           dd == TreeDepth(d)
           nd == TreeNames(order, d)
           name == TreeName(order, d)
           o == <<Orphans>>
<1>1. /\ nd \in Seq(Names) /\ Len(nd) = dd /\ name \in Names
      /\ \A i \in 1..dd : nd[i] = TreeName(order, Up(d)[dd - i])
  BY TreeNamesTyped
<1>2. /\ dd \in Nat \ {0} /\ Up(d)[0] = d
      /\ \A n \in 0..Height : Up(d)[n] \in Shared <=> n < dd
      /\ \A n \in 0..(dd - 1) : n \in 0..Height /\ Up(d)[n] \in Shared
      /\ \A n \in 1..Height : n - 1 \in 0..Height /\ Up(d)[n] = Up(p)[n - 1]
  BY DepthFacts, UpFacts
<1>3. PICK i \in 1..Len(s) : s[i] = d  BY WalkFacts
<1>4. o \in Seq(Names) /\ Len(o) = 1  BY DEF Names
<1>5. Height \in Nat \ {0}
  <2>1. Len(s) \in Nat /\ Len(s) <= Height  BY WalkFacts
  <2>2. QED  BY <1>3, <2>1, HeightIsFinite
<1>6. TreeAt(order, d) = IF Up(d)[Height] = Orphans THEN o \o nd ELSE nd  BY DEF TreeAt
<1>7. CASE p \notin Shared
  <2>1. \A n \in 0..Height : Up(p)[n] = p
    <3> DEFINE par == [x \in Shared |-> TreeParent(x)]
    <3>1. p \notin DOMAIN par /\ Up(p) = Climb(par, p)  BY <1>7 DEF Up
    <3> HIDE DEF par, p
    <3>2. QED  BY <3>1, ClimbEnds
  <2>2. Up(d)[Height] = p /\ Up(d)[1] = p
    <3>1. Height \in 1..Height /\ 1 \in 1..Height  BY <1>5
    <3> HIDE DEF p
    <3>2. QED  BY <1>2, <2>1, <3>1
  <2>3. dd = 1
    <3>1. 1 \in 0..Height  BY <1>5
    <3>2. ~(1 < dd)  BY <1>2, <1>7, <2>2, <3>1
    <3> HIDE DEF dd
    <3>3. QED  BY <1>2, <3>2
  <2>4. nd[1] = name
    <3>1. 1 \in 1..dd /\ dd - 1 = 0  BY <2>3
    <3> HIDE DEF dd, nd
    <3>2. QED  BY <1>1, <1>2, <3>1
  <2> HIDE DEF nd, dd, name
  <2>5. nd = Append(<<>>, name)
    <3>1. Append(<<>>, name) \in Seq(Names) /\ Len(Append(<<>>, name)) = 1 /\ Append(<<>>, name)[1] = name
      BY <1>1
    <3>2. QED  BY <1>1, <2>3, <2>4, <3>1, SeqEqual
  <2>6. o \o nd = Append(o, name)
    <3>1. Append(<<>>, name) = <<name>>  OBVIOUS
    <3>2. Append(o, name) = o \o <<name>>  BY <1>1, <1>4, AppendIsConcat
    <3>3. QED  BY <2>5, <3>1, <3>2
  <2>7. TreeDir(order, d) = IF p = Orphans THEN o ELSE <<>>  BY <1>7 DEF TreeDir
  <2>8. <<>> \in Seq(Names)  OBVIOUS
  <2> HIDE DEF o, p
  <2>9. QED  BY <1>4, <1>6, <2>2, <2>5, <2>6, <2>7, <2>8 DEF name
<1>8. CASE p \in Shared
  <2> DEFINE dp == TreeDepth(p)
             np == TreeNames(order, p)
  <2>1. /\ np \in Seq(Names) /\ Len(np) = dp
        /\ \A k \in 1..dp : np[k] = TreeName(order, Up(p)[dp - k])
    BY <1>8, TreeNamesTyped
  <2>2. /\ dp \in Nat \ {0}
        /\ \A n \in 0..Height : Up(p)[n] \in Shared <=> n < dp
        /\ \A n \in 1..Height :
             n - 1 \in 0..Height /\ (Up(p)[n - 1] \notin Shared => Up(p)[n] = Up(p)[n - 1])
    BY <1>8, DepthFacts, UpFacts
  <2>3. dp < Height
    <3>1. PICK j \in 1..Len(s) : s[j] = p  BY <1>8, WalkFacts
    <3>2. j < i /\ Len(s) \in Nat /\ Len(s) <= Height  BY <1>3, <3>1, WalkFacts
    <3>3. dp - 1 \in 0..(dp - 1)  BY <2>2
    <3>4. PICK k \in 1..Len(s) : k + (dp - 1) <= j  BY <3>1, <3>3, AncestorsFirst
    <3> HIDE DEF dp
    <3>5. QED  BY <2>2, <3>2, <3>4, HeightIsFinite
  <2> HIDE DEF dp, dd
  <2>4. dd = dp + 1
    <3>1. dp + 1 \in 0..Height /\ dp \in 0..Height /\ dp + 1 \in 1..Height /\ (dp + 1) - 1 = dp
      BY <2>2, <2>3, HeightIsFinite
    <3>2. Up(d)[dp + 1] \notin Shared
      <4>1. Up(d)[dp + 1] = Up(p)[dp]  BY <1>2, <3>1
      <4>2. QED  BY <2>2, <3>1, <4>1
    <3>3. ~(dp + 1 < dd)  BY <1>2, <3>1, <3>2
    <3>4. dp < dd
      <4>1. CASE dp = 0  BY <1>2, <4>1
      <4>2. CASE dp # 0
        <5>1. dp \in 1..Height /\ dp - 1 \in 0..Height /\ dp - 1 < dp
          BY <2>2, <3>1, <4>2, HeightIsFinite
        <5>2. Up(d)[dp] \in Shared  BY <1>2, <2>2, <5>1
        <5>3. QED  BY <1>2, <3>1, <5>2
      <4>3. QED  BY <4>1, <4>2
    <3>5. QED  BY <1>2, <2>2, <3>3, <3>4
  <2>5. Up(d)[Height] = Up(p)[Height]
    <3>1. Height \in 1..Height /\ Height - 1 \in 0..Height /\ ~(Height - 1 < dp)
      BY <1>5, <2>2, <2>3
    <3>2. Up(d)[Height] = Up(p)[Height - 1]  BY <1>2, <3>1
    <3>3. Up(p)[Height - 1] \notin Shared  BY <2>2, <3>1
    <3>4. QED  BY <2>2, <3>1, <3>2, <3>3
  <2> HIDE DEF nd, np, p, name, o
  <2>6. nd = Append(np, name)
    <3>1. /\ Append(np, name) \in Seq(Names) /\ Len(Append(np, name)) = dp + 1
          /\ \A k \in 1..dp : Append(np, name)[k] = np[k]
          /\ Append(np, name)[dp + 1] = name
      BY <1>1, <2>1, AppendProperties
    <3>2. ASSUME NEW k \in 1..dd PROVE nd[k] = Append(np, name)[k]
      <4>1. nd[k] = TreeName(order, Up(d)[dd - k])  BY <1>1
      <4>2. CASE k = dd
        <5>1. dd - k = 0  BY <1>2, <4>2
        <5>2. nd[k] = name  BY <1>2, <4>1, <5>1 DEF name
        <5>3. QED  BY <2>4, <3>1, <4>2, <5>2
      <4>3. CASE k # dd
        <5>1. k \in 1..dp /\ dd - k \in 1..Height /\ (dd - k) - 1 = dp - k
          BY <1>2, <2>2, <2>3, <2>4, <4>3, HeightIsFinite
        <5>2. Up(d)[dd - k] = Up(p)[(dd - k) - 1]  BY <1>2, <5>1
        <5>3. Up(d)[dd - k] = Up(p)[dp - k]  BY <5>1, <5>2
        <5>4. QED  BY <2>1, <3>1, <4>1, <5>1, <5>3
      <4>4. QED  BY <4>2, <4>3
    <3>3. QED  BY <1>1, <2>4, <3>1, <3>2, SeqEqual
  <2>7. o \o nd = Append(o \o np, name)
    <3>1. <<name>> \in Seq(Names)  BY <1>1
    <3>2. nd = np \o <<name>>  BY <1>1, <2>1, <2>6, AppendIsConcat
    <3>3. (o \o np) \o <<name>> = o \o (np \o <<name>>)
      BY <1>4, <2>1, <3>1, ConcatAssociative
    <3>4. o \o np \in Seq(Names)  BY <1>4, <2>1, ConcatProperties
    <3>5. Append(o \o np, name) = (o \o np) \o <<name>>  BY <1>1, <3>4, AppendIsConcat
    <3>6. QED  BY <3>2, <3>3, <3>5
  <2>8. TreeDir(order, d) = IF Up(p)[Height] = Orphans THEN o \o np ELSE np
    BY <1>8 DEF TreeDir, TreeAt, p, np, o
  <2>9. o \o np \in Seq(Names)  BY <1>4, <2>1, ConcatProperties
  <2>10. QED  BY <1>6, <2>1, <2>5, <2>6, <2>7, <2>8, <2>9 DEF name
<1>9. QED  BY <1>7, <1>8

\* A name is told from one that is used, if its own title is the one it must not have.
LEMMA NamesDiffer ==
  ASSUME RemoteTyped, NEW d \in Docs, NEW e \in Docs, d # e,
         NEW used1, NEW used2, title[d] \in used2
  PROVE  Component(d, used1) # Component(e, used2)
<1>1. /\ Component(d, used1) \in {title[d], <<title[d], d>>} /\ Component(d, used1) \in Own(d)
      /\ Component(e, used2) \in {title[e], <<title[e], e>>} /\ Component(e, used2) \in Own(e)
      /\ Component(e, used2) = title[e] => title[e] \notin used2
  BY Naming
<1>2. title[d] \in Titles[d] /\ title[e] \in Titles[e]  BY DEF RemoteTyped
<1>3. SUFFICES ASSUME Component(d, used1) = Component(e, used2) PROVE FALSE  OBVIOUS
<1>4. CASE Component(d, used1) = <<title[d], d>>  BY <1>1, <1>2, <1>3, <1>4, LongNames
<1>5. CASE Component(e, used2) = <<title[e], e>>  BY <1>1, <1>2, <1>3, <1>5, LongNames
<1>6. CASE Component(d, used1) = title[d] /\ Component(e, used2) = title[e]
  BY <1>1, <1>3, <1>6
<1>7. QED  BY <1>1, <1>4, <1>5, <1>6

LEMMA SiblingsDiffer ==
  ASSUME RemoteTyped, NEW order \in Orders(Shared), NEW d \in Shared, NEW e \in Shared,
         d # e, TreeParent(d) = TreeParent(e)
  PROVE  TreeName(order, d) # TreeName(order, e)
<1> DEFINE Used(x) == {title[y] : y \in {f \in Shared : /\ TreeParent(f) = TreeParent(x)
                                                      /\ Index(order, f) < Index(order, x)}}
<1>1. order \in Lists(Shared)  BY DEF Orders
<1>2. /\ Len(order) \in Nat /\ DOMAIN order = 1..Len(order)
      /\ \A x \in Shared : \E i \in 1..Len(order) : order[i] = x
  BY <1>1, SharedIsFinite, ListFacts
<1>3. \A x \in Shared : Index(order, x) \in 1..Len(order) /\ order[Index(order, x)] = x
  BY <1>2 DEF Index
<1>4. Index(order, d) < Index(order, e) \/ Index(order, e) < Index(order, d)
  BY <1>2, <1>3
<1>5. d \in Docs /\ e \in Docs  BY DEF Shared
<1>6. /\ TreeName(order, d) = Component(d, Used(d)) /\ TreeName(order, e) = Component(e, Used(e))
  BY DEF TreeName
<1>7. CASE Index(order, d) < Index(order, e)
  <2>1. title[d] \in Used(e)  BY <1>7
  <2> HIDE DEF Used
  <2>2. QED  BY <1>5, <1>6, <2>1, NamesDiffer
<1>8. CASE Index(order, e) < Index(order, d)
  <2>1. title[e] \in Used(d)  BY <1>8
  <2> HIDE DEF Used
  <2>2. Component(e, Used(e)) # Component(d, Used(d))  BY <1>5, <2>1, NamesDiffer
  <2>3. QED  BY <1>6, <2>2
<1>9. QED  BY <1>4, <1>7, <1>8

\* No two documents are put at one place, and none into the trash.
LEMMA TreeApart ==
  ASSUME RemoteTyped, NEW order \in Orders(Shared), NEW s \in Walks(order),
         NEW d \in Shared
  PROVE  /\ Head(TreeAt(order, d)) # Trash
         /\ \A e \in Shared : TreeAt(order, d) = TreeAt(order, e) => d = e
<1> DEFINE At(x) == TreeAt(order, x)
           InDir(x) == TreeDir(order, x)
           name(x) == TreeName(order, x)
           Apart(x) == Head(At(x)) # Trash /\ \A e \in Shared : At(x) = At(e) => x = e
           T == {i \in 1..Len(s) : ~Apart(s[i])}
<1>1. /\ Len(s) \in Nat /\ \A i \in 1..Len(s) : s[i] \in Shared
      /\ \A x \in Shared : \E i \in 1..Len(s) : s[i] = x
      /\ \A i, j \in 1..Len(s) : TreeParent(s[j]) = s[i] => i < j
  BY WalkFacts
<1>2. \A x \in Shared : /\ InDir(x) \in Seq(Names) /\ At(x) = Append(InDir(x), name(x))
                        /\ name(x) \in Names /\ name(x) \in Own(x)
                        /\ At(x) \in Seq(Names) /\ At(x) # <<>>
  BY TreeStep, TreeNamesTyped, TreeAtTyped
<1>3. \A x \in Shared : name(x) \notin {Orphans, Trash}
  <2>1. ASSUME NEW x \in Shared PROVE Own(x) \cap {Orphans, Trash} = {}
    <3>1. x \in Docs  BY DEF Shared
    <3>2. title[x] \in Titles[x]  BY <3>1 DEF RemoteTyped
    <3>3. QED  BY <3>1, <3>2, OwnNames
  <2>2. QED  BY <1>2, <2>1
<1>4. \A x \in Shared : InDir(x) = IF TreeParent(x) \in Shared THEN At(TreeParent(x))
                                ELSE IF TreeParent(x) = Orphans THEN <<Orphans>> ELSE <<>>
  BY DEF TreeDir
<1>5. <<Orphans>> \in Seq(Names) /\ <<>> \in Seq(Names) /\ Orphans \in Names /\ <<Orphans>> # <<>>
      /\ Head(<<Orphans>>) = Orphans /\ <<Orphans>> = Append(<<>>, Orphans)
  BY DEF Names
<1>6. \A x, y \in Shared : TreeParent(x) \notin Shared /\ TreeParent(y) \notin Shared
                           /\ InDir(x) = InDir(y) => TreeParent(x) = TreeParent(y)
  BY <1>4, <1>5 DEF TreeParent
<1> HIDE DEF Apart
<1>7. SUFFICES ASSUME T # {} PROVE FALSE
  <2>1. PICK i \in 1..Len(s) : s[i] = d  BY <1>1
  <2>2. T = {} => Apart(d)  BY <2>1
  <2>3. QED  BY <2>2 DEF Apart
<1>8. PICK i \in T : \A j \in T : i <= j
  <2>1. T \in SUBSET Nat  BY <1>1
  <2> HIDE DEF T
  <2>2. QED  BY <1>7, <2>1, LeastNumber
<1> DEFINE x == s[i]
           p == TreeParent(x)
<1>9. i \in 1..Len(s) /\ ~Apart(x) /\ x \in Shared  BY <1>1, <1>8
\* Its parent comes first, and is apart.
<1>10. p \in Shared => Apart(p)
  <2>1. SUFFICES ASSUME p \in Shared, ~Apart(p) PROVE FALSE  OBVIOUS
  <2>2. PICK j \in 1..Len(s) : s[j] = p  BY <1>1, <2>1
  <2>3. j < i  BY <1>1, <1>9, <2>2
  <2>4. j \in T  BY <2>1, <2>2
  <2> HIDE DEF T
  <2>5. QED  BY <1>1, <1>8, <1>9, <2>2, <2>3, <2>4
<1> HIDE DEF At, InDir, name, T, x
<1>11. Head(At(x)) # Trash
  <2> USE DEF Apart
  <2>1. Head(At(x)) = IF InDir(x) = <<>> THEN name(x) ELSE Head(InDir(x))
    BY <1>2, <1>9, AppendFacts
  <2>2. CASE p \in Shared  BY <1>2, <1>3, <1>4, <1>9, <1>10, <2>1, <2>2
  <2>3. CASE p \notin Shared
    BY <1>3, <1>4, <1>5, <1>9, <2>1, <2>3, NamesAssumption
  <2>4. QED  BY <2>2, <2>3
<1>12. PICK e \in Shared : At(x) = At(e) /\ x # e  BY <1>9, <1>11 DEF Apart
<1>13. InDir(x) = InDir(e) /\ name(x) = name(e)
  <2>1. /\ InDir(x) \in Seq(Names) /\ InDir(e) \in Seq(Names) /\ name(x) \in Names /\ name(e) \in Names
        /\ Append(InDir(x), name(x)) = Append(InDir(e), name(e))
    BY <1>2, <1>9, <1>12
  <2>2. QED  BY <2>1, AppendInjective
<1>14. TreeParent(e) # p  BY <1>9, <1>12, <1>13, SiblingsDiffer DEF name
\* A place is no root's, and it is not the folder of the orphans.
<1>15. \A y \in Shared : At(y) # <<>> /\ At(y) # <<Orphans>>
  <2>1. SUFFICES ASSUME NEW y \in Shared, At(y) = <<Orphans>> PROVE FALSE  BY <1>2
  <2>2. name(y) = Orphans
    <3>1. At(y)[Len(At(y))] = name(y)  BY <1>2, AppendFacts
    <3>2. QED  BY <2>1, <3>1
  <2>3. QED  BY <1>3, <2>2
<1>16. CASE p \in Shared /\ TreeParent(e) \in Shared
  BY <1>4, <1>9, <1>10, <1>13, <1>14, <1>16 DEF Apart
<1>17. CASE p \notin Shared \/ TreeParent(e) \notin Shared
  BY <1>4, <1>6, <1>9, <1>13, <1>14, <1>15, <1>17
<1>18. QED  BY <1>16, <1>17

-----------------------------------------------------------------------------
(* The nodes a full round starts with. *)

NodesApart(ns) == \A i, j \in 1..Len(ns) : ns[i].doc = ns[j].doc => i = j

\* d's parent is among the nodes before d's own.
ParentsFirst(ns) ==
  \A j \in 1..Len(ns) : parent[ns[j].doc] \in Shared =>
    \E i \in 1..Len(ns) : i < j /\ ns[i].doc = parent[ns[j].doc]

LEMMA NodeTyped ==
  ASSUME RemoteTyped, NEW d \in Docs, NEW p \in Paths
  PROVE  /\ Node(d, p) \in NodeRecords
         /\ Node(d, p).doc = d /\ Node(d, p).path = p /\ Node(d, p).parent = parent[d]
         /\ Node(d, p).title = title[d] /\ Node(d, p).edited = edits[d]
BY DEF RemoteTyped, Node, NodeRecords, Times

LEMMA FullNodes ==
  ASSUME RemoteTyped, NEW order, NEW s \in Walks(order), NEW ns,
         ns = [i \in DOMAIN s |-> Node(s[i], TreePath(order, s[i]))]
  PROVE  /\ ns \in Seq(NodeRecords) /\ NodesApart(ns) /\ ParentsFirst(ns)
         /\ \A d \in Shared : \E i \in 1..Len(ns) : ns[i].doc = d
         /\ \A i \in 1..Len(ns) : /\ Fits(ns[i].doc, ns[i].path) /\ ns[i].doc \in Shared
                                  /\ ns[i] = Node(ns[i].doc, ns[i].path)
<1>1. /\ s \in Lists(Shared)
      /\ \A i, j \in DOMAIN s : TreeParent(s[j]) = s[i] => i < j
  BY DEF Walks
<1>2. /\ s \in Seq(Shared) /\ Len(s) \in Nat /\ DOMAIN s = 1..Len(s)
      /\ \A i, j \in 1..Len(s) : s[i] = s[j] => i = j
      /\ \A x \in Shared : \E i \in 1..Len(s) : s[i] = x
  BY <1>1, SharedIsFinite, ListFacts
<1>3. ASSUME NEW i \in 1..Len(s)
      PROVE  /\ ns[i] = Node(s[i], TreePath(order, s[i])) /\ ns[i] \in NodeRecords
             /\ ns[i].doc = s[i] /\ ns[i].path = TreePath(order, s[i])
             /\ s[i] \in Shared /\ Fits(s[i], TreePath(order, s[i]))
  <2>1. s[i] \in Shared  BY <1>2
  <2>2. Fits(s[i], TreePath(order, s[i]))  BY <2>1, TreePathFits
  <2>3. TreePath(order, s[i]) \in Paths  BY <2>2 DEF Fits
  <2>4. ns[i] = Node(s[i], TreePath(order, s[i]))  BY <1>2
  <2>5. QED  BY <2>1, <2>2, <2>3, <2>4, NodeTyped, SharedIsFinite
<1>4. ns \in Seq(NodeRecords) /\ Len(ns) = Len(s)
  <2>1. ns \in [1..Len(s) -> NodeRecords]  BY <1>2, <1>3
  <2>2. ns \in Seq(NodeRecords)  BY <1>2, <2>1, SeqDef
  <2>3. QED  BY <1>2, <2>1, <2>2, LenProperties
<1>5. NodesApart(ns)  BY <1>2, <1>3, <1>4 DEF NodesApart
<1>6. ParentsFirst(ns)
  <2>1. ASSUME NEW j \in 1..Len(s), parent[s[j]] \in Shared
        PROVE  \E i \in 1..Len(s) : i < j /\ s[i] = parent[s[j]]
    <3>1. PICK i \in 1..Len(s) : s[i] = parent[s[j]]  BY <1>2, <2>1
    <3>2. TreeParent(s[j]) = s[i]  BY <2>1, <3>1 DEF TreeParent
    <3>3. QED  BY <1>1, <1>2, <3>1, <3>2
  <2>2. Len(ns) = Len(s) /\ \A j \in 1..Len(s) : ns[j].doc = s[j]  BY <1>3, <1>4
  <2>3. SUFFICES ASSUME NEW j \in 1..Len(ns), parent[ns[j].doc] \in Shared
                 PROVE  \E i \in 1..Len(ns) : i < j /\ ns[i].doc = parent[ns[j].doc]
    BY DEF ParentsFirst
  <2>4. j \in 1..Len(s) /\ ns[j].doc = s[j]  BY <2>2
  <2>5. PICK i \in 1..Len(s) : i < j /\ s[i] = parent[s[j]]  BY <2>1, <2>3, <2>4
  <2>6. i \in 1..Len(ns) /\ ns[i].doc = s[i]  BY <2>2
  <2>7. QED  BY <2>4, <2>5, <2>6
<1>7. \A d \in Shared : \E i \in 1..Len(ns) : ns[i].doc = d
  BY <1>2, <1>3, <1>4
<1>8. QED  BY <1>3, <1>4, <1>5, <1>6, <1>7

-----------------------------------------------------------------------------
(* Placing documents against the manifest, one after the other. *)

\* What the first i documents of s are given, with the names that are given then.
Places(s, f, k) ==
  f = [i \in 0..k |-> IF i = 0 THEN [claimed |-> {}, path |-> NoPath]
                      ELSE Place(s[i], {s[j] : j \in DOMAIN s}, f[i - 1].claimed)]

LEMMA PlacedExists ==
  ASSUME NEW s, Len(s) \in Nat
  PROVE  Places(s, Placed(s), Len(s))
<1> DEFINE S == {s[j] : j \in DOMAIN s}
           Next1(f, i) == Place(s[i], S, f[i - 1].claimed)
           First == [claimed |-> {}, path |-> NoPath]
           Lacking == {k \in Nat : ~ \E f : Places(s, f, k)}
<1>1. Lacking = {}
  <2>1. SUFFICES ASSUME Lacking # {} PROVE FALSE  OBVIOUS
  <2>2. PICK k \in Lacking : \A j \in Lacking : k <= j
    <3>1. Lacking \in SUBSET Nat  OBVIOUS
    <3> HIDE DEF Lacking
    <3>2. QED  BY <2>1, <3>1, LeastNumber
  <2>3. CASE k = 0
    <3> DEFINE f == [i \in 0..0 |-> First]
    <3>1. Places(s, f, 0)  BY DEF Places
    <3>2. QED  BY <2>3, <3>1
  <2>4. CASE k # 0
    <3>1. k - 1 \in Nat /\ k - 1 \notin Lacking  BY <2>2, <2>4
    <3>2. PICK f : Places(s, f, k - 1)  BY <3>1
    <3>3. f = [i \in 0..(k - 1) |-> IF i = 0 THEN First ELSE Next1(f, i)]
      BY <3>2 DEF Places
    <3> DEFINE g == [i \in 0..k |-> IF i = 0 THEN First ELSE Next1(f, i)]
    <3> HIDE DEF First
    <3>4. ASSUME NEW i \in 0..(k - 1) PROVE g[i] = f[i]
      <4>1. f[i] = IF i = 0 THEN First ELSE Next1(f, i)  BY <3>3
      <4>2. i \in 0..k  BY <3>1
      <4> HIDE DEF Next1
      <4>3. QED  BY <4>1, <4>2
    <3>5. \A i \in 0..k : g[i] = IF i = 0 THEN First ELSE Next1(g, i)
      <4>1. \A i \in 0..k : i # 0 => i - 1 \in 0..(k - 1)  BY <3>1
      <4>2. \A i \in 0..k : i # 0 => g[i - 1] = f[i - 1]  BY <3>4, <4>1
      <4>3. \A i \in 0..k : i # 0 => Next1(g, i) = Next1(f, i)
        <5> HIDE DEF g
        <5>1. QED  BY <4>2
      <4>4. \A i \in 0..k : g[i] = IF i = 0 THEN First ELSE Next1(f, i)
        <5> HIDE DEF Next1
        <5>1. QED  OBVIOUS
      <4> HIDE DEF Next1, g
      <4>5. QED  BY <4>3, <4>4
    <3>6. Places(s, g, k)
      <4> HIDE DEF g
      <4>1. g = [i \in 0..k |-> g[i]]  BY DEF g
      <4>2. g = [i \in 0..k |-> IF i = 0 THEN First ELSE Next1(g, i)]
        <5> HIDE DEF Next1
        <5>1. QED  BY <3>5, <4>1
      <4>3. QED  BY <4>2 DEF Places, First
    <3>7. QED  BY <3>6
  <2>5. QED  BY <2>3, <2>4
<1>2. PICK f : Places(s, f, Len(s))  BY <1>1
<1>3. Placed(s) = CHOOSE g : Places(s, g, Len(s))  BY DEF Placed, Places
<1>4. QED  BY <1>2, <1>3

LEMMA PlacedStep ==
  ASSUME NEW s, Len(s) \in Nat, NEW i \in 1..Len(s)
  PROVE  /\ i - 1 \in 0..Len(s)
         /\ Placed(s)[i] = Place(s[i], {s[j] : j \in DOMAIN s}, Placed(s)[i - 1].claimed)
<1> DEFINE S == {s[j] : j \in DOMAIN s}
           f == Placed(s)
           Step(k) == Place(s[k], S, f[k - 1].claimed)
           First == [claimed |-> {}, path |-> NoPath]
           n == Len(s)
<1>1. f = [k \in 0..n |-> IF k = 0 THEN First ELSE Step(k)]
  BY PlacedExists DEF Places
<1> HIDE DEF f, Step, First, n
<1>2. n \in Nat  BY DEF n
<1>3. i \in 1..n  BY DEF n
<1>4. i \in 0..n /\ i # 0 /\ i - 1 \in 0..n  BY <1>2, <1>3
<1>5. f[i] = Step(i)  BY <1>1, <1>4
<1>6. QED  BY <1>4, <1>5 DEF f, Step, n

\* Where new children of p go, after the table tab: childContext.
NewDir(tab, p) ==
  IF p = Root THEN <<>> ELSE IF Rooted(tab, p) THEN tab[p].path.at ELSE <<Orphans>>

\* What an incremental round with the result set S owes a document: a directory
\* keeps its path, another enumerated document gets a name of its title in its
\* parent's directory, as a directory if a child is enumerated with it, and any
\* other becomes a directory of its name.
Good(tab, S, d, p) ==
  IF d \notin S THEN p = Readme(tab[d].path.at)
  ELSE IF IsDirForm(tab, d) THEN p = tab[d].path
  ELSE /\ \E name \in {title[d], <<title[d], d>>} : p.at = Append(NewDir(tab, parent[d]), name)
       /\ d \in Pages /\ (\E e \in S : parent[e] = d) => p.form = "readme"

\* The leaves that S turns into directories.
Turned(tab, S) ==
  {p \in Docs \ S : /\ Live(tab, p) /\ Rooted(tab, p) /\ tab[p].path.form = "leaf"
                    /\ \E d \in S : parent[d] = p}

\* The name that is new at the i-th place of s.
Dir(d) == NewDir(row, parent[d])
NewName(s, i) ==
  Component(s[i], SiblingUsed(Dir(s[i]), s[i]) \cup ClaimedIn(Placed(s)[i - 1].claimed, Dir(s[i])))

LEMMA RootedParent ==
  ASSUME NEW tab, NEW p \in Bases, p # Root, Rooted(tab, p)
  PROVE  p \in Docs /\ Live(tab, p)
<1>1. SUFFICES ASSUME p \notin Docs PROVE FALSE  BY RootedIsLive
<1> DEFINE up == [x \in {y \in Docs : Live(tab, y)} |-> tab[x].parent]
<1>2. p \notin DOMAIN up  BY <1>1
<1>3. Ancestor(tab, p) = Climb(up, p)[Height]  BY DEF Ancestor, Height
<1> HIDE DEF up
<1>4. Ancestor(tab, p) = p  BY <1>2, <1>3, ClimbEnds, HeightIsFinite
<1>5. QED  BY <1>4 DEF Rooted

LEMMA NewDirTyped ==
  ASSUME NEW tab, TableTyped(tab), NEW p \in Bases
  PROVE  NewDir(tab, p) \in Seq(Names)
<1>1. CASE p = Root  BY <1>1 DEF NewDir
<1>2. CASE p # Root /\ Rooted(tab, p)
  <2>1. p \in Docs /\ tab[p].path \in Paths  BY <1>2, RootedParent, RecordFacts DEF Live
  <2>2. QED  BY <1>2, <2>1, PathFacts DEF NewDir
<1>3. CASE p # Root /\ ~Rooted(tab, p)
  <2>1. Orphans \in Names  BY DEF Names
  <2>2. QED  BY <1>3, <2>1 DEF NewDir
<1>4. QED  BY <1>1, <1>2, <1>3

LEMMA PlacedOne ==
  ASSUME RemoteTyped, TableTyped(row), NEW S \in SUBSET Docs, NEW s \in Lists(S),
         NEW i \in 1..Len(s)
  PROVE  /\ s[i] \in S /\ i - 1 \in 0..Len(s)
         /\ Dir(s[i]) \in Seq(Names) /\ NewName(s, i) \in Own(s[i]) /\ NewName(s, i) \in Names
         /\ Fits(s[i], Placed(s)[i].path) /\ Good(row, S, s[i], Placed(s)[i].path)
         /\ IF IsDirForm(row, s[i])
            THEN /\ Placed(s)[i].path = row[s[i]].path
                 /\ Placed(s)[i].claimed = Placed(s)[i - 1].claimed
            ELSE /\ Placed(s)[i].path.at = Append(Dir(s[i]), NewName(s, i))
                 /\ Placed(s)[i].claimed
                      = Placed(s)[i - 1].claimed \cup {<<Dir(s[i]), NewName(s, i)>>}
<1> DEFINE d == s[i]
           f == Placed(s)
           name == NewName(s, i)
           at == Append(Dir(d), name)
<1>1. /\ Len(s) \in Nat /\ d \in S /\ d \in Docs /\ {s[j] : j \in DOMAIN s} = S
  <2>1. s \in Seq(S) /\ DOMAIN s = 1..Len(s) /\ Len(s) \in Nat
    BY SharedIsFinite, ListFacts
  <2>2. QED  BY <2>1 DEF Lists
<1>2. i - 1 \in 0..Len(s) /\ f[i] = Place(d, S, f[i - 1].claimed)
  BY <1>1, PlacedStep
<1>3. parent[d] \in Bases  BY <1>1 DEF RemoteTyped
<1>4. /\ Dir(d) \in Seq(Names) /\ name \in Own(d) /\ name \in Names
      /\ name \in {title[d], <<title[d], d>>}
  BY <1>1, <1>3, NewDirTyped, Naming DEF Dir, NewName
<1>5. ChildDir(parent[d]) = Dir(d)  BY DEF ChildDir, Dir, NewDir
<1>6. f[i] = IF IsDirForm(row, d) THEN [claimed |-> f[i - 1].claimed, path |-> row[d].path]
             ELSE [claimed |-> f[i - 1].claimed \cup {<<Dir(d), name>>},
                   path |-> IF d \in Databases THEN Folder(at)
                            ELSE IF OwnsSubtree(d, S) THEN Readme(at) ELSE Leaf(at)]
  BY <1>2, <1>5 DEF Place, Reused, NewName
<1> HIDE DEF f
<1>7. CASE IsDirForm(row, d)
  <2>1. f[i].path = row[d].path /\ f[i].claimed = f[i - 1].claimed  BY <1>6, <1>7
  <2>2. Fits(d, f[i].path)  BY <1>1, <1>7, <2>1, RecordFacts DEF IsDirForm
  <2>3. Good(row, S, d, f[i].path)  BY <1>1, <1>7, <2>1 DEF Good
  <2>4. QED  BY <1>1, <1>2, <1>4, <1>7, <2>1, <2>2, <2>3 DEF f
<1>8. CASE ~IsDirForm(row, d)
  <2>1. at \in Seq(Names) /\ at # <<>> /\ at[Len(at)] = name  BY <1>4, AppendFacts
  <2> HIDE DEF at
  <2>2. /\ f[i].claimed = f[i - 1].claimed \cup {<<Dir(d), name>>}
        /\ f[i].path = IF d \in Databases THEN Folder(at)
                       ELSE IF OwnsSubtree(d, S) THEN Readme(at) ELSE Leaf(at)
    BY <1>6, <1>8
  <2>3. f[i].path.at = at  BY <2>1, <2>2, MakePath
  <2>4. Fits(d, f[i].path)  BY <1>4, <2>1, <2>2, MakePath DEF Fits
  <2>5. d \in Pages /\ (\E e \in S : parent[e] = d) => f[i].path.form = "readme"
    <3>1. (\E e \in S : parent[e] = d) => OwnsSubtree(d, S)  BY DEF OwnsSubtree
    <3>2. d \in Pages => d \notin Databases  BY Kinds
    <3>3. QED  BY <2>1, <2>2, <3>1, <3>2, MakePath
  <2>6. Good(row, S, d, f[i].path)
    BY <1>1, <1>4, <1>8, <2>3, <2>5 DEF Good, Dir, at
  <2>7. QED  BY <1>1, <1>2, <1>4, <1>8, <2>2, <2>3, <2>4, <2>6 DEF f, at
<1>9. QED  BY <1>7, <1>8

\* Names stay claimed.
LEMMA ClaimsGrow ==
  ASSUME RemoteTyped, TableTyped(row), NEW S \in SUBSET Docs, NEW s \in Lists(S),
         NEW j \in 0..Len(s), NEW i \in 0..Len(s), j <= i
  PROVE  Placed(s)[j].claimed \subseteq Placed(s)[i].claimed
<1> DEFINE T == {k \in 0..Len(s) : k >= j /\ ~(Placed(s)[j].claimed \subseteq Placed(s)[k].claimed)}
<1>1. SUFFICES ASSUME T # {} PROVE FALSE  OBVIOUS
<1>2. Len(s) \in Nat  BY SharedIsFinite, ListFacts
<1>3. PICK k \in T : \A l \in T : k <= l
  <2>1. T \in SUBSET Nat  BY <1>2
  <2> HIDE DEF T
  <2>2. QED  BY <1>1, <2>1, LeastNumber
<1>4. k # j /\ k > j /\ k \in 1..Len(s)  BY <1>2, <1>3
<1>5. k - 1 \in 0..Len(s) /\ k - 1 >= j /\ k - 1 \notin T  BY <1>2, <1>3, <1>4
<1>6. Placed(s)[j].claimed \subseteq Placed(s)[k - 1].claimed  BY <1>5
<1>7. Placed(s)[k - 1].claimed \subseteq Placed(s)[k].claimed  BY <1>4, PlacedOne
<1>8. QED  BY <1>3, <1>6, <1>7

\* A name that is new is no live document's in its directory.
LEMMA FreshIsFree ==
  ASSUME RemoteTyped, TableTyped(row), NEW S \in SUBSET Docs, NEW s \in Lists(S),
         NEW i \in 1..Len(s), ~IsDirForm(row, s[i]),
         NEW e \in Docs, e # s[i], Live(row, e)
  PROVE  row[e].path.at # Placed(s)[i].path.at
<1> DEFINE d == s[i]
           dir == Dir(d)
           name == NewName(s, i)
           ate == row[e].path.at
<1>1. /\ d \in Docs /\ dir \in Seq(Names) /\ name \in Own(d) /\ name \in Names
      /\ Placed(s)[i].path.at = Append(dir, name)
  BY PlacedOne
<1>2. SUFFICES ASSUME ate = Append(dir, name) PROVE FALSE  BY <1>1
<1>3. title[d] \in Titles[d]  BY <1>1 DEF RemoteTyped
<1>4. name \in {title[d], <<title[d], d>>} /\ (name = title[d] => name \notin SiblingUsed(dir, d))
  BY <1>1, Naming DEF NewName
<1>5. ate[Len(ate)] \in Own(e)  BY RecordFacts DEF Live, Fits
<1> HIDE DEF name, dir, d
<1>6. /\ Len(ate) = Len(dir) + 1 /\ Len(dir) \in Nat /\ ate[Len(dir) + 1] = name
      /\ SubSeq(ate, 1, Len(dir)) = dir
  BY <1>1, <1>2, AppendFacts
<1>7. name \in SiblingUsed(dir, d)
  <2>1. Len(ate) > Len(dir) /\ e \in Docs \ {d}  BY <1>6 DEF d
  <2>2. QED  BY <1>6, <2>1 DEF SiblingUsed
<1>8. name = <<title[d], d>>  BY <1>4, <1>7
<1>9. <<title[d], d>> \in Own(e)  BY <1>5, <1>6, <1>8
<1>10. e = d  BY <1>1, <1>3, <1>9, LongNames
<1>11. QED  BY <1>10 DEF d

\* Names that are new in one round are apart.
LEMMA FreshAreApart ==
  ASSUME RemoteTyped, TableTyped(row), NEW S \in SUBSET Docs, NEW s \in Lists(S),
         NEW i \in 1..Len(s), NEW j \in 1..Len(s), j < i,
         ~IsDirForm(row, s[i]), ~IsDirForm(row, s[j])
  PROVE  Placed(s)[i].path.at # Placed(s)[j].path.at
<1> DEFINE d == s[i]
           di == Dir(d)
           dj == Dir(s[j])
           ni == NewName(s, i)
           nj == NewName(s, j)
           prev == Placed(s)[i - 1].claimed
<1>1. /\ d \in Docs /\ di \in Seq(Names) /\ ni \in Own(d) /\ ni \in Names
      /\ Placed(s)[i].path.at = Append(di, ni) /\ i - 1 \in 0..Len(s)
  BY PlacedOne
<1>2. /\ s[j] \in Docs /\ dj \in Seq(Names) /\ nj \in Own(s[j]) /\ nj \in Names
      /\ Placed(s)[j].path.at = Append(dj, nj)
      /\ <<dj, nj>> \in Placed(s)[j].claimed
  BY PlacedOne
<1>3. Len(s) \in Nat /\ s[i] # s[j]
  <2>1. Len(s) \in Nat /\ \A k, l \in 1..Len(s) : s[k] = s[l] => k = l
    BY SharedIsFinite, ListFacts
  <2>2. QED  BY <2>1
<1>4. <<dj, nj>> \in prev
  <2>1. j \in 0..Len(s) /\ j <= i - 1  BY <1>3
  <2>2. Placed(s)[j].claimed \subseteq prev  BY <1>1, <2>1, ClaimsGrow
  <2>3. QED  BY <1>2, <2>2
<1>5. SUFFICES ASSUME Append(di, ni) = Append(dj, nj) PROVE FALSE  BY <1>1, <1>2
<1>6. title[d] \in Titles[d]  BY <1>1 DEF RemoteTyped
<1>7. ni \in {title[d], <<title[d], d>>} /\ (ni = title[d] => ni \notin ClaimedIn(prev, di))
  BY <1>1, Naming DEF NewName
<1> HIDE DEF ni, nj, di, dj, prev, d
<1>8. di = dj /\ ni = nj  BY <1>1, <1>2, <1>5, AppendInjective
<1>9. ni \in ClaimedIn(prev, di)
  <2>1. <<dj, nj>>[1] = di /\ <<dj, nj>>[2] = ni  BY <1>8
  <2>2. QED  BY <1>4, <2>1 DEF ClaimedIn
<1>10. ni = <<title[d], d>>  BY <1>7, <1>9
<1>11. s[j] = d  BY <1>1, <1>2, <1>6, <1>8, <1>10, LongNames
<1>12. QED  BY <1>3, <1>11 DEF d

\* A new name does not lie in the trash.
LEMMA FreshIsOutside ==
  ASSUME RemoteTyped, TableTyped(row), Orderly(row), NEW S \in SUBSET Docs, NEW s \in Lists(S),
         NEW i \in 1..Len(s), ~IsDirForm(row, s[i])
  PROVE  Head(Placed(s)[i].path.at) # Trash
<1> DEFINE d == s[i]
           name == NewName(s, i)
<1>1. /\ d \in Docs /\ Dir(d) \in Seq(Names) /\ name \in Own(d) /\ name \in Names
      /\ Placed(s)[i].path.at = Append(Dir(d), name)
  BY PlacedOne
<1>2. title[d] \in Titles[d] /\ parent[d] \in Bases  BY <1>1 DEF RemoteTyped
<1>3. name # Trash  BY <1>1, <1>2, OwnNames
<1>4. Dir(d) # <<>> => Head(Dir(d)) # Trash
  <2>1. CASE parent[d] = Root  BY <2>1 DEF Dir, NewDir
  <2>2. CASE parent[d] # Root /\ Rooted(row, parent[d])
    <3>1. parent[d] \in Docs /\ Live(row, parent[d])  BY <1>2, <2>2, RootedParent
    <3>2. QED  BY <2>2, <3>1 DEF Dir, NewDir, Orderly
  <2>3. CASE parent[d] # Root /\ ~Rooted(row, parent[d])
    <3>1. Dir(d) = <<Orphans>>  BY <2>3 DEF Dir, NewDir
    <3>2. Head(<<Orphans>>) = Orphans  OBVIOUS
    <3>3. QED  BY <3>1, <3>2, NamesAssumption
  <2>4. QED  BY <2>1, <2>2, <2>3
<1> HIDE DEF d, name
<1>5. QED  BY <1>1, <1>3, <1>4, AppendFacts

-----------------------------------------------------------------------------
(* The nodes an incremental round starts with. *)

\* What the node n is to be, in a round of mode m that began with the table tab.
Due(tab, S, m, n) ==
  /\ Fits(n.doc, n.path)
  /\ n.doc \in S => n = Node(n.doc, n.path)
  /\ n.doc \notin S => m = "incremental" /\ n.doc \in Turned(tab, S)
  /\ m = "incremental" => Good(tab, S, n.doc, n.path)

PathsApart(ns) == \A i, j \in 1..Len(ns) : ns[i].path = ns[j].path => i = j

\* No live document but its own has the path of a node.
PathsFree(ns) ==
  \A i \in 1..Len(ns) : \A e \in Docs \ {ns[i].doc} : Live(row, e) => row[e].path # ns[i].path

\* The placed documents, then the leaves that become directories.
Queue(s, c) == [i \in DOMAIN s |-> Node(s[i], Placed(s)[i].path)]
                 \o [i \in DOMAIN c |-> Conversion(c[i])]

LEMMA ConversionFacts ==
  ASSUME TableTyped(row), NEW S \in SUBSET Docs, NEW p \in Turned(row, S)
  PROVE  /\ Conversion(p) \in NodeRecords /\ Conversion(p).doc = p
         /\ Conversion(p).path = Readme(row[p].path.at) /\ Conversion(p).path.at = row[p].path.at
         /\ Due(row, S, "incremental", Conversion(p)) /\ p \in Docs \ S /\ Live(row, p)
<1>1. /\ p \in Docs \ S /\ Live(row, p) /\ row[p] \in RowRecords
      /\ Fits(p, row[p].path) /\ row[p].path \in Paths /\ row[p].path.form = "leaf"
  BY RecordFacts DEF Turned, Live
<1>2. row[p].path.at \in Seq(Names) /\ row[p].path.at # <<>>  BY <1>1, PathFacts
<1>3. /\ Readme(row[p].path.at) \in Paths /\ Readme(row[p].path.at).at = row[p].path.at
      /\ Readme(row[p].path.at).form = "readme"
  BY <1>2, MakePath
<1>4. p \notin Databases  BY <1>1 DEF Fits
<1>5. Fits(p, Readme(row[p].path.at))  BY <1>1, <1>3, <1>4 DEF Fits
<1>6. /\ Conversion(p) \in NodeRecords /\ Conversion(p).doc = p
      /\ Conversion(p).path = Readme(row[p].path.at)
  BY <1>1, <1>3 DEF Conversion, NodeRecords, RowRecords, Times
<1>7. Good(row, S, p, Readme(row[p].path.at))  BY <1>1 DEF Good
<1>8. QED  BY <1>1, <1>3, <1>5, <1>6, <1>7 DEF Due

LEMMA QueueFacts ==
  ASSUME RemoteTyped, TableTyped(row), NEW S \in SUBSET Docs, NEW s \in Lists(S),
         NEW c \in Lists(Turned(row, S)), NEW q, q = Queue(s, c)
  PROVE  /\ q \in Seq(NodeRecords) /\ Len(s) \in Nat /\ Len(c) \in Nat
         /\ Len(q) = Len(s) + Len(c)
         /\ \A i \in 1..Len(s) : q[i] = Node(s[i], Placed(s)[i].path)
         /\ \A i \in 1..Len(c) : q[Len(s) + i] = Conversion(c[i])
         /\ \A k \in 1..Len(q) : \/ k \in 1..Len(s)
                                 \/ \E i \in 1..Len(c) : k = Len(s) + i
<1> DEFINE a == [i \in DOMAIN s |-> Node(s[i], Placed(s)[i].path)]
           b == [i \in DOMAIN c |-> Conversion(c[i])]
<1>1. /\ s \in Seq(S) /\ Len(s) \in Nat /\ DOMAIN s = 1..Len(s)
  BY SharedIsFinite, ListFacts
<1>2. /\ c \in Seq(Turned(row, S)) /\ Len(c) \in Nat /\ DOMAIN c = 1..Len(c)
  <2>1. Turned(row, S) \in SUBSET Docs  BY DEF Turned
  <2>2. QED  BY <2>1, SharedIsFinite, ListFacts
<1>3. a \in Seq(NodeRecords) /\ Len(a) = Len(s)
  <2>1. \A i \in 1..Len(s) : s[i] \in Docs /\ Placed(s)[i].path \in Paths
    BY PlacedOne DEF Fits
  <2>2. a \in [1..Len(s) -> NodeRecords]  BY <1>1, <2>1, NodeTyped
  <2> HIDE DEF a
  <2>3. a \in Seq(NodeRecords)  BY <1>1, <2>2, SeqDef
  <2>4. QED  BY <1>1, <2>2, <2>3, LenProperties
<1>4. b \in Seq(NodeRecords) /\ Len(b) = Len(c)
  <2>1. \A i \in 1..Len(c) : c[i] \in Turned(row, S)  BY <1>2
  <2>2. b \in [1..Len(c) -> NodeRecords]  BY <1>2, <2>1, ConversionFacts
  <2> HIDE DEF b
  <2>3. b \in Seq(NodeRecords)  BY <1>2, <2>2, SeqDef
  <2>4. QED  BY <1>2, <2>2, <2>3, LenProperties
<1>5. \A i \in 1..Len(s) : a[i] = Node(s[i], Placed(s)[i].path)  BY <1>1
<1>6. \A i \in 1..Len(c) : b[i] = Conversion(c[i])  BY <1>2
<1>7. q = a \o b  BY DEF Queue
<1> HIDE DEF a, b
<1>8. /\ q \in Seq(NodeRecords) /\ Len(q) = Len(a) + Len(b)
      /\ \A i \in 1..(Len(a) + Len(b)) : q[i] = IF i <= Len(a) THEN a[i] ELSE b[i - Len(a)]
  <2>1. /\ a \o b \in Seq(NodeRecords) /\ Len(a \o b) = Len(a) + Len(b)
        /\ \A i \in 1..(Len(a) + Len(b)) :
             (a \o b)[i] = IF i <= Len(a) THEN a[i] ELSE b[i - Len(a)]
    BY <1>3, <1>4, ConcatProperties
  <2>2. QED  BY <1>7, <2>1
<1>9. \A i \in 1..Len(s) : q[i] = a[i]
  <2>1. \A i \in 1..Len(s) : i \in 1..(Len(a) + Len(b)) /\ i <= Len(a)
    BY <1>1, <1>2, <1>3, <1>4
  <2>2. QED  BY <1>8, <2>1
<1>10. ASSUME NEW i \in 1..Len(c) PROVE q[Len(s) + i] = b[i]
  <2>1. /\ Len(s) + i \in 1..(Len(a) + Len(b)) /\ ~(Len(s) + i <= Len(a))
        /\ (Len(s) + i) - Len(a) = i
    BY <1>1, <1>2, <1>3, <1>4
  <2>2. QED  BY <1>8, <2>1
<1>11. ASSUME NEW k \in 1..Len(q), k \notin 1..Len(s)
       PROVE  \E i \in 1..Len(c) : k = Len(s) + i
  <2>1. k - Len(s) \in 1..Len(c) /\ k = Len(s) + (k - Len(s))
    BY <1>1, <1>2, <1>3, <1>4, <1>8, <1>11
  <2>2. QED  BY <2>1
<1>12. QED  BY <1>1, <1>2, <1>3, <1>4, <1>5, <1>6, <1>8, <1>9, <1>10, <1>11

LEMMA QueueNodes ==
  ASSUME RemoteTyped, TableTyped(row), NEW S \in SUBSET Docs, NEW s \in Lists(S),
         NEW c \in Lists(Turned(row, S)), NEW q, q = Queue(s, c)
  PROVE  /\ \A i \in 1..Len(s) : q[i].doc = s[i] /\ s[i] \in S /\ q[i].path = Placed(s)[i].path
         /\ \A i \in 1..Len(c) : /\ q[Len(s) + i].doc = c[i] /\ c[i] \in Turned(row, S)
                                 /\ q[Len(s) + i].path.at = row[c[i]].path.at
         /\ \A k \in 1..Len(q) : Due(row, S, "incremental", q[k])
<1>1. ASSUME NEW i \in 1..Len(s)
      PROVE  /\ q[i].doc = s[i] /\ s[i] \in S /\ q[i].path = Placed(s)[i].path
             /\ Due(row, S, "incremental", q[i])
  <2>1. /\ s[i] \in S /\ s[i] \in Docs /\ Placed(s)[i].path \in Paths
        /\ Fits(s[i], Placed(s)[i].path) /\ Good(row, S, s[i], Placed(s)[i].path)
    BY PlacedOne DEF Fits
  <2>2. q[i] = Node(s[i], Placed(s)[i].path)  BY QueueFacts
  <2>3. q[i].doc = s[i] /\ q[i].path = Placed(s)[i].path  BY <2>1, <2>2, NodeTyped
  <2>4. QED  BY <2>1, <2>2, <2>3 DEF Due
<1>2. ASSUME NEW i \in 1..Len(c)
      PROVE  /\ q[Len(s) + i].doc = c[i] /\ c[i] \in Turned(row, S)
             /\ q[Len(s) + i].path.at = row[c[i]].path.at
             /\ Due(row, S, "incremental", q[Len(s) + i])
  <2>1. c[i] \in Turned(row, S)
    <3>1. Turned(row, S) \in SUBSET Docs  BY DEF Turned
    <3>2. c \in Seq(Turned(row, S))  BY <3>1, SharedIsFinite, ListFacts
    <3>3. QED  BY <3>2
  <2>2. q[Len(s) + i] = Conversion(c[i])  BY QueueFacts
  <2>3. QED  BY <2>1, <2>2, ConversionFacts
<1>3. \A k \in 1..Len(q) : Due(row, S, "incremental", q[k])
  BY <1>1, <1>2, QueueFacts
<1>4. QED  BY <1>1, <1>2, <1>3

LEMMA QueueIsComplete ==
  ASSUME RemoteTyped, TableTyped(row), NEW S \in SUBSET Docs, NEW s \in Lists(S),
         NEW c \in Lists(Turned(row, S)), NEW q, q = Queue(s, c)
  PROVE  /\ NodesApart(q)
         /\ \A d \in S \cup Turned(row, S) : \E k \in 1..Len(q) : q[k].doc = d
<1>1. /\ Len(s) \in Nat /\ \A i, j \in 1..Len(s) : s[i] = s[j] => i = j
      /\ \A d \in S : \E i \in 1..Len(s) : s[i] = d
  BY SharedIsFinite, ListFacts
<1>2. /\ Len(c) \in Nat /\ \A i, j \in 1..Len(c) : c[i] = c[j] => i = j
      /\ \A d \in Turned(row, S) : \E i \in 1..Len(c) : c[i] = d
  <2>1. Turned(row, S) \in SUBSET Docs  BY DEF Turned
  <2>2. QED  BY <2>1, SharedIsFinite, ListFacts
<1>3. Len(q) = Len(s) + Len(c)  BY QueueFacts
<1>4. S \cap Turned(row, S) = {}  BY DEF Turned
<1>5. NodesApart(q)
  <2>1. SUFFICES ASSUME NEW k \in 1..Len(q), NEW l \in 1..Len(q), q[k].doc = q[l].doc
                 PROVE  k = l
    BY DEF NodesApart
  <2>2. CASE k \in 1..Len(s) /\ l \in 1..Len(s)  BY <1>1, <2>1, <2>2, QueueNodes
  <2>3. CASE k \in 1..Len(s) /\ l \notin 1..Len(s)
    <3>1. PICK j \in 1..Len(c) : l = Len(s) + j  BY <2>3, QueueFacts
    <3>2. q[k].doc \in S /\ q[l].doc \in Turned(row, S)  BY <2>3, <3>1, QueueNodes
    <3>3. QED  BY <1>4, <2>1, <3>2
  <2>4. CASE k \notin 1..Len(s) /\ l \in 1..Len(s)
    <3>1. PICK i \in 1..Len(c) : k = Len(s) + i  BY <2>4, QueueFacts
    <3>2. q[l].doc \in S /\ q[k].doc \in Turned(row, S)  BY <2>4, <3>1, QueueNodes
    <3>3. QED  BY <1>4, <2>1, <3>2
  <2>5. CASE k \notin 1..Len(s) /\ l \notin 1..Len(s)
    <3>1. PICK i \in 1..Len(c) : k = Len(s) + i  BY <2>5, QueueFacts
    <3>2. PICK j \in 1..Len(c) : l = Len(s) + j  BY <2>5, QueueFacts
    <3>3. c[i] = c[j]  BY <2>1, <3>1, <3>2, QueueNodes
    <3>4. QED  BY <1>2, <3>1, <3>2, <3>3
  <2>6. QED  BY <2>2, <2>3, <2>4, <2>5
<1>6. ASSUME NEW d \in S PROVE \E k \in 1..Len(q) : q[k].doc = d
  <2>1. PICK i \in 1..Len(s) : s[i] = d  BY <1>1
  <2>2. i \in 1..Len(q)  BY <1>1, <1>2, <1>3
  <2>3. QED  BY <2>1, <2>2, QueueNodes
<1>7. ASSUME NEW d \in Turned(row, S) PROVE \E k \in 1..Len(q) : q[k].doc = d
  <2>1. PICK i \in 1..Len(c) : c[i] = d  BY <1>2
  <2>2. Len(s) + i \in 1..Len(q)  BY <1>1, <1>2, <1>3
  <2>3. QED  BY <2>1, <2>2, QueueNodes
<1>8. QED  BY <1>5, <1>6, <1>7

\* The place k of the queue is for a document that lives where the node puts it.
Stays(q, k) == Live(row, q[k].doc) /\ row[q[k].doc].path.at = q[k].path.at

LEMMA QueueKinds ==
  ASSUME RemoteTyped, TableTyped(row), NEW S \in SUBSET Docs, NEW s \in Lists(S),
         NEW c \in Lists(Turned(row, S)), NEW q, q = Queue(s, c), NEW k \in 1..Len(q)
  PROVE  /\ q[k].doc \in Docs
         /\ \/ Stays(q, k)
            \/ /\ k \in 1..Len(s) /\ IsDirForm(row, s[k])
               /\ row[s[k]].status = "trashed" /\ q[k].path = row[s[k]].path
               /\ Head(q[k].path.at) = Trash
            \/ k \in 1..Len(s) /\ ~IsDirForm(row, s[k])
<1>1. CASE k \in 1..Len(s)
  <2>1. /\ q[k].doc = s[k] /\ s[k] \in Docs /\ q[k].path = Placed(s)[k].path
    BY <1>1, QueueNodes
  <2>2. CASE ~IsDirForm(row, s[k])  BY <1>1, <2>1, <2>2
  <2>3. CASE IsDirForm(row, s[k])
    <3>1. q[k].path = row[s[k]].path  BY <1>1, <2>1, <2>3, PlacedOne
    <3>2. row[s[k]].status \in {"active", "trashed"}  BY <2>1, <2>3, RecordFacts DEF IsDirForm
    <3>3. row[s[k]].status = "active" => Stays(q, k)
      BY <2>1, <3>1, RecordFacts DEF Stays
    <3>4. row[s[k]].status = "trashed" => Head(q[k].path.at) = Trash
      BY <2>1, <3>1 DEF TableTyped
    <3>5. QED  BY <1>1, <2>1, <2>3, <3>1, <3>2, <3>3, <3>4
  <2>4. QED  BY <2>2, <2>3
<1>2. CASE k \notin 1..Len(s)
  <2>1. PICK i \in 1..Len(c) : k = Len(s) + i  BY <1>2, QueueFacts
  <2>2. q[k].doc = c[i] /\ c[i] \in Turned(row, S) /\ q[k].path.at = row[c[i]].path.at
    BY <2>1, QueueNodes
  <2>3. QED  BY <2>2 DEF Turned, Stays
<1>3. QED  BY <1>1, <1>2

\* Where the live documents had places of their own, each node has one too.
LEMMA QueueIsFree ==
  ASSUME RemoteTyped, TableTyped(row), Orderly(row), NEW S \in SUBSET Docs, NEW s \in Lists(S),
         NEW c \in Lists(Turned(row, S)), NEW q, q = Queue(s, c), NEW k \in 1..Len(q),
         NEW e \in Docs, e # q[k].doc, Live(row, e)
  PROVE  row[e].path.at # q[k].path.at
<1>1. CASE Stays(q, k)  BY <1>1 DEF Stays, Orderly, Live
<1>2. CASE Head(q[k].path.at) = Trash  BY <1>2 DEF Orderly
<1>3. CASE k \in 1..Len(s) /\ ~IsDirForm(row, s[k])
  <2>1. q[k].doc = s[k] /\ q[k].path = Placed(s)[k].path  BY <1>3, QueueNodes
  <2>2. QED  BY <1>3, <2>1, FreshIsFree
<1>4. QED  BY <1>1, <1>2, <1>3, QueueKinds

LEMMA QueueIsSeparate ==
  ASSUME RemoteTyped, TableTyped(row), OwnPaths(row), Orderly(row),
         NEW S \in SUBSET Docs, NEW s \in Lists(S),
         NEW c \in Lists(Turned(row, S)), NEW q, q = Queue(s, c)
  PROVE  PathsApart(q) /\ PathsFree(q)
<1>1. PathsFree(q)  BY QueueIsFree DEF PathsFree
<1>2. ASSUME NEW k \in 1..Len(q), NEW l \in 1..Len(q), k # l
      PROVE  q[k].path # q[l].path
  <2>1. q[k].doc # q[l].doc  BY <1>2, QueueIsComplete DEF NodesApart
  <2>2. q[k].doc \in Docs /\ q[l].doc \in Docs  BY QueueKinds
  <2>3. CASE Stays(q, k)  BY <2>1, <2>2, <2>3, QueueIsFree DEF Stays
  <2>4. CASE Stays(q, l)  BY <2>1, <2>2, <2>4, QueueIsFree DEF Stays
  <2>5. CASE ~Stays(q, k) /\ ~Stays(q, l)
    <3>1. k \in 1..Len(s) /\ l \in 1..Len(s)  BY <2>5, QueueKinds
    <3>2. /\ q[k].doc = s[k] /\ q[k].path = Placed(s)[k].path
          /\ q[l].doc = s[l] /\ q[l].path = Placed(s)[l].path
      BY <3>1, QueueNodes
    <3>3. CASE ~IsDirForm(row, s[k]) /\ ~IsDirForm(row, s[l])
      <4>1. Len(s) \in Nat  BY QueueFacts
      <4>2. k < l \/ l < k  BY <1>2, <3>1, <4>1
      <4>3. QED  BY <3>1, <3>2, <3>3, <4>2, FreshAreApart
    <3>4. CASE IsDirForm(row, s[k]) /\ IsDirForm(row, s[l])
      <4>1. /\ row[s[k]].status = "trashed" /\ q[k].path = row[s[k]].path
            /\ row[s[l]].status = "trashed" /\ q[l].path = row[s[l]].path
        BY <2>5, <3>4, QueueKinds
      <4>2. QED  BY <2>1, <2>2, <3>2, <4>1 DEF OwnPaths
    <3>5. CASE IsDirForm(row, s[k]) /\ ~IsDirForm(row, s[l])
      <4>1. Head(q[k].path.at) = Trash  BY <2>5, <3>5, QueueKinds
      <4>2. Head(q[l].path.at) # Trash  BY <3>1, <3>2, <3>5, FreshIsOutside
      <4>3. QED  BY <4>1, <4>2
    <3>6. CASE ~IsDirForm(row, s[k]) /\ IsDirForm(row, s[l])
      <4>1. Head(q[l].path.at) = Trash  BY <2>5, <3>6, QueueKinds
      <4>2. Head(q[k].path.at) # Trash  BY <3>1, <3>2, <3>6, FreshIsOutside
      <4>3. QED  BY <4>1, <4>2
    <3>7. QED  BY <3>3, <3>4, <3>5, <3>6
  <2>6. QED  BY <2>3, <2>4, <2>5
<1>3. QED  BY <1>1, <1>2 DEF PathsApart

\* Sorting by depth only puts the nodes in another order.
LEMMA SortedIsRearranged ==
  ASSUME NEW q \in Seq(NodeRecords), NEW ns \in ByDepth(q)
  PROVE  /\ ns \in Seq(NodeRecords) /\ Len(ns) = Len(q)
         /\ \E pos \in [1..Len(q) -> 1..Len(q)] :
              /\ \A i \in 1..Len(q) : ns[i] = q[pos[i]]
              /\ \A i, j \in 1..Len(q) : pos[i] = pos[j] => i = j
              /\ \A k \in 1..Len(q) : \E i \in 1..Len(q) : pos[i] = k
<1>1. PICK pos \in Lists(DOMAIN q) : ns = [i \in DOMAIN q |-> q[pos[i]]]
  BY DEF ByDepth
<1>2. Len(q) \in Nat /\ DOMAIN q = 1..Len(q) /\ \A i \in 1..Len(q) : q[i] \in NodeRecords
  BY LenProperties
<1>3. IsFiniteSet(1..Len(q)) /\ Cardinality(1..Len(q)) = Len(q)
  <2> DEFINE n == Len(q)
  <2>1. n \in Nat  BY <1>2
  <2> HIDE DEF n
  <2>2. IsFiniteSet(1..n) /\ Cardinality(1..n) = n  BY <2>1, FS_Interval
  <2>3. QED  BY <2>2 DEF n
<1>4. /\ pos \in Seq(1..Len(q)) /\ Len(pos) = Len(q)
      /\ \A i, j \in 1..Len(pos) : pos[i] = pos[j] => i = j
      /\ \A k \in 1..Len(q) : \E i \in 1..Len(pos) : pos[i] = k
  BY <1>1, <1>2, <1>3, ListFacts
<1>5. pos \in [1..Len(q) -> 1..Len(q)]
  <2>1. pos \in [1..Len(pos) -> 1..Len(q)]  BY <1>4, LenProperties
  <2>2. QED  BY <1>4, <2>1
<1>6. ns \in [1..Len(q) -> NodeRecords] /\ \A i \in 1..Len(q) : ns[i] = q[pos[i]]
  BY <1>1, <1>2, <1>5
<1>7. ns \in Seq(NodeRecords)  BY <1>2, <1>6, SeqDef
<1>8. Len(ns) = Len(q)  BY <1>2, <1>6, <1>7, LenProperties
<1>9. /\ \A i, j \in 1..Len(q) : pos[i] = pos[j] => i = j
      /\ \A k \in 1..Len(q) : \E i \in 1..Len(q) : pos[i] = k
  BY <1>4
<1> HIDE DEF ByDepth
<1>10. QED  BY <1>5, <1>6, <1>7, <1>8, <1>9

-----------------------------------------------------------------------------
(* Types. *)

LEMMA HeadFacts ==
  ASSUME RoundTyped, nodes # <<>>
  PROVE  /\ N \in NodeRecords /\ N = nodes[1] /\ 1 \in 1..Len(nodes) /\ Len(nodes) \in Nat
         /\ N.doc \in Docs /\ Fits(N.doc, N.path) /\ N.path \in Paths
         /\ Tail(nodes) \in Seq(NodeRecords) /\ Len(Tail(nodes)) = Len(nodes) - 1
         /\ \A i \in 1..Len(Tail(nodes)) : /\ i + 1 \in 1..Len(nodes)
                                           /\ Tail(nodes)[i] = nodes[i + 1]
         /\ \A i \in 1..Len(nodes) : i # 1 => /\ i - 1 \in 1..Len(Tail(nodes))
                                              /\ Tail(nodes)[i - 1] = nodes[i]
<1>1. nodes \in Seq(NodeRecords)  BY DEF RoundTyped
<1>2. /\ N \in NodeRecords /\ Tail(nodes) \in Seq(NodeRecords)
      /\ Len(Tail(nodes)) = Len(nodes) - 1
      /\ \A i \in 1..Len(Tail(nodes)) : Tail(nodes)[i] = nodes[i + 1]
  BY <1>1, HeadTailProperties DEF N
<1>3. Len(nodes) \in Nat \ {0}  BY <1>1, EmptySeq
<1>4. 1 \in 1..Len(nodes) /\ N = nodes[1]  BY <1>1, <1>3 DEF N
<1>5. /\ \A i \in 1..Len(Tail(nodes)) : i + 1 \in 1..Len(nodes)
      /\ \A i \in 1..Len(nodes) : i # 1 => i - 1 \in 1..Len(Tail(nodes)) /\ (i - 1) + 1 = i
  BY <1>2, <1>3
<1>6. Fits(N.doc, N.path)  BY <1>4 DEF RoundTyped
<1>7. N.doc \in Docs /\ N.path \in Paths  BY <1>2 DEF NodeRecords
<1>8. \A i \in 1..Len(nodes) : i # 1 => Tail(nodes)[i - 1] = nodes[i]  BY <1>2, <1>5
<1>9. QED  BY <1>2, <1>3, <1>4, <1>5, <1>6, <1>7, <1>8

LEMMA SavedFacts ==
  ASSUME Typed, nodes # <<>>, NEW edited \in Times, NEW body \in Bodies \cup {NoTime}
  PROVE  /\ TableTyped(Saved(edited, body))
         /\ OwnPaths(row) /\ ~Taken(N.doc, N.path) => OwnPaths(Saved(edited, body))
         /\ Live(Saved(edited, body), N.doc) /\ Saved(edited, body)[N.doc].path = N.path
         /\ \A d \in Docs \ {N.doc} : Saved(edited, body)[d] = row[d]
<1> DEFINE new == [status |-> "active", parent |-> N.parent, title |-> N.title,
                   edited |-> edited, path |-> N.path, body |-> body]
           tab == Saved(edited, body)
<1>1. /\ N \in NodeRecords /\ N.doc \in Docs /\ Fits(N.doc, N.path) /\ N.path \in Paths
  BY HeadFacts DEF Typed
<1>2. TableTyped(row) /\ DOMAIN row = Docs  BY DEF Typed, TableTyped
<1>3. tab = [row EXCEPT ![N.doc] = new]  BY DEF Saved
<1>4. new \in RowRecords  BY <1>1 DEF NodeRecords, RowRecords
<1>5. /\ tab[N.doc] = new /\ \A d \in Docs \ {N.doc} : tab[d] = row[d]
      /\ tab \in [Docs -> RowRecords]
  <2> HIDE DEF new, tab
  <2>1. row \in [Docs -> RowRecords]  BY <1>2 DEF TableTyped
  <2>2. QED  BY <1>1, <1>3, <1>4, <2>1
<1>6. new.status = "active" /\ new.path = N.path  OBVIOUS
<1> HIDE DEF new, tab
<1>7. TableTyped(tab)
  <2>1. ASSUME NEW d \in Docs
        PROVE  /\ tab[d].status # "none" => Fits(d, tab[d].path)
               /\ tab[d].status = "trashed" => Head(tab[d].path.at) = Trash
    <3>1. CASE d = N.doc  BY <1>1, <1>5, <1>6, <3>1
    <3>2. CASE d # N.doc  BY <1>2, <1>5, <3>2 DEF TableTyped
    <3>3. QED  BY <3>1, <3>2
  <2>2. QED  BY <1>5, <2>1 DEF TableTyped
<1>8. ASSUME OwnPaths(row), ~Taken(N.doc, N.path) PROVE OwnPaths(tab)
  <2>1. SUFFICES ASSUME NEW d \in Docs, NEW e \in Docs, d # e,
                        tab[d].status # "none", tab[e].status # "none"
                 PROVE  tab[d].path # tab[e].path
    BY DEF OwnPaths
  <2>2. CASE d = N.doc  BY <1>5, <1>6, <1>8, <2>1, <2>2 DEF Taken
  <2>3. CASE e = N.doc  BY <1>5, <1>6, <1>8, <2>1, <2>3 DEF Taken
  <2>4. CASE d # N.doc /\ e # N.doc  BY <1>5, <1>8, <2>1, <2>4 DEF OwnPaths
  <2>5. QED  BY <2>2, <2>3, <2>4
<1>9. QED  BY <1>1, <1>5, <1>6, <1>7, <1>8 DEF tab, Live

LEMMA RelocatedTyped ==
  ASSUME Typed, nodes # <<>>, N.doc \in Pages
  PROVE  \A x \in DOMAIN Relocated : x \in Paths /\ x.form # "folder" /\ Relocated[x] \in Bodies
<1>1. N.path \in Paths /\ N.path.form # "folder"
  <2>1. Fits(N.doc, N.path) /\ N.doc \notin Databases  BY HeadFacts, Kinds DEF Typed
  <2>2. QED  BY <2>1 DEF Fits
<1>2. FilesTyped  BY DEF Typed
<1> DEFINE old == row[N.doc].path
<1>3. CASE Moved /\ old \in DOMAIN file
  <2>1. Relocated = [x \in (DOMAIN file \ {old}) \cup {N.path} |->
                       IF x = N.path THEN file[old] ELSE file[x]]
    BY <1>3 DEF Relocated
  <2>2. QED  BY <1>1, <1>2, <1>3, <2>1 DEF FilesTyped
<1>4. CASE ~(Moved /\ old \in DOMAIN file)
  <2>1. Relocated = file  BY <1>4 DEF Relocated
  <2>2. QED  BY <1>2, <2>1 DEF FilesTyped
<1>5. QED  BY <1>3, <1>4

LEMMA FetchedTyped ==
  ASSUME Typed, nodes # <<>>, N.doc \in Pages
  PROVE  Fetched \in Bodies
BY HeadFacts DEF Typed, RemoteTyped, Fetched, Bodies

\* What processing the node at the head does to the table.
Processing == ProcessFolder \/ SkipPage \/ FetchPage \/ FailPage
Saves == /\ ~Taken(N.doc, N.path)
         /\ \E edited \in Times, body \in Bodies \cup {NoTime} : row' = Saved(edited, body)

LEMMA ProcessingFacts ==
  ASSUME Typed, Processing
  PROVE  /\ pc = "walk" /\ nodes # <<>> /\ nodes' = Tail(nodes)
         /\ UNCHANGED <<remote, checkpoint, pc, mode, listing, before>>
         /\ queried \subseteq queried' /\ queried' \in SUBSET Databases
         /\ failed \subseteq failed' /\ failed' \in SUBSET Docs
         /\ row' = row \/ Saves
         /\ failed' = {} => Live(row', N.doc) /\ row'[N.doc].path = N.path
<1>1. nodes # <<>>  BY DEF Processing, ProcessFolder, SkipPage, FetchPage, FailPage
<1>2. /\ N.doc \in Docs /\ N.edited \in Times /\ row[N.doc] \in RowRecords
      /\ row[N.doc].body \in Bodies \cup {NoTime}
      /\ queried \in SUBSET Databases /\ failed \in SUBSET Docs
  BY <1>1, HeadFacts, RecordFacts DEF Typed, RoundTyped, NodeRecords, RowRecords
<1>3. CASE ProcessFolder
  <2>1. PICK asked \in BOOLEAN :
          /\ queried' = queried \cup (IF asked THEN {N.doc} ELSE {})
          /\ failed' = failed \cup (IF asked /\ ~Taken(N.doc, N.path) THEN {} ELSE {N.doc})
    BY <1>3 DEF ProcessFolder
  <2>2. /\ pc = "walk" /\ N.doc \in Databases /\ Advance
        /\ row' = IF Taken(N.doc, N.path) THEN row ELSE Saved(N.edited, NoTime)
    BY <1>3 DEF ProcessFolder
  <2>3. row' = row \/ Saves
    BY <1>2, <2>2 DEF Saves
  <2>4. failed' = {} => ~Taken(N.doc, N.path)  BY <2>1
  <2>5. failed' = {} => Live(row', N.doc) /\ row'[N.doc].path = N.path
    <3>1. NoTime \in Bodies \cup {NoTime}  OBVIOUS
    <3>2. Live(Saved(N.edited, NoTime), N.doc) /\ Saved(N.edited, NoTime)[N.doc].path = N.path
      BY <1>1, <1>2, <3>1, SavedFacts
    <3>3. failed' = {} => row' = Saved(N.edited, NoTime)  BY <2>2, <2>4
    <3> HIDE DEF Saved
    <3>4. QED  BY <3>2, <3>3
  <2>6. QED  BY <1>1, <1>2, <2>1, <2>2, <2>3, <2>5 DEF Advance
<1>4. CASE SkipPage
  <2>1. /\ pc = "walk" /\ Unchanged /\ Advance /\ queried' = queried
        /\ IF Moved /\ ~Taken(N.doc, N.path)
           THEN row' = Saved(N.edited, row[N.doc].body) /\ failed' = failed
           ELSE row' = row /\ failed' = failed \cup (IF Moved THEN {N.doc} ELSE {})
    BY <1>4 DEF SkipPage
  <2>2. row' = row \/ Saves  BY <1>2, <2>1 DEF Saves
  <2>3. failed' = {} => Live(row', N.doc) /\ row'[N.doc].path = N.path
    <3>1. CASE Moved /\ ~Taken(N.doc, N.path)
      <4>1. row' = Saved(N.edited, row[N.doc].body)  BY <2>1, <3>1
      <4>2. QED  BY <1>1, <1>2, <4>1, SavedFacts
    <3>2. CASE Moved /\ Taken(N.doc, N.path)  BY <2>1, <3>2
    <3>3. CASE ~Moved  BY <1>2, <2>1, <3>3 DEF Moved, Unchanged, Live
    <3>4. QED  BY <3>1, <3>2, <3>3
  <2>4. failed \subseteq failed' /\ failed' \in SUBSET Docs  BY <1>2, <2>1
  <2>5. QED  BY <1>1, <1>2, <2>1, <2>2, <2>3, <2>4 DEF Advance
<1>5. CASE FetchPage
  <2>1. /\ pc = "walk" /\ N.doc \in Pages /\ Advance /\ queried' = queried
        /\ IF Taken(N.doc, N.path)
           THEN row' = row /\ failed' = failed \cup {N.doc}
           ELSE row' = Saved(N.edited, Fetched) /\ failed' = failed
    BY <1>5 DEF FetchPage
  <2>2. Fetched \in Bodies  BY <1>1, <2>1, FetchedTyped
  <2>3. row' = row \/ Saves  BY <1>2, <2>1, <2>2 DEF Saves
  <2>4. failed' = {} => Live(row', N.doc) /\ row'[N.doc].path = N.path
    <3>1. CASE Taken(N.doc, N.path)  BY <2>1, <3>1
    <3>2. CASE ~Taken(N.doc, N.path)
      <4>1. row' = Saved(N.edited, Fetched)  BY <2>1, <3>2
      <4>2. QED  BY <1>1, <1>2, <2>2, <4>1, SavedFacts
    <3>3. QED  BY <3>1, <3>2
  <2>5. failed \subseteq failed' /\ failed' \in SUBSET Docs  BY <1>2, <2>1
  <2>6. QED  BY <1>1, <1>2, <2>1, <2>3, <2>4, <2>5 DEF Advance
<1>6. CASE FailPage
  <2>1. /\ pc = "walk" /\ Advance /\ queried' = queried /\ row' = row
        /\ failed' = failed \cup {N.doc}
    BY <1>6 DEF FailPage
  <2>2. QED  BY <1>1, <1>2, <2>1 DEF Advance
<1>7. QED  BY <1>3, <1>4, <1>5, <1>6 DEF Processing

LEMMA ProcessingFiles ==
  ASSUME Typed, Processing
  PROVE  FilesTyped'
<1>1. nodes # <<>>  BY ProcessingFacts
<1>2. FilesTyped  BY DEF Typed
<1>3. CASE ProcessFolder  BY <1>2, <1>3 DEF ProcessFolder, FilesTyped
<1>4. CASE N.doc \in Pages /\ file' = Relocated
  BY <1>1, <1>4, RelocatedTyped DEF FilesTyped
<1>5. CASE file' = file  BY <1>2, <1>5 DEF FilesTyped
<1>6. CASE /\ N.doc \in Pages
           /\ file' = [x \in DOMAIN Relocated \cup {N.path} |->
                         IF x = N.path THEN Fetched ELSE Relocated[x]]
  <2>1. Fits(N.doc, N.path) /\ N.path \in Paths /\ N.doc \notin Databases
    BY <1>1, <1>6, HeadFacts, Kinds DEF Typed
  <2>2. N.path.form # "folder"  BY <2>1 DEF Fits
  <2>3. QED  BY <1>1, <1>6, <2>1, <2>2, RelocatedTyped, FetchedTyped DEF FilesTyped
<1>7. QED
  BY <1>3, <1>4, <1>5, <1>6 DEF Processing, SkipPage, FetchPage, FailPage

LEMMA ProcessingTyped ==
  ASSUME Typed, Processing
  PROVE  /\ Typed' /\ (OwnPaths(row) => OwnPaths(row)')
         /\ \A d \in Docs \ {N.doc} : row'[d] = row[d]
<1>1. /\ nodes # <<>> /\ nodes' = Tail(nodes)
      /\ UNCHANGED <<remote, checkpoint, pc, mode, listing, before>>
      /\ queried' \in SUBSET Databases /\ failed' \in SUBSET Docs
      /\ row' = row \/ Saves
  BY ProcessingFacts
<1>2. RemoteTyped'  BY <1>1 DEF Typed, RemoteTyped, remote
<1>3. RoundTyped'
  <2>1. /\ nodes' \in Seq(NodeRecords)
        /\ \A i \in 1..Len(nodes') : Fits(nodes'[i].doc, nodes'[i].path)
    <3>1. RoundTyped  BY DEF Typed
    <3>2. \A i \in 1..Len(nodes) : Fits(nodes[i].doc, nodes[i].path)  BY <3>1 DEF RoundTyped
    <3>3. QED  BY <1>1, <3>1, <3>2, HeadFacts
  <2>2. QED  BY <1>1, <2>1 DEF Typed, RoundTyped
<1>4. TableTyped(before)'  BY <1>1 DEF Typed, TableTyped
<1>5. /\ TableTyped(row') /\ (OwnPaths(row) => OwnPaths(row'))
      /\ \A d \in Docs \ {N.doc} : row'[d] = row[d]
  <2>1. CASE row' = row  BY <2>1 DEF Typed
  <2>2. CASE Saves
    <3>1. PICK edited \in Times, body \in Bodies \cup {NoTime} : row' = Saved(edited, body)
      BY <2>2 DEF Saves
    <3>2. ~Taken(N.doc, N.path)  BY <2>2 DEF Saves
    <3>3. QED  BY <1>1, <3>1, <3>2, SavedFacts
  <2>3. QED  BY <1>1, <2>1, <2>2
<1>6. FilesTyped'  BY ProcessingFiles
<1>7. QED  BY <1>2, <1>3, <1>4, <1>5, <1>6 DEF Typed

LEMMA TrashPathFacts ==
  ASSUME Typed, NEW d \in Docs, Live(row, d)
  PROVE  /\ TrashPath(d) \in Paths /\ TrashPath(d).form = row[d].path.form
         /\ Fits(d, TrashPath(d)) /\ Head(TrashPath(d).at) = Trash
<1> DEFINE old == row[d].path
           t == <<Trash>>
<1>1. Fits(d, old) /\ old \in Paths  BY RecordFacts DEF Typed, Live
<1>2. old.at \in Seq(Names) /\ old.at # <<>> /\ Len(old.at) \in Nat \ {0}
  BY <1>1, PathFacts
<1>3. TrashPath(d) = [old EXCEPT !.at = t \o old.at]  BY <1>1 DEF TrashPath, Paths
<1> HIDE DEF old
<1>4. t \in Seq(Names) /\ Len(t) = 1 /\ t[1] = Trash  BY DEF Names
<1> HIDE DEF t
<1>5. /\ t \o old.at \in Seq(Names) /\ Len(t \o old.at) = Len(t) + Len(old.at)
      /\ \A i \in 1..(Len(t) + Len(old.at)) :
           (t \o old.at)[i] = IF i <= Len(t) THEN t[i] ELSE old.at[i - Len(t)]
  BY <1>2, <1>4, ConcatProperties
<1> DEFINE at == t \o old.at
<1>6. /\ at \in Seq(Names) /\ Len(at) \in Nat \ {0} /\ at[1] = Trash
      /\ at[Len(at)] = old.at[Len(old.at)]
  <2>1. /\ Len(t) + Len(old.at) \in 1..(Len(t) + Len(old.at))
        /\ ~(Len(t) + Len(old.at) <= Len(t))
        /\ (Len(t) + Len(old.at)) - Len(t) = Len(old.at)
        /\ 1 \in 1..(Len(t) + Len(old.at)) /\ 1 <= Len(t)
    BY <1>2, <1>4
  <2>2. QED  BY <1>2, <1>4, <1>5, <2>1
<1> HIDE DEF at
<1>7. at # <<>> /\ Head(at) = Trash  BY <1>6
<1>8. /\ TrashPath(d) \in Paths /\ TrashPath(d).form = old.form /\ TrashPath(d).at = at
  BY <1>1, <1>3, <1>6, <1>7 DEF Paths, at
<1>9. Fits(d, TrashPath(d))  BY <1>1, <1>6, <1>8 DEF Fits
<1>10. QED  BY <1>7, <1>8, <1>9 DEF old

LEMMA TrashOneTyped ==
  ASSUME Typed, OwnPaths(row), TrashOne
  PROVE  FilesTyped' /\ TableTyped(row)' /\ OwnPaths(row)'
<1>1. PICK d \in Absent :
        /\ file' = IF row[d].path \in DOMAIN file
                   THEN [x \in (DOMAIN file \ {row[d].path}) \cup {TrashPath(d)} |->
                           IF x = TrashPath(d) THEN file[row[d].path] ELSE file[x]]
                   ELSE file
        /\ IF Taken(d, TrashPath(d))
           THEN row' = row /\ Rest
           ELSE /\ row' = [row EXCEPT ![d].status = "trashed", ![d].path = TrashPath(d)]
                /\ UNCHANGED round
  BY DEF TrashOne
<1>2. d \in Docs /\ Live(row, d)  BY DEF Absent
<1>3. /\ TrashPath(d) \in Paths /\ TrashPath(d).form = row[d].path.form
      /\ Fits(d, TrashPath(d)) /\ Head(TrashPath(d).at) = Trash
  BY <1>2, TrashPathFacts
<1>4. FilesTyped'
  <2>1. FilesTyped  BY DEF Typed
  <2>2. CASE row[d].path \in DOMAIN file
    <3>1. /\ DOMAIN file' = (DOMAIN file \ {row[d].path}) \cup {TrashPath(d)}
          /\ \A x \in DOMAIN file' :
               file'[x] = IF x = TrashPath(d) THEN file[row[d].path] ELSE file[x]
      BY <1>1, <2>2
    <3>2. row[d].path.form # "folder" /\ file[row[d].path] \in Bodies  BY <2>1, <2>2 DEF FilesTyped
    <3>3. QED  BY <1>3, <2>1, <3>1, <3>2 DEF FilesTyped
  <2>3. CASE row[d].path \notin DOMAIN file  BY <1>1, <2>1, <2>3 DEF FilesTyped
  <2>4. QED  BY <2>2, <2>3
<1>5. CASE Taken(d, TrashPath(d))
  <2>1. row' = row  BY <1>1, <1>5
  <2>2. TableTyped(row') /\ OwnPaths(row')  BY <2>1 DEF Typed
  <2>3. QED  BY <1>4, <2>2
<1>6. CASE ~Taken(d, TrashPath(d))
  <2>1. row' = [row EXCEPT ![d].status = "trashed", ![d].path = TrashPath(d)]
    BY <1>1, <1>6
  <2>2. row \in [Docs -> RowRecords] /\ row[d] \in RowRecords  BY <1>2 DEF Typed, TableTyped
  <2> DEFINE new == [row[d] EXCEPT !.status = "trashed", !.path = TrashPath(d)]
  <2>3. row' = [row EXCEPT ![d] = new]  BY <1>2, <2>1, <2>2
  <2>4. new \in RowRecords /\ new.status = "trashed" /\ new.path = TrashPath(d)
    BY <1>3, <2>2 DEF RowRecords
  <2> HIDE DEF new
  <2>5. /\ row' \in [Docs -> RowRecords] /\ row'[d] = new
        /\ \A e \in Docs \ {d} : row'[e] = row[e]
    BY <1>2, <2>2, <2>3, <2>4
  <2>6. ASSUME NEW e \in Docs
        PROVE  /\ row'[e].status # "none" => Fits(e, row'[e].path)
               /\ row'[e].status = "trashed" => Head(row'[e].path.at) = Trash
    <3>1. CASE e = d  BY <1>3, <2>4, <2>5, <3>1
    <3>2. CASE e # d  BY <2>5, <3>2 DEF Typed, TableTyped
    <3>3. QED  BY <3>1, <3>2
  <2>7. TableTyped(row')  BY <2>5, <2>6 DEF TableTyped
  <2>8. OwnPaths(row')
    <3>1. SUFFICES ASSUME NEW e \in Docs, NEW f \in Docs, e # f,
                          row'[e].status # "none", row'[f].status # "none"
                   PROVE  row'[e].path # row'[f].path
      BY DEF OwnPaths
    <3>2. CASE e = d  BY <1>6, <2>4, <2>5, <3>1, <3>2 DEF Taken
    <3>3. CASE f = d  BY <1>6, <2>4, <2>5, <3>1, <3>3 DEF Taken
    <3>4. CASE e # d /\ f # d  BY <2>5, <3>1, <3>4 DEF OwnPaths
    <3>5. QED  BY <3>2, <3>3, <3>4
  <2>9. QED  BY <1>4, <2>7, <2>8
<1>7. QED  BY <1>5, <1>6

LEMMA TypedInit ==
  ASSUME Init
  PROVE  Typed /\ OwnPaths(row)
<1>1. RemoteTyped
  <2>1. parent \in [Docs -> Bases] /\ \A d \in Docs : parent[d] \in Parents[d]
    BY DEF Init, Bases
  <2>2. title = [d \in Docs |-> CHOOSE t \in Titles[d] : TRUE]  BY DEF Init
  <2>3. \A d \in Docs : title[d] \in Titles[d]  BY <2>2, ConstantsAssumption
  <2>4. title \in [Docs -> Labels]  BY <2>2, <2>3 DEF Labels
  <2>5. edits \in [Docs -> Nat]  BY DEF Init
  <2>6. QED  BY <2>1, <2>3, <2>4, <2>5 DEF RemoteTyped
<1>2. NoRow \in RowRecords /\ NoRow.status = "none"
  BY DEF NoRow, RowRecords, Bases, Labels, Times
<1>3. row = [d \in Docs |-> NoRow] /\ before = row  BY DEF Init
<1> HIDE DEF NoRow
<1>4. TableTyped(row) /\ TableTyped(before) /\ OwnPaths(row)
  BY <1>2, <1>3 DEF TableTyped, OwnPaths
<1>5. FilesTyped  BY DEF Init, FilesTyped
<1>6. RoundTyped
  <2>1. nodes \in Seq(NodeRecords) /\ Len(nodes) = 0  BY DEF Init
  <2>2. \A i \in 1..Len(nodes) : Fits(nodes[i].doc, nodes[i].path)  BY <2>1
  <2>3. QED  BY <2>1, <2>2 DEF Init, RoundTyped
<1>7. QED  BY <1>1, <1>4, <1>5, <1>6 DEF Typed

\* The actions that neither begin a round nor process a node.
Others ==
  \/ \E d \in Docs : Edit(d) \/ Move(d)
  \/ EndIncremental \/ BeginDeletes \/ TrashOne \/ EndFull \/ Crash

LEMMA OthersTyped ==
  ASSUME Typed, OwnPaths(row), Others
  PROVE  Typed' /\ OwnPaths(row)'
<1>1. ASSUME NEW d \in Docs, Edit(d) PROVE Typed' /\ OwnPaths(row)'
  <2>1. PICK t \in Titles[d] : title' = [title EXCEPT ![d] = t]  BY <1>1 DEF Edit
  <2>2. /\ edits' = [edits EXCEPT ![d] = @ + 1] /\ parent' = parent
        /\ UNCHANGED <<row, file, checkpoint, round>>
    BY <1>1 DEF Edit, Change
  <2>3. RemoteTyped'
    <3>1. t \in Labels  BY <2>1 DEF Labels
    <3>2. title' \in [Docs -> Labels] /\ \A e \in Docs : title'[e] \in Titles[e]
      BY <2>1, <3>1 DEF Typed, RemoteTyped
    <3>3. edits' \in [Docs -> Nat]  BY <2>2 DEF Typed, RemoteTyped
    <3>4. QED  BY <2>2, <3>2, <3>3 DEF Typed, RemoteTyped
  <2>4. QED  BY <2>2, <2>3 DEF Typed, RoundTyped, FilesTyped, TableTyped, OwnPaths, round
<1>2. ASSUME NEW d \in Docs, Move(d) PROVE Typed' /\ OwnPaths(row)'
  <2>1. PICK p \in Parents[d] : parent' = [parent EXCEPT ![d] = p]  BY <1>2 DEF Move
  <2>2. UNCHANGED <<title, edits, row, file, checkpoint, round>>  BY <1>2 DEF Move, Change
  <2>3. RemoteTyped'
    <3>1. p \in Bases  BY ConstantsAssumption DEF Bases
    <3>2. parent' \in [Docs -> Bases] /\ \A e \in Docs : parent'[e] \in Parents[e]
      BY <2>1, <3>1 DEF Typed, RemoteTyped
    <3>3. QED  BY <2>2, <3>2 DEF Typed, RemoteTyped
  <2>4. QED  BY <2>2, <2>3 DEF Typed, RoundTyped, FilesTyped, TableTyped, OwnPaths, round
<1>3. CASE EndIncremental \/ EndFull \/ Crash
  <2>1. UNCHANGED <<remote, row, file>> /\ Rest /\ checkpoint' \in BOOLEAN
    BY <1>3 DEF EndIncremental, EndFull, Crash, Typed, RoundTyped
  <2>2. RoundTyped'  BY <2>1 DEF Rest, RoundTyped
  <2>3. before' = row  BY <2>1 DEF Rest
  <2>4. TableTyped(row)' /\ TableTyped(before)' /\ OwnPaths(row)'
    BY <2>1, <2>3 DEF Typed, TableTyped, OwnPaths
  <2>5. RemoteTyped' /\ FilesTyped'  BY <2>1 DEF Typed, RemoteTyped, FilesTyped, remote
  <2>6. QED  BY <2>2, <2>4, <2>5 DEF Typed
<1>4. CASE BeginDeletes
  BY <1>4 DEF BeginDeletes, Typed, RemoteTyped, RoundTyped, FilesTyped, TableTyped, OwnPaths, remote
<1>5. CASE TrashOne
  <2>1. UNCHANGED <<remote, checkpoint>> /\ (Rest \/ UNCHANGED round)
    BY <1>5 DEF TrashOne
  <2>2. FilesTyped' /\ TableTyped(row)' /\ OwnPaths(row)'  BY <1>5, TrashOneTyped
  <2>3. RemoteTyped'  BY <2>1 DEF Typed, RemoteTyped, remote
  <2>4. CASE Rest
    <3>1. RoundTyped'  BY <2>1, <2>4 DEF Rest, RoundTyped, Typed
    <3>2. TableTyped(before)'  BY <2>2, <2>4 DEF Rest, TableTyped
    <3>3. QED  BY <2>2, <2>3, <3>1, <3>2 DEF Typed
  <2>5. CASE UNCHANGED round
    <3>1. RoundTyped' /\ TableTyped(before)'
      BY <2>1, <2>5 DEF Typed, RoundTyped, TableTyped, round
    <3>2. QED  BY <2>2, <2>3, <3>1 DEF Typed
  <2>6. QED  BY <2>1, <2>4, <2>5
<1>6. QED  BY <1>1, <1>2, <1>3, <1>4, <1>5 DEF Others

-----------------------------------------------------------------------------
(***************************************************************************)
(* The inductive invariant.                                                 *)
(***************************************************************************)

Waits(d) == \E i \in 1..Len(nodes) : nodes[i].doc = d

\* What waits is as it was, and has its node.
NodesDue ==
  \A i \in 1..Len(nodes) : /\ row[nodes[i].doc] = before[nodes[i].doc]
                           /\ Due(before, listing, mode, nodes[i])

\* Where an incremental round leaves a document: in its place, or as it was.
Settled(d) ==
  IF d \in listing \cup Turned(before, listing)
  THEN Live(row, d) /\ Good(before, listing, d, row[d].path)
  ELSE row[d] = before[d]

DocsSettled ==
  mode = "incremental" /\ failed = {} => \A d \in Docs : Waits(d) \/ Settled(d)

NodesSeparate ==
  mode = "incremental" /\ Orderly(before) => PathsApart(nodes) /\ PathsFree(nodes)

\* The rows that are to be written with their properties, and where they are.
Asking(r) ==
  /\ r \in Rows \cap listing
  /\ before[r].edited # edits[r] /\ before[r].body # WithProperties(r)
  /\ parent[r] \in Databases
  /\ parent[r] \in listing \/ (mode = "incremental" /\ Live(before, parent[r]))

Written(r) ==
  Live(row, r) /\ row[r].path \in DOMAIN file /\ file[row[r].path] = WithProperties(r)

\* The database of the i-th node was queried, or comes before it.
AskedFor(i) ==
  \/ parent[nodes[i].doc] \in queried
  \/ \E j \in 1..Len(nodes) : j < i /\ nodes[j].doc = parent[nodes[i].doc]

RowsServed ==
  failed = {} =>
    \A r \in Rows : Asking(r) =>
      /\ \A i \in 1..Len(nodes) : nodes[i].doc = r => AskedFor(i)
      /\ Waits(r) \/ Written(r)

WalkInv ==
  pc = "walk" => NodesApart(nodes) /\ NodesDue /\ DocsSettled /\ NodesSeparate /\ RowsServed

Inv == Typed /\ OwnPaths(row) /\ WalkInv

-----------------------------------------------------------------------------
(* A round begins. *)

\* What a node is to be depends on the remote, which rests, and on what the round
\* began with.
LEMMA DueBegins ==
  ASSUME UNCHANGED remote, before' = row, NEW S, listing' = S, NEW n
  PROVE  Due(before, listing, mode, n)' <=> Due(row, S, mode', n)
<1>1. \A d, p : Good(before, listing, d, p)' <=> Good(row, S, d, p)
  BY DEF Good, NewDir, IsDirForm, remote, Rooted
<1>2. Turned(before, listing)' = Turned(row, S)
  BY DEF Turned, remote
<1>3. QED  BY <1>1, <1>2 DEF Due, remote, Node

LEMMA FullBegins ==
  ASSUME Typed, OwnPaths(row), StartFull
  PROVE  Inv'
<1>0. PICK order \in Orders(Shared) : \E s \in Walks(order) :
        nodes' = [i \in DOMAIN s |-> Node(s[i], TreePath(order, s[i]))]
  BY DEF StartFull
<1>1. PICK s \in Walks(order) : nodes' = [i \in DOMAIN s |-> Node(s[i], TreePath(order, s[i]))]
  BY <1>0
<1>2. /\ pc' = "walk" /\ mode' = "full" /\ listing' = Shared /\ queried' = {} /\ failed' = {}
      /\ before' = row /\ UNCHANGED <<remote, row, file, checkpoint>>
  BY DEF StartFull
<1> DEFINE ns == [i \in DOMAIN s |-> Node(s[i], TreePath(order, s[i]))]
<1>3. /\ ns \in Seq(NodeRecords) /\ NodesApart(ns) /\ ParentsFirst(ns)
      /\ \A d \in Shared : \E i \in 1..Len(ns) : ns[i].doc = d
      /\ \A i \in 1..Len(ns) : /\ Fits(ns[i].doc, ns[i].path) /\ ns[i].doc \in Shared
                               /\ ns[i] = Node(ns[i].doc, ns[i].path)
  BY FullNodes DEF Typed
<1>4. nodes' = ns  BY <1>1
<1> HIDE DEF ns
<1>5. Typed'
  <2>1. RoundTyped'  BY <1>2, <1>3, <1>4, SharedIsFinite DEF Typed, RoundTyped
  <2>2. QED  BY <1>2, <2>1 DEF Typed, RemoteTyped, FilesTyped, TableTyped, remote
<1>6. OwnPaths(row)'  BY <1>2 DEF OwnPaths
<1>7. NodesApart(nodes)'  BY <1>3, <1>4 DEF NodesApart
<1>8. NodesDue'
  <2>1. ASSUME NEW i \in 1..Len(nodes')
        PROVE  /\ row'[nodes'[i].doc] = before'[nodes'[i].doc]
               /\ Due(before, listing, mode, nodes[i])'
    <3>1. /\ Fits(ns[i].doc, ns[i].path) /\ ns[i].doc \in Shared
          /\ ns[i] = Node(ns[i].doc, ns[i].path)
      BY <1>3, <1>4, <2>1
    <3>2. Due(row, Shared, "full", ns[i])  BY <3>1 DEF Due
    <3>3. QED  BY <1>2, <1>4, <3>2, DueBegins
  <2>2. QED  BY <2>1 DEF NodesDue
<1>9. DocsSettled' /\ NodesSeparate'  BY <1>2 DEF DocsSettled, NodesSeparate
<1>10. RowsServed'
  <2>1. SUFFICES ASSUME NEW r \in Rows, Asking(r)'
                 PROVE  /\ \A i \in 1..Len(ns) : ns[i].doc = r => AskedFor(i)'
                        /\ \E i \in 1..Len(ns) : ns[i].doc = r
    BY <1>4 DEF RowsServed, Waits
  <2>2. r \in Shared /\ parent[r] \in Shared  BY <1>2, <2>1 DEF Asking, remote
  <2>3. ASSUME NEW i \in 1..Len(ns), ns[i].doc = r
        PROVE  AskedFor(i)'
    <3>1. PICK j \in 1..Len(ns) : j < i /\ ns[j].doc = parent[ns[i].doc]
      BY <1>3, <2>2, <2>3 DEF ParentsFirst
    <3>2. QED  BY <1>2, <1>4, <3>1 DEF AskedFor, remote
  <2>4. QED  BY <1>3, <2>2, <2>3
<1>11. QED  BY <1>5, <1>6, <1>7, <1>8, <1>9, <1>10 DEF Inv, WalkInv

LEMMA IncrementalBegins ==
  ASSUME Typed, OwnPaths(row), StartIncremental
  PROVE  Inv'
<1>1. PICK S \in (SUBSET Shared) \ {{}} :
        /\ \E s \in Orders(S), c \in Orders(Converts(S)) :
             LET placed == Placed(s)
             IN  nodes' \in ByDepth([i \in DOMAIN s |-> Node(s[i], placed[i].path)]
                                      \o [i \in DOMAIN c |-> Conversion(c[i])])
        /\ listing' = S
        /\ \E ok \in SUBSET (DirtyDatabases(S) \cap Shared) :
             /\ queried' = ok /\ failed' = DirtyDatabases(S) \ ok
             /\ faults' = faults + Cardinality(failed' \cap Shared)
             /\ faults' <= MaxFaults
  BY DEF StartIncremental
<1>2. /\ pc' = "walk" /\ mode' = "incremental" /\ before' = row
      /\ UNCHANGED <<remote, row, file, checkpoint>>
  BY DEF StartIncremental
<1>3. S \in SUBSET Docs  BY SharedIsFinite
<1>4. PICK s \in Lists(S), c \in Lists(Turned(row, S)) : nodes' \in ByDepth(Queue(s, c))
  <2>1. Converts(S) = Turned(row, S)  BY DEF Converts, Turned
  <2>2. QED  BY <1>1, <2>1 DEF Orders, Queue
<1>5. PICK ok \in SUBSET (DirtyDatabases(S) \cap Shared) :
        queried' = ok /\ failed' = DirtyDatabases(S) \ ok
  BY <1>1
<1>6. listing' = S  BY <1>1
<1> DEFINE q == Queue(s, c)
           n == Len(q)
<1>7. /\ RemoteTyped /\ TableTyped(row)  BY DEF Typed
<1>8. q \in Seq(NodeRecords)  BY <1>3, <1>7, QueueFacts
<1>9. \A k \in 1..n : Due(row, S, "incremental", q[k])  BY <1>3, <1>7, QueueNodes
<1>10. NodesApart(q) /\ \A d \in S \cup Turned(row, S) : \E k \in 1..n : q[k].doc = d
  BY <1>3, <1>7, QueueIsComplete
<1>11. Orderly(row) => PathsApart(q) /\ PathsFree(q)  BY <1>3, <1>7, QueueIsSeparate
<1>12. nodes' \in Seq(NodeRecords) /\ Len(nodes') = n  BY <1>4, <1>8, SortedIsRearranged
<1>13. PICK pos \in [1..n -> 1..n] :
        /\ \A i \in 1..n : nodes'[i] = q[pos[i]]
        /\ \A i, j \in 1..n : pos[i] = pos[j] => i = j
        /\ \A k \in 1..n : \E i \in 1..n : pos[i] = k
  <2> HIDE DEF q
  <2>1. nodes' \in ByDepth(q)  BY <1>4 DEF q
  <2>2. QED  BY <1>8, <2>1, SortedIsRearranged
<1> HIDE DEF q, n
<1>14. \A i \in 1..n : nodes'[i] = q[pos[i]] /\ pos[i] \in 1..n /\ Due(row, S, "incremental", nodes'[i])
  BY <1>9, <1>13
<1>15. Typed'
  <2>1. DirtyDatabases(S) \in SUBSET Databases  BY DEF DirtyDatabases
  <2>2. queried' \in SUBSET Databases /\ failed' \in SUBSET Docs
    BY <1>5, <2>1, Kinds
  <2>3. \A i \in 1..n : Fits(nodes'[i].doc, nodes'[i].path)  BY <1>14 DEF Due
  <2>4. RoundTyped'  BY <1>2, <1>3, <1>6, <1>12, <2>2, <2>3 DEF Typed, RoundTyped
  <2>5. QED  BY <1>2, <2>4 DEF Typed, RemoteTyped, FilesTyped, TableTyped, remote
<1>16. OwnPaths(row)'  BY <1>2 DEF OwnPaths
<1>17. NodesApart(nodes)'
  <2>1. ASSUME NEW i \in 1..n, NEW j \in 1..n, nodes'[i].doc = nodes'[j].doc PROVE i = j
    <3>1. q[pos[i]].doc = q[pos[j]].doc  BY <1>14, <2>1
    <3>2. pos[i] = pos[j]  BY <1>10, <1>14, <3>1 DEF NodesApart, n
    <3>3. QED  BY <1>13, <3>2
  <2>2. QED  BY <1>12, <2>1 DEF NodesApart
<1>18. NodesDue'
  <2>1. ASSUME NEW i \in 1..Len(nodes')
        PROVE  /\ row'[nodes'[i].doc] = before'[nodes'[i].doc]
               /\ Due(before, listing, mode, nodes[i])'
    <3>1. Due(row, S, "incremental", nodes'[i])  BY <1>12, <1>14, <2>1
    <3>2. QED  BY <1>2, <1>6, <3>1, DueBegins
  <2>2. QED  BY <2>1 DEF NodesDue
<1>19. \A d \in S \cup Turned(row, S) : Waits(d)'
  <2>1. ASSUME NEW d \in S \cup Turned(row, S) PROVE \E i \in 1..n : nodes'[i].doc = d
    <3>1. PICK k \in 1..n : q[k].doc = d  BY <1>10
    <3>2. PICK i \in 1..n : pos[i] = k  BY <1>13
    <3>3. QED  BY <1>14, <3>1, <3>2
  <2>2. QED  BY <1>12, <2>1 DEF Waits
<1>20. DocsSettled'
  <2>1. (listing \cup Turned(before, listing))' = S \cup Turned(row, S)
    BY <1>2, <1>6 DEF Turned, remote
  <2>2. ASSUME NEW d \in Docs PROVE Waits(d)' \/ Settled(d)'
    <3>1. CASE d \in S \cup Turned(row, S)  BY <1>19, <3>1
    <3>2. CASE d \notin S \cup Turned(row, S)  BY <1>2, <2>1, <3>2 DEF Settled
    <3>3. QED  BY <3>1, <3>2
  <2>3. QED  BY <2>2 DEF DocsSettled
<1>21. NodesSeparate'
  <2>1. SUFFICES ASSUME Orderly(before)' PROVE PathsApart(nodes)' /\ PathsFree(nodes)'
    BY DEF NodesSeparate
  <2>2. Orderly(row)  BY <1>2, <2>1 DEF Orderly
  <2>3. PathsApart(q) /\ PathsFree(q)  BY <1>11, <2>2
  <2>4. ASSUME NEW i \in 1..n, NEW j \in 1..n, nodes'[i].path = nodes'[j].path PROVE i = j
    <3>1. q[pos[i]].path = q[pos[j]].path  BY <1>14, <2>4
    <3>2. pos[i] = pos[j]  BY <1>14, <2>3, <3>1 DEF PathsApart, n
    <3>3. QED  BY <1>13, <3>2
  <2>5. ASSUME NEW i \in 1..n, NEW e \in Docs \ {nodes'[i].doc}, Live(row, e)
        PROVE  row[e].path # nodes'[i].path
    BY <1>14, <2>3, <2>5 DEF PathsFree, n
  <2>6. PathsApart(nodes)'  BY <1>12, <2>4 DEF PathsApart
  <2>7. PathsFree(nodes)'  BY <1>2, <1>12, <2>5 DEF PathsFree, Live
  <2>8. QED  BY <2>6, <2>7
<1>22. RowsServed'
  <2>1. SUFFICES ASSUME failed' = {}, NEW r \in Rows, Asking(r)'
                 PROVE  /\ \A i \in 1..Len(nodes') : nodes'[i].doc = r => AskedFor(i)'
                        /\ Waits(r)'
    BY DEF RowsServed
  <2>2. r \in S /\ parent[r] \in Databases /\ (parent[r] \in S \/ Live(row, parent[r]))
    BY <1>2, <1>6, <2>1 DEF Asking, remote
  <2>3. parent[r] \in DirtyDatabases(S)
    <3>1. r \in S \cap Rows  BY <2>2
    <3>2. QED  BY <2>2, <3>1 DEF DirtyDatabases
  <2>4. parent[r] \in queried'  BY <1>5, <2>1, <2>3
  <2>5. \A i \in 1..Len(nodes') : nodes'[i].doc = r => AskedFor(i)'
    BY <1>2, <2>4 DEF AskedFor, remote
  <2>6. QED  BY <1>19, <2>2, <2>5
<1>23. QED  BY <1>15, <1>16, <1>17, <1>18, <1>20, <1>21, <1>22 DEF Inv, WalkInv

-----------------------------------------------------------------------------
(* A node is processed. *)

LEMMA DueStays ==
  ASSUME UNCHANGED <<remote, before, listing, mode>>, NEW n
  PROVE  Due(before, listing, mode, n)' <=> Due(before, listing, mode, n)
<1>1. \A d, p : Good(before, listing, d, p)' <=> Good(before, listing, d, p)
  BY DEF Good, NewDir, IsDirForm, remote, Rooted
<1>2. Turned(before, listing)' = Turned(before, listing)
  BY DEF Turned, remote
<1>3. QED  BY <1>1, <1>2 DEF Due, remote, Node

LEMMA SettledStays ==
  ASSUME UNCHANGED <<remote, before, listing>>, NEW d \in Docs, row'[d] = row[d]
  PROVE  Settled(d)' <=> Settled(d)
<1>1. \A p : Good(before, listing, d, p)' <=> Good(before, listing, d, p)
  BY DEF Good, NewDir, IsDirForm, remote, Rooted
<1>2. Turned(before, listing)' = Turned(before, listing)
  BY DEF Turned, remote
<1>3. Live(row, d)' <=> Live(row, d)  BY DEF Live
<1>4. Good(before, listing, d, row[d].path)' <=> Good(before, listing, d, row[d].path)
  BY <1>1
<1>5. QED  BY <1>2, <1>3, <1>4 DEF Settled

LEMMA AskingStays ==
  ASSUME UNCHANGED <<remote, before, listing, mode>>, NEW r
  PROVE  Asking(r)' <=> Asking(r)
BY DEF Asking, WithProperties, remote, Live

\* The files after a node was processed.
LEMMA FilesAfter ==
  ASSUME Processing
  PROVE  \/ file' = file
         \/ N.doc \in Pages /\ file' = Relocated
         \/ /\ N.doc \in Pages
            /\ file' = [x \in DOMAIN Relocated \cup {N.path} |->
                          IF x = N.path THEN Fetched ELSE Relocated[x]]
BY DEF Processing, ProcessFolder, SkipPage, FetchPage, FailPage

LEMMA RelocatedKeeps ==
  ASSUME NEW x \in DOMAIN file, x # N.path, Moved => x # row[N.doc].path
  PROVE  x \in DOMAIN Relocated /\ Relocated[x] = file[x]
BY DEF Relocated

LEMMA ProcessingKeepsOthers ==
  ASSUME Processing, NEW x \in DOMAIN file, x # N.path, Moved => x # row[N.doc].path
  PROVE  x \in DOMAIN file' /\ file'[x] = file[x]
BY FilesAfter, RelocatedKeeps

\* The head of the list is processed; what follows it moves up.
LEMMA Onwards ==
  ASSUME Typed, NodesApart(nodes), Processing
  PROVE  /\ N.doc \in Docs /\ N = nodes[1] /\ 1 \in 1..Len(nodes)
         /\ \A i \in 1..Len(nodes') : /\ i + 1 \in 1..Len(nodes) /\ nodes'[i] = nodes[i + 1]
                                      /\ nodes'[i].doc # N.doc
         /\ \A i \in 1..Len(nodes) : i # 1 => /\ i - 1 \in 1..Len(nodes')
                                              /\ nodes'[i - 1] = nodes[i]
         /\ \A d \in Docs : Waits(d)' <=> Waits(d) /\ d # N.doc
<1>1. nodes # <<>> /\ nodes' = Tail(nodes)  BY ProcessingFacts
<1>2. /\ N.doc \in Docs /\ N = nodes[1] /\ 1 \in 1..Len(nodes) /\ Len(nodes) \in Nat
      /\ Len(nodes') = Len(nodes) - 1
      /\ \A i \in 1..Len(nodes') : i + 1 \in 1..Len(nodes) /\ nodes'[i] = nodes[i + 1]
      /\ \A i \in 1..Len(nodes) : i # 1 => i - 1 \in 1..Len(nodes') /\ nodes'[i - 1] = nodes[i]
  BY <1>1, HeadFacts DEF Typed
<1>3. ASSUME NEW i \in 1..Len(nodes') PROVE nodes'[i].doc # N.doc
  <2>1. i + 1 \in 1..Len(nodes) /\ nodes'[i] = nodes[i + 1] /\ i + 1 # 1  BY <1>2
  <2>2. QED  BY <1>2, <2>1 DEF NodesApart
<1>4. ASSUME NEW d \in Docs PROVE Waits(d)' <=> Waits(d) /\ d # N.doc
  <2>1. ASSUME Waits(d)' PROVE Waits(d) /\ d # N.doc
    <3>1. PICK i \in 1..Len(nodes') : nodes'[i].doc = d  BY <2>1 DEF Waits
    <3>2. QED  BY <1>2, <1>3, <3>1 DEF Waits
  <2>2. ASSUME Waits(d), d # N.doc PROVE Waits(d)'
    <3>1. PICK i \in 1..Len(nodes) : nodes[i].doc = d  BY <2>2 DEF Waits
    <3>2. i # 1  BY <1>2, <2>2, <3>1
    <3>3. i - 1 \in 1..Len(nodes') /\ nodes'[i - 1].doc = d  BY <1>2, <3>1, <3>2
    <3>4. QED  BY <3>3 DEF Waits
  <2>3. QED  BY <2>1, <2>2
<1>5. QED  BY <1>2, <1>3, <1>4

\* A row whose database was queried is written with its properties.
LEMMA RowIsWritten ==
  ASSUME Typed, NodesDue, Processing, failed' = {},
         NEW r \in Rows, N.doc = r, Asking(r), AskedFor(1)
  PROVE  Written(r)'
<1>1. nodes # <<>>  BY ProcessingFacts
<1>2. /\ N = nodes[1] /\ 1 \in 1..Len(nodes) /\ N.doc \in Docs
  BY <1>1, HeadFacts DEF Typed
<1>3. /\ row[r] = before[r] /\ N = Node(N.doc, N.path)
  BY <1>2 DEF NodesDue, Due, Asking
<1>4. N.edited = edits[r]  BY <1>3 DEF Node
<1>5. ~Unchanged  BY <1>3, <1>4 DEF Asking, Unchanged
<1>6. parent[r] \in queried
  <2>1. \A j \in 1..Len(nodes) : ~(j < 1)
    <3>1. Len(nodes) \in Nat  BY <1>1, HeadFacts DEF Typed
    <3>2. QED  BY <3>1
  <2>2. QED  BY <1>2, <2>1 DEF AskedFor
<1>7. Fetched = WithProperties(r)
  <2>1. (N.doc \in Rows /\ parent[N.doc] \in queried) = TRUE  BY <1>6
  <2>2. QED  BY <2>1 DEF Fetched, WithProperties
<1>8. N.doc \in Pages /\ N.doc \notin Databases  BY Kinds
<1>9. FetchPage
  <2>1. ~ProcessFolder  BY <1>8 DEF ProcessFolder
  <2>2. ~SkipPage  BY <1>5 DEF SkipPage
  <2>3. ~FailPage
    <3>1. FailPage => N.doc \in failed'  BY DEF FailPage
    <3>2. QED  BY <3>1
  <2>4. QED  BY <2>1, <2>2, <2>3 DEF Processing
<1>10. row[N.doc].body # Fetched  BY <1>3, <1>7 DEF Asking
<1>11. file' = [x \in DOMAIN Relocated \cup {N.path} |->
                  IF x = N.path THEN Fetched ELSE Relocated[x]]
  BY <1>9, <1>10 DEF FetchPage
<1>12. N.path \in DOMAIN file' /\ file'[N.path] = WithProperties(r)
  BY <1>7, <1>11
<1>13. Live(row', r) /\ row'[r].path = N.path  BY ProcessingFacts
<1>14. WithProperties(r)' = WithProperties(r)
  BY ProcessingFacts DEF WithProperties, remote
<1>15. QED  BY <1>12, <1>13, <1>14 DEF Written, Live

\* What is written stays written while other nodes are processed.
LEMMA RowStaysWritten ==
  ASSUME Typed, OwnPaths(row), Processing, failed' = {},
         NEW r \in Docs, N.doc # r, Written(r)
  PROVE  Written(r)'
<1>1. /\ row'[r] = row[r] /\ OwnPaths(row') /\ N.doc \in Docs
  <2>1. N.doc \in Docs  BY ProcessingFacts, HeadFacts DEF Typed
  <2>2. OwnPaths(row)'  BY ProcessingTyped
  <2>3. row'[r] = row[r]  BY ProcessingTyped
  <2>4. QED  BY <2>1, <2>2, <2>3
<1>2. Live(row', N.doc) /\ row'[N.doc].path = N.path  BY ProcessingFacts
<1>3. Live(row, r) /\ row[r].path \in DOMAIN file /\ file[row[r].path] = WithProperties(r)
  BY DEF Written
<1>4. row[r].path # N.path  BY <1>1, <1>2, <1>3 DEF OwnPaths, Live
<1>5. Moved => row[r].path # row[N.doc].path
  BY <1>1, <1>3 DEF Moved, OwnPaths, Live
<1>6. row[r].path \in DOMAIN file' /\ file'[row[r].path] = file[row[r].path]
  BY <1>3, <1>4, <1>5, ProcessingKeepsOthers
<1>7. WithProperties(r)' = WithProperties(r)
  BY ProcessingFacts DEF WithProperties, remote
<1>8. QED  BY <1>1, <1>3, <1>6, <1>7 DEF Written, Live

LEMMA ProcessingServes ==
  ASSUME Typed, OwnPaths(row), NodesApart(nodes), NodesDue, RowsServed, Processing
  PROVE  RowsServed'
<1>1. SUFFICES ASSUME failed' = {}, NEW r \in Rows, Asking(r)'
               PROVE  /\ \A i \in 1..Len(nodes') : nodes'[i].doc = r => AskedFor(i)'
                      /\ Waits(r)' \/ Written(r)'
  BY DEF RowsServed
<1>2. /\ UNCHANGED <<remote, before, listing, mode>>
      /\ failed = {} /\ queried \subseteq queried'
  BY <1>1, ProcessingFacts
<1>3. Asking(r) /\ r \in Docs  BY <1>1, <1>2, AskingStays, Kinds
<1>4. /\ \A i \in 1..Len(nodes) : nodes[i].doc = r => AskedFor(i)
      /\ Waits(r) \/ Written(r)
  BY <1>2, <1>3 DEF RowsServed
<1>5. ASSUME NEW i \in 1..Len(nodes'), nodes'[i].doc = r
      PROVE  AskedFor(i)'
  <2>1. i + 1 \in 1..Len(nodes) /\ nodes'[i] = nodes[i + 1]  BY Onwards
  <2>2. AskedFor(i + 1)  BY <1>4, <1>5, <2>1
  <2>3. CASE parent[r] \in queried
    BY <1>2, <1>5, <2>3 DEF AskedFor, remote
  <2>4. CASE parent[r] \notin queried
    <3>1. PICK j \in 1..Len(nodes) : j < i + 1 /\ nodes[j].doc = parent[r]
      BY <1>5, <2>1, <2>2, <2>4 DEF AskedFor
    <3>2. CASE j = 1
      <4>1. N.doc = parent[r]  BY <3>1, <3>2, Onwards
      <4>2. N.doc \in Databases  BY <1>3, <4>1 DEF Asking
      <4>3. ProcessFolder
        BY <4>2, Kinds DEF Processing, SkipPage, FetchPage, FailPage
      <4>4. N.doc \in queried'  BY <1>1, <4>3 DEF ProcessFolder
      <4>5. QED  BY <1>2, <1>5, <4>1, <4>4 DEF AskedFor, remote
    <3>3. CASE j # 1
      <4>1. j - 1 \in 1..Len(nodes') /\ nodes'[j - 1] = nodes[j]  BY <3>3, Onwards
      <4>2. j - 1 < i
        <5>1. Len(nodes) \in Nat  BY ProcessingFacts, HeadFacts DEF Typed
        <5>2. QED  BY <3>1, <5>1
      <4>3. QED  BY <1>2, <1>5, <3>1, <4>1, <4>2 DEF AskedFor, remote
    <3>4. QED  BY <3>2, <3>3
  <2>5. QED  BY <2>3, <2>4
<1>6. Waits(r)' \/ Written(r)'
  <2>1. CASE r = N.doc
    <3>1. AskedFor(1)  BY <1>4, <2>1, Onwards
    <3>2. QED  BY <1>1, <1>3, <2>1, <3>1, RowIsWritten
  <2>2. CASE r # N.doc
    <3>1. Waits(r) => Waits(r)'  BY <1>3, <2>2, Onwards
    <3>2. Written(r) => Written(r)'  BY <1>1, <1>3, <2>2, RowStaysWritten
    <3>3. QED  BY <1>4, <3>1, <3>2
  <2>3. QED  BY <2>1, <2>2
<1>7. QED  BY <1>5, <1>6

LEMMA ProcessingKeeps ==
  ASSUME Inv, Processing
  PROVE  Inv'
<1>1. /\ pc = "walk" /\ UNCHANGED <<remote, pc, mode, listing, before>>
      /\ failed \subseteq failed' /\ (row' = row \/ Saves)
      /\ failed' = {} => Live(row', N.doc) /\ row'[N.doc].path = N.path
  BY ProcessingFacts DEF Inv
<1>2. /\ Typed /\ OwnPaths(row) /\ NodesApart(nodes) /\ NodesDue /\ DocsSettled
      /\ NodesSeparate /\ RowsServed
  BY <1>1 DEF Inv, WalkInv
<1>3. Typed' /\ OwnPaths(row)' /\ \A d \in Docs \ {N.doc} : row'[d] = row[d]
  BY <1>2, ProcessingTyped
<1>4. /\ N.doc \in Docs /\ N = nodes[1] /\ 1 \in 1..Len(nodes)
      /\ \A i \in 1..Len(nodes') : /\ i + 1 \in 1..Len(nodes) /\ nodes'[i] = nodes[i + 1]
                                   /\ nodes'[i].doc # N.doc
  BY <1>2, Onwards
<1>5. NodesApart(nodes)'
  <2>1. SUFFICES ASSUME NEW i \in 1..Len(nodes'), NEW j \in 1..Len(nodes'),
                        nodes'[i].doc = nodes'[j].doc
                 PROVE  i = j
    BY DEF NodesApart
  <2>2. i + 1 = j + 1  BY <1>2, <1>4, <2>1 DEF NodesApart
  <2>3. Len(nodes') \in Nat  BY <1>3 DEF Typed, RoundTyped
  <2>4. QED  BY <2>2, <2>3
<1>6. NodesDue'
  <2>1. ASSUME NEW i \in 1..Len(nodes')
        PROVE  /\ row'[nodes'[i].doc] = before'[nodes'[i].doc]
               /\ Due(before, listing, mode, nodes[i])'
    <3>1. i + 1 \in 1..Len(nodes) /\ nodes'[i] = nodes[i + 1] /\ nodes'[i].doc # N.doc
      BY <1>4
    <3>2. row[nodes'[i].doc] = before[nodes'[i].doc] /\ Due(before, listing, mode, nodes'[i])
      BY <1>2, <3>1 DEF NodesDue
    <3>3. nodes'[i].doc \in Docs
      <4>1. nodes[i + 1] \in NodeRecords  BY <1>2, <3>1 DEF Typed, RoundTyped
      <4>2. QED  BY <3>1, <4>1 DEF NodeRecords
    <3>4. row'[nodes'[i].doc] = row[nodes'[i].doc]  BY <1>3, <3>1, <3>3
    <3>5. QED  BY <1>1, <3>2, <3>4, DueStays
  <2>2. QED  BY <2>1 DEF NodesDue
<1>7. DocsSettled'
  <2>1. SUFFICES ASSUME mode = "incremental", failed' = {}, NEW d \in Docs
                 PROVE  Waits(d)' \/ Settled(d)'
    BY <1>1 DEF DocsSettled
  <2>2. failed = {}  BY <1>1, <2>1
  <2>3. CASE d = N.doc
    <3>1. Due(before, listing, mode, N)  BY <1>2, <1>4 DEF NodesDue
    <3>2. Live(row', d) /\ row'[d].path = N.path  BY <1>1, <2>1, <2>3
    <3>3. d \in listing \cup Turned(before, listing) /\ Good(before, listing, d, N.path)
      BY <2>1, <2>3, <3>1 DEF Due
    <3>4. (listing \cup Turned(before, listing))' = listing \cup Turned(before, listing)
      BY <1>1 DEF Turned, remote
    <3>5. Good(before, listing, d, row[d].path)'
      <4>1. \A p : Good(before, listing, d, p)' <=> Good(before, listing, d, p)
        BY <1>1 DEF Good, NewDir, IsDirForm, remote, Rooted
      <4>2. QED  BY <3>2, <3>3, <4>1
    <3>6. QED  BY <3>2, <3>3, <3>4, <3>5 DEF Settled, Live
  <2>4. CASE d # N.doc
    <3>1. Waits(d) \/ Settled(d)  BY <1>2, <2>1, <2>2 DEF DocsSettled
    <3>2. Waits(d) => Waits(d)'  BY <1>2, <2>4, Onwards
    <3>3. Settled(d) => Settled(d)'  BY <1>1, <1>3, <2>4, SettledStays
    <3>4. QED  BY <3>1, <3>2, <3>3
  <2>5. QED  BY <2>3, <2>4
<1>8. NodesSeparate'
  <2>1. SUFFICES ASSUME mode = "incremental", Orderly(before)
                 PROVE  PathsApart(nodes)' /\ PathsFree(nodes)'
    BY <1>1 DEF NodesSeparate, Orderly, Live
  <2>2. PathsApart(nodes) /\ PathsFree(nodes)  BY <1>2, <2>1 DEF NodesSeparate
  <2>3. PathsApart(nodes)'
    <3>1. SUFFICES ASSUME NEW i \in 1..Len(nodes'), NEW j \in 1..Len(nodes'),
                          nodes'[i].path = nodes'[j].path
                   PROVE  i = j
      BY DEF PathsApart
    <3>2. i + 1 = j + 1  BY <1>4, <2>2, <3>1 DEF PathsApart
    <3>3. Len(nodes') \in Nat  BY <1>3 DEF Typed, RoundTyped
    <3>4. QED  BY <3>2, <3>3
  <2>4. PathsFree(nodes)'
    <3>1. SUFFICES ASSUME NEW i \in 1..Len(nodes'), NEW e \in Docs \ {nodes'[i].doc},
                          Live(row', e)
                   PROVE  row'[e].path # nodes'[i].path
      BY DEF PathsFree, Live
    <3>2. i + 1 \in 1..Len(nodes) /\ nodes'[i] = nodes[i + 1]  BY <1>4
    <3>3. CASE row'[e] = row[e]
      BY <2>2, <3>1, <3>2, <3>3 DEF PathsFree, Live
    <3>4. CASE row'[e] # row[e]
      <4>1. e = N.doc /\ Saves  BY <1>1, <1>3, <3>1, <3>4
      <4>2. row'[e].path = N.path
        <5>1. nodes # <<>>  BY <1>2, ProcessingFacts
        <5>2. QED  BY <1>2, <4>1, <5>1, SavedFacts DEF Saves
      <4>3. i + 1 # 1
        <5>1. Len(nodes') \in Nat  BY <1>3 DEF Typed, RoundTyped
        <5>2. QED  BY <5>1
      <4>4. nodes[1].path # nodes[i + 1].path  BY <1>4, <2>2, <3>2, <4>3 DEF PathsApart
      <4>5. QED  BY <1>4, <3>2, <4>2, <4>4
    <3>5. QED  BY <3>3, <3>4
  <2>5. QED  BY <2>3, <2>4
<1>9. RowsServed'  BY <1>2, ProcessingServes
<1>10. QED  BY <1>3, <1>5, <1>6, <1>7, <1>8, <1>9 DEF Inv, WalkInv

-----------------------------------------------------------------------------
(***************************************************************************)
(* The theorems.                                                            *)
(***************************************************************************)

LEMMA NextCases ==
  ASSUME Next
  PROVE  StartFull \/ StartIncremental \/ Processing \/ Others
BY DEF Next, Processing, Others

LEMMA OthersLeaveTheWalk ==
  ASSUME Others
  PROVE  pc' # "walk"
<1>1. ASSUME NEW d \in Docs, Edit(d) \/ Move(d) PROVE pc' # "walk"
  BY <1>1 DEF Edit, Move, Change, round
<1>2. CASE EndIncremental \/ EndFull \/ Crash
  BY <1>2 DEF EndIncremental, EndFull, Crash, Rest
<1>3. CASE BeginDeletes  BY <1>3 DEF BeginDeletes
<1>4. CASE TrashOne  BY <1>4 DEF TrashOne, Rest, round
<1>5. QED  BY <1>1, <1>2, <1>3, <1>4 DEF Others

\* In a walk, the others change neither the table nor a file.
LEMMA OthersRest ==
  ASSUME Others, pc = "walk"
  PROVE  UNCHANGED <<row, file>>
BY DEF Others, Edit, Move, Change, EndIncremental, BeginDeletes, TrashOne, EndFull, Crash, WalkDone

LEMMA InvInit ==
  ASSUME Init
  PROVE  Inv
BY TypedInit DEF Init, Inv, WalkInv

LEMMA InvStep ==
  ASSUME Inv, [Next]_vars
  PROVE  Inv'
<1>1. Typed /\ OwnPaths(row)  BY DEF Inv
<1>2. CASE StartFull  BY <1>1, <1>2, FullBegins
<1>3. CASE StartIncremental  BY <1>1, <1>3, IncrementalBegins
<1>4. CASE Processing  BY <1>4, ProcessingKeeps
<1>5. CASE Others  BY <1>1, <1>5, OthersTyped, OthersLeaveTheWalk DEF Inv, WalkInv
<1>6. CASE UNCHANGED vars
  <2>1. UNCHANGED <<remote, before, listing, mode, row, file, pc, nodes, queried, failed, checkpoint>>
    BY <1>6 DEF vars, round, remote
  <2>2. Typed' /\ OwnPaths(row)'
    BY <1>1, <2>1 DEF Typed, RemoteTyped, RoundTyped, FilesTyped, TableTyped, OwnPaths, remote
  <2>3. SUFFICES ASSUME pc = "walk" PROVE WalkInv'
    BY <2>1, <2>2 DEF Inv, WalkInv
  <2>4. NodesApart(nodes) /\ NodesDue /\ DocsSettled /\ NodesSeparate /\ RowsServed
    BY <2>3 DEF Inv, WalkInv
  <2>5. NodesApart(nodes)'  BY <2>1, <2>4 DEF NodesApart
  <2>6. NodesDue'  BY <2>1, <2>4, DueStays DEF NodesDue
  <2>7. DocsSettled'
    <3>1. \A d \in Docs : (Waits(d)' <=> Waits(d)) /\ (Settled(d)' <=> Settled(d))
      BY <2>1, SettledStays DEF Waits
    <3>2. QED  BY <2>1, <2>4, <3>1 DEF DocsSettled
  <2>8. NodesSeparate'
    BY <2>1, <2>4 DEF NodesSeparate, Orderly, PathsApart, PathsFree, Live
  <2>9. RowsServed'
    <3>1. \A r \in Rows : (Asking(r)' <=> Asking(r)) /\ (Waits(r)' <=> Waits(r))
      BY <2>1, AskingStays DEF Waits
    <3>2. \A r \in Rows : Written(r)' <=> Written(r)
      BY <2>1 DEF Written, WithProperties, Live, remote
    <3>3. \A i \in 1..Len(nodes) : AskedFor(i)' <=> AskedFor(i)
      BY <2>1 DEF AskedFor, remote
    <3>4. QED  BY <2>1, <2>4, <3>1, <3>2, <3>3 DEF RowsServed
  <2>10. QED  BY <2>5, <2>6, <2>7, <2>8, <2>9 DEF WalkInv
<1>7. QED  BY <1>2, <1>3, <1>4, <1>5, <1>6, NextCases

(* What every reachable state is like: rows have paths of their own, a node of a
   walk is what its placement, full or incremental, promised of its document, and
   in an incremental round that began with orderly rows the nodes' paths do not
   meet those of rows or of each other. *)
THEOREM Invariance == Spec => []Inv
<1>1. Init => Inv  BY InvInit
<1>2. Inv /\ [Next]_vars => Inv'  BY InvStep
<1>3. QED  BY <1>1, <1>2, PTL DEF Spec

(* The model keeps its types: every row that exists has a path of its document's
   kind, and no folder has a body file. *)
THEOREM TypeCorrect == Spec => []TypeOK
<1>1. ASSUME Inv PROVE TypeOK
  <2>1. /\ RemoteTyped /\ RoundTyped /\ FilesTyped /\ TableTyped(row)
    BY <1>1 DEF Inv, Typed
  <2>2. \A d \in Docs : /\ row[d].status \in {"none", "active", "trashed"}
                        /\ row[d].status # "none" =>
                             row[d].path.form \in IF d \in Databases THEN {"folder"}
                                                  ELSE {"leaf", "readme"}
    BY <2>1, RecordFacts DEF Fits
  <2>3. \A x \in DOMAIN file : file[x].doc \in Pages /\ x.form # "folder"
    BY <2>1 DEF FilesTyped, Bodies
  <2>4. QED  BY <2>1, <2>2, <2>3 DEF TypeOK, RemoteTyped, RoundTyped
<1>2. QED  BY <1>1, Invariance, PTL

(* The body of a live document survives an incremental round's moves and writes,
   if the live documents had places of their own when the round began. *)
LEMMA StepKeepsBodies ==
  ASSUME Inv, Next, InIncremental, Orderly(before)
  PROVE  BodiesStay
<1>1. SUFFICES ASSUME NEW x \in DOMAIN file,
                      Live(row, file[x].doc), row[file[x].doc].path = x
               PROVE  \E y \in DOMAIN file' : file'[y].doc = file[x].doc
  BY DEF BodiesStay
<1> DEFINE d == file[x].doc
<1>2. pc = "walk" /\ mode = "incremental"  BY DEF InIncremental
<1>3. CASE Others
  <2>1. file' = file  BY <1>2, <1>3, OthersRest
  <2>2. QED  BY <2>1
<1>4. CASE Processing
  <2>1. /\ Typed /\ OwnPaths(row) /\ NodesApart(nodes)
        /\ PathsFree(nodes)
    BY <1>2 DEF Inv, WalkInv, NodesSeparate
  <2>2. N.doc \in Docs /\ N = nodes[1] /\ 1 \in 1..Len(nodes)  BY <1>4, <2>1, Onwards
  <2>3. CASE x # N.path /\ (Moved => x # row[N.doc].path)
    BY <1>4, <2>3, ProcessingKeepsOthers
  \* The file that is moved is the document's own.
  <2>4. CASE x # N.path /\ Moved /\ x = row[N.doc].path
    <3>1. d = N.doc  BY <1>1, <2>1, <2>2, <2>4 DEF OwnPaths, Moved, Live
    <3>2. N.path \in DOMAIN Relocated /\ Relocated[N.path] = file[x]
      BY <1>1, <2>4 DEF Relocated
    <3>3. Fetched.doc = d  BY <3>1 DEF Fetched
    <3>4. CASE file' = file  BY <3>4
    <3>5. CASE file' = Relocated  BY <3>2, <3>5
    <3>6. CASE file' = [y \in DOMAIN Relocated \cup {N.path} |->
                          IF y = N.path THEN Fetched ELSE Relocated[y]]
      <4>1. N.path \in DOMAIN file' /\ file'[N.path] = Fetched  BY <3>6
      <4>2. QED  BY <3>3, <4>1
    <3>7. QED  BY <1>4, <3>4, <3>5, <3>6, FilesAfter
  \* The file that lies where the node goes is the document's own.
  <2>5. CASE x = N.path
    <3>1. d = N.doc
      <4>1. d \in Docs  BY <1>1 DEF Live
      <4>2. QED  BY <1>1, <2>1, <2>2, <2>5, <4>1 DEF PathsFree
    <3>2. ~Moved  BY <1>1, <2>5, <3>1 DEF Moved
    <3>3. Relocated = file  BY <3>2 DEF Relocated
    <3>4. Fetched.doc = d  BY <3>1 DEF Fetched
    <3>5. CASE file' = file  BY <3>5
    <3>6. CASE file' = Relocated  BY <3>3, <3>6
    <3>7. CASE file' = [y \in DOMAIN Relocated \cup {N.path} |->
                          IF y = N.path THEN Fetched ELSE Relocated[y]]
      <4>1. N.path \in DOMAIN file' /\ file'[N.path] = Fetched  BY <3>7
      <4>2. QED  BY <3>4, <4>1
    <3>8. QED  BY <1>4, <3>5, <3>6, <3>7, FilesAfter
  <2>6. QED  BY <2>3, <2>4, <2>5
<1>5. CASE StartFull \/ StartIncremental
  BY <1>2, <1>5 DEF StartFull, StartIncremental
<1>6. QED  BY <1>3, <1>4, <1>5, NextCases

(* In an incremental round that began with places of their own for all live
   documents, processNode moves and writes no file over another live body. *)
THEOREM NothingIsOverwritten == Spec => NothingOverwritten
<1>1. Inv /\ [Next]_vars => [InIncremental /\ Orderly(before) => BodiesStay]_vars
  BY StepKeepsBodies
<1>2. QED  BY <1>1, Invariance, PTL DEF Spec, NothingOverwritten

\* A directory keeps its place when its node is processed, and so does what is
\* not enumerated.
LEMMA HeadKeepsPlace ==
  ASSUME Inv, InIncremental, nodes # <<>>, Live(row, N.doc),
         N.doc \notin listing \/ IsDirForm(row, N.doc)
  PROVE  N.path.at = row[N.doc].path.at /\ N.path.form \in {"readme", "folder"}
<1>1. /\ Typed /\ NodesDue /\ mode = "incremental"
  BY DEF Inv, WalkInv, InIncremental
<1>2. /\ N = nodes[1] /\ 1 \in 1..Len(nodes)  BY <1>1, HeadFacts DEF Typed
<1>3. row[N.doc] = before[N.doc] /\ Due(before, listing, mode, N)  BY <1>1, <1>2 DEF NodesDue
<1>4. Good(before, listing, N.doc, N.path)  BY <1>1, <1>3 DEF Due
<1>5. CASE N.doc \notin listing
  <2>1. N.path = Readme(before[N.doc].path.at)  BY <1>4, <1>5 DEF Good
  <2>2. QED  BY <1>3, <2>1 DEF Readme
<1>6. CASE N.doc \in listing
  <2>1. IsDirForm(before, N.doc)  BY <1>3, <1>6 DEF IsDirForm
  <2>2. N.path = before[N.doc].path  BY <1>4, <1>6, <2>1 DEF Good
  <2>3. QED  BY <1>3, <2>1, <2>2 DEF IsDirForm
<1>7. QED  BY <1>5, <1>6

LEMMA StepKeepsSubtrees ==
  ASSUME Inv, Next, InIncremental,
         NEW c \in Docs \ listing, NEW p \in Docs, Inside(row, c, p)
  PROVE  Inside(row', c, p)
<1>1. pc = "walk" /\ Typed  BY DEF InIncremental, Inv
<1>2. CASE row' = row  BY <1>2
<1>3. CASE Processing /\ Saves
  <2>1. nodes # <<>>  BY <1>1, <1>3, ProcessingFacts
  <2>2. /\ Live(row', N.doc) /\ row'[N.doc].path = N.path
        /\ \A e \in Docs \ {N.doc} : row'[e] = row[e]
    BY <1>1, <1>3, <2>1, SavedFacts DEF Saves
  \* Neither of the two leaves its place.
  <2>3. Live(row', c) /\ row'[c].path.at = row[c].path.at
    <3>1. CASE c = N.doc  BY <2>1, <2>2, <3>1, HeadKeepsPlace DEF Inside
    <3>2. CASE c # N.doc  BY <2>2, <3>2 DEF Inside, Live
    <3>3. QED  BY <3>1, <3>2
  <2>4. Live(row', p) /\ IsDirForm(row', p) /\ row'[p].path.at = row[p].path.at
    <3>1. CASE p = N.doc
      <4>1. N.path.at = row[p].path.at /\ N.path.form \in {"readme", "folder"}
        BY <2>1, <3>1, HeadKeepsPlace DEF Inside
      <4>2. QED  BY <2>2, <3>1, <4>1 DEF IsDirForm, Live
    <3>2. CASE p # N.doc  BY <2>2, <3>2 DEF Inside, Live, IsDirForm
    <3>3. QED  BY <3>1, <3>2
  <2>5. QED  BY <2>3, <2>4 DEF Inside
<1>4. CASE StartFull \/ StartIncremental
  BY <1>1, <1>4 DEF StartFull, StartIncremental
<1>5. QED  BY <1>1, <1>2, <1>3, <1>4, NextCases, ProcessingFacts, OthersRest

(* resolveIncrementalNodes reuses directories as they are and converts leaves in
   place: what is not in the result set goes on lying in its parent's directory. *)
THEOREM SubtreesAreKept == Spec => SubtreesStayWhole
<1>1. Inv /\ [Next]_vars =>
        [InIncremental =>
           \A c \in Docs \ listing, p \in Docs :
             row[c].parent = p /\ Inside(row, c, p) => Inside(row', c, p)]_vars
  BY StepKeepsSubtrees
<1>2. QED  BY <1>1, Invariance, PTL DEF Spec, SubtreesStayWhole

(* Where a walk has ended without a failure, every enumerated document is in its
   place, and its parent owns the directory. *)
LEMMA InvPlacesLikeFull ==
  ASSUME Inv
  PROVE  PlacedLikeFull
<1>1. SUFFICES ASSUME WalkDone, mode = "incremental", failed = {}, NEW d \in listing,
                      ~IsDirForm(before, d), Steady(parent[d])
               PROVE  LET p  == parent[d]
                          at == row[d].path.at
                      IN  /\ at[Len(at)] \in {title[d], <<title[d], d>>}
                          /\ IF p = Root THEN Len(at) = 1 ELSE Inside(row, d, p)
  BY DEF PlacedLikeFull
<1> DEFINE p  == parent[d]
           at == row[d].path.at
<1>2. /\ Typed /\ DocsSettled /\ \A e \in Docs : ~Waits(e)
  <2>1. pc = "walk" /\ Len(nodes) = 0  BY <1>1 DEF WalkDone
  <2>2. QED  BY <2>1 DEF Inv, WalkInv, Waits
<1>3. \A e \in Docs : Settled(e)  BY <1>1, <1>2 DEF DocsSettled
<1>4. d \in Docs /\ p \in Bases /\ title[d] \in Titles[d]
  BY <1>2 DEF Typed, RoundTyped, RemoteTyped
<1>5. Live(row, d) /\ Good(before, listing, d, row[d].path)
  BY <1>3, <1>4 DEF Settled
<1>6. PICK name \in {title[d], <<title[d], d>>} : at = Append(NewDir(before, p), name)
  BY <1>1, <1>5 DEF Good
<1>7. NewDir(before, p) \in Seq(Names) /\ name \in Names
  <2>1. NewDir(before, p) \in Seq(Names)  BY <1>2, <1>4, NewDirTyped DEF Typed
  <2>2. name \in Names  BY <1>4, OwnNames
  <2>3. QED  BY <2>1, <2>2
<1> HIDE DEF p, at
<1>8. /\ at[Len(at)] = name /\ Len(at) = Len(NewDir(before, p)) + 1
      /\ SubSeq(at, 1, Len(NewDir(before, p))) = NewDir(before, p)
  BY <1>6, <1>7, AppendFacts
<1>9. CASE p = Root
  <2>1. NewDir(before, p) = <<>>  BY <1>9 DEF NewDir
  <2>2. Len(at) = 1  BY <1>8, <2>1
  <2>3. QED  BY <1>8, <1>9, <2>2 DEF p, at
<1>10. CASE p # Root
  <2>1. /\ Rooted(before, p) /\ Live(row, p) /\ row[p].path.at = before[p].path.at
    BY <1>1, <1>10 DEF Steady, p
  <2>2. p \in Docs /\ Live(before, p)  BY <1>4, <1>10, <2>1, RootedParent DEF p
  <2>3. NewDir(before, p) = row[p].path.at  BY <1>10, <2>1 DEF NewDir
  <2>4. IsDirForm(row, p)
    <3>1. Settled(p) /\ Fits(p, row[p].path) /\ Fits(p, before[p].path)
      BY <1>2, <1>3, <2>1, <2>2, RecordFacts DEF Typed, Live
    <3>2. row[p].status = "active"  BY <2>1 DEF Live
    <3>3. CASE p \in listing
      <4>1. Good(before, listing, p, row[p].path)  BY <3>1, <3>3 DEF Settled
      <4>2. CASE IsDirForm(before, p)
        BY <3>2, <3>3, <4>1, <4>2 DEF Good, IsDirForm
      <4>3. CASE ~IsDirForm(before, p)
        <5>1. \E e \in listing : parent[e] = p  BY <1>1 DEF p
        <5>2. p \in Pages => row[p].path.form = "readme"
          BY <3>3, <4>1, <4>3, <5>1 DEF Good
        <5>3. p \in Databases => row[p].path.form = "folder"  BY <3>1 DEF Fits
        <5>4. QED  BY <2>2, <3>2, <5>2, <5>3, Kinds DEF IsDirForm
      <4>4. QED  BY <4>2, <4>3
    <3>4. CASE p \notin listing /\ before[p].path.form = "leaf"
      <4>1. p \in Turned(before, listing)
        <5>1. p \in Docs \ listing  BY <2>2, <3>4
        <5>2. \E e \in listing : parent[e] = p  BY <1>1 DEF p
        <5>3. QED  BY <2>1, <2>2, <3>4, <5>1, <5>2 DEF Turned
      <4>2. row[p].path = Readme(before[p].path.at)  BY <3>1, <3>4, <4>1 DEF Settled, Good
      <4>3. QED  BY <3>2, <4>2 DEF IsDirForm, Readme
    <3>5. CASE p \notin listing /\ before[p].path.form # "leaf"
      <4>1. row[p] = before[p]  BY <3>1, <3>5 DEF Settled, Turned
      <4>2. before[p].path.form \in {"readme", "folder"}
        <5>1. before[p].path.form \in {"leaf", "readme", "folder"}  BY <3>1 DEF Fits, Paths
        <5>2. QED  BY <3>5, <5>1
      <4>3. QED  BY <3>2, <4>1, <4>2 DEF IsDirForm
    <3>6. QED  BY <3>3, <3>4, <3>5
  <2>5. Inside(row, d, p)
    BY <1>5, <1>8, <2>1, <2>3, <2>4 DEF Inside, at
  <2>6. QED  BY <1>8, <1>10, <2>5 DEF p, at
<1>11. QED  BY <1>9, <1>10

(* placeIncrementalNode and leafToDirNode put a document where buildTree would: in
   the directory its parent owns, under a name of its title. *)
THEOREM IncrementalPlacesLikeFull == Spec => []PlacedLikeFull
BY Invariance, InvPlacesLikeFull, PTL

(* Where a walk has ended without a failure, the rows that asked for their
   properties have them. *)
LEMMA InvServesRows ==
  ASSUME Inv
  PROVE  EditedRowsHaveProperties
<1>1. SUFFICES ASSUME WalkDone, failed = {}, NEW r \in Rows \cap listing,
                      before[r].edited # edits[r], before[r].body # WithProperties(r),
                      parent[r] \in Databases,
                      parent[r] \in listing \/ (mode = "incremental" /\ Live(before, parent[r]))
               PROVE  row[r].path \in DOMAIN file /\ file[row[r].path] = WithProperties(r)
  BY DEF EditedRowsHaveProperties
<1>2. RowsServed /\ ~Waits(r)
  <2>1. pc = "walk" /\ Len(nodes) = 0  BY <1>1 DEF WalkDone
  <2>2. QED  BY <2>1 DEF Inv, WalkInv, Waits
<1>3. Asking(r)  BY <1>1 DEF Asking
<1>4. QED  BY <1>1, <1>2, <1>3 DEF RowsServed, Written

(* prequeryDirtyDatabases queries enough: no edited row is written without its
   properties in a round that reports no failure. *)
THEOREM RowsHaveProperties == Spec => []EditedRowsHaveProperties
BY Invariance, InvServesRows, PTL

-----------------------------------------------------------------------------
(* Places stay apart. *)

\* Each document of the listing has a place of its own, where its node puts it or
\* its row is.
Given(place) ==
  /\ \A d \in listing : Head(place[d]) # Trash
  /\ \A d, e \in listing : place[d] = place[e] => d = e
  /\ \A i \in 1..Len(nodes) : nodes[i].doc \in listing /\ nodes[i].path.at = place[nodes[i].doc]
  /\ \A d \in listing : Waits(d) \/ row[d].path.at = place[d]

FullApart ==
  mode = "full" /\ pc # "idle" /\ failed = {} => \E place : Given(place)

\* Among the rows and the nodes that wait, no two share a place.
NodesOutside ==
  \A i \in 1..Len(nodes) :
    /\ Head(nodes[i].path.at) # Trash
    /\ \A j \in 1..Len(nodes) : nodes[i].path.at = nodes[j].path.at => i = j
    /\ \A e \in Docs \ {nodes[i].doc} : Live(row, e) => row[e].path.at # nodes[i].path.at

IncrementalApart ==
  InIncremental /\ Orderly(before) /\ ~Returning => Orderly(row) /\ NodesOutside

ApartInv ==
  /\ pc = "reap" => mode = "full" /\ nodes = <<>>
  /\ FullApart /\ IncrementalApart

LEMMA ApartBeginsFull ==
  ASSUME Typed, StartFull
  PROVE  ApartInv'
<1>1. PICK order \in Orders(Shared) : \E s \in Walks(order) :
        nodes' = [i \in DOMAIN s |-> Node(s[i], TreePath(order, s[i]))]
  BY DEF StartFull
<1>2. PICK s \in Walks(order) : nodes' = [i \in DOMAIN s |-> Node(s[i], TreePath(order, s[i]))]
  BY <1>1
<1>3. pc' = "walk" /\ mode' = "full" /\ listing' = Shared  BY DEF StartFull
<1>0. PICK place : place = [d \in Shared |-> TreeAt(order, d)]  OBVIOUS
<1>4. RemoteTyped  BY DEF Typed
<1>5. \A d \in Shared : Head(place[d]) # Trash /\ \A e \in Shared : place[d] = place[e] => d = e
  BY <1>0, <1>4, TreeApart
<1>6. /\ \A d \in Shared : \E i \in 1..Len(nodes') : nodes'[i].doc = d
      /\ \A i \in 1..Len(nodes') : nodes'[i].doc \in Shared
  BY <1>2, <1>4, FullNodes
<1>7. ASSUME NEW i \in 1..Len(nodes')
      PROVE  nodes'[i].path.at = place[nodes'[i].doc]
  <2>1. s \in Lists(Shared)  BY DEF Walks
  <2>2. DOMAIN s = 1..Len(s) /\ Len(s) \in Nat /\ s \in Seq(Shared)
    BY <2>1, SharedIsFinite, ListFacts
  <2>3. Len(nodes') \in Nat /\ DOMAIN nodes' = 1..Len(nodes')
    <3>1. nodes' \in Seq(NodeRecords)  BY <1>2, <1>4, FullNodes
    <3>2. QED  BY <3>1, LenProperties
  <2>4. i \in DOMAIN s /\ s[i] \in Shared  BY <1>2, <2>2, <2>3
  <2>5. nodes'[i] = Node(s[i], TreePath(order, s[i]))  BY <1>2, <2>4
  <2>6. nodes'[i].doc = s[i] /\ nodes'[i].path = TreePath(order, s[i])  BY <2>5 DEF Node
  <2>7. QED  BY <1>0, <1>4, <2>4, <2>6, TreePathFits
<1>8. Given(place)'
  <2>1. \A d \in listing' : Waits(d)' \/ row'[d].path.at = place[d]
    BY <1>3, <1>6 DEF Waits
  <2>2. /\ \A d \in listing' : Head(place[d]) # Trash
        /\ \A d, e \in listing' : place[d] = place[e] => d = e
    BY <1>3, <1>5
  <2>3. \A i \in 1..Len(nodes') : /\ nodes'[i].doc \in listing'
                                  /\ nodes'[i].path.at = place[nodes'[i].doc]
    BY <1>3, <1>6, <1>7
  <2>4. QED  BY <2>1, <2>2, <2>3 DEF Given
<1>9. FullApart'  BY <1>8 DEF FullApart
<1>10. QED  BY <1>3, <1>9 DEF ApartInv, IncrementalApart, InIncremental

LEMMA FullApartStays ==
  ASSUME Inv, FullApart, Processing
  PROVE  FullApart'
<1>1. /\ pc = "walk" /\ UNCHANGED <<remote, pc, mode, listing>> /\ failed \subseteq failed'
      /\ failed' = {} => Live(row', N.doc) /\ row'[N.doc].path = N.path
      /\ Typed /\ NodesApart(nodes)
  <2>1. Typed /\ WalkInv  BY DEF Inv
  <2>2. QED  BY <2>1, ProcessingFacts DEF WalkInv
<1>2. SUFFICES ASSUME mode = "full", failed' = {} PROVE (\E place : Given(place))'
  BY <1>1 DEF FullApart
<1>3. PICK place : Given(place)  BY <1>1, <1>2 DEF FullApart
<1>4. /\ N = nodes[1] /\ 1 \in 1..Len(nodes)
      /\ \A i \in 1..Len(nodes') : i + 1 \in 1..Len(nodes) /\ nodes'[i] = nodes[i + 1]
      /\ \A d \in Docs : Waits(d)' <=> Waits(d) /\ d # N.doc
      /\ \A d \in Docs \ {N.doc} : row'[d] = row[d]
  BY <1>1, Onwards, ProcessingTyped
<1>5. \A i \in 1..Len(nodes') : /\ nodes'[i].doc \in listing
                                /\ nodes'[i].path.at = place[nodes'[i].doc]
  BY <1>3, <1>4 DEF Given
<1>6. ASSUME NEW d \in listing PROVE Waits(d)' \/ row'[d].path.at = place[d]
  <2>1. d \in Docs  BY <1>1 DEF Typed, RoundTyped
  <2>2. CASE d = N.doc  BY <1>1, <1>2, <1>3, <1>4, <2>2 DEF Given
  <2>3. CASE d # N.doc  BY <1>3, <1>4, <2>1, <2>3 DEF Given
  <2>4. QED  BY <2>2, <2>3
<1>7. Given(place)'  BY <1>1, <1>3, <1>5, <1>6 DEF Given
<1>8. QED  BY <1>7

LEMMA QueueIsOutside ==
  ASSUME RemoteTyped, TableTyped(row), Orderly(row), NEW S \in SUBSET Docs, NEW s \in Lists(S),
         NEW c \in Lists(Turned(row, S)), NEW q, q = Queue(s, c),
         \A d \in S : IsDirForm(row, d) => Live(row, d)
  PROVE  \A k \in 1..Len(q) :
           /\ Head(q[k].path.at) # Trash
           /\ \A l \in 1..Len(q) : q[k].path.at = q[l].path.at => k = l
           /\ \A e \in Docs \ {q[k].doc} : Live(row, e) => row[e].path.at # q[k].path.at
<1>1. \A k \in 1..Len(q), e \in Docs :
        e # q[k].doc /\ Live(row, e) => row[e].path.at # q[k].path.at
  BY QueueIsFree
<1>2. ASSUME NEW k \in 1..Len(q)
      PROVE  Stays(q, k) \/ (k \in 1..Len(s) /\ ~IsDirForm(row, s[k]))
  <2>1. k \in 1..Len(s) => s[k] \in S  BY QueueNodes
  <2>2. row[s[k]].status = "trashed" => ~Live(row, s[k])  BY DEF Live
  <2>3. QED  BY <2>1, <2>2, QueueKinds
<1>3. ASSUME NEW k \in 1..Len(q) PROVE Head(q[k].path.at) # Trash
  <2>1. CASE Stays(q, k)  BY <2>1, QueueKinds DEF Stays, Orderly
  <2>2. CASE k \in 1..Len(s) /\ ~IsDirForm(row, s[k])
    <3>1. q[k].path = Placed(s)[k].path  BY <2>2, QueueNodes
    <3>2. QED  BY <2>2, <3>1, FreshIsOutside
  <2>3. QED  BY <1>2, <2>1, <2>2
<1>4. ASSUME NEW k \in 1..Len(q), NEW l \in 1..Len(q), k # l
      PROVE  q[k].path.at # q[l].path.at
  <2>1. q[k].doc # q[l].doc /\ q[k].doc \in Docs /\ q[l].doc \in Docs
    BY <1>4, QueueIsComplete, QueueKinds DEF NodesApart
  <2>2. CASE Stays(q, k)  BY <1>1, <2>1, <2>2 DEF Stays
  <2>3. CASE Stays(q, l)  BY <1>1, <2>1, <2>3 DEF Stays
  <2>4. CASE /\ k \in 1..Len(s) /\ ~IsDirForm(row, s[k])
             /\ l \in 1..Len(s) /\ ~IsDirForm(row, s[l])
    <3>1. q[k].path = Placed(s)[k].path /\ q[l].path = Placed(s)[l].path  BY <2>4, QueueNodes
    <3>2. k < l \/ l < k
      <4>1. Len(s) \in Nat  BY QueueFacts
      <4>2. QED  BY <1>4, <2>4, <4>1
    <3>3. QED  BY <2>4, <3>1, <3>2, FreshAreApart
  <2>5. QED  BY <1>2, <2>2, <2>3, <2>4
<1>5. QED  BY <1>1, <1>3, <1>4

LEMMA ApartBeginsIncremental ==
  ASSUME Typed, StartIncremental
  PROVE  ApartInv'
<1>1. PICK S \in SUBSET Shared :
        /\ \E s \in Orders(S), c \in Orders(Converts(S)) :
             LET placed == Placed(s)
             IN  nodes' \in ByDepth([i \in DOMAIN s |-> Node(s[i], placed[i].path)]
                                      \o [i \in DOMAIN c |-> Conversion(c[i])])
        /\ listing' = S
  BY DEF StartIncremental
<1>2. pc' = "walk" /\ mode' = "incremental" /\ before' = row /\ row' = row
  BY DEF StartIncremental
<1>3. S \in SUBSET Docs  BY SharedIsFinite
<1>4. PICK s \in Lists(S), c \in Lists(Turned(row, S)) : nodes' \in ByDepth(Queue(s, c))
  <2>1. Converts(S) = Turned(row, S)  BY DEF Converts, Turned
  <2>2. QED  BY <1>1, <2>1 DEF Orders, Queue
<1>5. SUFFICES ASSUME Orderly(row), ~Returning' PROVE NodesOutside'
  BY <1>2 DEF ApartInv, FullApart, IncrementalApart, Orderly, Live
<1>6. PICK q : q = Queue(s, c)  OBVIOUS
<1>7. RemoteTyped /\ TableTyped(row)  BY DEF Typed
<1>8. \A d \in S : IsDirForm(row, d) => Live(row, d)
  BY <1>1, <1>2, <1>5 DEF Returning, IsDirForm, Live
<1>9. \A k \in 1..Len(q) :
        /\ Head(q[k].path.at) # Trash
        /\ \A l \in 1..Len(q) : q[k].path.at = q[l].path.at => k = l
        /\ \A e \in Docs \ {q[k].doc} : Live(row, e) => row[e].path.at # q[k].path.at
  BY <1>3, <1>5, <1>6, <1>7, <1>8, QueueIsOutside
<1>10. q \in Seq(NodeRecords)  BY <1>3, <1>6, <1>7, QueueFacts
<1>11. Len(nodes') = Len(q)  BY <1>4, <1>6, <1>10, SortedIsRearranged
<1>12. PICK pos \in [1..Len(q) -> 1..Len(q)] :
        /\ \A i \in 1..Len(q) : nodes'[i] = q[pos[i]]
        /\ \A i, j \in 1..Len(q) : pos[i] = pos[j] => i = j
  BY <1>4, <1>6, <1>10, SortedIsRearranged
<1>13. ASSUME NEW i \in 1..Len(q)
       PROVE  /\ Head(nodes'[i].path.at) # Trash
              /\ \A j \in 1..Len(q) : nodes'[i].path.at = nodes'[j].path.at => i = j
              /\ \A e \in Docs \ {nodes'[i].doc} : Live(row, e) => row[e].path.at # nodes'[i].path.at
  BY <1>9, <1>12
<1>14. QED  BY <1>2, <1>11, <1>13 DEF NodesOutside, Live

LEMMA IncrementalApartStays ==
  ASSUME Inv, IncrementalApart, Processing
  PROVE  IncrementalApart'
<1>1. /\ pc = "walk" /\ UNCHANGED <<pc, mode, listing, before>> /\ nodes # <<>>
      /\ row' = row \/ Saves
      /\ Typed /\ NodesApart(nodes)
  <2>1. Typed /\ WalkInv  BY DEF Inv
  <2>2. QED  BY <2>1, ProcessingFacts DEF WalkInv
<1>2. SUFFICES ASSUME InIncremental, Orderly(before), ~Returning
               PROVE  Orderly(row') /\ NodesOutside'
  BY <1>1 DEF IncrementalApart, InIncremental, Orderly, Returning, IsDirForm, Live
<1>3. Orderly(row) /\ NodesOutside  BY <1>2 DEF IncrementalApart
<1>4. /\ N = nodes[1] /\ 1 \in 1..Len(nodes) /\ N.doc \in Docs /\ Len(nodes') \in Nat
      /\ \A i \in 1..Len(nodes') : /\ i + 1 \in 1..Len(nodes) /\ nodes'[i] = nodes[i + 1]
                                   /\ nodes'[i].doc # N.doc
      /\ \A d \in Docs \ {N.doc} : row'[d] = row[d]
  <2>1. Typed'  BY <1>1, ProcessingTyped
  <2>2. Len(nodes') \in Nat  BY <2>1 DEF Typed, RoundTyped
  <2>3. QED  BY <1>1, <2>2, Onwards, ProcessingTyped
\* The row of the node is as it was, or where the node puts it.
<1>5. row'[N.doc] = row[N.doc] \/ row'[N.doc].path.at = N.path.at
  BY <1>1, SavedFacts DEF Saves
<1>6. row'[N.doc] # row[N.doc] =>
        /\ Head(N.path.at) # Trash
        /\ \A e \in Docs \ {N.doc} : Live(row, e) => row[e].path.at # N.path.at
  BY <1>3, <1>4 DEF NodesOutside
<1>7. Orderly(row')
  <2>1. ASSUME NEW d \in Docs, Live(row', d) PROVE Head(row'[d].path.at) # Trash
    BY <1>3, <1>4, <1>5, <1>6, <2>1 DEF Orderly, Live
  <2>2. ASSUME NEW d \in Docs, NEW e \in Docs, d # e, Live(row', d), Live(row', e)
        PROVE  row'[d].path.at # row'[e].path.at
    <3>1. CASE d # N.doc /\ e # N.doc  BY <1>3, <1>4, <2>2, <3>1 DEF Orderly, Live
    <3>2. CASE d = N.doc  BY <1>3, <1>4, <1>5, <1>6, <2>2, <3>2 DEF Orderly, Live
    <3>3. CASE e = N.doc  BY <1>3, <1>4, <1>5, <1>6, <2>2, <3>3 DEF Orderly, Live
    <3>4. QED  BY <3>1, <3>2, <3>3
  <2>3. QED  BY <2>1, <2>2 DEF Orderly
<1>8. NodesOutside'
  <2>1. SUFFICES ASSUME NEW i \in 1..Len(nodes')
                 PROVE  /\ Head(nodes'[i].path.at) # Trash
                        /\ \A j \in 1..Len(nodes') : nodes'[i].path.at = nodes'[j].path.at => i = j
                        /\ \A e \in Docs \ {nodes'[i].doc} :
                             Live(row', e) => row'[e].path.at # nodes'[i].path.at
    BY DEF NodesOutside, Live
  <2>2. i + 1 \in 1..Len(nodes) /\ i + 1 # 1 /\ nodes'[i] = nodes[i + 1]  BY <1>4
  <2>3. Head(nodes'[i].path.at) # Trash  BY <1>3, <2>2 DEF NodesOutside
  <2>4. ASSUME NEW j \in 1..Len(nodes'), nodes'[i].path.at = nodes'[j].path.at PROVE i = j
    <3>1. i + 1 = j + 1  BY <1>3, <1>4, <2>2, <2>4 DEF NodesOutside
    <3>2. QED  BY <1>4, <3>1
  <2>5. ASSUME NEW e \in Docs \ {nodes'[i].doc}, Live(row', e)
        PROVE  row'[e].path.at # nodes'[i].path.at
    <3>1. CASE row'[e] = row[e]  BY <1>3, <2>2, <2>5, <3>1 DEF NodesOutside, Live
    <3>2. CASE row'[e] # row[e]
      <4>1. e = N.doc /\ row'[e].path.at = nodes[1].path.at  BY <1>4, <1>5, <3>2
      <4>2. nodes[1].path.at # nodes[i + 1].path.at  BY <1>3, <1>4, <2>2 DEF NodesOutside
      <4>3. QED  BY <2>2, <4>1, <4>2
    <3>3. QED  BY <3>1, <3>2
  <2>6. QED  BY <2>3, <2>4, <2>5
<1>9. QED  BY <1>7, <1>8

LEMMA ApartOthers ==
  ASSUME Typed, ApartInv, Others
  PROVE  ApartInv'
<1>1. CASE pc' = "idle"
  BY <1>1 DEF ApartInv, FullApart, IncrementalApart, InIncremental
<1>2. CASE BeginDeletes
  <2>1. /\ pc' = "reap" /\ pc = "walk" /\ mode = "full" /\ nodes = <<>>
        /\ UNCHANGED <<row, mode, listing, nodes, failed>>
    BY <1>2 DEF BeginDeletes, WalkDone
  <2>2. \A place : Given(place)' <=> Given(place)  BY <2>1 DEF Given, Waits
  <2>3. FullApart'  BY <2>1, <2>2 DEF ApartInv, FullApart
  <2>4. QED  BY <2>1, <2>3 DEF ApartInv, IncrementalApart, InIncremental
<1>3. CASE TrashOne /\ pc' # "idle"
  <2>1. PICK d \in Absent : row' = [row EXCEPT ![d].status = "trashed", ![d].path = TrashPath(d)]
    BY <1>3 DEF TrashOne, Rest
  <2>2. UNCHANGED round /\ pc = "reap"  BY <1>3 DEF TrashOne, Rest
  <2>3. \A e \in listing : row'[e] = row[e]
    <3>1. d \notin listing  BY DEF Absent
    <3>2. listing \subseteq Docs /\ row \in [Docs -> RowRecords]
      BY DEF Typed, RoundTyped, TableTyped
    <3>3. QED  BY <2>1, <3>1, <3>2
  <2>4. \A place : Given(place) => Given(place)'
    BY <2>2, <2>3 DEF Given, Waits, round
  <2>5. FullApart'  BY <2>2, <2>4 DEF ApartInv, FullApart, round
  <2>6. QED  BY <2>2, <2>5 DEF ApartInv, IncrementalApart, InIncremental, round
<1>4. ASSUME NEW d \in Docs, Edit(d) \/ Move(d) PROVE pc' = "idle"
  BY <1>4 DEF Edit, Move, Change, round
<1>5. EndIncremental \/ EndFull \/ Crash => pc' = "idle"
  BY DEF EndIncremental, EndFull, Crash, Rest
<1>6. QED  BY <1>1, <1>2, <1>3, <1>4, <1>5 DEF Others

LEMMA ApartStep ==
  ASSUME Inv, ApartInv, [Next]_vars
  PROVE  ApartInv'
<1>1. Typed  BY DEF Inv
<1>2. CASE StartFull  BY <1>1, <1>2, ApartBeginsFull
<1>3. CASE StartIncremental  BY <1>1, <1>3, ApartBeginsIncremental
<1>4. CASE Processing
  <2>1. FullApart' /\ IncrementalApart'
    BY <1>4, FullApartStays, IncrementalApartStays DEF ApartInv
  <2>2. pc = "walk" /\ pc' = pc  BY <1>1, <1>4, ProcessingFacts
  <2>3. QED  BY <2>1, <2>2 DEF ApartInv
<1>5. CASE Others  BY <1>1, <1>5, ApartOthers
<1>6. CASE UNCHANGED vars
  <2>1. UNCHANGED <<before, listing, mode, row, pc, nodes, failed>>
    BY <1>6 DEF vars, round
  <2>2. \A place : Given(place)' <=> Given(place)  BY <2>1 DEF Given, Waits
  <2>3. IncrementalApart' <=> IncrementalApart
    BY <2>1 DEF IncrementalApart, InIncremental, Orderly, Returning, IsDirForm, Live, NodesOutside
  <2>4. QED  BY <2>1, <2>2, <2>3 DEF ApartInv, FullApart
<1>7. QED  BY <1>2, <1>3, <1>4, <1>5, <1>6, NextCases

(* When a full round that recorded no failure ends, the live documents have places
   of their own outside of the trash; incremental rounds keep it so, unless a
   directory returns from the trash: what NothingOverwritten asks of the rows that
   a round begins with is what such rounds leave. *)
THEOREM PlacesAreKeptApart == Spec => []PlacesStayApart
<1>1. Init => ApartInv
  BY DEF Init, ApartInv, FullApart, IncrementalApart, InIncremental
<1>2. Inv /\ ApartInv /\ [Next]_vars => ApartInv'  BY ApartStep
<1>3. ASSUME Inv, ApartInv PROVE PlacesStayApart
  <2>1. ASSUME pc = "reap", Absent = {}, failed = {} PROVE Orderly(row)
    <3>1. mode = "full" /\ nodes = <<>>  BY <1>3, <2>1 DEF ApartInv
    <3>2. PICK place : Given(place)  BY <1>3, <2>1, <3>1 DEF ApartInv, FullApart
    <3>3. \A d \in Docs : Live(row, d) => d \in listing  BY <2>1 DEF Absent
    <3>4. \A d \in listing : row[d].path.at = place[d]
      <4>1. \A d : ~Waits(d)  BY <3>1 DEF Waits
      <4>2. QED  BY <3>2, <4>1 DEF Given
    <3>5. QED  BY <3>2, <3>3, <3>4 DEF Given, Orderly
  <2>2. InIncremental /\ Orderly(before) /\ ~Returning => Orderly(row)
    BY <1>3 DEF ApartInv, IncrementalApart
  <2>3. QED  BY <2>1, <2>2 DEF PlacesStayApart
<1>4. QED  BY <1>1, <1>2, <1>3, Invariance, PTL DEF Spec
=============================================================================
