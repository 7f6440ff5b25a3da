--------------------------- MODULE FeishuWalkProofs ---------------------------
(***************************************************************************)
(* Proofs about FeishuWalk, for every tree of documents, every page size    *)
(* and any number of moves: a walk loses nothing that rests.                *)
(***************************************************************************)
EXTENDS FeishuWalk, FiniteSetTheorems, SequenceTheorems, WellFoundedInduction, TLAPS

-----------------------------------------------------------------------------
(* Least numbers, from the well-foundedness of finite subsets. *)

LEMMA LeastNumber ==
  ASSUME NEW T \in SUBSET Nat, T # {}
  PROVE  \E i \in T : \A j \in T : i <= j
<1> DEFINE Below(i) == 0..(i - 1)
           C == {Below(i) : i \in T}
           Smaller == StrictSubsetOrdering(Nat)
<1>1. C \subseteq FiniteSubsetsOf(Nat) /\ C # {}
  <2>1. \A i \in T : IsFiniteSet(Below(i)) /\ Below(i) \in SUBSET Nat
    <3> TAKE i \in T
    <3>1. IsFiniteSet(Below(i))
      BY FS_Interval
    <3>2. QED BY <3>1
  <2> HIDE DEF Below
  <2>2. QED BY <2>1 DEF FiniteSubsetsOf
<1>2. \E s \in C : \A t \in C : <<t, s>> \notin Smaller
  <2>1. IsWellFoundedOn(Smaller, FiniteSubsetsOf(Nat))
    BY FS_StrictSubsetOrderingWellFounded
  <2> HIDE DEF C, Smaller
  <2>2. QED BY <1>1, <2>1, WFMin
<1>3. PICK i \in T : \A t \in C : <<t, Below(i)>> \notin Smaller
  BY <1>2
<1>4. ASSUME NEW j \in T, j < i PROVE FALSE
  <2>1. /\ Below(j) \in SUBSET Nat /\ Below(i) \in SUBSET Nat
        /\ Below(j) \subseteq Below(i)
    BY <1>4
  <2>2. j \in Below(i) /\ j \notin Below(j)
    BY <1>4
  <2>3. <<Below(j), Below(i)>> \in Smaller
    BY <2>1, <2>2 DEF StrictSubsetOrdering
  <2>4. QED BY <1>3, <2>3
<1>5. QED BY <1>4

-----------------------------------------------------------------------------
(* Climbing a tree. *)

N == Cardinality(Docs)

LEMMA Bounded == N \in Nat
BY ConstantsAssumption, FS_CardinalityType DEF N

\* One more step up.
Above(tree, S) == S \cup {tree[e] : e \in S \cap Docs}

\* f climbs from d as far as k.
Climbs(tree, d, f, k) ==
  f = [n \in 0..k |-> IF n = 0 THEN {d} ELSE Above(tree, f[n - 1])]

LEMMA ClimbExists ==
  ASSUME NEW tree, NEW d
  PROVE  Climbs(tree, d, Climb(tree, d), N)
<1> DEFINE Lacking == {k \in Nat : ~ \E f : Climbs(tree, d, f, k)}
<1>1. Lacking = {}
  <2>1. SUFFICES ASSUME Lacking # {} PROVE FALSE  OBVIOUS
  <2>2. PICK k \in Lacking : \A j \in Lacking : k <= j
    <3>1. Lacking \in SUBSET Nat  OBVIOUS
    <3> HIDE DEF Lacking
    <3>2. QED  BY <2>1, <3>1, LeastNumber
  <2>3. CASE k = 0
    <3> DEFINE f == [n \in 0..0 |-> {d}]
    <3>1. Climbs(tree, d, f, 0)  BY DEF Climbs
    <3>2. QED  BY <2>3, <3>1
  <2>4. CASE k # 0
    <3>1. k - 1 \in Nat /\ k - 1 \notin Lacking  BY <2>2, <2>4
    <3>2. PICK f : Climbs(tree, d, f, k - 1)  BY <3>1
    <3> DEFINE g == [n \in 0..k |-> IF n = 0 THEN {d} ELSE Above(tree, f[n - 1])]
    <3>3. ASSUME NEW n \in 0..(k - 1) PROVE g[n] = f[n]
      <4>1. f = [i \in 0..(k - 1) |-> IF i = 0 THEN {d} ELSE Above(tree, f[i - 1])]
        BY <3>2 DEF Climbs
      <4>2. f[n] = IF n = 0 THEN {d} ELSE Above(tree, f[n - 1])
        BY <4>1
      <4>3. n \in 0..k  BY <3>1
      <4>4. QED  BY <4>2, <4>3
    <3>4. \A n \in 0..k : g[n] = IF n = 0 THEN {d} ELSE Above(tree, g[n - 1])
      <4>1. \A n \in 0..k : n # 0 => n - 1 \in 0..(k - 1)  BY <3>1
      <4>2. QED  BY <3>3, <4>1
    <3>5. Climbs(tree, d, g, k)
      <4> HIDE DEF g
      <4>1. g = [n \in 0..k |-> g[n]]  BY DEF g
      <4>2. QED  BY <3>4, <4>1 DEF Climbs
    <3>6. QED  BY <3>5
  <2>5. QED  BY <2>3, <2>4
<1>2. PICK f : Climbs(tree, d, f, N)
  BY <1>1, Bounded
<1>3. Climb(tree, d) = CHOOSE g : Climbs(tree, d, g, N)
  BY DEF Climb, Climbs, Above, N
<1>4. QED  BY <1>2, <1>3

LEMMA ClimbStep ==
  ASSUME NEW tree, NEW d
  PROVE  /\ Climb(tree, d)[0] = {d}
         /\ \A n \in 1..N : /\ n - 1 \in 0..N
                            /\ Climb(tree, d)[n] = Above(tree, Climb(tree, d)[n - 1])
<1> DEFINE f == Climb(tree, d)
<1>1. f = [n \in 0..N |-> IF n = 0 THEN {d} ELSE Above(tree, f[n - 1])]
  BY ClimbExists DEF Climbs
<1> HIDE DEF f
<1>2. f[0] = {d}  BY <1>1, Bounded
<1>3. ASSUME NEW n \in 1..N
      PROVE  n - 1 \in 0..N /\ f[n] = Above(tree, f[n - 1])
  <2>1. n \in 0..N /\ n # 0 /\ n - 1 \in 0..N  BY Bounded
  <2>2. QED  BY <1>1, <2>1
<1>4. QED  BY <1>2, <1>3 DEF f

\* The induction that each fact about climbing takes: its least exception.
LEMMA LeastException ==
  ASSUME NEW T \in SUBSET (0..N), T # {}
  PROVE  \E n \in T : \/ n = 0
                      \/ n \in 1..N /\ n - 1 \in 0..N /\ n - 1 \notin T
<1>1. T \in SUBSET Nat  BY Bounded
<1>2. PICK n \in T : \A j \in T : n <= j  BY <1>1, LeastNumber
<1>3. n - 1 \notin T  BY <1>1, <1>2
<1>4. n = 0 \/ (n \in 1..N /\ n - 1 \in 0..N)  BY Bounded
<1>5. QED  BY <1>3, <1>4

\* A set that is closed upwards holds all that is climbed to.
LEMMA ClimbStays ==
  ASSUME NEW tree, NEW d, NEW S, d \in S, \A e \in S \cap Docs : tree[e] \in S
  PROVE  \A n \in 0..N : Climb(tree, d)[n] \subseteq S
<1> DEFINE T == {n \in 0..N : ~ (Climb(tree, d)[n] \subseteq S)}
<1>1. SUFFICES ASSUME T # {} PROVE FALSE  OBVIOUS
<1>2. PICK n \in T : n = 0 \/ (n \in 1..N /\ n - 1 \in 0..N /\ n - 1 \notin T)
  BY <1>1, LeastException
<1>3. QED  BY <1>2, ClimbStep DEF Above

LEMMA ClimbGrows ==
  ASSUME NEW tree, NEW d
  PROVE  \A n \in 0..N : d \in Climb(tree, d)[n] /\ Climb(tree, d)[n] \subseteq Lineage(tree, d)
<1> DEFINE T == {n \in 0..N : d \notin Climb(tree, d)[n]}
           Late == {m \in 0..N : ~ (Climb(tree, d)[N - m] \subseteq Lineage(tree, d))}
<1>1. T = {}
  <2>1. SUFFICES ASSUME T # {} PROVE FALSE  OBVIOUS
  <2>2. PICK n \in T : n = 0 \/ (n \in 1..N /\ n - 1 \in 0..N /\ n - 1 \notin T)
    BY <2>1, LeastException
  <2>3. QED  BY <2>2, ClimbStep DEF Above
<1>2. Late = {}
  <2>1. SUFFICES ASSUME Late # {} PROVE FALSE  OBVIOUS
  <2>2. PICK m \in Late : m = 0 \/ (m \in 1..N /\ m - 1 \in 0..N /\ m - 1 \notin Late)
    BY <2>1, LeastException
  <2>3. CASE m = 0
    BY <2>2, <2>3, Bounded DEF Lineage, N
  <2>4. CASE m \in 1..N
    <3>1. Climb(tree, d)[N - (m - 1)] \subseteq Lineage(tree, d)  BY <2>2, <2>4
    <3>2. N - (m - 1) \in 1..N /\ (N - (m - 1)) - 1 = N - m  BY <2>4, Bounded
    <3>3. Climb(tree, d)[N - m] \subseteq Climb(tree, d)[N - (m - 1)]
      BY <3>2, ClimbStep DEF Above
    <3>4. QED  BY <2>2, <3>1, <3>3
  <2>5. QED  BY <2>2, <2>3, <2>4
<1>3. \A n \in 0..N : N - n \in 0..N /\ N - (N - n) = n  BY Bounded
<1>4. QED  BY <1>1, <1>2, <1>3

\* Two trees that agree on what is climbed through are climbed alike.
LEMMA ClimbAgrees ==
  ASSUME NEW tree, NEW other, NEW d,
         \A e \in Lineage(tree, d) \cap Docs : other[e] = tree[e]
  PROVE  \A n \in 0..N : Climb(other, d)[n] = Climb(tree, d)[n]
<1> DEFINE T == {n \in 0..N : Climb(other, d)[n] # Climb(tree, d)[n]}
<1>1. SUFFICES ASSUME T # {} PROVE FALSE  OBVIOUS
<1>2. PICK n \in T : n = 0 \/ (n \in 1..N /\ n - 1 \in 0..N /\ n - 1 \notin T)
  BY <1>1, LeastException
<1>3. CASE n = 0
  BY <1>2, <1>3, ClimbStep
<1>4. CASE n \in 1..N /\ n - 1 \in 0..N /\ n - 1 \notin T
  <2> DEFINE S == Climb(tree, d)[n - 1]
  <2>1. Climb(other, d)[n - 1] = S  BY <1>4
  <2>2. S \subseteq Lineage(tree, d)  BY <1>4, ClimbGrows
  <2>3. Above(other, S) = Above(tree, S)  BY <2>2 DEF Above
  <2>4. Climb(other, d)[n] = Above(other, S) /\ Climb(tree, d)[n] = Above(tree, S)
    BY <1>4, <2>1, ClimbStep
  <2>5. QED  BY <1>2, <2>3, <2>4
<1>5. QED  BY <1>2, <1>3, <1>4

\* Climbing from a document goes on as climbing from its parent.
LEMMA ClimbFromParent ==
  ASSUME NEW tree, NEW d \in Docs
  PROVE  \A n \in 1..N : /\ n - 1 \in 0..N
                         /\ Climb(tree, d)[n] = {d} \cup Climb(tree, tree[d])[n - 1]
<1> DEFINE p == tree[d]
           T == {m \in 0..N : m < N /\ Climb(tree, d)[m + 1] # {d} \cup Climb(tree, p)[m]}
<1>1. T = {}
  <2>1. SUFFICES ASSUME T # {} PROVE FALSE  OBVIOUS
  <2>2. PICK m \in T : m = 0 \/ (m \in 1..N /\ m - 1 \in 0..N /\ m - 1 \notin T)
    <3>1. T \in SUBSET (0..N)  OBVIOUS
    <3> HIDE DEF T
    <3>2. QED  BY <2>1, <3>1, LeastException
  <2>3. m + 1 \in 1..N /\ (m + 1) - 1 = m /\ m + 1 - 1 = m  BY <2>2, Bounded
  <2>4. Climb(tree, d)[m + 1] = Above(tree, Climb(tree, d)[m])
    BY <2>3, ClimbStep
  <2>5. CASE m = 0
    <3>1. Climb(tree, d)[0] = {d} /\ Climb(tree, p)[0] = {p}  BY ClimbStep
    <3>2. Above(tree, {d}) = {d, p}  BY DEF Above
    <3>3. QED  BY <2>2, <2>4, <2>5, <3>1, <3>2
  <2>6. CASE m \in 1..N /\ m - 1 \in 0..N /\ m - 1 \notin T
    <3> DEFINE S == Climb(tree, p)[m - 1]
    <3>1. m - 1 < N /\ (m - 1) + 1 = m  BY <2>6, Bounded
    <3>2. Climb(tree, d)[m] = {d} \cup S  BY <2>6, <3>1
    <3>3. Climb(tree, p)[m] = Above(tree, S)  BY <2>6, ClimbStep
    <3>4. p \in S  BY <2>6, ClimbGrows
    <3>5. Above(tree, {d} \cup S) = {d} \cup Above(tree, S)
      BY <3>4 DEF Above
    <3>6. QED  BY <2>2, <2>4, <3>2, <3>3, <3>5
  <2>7. QED  BY <2>2, <2>5, <2>6
<1>2. ASSUME NEW n \in 1..N
      PROVE  n - 1 \in 0..N /\ Climb(tree, d)[n] = {d} \cup Climb(tree, p)[n - 1]
  <2>1. n - 1 \in 0..N /\ n - 1 < N /\ (n - 1) + 1 = n  BY Bounded
  <2>2. QED  BY <1>1, <2>1
<1>3. QED  BY <1>2

\* Each step up finds one node more, at most.
LEMMA ClimbOneByOne ==
  ASSUME NEW tree, NEW d
  PROVE  \A n \in 1..N : \A x, y \in Climb(tree, d)[n] \ Climb(tree, d)[n - 1] : x = y
<1> DEFINE f == Climb(tree, d)
           T == {n \in 0..N : n # 0 /\ \E x, y \in f[n] \ f[n - 1] : x # y}
<1>1. T = {}
  <2>1. SUFFICES ASSUME T # {} PROVE FALSE  OBVIOUS
  <2>2. PICK n \in T : n = 0 \/ (n \in 1..N /\ n - 1 \in 0..N /\ n - 1 \notin T)
    <3>1. T \in SUBSET (0..N)  OBVIOUS
    <3> HIDE DEF T
    <3>2. QED  BY <2>1, <3>1, LeastException
  <2>3. n \in 1..N /\ n - 1 \in 0..N /\ n - 1 \notin T  BY <2>2
  <2>4. PICK x \in f[n] \ f[n - 1], y \in f[n] \ f[n - 1] : x # y  BY <2>2
  <2>5. f[n] = Above(tree, f[n - 1])  BY <2>3, ClimbStep
  <2>6. PICK u \in f[n - 1] \cap Docs : tree[u] = x  BY <2>4, <2>5 DEF Above
  <2>7. PICK v \in f[n - 1] \cap Docs : tree[v] = y  BY <2>4, <2>5 DEF Above
  <2>8. u # v  BY <2>4, <2>6, <2>7
  <2>9. CASE n - 1 = 0
    <3>1. f[n - 1] = {d}  BY <2>9, ClimbStep
    <3>2. QED  BY <2>6, <2>7, <2>8, <3>1
  <2>10. CASE n - 1 # 0
    <3>1. n - 1 \in 1..N  BY <2>3, <2>10, Bounded
    <3>2. f[n - 1] = Above(tree, f[(n - 1) - 1])  BY <3>1, ClimbStep
    <3>3. \A w \in f[(n - 1) - 1] \cap Docs : tree[w] \in f[n - 1]  BY <3>2 DEF Above
    <3>4. u \notin f[(n - 1) - 1] /\ v \notin f[(n - 1) - 1]
      BY <2>4, <2>6, <2>7, <3>3
    <3>5. QED  BY <2>3, <2>6, <2>7, <2>8, <2>10, <3>4
  <2>11. QED  BY <2>9, <2>10
<1>2. \A n \in 1..N : n \in 0..N /\ n # 0  BY Bounded
<1>3. QED  BY <1>1, <1>2

\* How far below a root a document is.
Height(tree, d) == {n \in 0..N : Climb(tree, d)[n] \cap Roots # {}}

LEMMA RootsAreNoDocs == Roots \cap Docs = {} /\ Nowhere \notin Docs \cup Roots
BY ConstantsAssumption

LEMMA AttachedHeight ==
  ASSUME NEW tree, NEW d
  PROVE  Attached(tree, d) <=> Height(tree, d) # {}
<1>1. N \in 0..N /\ Lineage(tree, d) = Climb(tree, d)[N]
  BY Bounded DEF Lineage, N
<1>2. QED  BY <1>1, ClimbGrows DEF Attached, Height

\* The lineage of what hangs below a root ends there.
LEMMA LineageIsClosed ==
  ASSUME NEW tree, NEW d, Attached(tree, d)
  PROVE  /\ d \in Lineage(tree, d)
         /\ \A e \in Lineage(tree, d) \cap Docs : tree[e] \in Lineage(tree, d)
<1> DEFINE f == Climb(tree, d)
<1>1. PICK k \in Height(tree, d) : \/ k = 0
                                   \/ k \in 1..N /\ k - 1 \in 0..N /\ k - 1 \notin Height(tree, d)
  BY AttachedHeight, LeastException DEF Height
<1>2. k \in 0..N  BY <1>1 DEF Height
<1>3. PICK r \in Roots : r \in f[k]  BY <1>1 DEF Height
<1>4. \A e \in f[k] \cap Docs : tree[e] \in f[k]
  <2>1. CASE k = 0
    BY <1>3, <2>1, ClimbStep, RootsAreNoDocs
  <2>2. CASE k \in 1..N /\ k - 1 \in 0..N /\ k - 1 \notin Height(tree, d)
    <3>1. r \notin f[k - 1]  BY <1>3, <2>2 DEF Height
    <3>2. \A e \in f[k] \cap Docs : e \in f[k - 1]
      BY <1>3, <2>2, <3>1, ClimbOneByOne, RootsAreNoDocs
    <3>3. QED  BY <2>2, <3>2, ClimbStep DEF Above
  <2>3. QED  BY <1>1, <2>1, <2>2
<1>5. d \in f[k] /\ f[k] \subseteq Lineage(tree, d)  BY <1>2, ClimbGrows
<1>6. Lineage(tree, d) \subseteq f[k]
  <2>1. N \in 0..N /\ Lineage(tree, d) = f[N]  BY Bounded DEF Lineage, N
  <2>2. QED  BY <1>4, <1>5, <2>1, ClimbStays
<1>7. QED  BY <1>4, <1>5, <1>6

\* What hangs below a root does so by its parent, whose lineage is part of its
\* own and who is nearer to the root.
LEMMA ParentIsNearer ==
  ASSUME NEW tree, NEW d \in Docs, Attached(tree, d)
  PROVE  /\ Attached(tree, tree[d]) /\ Lineage(tree, tree[d]) \subseteq Lineage(tree, d)
         /\ \A n \in Height(tree, d) : n \in 1..N /\ n - 1 \in Height(tree, tree[d])
<1>1. \A n \in Height(tree, d) : n \in 1..N /\ n - 1 \in Height(tree, tree[d])
  <2>1. TAKE n \in Height(tree, d)
  <2>2. n # 0  BY ClimbStep, RootsAreNoDocs DEF Height
  <2>3. n \in 1..N  BY <2>2, Bounded DEF Height
  <2>4. Climb(tree, tree[d])[n - 1] \cap Roots # {} /\ n - 1 \in 0..N
    BY <2>3, ClimbFromParent, RootsAreNoDocs DEF Height
  <2>5. QED  BY <2>3, <2>4 DEF Height
<1>2. Attached(tree, tree[d])  BY <1>1, AttachedHeight
<1>3. tree[d] \in Lineage(tree, d)  BY LineageIsClosed
<1>4. Lineage(tree, tree[d]) \subseteq Lineage(tree, d)
  <2>1. N \in 0..N /\ Lineage(tree, tree[d]) = Climb(tree, tree[d])[N]  BY Bounded DEF Lineage, N
  <2>2. QED  BY <1>3, <2>1, LineageIsClosed, ClimbStays
<1>5. QED  BY <1>1, <1>2, <1>4

-----------------------------------------------------------------------------
(* The stack of open listings, as a set of frames. *)

Stacked(s) == {s[i] : i \in 1..Len(s)}

LEMMA StackFacts ==
  ASSUME NEW s \in Seq(Frames), NEW f \in Frames, NEW g \in Frames
  PROVE  /\ <<f>> \o s \in Seq(Frames) /\ Stacked(<<f>> \o s) = {f} \cup Stacked(s)
         /\ <<f, g>> \o s \in Seq(Frames) /\ Stacked(<<f, g>> \o s) = {f, g} \cup Stacked(s)
<1>1. ASSUME NEW h \in Seq(Frames), Len(h) \in Nat
      PROVE  /\ h \o s \in Seq(Frames) /\ Stacked(h \o s) = Stacked(h) \cup Stacked(s)
  <2>1. /\ h \o s \in Seq(Frames) /\ Len(h \o s) = Len(h) + Len(s)
        /\ \A i \in 1..(Len(h) + Len(s)) :
             (h \o s)[i] = IF i <= Len(h) THEN h[i] ELSE s[i - Len(h)]
    OBVIOUS
  <2> DEFINE c == h \o s
  <2> HIDE DEF c
  <2>2. Stacked(c) \subseteq Stacked(h) \cup Stacked(s)
    <3>1. ASSUME NEW i \in 1..Len(c) PROVE c[i] \in Stacked(h) \cup Stacked(s)
      <4>1. CASE i <= Len(h)
        BY <1>1, <2>1, <4>1 DEF Stacked, c
      <4>2. CASE ~ (i <= Len(h))
        <5>1. i - Len(h) \in 1..Len(s)  BY <1>1, <2>1, <4>2 DEF c
        <5>2. c[i] = s[i - Len(h)]  BY <2>1, <4>2 DEF c
        <5>3. QED  BY <5>1, <5>2 DEF Stacked
      <4>3. QED  BY <4>1, <4>2
    <3>2. QED  BY <3>1 DEF Stacked
  <2>3. Stacked(h) \subseteq Stacked(c)
    <3>1. ASSUME NEW i \in 1..Len(h) PROVE i \in 1..Len(c) /\ c[i] = h[i]
      BY <1>1, <2>1 DEF c
    <3>2. QED  BY <3>1 DEF Stacked
  <2>4. Stacked(s) \subseteq Stacked(c)
    <3>1. ASSUME NEW i \in 1..Len(s)
          PROVE i + Len(h) \in 1..Len(c) /\ c[i + Len(h)] = s[i]
      <4>1. i + Len(h) \in 1..(Len(h) + Len(s)) /\ ~ (i + Len(h) <= Len(h))
            /\ (i + Len(h)) - Len(h) = i
        BY <1>1
      <4>2. QED  BY <2>1, <4>1 DEF c
    <3>2. QED  BY <3>1 DEF Stacked
  <2>5. QED  BY <2>1, <2>2, <2>3, <2>4 DEF c
<1>2. /\ <<f>> \in Seq(Frames) /\ Len(<<f>>) = 1 /\ Stacked(<<f>>) = {f}
      /\ <<f, g>> \in Seq(Frames) /\ Len(<<f, g>>) = 2 /\ Stacked(<<f, g>>) = {f, g}
  <2>1. \A i \in 1..1 : i = 1  OBVIOUS
  <2>2. \A i \in 1..2 : i = 1 \/ i = 2  OBVIOUS
  <2>3. Len(<<f>>) = 1 /\ <<f>>[1] = f /\ Len(<<f, g>>) = 2 /\ <<f, g>>[1] = f /\ <<f, g>>[2] = g
    OBVIOUS
  <2>4. Stacked(<<f>>) = {f}  BY <2>1, <2>3 DEF Stacked
  <2>5. Stacked(<<f, g>>) = {f, g}
    <3>1. 1 \in 1..2 /\ 2 \in 1..2  OBVIOUS
    <3>2. QED  BY <3>1, <2>2, <2>3 DEF Stacked
  <2>6. QED  BY <2>3, <2>4, <2>5
<1>3. QED  BY <1>1, <1>2

LEMMA TopFacts ==
  ASSUME NEW s \in Seq(Frames), s # <<>>
  PROVE  /\ Tail(s) \in Seq(Frames) /\ s[1] \in Frames
         /\ Stacked(s) = {s[1]} \cup Stacked(Tail(s))
<1>1. /\ Len(s) \in Nat \ {0} /\ Tail(s) \in Seq(Frames) /\ Len(Tail(s)) = Len(s) - 1
      /\ \A i \in 1..(Len(s) - 1) : Tail(s)[i] = s[i + 1]
  OBVIOUS
<1> DEFINE t == Tail(s)
<1> HIDE DEF t
<1>2. s[1] \in Stacked(s) /\ s[1] \in Frames  BY <1>1 DEF Stacked
<1>3. ASSUME NEW i \in 1..Len(s) PROVE s[i] \in {s[1]} \cup Stacked(t)
  <2>1. CASE i = 1  BY <2>1
  <2>2. CASE i # 1
    <3>1. i - 1 \in 1..Len(t) /\ t[i - 1] = s[(i - 1) + 1] /\ (i - 1) + 1 = i
      BY <1>1, <2>2 DEF t
    <3>2. QED  BY <3>1 DEF Stacked
  <2>3. QED  BY <2>1, <2>2
<1>4. ASSUME NEW i \in 1..Len(t) PROVE t[i] \in Stacked(s)
  <2>1. i + 1 \in 1..Len(s) /\ t[i] = s[i + 1]  BY <1>1 DEF t
  <2>2. QED  BY <2>1 DEF Stacked
<1>5. Stacked(s) \subseteq {s[1]} \cup Stacked(t)  BY <1>3 DEF Stacked
<1>6. Stacked(t) \subseteq Stacked(s)  BY <1>4 DEF Stacked
<1>7. QED  BY <1>1, <1>2, <1>5, <1>6 DEF t

LEMMA EmptyStack == <<>> \in Seq(Frames) /\ Stacked(<<>>) = {}
<1>1. Len(<<>>) = 0 /\ \A i \in 1..0 : FALSE  OBVIOUS
<1>2. QED  BY <1>1 DEF Stacked

-----------------------------------------------------------------------------
(* Types, and what the platform lets be moved. *)

LEMMA InitTypes == Init => TypeOK /\ Kinds(parent)
<1>1. SUFFICES ASSUME Init PROVE TypeOK /\ Kinds(parent)  OBVIOUS
<1>2. Len(Sources) \in Nat  BY ConstantsAssumption
<1>3. source \in 0..Len(Sources) /\ changes \in 0..MaxChanges /\ faults \in 0..MaxFaults
  BY <1>1, <1>2, ConstantsAssumption DEF Init
<1>4. QED
  BY <1>1, <1>3, EmptyStack, ConstantsAssumption, InitAssumption DEF Init, TypeOK, Places

LEMMA NextTypes == TypeOK /\ [Next]_vars => TypeOK'
<1>1. SUFFICES ASSUME TypeOK, [Next]_vars PROVE TypeOK'  OBVIOUS
<1>2. Len(Sources) \in Nat /\ MaxChanges \in Nat /\ MaxFaults \in Nat  BY ConstantsAssumption
<1>3. CASE UNCHANGED vars
  BY <1>1, <1>3 DEF TypeOK, vars, remote, walk
<1>4. CASE Move
  <2>1. changes' \in 0..MaxChanges  BY <1>1, <1>2, <1>4 DEF Move, TypeOK
  <2>2. QED  BY <1>1, <1>4, <2>1 DEF TypeOK, Move, walk
<1>5. CASE Fail
  <2>1. faults' \in 0..MaxFaults  BY <1>1, <1>2, <1>5 DEF Fail, TypeOK
  <2>2. QED  BY <1>1, <1>5, <2>1, EmptyStack DEF TypeOK, Fail, remote
<1>6. CASE StartWalk
  <2>1. 0 \in 0..Len(Sources)  BY <1>2
  <2>2. [d \in Docs |-> Nowhere] \in [Docs -> Places]  BY DEF Places
  <2>3. QED  BY <1>1, <1>6, <2>1, <2>2, EmptyStack DEF TypeOK, StartWalk, remote
<1>7. CASE EnterSource
  <2>1. source + 1 \in 0..Len(Sources) /\ source + 1 \in 1..Len(Sources)
    BY <1>1, <1>2, <1>7 DEF EnterSource, TypeOK
  <2>2. Sources[source + 1] \in Roots  BY <2>1 DEF Roots
  <2>3. Frame(Sources[source + 1], {}, {}, TRUE) \in Frames  BY <2>2 DEF Frame, Frames
  <2>4. QED  BY <1>1, <1>7, <2>1, <2>3, StackFacts DEF TypeOK, EnterSource, Open, remote
<1>8. ASSUME stack # <<>> PROVE Top \in Frames /\ Tail(stack) \in Seq(Frames)
  BY <1>1, <1>8, TopFacts DEF TypeOK, Top
<1>9. CASE ListNodes
  <2> DEFINE f == Frame(Top.at, {[doc |-> d, deep |-> Children(d) # {}] : d \in Children(Top.at)},
                        Children(Top.at), FALSE)
  <2>1. \A d \in Children(Top.at) : [doc |-> d, deep |-> Children(d) # {}] \in Entries
    BY DEF Children, Entries
  <2>2. f \in Frames
    BY <1>8, <1>9, <2>1 DEF ListNodes, Frame, Frames, Children
  <2>3. stack' = <<f>> \o Tail(stack)  BY <1>9 DEF ListNodes, Replace
  <2> HIDE DEF f
  <2>4. stack' \in Seq(Frames)  BY <1>8, <1>9, <2>2, <2>3, StackFacts DEF ListNodes
  <2>5. QED  BY <1>1, <1>9, <2>4 DEF TypeOK, ListNodes, remote
<1>10. CASE ListFiles
  <2>1. PICK files \in SUBSET Docs :
          Replace(Frame(Top.at, {[doc |-> d, deep |-> d \in Folders] : d \in files},
                        Top.seen \cup files, HasMore(Top.at, Top.seen \cup files)))
    BY <1>10 DEF ListFiles
  <2> DEFINE f == Frame(Top.at, {[doc |-> d, deep |-> d \in Folders] : d \in files},
                        Top.seen \cup files, HasMore(Top.at, Top.seen \cup files))
  <2>2. \A d \in files : [doc |-> d, deep |-> d \in Folders] \in Entries  BY DEF Entries
  <2>3. f \in Frames
    BY <1>8, <1>10, <2>2 DEF ListFiles, Frame, Frames, HasMore
  <2>4. stack' = <<f>> \o Tail(stack)  BY <2>1 DEF Replace
  <2> HIDE DEF f
  <2>5. stack' \in Seq(Frames)  BY <1>8, <1>10, <2>3, <2>4, StackFacts DEF ListFiles
  <2>6. QED  BY <1>1, <1>10, <2>5 DEF TypeOK, ListFiles, remote
<1>11. CASE Add
  <2>1. PICK entry \in Top.todo :
          LET rest == [Top EXCEPT !.todo = @ \ {entry}]
          IN /\ found' = [found EXCEPT ![entry.doc] = Top.at]
             /\ IF entry.deep
                THEN stack' = <<Frame(entry.doc, {}, {}, TRUE), rest>> \o Tail(stack)
                ELSE Replace(rest)
    BY <1>11 DEF Add
  <2> DEFINE rest == [Top EXCEPT !.todo = @ \ {entry}]
             below == Frame(entry.doc, {}, {}, TRUE)
  <2>2. entry.doc \in Docs /\ Top.at \in Docs \cup Roots
    BY <1>8, <1>11 DEF Add, Frames, Entries
  <2>3. rest \in Frames  BY <1>8, <1>11 DEF Add, Frames
  <2>4. below \in Frames  BY <2>2 DEF Frame, Frames
  <2>5. found' \in [Docs -> Places]  BY <1>1, <2>1, <2>2 DEF TypeOK, Places
  <2>6. stack' = <<below, rest>> \o Tail(stack) \/ stack' = <<rest>> \o Tail(stack)
    BY <2>1 DEF Replace
  <2> HIDE DEF rest, below
  <2>7. stack' \in Seq(Frames)
    <3>1. Tail(stack) \in Seq(Frames)  BY <1>8, <1>11 DEF Add
    <3>2. <<rest>> \o Tail(stack) \in Seq(Frames)  BY <2>3, <3>1, StackFacts
    <3>3. <<below, rest>> \o Tail(stack) \in Seq(Frames)  BY <2>3, <2>4, <3>1, StackFacts
    <3>4. QED  BY <2>6, <3>2, <3>3
  <2>8. QED  BY <1>1, <1>11, <2>5, <2>7 DEF TypeOK, Add, remote
<1>12. CASE Return
  BY <1>1, <1>8, <1>12 DEF TypeOK, Return, remote
<1>13. CASE EndWalk
  BY <1>1, <1>13 DEF TypeOK, EndWalk, remote, walk
<1>14. CASE Round
  BY <1>1, <1>14 DEF TypeOK, Round, remote, walk
<1>15. QED
  BY <1>1, <1>3, <1>4, <1>5, <1>6, <1>7, <1>9, <1>10, <1>11, <1>12, <1>13, <1>14 DEF Next, Step

\* The variables of FeishuWalk keep their types.
THEOREM TypeCorrect == Spec => []TypeOK
<1>1. Init => TypeOK  BY InitTypes
<1>2. QED  BY <1>1, NextTypes, PTL DEF Spec

\* No folder comes into the wiki, and nothing comes to lie in a file.
LEMMA FoldersAreNotInWiki ==
  ASSUME TypeOK, Kinds(parent), NEW n \in Docs, InWiki(n)
  PROVE  n \notin Folders /\ parent[n] \notin Folders \cup {Drive}
<1> DEFINE S == {n} \cup Folders \cup {Drive, Nowhere}
<1>1. SUFFICES ASSUME n \in Folders \/ parent[n] \in Folders \cup {Drive} PROVE FALSE
  OBVIOUS
<1>2. Wiki \in Roots /\ Drive \in Roots /\ Wiki # Drive  BY ConstantsAssumption
<1>3. Wiki \notin S  BY <1>2, RootsAreNoDocs, ConstantsAssumption
<1>4. \A e \in S \cap Docs : parent[e] \in S
  BY <1>1, <1>2, RootsAreNoDocs, ConstantsAssumption DEF Kinds
<1>5. Lineage(parent, n) \subseteq S
  <2>1. N \in 0..N /\ Lineage(parent, n) = Climb(parent, n)[N]  BY Bounded DEF Lineage, N
  <2>2. n \in S  OBVIOUS
  <2> HIDE DEF S
  <2>3. QED  BY <1>4, <2>1, <2>2, ClimbStays
<1>6. QED  BY <1>2, <1>3, <1>5, RootsAreNoDocs DEF InWiki

LEMMA NextKinds == TypeOK /\ Kinds(parent) /\ [Next]_vars => Kinds(parent')
<1>1. SUFFICES ASSUME TypeOK, Kinds(parent), [Next]_vars PROVE Kinds(parent')  OBVIOUS
<1>2. CASE Move
  <2>1. PICK d \in Docs, n \in Places : CanHold(n, d) /\ parent' = [parent EXCEPT ![d] = n]
    BY <1>2 DEF Move
  <2>2. /\ parent'[d] = n /\ \A e \in Docs \ {d} : parent'[e] = parent[e]
    BY <1>1, <2>1 DEF TypeOK
  <2>3. Wiki \in Roots /\ Drive \in Roots /\ Wiki # Drive /\ Folders \subseteq Docs
    BY ConstantsAssumption
  <2>4. InWiki(n) => n \notin Folders \cup {Drive}
    BY <1>1, <2>3, FoldersAreNotInWiki, RootsAreNoDocs DEF InWiki
  <2>5. d \in Folders => n \in Folders \cup {Drive, Nowhere}
    BY <2>1 DEF CanHold
  <2>6. n \in Folders \cup {Drive} => d \in Folders \/ Children(d) = {}
    BY <2>1, <2>3, <2>4, RootsAreNoDocs DEF CanHold
  <2>7. ASSUME NEW e \in Docs, NEW c \in Docs,
               parent'[e] \in Folders \cup {Drive}, parent'[c] = e
        PROVE  e \in Folders
    <3>1. CASE c = d
      <4>1. n = e /\ n \in Docs  BY <2>2, <2>7, <3>1
      <4>2. n \in Folders \/ InWiki(n)  BY <2>1, <2>3, <4>1, RootsAreNoDocs DEF CanHold
      <4>3. InWiki(n) => n # d /\ parent[n] \notin Folders \cup {Drive}
        <5>1. n # d
          BY <2>1, <4>1, ClimbGrows, Bounded DEF CanHold, Lineage, N
        <5>2. QED  BY <1>1, <4>1, <5>1, FoldersAreNotInWiki
      <4>4. QED  BY <2>2, <2>7, <4>1, <4>2, <4>3
    <3>2. CASE c # d /\ e = d
      BY <2>2, <2>6, <2>7, <3>2 DEF Children
    <3>3. CASE c # d /\ e # d
      BY <1>1, <2>2, <2>7, <3>3 DEF Kinds
    <3>4. QED  BY <3>1, <3>2, <3>3
  <2>8. \A f \in Folders : parent'[f] \in Folders \cup {Drive, Nowhere}
    BY <1>1, <2>2, <2>3, <2>5 DEF Kinds
  <2>9. QED  BY <2>7, <2>8 DEF Kinds
<1>3. CASE UNCHANGED parent
  BY <1>1, <1>3
<1>4. Move \/ UNCHANGED parent
  BY <1>1 DEF Next, Step, StartWalk, EnterSource, ListNodes, ListFiles, Add, Return, EndWalk,
              Round, Fail, vars, remote
<1>5. QED  BY <1>2, <1>3, <1>4

-----------------------------------------------------------------------------
(* What an open listing knows, and what follows when it is closed. *)

Still == Docs \ moved

\* A listing's entries and what it has seen are children of its node, unless
\* they moved since; an entry above a document that is still there is walked; what
\* was seen is an entry or found; and when no page is left all was seen.
FrameOK(f) ==
  /\ \A entry \in f.todo : entry.doc \in Still => parent[entry.doc] = f.at
  /\ \A entry \in f.todo, c \in Still : parent[c] = entry.doc => entry.deep
  /\ \A d \in f.seen \cap Still : (\E entry \in f.todo : entry.doc = d) \/ found[d] = parent[d]
  /\ ~ f.more => \A d \in Still : parent[d] = f.at => d \in f.seen

Opened(n) == \E f \in Stacked(stack) : f.at = n

\* The walk has come to this node: no listing of it is still to be opened.
Reached(n) ==
  IF n \in Roots THEN \A i \in (source + 1)..Len(Sources) : Sources[i] # n
  ELSE n \in Still /\ parent[n] # Nowhere /\ found[n] = parent[n]

Covered == \A d \in Still : Reached(parent[d]) => Opened(parent[d]) \/ found[d] = parent[d]

WalkInv ==
  /\ TypeOK /\ Kinds(parent)
  /\ pc = "walk" => (\A f \in Stacked(stack) : FrameOK(f)) /\ Covered
  /\ RestingIsFound

\* The walk is over: by induction on the height above, all that rests is found.
LEMMA RestingParents ==
  ASSUME TypeOK, NEW d \in Docs, Rested(d)
  PROVE  /\ d \in Still /\ parent[d] # Nowhere /\ parent[d] \in Docs \cup Roots
         /\ parent[d] \in Docs => Rested(parent[d])
         /\ \A n \in Height(parent, d) : n \in 1..N /\ n - 1 \in Height(parent, parent[d])
<1>1. Attached(parent, d) /\ Lineage(parent, d) \cap moved = {}  BY DEF Rested
<1>2. d \in Still  BY <1>1, LineageIsClosed DEF Still
<1>3. parent[d] # Nowhere
  <2>1. SUFFICES ASSUME parent[d] = Nowhere PROVE FALSE  OBVIOUS
  <2>2. Lineage(parent, Nowhere) \subseteq {Nowhere}
    <3>1. N \in 0..N /\ Lineage(parent, Nowhere) = Climb(parent, Nowhere)[N]
      BY Bounded DEF Lineage, N
    <3>2. {Nowhere} \cap Docs = {}  BY RootsAreNoDocs
    <3>3. QED  BY <3>1, <3>2, ClimbStays
  <2>3. Attached(parent, Nowhere)  BY <1>1, <2>1, ParentIsNearer
  <2>4. QED  BY <2>2, <2>3, RootsAreNoDocs DEF Attached
<1>4. parent[d] \in Docs \cup Roots  BY <1>3 DEF TypeOK, Places
<1>5. QED  BY <1>1, <1>2, <1>3, <1>4, ParentIsNearer DEF Rested

LEMMA WalkIsComplete ==
  ASSUME TypeOK, Covered, stack = <<>>, source = Len(Sources)
  PROVE  \A d \in Docs : Rested(d) => found[d] = parent[d] /\ d \in Present
<1> DEFINE T == {n \in 0..N : \E d \in Docs : Rested(d) /\ found[d] # parent[d]
                                              /\ n \in Height(parent, d)}
<1>1. T = {}
  <2>1. SUFFICES ASSUME T # {} PROVE FALSE  OBVIOUS
  <2>2. PICK n \in T : n = 0 \/ (n \in 1..N /\ n - 1 \in 0..N /\ n - 1 \notin T)
    <3>1. T \in SUBSET (0..N)  OBVIOUS
    <3> HIDE DEF T
    <3>2. QED  BY <2>1, <3>1, LeastException
  <2>3. PICK d \in Docs : Rested(d) /\ found[d] # parent[d] /\ n \in Height(parent, d)
    BY <2>2
  <2> DEFINE p == parent[d]
  <2>4. /\ d \in Still /\ p \in Docs \cup Roots /\ (p \in Docs => Rested(p))
        /\ n \in 1..N /\ n - 1 \in Height(parent, p)
    BY <2>3, RestingParents
  <2>5. n - 1 \in 0..N /\ n - 1 \notin T
    <3>1. n # 0  BY <2>4
    <3>2. QED  BY <2>2, <3>1
  <2>6. ~ Opened(p)  BY EmptyStack DEF Opened
  <2>7. Reached(p)
    <3>1. CASE p \in Roots
      <4>1. \A i \in (source + 1)..Len(Sources) : FALSE
        BY ConstantsAssumption
      <4>2. QED  BY <3>1, <4>1 DEF Reached
    <3>2. CASE p \in Docs
      <4>1. found[p] = parent[p]  BY <2>4, <2>5, <3>2
      <4>2. p \in Still /\ parent[p] # Nowhere  BY <2>4, <3>2, RestingParents
      <4>3. QED  BY <3>2, <4>1, <4>2, RootsAreNoDocs DEF Reached
    <3>3. QED  BY <2>4, <3>1, <3>2
  <2>8. QED  BY <2>3, <2>4, <2>6, <2>7 DEF Covered
<1>2. ASSUME NEW d \in Docs, Rested(d) PROVE found[d] = parent[d]
  <2>1. Height(parent, d) # {}  BY <1>2, AttachedHeight DEF Rested
  <2>2. PICK n \in Height(parent, d) : TRUE  BY <2>1
  <2>3. n \in 0..N  BY <2>2 DEF Height
  <2>4. QED  BY <1>1, <1>2, <2>2, <2>3
<1>3. ASSUME NEW d \in Docs, Rested(d) PROVE d \in Present
  <2> DEFINE S == {e \in Lineage(parent, d) : e \in Docs => Rested(e)}
  <2>1. Attached(parent, d)  BY <1>3 DEF Rested
  <2>2. d \in S  BY <1>3, <2>1, LineageIsClosed
  <2>3. \A e \in S \cap Docs : parent[e] \in S
    BY <2>1, LineageIsClosed, RestingParents
  <2>4. Lineage(parent, d) \subseteq S
    <3>1. N \in 0..N /\ Lineage(parent, d) = Climb(parent, d)[N]  BY Bounded DEF Lineage, N
    <3> HIDE DEF S
    <3>2. QED  BY <2>2, <2>3, <3>1, ClimbStays
  <2>5. \A e \in Lineage(parent, d) \cap Docs : found[e] = parent[e]
    BY <1>2, <2>4
  <2>6. Lineage(found, d) = Lineage(parent, d)
    <3>1. N \in 0..N  BY Bounded
    <3>2. QED  BY <2>5, <3>1, ClimbAgrees DEF Lineage, N
  <2>7. found[d] # Nowhere  BY <1>2, <1>3, RestingParents
  <2>8. QED  BY <2>1, <2>6, <2>7 DEF Present, Attached
<1>4. QED  BY <1>2, <1>3

-----------------------------------------------------------------------------
(* The steps. *)

\* What moved now did not rest, and what rests has not moved.
LEMMA RestedBefore ==
  ASSUME TypeOK, Move, NEW d \in Docs, Rested(d)'
  PROVE  Rested(d) /\ parent'[d] = parent[d]
<1>1. PICK m \in Docs, n \in Places : parent' = [parent EXCEPT ![m] = n] /\ moved' = moved \cup {m}
  BY DEF Move
<1>2. Lineage(parent', d) \cap moved' = {} /\ Attached(parent', d)
  BY DEF Rested, Attached, Lineage
<1>3. \A e \in Lineage(parent', d) \cap Docs : parent[e] = parent'[e]
  BY <1>1, <1>2 DEF TypeOK
<1>4. Lineage(parent, d) = Lineage(parent', d)
  <2>1. N \in 0..N  BY Bounded
  <2>2. QED  BY <1>3, <2>1, ClimbAgrees DEF Lineage, N
<1>5. d \in Lineage(parent', d)
  BY <1>2, LineageIsClosed
<1>6. QED  BY <1>1, <1>2, <1>3, <1>4, <1>5 DEF Rested, Attached

\* What a frame says stays true when documents move and when more is found.
LEMMA FramesStay ==
  ASSUME NEW f \in Frames, FrameOK(f), moved \subseteq moved',
         \A d \in Docs \ moved' : parent'[d] = parent[d],
         \A d \in Docs \ moved' : found[d] = parent[d] => found'[d] = parent[d]
  PROVE  FrameOK(f)'
<1>1. \A d \in Still' : d \in Still /\ parent'[d] = parent[d]
                        /\ (found[d] = parent[d] => found'[d] = parent'[d])
  BY DEF Still
<1>2. \A entry \in f.todo : entry.doc \in Still' => parent'[entry.doc] = f.at
  BY <1>1 DEF FrameOK
<1>3. \A entry \in f.todo, c \in Still' : parent'[c] = entry.doc => entry.deep
  BY <1>1 DEF FrameOK
<1>4. \A d \in f.seen \cap Still' :
        (\E entry \in f.todo : entry.doc = d) \/ found'[d] = parent'[d]
  BY <1>1 DEF FrameOK
<1>5. ~ f.more => \A d \in Still' : parent'[d] = f.at => d \in f.seen
  BY <1>1 DEF FrameOK
<1>6. QED  BY <1>2, <1>3, <1>4, <1>5 DEF FrameOK

\* A new listing has nothing to say yet.
LEMMA NewFrame ==
  ASSUME NEW n
  PROVE  /\ FrameOK(Frame(n, {}, {}, TRUE)) /\ FrameOK(Frame(n, {}, {}, TRUE))'
         /\ Frame(n, {}, {}, TRUE).at = n
BY DEF FrameOK, Frame

\* The listing at the top is replaced by one of the same node that is right.
LEMMA ListingKeeps ==
  ASSUME TypeOK, \A f \in Stacked(stack) : FrameOK(f), Covered, stack # <<>>,
         NEW g \in Frames, Replace(g), g.at = Top.at, FrameOK(g),
         UNCHANGED <<parent, moved, found, source>>
  PROVE  (\A f \in Stacked(stack)' : FrameOK(f)') /\ Covered'
<1>1. /\ Tail(stack) \in Seq(Frames) /\ Top \in Frames
      /\ Stacked(stack) = {Top} \cup Stacked(Tail(stack))
  BY TopFacts DEF TypeOK, Top
<1>2. Stacked(stack)' = {g} \cup Stacked(Tail(stack))
  BY <1>1, StackFacts DEF Replace
<1>3. \A f : FrameOK(f)' <=> FrameOK(f)
  BY DEF FrameOK, Still
<1>4. \A f \in Stacked(stack)' : FrameOK(f)'
  BY <1>1, <1>2, <1>3
<1>5. \A n : Opened(n) => Opened(n)'
  BY <1>1, <1>2 DEF Opened
<1>6. \A n : Reached(n)' => Reached(n)
  BY DEF Reached, Still
<1>7. Covered'
  BY <1>5, <1>6 DEF Covered, Still
<1>8. QED  BY <1>4, <1>7

LEMMA ListNodesKeeps ==
  ASSUME TypeOK, \A f \in Stacked(stack) : FrameOK(f), Covered, ListNodes
  PROVE  (\A f \in Stacked(stack)' : FrameOK(f)') /\ Covered'
<1> DEFINE Deep(d) == Children(d) # {}
           E(d) == [doc |-> d, deep |-> Deep(d)]
           listed == {E(d) : d \in Children(Top.at)}
           g == Frame(Top.at, listed, Children(Top.at), FALSE)
<1>1. stack # <<>> /\ Replace(g) /\ UNCHANGED <<parent, moved, found, source>>
  BY DEF ListNodes, remote
<1>2. Top \in Frames  BY <1>1, TopFacts DEF TypeOK, Top
<1> HIDE DEF Deep
<1>3. \A d : Deep(d) \in BOOLEAN /\ (Deep(d) <=> Children(d) # {})
  BY DEF Deep
<1>4. /\ \A entry \in listed : /\ entry \in Entries /\ entry.doc \in Children(Top.at)
                               /\ entry.deep = Deep(entry.doc)
      /\ \A d \in Children(Top.at) : \E entry \in listed : entry.doc = d
  <2>1. \A d \in Children(Top.at) : E(d) \in Entries /\ E(d).doc = d /\ E(d).deep = Deep(d)
    BY <1>3 DEF Entries, Children
  <2> HIDE DEF E
  <2>2. QED  BY <2>1
<1> HIDE DEF listed
<1>5. /\ g.at = Top.at /\ g.todo = listed /\ g.seen = Children(Top.at) /\ ~ g.more
  BY DEF Frame
<1>6. g \in Frames
  BY <1>2, <1>4 DEF Frames, Frame, Children
<1>7. FrameOK(g)
  <2>1. \A entry \in listed : parent[entry.doc] = Top.at  BY <1>4 DEF Children
  <2>2. \A entry \in listed, c \in Still : parent[c] = entry.doc => entry.deep
    BY <1>3, <1>4 DEF Children, Still
  <2>3. \A d \in Still : parent[d] = Top.at => d \in Children(Top.at)
    BY DEF Children, Still
  <2> HIDE DEF g
  <2>4. QED  BY <1>4, <1>5, <2>1, <2>2, <2>3 DEF FrameOK
<1> HIDE DEF g
<1>8. QED  BY <1>1, <1>5, <1>6, <1>7, ListingKeeps

LEMMA ListFilesKeeps ==
  ASSUME TypeOK, Kinds(parent), \A f \in Stacked(stack) : FrameOK(f), Covered, ListFiles
  PROVE  (\A f \in Stacked(stack)' : FrameOK(f)') /\ Covered'
<1>1. /\ stack # <<>> /\ Top.todo = {} /\ Top.at \in Folders \cup {Drive}
      /\ UNCHANGED <<parent, moved, found, source>>
  BY DEF ListFiles, remote
<1>2. PICK files \in SUBSET Docs :
        /\ Page(Top.at, Top.seen, files)
        /\ Replace(Frame(Top.at, {[doc |-> d, deep |-> d \in Folders] : d \in files},
                         Top.seen \cup files, HasMore(Top.at, Top.seen \cup files)))
  BY DEF ListFiles
<1> DEFINE Deep(d) == d \in Folders
           E(d) == [doc |-> d, deep |-> Deep(d)]
           listed == {E(d) : d \in files}
           g == Frame(Top.at, listed, Top.seen \cup files, HasMore(Top.at, Top.seen \cup files))
<1> HIDE DEF Deep
<1>3. Top \in Frames /\ FrameOK(Top)
  <2>1. Top \in Frames /\ Top \in Stacked(stack)  BY <1>1, TopFacts DEF TypeOK, Top
  <2>2. QED  BY <2>1
<1>4. \A d : Deep(d) \in BOOLEAN /\ (Deep(d) <=> d \in Folders)
  BY DEF Deep
<1>5. /\ \A entry \in listed : /\ entry \in Entries /\ entry.doc \in files
                               /\ entry.deep = Deep(entry.doc)
      /\ \A d \in files : \E entry \in listed : entry.doc = d
  <2>1. \A d \in files : E(d) \in Entries /\ E(d).doc = d /\ E(d).deep = Deep(d)
    BY <1>4 DEF Entries
  <2> HIDE DEF E
  <2>2. QED  BY <2>1
<1> HIDE DEF listed
<1>6. /\ g.at = Top.at /\ g.todo = listed /\ g.seen = Top.seen \cup files
      /\ (~ g.more => Children(Top.at) \subseteq Top.seen \cup files)
  BY DEF Frame, HasMore
<1>7. g \in Frames
  BY <1>3, <1>5 DEF Frames, Frame, HasMore
<1>8. FrameOK(g)
  <2>1. \A entry \in listed : parent[entry.doc] = Top.at
    BY <1>2, <1>5 DEF Children, Page
  <2>2. \A entry \in listed, c \in Still : parent[c] = entry.doc => entry.deep
    BY <1>1, <1>4, <1>5, <2>1 DEF Kinds, Still
  <2>3. \A d \in (Top.seen \cup files) \cap Still :
          (\E entry \in listed : entry.doc = d) \/ found[d] = parent[d]
    BY <1>1, <1>3, <1>5 DEF FrameOK
  <2>4. ~ g.more => \A d \in Still : parent[d] = Top.at => d \in Top.seen \cup files
    BY <1>6 DEF Children, Still
  <2> HIDE DEF g
  <2>5. QED  BY <1>6, <2>1, <2>2, <2>3, <2>4 DEF FrameOK
<1>9. Replace(g)  BY <1>2 DEF listed, Deep
<1> HIDE DEF g
<1>10. QED  BY <1>1, <1>6, <1>7, <1>8, <1>9, ListingKeeps

LEMMA AddKeeps ==
  ASSUME TypeOK, \A f \in Stacked(stack) : FrameOK(f), Covered, Add
  PROVE  (\A f \in Stacked(stack)' : FrameOK(f)') /\ Covered'
<1>1. stack # <<>> /\ UNCHANGED <<parent, moved, source>>
  BY DEF Add, remote
<1>2. PICK entry \in Top.todo :
        LET rest == [Top EXCEPT !.todo = @ \ {entry}]
        IN /\ found' = [found EXCEPT ![entry.doc] = Top.at]
           /\ IF entry.deep
              THEN stack' = <<Frame(entry.doc, {}, {}, TRUE), rest>> \o Tail(stack)
              ELSE Replace(rest)
  BY DEF Add
<1> DEFINE d == entry.doc
           below == Frame(d, {}, {}, TRUE)
<1> PICK rest : rest = [Top EXCEPT !.todo = @ \ {entry}]
  OBVIOUS
<1>3. /\ Tail(stack) \in Seq(Frames) /\ Top \in Frames
      /\ Stacked(stack) = {Top} \cup Stacked(Tail(stack)) /\ FrameOK(Top)
  <2>1. /\ Tail(stack) \in Seq(Frames) /\ Top \in Frames
        /\ Stacked(stack) = {Top} \cup Stacked(Tail(stack))
    BY <1>1, TopFacts DEF TypeOK, Top
  <2>2. QED  BY <2>1
<1>4. d \in Docs /\ rest \in Frames /\ below \in Frames
  BY <1>2, <1>3 DEF Frames, Entries, Frame
<1>5. /\ rest.at = Top.at /\ rest.todo = Top.todo \ {entry} /\ rest.seen = Top.seen
      /\ rest.more = Top.more
  BY <1>3 DEF Frames
<1>6. found'[d] = Top.at /\ \A e \in Docs \ {d} : found'[e] = found[e]
  BY <1>2, <1>4 DEF TypeOK
<1>7. d \in Still => parent[d] = Top.at
  BY <1>2, <1>3 DEF FrameOK
<1>8. \A e \in Docs \ moved' : found[e] = parent[e] => found'[e] = parent[e]
  BY <1>1, <1>6, <1>7 DEF Still
<1>9. IF entry.deep THEN stack' = <<below, rest>> \o Tail(stack) ELSE stack' = <<rest>> \o Tail(stack)
  BY <1>2 DEF Replace
<1> HIDE DEF below
<1>10. /\ entry.deep => Stacked(stack)' = {below, rest} \cup Stacked(Tail(stack))
       /\ ~ entry.deep => Stacked(stack)' = {rest} \cup Stacked(Tail(stack))
  <2>1. Stacked(<<below, rest>> \o Tail(stack)) = {below, rest} \cup Stacked(Tail(stack))
    BY <1>3, <1>4, StackFacts
  <2>2. Stacked(<<rest>> \o Tail(stack)) = {rest} \cup Stacked(Tail(stack))
    BY <1>3, <1>4, StackFacts
  <2>3. Stacked(stack)' = Stacked(stack')  BY DEF Stacked
  <2>4. QED  BY <1>9, <2>1, <2>2, <2>3
<1>11. FrameOK(rest)'
  <2>1. Still' = Still  BY <1>1 DEF Still
  <2>2. \A e \in rest.todo : e \in Top.todo  BY <1>5
  <2>3. \A e \in rest.seen \cap Still' : (\E en \in rest.todo : en.doc = e) \/ found'[e] = parent'[e]
    <3>1. TAKE e \in rest.seen \cap Still'
    <3>2. e \in Docs /\ e \in Top.seen \cap Still  BY <1>5, <2>1 DEF Still
    <3>3. CASE e = d
      BY <1>1, <1>6, <1>7, <3>2, <3>3
    <3>4. CASE e # d
      <4>1. (\E en \in Top.todo : en.doc = e) \/ found[e] = parent[e]
        BY <1>3, <3>2 DEF FrameOK
      <4>2. QED  BY <1>1, <1>5, <1>6, <3>2, <3>4, <4>1
    <3>5. QED  BY <3>3, <3>4
  <2>4. \A en \in rest.todo : en.doc \in Still' => parent'[en.doc] = rest.at
    BY <1>1, <1>3, <1>5, <2>1, <2>2 DEF FrameOK
  <2>5. \A en \in rest.todo, c \in Still' : parent'[c] = en.doc => en.deep
    BY <1>1, <1>3, <2>1, <2>2 DEF FrameOK
  <2>6. ~ rest.more => \A e \in Still' : parent'[e] = rest.at => e \in rest.seen
    BY <1>1, <1>3, <1>5, <2>1 DEF FrameOK
  <2>7. QED  BY <2>3, <2>4, <2>5, <2>6 DEF FrameOK
<1>12. \A f \in Stacked(Tail(stack)) : FrameOK(f)'
  <2>1. \A f \in Stacked(Tail(stack)) : f \in Frames /\ FrameOK(f)
    BY <1>3 DEF Stacked
  <2>2. QED  BY <1>1, <1>8, <2>1, FramesStay
<1>13. FrameOK(below)' /\ below.at = d  BY NewFrame DEF below
<1>14. \A f \in Stacked(stack)' : FrameOK(f)'
  BY <1>10, <1>11, <1>12, <1>13
<1>15. \A n : Opened(n) => Opened(n)'
  BY <1>3, <1>5, <1>10 DEF Opened
<1>16. ASSUME NEW c \in Still', NEW p, p = parent'[c], Reached(p)'
       PROVE  Opened(p)' \/ found'[c] = p
  <2>1. c \in Still /\ parent[c] = p  BY <1>1, <1>16 DEF Still
  <2>2. CASE Reached(p)
    <3>1. Opened(p) \/ found[c] = p  BY <2>1, <2>2 DEF Covered
    <3>2. QED  BY <1>8, <1>15, <1>16, <2>1, <3>1 DEF Still
  <2>3. CASE ~ Reached(p)
    <3>1. p = d /\ d \in Still
      BY <1>1, <1>6, <1>16, <2>3 DEF Reached, Still
    <3>2. entry.deep  BY <1>2, <1>3, <2>1, <3>1 DEF FrameOK
    <3>3. Opened(d)'  BY <1>10, <1>13, <3>2 DEF Opened
    <3>4. QED  BY <3>1, <3>3
  <2>4. QED  BY <2>2, <2>3
<1>17. Covered'  BY <1>16 DEF Covered
<1>18. QED  BY <1>14, <1>17

LEMMA EnterSourceKeeps ==
  ASSUME TypeOK, \A f \in Stacked(stack) : FrameOK(f), Covered, EnterSource
  PROVE  (\A f \in Stacked(stack)' : FrameOK(f)') /\ Covered'
<1> DEFINE n == Sources[source + 1]
           below == Frame(n, {}, {}, TRUE)
<1>1. /\ stack = <<>> /\ stack' = <<below>> \o stack /\ source' = source + 1
      /\ UNCHANGED <<parent, moved, found>> /\ source < Len(Sources)
  BY DEF EnterSource, Open, remote
<1>2. source \in Nat /\ Len(Sources) \in Nat
  BY ConstantsAssumption DEF TypeOK
<1>3. n \in Roots  BY <1>1, <1>2 DEF Roots
<1>4. below \in Frames  BY <1>3 DEF Frame, Frames
<1> PICK g : g = below  OBVIOUS
<1>5. FrameOK(g)' /\ g.at = n  BY NewFrame
<1>6. Stacked(stack)' = {g}
  <2>1. stack' = <<g>> \o stack /\ stack \in Seq(Frames) /\ g \in Frames
    BY <1>1, <1>4, EmptyStack
  <2>2. Stacked(<<g>> \o stack) = {g} \cup Stacked(stack)  BY <2>1, StackFacts
  <2>3. Stacked(stack)' = Stacked(stack')  BY DEF Stacked
  <2>4. Stacked(stack) = {}  BY <1>1, EmptyStack
  <2>5. QED  BY <2>1, <2>2, <2>3, <2>4
<1> HIDE DEF below
<1>7. ~ \E m : Opened(m)  BY <1>1, EmptyStack DEF Opened
<1>8. ASSUME NEW c \in Still', NEW p, p = parent'[c], Reached(p)'
      PROVE  Opened(p)' \/ found'[c] = p
  <2>1. c \in Still /\ parent[c] = p  BY <1>1, <1>8 DEF Still
  <2>2. CASE p = n
    BY <1>5, <1>6, <2>2 DEF Opened
  <2>3. CASE p # n
    <3>1. Reached(p)
      <4>1. CASE p \in Roots
        <5>1. \A i \in (source' + 1)..Len(Sources) : Sources[i] # p
          BY <1>8, <4>1 DEF Reached
        <5>2. \A i \in (source + 1)..Len(Sources) :
                i = source + 1 \/ i \in (source' + 1)..Len(Sources)
          BY <1>1, <1>2
        <5>3. QED  BY <2>3, <4>1, <5>1, <5>2 DEF Reached
      <4>2. CASE p \notin Roots
        BY <1>1, <1>8, <4>2 DEF Reached, Still
      <4>3. QED  BY <4>1, <4>2
    <3>2. QED  BY <1>1, <1>7, <2>1, <3>1 DEF Covered
  <2>4. QED  BY <2>2, <2>3
<1>9. Covered'  BY <1>8 DEF Covered
<1>10. QED  BY <1>5, <1>6, <1>9

\* What is closed has seen all and found it.
LEMMA ReturnKeeps ==
  ASSUME TypeOK, \A f \in Stacked(stack) : FrameOK(f), Covered, Return
  PROVE  (\A f \in Stacked(stack)' : FrameOK(f)') /\ Covered'
<1>1. /\ stack # <<>> /\ Top.todo = {} /\ ~ Top.more /\ stack' = Tail(stack)
      /\ UNCHANGED <<parent, moved, found, source>>
  BY DEF Return, remote
<1>2. Stacked(stack) = {Top} \cup Stacked(stack')
  BY <1>1, TopFacts DEF TypeOK, Top
<1>3. FrameOK(Top)  BY <1>2
<1>4. \A d \in Still : parent[d] = Top.at => found[d] = parent[d]
  BY <1>1, <1>3 DEF FrameOK
<1>5. \A f : FrameOK(f)' <=> FrameOK(f)  BY <1>1 DEF FrameOK, Still
<1>6. Stacked(stack)' = Stacked(stack')  BY DEF Stacked
<1>7. \A f \in Stacked(stack)' : FrameOK(f)'  BY <1>2, <1>5, <1>6
<1>8. \A m : Opened(m) => m = Top.at \/ Opened(m)'  BY <1>2, <1>6 DEF Opened
<1>9. \A m : Reached(m)' => Reached(m)  BY <1>1 DEF Reached, Still
<1>10. ASSUME NEW c \in Still', NEW p, p = parent'[c], Reached(p)'
       PROVE  Opened(p)' \/ found'[c] = p
  <2>1. c \in Still /\ parent[c] = p /\ found'[c] = found[c] /\ Reached(p)
    BY <1>1, <1>9, <1>10 DEF Still
  <2>2. Opened(p) \/ found[c] = p  BY <2>1 DEF Covered
  <2>3. QED  BY <1>4, <1>8, <2>1, <2>2
<1>11. Covered'  BY <1>10 DEF Covered
<1>12. QED  BY <1>7, <1>11

LEMMA StartWalkKeeps ==
  ASSUME TypeOK, StartWalk
  PROVE  (\A f \in Stacked(stack)' : FrameOK(f)') /\ Covered'
<1>1. /\ stack' = <<>> /\ source' = 0 /\ found' = [d \in Docs |-> Nowhere] /\ parent' = parent
  BY DEF StartWalk, remote
<1>2. Stacked(stack)' = {}  BY <1>1, EmptyStack DEF Stacked
<1>3. ASSUME NEW p, Reached(p)' PROVE FALSE
  <2>1. CASE p \in Roots
    <3>1. PICK i \in 1..Len(Sources) : Sources[i] = p  BY <2>1 DEF Roots
    <3>2. \A j \in (0 + 1)..Len(Sources) : Sources[j] # p  BY <1>1, <1>3, <2>1 DEF Reached
    <3>3. QED  BY <3>1, <3>2
  <2>2. CASE p \notin Roots
    BY <1>1, <1>3, <2>2 DEF Reached, Still
  <2>3. QED  BY <2>1, <2>2
<1>4. Covered'  BY <1>3 DEF Covered
<1>5. QED  BY <1>2, <1>4

LEMMA MoveKeeps ==
  ASSUME TypeOK, \A f \in Stacked(stack) : FrameOK(f), Covered, Move
  PROVE  (\A f \in Stacked(stack)' : FrameOK(f)') /\ Covered'
<1>1. PICK m \in Docs, n \in Places : parent' = [parent EXCEPT ![m] = n] /\ moved' = moved \cup {m}
  BY DEF Move
<1>2. UNCHANGED <<stack, found, source>>  BY DEF Move, walk
<1>3. Still' \subseteq Still /\ \A d \in Docs \ moved' : parent'[d] = parent[d]
  BY <1>1 DEF Still, TypeOK
<1>4. Stacked(stack)' = Stacked(stack)  BY <1>2 DEF Stacked
<1>5. \A f \in Stacked(stack) : f \in Frames  BY DEF TypeOK, Stacked
<1>6. \A f \in Stacked(stack)' : FrameOK(f)'
  <2>1. TAKE f \in Stacked(stack)'
  <2>2. f \in Frames /\ FrameOK(f) /\ moved \subseteq moved'  BY <1>1, <1>4, <1>5
  <2>3. \A d \in Docs \ moved' : found[d] = parent[d] => found'[d] = parent[d]  BY <1>2
  <2>4. QED  BY <1>3, <2>2, <2>3, FramesStay
<1>7. \A p : Opened(p)' <=> Opened(p)  BY <1>4 DEF Opened
<1>8. \A p : Reached(p)' => Reached(p)
  BY <1>2, <1>3 DEF Reached, Still
<1>9. ASSUME NEW c \in Still', NEW p, p = parent'[c], Reached(p)'
      PROVE  Opened(p)' \/ found'[c] = p
  <2>1. c \in Still /\ parent[c] = p /\ Reached(p) /\ found'[c] = found[c]
    BY <1>2, <1>3, <1>8, <1>9 DEF Still
  <2>2. QED  BY <1>7, <2>1 DEF Covered
<1>10. Covered'  BY <1>9 DEF Covered
<1>11. QED  BY <1>6, <1>10

LEMMA NextKeeps == WalkInv /\ [Next]_vars => WalkInv'
<1>1. SUFFICES ASSUME WalkInv, [Next]_vars PROVE WalkInv'  OBVIOUS
<1>2. TypeOK' /\ Kinds(parent)'
  <2>1. Kinds(parent')  BY <1>1, NextKinds DEF WalkInv
  <2>2. QED  BY <1>1, <2>1, NextTypes DEF WalkInv, Kinds
<1> DEFINE Known == pc = "walk" => (\A f \in Stacked(stack) : FrameOK(f)) /\ Covered
<1>3. CASE UNCHANGED vars
  <2>1. RestingIsFound'
    BY <1>1, <1>3 DEF WalkInv, vars, remote, walk, RestingIsFound, Rested, Attached, Present
  <2>2. Known'
    <3>1. UNCHANGED <<pc, stack, found, parent, moved, source>>  BY <1>3 DEF vars, remote, walk
    <3>2. Stacked(stack)' = Stacked(stack)  BY <3>1 DEF Stacked
    <3>3. \A f : FrameOK(f)' <=> FrameOK(f)  BY <3>1 DEF FrameOK, Still
    <3>4. Covered' <=> Covered  BY <3>1, <3>2 DEF Covered, Reached, Opened, Still
    <3>5. QED  BY <1>1, <3>1, <3>2, <3>3, <3>4 DEF WalkInv
  <2>3. QED  BY <1>2, <2>1, <2>2 DEF WalkInv
<1>4. CASE Move
  <2>1. Known'  BY <1>1, <1>4, MoveKeeps DEF WalkInv, Move
  <2>2. RestingIsFound'
    <3>1. SUFFICES ASSUME pc' = "place", NEW d \in Docs, Rested(d)'
                   PROVE  found'[d] = parent'[d] /\ d \in Present'
      BY DEF RestingIsFound
    <3>2. Rested(d) /\ parent'[d] = parent[d] /\ pc = "place" /\ found' = found
      BY <1>1, <1>4, <3>1, RestedBefore DEF WalkInv, Move, walk
    <3>3. QED  BY <1>1, <3>2 DEF WalkInv, RestingIsFound, Present, Attached
  <2>3. QED  BY <1>2, <2>1, <2>2 DEF WalkInv
<1>5. CASE StartWalk
  <2>1. pc' = "walk"  BY <1>5 DEF StartWalk
  <2>2. Known'  BY <1>1, <1>5, StartWalkKeeps DEF WalkInv
  <2>3. QED  BY <1>2, <2>1, <2>2 DEF WalkInv, RestingIsFound
<1>6. CASE EnterSource \/ ListNodes \/ ListFiles \/ Add \/ Return
  <2>1. pc = "walk" /\ pc' = "walk"
    BY <1>6 DEF EnterSource, ListNodes, ListFiles, Add, Return
  <2>2. (\A f \in Stacked(stack) : FrameOK(f)) /\ Covered /\ TypeOK /\ Kinds(parent)
    BY <1>1, <2>1 DEF WalkInv
  <2>3. Known'
    BY <1>6, <2>2, EnterSourceKeeps, ListNodesKeeps, ListFilesKeeps, AddKeeps, ReturnKeeps
  <2>4. QED  BY <1>2, <2>1, <2>3 DEF WalkInv, RestingIsFound
<1>7. CASE EndWalk
  <2>1. /\ pc = "walk" /\ pc' = "place" /\ stack = <<>> /\ source = Len(Sources)
        /\ UNCHANGED <<parent, found, moved>>
    BY <1>7 DEF EndWalk, remote, walk
  <2>2. \A d \in Docs : Rested(d) => found[d] = parent[d] /\ d \in Present
    BY <1>1, <2>1, WalkIsComplete DEF WalkInv
  <2>3. RestingIsFound'
    BY <2>1, <2>2 DEF RestingIsFound, Rested, Attached, Present
  <2>4. QED  BY <1>2, <2>1, <2>3 DEF WalkInv
<1>8. CASE Round \/ Fail
  <2>1. pc' = "idle"  BY <1>8 DEF Round, Fail
  <2>2. QED  BY <1>2, <2>1 DEF WalkInv, RestingIsFound
<1>9. QED
  BY <1>1, <1>3, <1>4, <1>5, <1>6, <1>7, <1>8 DEF Next, Step

LEMMA WalkInvHolds == Spec => []WalkInv
<1>1. Init => WalkInv
  BY InitTypes DEF WalkInv, Init, RestingIsFound
<1>2. QED  BY <1>1, NextKeeps, PTL DEF Spec

\* No listing loses a document that rests: whatever is moved around it while
\* the walk goes through wikis and folders, it is found under its parent and
\* takes part in the round's tree.
THEOREM RestingIsFoundAlways == Spec => []RestingIsFound
<1>1. WalkInv => RestingIsFound  BY DEF WalkInv
<1>2. QED  BY <1>1, WalkInvHolds, PTL

\* A round trashes only what was deleted or moved during its walk.
THEOREM OnlyMovedIsTrashed == Spec => TrashedMoved
<1> DEFINE Trashes == \A d \in Docs : status[d] = "active" /\ status'[d] = "trashed" => ~ Rested(d)
<1>1. WalkInv /\ [Next]_vars => [Trashes]_status
  <2>1. SUFFICES ASSUME WalkInv, [Next]_vars, status' # status PROVE Trashes
    OBVIOUS
  <2>2. Round
    BY <2>1 DEF Next, Step, StartWalk, EnterSource, ListNodes, ListFiles, Add, Return, EndWalk,
                Move, Fail, vars
  <2>3. ASSUME NEW d \in Docs, status[d] = "active", status'[d] = "trashed" PROVE d \notin Present
    BY <2>2, <2>3 DEF Round, Active
  <2>4. pc = "place"  BY <2>2 DEF Round
  <2>5. QED  BY <2>1, <2>3, <2>4 DEF WalkInv, RestingIsFound
<1>2. QED  BY <1>1, WalkInvHolds, PTL DEF Spec, TrashedMoved
===============================================================================
