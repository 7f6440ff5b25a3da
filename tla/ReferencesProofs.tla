-------------------------- MODULE ReferencesProofs --------------------------
(***************************************************************************)
(* Proofs about References, for all documents, links, assets and paths and  *)
(* for every number of changes and faults.                                  *)
(***************************************************************************)
EXTENDS References, FiniteSetTheorems, SequenceTheorems, WellFoundedInduction, TLAPS

-----------------------------------------------------------------------------
(* Least numbers, from the well-foundedness of finite subsets. *)

LEMMA LeastNumber ==
  ASSUME NEW T \in SUBSET Nat, T # {}
  PROVE  \E i \in T : \A j \in T : i <= j
<1> DEFINE Below(i) == 0..(i - 1)
           C == {Below(i) : i \in T}
           Smaller == StrictSubsetOrdering(Nat)
<1>1. C \subseteq FiniteSubsetsOf(Nat) /\ C # {}
  <2>1. \A i \in T : IsFiniteSet(Below(i)) /\ Below(i) \in SUBSET Nat
    <3> TAKE i \in T
    <3>1. IsFiniteSet(Below(i))
      BY FS_Interval
    <3>2. QED BY <3>1
  <2> HIDE DEF Below
  <2>2. QED BY <2>1 DEF FiniteSubsetsOf
<1>2. \E s \in C : \A t \in C : <<t, s>> \notin Smaller
  <2>1. IsWellFoundedOn(Smaller, FiniteSubsetsOf(Nat))
    BY FS_StrictSubsetOrderingWellFounded
  <2> HIDE DEF C, Smaller
  <2>2. QED BY <1>1, <2>1, WFMin
<1>3. PICK i \in T : \A t \in C : <<t, Below(i)>> \notin Smaller
  BY <1>2
<1>4. ASSUME NEW j \in T, j < i PROVE FALSE
  <2>1. /\ Below(j) \in SUBSET Nat /\ Below(i) \in SUBSET Nat
        /\ Below(j) \subseteq Below(i)
    BY <1>4
  <2>2. j \in Below(i) /\ j \notin Below(j)
    BY <1>4
  <2>3. <<Below(j), Below(i)>> \in Smaller
    BY <2>1, <2>2 DEF StrictSubsetOrdering
  <2>4. QED BY <1>3, <2>3
<1>5. QED BY <1>4

-----------------------------------------------------------------------------
(* The swaps of fixupMovedLinks. *)

\* What the body is after the first k swaps.
Follows(d, order, f, k) ==
  f = [i \in 0..k |-> IF i = 0 THEN body[d]
         ELSE ReplaceLinkDest(f[i - 1], OldRel(d, order[i]), NewRel(d, order[i]))]

LEMMA AfterSwapsExists ==
  ASSUME NEW d, NEW order, Len(order) \in Nat
  PROVE  Follows(d, order, AfterSwaps(d, order), Len(order))
<1> DEFINE Next1(b, i) == ReplaceLinkDest(b, OldRel(d, order[i]), NewRel(d, order[i]))
           Lacking == {k \in Nat : ~ \E f : Follows(d, order, f, k)}
<1>1. Lacking = {}
  <2>1. SUFFICES ASSUME Lacking # {} PROVE FALSE  OBVIOUS
  <2>2. PICK k \in Lacking : \A j \in Lacking : k <= j
    <3>1. Lacking \in SUBSET Nat  OBVIOUS
    <3> HIDE DEF Lacking
    <3>2. QED  BY <2>1, <3>1, LeastNumber
  <2>3. CASE k = 0
    <3> DEFINE f == [i \in 0..0 |-> body[d]]
    <3>1. Follows(d, order, f, 0)  BY DEF Follows
    <3>2. QED  BY <2>3, <3>1
  <2>4. CASE k # 0
    <3>1. k - 1 \in Nat /\ k - 1 \notin Lacking  BY <2>2, <2>4
    <3>2. PICK f : Follows(d, order, f, k - 1)  BY <3>1
    <3>3. f = [i \in 0..(k - 1) |-> IF i = 0 THEN body[d] ELSE Next1(f[i - 1], i)]
      BY <3>2 DEF Follows
    <3> DEFINE g == [i \in 0..k |-> IF i = 0 THEN body[d] ELSE Next1(f[i - 1], i)]
    <3> HIDE DEF Next1
    <3>4. ASSUME NEW i \in 0..(k - 1) PROVE g[i] = f[i]
      <4>1. f[i] = IF i = 0 THEN body[d] ELSE Next1(f[i - 1], i)  BY <3>3
      <4>2. i \in 0..k  BY <3>1
      <4>3. QED  BY <4>1, <4>2
    <3>5. \A i \in 0..k : g[i] = IF i = 0 THEN body[d] ELSE Next1(g[i - 1], i)
      <4>1. \A i \in 0..k : i # 0 => i - 1 \in 0..(k - 1)  BY <3>1
      <4>2. QED  BY <3>4, <4>1
    <3>6. Follows(d, order, g, k)
      <4> HIDE DEF g
      <4>1. g = [i \in 0..k |-> g[i]]  BY DEF g
      <4>2. g = [i \in 0..k |-> IF i = 0 THEN body[d] ELSE Next1(g[i - 1], i)]  BY <3>5, <4>1
      <4>3. QED  BY <4>2 DEF Follows, Next1
    <3>7. QED  BY <3>6
  <2>5. QED  BY <2>3, <2>4
<1>2. PICK f : Follows(d, order, f, Len(order))
  BY <1>1
<1>3. AfterSwaps(d, order) = CHOOSE g : Follows(d, order, g, Len(order))
  BY DEF AfterSwaps, Follows
<1>4. QED  BY <1>2, <1>3

LEMMA OrderTyped ==
  ASSUME NEW d, NEW order \in SetToSeqs(Swaps(d))
  PROVE  /\ Len(order) \in Nat /\ DOMAIN order = 1..Len(order)
         /\ \A i \in 1..Len(order) : order[i] \in Swaps(d)
         /\ \A i, j \in 1..Len(order) : i # j => order[i] # order[j]
         /\ \A t \in Swaps(d) : \E i \in 1..Len(order) : order[i] = t
<1> DEFINE n == Cardinality(Swaps(d))
<1>1. IsFiniteSet(Swaps(d))
  <2>1. Swaps(d) \in SUBSET Docs  BY DEF Swaps, Concerned
  <2>2. QED  BY <2>1, FS_Subset, ReferencesAssumption
<1>2. n \in Nat  BY <1>1, FS_CardinalityType
<1>3. order \in [1..n -> Swaps(d)] /\ \A i, j \in 1..n : i # j => order[i] # order[j]
  BY DEF SetToSeqs
<1>4. \A t \in Swaps(d) : \E i \in 1..n : order[i] = t
  <2>1. IsFiniteSet(1..n) /\ Cardinality(1..n) = n  BY <1>2, FS_Interval
  <2>2. order \in Injection(1..n, Swaps(d))
    BY <1>3 DEF Injection, IsInjective
  <2>3. order \in Surjection(1..n, Swaps(d))
    <3> HIDE DEF n
    <3>1. n = Cardinality(Swaps(d))  BY DEF n
    <3>2. QED  BY <1>1, <2>1, <2>2, <3>1, FS_Injection
  <2>4. QED  BY <2>3 DEF Surjection
<1>5. order \in Seq(Swaps(d)) /\ Len(order) = n
  <2> HIDE DEF n
  <2>1. order \in Seq(Swaps(d))  BY <1>2, <1>3, SeqDef
  <2>2. DOMAIN order = 1..n /\ DOMAIN order = 1..Len(order) /\ Len(order) \in Nat
    BY <1>3, <2>1, LenProperties
  <2>3. QED  BY <1>2, <2>1, <2>2
<1> HIDE DEF n
<1>6. QED  BY <1>2, <1>3, <1>4, <1>5

LEMMA AfterSwapsStep ==
  ASSUME NEW d, NEW order \in SetToSeqs(Swaps(d))
  PROVE  /\ AfterSwaps(d, order)[0] = body[d]
         /\ \A i \in 1..Len(order) :
              /\ i - 1 \in 0..Len(order)
              /\ AfterSwaps(d, order)[i] =
                   ReplaceLinkDest(AfterSwaps(d, order)[i - 1],
                                   OldRel(d, order[i]), NewRel(d, order[i]))
<1> DEFINE f == AfterSwaps(d, order)
           n == Len(order)
           Step(b, i) == ReplaceLinkDest(b, OldRel(d, order[i]), NewRel(d, order[i]))
<1>1. n \in Nat  BY OrderTyped
<1>2. f = [i \in 0..n |-> IF i = 0 THEN body[d] ELSE Step(f[i - 1], i)]
  BY <1>1, AfterSwapsExists DEF Follows
<1> HIDE DEF f, n, Step
<1>3. f[0] = body[d]  BY <1>1, <1>2
<1>4. ASSUME NEW i \in 1..n
      PROVE  i - 1 \in 0..n /\ f[i] = Step(f[i - 1], i)
  <2>1. i \in 0..n /\ i # 0 /\ i - 1 \in 0..n  BY <1>1
  <2>2. QED  BY <1>2, <2>1
<1>5. QED  BY <1>3, <1>4 DEF f, n, Step

\* The induction that each fact about swaps takes: its least exception.
LEMMA LeastException ==
  ASSUME NEW n \in Nat, NEW T \in SUBSET (0..n), T # {}
  PROVE  \E i \in T : \/ i = 0
                      \/ i \in 1..n /\ i - 1 \in 0..n /\ i - 1 \notin T
<1>1. T \in SUBSET Nat  OBVIOUS
<1>2. PICK i \in T : \A j \in T : i <= j  BY <1>1, LeastNumber
<1>3. i - 1 \notin T  BY <1>1, <1>2
<1>4. i = 0 \/ (i \in 1..n /\ i - 1 \in 0..n)  OBVIOUS
<1>5. QED  BY <1>3, <1>4

\* A swap changes no key, and a destination that no target of a swap had stays.
LEMMA Unswapped ==
  ASSUME NEW d, NEW order \in SetToSeqs(Swaps(d))
  PROVE  /\ DOMAIN Swapped(d, order) = DOMAIN body[d]
         /\ \A r \in DOMAIN body[d] :
              (\A u \in Swaps(d) : body[d][r] # OldRel(d, u))
                 => Swapped(d, order)[r] = body[d][r]
<1> DEFINE n == Len(order)
           f == AfterSwaps(d, order)
           Same(i) == /\ DOMAIN f[i] = DOMAIN body[d]
                      /\ \A r \in DOMAIN body[d] :
                           (\A u \in Swaps(d) : body[d][r] # OldRel(d, u)) => f[i][r] = body[d][r]
           T == {i \in 0..n : ~Same(i)}
<1>1. n \in Nat  BY OrderTyped
<1>2. T = {}
  <2>1. SUFFICES ASSUME T # {} PROVE FALSE  OBVIOUS
  <2>2. PICK i \in T : i = 0 \/ (i \in 1..n /\ i - 1 \in 0..n /\ i - 1 \notin T)
    <3> HIDE DEF Same
    <3>1. T \in SUBSET (0..n)  OBVIOUS
    <3> HIDE DEF T, n
    <3>2. QED  BY <1>1, <2>1, <3>1, LeastException
  <2>3. CASE i = 0
    <3>1. f[0] = body[d]  BY AfterSwapsStep
    <3>2. QED  BY <2>2, <2>3, <3>1
  <2>4. CASE i \in 1..n /\ i - 1 \in 0..n /\ i - 1 \notin T
    <3>1. Same(i - 1)  BY <2>4
    <3>2. f[i] = ReplaceLinkDest(f[i - 1], OldRel(d, order[i]), NewRel(d, order[i]))
      BY <2>4, AfterSwapsStep
    <3>3. order[i] \in Swaps(d)  BY <2>4, OrderTyped
    <3> HIDE DEF f, n
    <3>4. Same(i)  BY <3>1, <3>2, <3>3 DEF ReplaceLinkDest
    <3>5. QED  BY <2>2, <3>4
  <2>5. QED  BY <2>2, <2>3, <2>4
<1>3. Same(n)  BY <1>1, <1>2
<1>4. QED  BY <1>3 DEF Swapped

\* A link comes to its target if no other swap takes it, before or after its own.
LEMMA SwappedOnce ==
  ASSUME NEW d, NEW order \in SetToSeqs(Swaps(d)), NEW t \in Swaps(d),
         t \in DOMAIN body[d], body[d][t] = OldRel(d, t),
         \A u \in Swaps(d) \ {t} : OldRel(d, u) \notin {OldRel(d, t), NewRel(d, t)}
  PROVE  Swapped(d, order)[t] = NewRel(d, t)
<1> DEFINE n == Len(order)
           f == AfterSwaps(d, order)
<1>1. n \in Nat  BY OrderTyped
<1>2. PICK own \in 1..n : order[own] = t  BY OrderTyped
<1> DEFINE Sound(i) == /\ t \in DOMAIN f[i]
                       /\ f[i][t] = IF i < own THEN OldRel(d, t) ELSE NewRel(d, t)
           T == {i \in 0..n : ~Sound(i)}
<1>3. T = {}
  <2>1. SUFFICES ASSUME T # {} PROVE FALSE  OBVIOUS
  <2>2. PICK i \in T : i = 0 \/ (i \in 1..n /\ i - 1 \in 0..n /\ i - 1 \notin T)
    <3> HIDE DEF Sound
    <3>1. T \in SUBSET (0..n)  OBVIOUS
    <3> HIDE DEF T, n
    <3>2. QED  BY <1>1, <2>1, <3>1, LeastException
  <2>3. CASE i = 0
    <3>1. f[0] = body[d] /\ 0 < own  BY AfterSwapsStep, <1>1
    <3> HIDE DEF f
    <3>2. QED  BY <2>2, <2>3, <3>1
  <2>4. CASE i \in 1..n /\ i - 1 \in 0..n /\ i - 1 \notin T
    <3>1. Sound(i - 1)  BY <2>4
    <3>2. f[i] = ReplaceLinkDest(f[i - 1], OldRel(d, order[i]), NewRel(d, order[i]))
      BY <2>4, AfterSwapsStep
    <3>3. order[i] \in Swaps(d) /\ (i # own => order[i] # t)
      BY <1>2, <2>4, OrderTyped
    <3> HIDE DEF f, n
    <3>4. t \in DOMAIN f[i]  BY <3>1, <3>2 DEF ReplaceLinkDest
    <3>5. f[i][t] = IF f[i - 1][t] = OldRel(d, order[i]) THEN NewRel(d, order[i])
                    ELSE f[i - 1][t]
      BY <3>1, <3>2 DEF ReplaceLinkDest
    <3>6. i \in Int /\ own \in Int  BY <1>1, <1>2, <2>4
    <3>7. CASE i = own
      <4>1. i - 1 < own /\ ~(i < own)  BY <3>6, <3>7
      <4>2. QED  BY <1>2, <2>2, <3>1, <3>4, <3>5, <3>7, <4>1
    <3>8. CASE i # own
      <4>1. (i - 1 < own) <=> (i < own)  BY <3>6, <3>8
      <4>2. f[i - 1][t] \in {OldRel(d, t), NewRel(d, t)}  BY <3>1
      <4>3. f[i][t] = f[i - 1][t]  BY <3>3, <3>5, <3>8, <4>2
      <4>4. QED  BY <2>2, <3>1, <3>4, <4>1, <4>3
    <3>9. QED  BY <3>7, <3>8
  <2>5. QED  BY <2>2, <2>3, <2>4
<1>4. Sound(n)  BY <1>1, <1>3
<1>5. QED  BY <1>1, <1>4 DEF Swapped

-----------------------------------------------------------------------------
(* The shape of the state: who may be listed, moved and deleted, and what a row
   promises of the file and of the edges. *)

Statuses == {"none", "active", "pending_assets", "trashed"}

Rows ==
  /\ row \in [Docs -> [status : Statuses, path : Paths \cup {Gone, InTrash}]]
  /\ \A d \in Docs :
       /\ row[d].status = "none" => row[d].path = Gone
       /\ row[d].status = "trashed" => row[d].path = InTrash
       /\ Mirrored(d) => row[d].path \in Paths

Files ==
  /\ at \in [Docs -> Paths \cup {Gone, InTrash}] /\ DOMAIN body = Docs
  /\ \A d \in Docs : DOMAIN body[d] = IF at[d] = Gone THEN {} ELSE Refs(d)

\* A row that stands for a body has its file and its edges.
Backed ==
  \A d \in Docs : Mirrored(d) => at[d] # Gone /\ {d} \X Targets[d] \subseteq links

Edges ==
  /\ links \subseteq Docs \X Docs /\ \A l \in links : l[2] \in Targets[l[1]]
  /\ astray \subseteq links /\ pool \subseteq Keys

Control ==
  /\ place \in [Docs -> Paths \cup {Gone}] /\ dirty \in [Docs -> BOOLEAN]
  /\ listing \in [Docs -> Paths \cup {Gone}] /\ moves \in [Docs -> Paths \cup {Gone}]
  /\ full \in BOOLEAN /\ force \in BOOLEAN /\ failed \in BOOLEAN
  /\ pc \in {"idle", "walk", "reap", "fixup", "rewrite"} /\ todo \subseteq Docs
  /\ pc = "walk" => \A d \in todo : listing[d] \in Paths /\ moves[d] = Gone
  /\ pc = "reap" => \A d \in todo : Active(d) /\ listing[d] = Gone
  /\ force => full

Shape == Rows /\ Files /\ Backed /\ Edges /\ Control

LEMMA ShapeTypes == Shape => TypeOK
BY DEF Shape, Rows, Files, Edges, Control, TypeOK, Statuses

LEMMA InitShape == Init => Shape
<1>. SUFFICES ASSUME Init PROVE Shape
  OBVIOUS
<1>1. \A d \in Docs : row[d] = [status |-> "none", path |-> Gone] /\ ~Mirrored(d)
  BY DEF Init, Mirrored, Active, Pending
<1>2. Rows  BY <1>1 DEF Init, Rows, Statuses
<1>3. Files  BY DEF Init, Files, NoBody
<1>4. Backed  BY <1>1 DEF Backed
<1>5. Edges  BY DEF Init, Edges
<1>6. Control  BY DEF Init, Control
<1>7. QED  BY <1>2, <1>3, <1>4, <1>5, <1>6 DEF Shape

LEMMA SaveShape ==
  ASSUME Rows, Control, NEW d \in Docs, NEW status \in {"active", "pending_assets"},
         Save(d, status), listing[d] \in Paths
  PROVE  /\ Rows' /\ dirty' \in [Docs -> BOOLEAN]
         /\ row'[d] = [status |-> status, path |-> listing[d]]
         /\ \A e \in Docs \ {d} : row'[e] = row[e] /\ (Mirrored(e)' <=> Mirrored(e))
<1>1. /\ row' = [row EXCEPT ![d] = [status |-> status, path |-> listing[d]]]
      /\ dirty' = [dirty EXCEPT ![d] = FALSE]
  BY DEF Save
<1>2. /\ row'[d] = [status |-> status, path |-> listing[d]]
      /\ \A e \in Docs \ {d} : row'[e] = row[e]
      /\ row' \in [Docs -> [status : Statuses, path : Paths \cup {Gone, InTrash}]]
  BY <1>1 DEF Rows, Statuses
<1>3. \A e \in Docs \ {d} : Mirrored(e)' <=> Mirrored(e)
  BY <1>2 DEF Mirrored, Active, Pending
<1>4. ASSUME NEW e \in Docs
      PROVE  /\ row'[e].status = "none" => row'[e].path = Gone
             /\ row'[e].status = "trashed" => row'[e].path = InTrash
             /\ Mirrored(e)' => row'[e].path \in Paths
  <2>1. CASE e = d  BY <1>2, <2>1
  <2>2. CASE e # d  BY <1>2, <1>3, <2>2 DEF Rows
  <2>3. QED  BY <2>1, <2>2
<1>5. dirty' \in [Docs -> BOOLEAN]  BY <1>1 DEF Control
<1>6. QED  BY <1>2, <1>3, <1>4, <1>5 DEF Rows

\* A file that follows its row stays a file, or stays missing.
LEMMA FollowedShape ==
  ASSUME Rows, Files, NEW d \in Docs, at' = [at EXCEPT ![d] = Followed(d)],
         listing[d] \in Paths, UNCHANGED body
  PROVE  Files' /\ \A e \in Docs : at[e] # Gone => at'[e] # Gone
<1>1. Gone \notin Paths  BY ReferencesAssumption
<1>2. Relocated(d) => row[d].path \in Paths  BY DEF Rows, Relocated
<1>3. /\ Followed(d) \in Paths \cup {Gone, InTrash}
      /\ Followed(d) = Gone <=> at[d] = Gone
  BY <1>1, <1>2 DEF Followed, Files
<1>4. QED  BY <1>3 DEF Files

LEMMA MovesShape ==
  ASSUME Rows, Control, NEW d \in Docs, moves' = Moves(d)
  PROVE  /\ moves' \in [Docs -> Paths \cup {Gone}]
         /\ \A e \in Docs \ {d} : moves'[e] = moves[e]
<1>1. Relocated(d) => row[d].path \in Paths  BY DEF Rows, Relocated
<1>2. QED  BY <1>1 DEF Moves, Control

LEMMA FetchShape ==
  ASSUME Shape, NEW d \in Docs, NEW have \in SUBSET Keys, Fetch(d, have)
  PROVE  /\ Files' /\ Edges' /\ at'[d] \in Paths
         /\ links' = links \cup ({d} \X Targets[d])
         /\ \A e \in Docs \ {d} : at'[e] = at[e]
         /\ moves' \in [Docs -> Paths \cup {Gone}]
         /\ \A e \in Docs \ {d} : moves'[e] = moves[e]
         /\ pc = "walk" /\ pc' = "walk" /\ d \in todo /\ todo' = todo \ {d} /\ listing[d] \in Paths
<1>1. pc = "walk" /\ d \in todo /\ pc' = "walk" /\ todo' = todo \ {d} /\ listing[d] \in Paths
  BY DEF Fetch, At, Shape, Control
<1>2. Gone \notin Paths /\ Targets[d] \subseteq Docs /\ Assets[d] \subseteq Keys
  BY ReferencesAssumption
<1>3. DOMAIN Fresh(d, have) = Refs(d)  BY DEF Fresh
<1>4. Files'
  BY <1>1, <1>2, <1>3 DEF Fetch, Shape, Files
<1>5. Edges'
  <2>1. /\ links' = links \cup ({d} \X Targets[d]) /\ astray' \subseteq astray
        /\ pool' = have
    BY DEF Fetch
  <2>2. QED  BY <1>2, <2>1 DEF Shape, Edges
<1>6. at'[d] = listing[d] /\ \A e \in Docs \ {d} : at'[e] = at[e]
  BY DEF Fetch, Shape, Files
<1>7. QED  BY <1>1, <1>4, <1>5, <1>6, MovesShape DEF Fetch, Shape

\* The document of a step of the walk leaves todo; rows keep their documents.
LEMMA WalkControl ==
  ASSUME Control, pc = "walk", pc' = "walk", NEW d \in todo, todo' = todo \ {d},
         UNCHANGED <<place, full, force, listing>>, failed' \in BOOLEAN,
         dirty' \in [Docs -> BOOLEAN], moves' \in [Docs -> Paths \cup {Gone}],
         \A e \in Docs \ {d} : moves'[e] = moves[e]
  PROVE  Control'
BY DEF Control

LEMMA ShapeNext == Shape /\ [Next]_vars => Shape'
<1>. SUFFICES ASSUME Shape, [Next]_vars PROVE Shape'
  OBVIOUS
<1>0. Rows /\ Files /\ Backed /\ Edges /\ Control  BY DEF Shape
<1>g. Gone \notin Paths /\ InTrash # Gone  BY ReferencesAssumption
<1>1. CASE UNCHANGED vars
  <2>1. UNCHANGED <<place, dirty, row, links, pool, at, body, pc, full, force, listing, todo,
                    moves, failed, astray>>
    BY <1>1 DEF vars, remote, manifest, bodies, round
  <2>2. Rows'  BY <1>0, <2>1 DEF Rows, Mirrored, Active, Pending
  <2>3. Files'  BY <1>0, <2>1 DEF Files
  <2>4. Backed'  BY <1>0, <2>1 DEF Backed, Mirrored, Active, Pending
  <2>5. Edges'  BY <1>0, <2>1 DEF Edges
  <2>6. Control'  BY <1>0, <2>1 DEF Control, Active
  <2>7. QED  BY <2>2, <2>3, <2>4, <2>5, <2>6 DEF Shape
<1>2. ASSUME UNCHANGED <<row, links, pool, at, body>>, Control', astray' \subseteq links
      PROVE  Shape'
  <2>1. Rows'  BY <1>0, <1>2 DEF Rows, Mirrored, Active, Pending
  <2>2. Files'  BY <1>0, <1>2 DEF Files
  <2>3. Backed'  BY <1>0, <1>2 DEF Backed, Mirrored, Active, Pending
  <2>4. Edges'  BY <1>0, <1>2 DEF Edges
  <2>5. QED  BY <1>2, <2>1, <2>2, <2>3, <2>4 DEF Shape
<1>3. CASE Change
  <2>1. UNCHANGED <<manifest, bodies, round, astray>>  BY <1>3 DEF Change
  <2>2. place' \in [Docs -> Paths \cup {Gone}] /\ dirty' \in [Docs -> BOOLEAN]
    BY <1>0, <1>3 DEF Change, Control
  <2>3. Control'  BY <1>0, <2>1, <2>2 DEF Control, round, manifest, Active
  <2>4. QED  BY <1>0, <1>2, <2>1, <2>3 DEF manifest, bodies, Edges
<1>4. CASE Begin
  <2>1. UNCHANGED <<place, dirty, row, links, pool, at, body, astray>> /\ pc' = "walk"
    BY <1>4 DEF Begin, remote, manifest, bodies
  <2>2. PICK L \in SUBSET {d \in Docs : place[d] # Gone} :
          listing' = [d \in Docs |-> IF d \in L THEN place[d] ELSE Gone] /\ todo' = L
    BY <1>4 DEF Begin
  <2>3. /\ full' \in BOOLEAN /\ force' \in BOOLEAN /\ (force' => full')
        /\ moves' = [d \in Docs |-> Gone] /\ failed' = FALSE
    BY <1>4, ReferencesAssumption DEF Begin
  <2>4. listing' \in [Docs -> Paths \cup {Gone}] /\ \A d \in todo' : listing'[d] \in Paths
    BY <1>0, <2>2 DEF Control
  <2>5. moves' \in [Docs -> Paths \cup {Gone}] /\ \A d \in Docs : moves'[d] = Gone
    BY <2>3
  <2>6. Control'  BY <1>0, <2>1, <2>2, <2>3, <2>4, <2>5 DEF Control
  <2>7. QED  BY <1>0, <1>2, <2>1, <2>6 DEF Edges
<1>5. ASSUME NEW d \in Docs, Skip(d) PROVE Shape'
  <2>1. /\ d \in todo /\ pc = "walk" /\ pc' = "walk" /\ todo' = todo \ {d} /\ Active(d)
        /\ Save(d, "active") /\ at' = [at EXCEPT ![d] = Followed(d)] /\ moves' = Moves(d)
        /\ UNCHANGED <<place, links, pool, body, full, force, listing, failed, astray>>
    BY <1>5 DEF Skip, At
  <2>2. listing[d] \in Paths  BY <1>0, <2>1 DEF Control
  <2>3. Files' /\ \A e \in Docs : at[e] # Gone => at'[e] # Gone
    BY <1>0, <2>1, <2>2, FollowedShape
  <2>4. Rows' /\ dirty' \in [Docs -> BOOLEAN]
        /\ \A e \in Docs \ {d} : Mirrored(e)' <=> Mirrored(e)
    BY <1>0, <2>1, <2>2, SaveShape
  <2>5. Mirrored(d)  BY <2>1 DEF Mirrored
  <2>6. Backed'  BY <1>0, <2>1, <2>3, <2>4, <2>5 DEF Backed
  <2>7. Edges'  BY <1>0, <2>1 DEF Edges
  <2>8. Control'
    <3>1. moves' \in [Docs -> Paths \cup {Gone}] /\ \A e \in Docs \ {d} : moves'[e] = moves[e]
      BY <1>0, <2>1, MovesShape
    <3>2. failed' \in BOOLEAN  BY <1>0, <2>1 DEF Control
    <3>3. QED  BY <1>0, <2>1, <2>4, <3>1, <3>2, WalkControl
  <2>9. QED  BY <2>3, <2>4, <2>6, <2>7, <2>8 DEF Shape
<1>6. ASSUME NEW d \in Docs, HashSkip(d) PROVE Shape'
  <2>1. /\ d \in todo /\ pc = "walk" /\ pc' = "walk" /\ todo' = todo \ {d} /\ Active(d)
        /\ Save(d, "active") /\ at' = [at EXCEPT ![d] = Followed(d)] /\ moves' = Moves(d)
        /\ links' = links \cup ({d} \X Targets[d])
        /\ UNCHANGED <<place, pool, body, full, force, listing, failed, astray>>
    BY <1>6 DEF HashSkip, At
  <2>2. listing[d] \in Paths  BY <1>0, <2>1 DEF Control
  <2>3. Files' /\ \A e \in Docs : at[e] # Gone => at'[e] # Gone
    BY <1>0, <2>1, <2>2, FollowedShape
  <2>4. Rows' /\ dirty' \in [Docs -> BOOLEAN]
        /\ \A e \in Docs \ {d} : Mirrored(e)' <=> Mirrored(e)
    BY <1>0, <2>1, <2>2, SaveShape
  <2>5. Mirrored(d)  BY <2>1 DEF Mirrored
  <2>6. links' = links  BY <1>0, <2>1, <2>5 DEF Backed
  <2>7. Backed'  BY <1>0, <2>3, <2>4, <2>5, <2>6 DEF Backed
  <2>8. Edges'  BY <1>0, <2>1, <2>6 DEF Edges
  <2>9. Control'
    <3>1. moves' \in [Docs -> Paths \cup {Gone}] /\ \A e \in Docs \ {d} : moves'[e] = moves[e]
      BY <1>0, <2>1, MovesShape
    <3>2. failed' \in BOOLEAN  BY <1>0, <2>1 DEF Control
    <3>3. QED  BY <1>0, <2>1, <2>4, <3>1, <3>2, WalkControl
  <2>10. QED  BY <2>3, <2>4, <2>7, <2>8, <2>9 DEF Shape
<1>7. ASSUME NEW d \in Docs, NEW have \in SUBSET Keys, Write(d, have) PROVE Shape'
  <2>1. Fetch(d, have) /\ UNCHANGED failed  BY <1>7 DEF Write
  <2>2. /\ Files' /\ Edges' /\ at'[d] \in Paths /\ links' = links \cup ({d} \X Targets[d])
        /\ \A e \in Docs \ {d} : at'[e] = at[e]
        /\ moves' \in [Docs -> Paths \cup {Gone}] /\ \A e \in Docs \ {d} : moves'[e] = moves[e]
        /\ pc = "walk" /\ pc' = "walk" /\ d \in todo /\ todo' = todo \ {d} /\ listing[d] \in Paths
    BY <2>1, FetchShape
  <2>3. PICK status \in {"active", "pending_assets"} : Save(d, status)
    BY <1>7 DEF Write
  <2>4. Rows' /\ dirty' \in [Docs -> BOOLEAN]
        /\ \A e \in Docs \ {d} : Mirrored(e)' <=> Mirrored(e)
    BY <1>0, <2>2, <2>3, SaveShape
  <2>5. Backed'  BY <1>0, <1>g, <2>2, <2>4 DEF Backed
  <2>6. Control'
    <3>1. UNCHANGED <<place, full, force, listing>> /\ failed' \in BOOLEAN
      BY <1>0, <2>1 DEF Fetch, Control
    <3>2. QED  BY <1>0, <2>2, <2>4, <3>1, WalkControl
  <2>7. QED  BY <2>2, <2>4, <2>5, <2>6 DEF Shape
<1>8. ASSUME NEW d \in Docs, FailSave(d) PROVE Shape'
  <2>1. Fetch(d, pool) /\ failed' = TRUE /\ UNCHANGED <<dirty, row>>  BY <1>8 DEF FailSave
  <2>2. /\ Files' /\ Edges' /\ at'[d] \in Paths /\ links' = links \cup ({d} \X Targets[d])
        /\ \A e \in Docs \ {d} : at'[e] = at[e]
        /\ moves' \in [Docs -> Paths \cup {Gone}] /\ \A e \in Docs \ {d} : moves'[e] = moves[e]
        /\ pc = "walk" /\ pc' = "walk" /\ d \in todo /\ todo' = todo \ {d} /\ listing[d] \in Paths
    BY <1>0, <2>1, FetchShape DEF Edges
  <2>3. Rows' /\ \A e \in Docs : Mirrored(e)' <=> Mirrored(e)
    BY <1>0, <2>1 DEF Rows, Mirrored, Active, Pending
  <2>4. Backed'  BY <1>0, <1>g, <2>2, <2>3 DEF Backed
  <2>5. Control'
    <3>1. /\ UNCHANGED <<place, full, force, listing>> /\ failed' \in BOOLEAN
          /\ dirty' \in [Docs -> BOOLEAN]
      BY <1>0, <2>1 DEF Fetch, Control
    <3>2. QED  BY <1>0, <2>2, <3>1, WalkControl
  <2>6. QED  BY <2>2, <2>3, <2>4, <2>5 DEF Shape
<1>9. ASSUME NEW d \in Docs, FailFetch(d) PROVE Shape'
  <2>1. /\ d \in todo /\ pc = "walk" /\ pc' = "walk" /\ todo' = todo \ {d} /\ failed' = TRUE
        /\ \/ UNCHANGED <<at, moves>>
           \/ at' = [at EXCEPT ![d] = Followed(d)] /\ moves' = Moves(d)
        /\ UNCHANGED <<place, dirty, row, links, pool, body, full, force, listing, astray>>
    BY <1>9 DEF FailFetch, At, remote, manifest
  <2>2. listing[d] \in Paths  BY <1>0, <2>1 DEF Control
  <2>3. Files' /\ \A e \in Docs : at[e] # Gone => at'[e] # Gone
    <3>1. CASE UNCHANGED <<at, moves>>  BY <1>0, <2>1, <3>1 DEF Files
    <3>2. CASE at' = [at EXCEPT ![d] = Followed(d)]
      BY <1>0, <2>1, <2>2, <3>2, FollowedShape
    <3>3. QED  BY <2>1, <3>1, <3>2
  <2>4. Rows' /\ \A e \in Docs : Mirrored(e)' <=> Mirrored(e)
    BY <1>0, <2>1 DEF Rows, Mirrored, Active, Pending
  <2>5. Backed'  BY <1>0, <2>1, <2>3, <2>4 DEF Backed
  <2>6. Edges'  BY <1>0, <2>1 DEF Edges
  <2>7. Control'
    <3>1. moves' \in [Docs -> Paths \cup {Gone}] /\ \A e \in Docs \ {d} : moves'[e] = moves[e]
      BY <1>0, <2>1, MovesShape DEF Control
    <3>2. dirty' \in [Docs -> BOOLEAN]  BY <1>0, <2>1 DEF Control
    <3>3. QED  BY <1>0, <2>1, <3>1, <3>2, WalkControl
  <2>8. QED  BY <2>3, <2>4, <2>5, <2>6, <2>7 DEF Shape
<1>10. CASE BeginDeletes
  <2>1. /\ UNCHANGED <<place, dirty, row, links, pool, at, body, full, force, listing, moves,
                       failed, astray>>
        /\ pc' = "reap" /\ todo' \subseteq {d \in Docs : Active(d) /\ listing[d] = Gone}
    BY <1>10 DEF BeginDeletes, remote, manifest, bodies
  <2>2. Control'  BY <1>0, <2>1 DEF Control, Active
  <2>3. QED  BY <1>0, <1>2, <2>1, <2>2 DEF Edges
<1>11. ASSUME NEW d \in Docs, Trash(d) PROVE Shape'
  <2>1. /\ d \in todo /\ pc = "reap" /\ pc' = "reap" /\ todo' = todo \ {d}
        /\ row' = [row EXCEPT ![d] = [status |-> "trashed", path |-> InTrash]]
        /\ at' = [at EXCEPT ![d] = IF at[d] = row[d].path THEN InTrash ELSE at[d]]
        /\ moves' = [moves EXCEPT ![d] = IF moves[d] = Gone THEN row[d].path ELSE moves[d]]
        /\ UNCHANGED <<place, dirty, links, pool, body, full, force, listing, failed, astray>>
    BY <1>11 DEF Trash, remote
  <2>2. row[d].path \in Paths  BY <1>0, <2>1 DEF Control, Rows, Mirrored
  <2>3. row'[d] = [status |-> "trashed", path |-> InTrash] /\ \A e \in Docs \ {d} : row'[e] = row[e]
    BY <1>0, <2>1 DEF Rows
  <2>4. ~Mirrored(d)' /\ \A e \in Docs \ {d} : /\ Mirrored(e)' <=> Mirrored(e)
                                               /\ Active(e)' <=> Active(e)
    BY <2>3 DEF Mirrored, Active, Pending
  <2>5. Rows'
    <3>1. row' \in [Docs -> [status : Statuses, path : Paths \cup {Gone, InTrash}]]
      BY <1>0, <2>1 DEF Rows, Statuses
    <3>2. ASSUME NEW e \in Docs
          PROVE  /\ row'[e].status = "none" => row'[e].path = Gone
                 /\ row'[e].status = "trashed" => row'[e].path = InTrash
                 /\ Mirrored(e)' => row'[e].path \in Paths
      BY <1>0, <2>3, <2>4 DEF Rows
    <3>3. QED  BY <3>1, <3>2 DEF Rows
  <2>6. Files' /\ \A e \in Docs : at[e] # Gone => at'[e] # Gone
    BY <1>0, <1>g, <2>1, <2>2 DEF Files
  <2>7. Backed'  BY <1>0, <2>1, <2>4, <2>6 DEF Backed
  <2>8. Edges'  BY <1>0, <2>1 DEF Edges
  <2>9. Control'
    <3>1. moves' \in [Docs -> Paths \cup {Gone}]  BY <1>0, <2>1, <2>2 DEF Control
    <3>2. QED  BY <1>0, <2>1, <2>4, <3>1 DEF Control
  <2>10. QED  BY <2>5, <2>6, <2>7, <2>8, <2>9 DEF Shape
<1>12. CASE BeginFixup
  <2>1. /\ UNCHANGED <<place, dirty, row, links, pool, at, body, full, force, listing, moves,
                       failed, astray>>
        /\ pc' = "fixup" /\ todo' \subseteq Docs
    BY <1>12 DEF BeginFixup, remote, manifest, bodies
  <2>2. Control'  BY <1>0, <2>1 DEF Control
  <2>3. QED  BY <1>0, <1>2, <2>1, <2>2 DEF Edges
<1>13. ASSUME NEW d \in Docs, Fixup(d) PROVE Shape'
  <2>1. /\ pc = "fixup" /\ pc' = "fixup" /\ todo' = todo \ {d}
        /\ UNCHANGED <<place, dirty, row, links, pool, at, full, force, listing, moves>>
    BY <1>13 DEF Fixup, remote, manifest
  <2>2. failed' \in BOOLEAN  BY <1>0, <1>13 DEF Fixup, Control
  <2>3. DOMAIN body' = Docs /\ \A e \in Docs : DOMAIN body'[e] = DOMAIN body[e]
    <3>1. CASE UNCHANGED body  BY <1>0, <3>1 DEF Files
    <3>2. ASSUME NEW order \in SetToSeqs(Swaps(d)), body' = [body EXCEPT ![d] = Swapped(d, order)]
          PROVE  DOMAIN body' = Docs /\ \A e \in Docs : DOMAIN body'[e] = DOMAIN body[e]
      <4>1. DOMAIN Swapped(d, order) = DOMAIN body[d]  BY Unswapped
      <4>2. QED  BY <1>0, <3>2, <4>1 DEF Files
    <3>3. QED  BY <1>13, <3>1, <3>2 DEF Fixup
  <2>4. astray' \subseteq links
    <3>1. {d} \X Missed(d) \subseteq links /\ {d} \X Swaps(d) \subseteq links
      BY DEF Missed, Swaps, Concerned
    <3>2. astray' \subseteq astray \cup ({d} \X Missed(d)) \cup ({d} \X Swaps(d))
      BY <1>13 DEF Fixup
    <3>3. QED  BY <1>0, <3>1, <3>2 DEF Edges
  <2>5. Rows'  BY <1>0, <2>1 DEF Rows, Mirrored, Active, Pending
  <2>6. Files'  BY <1>0, <2>1, <2>3 DEF Files
  <2>7. Backed'  BY <1>0, <2>1 DEF Backed, Mirrored, Active, Pending
  <2>8. Edges'  BY <1>0, <2>1, <2>4 DEF Edges
  <2>9. Control'  BY <1>0, <2>1, <2>2 DEF Control
  <2>10. QED  BY <2>5, <2>6, <2>7, <2>8, <2>9 DEF Shape
<1>14. CASE BeginRewrite
  <2>1. /\ UNCHANGED <<place, dirty, row, links, pool, at, body, full, force, listing, moves,
                       failed, astray>>
        /\ pc' = "rewrite" /\ todo' = {l[1] : l \in links}
    BY <1>14 DEF BeginRewrite, remote, manifest, bodies
  <2>2. todo' \subseteq Docs  BY <1>0, <2>1 DEF Edges
  <2>3. Control'  BY <1>0, <2>1, <2>2 DEF Control
  <2>4. QED  BY <1>0, <1>2, <2>1, <2>3 DEF Edges
<1>15. ASSUME NEW d \in Docs, Rewrite(d) PROVE Shape'
  <2>1. /\ pc = "rewrite" /\ pc' = "rewrite" /\ todo' = todo \ {d}
        /\ UNCHANGED <<place, dirty, row, links, pool, at, full, force, listing, moves, astray>>
    BY <1>15 DEF Rewrite, remote, manifest
  <2>2. failed' \in BOOLEAN  BY <1>0, <1>15 DEF Rewrite, Control
  <2>3. DOMAIN body' = Docs /\ \A e \in Docs : DOMAIN body'[e] = DOMAIN body[e]
    <3>1. CASE UNCHANGED body  BY <1>0, <3>1 DEF Files
    <3>2. CASE body' = [body EXCEPT ![d] = Rewritten(d)]
      <4>1. DOMAIN Rewritten(d) = DOMAIN body[d]  BY DEF Rewritten
      <4>2. QED  BY <1>0, <3>2, <4>1 DEF Files
    <3>3. QED  BY <1>15, <3>1, <3>2 DEF Rewrite
  <2>4. Rows'  BY <1>0, <2>1 DEF Rows, Mirrored, Active, Pending
  <2>5. Files'  BY <1>0, <2>1, <2>3 DEF Files
  <2>6. Backed'  BY <1>0, <2>1 DEF Backed, Mirrored, Active, Pending
  <2>7. Edges'  BY <1>0, <2>1 DEF Edges
  <2>8. Control'  BY <1>0, <2>1, <2>2 DEF Control
  <2>9. QED  BY <2>4, <2>5, <2>6, <2>7, <2>8 DEF Shape
<1>16. ASSUME Rest, UNCHANGED <<place, dirty>> PROVE Control'
  BY <1>0, <1>16 DEF Control, Rest
<1>17. CASE Finish
  BY <1>0, <1>2, <1>16, <1>17 DEF Finish, remote, manifest, bodies, Edges
<1>18. CASE Die
  <2>1. astray' \subseteq astray \cup links  BY <1>18 DEF Die
  <2>2. UNCHANGED <<place, dirty, row, links, pool, at, body>> /\ Rest
    BY <1>18 DEF Die, remote, manifest, bodies
  <2>3. QED  BY <1>0, <1>2, <1>16, <2>1, <2>2 DEF Edges
<1>19. QED
  BY <1>1, <1>3, <1>4, <1>5, <1>6, <1>7, <1>8, <1>9, <1>10, <1>11, <1>12, <1>13, <1>14, <1>15,
     <1>17, <1>18 DEF Next

(* Rows, files, edges and bodies of every round and after every failure have
   their shape: a row has the kind of path that its status says, a body the
   destinations that its text has, and no link is astray that is not an edge. *)
THEOREM ReferencesTypes == Spec => []TypeOK
<1>1. Init => Shape  BY InitShape
<1>2. Shape /\ [Next]_vars => Shape'  BY ShapeNext
<1>3. Shape => TypeOK  BY ShapeTypes
<1>4. QED  BY <1>1, <1>2, <1>3, PTL DEF Spec

-----------------------------------------------------------------------------
(* rewriteLinks leaves no URL of a mirrored document. *)

\* What rewriteLinks has come to has no URL left, unless it has failed.
UrlInv ==
  pc = "rewrite" /\ ~failed =>
    \A l \in links : LET d == l[1]  t == l[2] IN
      d \notin todo /\ Active(d) /\ Active(t) /\ at[d] = row[d].path => body[d][t] # Url

LEMMA RewrittenValue ==
  ASSUME Shape, NEW d \in Docs, NEW r \in DOMAIN body[d]
  PROVE  Rewritten(d)[r] = IF r \in Targets[d] /\ body[d][r] = Url /\ Active(r)
                           THEN NewRel(d, r) ELSE body[d][r]
BY DEF Rewritten, Resolved, NewRel

LEMMA NewRelIsNoUrl ==
  ASSUME Shape, NEW d \in Docs, NEW t \in Docs, Mirrored(d), Mirrored(t)
  PROVE  NewRel(d, t) # Url
BY DestinationsAssumption DEF Shape, Rows, NewRel

LEMMA UrlNext == Shape /\ UrlInv /\ [Next]_vars => UrlInv'
<1>. SUFFICES ASSUME Shape, UrlInv, [Next]_vars PROVE UrlInv'
  OBVIOUS
<1>1. CASE UNCHANGED vars
  BY <1>1 DEF UrlInv, vars, manifest, bodies, round, Active
<1>2. CASE pc' # "rewrite"
  BY <1>2 DEF UrlInv
<1>3. CASE BeginRewrite
  <2>1. links' = links /\ todo' = {l[1] : l \in links}
    BY <1>3 DEF BeginRewrite, manifest
  <2>2. QED  BY <2>1 DEF UrlInv
<1>4. ASSUME NEW d \in Docs, Rewrite(d) PROVE UrlInv'
  <2>1. /\ pc = "rewrite" /\ todo' = todo \ {d}
        /\ UNCHANGED <<row, links, at>>
    BY <1>4 DEF Rewrite, manifest
  <2>2. SUFFICES ASSUME ~failed', NEW l \in links, l[1] \notin todo', Active(l[1]), Active(l[2]),
                        at[l[1]] = row[l[1]].path
                 PROVE  body'[l[1]][l[2]] # Url
    BY <2>1 DEF UrlInv, Active
  <2>3. ~failed  BY <1>4, <2>2 DEF Rewrite
  <2>4. l[1] \in Docs /\ l[2] \in Docs /\ l[2] \in Targets[l[1]]
    BY DEF Shape, Edges
  <2>5. l[2] \in DOMAIN body[l[1]]
    <3>1. at[l[1]] # Gone
      BY <2>2, <2>4, ReferencesAssumption DEF Shape, Rows, Mirrored
    <3>2. QED  BY <2>4, <3>1 DEF Shape, Files, Refs
  <2>6. CASE l[1] = d
    <3>1. body'[d] = Rewritten(d)
      BY <1>4, <2>2, <2>4, <2>6 DEF Rewrite, Shape, Files
    <3>2. NewRel(d, l[2]) # Url
      BY <2>2, <2>4, <2>6, NewRelIsNoUrl DEF Mirrored
    <3>3. QED  BY <2>2, <2>4, <2>5, <2>6, <3>1, <3>2, RewrittenValue
  <2>7. CASE l[1] # d
    <3>1. body'[l[1]] = body[l[1]]
      BY <1>4, <2>4, <2>7 DEF Rewrite, Shape, Files
    <3>2. QED  BY <2>1, <2>2, <2>3, <2>7, <3>1 DEF UrlInv
  <2>8. QED  BY <2>6, <2>7
<1>5. Finish \/ Die \/ Change \/ Begin \/ BeginDeletes \/ BeginFixup => pc' # "rewrite"
  <2>1. Finish \/ Die => pc' = "idle"  BY DEF Finish, Die, Rest
  <2>2. Change => pc' = "idle"  BY DEF Change, round
  <2>3. Begin \/ BeginDeletes \/ BeginFixup => pc' \in {"walk", "reap", "fixup"}
    BY DEF Begin, BeginDeletes, BeginFixup
  <2>4. QED  BY <2>1, <2>2, <2>3
<1>6. ASSUME NEW d \in Docs,
             \/ Skip(d) \/ HashSkip(d) \/ FailSave(d) \/ FailFetch(d) \/ Trash(d) \/ Fixup(d)
             \/ \E have \in SUBSET Keys : Write(d, have)
      PROVE  pc' # "rewrite"
  BY <1>6 DEF Skip, HashSkip, FailSave, FailFetch, Trash, Fixup, Write, Fetch, At
<1>7. QED  BY <1>1, <1>2, <1>3, <1>4, <1>5, <1>6 DEF Next

(* However long before or after the document its target was mirrored, and
   whatever rounds have died before: a round without failures leaves no URL of a
   mirrored document in a body that is where its row says. *)
THEOREM UrlsAlwaysRewritten == Spec => UrlsRewritten
<1>1. Init => Shape /\ UrlInv
  BY InitShape DEF Init, UrlInv
<1>2. Shape /\ UrlInv /\ [Next]_vars => Shape' /\ UrlInv'
  BY ShapeNext, UrlNext
<1>3. Shape /\ UrlInv =>
        [pc = "rewrite" /\ todo = {} /\ ~failed =>
           \A l \in links : LET d == l[1]  t == l[2] IN
             Active(d) /\ Active(t) /\ at[d] = row[d].path => body[d][t] # Url]_vars
  BY DEF UrlInv
<1>4. QED  BY <1>1, <1>2, <1>3, PTL DEF Spec, UrlsRewritten

-----------------------------------------------------------------------------
(* A forced round repairs what earlier rounds have led astray. *)

\* The body of d is where its row says, as the fetch of this round has made it.
ShowsAssets(d) ==
  Active(d) => \A k \in Assets[d] : body[d][k] = RelAsset(row[d].path, Pool[k])
Fetched(d) ==
  /\ Mirrored(d) /\ at[d] = row[d].path /\ ShowsAssets(d)
  /\ \A t \in Targets[d] : body[d][t] = Url

\* ... and once rewriteLinks has come to it.
Relinked(d) ==
  /\ at[d] = row[d].path /\ ShowsAssets(d)
  /\ \A t \in Targets[d] : IF d \in todo THEN body[d][t] = Url
                           ELSE Active(t) => body[d][t] = NewRel(d, t)

RepairInv ==
  force /\ ~failed =>
    /\ pc = "walk" => \A d \in Docs \ todo : listing[d] # Gone => Fetched(d)
    /\ pc \in {"reap", "fixup"} => \A d \in Docs : listing[d] # Gone => Fetched(d)
    /\ pc = "rewrite" => \A d \in Docs : listing[d] # Gone /\ Active(d) => Relinked(d)

\* What a forced round did not list is trashed, unless the guard forbids it.
Left(d) == listing[d] = Gone /\ Active(d)
GuardInv ==
  force =>
    /\ pc = "reap" => (JitterGuard /\ todo = {}) \/ \A d \in Docs : Left(d) => d \in todo
    /\ pc \in {"fixup", "rewrite"} => \A d \in Docs : Left(d) => JitterGuard

LEMMA FetchedFrame ==
  ASSUME NEW d, row'[d] = row[d], at'[d] = at[d], body'[d] = body[d]
  PROVE  /\ Fetched(d)' <=> Fetched(d)
         /\ ShowsAssets(d)' <=> ShowsAssets(d)
         /\ Mirrored(d)' <=> Mirrored(d)
         /\ Active(d)' <=> Active(d)
BY DEF Fetched, ShowsAssets, Mirrored, Active, Pending

LEMMA WrittenIsFetched ==
  ASSUME Shape, NEW d \in Docs, NEW have \in SUBSET Keys, Write(d, have)
  PROVE  Fetched(d)'
<1>1. Fetch(d, have)  BY DEF Write
<1>2. listing[d] \in Paths  BY <1>1, FetchShape
<1>3. PICK status \in {"active", "pending_assets"} :
        Save(d, status) /\ (status = "active" => Assets[d] \subseteq have)
  BY DEF Write
<1>4. row'[d] = [status |-> status, path |-> listing[d]]
  BY <1>2, <1>3, SaveShape DEF Shape
<1>5. body'[d] = Fresh(d, have) /\ at'[d] = listing[d]
  BY <1>1 DEF Fetch, Shape, Files
<1>6. Targets[d] \subseteq Docs /\ Assets[d] \subseteq Keys /\ Docs \cap Keys = {}
  BY ReferencesAssumption
<1>7. ASSUME NEW t \in Targets[d] PROVE body'[d][t] = Url
  <2>1. t \in Refs(d) /\ t \notin Assets[d]  BY <1>6 DEF Refs
  <2>2. QED  BY <1>5, <2>1 DEF Fresh
<1>8. ASSUME NEW k \in Assets[d], Active(d)' PROVE body'[d][k] = RelAsset(row'[d].path, Pool[k])
  <2>1. k \in Refs(d)  BY DEF Refs
  <2>2. k \in have  BY <1>3, <1>4, <1>8 DEF Active
  <2>3. QED  BY <1>4, <1>5, <2>1, <2>2 DEF Fresh
<1>9. Mirrored(d)' /\ at'[d] = row'[d].path  BY <1>4, <1>5 DEF Mirrored, Active, Pending
<1>10. QED  BY <1>7, <1>8, <1>9 DEF Fetched, ShowsAssets

\* No swap takes a URL or the path of an asset.
LEMMA FetchedIsNotSwapped ==
  ASSUME Shape, NEW d \in Docs, Fetched(d), NEW order \in SetToSeqs(Swaps(d))
  PROVE  \A r \in Refs(d) : Swapped(d, order)[r] = body[d][r]
<1>1. row[d].path \in Paths /\ OldPath(d) \in Paths
  BY DEF Fetched, Shape, Rows, Control, OldPath
<1>2. ASSUME NEW u \in Swaps(d) PROVE Active(d) /\ u \in Docs /\ OldPath(u) \in Paths
  BY DEF Swaps, Concerned, Shape, Rows, Control, OldPath, Mirrored
<1>3. ASSUME NEW r \in Refs(d), NEW u \in Swaps(d) PROVE body[d][r] # OldRel(d, u)
  <2>1. OldPath(u) \in Paths  BY <1>2
  <2>2. CASE r \in Targets[d]
    BY <1>1, <2>1, <2>2, DestinationsAssumption DEF Fetched, OldRel
  <2>3. CASE r \in Assets[d]
    <3>1. r \in Keys  BY <2>3, ReferencesAssumption
    <3>2. body[d][r] = RelAsset(row[d].path, Pool[r])
      BY <1>2, <2>3 DEF Fetched, ShowsAssets
    <3>3. QED  BY <1>1, <2>1, <3>1, <3>2, DestinationsAssumption DEF OldRel
  <2>4. QED  BY <2>2, <2>3 DEF Refs
<1>4. DOMAIN body[d] = Refs(d)
  BY <1>1, ReferencesAssumption DEF Fetched, Shape, Files
<1>5. QED  BY <1>3, <1>4, Unswapped

LEMMA RepairNext == Shape /\ RepairInv /\ [Next]_vars => RepairInv'
<1>. SUFFICES ASSUME Shape, RepairInv, [Next]_vars PROVE RepairInv'
  OBVIOUS
<1>0. Rows /\ Files /\ Backed /\ Edges /\ Control  BY DEF Shape
<1>g. Gone \notin Paths /\ Docs \cap Keys = {}
      /\ \A d \in Docs : Targets[d] \subseteq Docs /\ Assets[d] \subseteq Keys
  BY ReferencesAssumption
<1>1. CASE UNCHANGED vars
  <2>1. UNCHANGED <<row, at, body, links, pc, force, listing, todo, failed>>
    BY <1>1 DEF vars, manifest, bodies, round
  <2>2. \A d \in Docs : (Fetched(d)' <=> Fetched(d)) /\ (Relinked(d)' <=> Relinked(d))
                        /\ (Active(d)' <=> Active(d))
    BY <2>1, <1>g DEF Fetched, Relinked, ShowsAssets, Mirrored, Active, Pending, NewRel
  <2>3. QED  BY <2>1, <2>2 DEF RepairInv
<1>2. CASE pc' = "idle" \/ failed' = TRUE \/ force' = FALSE
  BY <1>2 DEF RepairInv
<1>3. CASE Change
  BY <1>2, <1>3 DEF Change, round
<1>4. CASE Begin
  <2>1. pc' = "walk" /\ \A d \in Docs : listing'[d] # Gone => d \in todo'
    BY <1>4 DEF Begin
  <2>2. QED  BY <2>1 DEF RepairInv
<1>5. ASSUME NEW d \in Docs, Skip(d) \/ HashSkip(d) PROVE RepairInv'
  <2>1. force' = FALSE  BY <1>0, <1>5 DEF Skip, HashSkip, Control
  <2>2. QED  BY <1>2, <2>1
<1>6. ASSUME NEW d \in Docs, FailSave(d) \/ FailFetch(d) PROVE RepairInv'
  BY <1>2, <1>6 DEF FailSave, FailFetch
<1>7. ASSUME NEW d \in Docs, NEW have \in SUBSET Keys, Write(d, have) PROVE RepairInv'
  <2>1. Fetch(d, have) /\ UNCHANGED failed  BY <1>7 DEF Write
  <2>2. /\ pc = "walk" /\ pc' = "walk" /\ d \in todo /\ todo' = todo \ {d} /\ listing[d] \in Paths
        /\ UNCHANGED <<force, listing>>
    BY <2>1, FetchShape DEF Fetch
  <2>3. Fetched(d)'  BY <1>7, WrittenIsFetched
  <2>4. ASSUME NEW e \in Docs \ {d} PROVE Fetched(e)' <=> Fetched(e)
    <3>1. row'[e] = row[e]
      BY <1>0, <1>7, <2>2, SaveShape DEF Write
    <3>2. at'[e] = at[e] /\ body'[e] = body[e]
      BY <1>0, <2>1 DEF Fetch, Files
    <3>3. QED  BY <3>1, <3>2, FetchedFrame
  <2>5. QED  BY <2>1, <2>2, <2>3, <2>4 DEF RepairInv
<1>8. CASE BeginDeletes
  <2>1. /\ UNCHANGED <<row, at, body, force, listing, failed>> /\ pc = "walk" /\ todo = {}
        /\ pc' = "reap"
    BY <1>8 DEF BeginDeletes, manifest, bodies
  <2>2. \A d \in Docs : Fetched(d)' <=> Fetched(d)
    BY <2>1, FetchedFrame
  <2>3. QED  BY <2>1, <2>2 DEF RepairInv
<1>9. ASSUME NEW d \in Docs, Trash(d) PROVE RepairInv'
  <2>1. /\ d \in todo /\ pc = "reap" /\ pc' = "reap"
        /\ row' = [row EXCEPT ![d] = [status |-> "trashed", path |-> InTrash]]
        /\ at' = [at EXCEPT ![d] = IF at[d] = row[d].path THEN InTrash ELSE at[d]]
        /\ UNCHANGED <<body, force, listing, failed>>
    BY <1>9 DEF Trash
  <2>2. listing[d] = Gone  BY <1>0, <2>1 DEF Control
  <2>3. ASSUME NEW e \in Docs \ {d} PROVE Fetched(e)' <=> Fetched(e)
    <3>1. row'[e] = row[e] /\ at'[e] = at[e] /\ body'[e] = body[e]
      BY <1>0, <2>1 DEF Rows, Files
    <3>2. QED  BY <3>1, FetchedFrame
  <2>4. QED  BY <2>1, <2>2, <2>3 DEF RepairInv
<1>10. CASE BeginFixup
  <2>1. UNCHANGED <<row, at, body, force, listing, failed>> /\ pc = "reap" /\ pc' = "fixup"
    BY <1>10 DEF BeginFixup, manifest, bodies
  <2>2. \A d \in Docs : Fetched(d)' <=> Fetched(d)
    BY <2>1, FetchedFrame
  <2>3. QED  BY <2>1, <2>2 DEF RepairInv
<1>11. ASSUME NEW d \in Docs, Fixup(d) PROVE RepairInv'
  <2>1. pc = "fixup" /\ pc' = "fixup" /\ UNCHANGED <<row, at, force, listing>>
    BY <1>11 DEF Fixup, manifest
  <2>2. SUFFICES ASSUME force, ~failed', NEW e \in Docs, listing[e] # Gone
                 PROVE  Fetched(e)'
    BY <2>1 DEF RepairInv
  <2>3. Fetched(e)  BY <1>11, <2>1, <2>2 DEF RepairInv, Fixup
  <2>4. \A r \in Refs(e) : body'[e][r] = body[e][r]
    <3>1. CASE body'[e] = body[e]  BY <3>1
    <3>2. ASSUME e = d, NEW order \in SetToSeqs(Swaps(d)), body' = [body EXCEPT ![d] = Swapped(d, order)]
          PROVE  \A r \in Refs(e) : body'[e][r] = body[e][r]
      <4>1. body'[d] = Swapped(d, order)  BY <1>0, <3>2 DEF Files
      <4>2. QED  BY <2>2, <2>3, <3>2, <4>1, FetchedIsNotSwapped
    <3>3. QED  BY <1>0, <1>11, <3>1, <3>2 DEF Fixup, Files
  <2>5. QED
    BY <2>1, <2>3, <2>4, <2>2 DEF Fetched, ShowsAssets, Refs, Mirrored, Active, Pending
<1>12. CASE BeginRewrite
  <2>1. /\ UNCHANGED <<row, at, body, force, listing, failed>> /\ pc = "fixup" /\ pc' = "rewrite"
        /\ todo' = {l[1] : l \in links}
    BY <1>12 DEF BeginRewrite, manifest, bodies
  <2>2. SUFFICES ASSUME force, ~failed, NEW d \in Docs, listing[d] # Gone, Active(d)
                 PROVE  Relinked(d)'
    BY <2>1 DEF RepairInv, Active
  <2>3. Fetched(d)  BY <2>1, <2>2 DEF RepairInv
  <2>4. Targets[d] # {} => d \in todo'
    <3>1. \A t \in Targets[d] : <<d, t>> \in links  BY <1>0, <2>2 DEF Backed, Mirrored
    <3>2. ASSUME NEW t \in Targets[d] PROVE d \in todo'
      <4>1. <<d, t>> \in links /\ <<d, t>>[1] = d  BY <3>1
      <4>2. QED  BY <2>1, <4>1
    <3>3. QED  BY <3>2
  <2>5. QED  BY <2>1, <2>3, <2>4 DEF Fetched, Relinked, ShowsAssets, Active
<1>13. ASSUME NEW d \in Docs, Rewrite(d) PROVE RepairInv'
  <2>1. pc = "rewrite" /\ pc' = "rewrite" /\ todo' = todo \ {d} /\ d \in todo
        /\ UNCHANGED <<row, at, force, listing>>
    BY <1>13 DEF Rewrite, manifest
  <2>2. SUFFICES ASSUME force, ~failed', NEW e \in Docs, listing[e] # Gone, Active(e)
                 PROVE  Relinked(e)'
    BY <2>1 DEF RepairInv, Active
  <2>3. ~failed /\ Relinked(e)  BY <1>13, <2>1, <2>2 DEF RepairInv, Rewrite
  <2>4. CASE e # d
    <3>1. body'[e] = body[e]  BY <1>0, <1>13, <2>4 DEF Rewrite, Files
    <3>2. e \in todo' <=> e \in todo  BY <2>1, <2>4
    <3>3. QED  BY <2>1, <2>3, <3>1, <3>2 DEF Relinked, ShowsAssets, Active, NewRel
  <2>5. CASE e = d
    <3>1. body'[d] = Rewritten(d)
      BY <1>0, <1>13, <2>2, <2>3, <2>5 DEF Rewrite, Files, Relinked
    <3>2. DOMAIN body[d] = Refs(d)
      BY <1>0, <1>g, <2>2, <2>3, <2>5 DEF Files, Relinked, Rows, Mirrored
    <3>3. ASSUME NEW t \in Targets[d], Active(t) PROVE body'[d][t] = NewRel(d, t)
      <4>1. body[d][t] = Url /\ t \in Refs(d)  BY <2>1, <2>3, <2>5 DEF Relinked, Refs
      <4>2. QED  BY <3>1, <3>2, <3>3, <4>1, RewrittenValue
    <3>4. ASSUME NEW k \in Assets[d] PROVE body'[d][k] = body[d][k]
      <4>1. k \in Refs(d) /\ k \notin Targets[d]  BY <1>g DEF Refs
      <4>2. QED  BY <3>1, <3>2, <4>1, RewrittenValue
    <3>5. d \notin todo'  BY <2>1
    <3>6. QED
      BY <2>1, <2>3, <2>5, <3>3, <3>4, <3>5 DEF Relinked, ShowsAssets, Active, NewRel
  <2>6. QED  BY <2>4, <2>5
<1>14. CASE Finish \/ Die
  BY <1>2, <1>14 DEF Finish, Die, Rest
<1>15. QED
  BY <1>1, <1>3, <1>4, <1>5, <1>6, <1>7, <1>8, <1>9, <1>10, <1>11, <1>12, <1>13, <1>14 DEF Next

LEMMA GuardFrame ==
  ASSUME row' = row, listing' = listing
  PROVE  (JitterGuard' <=> JitterGuard) /\ \A d \in Docs : Left(d)' <=> Left(d)
BY DEF JitterGuard, BelowJitterThreshold, Left, Active

\* What the guard is about stays once the walk is over, except for what is trashed.
LEMMA GuardNext == Shape /\ GuardInv /\ [Next]_vars => GuardInv'
<1>. SUFFICES ASSUME Shape, GuardInv, [Next]_vars PROVE GuardInv'
  OBVIOUS
<1>0. Rows /\ Control  BY DEF Shape
<1>1. CASE pc' \in {"idle", "walk"}
  BY <1>1 DEF GuardInv
<1>2. CASE BeginDeletes
  <2>1. /\ UNCHANGED <<row, force, listing>> /\ pc' = "reap"
        /\ force => full
        /\ todo' = IF full /\ ~JitterGuard THEN {d \in Docs : Left(d)} ELSE {}
    BY <1>0, <1>2 DEF BeginDeletes, manifest, Control, Left
  <2>2. (JitterGuard' <=> JitterGuard) /\ \A d \in Docs : Left(d)' <=> Left(d)
    BY <2>1, GuardFrame
  <2>3. CASE JitterGuard
    <3>1. JitterGuard' /\ todo' = {}  BY <2>1, <2>2, <2>3
    <3>2. QED  BY <2>1, <3>1 DEF GuardInv
  <2>4. CASE ~JitterGuard
    <3>1. force' => \A d \in Docs : Left(d)' => d \in todo'  BY <2>1, <2>2, <2>4
    <3>2. QED  BY <2>1, <3>1 DEF GuardInv
  <2>5. QED  BY <2>3, <2>4
<1>3. ASSUME NEW d \in Docs, Trash(d) PROVE GuardInv'
  <2>1. /\ d \in todo /\ pc = "reap" /\ pc' = "reap" /\ todo' = todo \ {d}
        /\ row' = [row EXCEPT ![d] = [status |-> "trashed", path |-> InTrash]]
        /\ UNCHANGED <<force, listing>>
    BY <1>3 DEF Trash
  <2>2. \A e \in Docs : Left(e)' => Left(e) /\ e # d
    BY <1>0, <2>1 DEF Left, Active, Rows
  <2>3. QED  BY <2>1, <2>2 DEF GuardInv
<1>4. CASE \/ BeginFixup \/ BeginRewrite \/ UNCHANGED vars
           \/ \E d \in Docs : Fixup(d) \/ Rewrite(d)
  <2>1. /\ UNCHANGED <<row, force, listing>>
        /\ \/ pc = "reap" /\ pc' = "fixup" /\ todo = {}
           \/ pc \in {"fixup", "rewrite"} /\ pc' \in {"fixup", "rewrite"}
           \/ pc' = pc /\ todo' = todo
    BY <1>4 DEF BeginFixup, BeginRewrite, Fixup, Rewrite, vars, manifest, round
  <2>2. (JitterGuard' <=> JitterGuard) /\ \A d \in Docs : Left(d)' <=> Left(d)
    BY <2>1, GuardFrame
  <2>3. QED  BY <2>1, <2>2 DEF GuardInv
<1>5. \/ pc' \in {"idle", "walk"} \/ BeginDeletes \/ BeginFixup \/ BeginRewrite \/ UNCHANGED vars
      \/ \E d \in Docs : Trash(d) \/ Fixup(d) \/ Rewrite(d)
  <2>1. Change => pc' = "idle"  BY DEF Change, round
  <2>2. ASSUME NEW d \in Docs,
               Skip(d) \/ HashSkip(d) \/ FailSave(d) \/ FailFetch(d) \/ \E have \in SUBSET Keys : Write(d, have)
        PROVE  pc' = "walk"
    BY <2>2 DEF Skip, HashSkip, FailSave, FailFetch, Write, Fetch, At
  <2>3. QED  BY <2>1, <2>2 DEF Next, Begin, Finish, Die, Rest
<1>6. QED  BY <1>1, <1>2, <1>3, <1>4, <1>5

(* Whatever earlier rounds have left astray: after a forced round without
   failures the body of each active document that it listed is where its row
   says, and its links to active documents and its assets resolve from there;
   and an active document that it did not list was left by the jitter guard. *)
THEOREM ForcedRoundsRepair == Spec => ForcedRoundRepairs
<1>1. Init => Shape /\ RepairInv /\ GuardInv
  BY InitShape DEF Init, RepairInv, GuardInv
<1>2. Shape /\ RepairInv /\ GuardInv /\ [Next]_vars => Shape' /\ RepairInv' /\ GuardInv'
  BY ShapeNext, RepairNext, GuardNext
<1>3. Shape /\ RepairInv /\ GuardInv =>
        [pc = "rewrite" /\ todo = {} /\ force /\ ~failed =>
           \A d \in Docs : Active(d) =>
             \/ listing[d] # Gone /\ Repaired(d)
             \/ listing[d] = Gone /\ JitterGuard]_vars
  BY DEF RepairInv, GuardInv, Left, Relinked, ShowsAssets, Repaired
<1>4. QED  BY <1>1, <1>2, <1>3, PTL DEF Spec, ForcedRoundRepairs

-----------------------------------------------------------------------------
(* Links follow their two ends. *)

\* The link is right for where its ends are, or for where they were when the
\* round began; a body with an asset to come has no links yet.
Settled(d, t) ==
  body[d][t] = Url \/ (Mirrored(t) /\ body[d][t] = NewRel(d, t))
Unsettled(d, t) ==
  body[d][t] = Url \/ ((Mirrored(t) \/ moves[t] # Gone) /\ body[d][t] = OldRel(d, t))
Unfixed(d) == pc \in {"walk", "reap"} \/ (pc = "fixup" /\ d \in todo)

Holding(d, t) == IF Unfixed(d) THEN Unsettled(d, t) ELSE Settled(d, t)

FollowInv ==
  /\ \A l \in links \ astray : Mirrored(l[1]) => Holding(l[1], l[2])
  /\ \A d \in Docs : Pending(d) => \A t \in Targets[d] : body[d][t] = Url

LEMMA LinkEnds ==
  ASSUME Edges, NEW l \in links
  PROVE  l[1] \in Docs /\ l[2] \in Docs /\ l[2] \in Targets[l[1]] /\ l = <<l[1], l[2]>>
BY DEF Edges

\* A link whose ends have not moved.
LEMMA Unmoved ==
  ASSUME NEW d, NEW t, moves[d] = Gone, moves[t] = Gone
  PROVE  OldRel(d, t) = NewRel(d, t) /\ (Unsettled(d, t) => Settled(d, t))
BY DEF OldRel, NewRel, OldPath, Unsettled, Settled

\* A link that fixupMovedLinks needs not touch.
LEMMA StaysPut ==
  ASSUME FollowInv, NEW d \in Docs, NEW t \in Docs, <<d, t>> \in links, t \in Targets[d],
         Mirrored(d), Unsettled(d, t), t \notin Missed(d), t \notin Swaps(d)
  PROVE  Settled(d, t)
<1>1. CASE moves[d] = Gone /\ moves[t] = Gone
  BY <1>1, Unmoved
<1>2. CASE ~(moves[d] = Gone /\ moves[t] = Gone)
  <2>1. Active(t)  BY <1>2 DEF Missed
  <2>2. CASE Active(d)
    <3>1. t \in Concerned(d)  BY <1>2, <2>1, <2>2 DEF Concerned
    <3>2. OldRel(d, t) = NewRel(d, t)  BY <3>1 DEF Swaps
    <3>3. QED  BY <2>1, <3>2 DEF Unsettled, Settled, Mirrored
  <2>3. CASE Pending(d)
    BY <2>3 DEF FollowInv, Settled
  <2>4. QED  BY <2>2, <2>3 DEF Mirrored
<1>3. QED  BY <1>1, <1>2

\* A link after the swaps of its document.
LEMMA SwappedSettles ==
  ASSUME Shape, FollowInv, NEW d \in Docs, NEW t \in Docs, <<d, t>> \in links, t \in Targets[d],
         Mirrored(d), at[d] = row[d].path, Unsettled(d, t), t \notin Missed(d),
         NEW order \in SetToSeqs(Swaps(d))
  PROVE  Swapped(d, order)[t] = Url \/ (Mirrored(t) /\ Swapped(d, order)[t] = NewRel(d, t))
<1>1. row[d].path \in Paths /\ OldPath(d) \in Paths /\ t \in DOMAIN body[d]
  <2>1. row[d].path \in Paths /\ OldPath(d) \in Paths
    BY DEF Shape, Rows, Control, OldPath
  <2>2. at[d] # Gone  BY <2>1, ReferencesAssumption
  <2>3. QED  BY <2>1, <2>2 DEF Shape, Files, Refs
<1>2. \A u \in Swaps(d) : OldRel(d, u) # Url
  <2>1. ASSUME NEW u \in Swaps(d) PROVE OldPath(u) \in Paths
    BY DEF Swaps, Concerned, Shape, Rows, Control, OldPath, Mirrored
  <2>2. QED  BY <1>1, <2>1, DestinationsAssumption DEF OldRel
<1>3. CASE body[d][t] = Url
  BY <1>1, <1>2, <1>3, Unswapped
<1>4. CASE body[d][t] # Url
  <2>1. (Mirrored(t) \/ moves[t] # Gone) /\ body[d][t] = OldRel(d, t)
    BY <1>4 DEF Unsettled
  <2>2. Mirrored(t)
    BY <2>1 DEF Missed, Mirrored
  <2>3. \A u \in Swaps(d) \ {t} : OldRel(d, u) \notin {OldRel(d, t), NewRel(d, t)}
    BY <2>2 DEF Missed
  <2>4. CASE t \in Swaps(d)
    BY <1>1, <2>1, <2>2, <2>3, <2>4, SwappedOnce
  <2>5. CASE t \notin Swaps(d)
    <3>1. Settled(d, t)  BY <2>5, StaysPut
    <3>2. Swapped(d, order)[t] = body[d][t]
      BY <1>1, <2>1, <2>3, <2>5, Unswapped
    <3>3. QED  BY <3>1, <3>2 DEF Settled
  <2>6. QED  BY <2>4, <2>5
<1>5. QED  BY <1>3, <1>4

\* The old path of a mirrored document outlasts the walk.
LEMMA OldPathStays ==
  ASSUME Rows, Control, NEW d \in Docs, d \in todo, pc = "walk", Mirrored(d),
         moves' = Moves(d), row'[d].path = listing[d] \/ row'[d] = row[d]
  PROVE  OldPath(d)' = OldPath(d)
<1>1. moves[d] = Gone /\ OldPath(d) = row[d].path /\ row[d].path # Gone
  BY ReferencesAssumption DEF Control, Rows, OldPath
<1>2. CASE Relocated(d)
  BY <1>1, <1>2 DEF Moves, OldPath, Control
<1>3. CASE ~Relocated(d)
  BY <1>1, <1>3 DEF Moves, OldPath, Relocated
<1>4. QED  BY <1>2, <1>3

LEMMA OldPathFrame ==
  ASSUME NEW d, row'[d] = row[d], moves'[d] = moves[d]
  PROVE  OldPath(d)' = OldPath(d) /\ (Mirrored(d)' <=> Mirrored(d)) /\ (Pending(d)' <=> Pending(d))
BY DEF OldPath, Mirrored, Active, Pending

\* A step of the walk that leaves the bodies.
LEMMA WalkFollows ==
  ASSUME Shape, FollowInv, NEW d \in todo, pc = "walk", pc' = "walk",
         links' = links, astray' = astray, body' = body,
         moves' = Moves(d) \/ moves' = moves,
         \A e \in Docs \ {d} : row'[e] = row[e],
         row'[d] = row[d] \/ (moves' = Moves(d) /\ Active(d) /\ row'[d].status = "active"
                                                /\ row'[d].path = listing[d])
  PROVE  FollowInv'
<1>0. Rows /\ Control /\ Edges /\ d \in Docs  BY DEF Shape, Control
<1>1. ASSUME NEW e \in Docs
      PROVE  /\ (Mirrored(e)' <=> Mirrored(e)) /\ (Pending(e)' <=> Pending(e))
             /\ Mirrored(e) => OldPath(e)' = OldPath(e)
             /\ moves[e] # Gone => OldPath(e)' = OldPath(e) /\ moves'[e] # Gone
  <2>1. CASE e # d
    <3>1. moves'[e] = moves[e]
      BY <1>0, <2>1, MovesShape
    <3>2. QED  BY <2>1, <3>1, OldPathFrame
  <2>2. CASE e = d
    <3>1. moves[d] = Gone  BY <1>0 DEF Control
    <3>2. (Mirrored(d)' <=> Mirrored(d)) /\ (Pending(d)' <=> Pending(d))
      BY DEF Mirrored, Active, Pending
    <3>3. ASSUME Mirrored(d) PROVE OldPath(d)' = OldPath(d)
      <4>1. CASE moves' = Moves(d)
        BY <1>0, <3>3, <4>1, OldPathStays
      <4>2. CASE moves' = moves /\ row'[d] = row[d]
        BY <4>2 DEF OldPath
      <4>3. QED  BY <4>1, <4>2
    <3>4. QED  BY <2>2, <3>1, <3>2, <3>3
  <2>3. QED  BY <2>1, <2>2
<1>2. ASSUME NEW l \in links \ astray, Mirrored(l[1])' PROVE Holding(l[1], l[2])'
  <2>1. l[1] \in Docs /\ l[2] \in Docs  BY <1>0, LinkEnds
  <2>2. Mirrored(l[1])  BY <1>1, <1>2, <2>1
  <2>3. Unsettled(l[1], l[2])  BY <2>2 DEF FollowInv, Holding, Unfixed
  <2>4. Unsettled(l[1], l[2])'
    <3>1. CASE body[l[1]][l[2]] = Url  BY <3>1 DEF Unsettled
    <3>2. CASE (Mirrored(l[2]) \/ moves[l[2]] # Gone) /\ body[l[1]][l[2]] = OldRel(l[1], l[2])
      <4>1. OldPath(l[1])' = OldPath(l[1])  BY <1>1, <2>1, <2>2
      <4>2. OldPath(l[2])' = OldPath(l[2]) /\ (Mirrored(l[2])' \/ moves'[l[2]] # Gone)
        BY <1>1, <2>1, <3>2
      <4>3. QED  BY <3>2, <4>1, <4>2 DEF Unsettled, OldRel
    <3>3. QED  BY <2>3, <3>1, <3>2 DEF Unsettled
  <2>5. QED  BY <2>4 DEF Holding, Unfixed
<1>3. \A e \in Docs : Pending(e)' => \A t \in Targets[e] : body'[e][t] = Url
  BY <1>1 DEF FollowInv
<1>4. QED  BY <1>2, <1>3 DEF FollowInv

\* A step that writes the body of d.
LEMMA FetchFollows ==
  ASSUME Shape, FollowInv, NEW d \in Docs, NEW have \in SUBSET Keys, Fetch(d, have),
         \A e \in Docs \ {d} : row'[e] = row[e],
         row'[d] = row[d] \/ (Mirrored(d)' /\ row'[d].path = listing[d])
  PROVE  FollowInv'
<1>0. Rows /\ Control /\ Edges /\ Files  BY DEF Shape
<1>1. /\ pc = "walk" /\ pc' = "walk" /\ d \in todo /\ links' = links \cup ({d} \X Targets[d])
      /\ \A e \in Docs \ {d} : moves'[e] = moves[e]
  BY FetchShape
<1>2. /\ astray' = {l \in astray : l[1] # d} /\ moves' = Moves(d)
      /\ body' = [body EXCEPT ![d] = Fresh(d, have)]
  BY DEF Fetch
<1>3. \A t \in Targets[d] : body'[d][t] = Url
  <2>1. \A t \in Targets[d] : t \in Refs(d) /\ t \notin Assets[d]
    BY ReferencesAssumption DEF Refs
  <2>2. body'[d] = Fresh(d, have)  BY <1>0, <1>2 DEF Files
  <2>3. QED  BY <2>1, <2>2 DEF Fresh
<1>4. ASSUME NEW l \in links' \ astray', Mirrored(l[1])' PROVE Holding(l[1], l[2])'
  <2>1. CASE l[1] = d
    <3>1. l[2] \in Targets[d]
      BY <1>0, <1>1, <2>1, LinkEnds
    <3>2. QED  BY <1>1, <1>3, <2>1, <3>1 DEF Holding, Unfixed, Unsettled
  <2>2. CASE l[1] # d
    <3>1. l \in links \ astray  BY <1>1, <1>2, <1>4, <2>2
    <3>2. l[1] \in Docs /\ l[2] \in Docs  BY <1>0, <3>1, LinkEnds
    <3>3. /\ OldPath(l[1])' = OldPath(l[1]) /\ Mirrored(l[1])
      BY <1>1, <1>4, <2>2, <3>2, OldPathFrame
    <3>4. Unsettled(l[1], l[2])  BY <1>1, <3>1, <3>3 DEF FollowInv, Holding, Unfixed
    <3>5. body'[l[1]] = body[l[1]]  BY <1>0, <1>2, <2>2, <3>2 DEF Files
    <3>6. CASE body[l[1]][l[2]] = Url
      BY <1>1, <3>5, <3>6 DEF Holding, Unfixed, Unsettled
    <3>7. CASE (Mirrored(l[2]) \/ moves[l[2]] # Gone) /\ body[l[1]][l[2]] = OldRel(l[1], l[2])
      <4>1. OldPath(l[2])' = OldPath(l[2]) /\ (Mirrored(l[2])' \/ moves'[l[2]] # Gone)
        <5>1. CASE l[2] = d
          <6>1. Mirrored(d)  BY <1>0, <1>1, <3>7, <5>1 DEF Control
          <6>2. OldPath(d)' = OldPath(d)  BY <1>0, <1>1, <1>2, <6>1, OldPathStays
          <6>3. Mirrored(d)'  BY <6>1 DEF Mirrored, Active, Pending
          <6>4. QED  BY <5>1, <6>2, <6>3
        <5>2. CASE l[2] # d
          BY <1>1, <3>2, <3>7, <5>2, OldPathFrame
        <5>3. QED  BY <5>1, <5>2
      <4>2. QED  BY <1>1, <3>3, <3>5, <3>7, <4>1 DEF Holding, Unfixed, Unsettled, OldRel
    <3>8. QED  BY <3>4, <3>6, <3>7 DEF Unsettled
  <2>3. QED  BY <2>1, <2>2
<1>5. ASSUME NEW e \in Docs, Pending(e)' PROVE \A t \in Targets[e] : body'[e][t] = Url
  <2>1. CASE e = d  BY <1>3, <2>1
  <2>2. CASE e # d
    <3>1. body'[e] = body[e] /\ Pending(e)
      BY <1>0, <1>1, <1>2, <1>5, <2>2, OldPathFrame DEF Files
    <3>2. QED  BY <3>1 DEF FollowInv
  <2>3. QED  BY <2>1, <2>2
<1>6. QED  BY <1>4, <1>5 DEF FollowInv

LEMMA FollowNext == Shape /\ FollowInv /\ [Next]_vars => FollowInv'
<1>. SUFFICES ASSUME Shape, FollowInv, [Next]_vars PROVE FollowInv'
  OBVIOUS
<1>0. Rows /\ Files /\ Backed /\ Edges /\ Control  BY DEF Shape
<1>1. ASSUME UNCHANGED <<row, links, body>>, \A l \in links \ astray' :
               Mirrored(l[1]) => l \in links \ astray /\ (Holding(l[1], l[2]) => Holding(l[1], l[2])')
      PROVE  FollowInv'
  BY <1>1 DEF FollowInv, Mirrored, Active, Pending
<1>2. ASSUME NEW d \in Docs, NEW t \in Docs, UNCHANGED <<row, body>>
      PROVE  (Settled(d, t)' <=> Settled(d, t))
             /\ (moves' = moves => (Unsettled(d, t)' <=> Unsettled(d, t)))
  BY <1>2 DEF Settled, Unsettled, Mirrored, Active, Pending, NewRel, OldRel, OldPath
<1>3. \A l \in links : l[1] \in Docs /\ l[2] \in Docs  BY <1>0, LinkEnds
<1>4. CASE UNCHANGED vars
  <2>1. UNCHANGED <<row, links, body, astray, moves, pc, todo>>
    BY <1>4 DEF vars, manifest, bodies, round
  <2>2. QED  BY <1>1, <1>2, <1>3, <2>1 DEF Holding, Unfixed
<1>5. CASE Change
  <2>1. UNCHANGED <<row, links, body, astray, moves, pc, todo>>
    BY <1>5 DEF Change, manifest, bodies, round
  <2>2. QED  BY <1>1, <1>2, <1>3, <2>1 DEF Holding, Unfixed
<1>6. CASE Begin
  <2>1. /\ UNCHANGED <<row, links, body, astray>> /\ pc = "idle" /\ pc' = "walk"
        /\ moves' = [d \in Docs |-> Gone]
    BY <1>6 DEF Begin, manifest, bodies
  <2>2. ASSUME NEW l \in links, Mirrored(l[1]), Settled(l[1], l[2]) PROVE Unsettled(l[1], l[2])'
    <3>1. moves'[l[1]] = Gone /\ moves'[l[2]] = Gone  BY <1>3, <2>1
    <3>2. QED
      BY <2>1, <2>2, <3>1 DEF Settled, Unsettled, OldRel, NewRel, OldPath, Mirrored, Active, Pending
  <2>3. QED  BY <1>1, <2>1, <2>2 DEF Holding, Unfixed
<1>7. ASSUME NEW d \in Docs, Skip(d) \/ HashSkip(d) PROVE FollowInv'
  <2>1. /\ d \in todo /\ pc = "walk" /\ pc' = "walk" /\ Active(d) /\ Save(d, "active")
        /\ moves' = Moves(d) /\ UNCHANGED <<body, astray>>
        /\ links' = links \/ links' = links \cup ({d} \X Targets[d])
    BY <1>7 DEF Skip, HashSkip, At
  <2>2. links' = links  BY <1>0, <2>1 DEF Backed, Mirrored
  <2>3. row'[d].status = "active" /\ row'[d].path = listing[d]
        /\ \A e \in Docs \ {d} : row'[e] = row[e]
    BY <1>0, <2>1 DEF Save, Rows
  <2>4. QED  BY <2>1, <2>2, <2>3, WalkFollows
<1>8. ASSUME NEW d \in Docs, FailFetch(d) PROVE FollowInv'
  <2>1. /\ d \in todo /\ pc = "walk" /\ pc' = "walk" /\ (moves' = Moves(d) \/ moves' = moves)
        /\ UNCHANGED <<row, links, body, astray>>
    BY <1>8 DEF FailFetch, At, manifest
  <2>2. QED  BY <2>1, WalkFollows
<1>9. ASSUME NEW d \in Docs, NEW have \in SUBSET Keys, Write(d, have) PROVE FollowInv'
  <2>1. Fetch(d, have)  BY <1>9 DEF Write
  <2>2. listing[d] \in Paths  BY <2>1, FetchShape
  <2>3. PICK status \in {"active", "pending_assets"} : Save(d, status)
    BY <1>9 DEF Write
  <2>4. row'[d] = [status |-> status, path |-> listing[d]] /\ \A e \in Docs \ {d} : row'[e] = row[e]
    BY <1>0, <2>2, <2>3, SaveShape
  <2>5. Mirrored(d)' /\ row'[d].path = listing[d]  BY <2>4 DEF Mirrored, Active, Pending
  <2>6. QED  BY <2>1, <2>4, <2>5, FetchFollows
<1>10. ASSUME NEW d \in Docs, FailSave(d) PROVE FollowInv'
  <2>1. Fetch(d, pool) /\ row' = row /\ pool \in SUBSET Keys
    BY <1>0, <1>10 DEF FailSave, Edges
  <2>2. QED  BY <2>1, FetchFollows
<1>11. CASE BeginDeletes
  <2>1. UNCHANGED <<row, links, body, astray, moves>> /\ pc = "walk" /\ pc' = "reap"
    BY <1>11 DEF BeginDeletes, manifest, bodies
  <2>2. QED  BY <1>1, <1>2, <1>3, <2>1 DEF Holding, Unfixed
<1>12. ASSUME NEW d \in Docs, Trash(d) PROVE FollowInv'
  <2>1. /\ d \in todo /\ pc = "reap" /\ pc' = "reap"
        /\ row' = [row EXCEPT ![d] = [status |-> "trashed", path |-> InTrash]]
        /\ moves' = [moves EXCEPT ![d] = IF moves[d] = Gone THEN row[d].path ELSE moves[d]]
        /\ UNCHANGED <<links, body, astray>>
    BY <1>12 DEF Trash
  <2>2. row[d].path \in Paths /\ row[d].path # Gone
    BY <1>0, <2>1, ReferencesAssumption DEF Control, Rows, Mirrored
  <2>3. ~Mirrored(d)' /\ ~Pending(d)'  BY <1>0, <2>1 DEF Mirrored, Active, Pending, Rows
  <2>4. moves'[d] # Gone /\ OldPath(d)' = OldPath(d)
    BY <1>0, <2>1, <2>2 DEF OldPath, Control
  <2>5. ASSUME NEW e \in Docs \ {d}
        PROVE  /\ OldPath(e)' = OldPath(e) /\ moves'[e] = moves[e]
               /\ (Mirrored(e)' <=> Mirrored(e)) /\ (Pending(e)' <=> Pending(e))
    <3>1. row'[e] = row[e] /\ moves'[e] = moves[e]  BY <1>0, <2>1 DEF Rows, Control
    <3>2. QED  BY <3>1, OldPathFrame
  <2>6. ASSUME NEW l \in links \ astray, Mirrored(l[1])' PROVE Holding(l[1], l[2])'
    <3>1. l[1] \in Docs \ {d} /\ l[2] \in Docs  BY <1>3, <2>3, <2>6
    <3>2. Unsettled(l[1], l[2])
      BY <2>1, <2>5, <2>6, <3>1 DEF FollowInv, Holding, Unfixed
    <3>3. OldPath(l[1])' = OldPath(l[1]) /\ OldPath(l[2])' = OldPath(l[2])
      BY <2>4, <2>5, <3>1
    <3>4. Mirrored(l[2]) \/ moves[l[2]] # Gone => Mirrored(l[2])' \/ moves'[l[2]] # Gone
      BY <2>4, <2>5, <3>1
    <3>5. Unsettled(l[1], l[2])'  BY <2>1, <3>2, <3>3, <3>4 DEF Unsettled, OldRel
    <3>6. QED  BY <2>1, <3>5 DEF Holding, Unfixed
  <2>7. \A e \in Docs : Pending(e)' => \A t \in Targets[e] : body'[e][t] = Url
    BY <2>1, <2>3, <2>5 DEF FollowInv
  <2>8. QED  BY <2>1, <2>6, <2>7 DEF FollowInv
<1>13. CASE BeginFixup
  <2>1. /\ UNCHANGED <<row, links, body, astray, moves>> /\ pc = "reap" /\ pc' = "fixup"
        /\ todo' = {d \in Docs : Swaps(d) \cup Missed(d) # {}}
    BY <1>13 DEF BeginFixup, manifest, bodies
  <2>2. ASSUME NEW l \in links \ astray, Mirrored(l[1]) PROVE Holding(l[1], l[2])'
    <3>1. l[1] \in Docs /\ l[2] \in Docs /\ l[2] \in Targets[l[1]] /\ l = <<l[1], l[2]>>
      BY <1>0, LinkEnds
    <3>2. Unsettled(l[1], l[2])  BY <2>1, <2>2 DEF FollowInv, Holding, Unfixed
    <3>3. CASE l[1] \in todo'
      BY <1>2, <2>1, <3>1, <3>2, <3>3 DEF Holding, Unfixed
    <3>4. CASE l[1] \notin todo'
      <4>1. l[2] \notin Missed(l[1]) /\ l[2] \notin Swaps(l[1])  BY <2>1, <3>1, <3>4
      <4>2. <<l[1], l[2]>> \in links  BY <3>1
      <4>3. Settled(l[1], l[2])  BY <2>2, <3>1, <3>2, <4>1, <4>2, StaysPut
      <4>4. QED  BY <1>2, <2>1, <3>1, <3>4, <4>3 DEF Holding, Unfixed
    <3>5. QED  BY <3>3, <3>4
  <2>3. QED  BY <1>1, <2>1, <2>2
<1>14. ASSUME NEW d \in Docs, Fixup(d) PROVE FollowInv'
  <2>1. /\ pc = "fixup" /\ pc' = "fixup" /\ d \in todo /\ todo' = todo \ {d}
        /\ UNCHANGED <<row, links, at, moves>>
        /\ astray \subseteq astray' /\ {d} \X Missed(d) \subseteq astray'
    BY <1>14 DEF Fixup, manifest
  <2>2. \A e \in Docs : (Mirrored(e)' <=> Mirrored(e)) /\ (Pending(e)' <=> Pending(e))
    BY <2>1 DEF Mirrored, Active, Pending
  <2>3. \A e \in Docs \ {d} : body'[e] = body[e]
    BY <1>0, <1>14 DEF Fixup, Files
  <2>4. ASSUME NEW l \in links \ astray', Mirrored(l[1]) PROVE Holding(l[1], l[2])'
    <3>1. l[1] \in Docs /\ l[2] \in Docs /\ l[2] \in Targets[l[1]] /\ l = <<l[1], l[2]>>
      BY <1>0, LinkEnds
    <3>2. Holding(l[1], l[2])  BY <2>1, <2>4 DEF FollowInv
    <3>3. CASE l[1] # d
      <4>1. body'[l[1]] = body[l[1]] /\ (l[1] \in todo' <=> l[1] \in todo)
        BY <2>1, <2>3, <3>1, <3>3
      <4>2. QED
        BY <2>1, <3>2, <4>1 DEF Holding, Unfixed, Settled, Unsettled, Mirrored, Active, Pending,
                                NewRel, OldRel, OldPath
    <3>4. CASE l[1] = d
      <4> DEFINE t == l[2]
      <4>1. <<d, t>> \in links /\ t \in Docs /\ t \in Targets[d] /\ Mirrored(d) /\ Unsettled(d, t)
        BY <2>1, <2>4, <3>1, <3>2, <3>4 DEF Holding, Unfixed
      <4>2. t \notin Missed(d)
        <5>1. <<d, t>> \notin astray'  BY <2>4, <3>1, <3>4
        <5>2. QED  BY <2>1, <5>1
      <4>3. body'[d][t] = Url \/ (Mirrored(t) /\ body'[d][t] = NewRel(d, t))
        <5>1. ASSUME NEW order \in SetToSeqs(Swaps(d)), at[d] = row[d].path,
                     body' = [body EXCEPT ![d] = Swapped(d, order)]
              PROVE  body'[d][t] = Url \/ (Mirrored(t) /\ body'[d][t] = NewRel(d, t))
          <6>1. body'[d] = Swapped(d, order)  BY <1>0, <5>1 DEF Files
          <6> HIDE DEF t
          <6>2. QED  BY <4>1, <4>2, <5>1, <6>1, SwappedSettles
        <5>2. ASSUME body' = body, t \notin Swaps(d)
              PROVE  body'[d][t] = Url \/ (Mirrored(t) /\ body'[d][t] = NewRel(d, t))
          <6> HIDE DEF t
          <6>1. Settled(d, t)  BY <4>1, <4>2, <5>2, StaysPut
          <6>2. QED  BY <5>2, <6>1 DEF Settled
        <5>3. CASE at[d] # row[d].path /\ body' = body
          <6> HIDE DEF t
          <6>1. t \notin Swaps(d)  BY <4>1, <4>2, <5>3 DEF Swaps, Concerned, Missed
          <6>2. QED  BY <5>2, <5>3, <6>1
        <5>4. CASE astray' = astray \cup ({d} \X (Missed(d) \cup Swaps(d))) /\ body' = body
          <6>1. <<d, t>> \notin astray'  BY <2>4, <3>1, <3>4
          <6> HIDE DEF t
          <6>2. t \notin Swaps(d)  BY <5>4, <6>1
          <6>3. QED  BY <5>2, <5>4, <6>2
        <5>5. QED  BY <1>14, <5>1, <5>3, <5>4 DEF Fixup
      <4>4. QED
        BY <2>1, <3>4, <4>3 DEF Holding, Unfixed, Settled, Mirrored, Active, Pending, NewRel
    <3>5. QED  BY <3>3, <3>4
  <2>5. ASSUME NEW e \in Docs, Pending(e) PROVE \A t \in Targets[e] : body'[e][t] = Url
    <3>1. CASE body'[e] = body[e]  BY <2>5, <3>1 DEF FollowInv
    <3>2. ASSUME e = d, NEW order \in SetToSeqs(Swaps(d)), body' = [body EXCEPT ![d] = Swapped(d, order)]
          PROVE  \A t \in Targets[e] : body'[e][t] = Url
      <4>1. body'[d] = Swapped(d, order)  BY <1>0, <3>2 DEF Files
      <4>2. Swaps(d) = {}  BY <2>5, <3>2 DEF Swaps, Concerned, Active, Pending
      <4>3. DOMAIN body[d] = Refs(d)
        BY <1>0, <2>5, <3>2 DEF Backed, Files, Mirrored
      <4>4. \A t \in Targets[d] : Swapped(d, order)[t] = body[d][t]
        BY <4>2, <4>3, Unswapped DEF Refs
      <4>5. QED  BY <2>5, <3>2, <4>1, <4>4 DEF FollowInv
    <3>3. QED  BY <1>14, <2>3, <3>1, <3>2 DEF Fixup
  <2>6. QED  BY <2>1, <2>2, <2>4, <2>5, <1>3 DEF FollowInv
<1>15. CASE BeginRewrite
  <2>1. UNCHANGED <<row, links, body, astray>> /\ pc = "fixup" /\ todo = {} /\ pc' = "rewrite"
    BY <1>15 DEF BeginRewrite, manifest, bodies
  <2>2. QED  BY <1>1, <1>2, <1>3, <2>1 DEF Holding, Unfixed
<1>16. ASSUME NEW d \in Docs, Rewrite(d) PROVE FollowInv'
  <2>1. pc = "rewrite" /\ pc' = "rewrite" /\ UNCHANGED <<row, links, at, moves, astray>>
    BY <1>16 DEF Rewrite, manifest
  <2>2. \A e \in Docs : (Mirrored(e)' <=> Mirrored(e)) /\ (Pending(e)' <=> Pending(e))
    BY <2>1 DEF Mirrored, Active, Pending
  <2>3. ASSUME NEW e \in Docs, Mirrored(e)
        PROVE  \/ body'[e] = body[e]
               \/ Active(e) /\ \A t \in Targets[e] :
                    body'[e][t] = IF body[e][t] = Url /\ Active(t) THEN NewRel(e, t) ELSE body[e][t]
    <3>1. CASE body'[e] = body[e]  BY <3>1
    <3>2. CASE e = d /\ Active(d) /\ body' = [body EXCEPT ![d] = Rewritten(d)]
      <4>1. body'[d] = Rewritten(d)  BY <1>0, <3>2 DEF Files
      <4>2. DOMAIN body[d] = Refs(d)  BY <1>0, <2>3, <3>2 DEF Backed, Files
      <4>3. QED  BY <3>2, <4>1, <4>2, RewrittenValue DEF Refs
    <3>3. QED  BY <1>0, <1>16, <3>1, <3>2 DEF Rewrite, Files
  <2>4. ASSUME NEW l \in links \ astray, Mirrored(l[1]) PROVE Holding(l[1], l[2])'
    <3>1. l[1] \in Docs /\ l[2] \in Targets[l[1]]  BY <1>0, LinkEnds
    <3>2. Settled(l[1], l[2])  BY <2>1, <2>4 DEF FollowInv, Holding, Unfixed
    <3>3. body'[l[1]][l[2]] = Url \/ (Mirrored(l[2]) /\ body'[l[1]][l[2]] = NewRel(l[1], l[2]))
      BY <2>3, <2>4, <3>1, <3>2 DEF Settled, Mirrored
    <3>4. QED
      BY <2>1, <3>3 DEF Holding, Unfixed, Settled, Mirrored, Active, Pending, NewRel
  <2>5. ASSUME NEW e \in Docs, Pending(e) PROVE \A t \in Targets[e] : body'[e][t] = Url
    <3>1. ~Active(e) /\ Mirrored(e)  BY <2>5 DEF Active, Pending, Mirrored
    <3>2. body'[e] = body[e]  BY <2>3, <3>1
    <3>3. QED  BY <2>5, <3>2 DEF FollowInv
  <2>6. QED  BY <1>3, <2>1, <2>2, <2>4, <2>5 DEF FollowInv
<1>17. CASE Finish
  <2>1. UNCHANGED <<row, links, body, astray>> /\ pc = "rewrite" /\ pc' = "idle"
    BY <1>17 DEF Finish, Rest, manifest, bodies
  <2>2. QED  BY <1>1, <1>2, <1>3, <2>1 DEF Holding, Unfixed
<1>18. CASE Die
  <2>1. /\ UNCHANGED <<row, links, body>> /\ pc' = "idle" /\ astray \subseteq astray'
        /\ pc # "rewrite" =>
             \A l \in links : /\ pc = "fixup" => l[1] \in todo
                              /\ moves[l[1]] # Gone \/ moves[l[2]] # Gone
                              => l \in astray'
    BY <1>18 DEF Die, Rest, manifest, bodies
  <2>2. ASSUME NEW l \in links \ astray', Mirrored(l[1]), Holding(l[1], l[2])
        PROVE  Holding(l[1], l[2])'
    <3>1. l[1] \in Docs /\ l[2] \in Docs  BY <1>3
    <3>2. Settled(l[1], l[2])
      <4>1. CASE ~Unfixed(l[1])  BY <2>2, <4>1 DEF Holding
      <4>2. CASE Unfixed(l[1])
        <5>1. moves[l[1]] = Gone /\ moves[l[2]] = Gone
          BY <2>1, <2>2, <4>2 DEF Unfixed
        <5>2. QED  BY <2>2, <4>2, <5>1, Unmoved DEF Holding
      <4>3. QED  BY <4>1, <4>2
    <3>3. QED  BY <1>2, <2>1, <3>1, <3>2 DEF Holding, Unfixed
  <2>3. QED  BY <1>1, <2>1, <2>2
<1>19. QED
  BY <1>4, <1>5, <1>6, <1>7, <1>8, <1>9, <1>10, <1>11, <1>12, <1>13, <1>14, <1>15, <1>16, <1>17,
     <1>18 DEF Next

(* A link that was once made relative leads to its target after every round,
   full or incremental, whatever its two ends have done and whichever documents
   failed, unless the round has missed it in one of the ways named: its old and
   new destination are known until its document is fixed, and no other swap of
   the document takes it. *)
THEOREM LinksAlwaysFollow == Spec => []LinksFollow
<1>1. Init => Shape /\ FollowInv
  <2>1. Init => FollowInv  BY DEF Init, FollowInv, Pending
  <2>2. QED  BY <2>1, InitShape
<1>2. Shape /\ FollowInv /\ [Next]_vars => Shape' /\ FollowInv'
  BY ShapeNext, FollowNext
<1>3. FollowInv => LinksFollow
  BY DEF FollowInv, LinksFollow, Holding, Unfixed, Settled, Mirrored
<1>4. QED  BY <1>1, <1>2, <1>3, PTL DEF Spec
===============================================================================
