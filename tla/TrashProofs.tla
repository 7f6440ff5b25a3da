------------------------------ MODULE TrashProofs ------------------------------
(***************************************************************************)
(* Proofs about Trash, for every number of pages, days of retention and      *)
(* hours: the file system stays a tree, what is in the trash stays for its   *)
(* days, tombstones have their bodies, and no live body is trashed with a    *)
(* directory.                                                                *)
(***************************************************************************)
EXTENDS Trash, SequenceTheorems, TLAPS

-----------------------------------------------------------------------------
(* Paths. *)

Path == {p \in Seq(Component) : Len(p) >= 1 /\ p[1] \in {Tree} \cup Nat}

LEMMA PathFacts ==
  ASSUME NEW p \in Path
  PROVE  /\ p \in Seq(Component) /\ Len(p) \in Nat /\ Len(p) >= 1 /\ p # <<>>
         /\ \A i \in 1..Len(p) : p[i] \in Component
         /\ InTrash(p) => p[1] \in Nat
         /\ p[1] \in Nat => InTrash(p)
         /\ p # NoPath
<1>1. /\ p \in Seq(Component) /\ Len(p) \in Nat /\ Len(p) >= 1 /\ p # <<>>
      /\ p[1] \in {Tree} \cup Nat
  BY DEF Path
<1>2. \A i \in 1..Len(p) : p[i] \in Component  BY <1>1
<1>3. QED  BY <1>1, <1>2, PathAssumption DEF InTrash

LEMMA MakePath ==
  ASSUME NEW p \in Seq(Component), Len(p) >= 1, p[1] \in {Tree} \cup Nat
  PROVE  p \in Path
BY DEF Path

LEMMA UnderFacts ==
  ASSUME NEW p \in Path, NEW x \in Path
  PROVE  /\ Under(p, x) => /\ Len(x) >= Len(p) /\ \A i \in 1..Len(p) : x[i] = p[i]
                           /\ Len(x) = Len(p) => x = p
         /\ Under(p, p)
<1>1. ASSUME Under(p, x)
      PROVE  /\ Len(x) >= Len(p) /\ \A i \in 1..Len(p) : x[i] = p[i]
             /\ Len(x) = Len(p) => x = p
  <2>1. Len(x) >= Len(p) /\ SubSeq(x, 1, Len(p)) = p  BY <1>1 DEF Under
  <2>2. \A i \in 1..Len(p) : SubSeq(x, 1, Len(p))[i] = x[i]
    <3>1. Len(p) \in Int /\ \A i \in 1..Len(p) : x[i] \in Component
      BY <2>1, PathFacts
    <3>2. \A i \in 1..(Len(p) - 1 + 1) : SubSeq(x, 1, Len(p))[i] = x[1 + i - 1]
      BY <3>1, SubSeqProperties
    <3>3. \A i \in 1..Len(p) : i \in 1..(Len(p) - 1 + 1) /\ 1 + i - 1 = i
      BY <3>1
    <3>4. QED  BY <3>2, <3>3
  <2>3. Len(x) = Len(p) => x = p
    BY <2>1, PathFacts, SubSeqFull
  <2>4. QED  BY <2>1, <2>2, <2>3
<1>2. Under(p, p)
  BY PathFacts, SubSeqFull DEF Under
<1>3. QED  BY <1>1, <1>2

\* What a rename does to a path.
LEMMA RenamedFacts ==
  ASSUME NEW src \in Path, NEW dst \in Path, NEW x \in Path
  PROVE  /\ Renamed(x, src, dst) \in Path
         /\ Renamed(src, src, dst) = dst
         /\ ~ Under(src, x) => Renamed(x, src, dst) = x
         /\ Under(src, x) => /\ Renamed(x, src, dst)[1] = dst[1]
                             /\ Under(dst, Renamed(x, src, dst))
<1> DEFINE rest(y) == SubSeq(y, Len(src) + 1, Len(y))
<1>1. ASSUME NEW y \in Path, Under(src, y)
      PROVE  rest(y) \in Seq(Component) /\ Len(rest(y)) = Len(y) - Len(src)
  <2>1. Len(src) \in Nat /\ Len(y) \in Nat /\ Len(src) <= Len(y) /\ Len(src) >= 1
    BY <1>1, PathFacts, UnderFacts
  <2>2. \A i \in (Len(src) + 1)..Len(y) : y[i] \in Component
    BY <2>1, PathFacts
  <2>3. /\ rest(y) \in Seq(Component)
        /\ Len(rest(y)) = IF Len(src) + 1 <= Len(y) THEN Len(y) - (Len(src) + 1) + 1 ELSE 0
    BY <2>1, <2>2, SubSeqProperties
  <2>4. QED  BY <2>1, <2>3
<1> HIDE DEF rest
<1>2. ASSUME NEW s \in Seq(Component)
      PROVE  /\ dst \o s \in Path /\ (dst \o s)[1] = dst[1] /\ Under(dst, dst \o s)
  <2>1. /\ dst \o s \in Seq(Component) /\ Len(dst \o s) = Len(dst) + Len(s)
        /\ \A i \in 1..Len(dst) : (dst \o s)[i] = dst[i]
    BY PathFacts, ConcatProperties
  <2>2. Len(dst) \in Nat /\ Len(dst) >= 1 /\ Len(s) \in Nat  BY PathFacts
  <2>3. (dst \o s)[1] = dst[1] /\ Len(dst \o s) >= Len(dst) /\ Len(dst \o s) >= 1
    BY <2>1, <2>2
  <2>4. SubSeq(dst \o s, 1, Len(dst)) = SubSeq(dst, 1, Len(dst))
    BY <2>2, PathFacts, SubSeqOfConcat1
  <2>5. SubSeq(dst, 1, Len(dst)) = dst  BY PathFacts, SubSeqFull
  <2>6. dst \o s \in Path
    <3>1. dst[1] \in {Tree} \cup Nat  BY DEF Path
    <3>2. QED  BY <2>1, <2>3, <3>1, MakePath
  <2>7. QED  BY <2>3, <2>4, <2>5, <2>6 DEF Under
<1>3. Renamed(src, src, dst) = dst
  <2>1. rest(src) = <<>>
    BY PathFacts, SubSeqEmpty DEF rest
  <2>2. dst \o <<>> = dst  BY PathFacts, ConcatEmptySeq
  <2>3. QED  BY <2>1, <2>2, UnderFacts DEF Renamed, rest
<1>4. QED  BY <1>1, <1>2, <1>3 DEF Renamed, rest

LEMMA OlderFacts ==
  ASSUME NEW p \in Path
  PROVE  /\ Older(p) \in Path
         /\ ~ InTrash(p) => Older(p) = p
         /\ InTrash(p) => InTrash(Older(p))
<1>1. CASE p[1] = Tree \/ p[1] > KeepDays + 1
  BY <1>1 DEF Older, InTrash
<1>2. CASE ~ (p[1] = Tree \/ p[1] > KeepDays + 1)
  <2> DEFINE n == p[1] + 1
  <2>1. p[1] \in Nat /\ InTrash(p) /\ p # NoPath  BY <1>2, PathFacts DEF Path, InTrash
  <2>2. Older(p) = <<n>> \o Tail(p)  BY <1>2, <2>1 DEF Older
  <2>3. Tail(p) \in Seq(Component)  BY PathFacts, HeadTailProperties
  <2>4. <<n>> \in Seq(Component) /\ Len(<<n>>) = 1 /\ <<n>>[1] = n /\ n \in Nat
    BY <2>1 DEF Component
  <2>5. /\ <<n>> \o Tail(p) \in Seq(Component) /\ Len(<<n>> \o Tail(p)) = 1 + Len(Tail(p))
        /\ (<<n>> \o Tail(p))[1] = n /\ Len(Tail(p)) \in Nat
    BY <2>3, <2>4, ConcatProperties
  <2> DEFINE q == <<n>> \o Tail(p)
  <2>6. q \in Seq(Component) /\ Len(q) >= 1 /\ q[1] \in Nat
    BY <2>4, <2>5
  <2> HIDE DEF n, q
  <2>7. Older(p) = q /\ q \in Path  BY <2>2, <2>6, MakePath DEF q
  <2>8. QED  BY <2>1, <2>6, <2>7, PathFacts
<1>3. QED  BY <1>1, <1>2

LEMMA TrashPathFacts ==
  ASSUME NEW d, row[d].path \in Path
  PROVE  TrashPath(d) \in Path /\ TrashPath(d)[1] = 0 /\ InTrash(TrashPath(d))
<1> DEFINE p == row[d].path
<1>1. Tail(p) \in Seq(Component)  BY PathFacts, HeadTailProperties
<1>2. <<0>> \in Seq(Component) /\ Len(<<0>>) = 1 /\ <<0>>[1] = 0  BY DEF Component
<1>3. /\ <<0>> \o Tail(p) \in Seq(Component) /\ Len(<<0>> \o Tail(p)) = 1 + Len(Tail(p))
      /\ (<<0>> \o Tail(p))[1] = 0 /\ Len(Tail(p)) \in Nat
  BY <1>1, <1>2, ConcatProperties
<1> DEFINE q == <<0>> \o Tail(p)
<1>4. q \in Seq(Component) /\ Len(q) >= 1 /\ q[1] = 0  BY <1>3
<1>5. TrashPath(d) = q  BY DEF TrashPath
<1> HIDE DEF q
<1>6. TrashPath(d) \in Path  BY <1>4, <1>5, MakePath
<1>7. QED  BY <1>4, <1>5, <1>6, PathFacts

-----------------------------------------------------------------------------
(* Files. *)

Clock == 0..(Hours - 1)

\* Files have paths, and the hour of a day.
Filed(fs) == \A x \in DOMAIN fs : x \in Path /\ fs[x].hour \in Clock

LEMMA RenameFilesFacts ==
  ASSUME NEW fs, Filed(fs), hour \in Clock, Hours \in Nat \ {0},
         NEW src \in Path, NEW dst \in Path
  PROVE  /\ Filed(RenameFiles(fs, src, dst))
         /\ \A x \in DOMAIN fs : ~ Under(src, x) => x \in DOMAIN RenameFiles(fs, src, dst)
         /\ \A x \in DOMAIN fs : ~ Under(src, x) /\ ~ Under(dst, x) =>
              RenameFiles(fs, src, dst)[x] = fs[x]
         /\ src \in DOMAIN fs => dst \in DOMAIN RenameFiles(fs, src, dst)
<1> DEFINE g == RenameFiles(fs, src, dst)
           new == {Renamed(x, src, dst) : x \in DOMAIN fs}
           from(y) == CHOOSE x \in DOMAIN fs : Under(src, x) /\ Renamed(x, src, dst) = y
           Came(y) == Under(dst, y) /\ (\E x \in DOMAIN fs : Under(src, x) /\ Renamed(x, src, dst) = y)
           Moved(y) == [doc |-> fs[from(y)].doc, hour |-> IF InTrash(y) THEN hour ELSE 0]
<1>1. g = [y \in new |-> IF Came(y) THEN Moved(y) ELSE fs[y]]
  BY DEF RenameFiles
<1>2. \A y : Moved(y).hour \in Clock
  <2>1. 0 \in Clock  BY DEF Clock
  <2>2. QED  BY <2>1
<1> HIDE DEF Moved
<1>3. DOMAIN fs \subseteq Path  BY DEF Filed
<1>4. \A x \in DOMAIN fs : /\ Renamed(x, src, dst) \in Path
                           /\ ~ Under(src, x) => Renamed(x, src, dst) = x
                           /\ Under(src, x) => Under(dst, Renamed(x, src, dst))
  BY <1>3, RenamedFacts
<1>5. ASSUME NEW y \in new PROVE y \in Path /\ (Came(y) \/ y \in DOMAIN fs)
  <2>1. PICK x \in DOMAIN fs : y = Renamed(x, src, dst)  OBVIOUS
  <2>2. QED  BY <1>4, <2>1
<1>6. DOMAIN g = new  BY <1>1
<1>7. \A y \in new : g[y] = IF Came(y) THEN Moved(y) ELSE fs[y]  BY <1>1
<1>8. \A x \in DOMAIN fs : ~ Under(src, x) => x \in new
  BY <1>4
<1>9. src \in DOMAIN fs => dst \in new
  BY RenamedFacts
<1> HIDE DEF g, new, Came
<1>10. Filed(g)
  BY <1>2, <1>5, <1>6, <1>7 DEF Filed
<1>11. \A x \in DOMAIN fs : ~ Under(src, x) /\ ~ Under(dst, x) => g[x] = fs[x]
  BY <1>7, <1>8 DEF Came
<1>12. QED  BY <1>6, <1>8, <1>9, <1>10, <1>11 DEF g

-----------------------------------------------------------------------------
(* Days and hours. *)

LEMMA HoursFacts ==
  /\ Hours \in Nat \ {0} /\ KeepDays \in Nat
  /\ \A h \in Clock : (h + 1) % Hours \in Clock
  /\ \A n \in Nat : n > KeepDays => n * Hours >= KeepDays * Hours + Hours
<1>1. Hours \in Nat \ {0} /\ KeepDays \in Nat  BY ConstantsAssumption
<1>2. ASSUME NEW h \in Clock PROVE (h + 1) % Hours \in Clock
  BY <1>1 DEF Clock
<1>3. ASSUME NEW n \in Nat, n > KeepDays PROVE n * Hours >= KeepDays * Hours + Hours
  <2>1. PICK k \in Nat : n = KeepDays + 1 + k
    <3>1. n - KeepDays - 1 \in Nat /\ n = KeepDays + 1 + (n - KeepDays - 1)  BY <1>1, <1>3
    <3>2. QED  BY <3>1
  <2>2. n * Hours = KeepDays * Hours + Hours + k * Hours  BY <1>1, <2>1
  <2>3. k * Hours \in Nat /\ KeepDays * Hours \in Nat  BY <1>1
  <2>4. QED  BY <1>1, <2>2, <2>3
<1>4. QED  BY <1>1, <1>2, <1>3

\* By the hour, what is of a day beyond the retention is due and has had it all.
LEMMA ElapsedFacts ==
  ASSUME NEW n \in Nat, NEW h \in Clock, hour \in Clock, n > KeepDays
  PROVE  Elapsed(n, h) > KeepDays * Hours /\ Elapsed(n, h) >= KeepDays * Hours
<1>1. /\ Hours \in Nat \ {0} /\ KeepDays * Hours \in Nat /\ n * Hours \in Nat
      /\ n * Hours >= KeepDays * Hours + Hours
  BY HoursFacts
<1>2. h \in Nat /\ h < Hours /\ hour \in Nat  BY <1>1 DEF Clock
<1> DEFINE a == n * Hours
           b == KeepDays * Hours
<1>3. a \in Nat /\ b \in Nat /\ a >= b + Hours  BY <1>1
<1>4. Elapsed(n, h) = a + hour - h  BY DEF Elapsed
<1> HIDE DEF a, b
<1>5. Elapsed(n, h) > b  BY <1>1, <1>2, <1>3, <1>4
<1>6. QED  BY <1>3, <1>4, <1>5, <1>2, <1>1 DEF b

-----------------------------------------------------------------------------
(* The invariant. *)

Row == [status : {"none", "active", "trashed"}, path : Path \cup {NoPath},
        hour : Clock, body : BOOLEAN]

\* Where the engine puts a document.
Home(d, p) ==
  /\ p \in Path /\ ~ InTrash(p)
  /\ d \in Pages => Len(p) = 3 /\ p[2] \in DirNames \cup {OrphanFolder}
  /\ d = Container => Len(p) = 2 /\ p[2] \in DirNames
  /\ d = OrphanFolder => Len(p) = 2 /\ p[2] = OrphanFolder

Types ==
  /\ dirName \in DirNames /\ hour \in Clock
  /\ row \in [Docs -> Row]
  /\ \A d \in Docs : /\ row[d].status = "active" => Home(d, row[d].path)
                     /\ row[d].status = "trashed" => row[d].path \in Path /\ InTrash(row[d].path)
  /\ Filed(files)
  /\ todo \subseteq Docs

\* Live rows have paths of their own.
Unique ==
  \A d, e \in Docs : d # e /\ row[d].status = "active" /\ row[e].status = "active" =>
    row[d].path # row[e].path

\* A round works with the inventory it began with, which still is what is there.
Current == pc # "idle" => listing = Inventory

Mirrored(d) == row[d].status = "active" /\ row[d].path = listing[d]

Walked ==
  /\ pc = "walk" => /\ todo \subseteq Listed
                    /\ \A d \in Listed : d \in todo \cup failed \/ Mirrored(d)
  /\ pc = "reap" => /\ todo \subseteq Active \ Listed
                    /\ \A d \in Listed : d \in failed \/ Mirrored(d)

\* The rows that are left when directories are purged are not of their days.
RowsPurged ==
  pc = "purgeDirs" => \A d \in Docs : row[d].status = "trashed" => row[d].path[1] <= KeepDays

Inv == Types /\ Unique /\ Current /\ Walked /\ RowsPurged /\ TombstoneHasBody

LEMMA DocsFacts ==
  /\ Docs = Pages \cup {Container, OrphanFolder} /\ Container \notin Pages
  /\ OrphanFolder \notin Pages /\ Container # OrphanFolder
  /\ \A d \in Docs : d \in Component
  /\ DirNames \subseteq Component /\ Tree \in Component /\ Index \in Component
BY ConstantsAssumption DEF Docs, Component

LEMMA LongerFacts ==
  ASSUME NEW S, NEW p \in Seq(S), NEW m \in S
  PROVE  /\ Append(p, m) \in Seq(S) /\ Len(Append(p, m)) = Len(p) + 1
         /\ \A i \in 1..Len(p) : Append(p, m)[i] = p[i]
BY AppendProperties

LEMMA HomePaths ==
  ASSUME NEW n \in Component, NEW m \in Component
  PROVE  /\ <<Tree, n>> \in Path /\ Len(<<Tree, n>>) = 2 /\ <<Tree, n>>[2] = n
         /\ ~ InTrash(<<Tree, n>>)
         /\ Append(<<Tree, n>>, m) \in Path /\ Len(Append(<<Tree, n>>, m)) = 3
         /\ Append(<<Tree, n>>, m)[2] = n /\ ~ InTrash(Append(<<Tree, n>>, m))
<1> DEFINE p == <<Tree, n>>
<1>1. /\ p \in Seq(Component) /\ Len(p) = 2 /\ p[1] = Tree /\ p[2] = n
  BY DocsFacts
<1> HIDE DEF p
<1>2. /\ Append(p, m) \in Seq(Component) /\ Len(Append(p, m)) = 3
      /\ Append(p, m)[1] = Tree /\ Append(p, m)[2] = n
  <2> DEFINE r == Append(p, m)
  <2>1. /\ r \in Seq(Component) /\ Len(r) = Len(p) + 1
        /\ \A i \in 1..Len(p) : r[i] = p[i]
    BY <1>1, LongerFacts
  <2> HIDE DEF r
  <2>2. 1 \in 1..Len(p) /\ 2 \in 1..Len(p)  BY <1>1
  <2>3. QED  BY <1>1, <2>1, <2>2 DEF r
<1> DEFINE q == Append(p, m)
<1> HIDE DEF q
<1>3. p \in Path  BY <1>1, MakePath
<1>4. q \in Path
  <2>1. q \in Seq(Component) /\ Len(q) = 3 /\ q[1] = Tree  BY <1>2 DEF q
  <2>2. QED  BY <2>1, MakePath
<1>5. ~ InTrash(p) /\ ~ InTrash(q)  BY <1>1, <1>2 DEF InTrash, q
<1>6. QED  BY <1>1, <1>2, <1>3, <1>4, <1>5 DEF p, q

\* Where the inventory puts documents.
LEMMA InventoryFacts ==
  ASSUME dirName \in DirNames
  PROVE  /\ \A d \in Docs : Inventory[d] # NoPath => Home(d, Inventory[d])
         /\ \A d \in Pages : Inventory[d] # NoPath =>
              Inventory[d][2] = IF Container \in shared THEN dirName ELSE OrphanFolder
         /\ Inventory[Container] = NoPath => Container \notin shared
         /\ \A d \in Pages : Inventory[OrphanFolder] = NoPath /\ Inventory[d] # NoPath =>
              Container \in shared
<1> DEFINE home == IF Container \in shared THEN <<Tree, dirName>> ELSE <<Tree, OrphanFolder>>
           h == IF Container \in shared THEN dirName ELSE OrphanFolder
<1>1. home = <<Tree, h>> /\ h \in Component  BY DocsFacts
<1>2. /\ home \in Path /\ Len(home) = 2 /\ home[2] = h /\ ~ InTrash(home) /\ home # NoPath
      /\ \A m \in Component : LET p == Append(home, m)
                              IN  p \in Path /\ Len(p) = 3 /\ p[2] = h /\ ~ InTrash(p)
  BY <1>1, HomePaths, PathFacts
<1>3. \A d \in Pages : FileName(d) \in Component
  BY DocsFacts DEF FileName, Component
<1>4. \A d \in Docs : Inventory[d] =
        CASE d \in Pages \cap shared -> Append(home, FileName(d))
          [] d = Container /\ d \in shared -> home
          [] d = OrphanFolder /\ Container \notin shared /\ Pages \cap shared # {} -> home
          [] OTHER -> NoPath
  BY DEF Inventory
<1> HIDE DEF home
<1>5. ASSUME NEW d \in Pages
      PROVE  Inventory[d] = IF d \in shared THEN Append(home, FileName(d)) ELSE NoPath
  BY <1>4, DocsFacts
<1>6. Inventory[Container] = IF Container \in shared THEN home ELSE NoPath
  BY <1>4, DocsFacts
<1>7. Inventory[OrphanFolder] = IF Container \notin shared /\ Pages \cap shared # {}
                                THEN home ELSE NoPath
  BY <1>4, DocsFacts
<1>8. ASSUME NEW d \in Pages, Inventory[d] # NoPath
      PROVE  Home(d, Inventory[d]) /\ Inventory[d][2] = h /\ d \in shared
  <2>1. d \in shared /\ Inventory[d] = Append(home, FileName(d))  BY <1>5, <1>8
  <2>2. QED  BY <1>2, <1>3, <2>1, DocsFacts DEF Home
<1>9. Inventory[Container] # NoPath => Home(Container, Inventory[Container])
  BY <1>2, <1>6, DocsFacts DEF Home
<1>10. Inventory[OrphanFolder] # NoPath => Home(OrphanFolder, Inventory[OrphanFolder])
  BY <1>2, <1>7, DocsFacts DEF Home
<1>11. QED
  BY <1>2, <1>6, <1>7, <1>8, <1>9, <1>10, DocsFacts

-----------------------------------------------------------------------------
(* Renames leave what is in the trash where it is. *)

LEMMA TrashStays ==
  ASSUME NEW src \in Path, ~ InTrash(src), NEW x \in Path, Under(src, x)
  PROVE  ~ InTrash(x)
<1>1. x[1] = src[1]
  <2>1. 1 \in 1..Len(src)  BY PathFacts
  <2>2. QED  BY <2>1, UnderFacts
<1>2. QED  BY <1>1 DEF InTrash

\* A rename out of the tree.
LEMMA MoveFacts ==
  ASSUME Types, NEW src \in Path, ~ InTrash(src), NEW dst \in Path
  PROVE  /\ Filed(RenameFiles(files, src, dst))
         /\ \A x \in DOMAIN files : InTrash(x) => x \in DOMAIN RenameFiles(files, src, dst)
         /\ src \in DOMAIN files => dst \in DOMAIN RenameFiles(files, src, dst)
<1>1. Filed(files) /\ hour \in Clock /\ Hours \in Nat \ {0}  BY HoursFacts DEF Types
<1>2. \A x \in DOMAIN files : InTrash(x) => ~ Under(src, x)
  BY <1>1, TrashStays DEF Filed
<1>3. QED  BY <1>1, <1>2, RenameFilesFacts

-----------------------------------------------------------------------------
(* The steps. *)

\* A visit saves the document's row, or records that another row has its path.
LEMMA VisitKeeps ==
  ASSUME Inv, pc = "walk", NEW d \in todo, todo' = todo \ {d}, Filed(files)',
         \A x \in DOMAIN files : InTrash(x) => x \in DOMAIN files',
         UNCHANGED <<remote, hour, pc, listing>>,
         \/ failed' = failed \cup {d} /\ UNCHANGED row
         \/ /\ ~ Taken(d, listing[d]) /\ UNCHANGED failed
            /\ row' = [row EXCEPT ![d] = [status |-> "active", path |-> listing[d],
                                          hour |-> 0, body |-> FALSE]]
  PROVE  Inv'
<1> DEFINE saved == [status |-> "active", path |-> listing[d], hour |-> 0, body |-> FALSE]
<1>1. d \in Docs /\ d \in Listed /\ listing = Inventory
  BY DEF Inv, Types, Walked, Current
<1>2. Home(d, listing[d])
  BY <1>1, InventoryFacts DEF Inv, Types, Listed
<1>3. saved \in Row /\ saved.status = "active" /\ saved.path = listing[d]
  <2>1. 0 \in Clock  BY HoursFacts DEF Clock
  <2>2. QED  BY <1>2, <2>1 DEF Row, Home
<1>4. \/ failed' = failed \cup {d} /\ row' = row
      \/ ~ Taken(d, listing[d]) /\ failed' = failed /\ row' = [row EXCEPT ![d] = saved]
  OBVIOUS
<1> HIDE DEF saved
<1>5. row \in [Docs -> Row]  BY DEF Inv, Types
<1>6. /\ row' \in [Docs -> Row] /\ \A e \in Docs \ {d} : row'[e] = row[e]
      /\ (row'[d] = row[d] /\ d \in failed') \/ row'[d] = saved
  BY <1>1, <1>3, <1>4, <1>5
<1>7. Types'
  BY <1>2, <1>3, <1>6 DEF Inv, Types, remote
<1>8. Unique'
  <2>1. SUFFICES ASSUME NEW a \in Docs, NEW b \in Docs, a # b,
                        row'[a].status = "active", row'[b].status = "active"
                 PROVE  row'[a].path # row'[b].path
    BY DEF Unique
  <2>2. CASE row' = row
    BY <2>1, <2>2 DEF Inv, Unique
  <2>3. CASE ~ Taken(d, listing[d]) /\ row' = [row EXCEPT ![d] = saved]
    <3>1. row'[d].path = listing[d] /\ \A e \in Docs \ {d} : row'[e] = row[e] /\ row[e].path # listing[d]
      BY <1>1, <1>3, <1>5, <2>3 DEF Taken
    <3>2. CASE a # d /\ b # d  BY <2>1, <3>1, <3>2 DEF Inv, Unique
    <3>3. CASE a = d \/ b = d  BY <2>1, <3>1, <3>3
    <3>4. QED  BY <3>2, <3>3
  <2>4. QED  BY <1>4, <2>2, <2>3
<1>9. Current'
  BY DEF Inv, Current, Inventory, FileName, remote
<1>10. Walked'
  <2>1. Listed' = Listed /\ failed \subseteq failed'  BY <1>4 DEF Listed
  <2>2. \A e \in Docs \ {d} : Mirrored(e) => Mirrored(e)'  BY <1>6 DEF Mirrored
  <2>3. d \in failed' \/ Mirrored(d)'  BY <1>3, <1>6 DEF Mirrored
  <2>4. Listed \subseteq Docs  BY DEF Listed
  <2>5. QED  BY <2>1, <2>2, <2>3, <2>4 DEF Inv, Walked
<1>11. TombstoneHasBody'
  <2>1. SUFFICES ASSUME NEW e \in Pages, row'[e].status = "trashed", row'[e].body
                 PROVE  row'[e].path \in DOMAIN files'
    BY DEF TombstoneHasBody
  <2>2. row'[e] = row[e] /\ e \in Docs  BY <1>3, <1>6, <2>1, DocsFacts
  <2>3. row[e].path \in DOMAIN files  BY <2>1, <2>2 DEF Inv, TombstoneHasBody
  <2>4. InTrash(row[e].path)  BY <2>1, <2>2 DEF Inv, Types
  <2>5. QED  BY <2>2, <2>3, <2>4
<1>12. RowsPurged'  BY DEF RowsPurged
<1>13. QED  BY <1>7, <1>8, <1>9, <1>10, <1>11, <1>12 DEF Inv

LEMMA VisitContainerKeeps ==
  ASSUME Inv, NEW d \in Docs, VisitContainer(d)
  PROVE  Inv'
<1>1. /\ pc = "walk" /\ d \in todo /\ d \notin Pages /\ todo' = todo \ {d}
      /\ UNCHANGED <<remote, hour, pc, listing>>
  BY DEF VisitContainer, First
<1>2. Home(d, listing[d])
  BY <1>1, InventoryFacts DEF Inv, Types, Walked, Current, Listed
<1>3. files' = files \/ (d = Container /\
        LET x == Append(listing[d], Index)
        IN  files' = [y \in DOMAIN files \cup {x} |->
                        IF y = x THEN [doc |-> Index, hour |-> 0] ELSE files[y]])
  BY DEF VisitContainer
<1>4. Filed(files)' /\ \A x \in DOMAIN files : x \in DOMAIN files'
  <2>1. Filed(files)  BY DEF Inv, Types
  <2>2. CASE files' = files  BY <2>1, <2>2 DEF Filed
  <2>3. CASE files' # files
    <3> DEFINE x == Append(listing[d], Index)
               file == [doc |-> Index, hour |-> 0]
    <3>1. x \in Path
      <4>1. listing[d] \in Seq(Component) /\ Len(listing[d]) \in Nat /\ Len(listing[d]) >= 1
        BY <1>2, PathFacts DEF Home
      <4>2. /\ x \in Seq(Component) /\ Len(x) = Len(listing[d]) + 1
            /\ \A i \in 1..Len(listing[d]) : x[i] = listing[d][i]
        BY <4>1, DocsFacts, AppendProperties
      <4>3. x[1] = listing[d][1] /\ Len(x) >= 1  BY <4>1, <4>2
      <4>4. x[1] = Tree  BY <1>2, <4>3 DEF Home, InTrash
      <4>5. QED  BY <4>2, <4>3, <4>4, MakePath
    <3>2. file.hour \in Clock  BY HoursFacts DEF Clock
    <3>3. files' = [y \in DOMAIN files \cup {x} |-> IF y = x THEN file ELSE files[y]]
      BY <1>3, <2>3
    <3> HIDE DEF x, file
    <3>4. QED  BY <2>1, <3>1, <3>2, <3>3 DEF Filed
  <2>4. QED  BY <2>2, <2>3
<1>5. \/ failed' = failed \cup {d} /\ UNCHANGED row
      \/ /\ ~ Taken(d, listing[d]) /\ UNCHANGED failed
         /\ row' = [row EXCEPT ![d] = [status |-> "active", path |-> listing[d],
                                       hour |-> 0, body |-> FALSE]]
  BY DEF VisitContainer
<1>6. QED  BY <1>1, <1>4, <1>5, VisitKeeps

LEMMA VisitPageKeeps ==
  ASSUME Inv, NEW d \in Docs, VisitPage(d)
  PROVE  Inv'
<1> DEFINE new == listing[d]
           old == row[d].path
           moved == d \in Active /\ old # new
           fs == IF moved /\ old \in DOMAIN files THEN RenameFiles(files, old, new) ELSE files
           file == [doc |-> d, hour |-> 0]
<1>1. /\ pc = "walk" /\ d \in todo /\ todo' = todo \ {d}
      /\ UNCHANGED <<remote, hour, pc, listing>>
  BY DEF VisitPage, First
<1>2. Home(d, new)
  BY <1>1, InventoryFacts DEF Inv, Types, Walked, Current, Listed
<1>3. Types  BY DEF Inv
<1>4. Filed(fs) /\ \A x \in DOMAIN files : InTrash(x) => x \in DOMAIN fs
  <2>1. CASE moved
    <3>1. old \in Path /\ ~ InTrash(old) /\ new \in Path
      BY <1>2, <1>3, <2>1 DEF Types, Home, Active
    <3>2. QED  BY <1>3, <3>1, MoveFacts DEF Types
  <2>2. CASE ~ moved  BY <1>3, <2>2 DEF Types
  <2>3. QED  BY <2>1, <2>2
<1>5. files' = [x \in DOMAIN fs \cup {new} |->
                  IF x = new /\ ~(d \in Active /\ new \in DOMAIN fs) THEN file ELSE fs[x]]
  BY DEF VisitPage
<1>6. file.hour \in Clock  BY HoursFacts DEF Clock
<1>7. Filed(files)' /\ \A x \in DOMAIN files : InTrash(x) => x \in DOMAIN files'
  <2>1. new \in Path  BY <1>2 DEF Home
  <2> HIDE DEF fs, file, new
  <2>2. QED  BY <1>4, <1>5, <1>6, <2>1 DEF Filed
<1>8. \/ failed' = failed \cup {d} /\ UNCHANGED row
      \/ /\ ~ Taken(d, listing[d]) /\ UNCHANGED failed
         /\ row' = [row EXCEPT ![d] = [status |-> "active", path |-> listing[d],
                                       hour |-> 0, body |-> FALSE]]
  BY DEF VisitPage
<1>9. QED  BY <1>1, <1>7, <1>8, VisitKeeps

LEMMA InitInv == Init => Inv
<1> SUFFICES ASSUME Init PROVE Inv
  OBVIOUS
<1> DEFINE none == [status |-> "none", path |-> NoPath, hour |-> 0, body |-> FALSE]
<1>1. none \in Row /\ none.status = "none" /\ 0 \in Clock
  BY HoursFacts DEF Row, Clock
<1>2. row = [d \in Docs |-> none] /\ pc = "idle" /\ todo = {} /\ hour = 0 /\ files = <<>>
  BY DEF Init
<1>3. dirName \in DirNames  BY PathAssumption DEF Init
<1> HIDE DEF none
<1>4. \A d \in Docs : row[d] = none  BY <1>2
<1>5. Filed(files)
  <2>1. DOMAIN files = {}  BY <1>2
  <2>2. QED  BY <2>1 DEF Filed
<1>6. Types  BY <1>1, <1>2, <1>3, <1>4, <1>5 DEF Types
<1>7. Unique /\ TombstoneHasBody
  BY <1>1, <1>4, DocsFacts DEF Unique, TombstoneHasBody
<1>8. Current /\ Walked /\ RowsPurged
  BY <1>2 DEF Current, Walked, RowsPurged
<1>9. QED  BY <1>6, <1>7, <1>8 DEF Inv

LEMMA ChangeKeeps == Inv /\ Change => Inv'
<1> SUFFICES ASSUME Inv, Change PROVE Inv'
  OBVIOUS
<1>1. /\ pc = "idle" /\ UNCHANGED <<hour, row, files, pc, todo>>
      /\ dirName' \in DirNames
  BY DEF Change, disk, round, Inv, Types
<1>2. Types'  BY <1>1 DEF Inv, Types, Filed
<1>3. Unique' /\ TombstoneHasBody'
  BY <1>1 DEF Inv, Unique, TombstoneHasBody
<1>4. Current' /\ Walked' /\ RowsPurged'
  BY <1>1 DEF Current, Walked, RowsPurged
<1>5. QED  BY <1>2, <1>3, <1>4 DEF Inv

\* A day later, everything in the trash is where its row says, a day older.
LEMMA TickKeeps == Inv /\ Tick => Inv'
<1> SUFFICES ASSUME Inv, Tick PROVE Inv'
  OBVIOUS
<1>1. pc = "idle" /\ UNCHANGED <<remote, pc, todo>> /\ hour' \in Clock
  BY HoursFacts DEF Tick, round, Inv, Types
<1>2. CASE UNCHANGED <<row, disk>>
  <2>1. Types'  BY <1>1, <1>2 DEF Inv, Types, Filed, disk, remote
  <2>2. Unique' /\ TombstoneHasBody'
    BY <1>1, <1>2 DEF Inv, Unique, TombstoneHasBody, disk
  <2>3. Current' /\ Walked' /\ RowsPurged'
    BY <1>1 DEF Current, Walked, RowsPurged
  <2>4. QED  BY <2>1, <2>2, <2>3 DEF Inv
<1>3. CASE ~ UNCHANGED <<row, disk>>
  <2> DEFINE from(y) == CHOOSE x \in DOMAIN files : Older(x) = y
             olds == {Older(x) : x \in DOMAIN files}
  <2>1. /\ row' = [d \in Docs |-> [row[d] EXCEPT !.path = Older(@)]]
        /\ files' = [y \in olds |-> files[from(y)]]
    BY <1>3 DEF Tick
  <2>2. \A y \in olds : from(y) \in DOMAIN files  OBVIOUS
  <2>3. Filed(files) /\ row \in [Docs -> Row]  BY DEF Inv, Types
  <2>4. \A y \in olds : y \in Path  BY <2>3, OlderFacts DEF Filed
  <2>5. \A x \in DOMAIN files : Older(x) \in olds  OBVIOUS
  <2> HIDE DEF from, olds
  <2>6. DOMAIN files' = olds /\ \A y \in olds : files'[y] = files[from(y)]
    BY <2>1
  <2>7. Filed(files)'  BY <2>2, <2>3, <2>4, <2>6 DEF Filed
  <2>8. ASSUME NEW d \in Docs
        PROVE  /\ row'[d] \in Row /\ row'[d].status = row[d].status
               /\ row'[d].body = row[d].body /\ row'[d].path = Older(row[d].path)
    <3>1. row[d] \in Row  BY <2>3
    <3>2. row'[d] = [row[d] EXCEPT !.path = Older(row[d].path)]  BY <2>1
    <3>3. Older(row[d].path) \in Path \cup {NoPath}
      <4>1. row[d].path \in Path \/ row[d].path = NoPath  BY <3>1 DEF Row
      <4>2. row[d].path = NoPath => Older(row[d].path) = NoPath  BY DEF Older
      <4>3. QED  BY <4>1, <4>2, OlderFacts
    <3>4. QED  BY <3>1, <3>2, <3>3 DEF Row
  <2>9. ASSUME NEW d \in Docs, row[d].status = "active"
        PROVE  row'[d].path = row[d].path
    <3>1. row[d].path \in Path /\ ~ InTrash(row[d].path)
      BY <2>9 DEF Inv, Types, Home
    <3>2. QED  BY <2>8, <3>1, OlderFacts
  <2>10. ASSUME NEW d \in Docs, row[d].status = "trashed"
         PROVE  row'[d].path \in Path /\ InTrash(row'[d].path)
    <3>1. row[d].path \in Path /\ InTrash(row[d].path)  BY <2>10 DEF Inv, Types
    <3>2. QED  BY <2>8, <3>1, OlderFacts
  <2>11. Types'
    <3>1. row' \in [Docs -> Row]  BY <2>1, <2>8
    <3>2. \A d \in Docs : /\ row'[d].status = "active" => Home(d, row'[d].path)
                          /\ row'[d].status = "trashed" => row'[d].path \in Path /\ InTrash(row'[d].path)
      BY <2>8, <2>9, <2>10 DEF Inv, Types
    <3>3. QED  BY <1>1, <2>7, <3>1, <3>2 DEF Inv, Types, remote
  <2>12. Unique'  BY <2>8, <2>9 DEF Inv, Unique
  <2>13. TombstoneHasBody'
    <3>1. SUFFICES ASSUME NEW d \in Pages, row'[d].status = "trashed", row'[d].body
                   PROVE  row'[d].path \in DOMAIN files'
      BY DEF TombstoneHasBody
    <3>2. row[d].path \in DOMAIN files  BY <2>8, <3>1, DocsFacts DEF Inv, TombstoneHasBody
    <3>3. QED  BY <2>5, <2>6, <2>8, <3>2, DocsFacts
  <2>14. Current' /\ Walked' /\ RowsPurged'
    BY <1>1 DEF Current, Walked, RowsPurged
  <2>15. QED  BY <2>11, <2>12, <2>13, <2>14 DEF Inv
<1>4. QED  BY <1>2, <1>3

\* Steps that touch neither rows nor files.
LEMMA StillFacts ==
  ASSUME Inv, UNCHANGED <<remote, hour, row, files>>, todo' \subseteq Docs
  PROVE  Types' /\ Unique' /\ TombstoneHasBody' /\ Inventory' = Inventory
<1>1. UNCHANGED <<shared, dirName>>  BY DEF remote
<1>2. Types'  BY <1>1 DEF Inv, Types, Filed
<1>3. Unique' /\ TombstoneHasBody'  BY DEF Inv, Unique, TombstoneHasBody
<1>4. Inventory' = Inventory  BY <1>1 DEF Inventory, FileName
<1>5. QED  BY <1>2, <1>3, <1>4

LEMMA BeginKeeps == Inv /\ Begin => Inv'
<1> SUFFICES ASSUME Inv, Begin PROVE Inv'
  OBVIOUS
<1>1. /\ pc' = "walk" /\ listing' = Inventory /\ failed' = {}
      /\ todo' = {d \in Docs : Inventory[d] # NoPath}
      /\ UNCHANGED <<remote, hour, row, files>>
  BY DEF Begin, disk
<1>2. Types' /\ Unique' /\ TombstoneHasBody' /\ Inventory' = Inventory
  <2>1. todo' \subseteq Docs  BY <1>1
  <2>2. QED  BY <1>1, <2>1, StillFacts
<1>3. Listed' = todo'  BY <1>1 DEF Listed
<1>4. Current' /\ Walked' /\ RowsPurged'
  BY <1>1, <1>2, <1>3 DEF Current, Walked, RowsPurged
<1>5. QED  BY <1>2, <1>4 DEF Inv

LEMMA FailPageKeeps == ASSUME Inv, NEW d \in Docs, FailPage(d) PROVE Inv'
<1>1. /\ pc = "walk" /\ failed' = failed \cup {d} /\ todo' = todo \ {d}
      /\ UNCHANGED <<remote, hour, row, files, pc, listing>>
  BY DEF FailPage, disk
<1>2. Types' /\ Unique' /\ TombstoneHasBody' /\ Inventory' = Inventory
  <2>1. todo' \subseteq Docs  BY <1>1 DEF Inv, Types
  <2>2. QED  BY <1>1, <2>1, StillFacts
<1>3. Listed' = Listed /\ \A e \in Docs : Mirrored(e) => Mirrored(e)'
  BY <1>1 DEF Listed, Mirrored
<1>4. Listed \subseteq Docs  BY DEF Listed
<1>5. Current' /\ Walked' /\ RowsPurged'
  BY <1>1, <1>2, <1>3, <1>4 DEF Inv, Current, Walked, RowsPurged
<1>6. QED  BY <1>2, <1>5 DEF Inv

LEMMA BeginDeletesKeeps == Inv /\ BeginDeletes => Inv'
<1> SUFFICES ASSUME Inv, BeginDeletes PROVE Inv'
  OBVIOUS
<1>1. /\ pc = "walk" /\ todo = {} /\ pc' = "reap" /\ todo' = Active \ Listed
      /\ UNCHANGED <<remote, hour, row, files, failed, listing>>
  BY DEF BeginDeletes, disk, Present
<1>2. Types' /\ Unique' /\ TombstoneHasBody' /\ Inventory' = Inventory
  <2>1. todo' \subseteq Docs  BY <1>1 DEF Active
  <2>2. QED  BY <1>1, <2>1, StillFacts
<1>3. /\ Listed' = Listed /\ Active' = Active
      /\ \A e \in Docs : Mirrored(e) => Mirrored(e)'
  BY <1>1 DEF Listed, Active, Mirrored
<1>4. Listed \subseteq Docs  BY DEF Listed
<1>5. Current' /\ Walked' /\ RowsPurged'
  BY <1>1, <1>2, <1>3, <1>4 DEF Inv, Current, Walked, RowsPurged
<1>6. QED  BY <1>2, <1>5 DEF Inv

\* What the delete step takes is a row that the inventory has not.
LEMMA TakenFacts ==
  ASSUME Inv, pc = "reap", NEW d \in todo
  PROVE  /\ d \in Docs /\ d \in Active /\ d \notin Listed
         /\ Home(d, row[d].path) /\ TrashPath(d) \in Path
         /\ TrashPath(d)[1] = 0 /\ InTrash(TrashPath(d))
<1>1. d \in Docs /\ d \in Active /\ d \notin Listed
  BY DEF Inv, Walked, Active
<1>2. Home(d, row[d].path)  BY <1>1 DEF Inv, Types, Active
<1>3. row[d].path \in Path  BY <1>2 DEF Home
<1>4. QED  BY <1>1, <1>2, <1>3, TrashPathFacts

LEMMA TrashedFilesFacts ==
  ASSUME Inv, pc = "reap", NEW d \in todo
  PROVE  /\ Filed(TrashedFiles(d))
         /\ \A x \in DOMAIN files : InTrash(x) => x \in DOMAIN TrashedFiles(d)
         /\ row[d].path \in DOMAIN files => TrashPath(d) \in DOMAIN TrashedFiles(d)
<1> DEFINE src == row[d].path
           dst == TrashPath(d)
           renamed == RenameFiles(files, src, dst)
<1>1. src \in Path /\ ~ InTrash(src) /\ dst \in Path
  BY TakenFacts DEF Home
<1>2. Types /\ Filed(files)  BY DEF Inv, Types
<1>3. TrashedFiles(d) = IF src \in DOMAIN files \cup dirs THEN renamed ELSE files
  BY DEF TrashedFiles
<1> HIDE DEF src, dst
<1>4. /\ Filed(renamed)
      /\ \A x \in DOMAIN files : InTrash(x) => x \in DOMAIN renamed
      /\ src \in DOMAIN files => dst \in DOMAIN renamed
  BY <1>1, <1>2, MoveFacts
<1> HIDE DEF renamed
<1>5. QED  BY <1>2, <1>3, <1>4 DEF src, dst

LEMMA TrashOneKeeps == ASSUME Inv, NEW d \in Docs, TrashOne(d) PROVE Inv'
<1> DEFINE made == [status |-> "trashed", path |-> TrashPath(d), hour |-> hour,
                    body |-> row[d].path \in DOMAIN files]
<1>1. /\ pc = "reap" /\ d \in todo /\ files' = TrashedFiles(d)
      /\ row' = [row EXCEPT ![d] = made] /\ todo' = todo \ {d}
      /\ UNCHANGED <<remote, hour, pc, listing, failed>>
  BY DEF TrashOne, Deepest
<1>2. /\ d \in Active /\ d \notin Listed /\ TrashPath(d) \in Path /\ InTrash(TrashPath(d))
  BY <1>1, TakenFacts
<1>3. row \in [Docs -> Row] /\ hour \in Clock  BY DEF Inv, Types
<1>4. made \in Row /\ made.status = "trashed" /\ made.path = TrashPath(d)
  BY <1>2, <1>3 DEF Row
<1>5. made.body => row[d].path \in DOMAIN files  OBVIOUS
<1> HIDE DEF made
<1>6. /\ row' \in [Docs -> Row] /\ row'[d] = made
      /\ \A e \in Docs \ {d} : row'[e] = row[e]
  BY <1>1, <1>3, <1>4
<1>7. /\ Filed(files') /\ \A x \in DOMAIN files : InTrash(x) => x \in DOMAIN files'
      /\ row[d].path \in DOMAIN files => TrashPath(d) \in DOMAIN files'
  BY <1>1, TrashedFilesFacts
<1>8. Types'
  <2>1. Filed(files)'  BY <1>7 DEF Filed
  <2>2. \A e \in Docs : /\ row'[e].status = "active" => Home(e, row'[e].path)
                        /\ row'[e].status = "trashed" => row'[e].path \in Path /\ InTrash(row'[e].path)
    BY <1>2, <1>4, <1>6 DEF Inv, Types
  <2>3. QED  BY <1>1, <1>6, <2>1, <2>2 DEF Inv, Types, remote
<1>9. Unique'
  BY <1>4, <1>6 DEF Inv, Unique
<1>10. Inventory' = Inventory  BY <1>1 DEF Inventory, FileName, remote
<1>11. Current'  BY <1>1, <1>10 DEF Inv, Current
<1>12. Walked'
  <2>1. Listed' = Listed /\ Listed \subseteq Docs /\ Active \ {d} \subseteq Active'
    BY <1>1, <1>6 DEF Listed, Active
  <2>2. \A e \in Docs \ {d} : Mirrored(e) => Mirrored(e)'
    BY <1>1, <1>6 DEF Mirrored
  <2>3. QED  BY <1>1, <1>2, <2>1, <2>2 DEF Inv, Walked
<1>13. RowsPurged'  BY <1>1 DEF RowsPurged
<1>14. TombstoneHasBody'
  <2>1. SUFFICES ASSUME NEW e \in Pages, row'[e].status = "trashed", row'[e].body
                 PROVE  row'[e].path \in DOMAIN files'
    BY DEF TombstoneHasBody
  <2>2. CASE e = d  BY <1>4, <1>5, <1>6, <1>7, <2>1, <2>2
  <2>3. CASE e # d
    <3>1. row'[e] = row[e] /\ e \in Docs  BY <1>6, <2>3, DocsFacts
    <3>2. row[e].path \in DOMAIN files  BY <2>1, <3>1 DEF Inv, TombstoneHasBody
    <3>3. InTrash(row[e].path)  BY <2>1, <3>1 DEF Inv, Types
    <3>4. QED  BY <1>7, <3>1, <3>2, <3>3
  <2>4. QED  BY <2>2, <2>3
<1>15. QED  BY <1>8, <1>9, <1>11, <1>12, <1>13, <1>14 DEF Inv

\* Steps that leave the rows alone, and what the trash holds.
LEMMA RowsStayFacts ==
  ASSUME Inv, UNCHANGED <<remote, hour, row>>, todo' \subseteq Docs, Filed(files)',
         \A d \in Docs : row[d].status = "trashed" /\ row[d].path \in DOMAIN files =>
                           row[d].path \in DOMAIN files'
  PROVE  Types' /\ Unique' /\ TombstoneHasBody' /\ Inventory' = Inventory
<1>1. UNCHANGED <<shared, dirName>>  BY DEF remote
<1>2. Types'  BY <1>1 DEF Inv, Types
<1>3. Unique' /\ TombstoneHasBody'
  BY DocsFacts DEF Inv, Unique, TombstoneHasBody
<1>4. Inventory' = Inventory  BY <1>1 DEF Inventory, FileName
<1>5. QED  BY <1>2, <1>3, <1>4

LEMMA AbortDeletesKeeps == ASSUME Inv, NEW d \in Docs, AbortDeletes(d) PROVE Inv'
<1>1. /\ pc = "reap" /\ d \in todo /\ files' \in {files, TrashedFiles(d)}
      /\ todo' = {} /\ pc' = "purgeRows" /\ UNCHANGED <<remote, hour, row, listing>>
  BY DEF AbortDeletes, Deepest, disk
<1>2. Filed(files)' /\ \A x \in DOMAIN files : InTrash(x) => x \in DOMAIN files'
  <2>1. CASE files' = files  BY <2>1 DEF Inv, Types, Filed
  <2>2. CASE files' = TrashedFiles(d)  BY <1>1, <2>2, TrashedFilesFacts DEF Filed
  <2>3. QED  BY <1>1, <2>1, <2>2
<1>3. Types' /\ Unique' /\ TombstoneHasBody' /\ Inventory' = Inventory
  <2>1. todo' \subseteq Docs  BY <1>1
  <2>2. \A e \in Docs : row[e].status = "trashed" => InTrash(row[e].path)
    BY DEF Inv, Types
  <2>3. QED  BY <1>1, <1>2, <2>1, <2>2, RowsStayFacts
<1>4. Current' /\ Walked' /\ RowsPurged'
  BY <1>1, <1>3 DEF Inv, Current, Walked, RowsPurged
<1>5. QED  BY <1>3, <1>4 DEF Inv

LEMMA SweepKeeps == Inv /\ Sweep => Inv'
<1> SUFFICES ASSUME Inv, Sweep PROVE Inv'
  OBVIOUS
<1>1. /\ pc = "reap" /\ pc' = "purgeRows" /\ UNCHANGED <<remote, hour, row, files, listing, todo>>
  BY DEF Sweep
<1>2. Types' /\ Unique' /\ TombstoneHasBody' /\ Inventory' = Inventory
  <2>1. todo' \subseteq Docs  BY <1>1 DEF Inv, Types
  <2>2. QED  BY <1>1, <2>1, StillFacts
<1>3. Current' /\ Walked' /\ RowsPurged'
  BY <1>1, <1>2 DEF Inv, Current, Walked, RowsPurged
<1>4. QED  BY <1>2, <1>3 DEF Inv

\* What goes with its day has lost its row.
LEMMA PurgeRowsKeeps == Inv /\ PurgeRows => Inv'
<1> SUFFICES ASSUME Inv, PurgeRows PROVE Inv'
  OBVIOUS
<1> DEFINE gone == [status |-> "none", path |-> NoPath, hour |-> 0, body |-> FALSE]
           Aged(d) == row[d].status = "trashed" /\ AgedRow(d)
<1>1. /\ pc = "purgeRows" /\ pc' = "purgeDirs"
      /\ row' = [d \in Docs |-> IF Aged(d) THEN gone ELSE row[d]]
      /\ UNCHANGED <<remote, hour, files, listing, todo>>
  BY DEF PurgeRows, disk
<1>2. gone \in Row /\ gone.status = "none"
  BY HoursFacts DEF Row, Clock
<1>3. row \in [Docs -> Row]  BY DEF Inv, Types
<1> HIDE DEF gone, Aged
<1>4. /\ row' \in [Docs -> Row]
      /\ \A d \in Docs : row'[d] = gone \/ row'[d] = row[d]
      /\ \A d \in Docs : Aged(d) => row'[d] = gone
  BY <1>1, <1>2, <1>3
<1>5. Types'
  <2>1. \A e \in Docs : /\ row'[e].status = "active" => Home(e, row'[e].path)
                        /\ row'[e].status = "trashed" => row'[e].path \in Path /\ InTrash(row'[e].path)
    BY <1>2, <1>4 DEF Inv, Types
  <2>2. Filed(files)'  BY <1>1 DEF Inv, Types, Filed
  <2>3. QED  BY <1>1, <1>4, <2>1, <2>2 DEF Inv, Types, remote
<1>6. Unique'  BY <1>2, <1>4 DEF Inv, Unique
<1>7. TombstoneHasBody'  BY <1>1, <1>2, <1>4, DocsFacts DEF Inv, TombstoneHasBody
<1>8. Inventory' = Inventory  BY <1>1 DEF Inventory, FileName, remote
<1>9. Current' /\ Walked'  BY <1>1, <1>8 DEF Inv, Current, Walked
<1>10. RowsPurged'
  <2>1. SUFFICES ASSUME NEW d \in Docs, row'[d].status = "trashed"
                 PROVE  row'[d].path[1] <= KeepDays
    BY DEF RowsPurged
  <2>2. row'[d] = row[d] /\ ~ Aged(d) /\ row[d].status = "trashed"
    BY <1>2, <1>4, <2>1
  <2>3. row[d].path \in Path /\ InTrash(row[d].path) /\ row[d].hour \in Clock /\ hour \in Clock
    BY <1>3, <2>2 DEF Inv, Types, Row
  <2>4. row[d].path[1] \in Nat  BY <2>3, PathFacts
  <2>5. ~ Elapsed(row[d].path[1], row[d].hour) > KeepDays * Hours
    BY <2>2 DEF Aged, AgedRow
  <2>6. ~ row[d].path[1] > KeepDays  BY <2>3, <2>4, <2>5, ElapsedFacts
  <2>7. QED  BY <2>2, <2>4, <2>6, HoursFacts
<1>11. QED  BY <1>5, <1>6, <1>7, <1>9, <1>10 DEF Inv

LEMMA PurgeDirsKeeps == Inv /\ PurgeDirs => Inv'
<1> SUFFICES ASSUME Inv, PurgeDirs PROVE Inv'
  OBVIOUS
<1>1. /\ pc = "purgeDirs" /\ pc' = "idle" /\ todo' = {}
      /\ files' = [x \in {y \in DOMAIN files : ~ AgedDir(y)} |-> files[x]]
      /\ UNCHANGED <<remote, hour, row>>
  BY DEF PurgeDirs, Rest
<1>2. Filed(files)'  BY <1>1 DEF Inv, Types, Filed
<1>3. ASSUME NEW d \in Docs, row[d].status = "trashed", row[d].path \in DOMAIN files
      PROVE  row[d].path \in DOMAIN files'
  <2>1. row[d].path[1] <= KeepDays  BY <1>1, <1>3 DEF Inv, RowsPurged
  <2>2. row[d].path[1] \in Nat  BY <1>3, PathFacts DEF Inv, Types
  <2>3. ~ AgedDir(row[d].path)  BY <2>1, <2>2, HoursFacts DEF AgedDir
  <2>4. QED  BY <1>1, <1>3, <2>3
<1>4. Types' /\ Unique' /\ TombstoneHasBody'
  <2>1. todo' \subseteq Docs  BY <1>1
  <2>2. QED  BY <1>1, <1>2, <1>3, <2>1, RowsStayFacts
<1>5. Current' /\ Walked' /\ RowsPurged'
  BY <1>1 DEF Current, Walked, RowsPurged
<1>6. QED  BY <1>4, <1>5 DEF Inv

LEMMA CrashKeeps == Inv /\ Crash => Inv'
<1> SUFFICES ASSUME Inv, Crash PROVE Inv'
  OBVIOUS
<1>1. pc' = "idle" /\ todo' = {} /\ UNCHANGED <<remote, hour, row, files>>
  BY DEF Crash, Rest, disk
<1>2. Types' /\ Unique' /\ TombstoneHasBody'
  <2>1. todo' \subseteq Docs  BY <1>1
  <2>2. QED  BY <1>1, <2>1, StillFacts
<1>3. Current' /\ Walked' /\ RowsPurged'
  BY <1>1 DEF Current, Walked, RowsPurged
<1>4. QED  BY <1>2, <1>3 DEF Inv

LEMMA StutterKeeps == Inv /\ UNCHANGED vars => Inv'
<1> SUFFICES ASSUME Inv, UNCHANGED vars PROVE Inv'
  OBVIOUS
<1>1. UNCHANGED <<shared, dirName, remote, hour, row, files, pc, listing, todo, failed>>
  BY DEF vars, remote, disk, round
<1>2. Types' /\ Unique' /\ TombstoneHasBody' /\ Inventory' = Inventory
  <2>1. todo' \subseteq Docs  BY <1>1 DEF Inv, Types
  <2>2. QED  BY <1>1, <2>1, StillFacts
<1>3. Current'  BY <1>1, <1>2 DEF Inv, Current
<1>4. Walked' /\ RowsPurged'
  BY <1>1 DEF Inv, Walked, RowsPurged, Listed, Active, Mirrored
<1>5. QED  BY <1>2, <1>3, <1>4 DEF Inv

LEMMA NextKeeps == Inv /\ [Next]_vars => Inv'
<1> SUFFICES ASSUME Inv, [Next]_vars PROVE Inv'
  OBVIOUS
<1>1. CASE Change  BY <1>1, ChangeKeeps
<1>2. CASE Tick  BY <1>2, TickKeeps
<1>3. CASE Begin  BY <1>3, BeginKeeps
<1>4. CASE BeginDeletes  BY <1>4, BeginDeletesKeeps
<1>5. CASE Sweep  BY <1>5, SweepKeeps
<1>6. CASE PurgeRows  BY <1>6, PurgeRowsKeeps
<1>7. CASE PurgeDirs  BY <1>7, PurgeDirsKeeps
<1>8. CASE Crash  BY <1>8, CrashKeeps
<1>9. CASE UNCHANGED vars  BY <1>9, StutterKeeps
<1>10. ASSUME NEW d \in Docs, VisitContainer(d) PROVE Inv'
  BY <1>10, VisitContainerKeeps
<1>11. ASSUME NEW d \in Docs, VisitPage(d) PROVE Inv'
  BY <1>11, VisitPageKeeps
<1>12. ASSUME NEW d \in Docs, FailPage(d) PROVE Inv'
  BY <1>12, FailPageKeeps
<1>13. ASSUME NEW d \in Docs, TrashOne(d) PROVE Inv'
  BY <1>13, TrashOneKeeps
<1>14. ASSUME NEW d \in Docs, AbortDeletes(d) PROVE Inv'
  BY <1>14, AbortDeletesKeeps
<1>15. QED
  BY <1>1, <1>2, <1>3, <1>4, <1>5, <1>6, <1>7, <1>8, <1>9, <1>10, <1>11, <1>12, <1>13, <1>14
     DEF Next, Round

-----------------------------------------------------------------------------
(* The theorems. *)

LEMMA InvAlways == Spec => []Inv
<1>1. Init => Inv  BY InitInv
<1>2. Inv /\ [Next]_vars => Inv'  BY NextKeeps
<1>3. QED  BY <1>1, <1>2, PTL DEF Spec

(* As long as the tombstone of a document whose body was trashed says where it
   is, there is a file: no step, and no death of the process between the purge of
   the rows and that of the directories, leaves a row without its body. *)
THEOREM TombstoneAlwaysHasBody == Spec => []TombstoneHasBody
<1>1. Inv => TombstoneHasBody  BY DEF Inv
<1>2. QED  BY <1>1, InvAlways, PTL

(* No file leaves the trash before its days have passed by the hour, whatever the
   number of days and the time of day at which it was trashed. *)
THEOREM RetentionAlwaysKept == Spec => RetentionKept
<1> DEFINE Kept == \A x \in DOMAIN files \ DOMAIN files' :
                     InTrash(x) /\ Elapsed(x[1], files[x].hour) >= KeepDays * Hours
<1>1. ASSUME Inv, [Next]_vars, pc = "purgeDirs", ~ UNCHANGED vars PROVE Kept
  <2>1. PurgeDirs \/ Crash
    BY <1>1 DEF Next, Round, Change, Tick, Begin, BeginDeletes, Sweep, PurgeRows,
                VisitContainer, VisitPage, FailPage, TrashOne, AbortDeletes
  <2>2. CASE Crash  BY <2>2 DEF Crash, disk
  <2>3. CASE PurgeDirs
    <3>1. SUFFICES ASSUME NEW x \in DOMAIN files, x \notin DOMAIN files'
                   PROVE  InTrash(x) /\ Elapsed(x[1], files[x].hour) >= KeepDays * Hours
      OBVIOUS
    <3>2. AgedDir(x)  BY <2>3, <3>1 DEF PurgeDirs
    <3>3. x \in Path /\ files[x].hour \in Clock /\ hour \in Clock
      BY <1>1 DEF Inv, Types, Filed
    <3>4. InTrash(x) /\ x[1] > KeepDays /\ x[1] \in Nat
      BY <3>2, <3>3, PathFacts DEF AgedDir
    <3>5. QED  BY <3>3, <3>4, ElapsedFacts
  <2>4. QED  BY <2>1, <2>2, <2>3
<1>2. Inv /\ [Next]_vars => [pc = "purgeDirs" => Kept]_vars
  BY <1>1
<1>3. QED  BY <1>2, InvAlways, PTL DEF Spec, RetentionKept

\* What is trashed is neither the body of a live page nor above it.
LEMMA LiveBodyApart ==
  ASSUME Inv, pc = "reap", NEW d \in todo, NEW e \in Pages, e \in Listed, e \notin failed,
         row[e].path \in DOMAIN files
  PROVE  /\ row[e].path \in DOMAIN TrashedFiles(d)
         /\ TrashedFiles(d)[row[e].path] = files[row[e].path]
<1> DEFINE x == row[e].path
           src == row[d].path
           dst == TrashPath(d)
<1>1. /\ d \in Docs /\ d \in Active /\ d \notin Listed /\ Home(d, src)
      /\ dst \in Path /\ dst[1] = 0 /\ InTrash(dst)
  BY TakenFacts
<1>2. /\ e \in Docs /\ Inventory[e] # NoPath /\ Inventory[d] = NoPath
      /\ row[e].status = "active" /\ x = Inventory[e]
  BY <1>1, DocsFacts DEF Inv, Walked, Current, Mirrored, Listed
<1>3. dirName \in DirNames /\ Filed(files) /\ hour \in Clock  BY DEF Inv, Types
<1>4. Home(e, x) /\ x[2] = IF Container \in shared THEN dirName ELSE OrphanFolder
  BY <1>2, <1>3, InventoryFacts
<1>5. src # x
  BY <1>1, <1>2 DEF Inv, Unique, Active
<1> HIDE DEF x, src, dst
<1>6. x \in Path /\ src \in Path /\ ~ InTrash(x) /\ Len(x) = 3
  BY <1>1, <1>4 DEF Home
<1>7. ~ Under(dst, x)
  <2>1. 1 \in 1..Len(dst)  BY <1>1, PathFacts
  <2>2. Under(dst, x) => x[1] = dst[1]  BY <1>1, <1>6, <2>1, UnderFacts
  <2>3. QED  BY <1>1, <1>6, <2>2 DEF InTrash
<1>8. ~ Under(src, x)
  <2>1. SUFFICES ASSUME Under(src, x) PROVE FALSE
    OBVIOUS
  <2>2. (\A i \in 1..Len(src) : x[i] = src[i]) /\ Len(src) # 3
    BY <1>5, <1>6, <2>1, UnderFacts
  <2>3. d \in {Container, OrphanFolder}  BY <1>1, <2>2, DocsFacts DEF Home
  <2>4. Len(src) = 2 /\ x[2] = src[2]
    <3>1. Len(src) = 2  BY <1>1, <2>3 DEF Home
    <3>2. 2 \in 1..Len(src)  BY <3>1
    <3>3. QED  BY <2>2, <3>1, <3>2
  <2>5. CASE d = Container
    <3>1. Container \notin shared  BY <1>2, <1>3, <2>5, InventoryFacts
    <3>2. src[2] \in DirNames  BY <1>1, <2>5 DEF Home
    <3>3. QED  BY <1>4, <2>4, <3>1, <3>2, PathAssumption
  <2>6. CASE d = OrphanFolder
    <3>1. Container \in shared  BY <1>2, <1>3, <2>6, InventoryFacts
    <3>2. src[2] = OrphanFolder  BY <1>1, <2>6 DEF Home
    <3>3. QED  BY <1>3, <1>4, <2>4, <3>1, <3>2, PathAssumption
  <2>7. QED  BY <2>3, <2>5, <2>6
<1> DEFINE renamed == RenameFiles(files, src, dst)
<1>9. TrashedFiles(d) \in {files, renamed}
  BY DEF TrashedFiles, src, dst
<1>10. x \in DOMAIN files  BY DEF x
<1>11. x \in DOMAIN renamed /\ renamed[x] = files[x]
  BY <1>1, <1>3, <1>6, <1>7, <1>8, <1>10, HoursFacts, RenameFilesFacts
<1> HIDE DEF renamed
<1>12. QED  BY <1>9, <1>10, <1>11 DEF x

(* The delete step takes no live body along with a directory: every document of
   the inventory for which the walk recorded no failure keeps its body where its
   row says, for every set of pages, their names and the container's. *)
THEOREM LiveBodiesAlwaysStay == Spec => LiveBodiesStay
<1> DEFINE Stay ==
      \A d \in (Pages \cap Listed) \ failed :
        LET x == row[d].path
        IN  x \in DOMAIN files /\ files[x].doc = d => x \in DOMAIN files' /\ files'[x].doc = d
<1>1. ASSUME Inv, [Next]_vars, pc = "reap", ~ UNCHANGED vars PROVE Stay
  <2>1. files' = files \/ \E d \in todo : files' = TrashedFiles(d)
    <3>1. CASE Sweep \/ Crash  BY <3>1 DEF Sweep, Crash, disk
    <3>2. ASSUME NEW d \in Docs, TrashOne(d) PROVE d \in todo /\ files' = TrashedFiles(d)
      BY <3>2 DEF TrashOne, Deepest
    <3>3. ASSUME NEW d \in Docs, AbortDeletes(d)
          PROVE  d \in todo /\ files' \in {files, TrashedFiles(d)}
      BY <3>3 DEF AbortDeletes, Deepest, disk
    <3>4. Sweep \/ Crash \/ \E d \in Docs : TrashOne(d) \/ AbortDeletes(d)
      BY <1>1 DEF Next, Round, Change, Tick, Begin, BeginDeletes, PurgeRows, PurgeDirs,
                  VisitContainer, VisitPage, FailPage
    <3>5. QED  BY <3>1, <3>2, <3>3, <3>4
  <2>2. ASSUME NEW d \in todo, files' = TrashedFiles(d),
               NEW e \in (Pages \cap Listed) \ failed, row[e].path \in DOMAIN files
        PROVE  row[e].path \in DOMAIN files' /\ files'[row[e].path] = files[row[e].path]
    BY <1>1, <2>2, LiveBodyApart
  <2>3. QED  BY <2>1, <2>2
<1>2. Inv /\ [Next]_vars => [pc = "reap" => Stay]_vars
  BY <1>1
<1>3. QED  BY <1>2, InvAlways, PTL DEF Spec, LiveBodiesStay

-----------------------------------------------------------------------------
(***************************************************************************)
(* Types: what is on disk has the shape of a file system.  Directories are  *)
(* roots and the directories in them, files lie in directories of roots,    *)
(* and every move keeps the depth.                                          *)
(***************************************************************************)
Folder(p) == p \in Path /\ Len(p) \in {1, 2}

Shaped(fs, ds) ==
  /\ \A p \in ds : Folder(p) /\ <<p[1]>> \in ds
  /\ \A x \in DOMAIN fs : x \in Path /\ Len(x) = 3 /\ Front(x) \in ds

Rows == \A d \in Docs : row[d].status = "none" => row[d].path = NoPath

States ==
  /\ shared \subseteq Docs /\ failed \subseteq Docs /\ aborted \in BOOLEAN
  /\ pc \in {"idle", "walk", "reap", "purgeRows", "purgeDirs"}

FileInv == Inv /\ Shaped(files, dirs) /\ Rows /\ States

\* Paths of the depths there are, taken apart.
LEMMA ShallowPaths ==
  ASSUME NEW p \in Path
  PROVE  /\ Len(p) = 1 => p = <<p[1]>> /\ Ancestors(p) = {p}
         /\ Len(p) = 2 => /\ Front(p) = <<p[1]>> /\ Ancestors(p) = {<<p[1]>>, p}
         /\ <<p[1]>> \in Path /\ Len(<<p[1]>>) = 1 /\ <<p[1]>>[1] = p[1]
<1>1. p \in Seq(Component) /\ Len(p) \in Nat /\ Len(p) >= 1 /\ p[1] \in Component
      /\ p[1] \in {Tree} \cup Nat
  BY PathFacts DEF Path
<1> DEFINE r == <<p[1]>>
<1>2. r \in Seq(Component) /\ Len(r) = 1 /\ r[1] = p[1]  BY <1>1
<1>3. r \in Path
  <2> HIDE DEF r
  <2>1. QED  BY <1>1, <1>2, MakePath
<1>4. SubSeq(p, 1, 1) = r
  <2>1. /\ SubSeq(p, 1, 1) \in Seq(Component) /\ Len(SubSeq(p, 1, 1)) = 1
        /\ SubSeq(p, 1, 1)[1] = p[1]
    BY <1>1
  <2> DEFINE s == SubSeq(p, 1, 1)
  <2>2. s \in Seq(Component) /\ Len(s) = Len(r) /\ \A i \in 1..Len(s) : s[i] = r[i]
    BY <1>2, <2>1
  <2> HIDE DEF s, r
  <2>3. s = r  BY <1>2, <2>2, SeqEqual
  <2>4. QED  BY <2>3 DEF s
<1>5. SubSeq(p, 1, Len(p)) = p  BY <1>1, SubSeqFull
<1> HIDE DEF r
<1>6. Len(p) = 1 => p = r /\ Ancestors(p) = {p}
  <2>1. SUFFICES ASSUME Len(p) = 1 PROVE p = r /\ Ancestors(p) = {p}
    OBVIOUS
  <2>2. 1..Len(p) = {1}  BY <2>1
  <2>3. QED  BY <1>4, <1>5, <2>1, <2>2 DEF Ancestors
<1>7. Len(p) = 2 => Front(p) = r /\ Ancestors(p) = {r, p}
  <2>1. SUFFICES ASSUME Len(p) = 2 PROVE Front(p) = r /\ Ancestors(p) = {r, p}
    OBVIOUS
  <2>2. 1..Len(p) = {1, 2} /\ Len(p) - 1 = 1  BY <2>1
  <2>3. QED  BY <1>4, <1>5, <2>1, <2>2 DEF Ancestors, Front
<1>8. QED  BY <1>2, <1>3, <1>6, <1>7 DEF r

LEMMA FileFolder ==
  ASSUME NEW x \in Path, Len(x) = 3
  PROVE  /\ Front(x) \in Path /\ Len(Front(x)) = 2 /\ Front(x)[1] = x[1] /\ Front(x)[2] = x[2]
         /\ Under(Front(x), x) /\ Front(x) = SubSeq(x, 1, 2)
<1>1. x \in Seq(Component) /\ x[1] \in {Tree} \cup Nat  BY DEF Path
<1>2. Front(x) = SubSeq(x, 1, 2)  BY DEF Front
<1> DEFINE f == SubSeq(x, 1, 2)
<1>3. f \in Seq(Component) /\ Len(f) = 2 /\ f[1] = x[1] /\ f[2] = x[2]
  BY <1>1
<1> HIDE DEF f
<1>4. f \in Path  BY <1>1, <1>3, MakePath
<1>5. Under(f, x)  BY <1>3 DEF Under, f
<1>6. QED  BY <1>2, <1>3, <1>4, <1>5 DEF f

LEMMA SamePath ==
  ASSUME NEW p \in Path, NEW q \in Path, Len(p) = Len(q), \A i \in 1..Len(p) : p[i] = q[i]
  PROVE  p = q
BY SeqEqual DEF Path

\* A move keeps the depth, and what was in a directory stays in it.
LEMMA RenamedShape ==
  ASSUME NEW src \in Path, NEW dst \in Path, Len(src) = Len(dst), Len(src) \in {2, 3},
         NEW x \in Path, Len(x) \in {1, 2, 3}
  PROVE  /\ Renamed(x, src, dst) \in Path /\ Len(Renamed(x, src, dst)) = Len(x)
         /\ Renamed(x, src, dst) = x \/ Renamed(x, src, dst)[1] = dst[1]
         /\ Len(x) = Len(src) => Renamed(x, src, dst) = IF x = src THEN dst ELSE x
         /\ Len(x) < Len(src) => Renamed(x, src, dst) = x
         /\ Len(x) = 3 /\ Len(src) = 2 =>
              Front(Renamed(x, src, dst)) = Renamed(Front(x), src, dst)
<1> DEFINE y == Renamed(x, src, dst)
<1>1. /\ y \in Path /\ Renamed(src, src, dst) = dst
      /\ ~ Under(src, x) => y = x
      /\ Under(src, x) => y[1] = dst[1]
  BY RenamedFacts
<1>2. Under(src, x) => Len(x) >= Len(src) /\ (Len(x) = Len(src) => x = src)
  BY UnderFacts
<1>3. Under(src, src)  BY UnderFacts
<1>4. Len(x) = Len(src) => y = IF x = src THEN dst ELSE x
  BY <1>1, <1>2, <1>3
<1>5. Len(x) < Len(src) => y = x
  BY <1>1, <1>2
<1>6. ASSUME Len(x) = 3, Len(src) = 2
      PROVE  Len(y) = 3 /\ Front(y) = Renamed(Front(x), src, dst)
  <2>1. /\ Front(x) \in Path /\ Len(Front(x)) = 2 /\ Front(x) = SubSeq(x, 1, 2)
    BY <1>6, FileFolder
  <2>2. Under(src, x) <=> Front(x) = src
    BY <1>6, <2>1 DEF Under
  <2>3. Under(src, Front(x)) => Front(x) = src
    BY <1>6, <2>1, UnderFacts
  <2>4. CASE ~ Under(src, x)
    <3>1. y = x /\ ~ Under(src, Front(x))  BY <1>1, <2>2, <2>3, <2>4
    <3>2. Renamed(Front(x), src, dst) = Front(x)  BY <2>1, <3>1, RenamedFacts
    <3>3. QED  BY <1>6, <3>1, <3>2
  <2>5. CASE Under(src, x)
    <3> DEFINE s == SubSeq(x, 3, 3)
    <3>1. y = dst \o s  BY <1>6, <2>5 DEF Renamed
    <3>2. s \in Seq(Component) /\ Len(s) = 1
      <4>1. x \in Seq(Component)  BY PathFacts
      <4>2. QED  BY <1>6, <4>1
    <3>3. dst \in Seq(Component) /\ Len(dst) = 2  BY <1>6, PathFacts
    <3> HIDE DEF s, y
    <3>4. Len(dst \o s) = 3  BY <3>2, <3>3, ConcatProperties
    <3>5. SubSeq(dst \o s, 1, Len(dst)) = SubSeq(dst, 1, Len(dst))
      <4>1. 1 \in 1..Len(dst) /\ Len(dst) \in 1..Len(dst)  BY <3>3
      <4>2. QED  BY <3>2, <3>3, <4>1, SubSeqOfConcat1
    <3>6. SubSeq(dst, 1, Len(dst)) = dst  BY <3>3, SubSeqFull
    <3>7. Front(y) = dst  BY <3>1, <3>3, <3>4, <3>5, <3>6 DEF Front
    <3>8. QED  BY <1>1, <2>2, <2>5, <3>1, <3>4, <3>7
  <2>6. QED  BY <2>4, <2>5
<1>7. Len(y) = Len(x)
  <2> HIDE DEF y
  <2>1. CASE Len(x) = 3 /\ Len(src) = 2  BY <1>6, <2>1
  <2>2. CASE Len(x) = Len(src)  BY <1>4, <2>2
  <2>3. CASE Len(x) < Len(src)  BY <1>5, <2>3
  <2>4. QED  BY <2>1, <2>2, <2>3
<1>8. QED  BY <1>1, <1>4, <1>5, <1>6, <1>7

\* New directories.
LEMMA MkdirShape ==
  ASSUME NEW fs, NEW ds, Shaped(fs, ds), NEW p, Folder(p)
  PROVE  Shaped(fs, MkdirAll(ds, p)) /\ p \in MkdirAll(ds, p) /\ ds \subseteq MkdirAll(ds, p)
<1>1. Ancestors(p) = {<<p[1]>>, p} \/ (Ancestors(p) = {p} /\ p = <<p[1]>>)
  BY ShallowPaths DEF Folder
<1>2. Folder(<<p[1]>>) /\ <<p[1]>>[1] = p[1]
  BY ShallowPaths DEF Folder
<1>3. \A q \in MkdirAll(ds, p) : Folder(q) /\ <<q[1]>> \in MkdirAll(ds, p)
  BY <1>1, <1>2 DEF Shaped, MkdirAll
<1>4. QED  BY <1>1, <1>3 DEF Shaped, MkdirAll

LEMMA RenamePageShape ==
  ASSUME NEW fs, NEW ds, Shaped(fs, ds), NEW src \in Path, NEW dst \in Path,
         Len(src) = 3, Len(dst) = 3, Front(dst) \in ds
  PROVE  Shaped(RenameFiles(fs, src, dst), ds) /\ RenameDirs(ds, src, dst) = ds
<1>1. DOMAIN RenameFiles(fs, src, dst) = {Renamed(x, src, dst) : x \in DOMAIN fs}
  BY DEF RenameFiles
<1>2. \A x \in DOMAIN fs : Renamed(x, src, dst) \in {x, dst}
  BY RenamedShape DEF Shaped
<1>3. ASSUME NEW p \in ds PROVE Renamed(p, src, dst) = p
  <2>1. p \in Path /\ (Len(p) = 1 \/ Len(p) = 2)  BY DEF Shaped, Folder
  <2>2. Len(p) \in {1, 2, 3} /\ Len(p) < Len(src)  BY <2>1
  <2>3. QED  BY <2>1, <2>2, RenamedShape
<1>4. RenameDirs(ds, src, dst) = ds  BY <1>3 DEF RenameDirs
<1>5. QED  BY <1>1, <1>2, <1>4 DEF Shaped

LEMMA RenameFolderShape ==
  ASSUME NEW fs, NEW ds, Shaped(fs, ds), NEW src \in Path, NEW dst \in Path,
         Len(src) = 2, Len(dst) = 2, <<dst[1]>> \in ds
  PROVE  Shaped(RenameFiles(fs, src, dst), RenameDirs(ds, src, dst))
<1>1. DOMAIN RenameFiles(fs, src, dst) = {Renamed(x, src, dst) : x \in DOMAIN fs}
  BY DEF RenameFiles
<1> DEFINE new == RenameDirs(ds, src, dst)
<1>2. new = {Renamed(p, src, dst) : p \in ds}  BY DEF RenameDirs
<1>3. \A p \in Path : Len(p) = 1 /\ p \in ds => p \in new
  <2>1. ASSUME NEW p \in Path, Len(p) = 1 PROVE Renamed(p, src, dst) = p
    <3>1. Len(p) \in {1, 2, 3} /\ Len(p) < Len(src)  BY <2>1
    <3>2. QED  BY <3>1, RenamedShape
  <2>2. QED  BY <1>2, <2>1
<1>4. \A p \in ds : Len(<<p[1]>>) = 1 /\ <<p[1]>> \in Path /\ <<p[1]>> \in ds
  BY ShallowPaths DEF Shaped, Folder
<1>5. Len(<<dst[1]>>) = 1 /\ <<dst[1]>> \in Path  BY ShallowPaths
<1>6. ASSUME NEW q \in new PROVE Folder(q) /\ <<q[1]>> \in new
  <2>1. PICK p \in ds : q = Renamed(p, src, dst)  BY <1>2
  <2>2. p \in Path /\ Len(p) \in {1, 2}  BY DEF Shaped, Folder
  <2>3. q \in Path /\ Len(q) = Len(p) /\ (q = p \/ q[1] = dst[1])
    BY <2>1, <2>2, RenamedShape
  <2>4. CASE q = p  BY <1>3, <1>4, <2>2, <2>4 DEF Folder
  <2>5. CASE q[1] = dst[1]  BY <1>3, <1>5, <2>2, <2>3, <2>5 DEF Folder
  <2>6. QED  BY <2>3, <2>4, <2>5
<1>7. ASSUME NEW x \in DOMAIN fs
      PROVE  /\ Renamed(x, src, dst) \in Path /\ Len(Renamed(x, src, dst)) = 3
             /\ Front(Renamed(x, src, dst)) \in new
  <2>1. x \in Path /\ Len(x) = 3 /\ Front(x) \in ds  BY DEF Shaped
  <2>2. /\ Renamed(x, src, dst) \in Path /\ Len(Renamed(x, src, dst)) = 3
        /\ Front(Renamed(x, src, dst)) = Renamed(Front(x), src, dst)
    BY <2>1, RenamedShape
  <2>3. QED  BY <1>2, <2>1, <2>2
<1> HIDE DEF new
<1>8. Shaped(RenameFiles(fs, src, dst), new)
  BY <1>1, <1>6, <1>7 DEF Shaped
<1>9. QED  BY <1>8 DEF new

LEMMA TrashPathLength ==
  ASSUME NEW d, row[d].path \in Path
  PROVE  Len(TrashPath(d)) = Len(row[d].path)
<1> DEFINE p == row[d].path
<1>1. Len(p) \in Nat /\ Tail(p) \in Seq(Component) /\ Len(Tail(p)) = Len(p) - 1
  BY PathFacts, HeadTailProperties
<1>2. <<0>> \in Seq(Component) /\ Len(<<0>>) = 1  BY DEF Component
<1>3. Len(<<0>> \o Tail(p)) = 1 + Len(Tail(p))  BY <1>1, <1>2, ConcatProperties
<1>4. QED  BY <1>1, <1>3 DEF TrashPath

\* The directory of the day is there before anything is moved into it.
LEMMA TrashShape ==
  ASSUME FileInv, pc = "reap", NEW d \in todo
  PROVE  /\ Shaped(TrashedFiles(d), TrashedDirs(d))
         /\ Shaped(files, MkdirAll(dirs, Front(TrashPath(d))))
<1> DEFINE src == row[d].path
           dst == TrashPath(d)
           made == MkdirAll(dirs, Front(dst))
<1>1. Inv /\ Shaped(files, dirs)  BY DEF FileInv
<1>2. d \in Docs /\ Home(d, src) /\ src \in Path /\ dst \in Path
  BY <1>1, TakenFacts DEF Home
<1>3. Len(src) = Len(dst) /\ Len(src) \in {2, 3}
  BY <1>2, TrashPathLength, DocsFacts DEF Home
<1>4. Folder(Front(dst)) /\ (Len(dst) = 2 => Front(dst) = <<dst[1]>>)
  BY <1>2, <1>3, FileFolder, ShallowPaths DEF Folder
<1>5. Shaped(files, made) /\ Front(dst) \in made
  BY <1>1, <1>4, MkdirShape
<1>6. \/ TrashedFiles(d) = files /\ TrashedDirs(d) = dirs
      \/ TrashedFiles(d) = RenameFiles(files, src, dst) /\ TrashedDirs(d) = RenameDirs(made, src, dst)
  <2>1. CASE src \in DOMAIN files \cup dirs  BY <2>1 DEF TrashedFiles, TrashedDirs
  <2>2. CASE src \notin DOMAIN files \cup dirs  BY <2>2 DEF TrashedFiles, TrashedDirs
  <2>3. QED  BY <2>1, <2>2
<1> HIDE DEF src, dst, made
<1>7. Shaped(RenameFiles(files, src, dst), RenameDirs(made, src, dst))
  <2>1. CASE Len(src) = 2  BY <1>2, <1>3, <1>4, <1>5, <2>1, RenameFolderShape
  <2>2. CASE Len(src) = 3
    <3>1. Shaped(RenameFiles(files, src, dst), made) /\ RenameDirs(made, src, dst) = made
      BY <1>2, <1>3, <1>5, <2>2, RenamePageShape
    <3>2. QED  BY <3>1
  <2>3. QED  BY <1>3, <2>1, <2>2
<1>8. QED  BY <1>1, <1>5, <1>6, <1>7 DEF dst, made

\* Roots are not swept, nor is a directory with a file or a subdirectory.
LEMMA SweepShape ==
  ASSUME Shaped(files, dirs)
  PROVE  Shaped(files, Swept)
<1>1. Swept \subseteq dirs  BY DEF Swept
<1>2. ASSUME NEW p \in dirs, Len(p) = 1 PROVE p \in Swept
  <2>1. p \in Path /\ p = <<p[1]>>  BY <1>2, ShallowPaths DEF Shaped, Folder
  <2>2. p = <<Tree>> \/ InTrash(p)  BY <2>1 DEF InTrash
  <2>3. QED  BY <2>2 DEF Swept
<1>3. ASSUME NEW p \in Swept PROVE Folder(p) /\ <<p[1]>> \in Swept
  <2>1. Folder(p) /\ <<p[1]>> \in dirs  BY <1>1 DEF Shaped
  <2>2. Len(<<p[1]>>) = 1  OBVIOUS
  <2>3. QED  BY <1>2, <2>1, <2>2
<1>4. ASSUME NEW x \in DOMAIN files
      PROVE  x \in Path /\ Len(x) = 3 /\ Front(x) \in Swept
  <2>1. x \in Path /\ Len(x) = 3 /\ Front(x) \in dirs  BY DEF Shaped
  <2>2. Under(Front(x), x)  BY <2>1, FileFolder
  <2>3. QED  BY <2>1, <2>2 DEF Swept
<1>5. QED  BY <1>3, <1>4 DEF Shaped

\* A day is purged with all that is in it.
LEMMA PurgeShape ==
  ASSUME Shaped(files, dirs), PurgeDirs
  PROVE  Shaped(files', dirs')
<1>1. dirs' = {p \in dirs : ~ AgedDir(p)} /\ DOMAIN files' = {y \in DOMAIN files : ~ AgedDir(y)}
  BY DEF PurgeDirs
<1>2. \A p, q : p[1] = q[1] => AgedDir(p) = AgedDir(q)
  BY DEF AgedDir, InTrash
<1>3. ASSUME NEW p \in dirs' PROVE Folder(p) /\ <<p[1]>> \in dirs'
  <2>1. Folder(p) /\ <<p[1]>> \in dirs /\ <<p[1]>>[1] = p[1]  BY <1>1 DEF Shaped
  <2>2. QED  BY <1>1, <1>2, <2>1
<1>4. ASSUME NEW x \in DOMAIN files'
      PROVE  x \in Path /\ Len(x) = 3 /\ Front(x) \in dirs'
  <2>1. x \in Path /\ Len(x) = 3 /\ Front(x) \in dirs  BY <1>1 DEF Shaped
  <2>2. Front(x)[1] = x[1]  BY <2>1, FileFolder
  <2>3. QED  BY <1>1, <1>2, <2>1, <2>2
<1>5. QED  BY <1>3, <1>4 DEF Shaped

\* A path a day later: as deep, and in the older directory.
LEMMA OlderShape ==
  ASSUME NEW p \in Path
  PROVE  /\ Older(p) \in Path /\ Len(Older(p)) = Len(p)
         /\ \A i \in 2..Len(p) : Older(p)[i] = p[i]
         /\ \A q \in Path : q[1] = p[1] => Older(q)[1] = Older(p)[1]
<1> DEFINE Old(q) == q[1] = Tree \/ q[1] > KeepDays + 1
<1>1. ASSUME NEW q \in Path
      PROVE  /\ Older(q) \in Path /\ Len(Older(q)) = Len(q)
             /\ \A i \in 2..Len(q) : Older(q)[i] = q[i]
             /\ Older(q)[1] = IF Old(q) THEN q[1] ELSE q[1] + 1
  <2>1. q # NoPath /\ Older(q) \in Path /\ Len(q) \in Nat /\ Len(q) >= 1
    BY PathFacts, OlderFacts
  <2>2. CASE Old(q)  BY <2>1, <2>2 DEF Older
  <2>3. CASE ~ Old(q)
    <3> DEFINE n == q[1] + 1
    <3>1. Older(q) = <<n>> \o Tail(q)  BY <2>1, <2>3 DEF Older
    <3>2. /\ Tail(q) \in Seq(Component) /\ Len(Tail(q)) = Len(q) - 1
          /\ \A i \in 1..Len(Tail(q)) : Tail(q)[i] = q[i + 1]
      BY <2>1, PathFacts, HeadTailProperties
    <3>3. n \in Nat  BY <2>3 DEF Path
    <3>4. <<n>> \in Seq(Component) /\ Len(<<n>>) = 1 /\ <<n>>[1] = n
      BY <3>3 DEF Component
    <3>5. /\ Len(<<n>> \o Tail(q)) = 1 + Len(Tail(q))
          /\ \A i \in 1..(1 + Len(Tail(q))) :
               (<<n>> \o Tail(q))[i] = IF i <= 1 THEN <<n>>[i] ELSE Tail(q)[i - 1]
      BY <3>2, <3>4, ConcatProperties
    <3>6. Len(Older(q)) = Len(q) /\ \A i \in 1..Len(q) :
            Older(q)[i] = IF i <= 1 THEN <<n>>[i] ELSE Tail(q)[i - 1]
      BY <2>1, <3>1, <3>2, <3>5
    <3>7. Older(q)[1] = n  BY <2>1, <3>4, <3>6
    <3>8. ASSUME NEW i \in 2..Len(q) PROVE Older(q)[i] = q[i]
      <4>1. i \in 1..Len(q) /\ ~ i <= 1 /\ i - 1 \in 1..Len(Tail(q)) /\ (i - 1) + 1 = i
        BY <2>1, <3>2
      <4>2. QED  BY <3>2, <3>6, <4>1
    <3> HIDE DEF n
    <3>9. QED  BY <2>1, <2>3, <3>6, <3>7, <3>8 DEF n
  <2>4. QED  BY <2>2, <2>3
<1>2. QED  BY <1>1

LEMMA TickShape ==
  ASSUME Shaped(files, dirs), Tick
  PROVE  Shaped(files', dirs')
<1>1. CASE UNCHANGED disk  BY <1>1 DEF disk
<1>2. CASE ~ UNCHANGED disk
  <2>1. dirs' = {Older(p) : p \in dirs} /\ DOMAIN files' = {Older(x) : x \in DOMAIN files}
    BY <1>2 DEF Tick, disk
  <2>2. ASSUME NEW q \in dirs' PROVE Folder(q) /\ <<q[1]>> \in dirs'
    <3>1. PICK p \in dirs : q = Older(p)  BY <2>1
    <3>2. p \in Path /\ Len(p) \in {1, 2} /\ <<p[1]>> \in dirs  BY DEF Shaped, Folder
    <3>3. <<p[1]>> \in Path /\ Len(<<p[1]>>) = 1 /\ <<p[1]>>[1] = p[1]
      BY <3>2, ShallowPaths
    <3> DEFINE r == <<p[1]>>
    <3> HIDE DEF r
    <3>4. r \in Path /\ Len(r) = 1 /\ r[1] = p[1] /\ r \in dirs  BY <3>2, <3>3 DEF r
    <3>5. q \in Path /\ Len(q) = Len(p) /\ Older(r) \in Path /\ Len(Older(r)) = 1
          /\ Older(r)[1] = q[1]
      BY <3>1, <3>2, <3>4, OlderShape
    <3>6. Older(r) = <<q[1]>>
      <4>1. Older(r) = <<Older(r)[1]>>  BY <3>5, ShallowPaths
      <4>2. QED  BY <3>5, <4>1
    <3>7. QED  BY <2>1, <3>2, <3>4, <3>5, <3>6 DEF Folder
  <2>3. ASSUME NEW y \in DOMAIN files' PROVE y \in Path /\ Len(y) = 3 /\ Front(y) \in dirs'
    <3>1. PICK x \in DOMAIN files : y = Older(x)  BY <2>1
    <3>2. x \in Path /\ Len(x) = 3 /\ Front(x) \in dirs  BY DEF Shaped
    <3> DEFINE f == Front(x)
    <3> HIDE DEF f
    <3>3. f \in Path /\ Len(f) = 2 /\ f[1] = x[1] /\ f[2] = x[2] /\ f \in dirs
      BY <3>2, FileFolder DEF f
    <3>4. y \in Path /\ Len(y) = 3 /\ y[2] = x[2] /\ y[1] = Older(f)[1]
      BY <3>1, <3>2, <3>3, OlderShape
    <3>5. Older(f) \in Path /\ Len(Older(f)) = 2 /\ Older(f)[2] = f[2]
      BY <3>3, OlderShape
    <3>6. Front(y) \in Path /\ Len(Front(y)) = 2 /\ Front(y)[1] = y[1] /\ Front(y)[2] = y[2]
      BY <3>4, FileFolder
    <3>7. Front(y) = Older(f)
      <4>1. \A i \in 1..Len(Front(y)) : Front(y)[i] = Older(f)[i]
        BY <3>3, <3>4, <3>5, <3>6
      <4>2. QED  BY <3>5, <3>6, <4>1, SamePath
    <3>8. QED  BY <2>1, <3>3, <3>4, <3>7
  <2>4. QED  BY <2>2, <2>3 DEF Shaped
<1>3. QED  BY <1>1, <1>2

-----------------------------------------------------------------------------
(* Directories and files through a visit. *)

LEMMA VisitShape ==
  ASSUME FileInv, NEW d \in Docs, VisitContainer(d) \/ VisitPage(d)
  PROVE  Shaped(files', dirs')
<1> DEFINE new == listing[d]
           old == row[d].path
<1>1. Inv /\ Shaped(files, dirs)  BY DEF FileInv
<1>2. Home(d, new) /\ new \in Path /\ new \in Seq(Component)
  <2>1. pc = "walk" /\ d \in todo  BY DEF VisitContainer, VisitPage, First
  <2>2. Home(d, new)
    BY <1>1, <2>1, InventoryFacts DEF Inv, Types, Walked, Current, Listed
  <2>3. QED  BY <2>2 DEF Home, Path
<1>3. CASE VisitContainer(d)
  <2> DEFINE x == Append(new, Index)
             index == [doc |-> Index, hour |-> 0]
  <2>1. /\ dirs' = MkdirAll(dirs, new)
        /\ files' = files \/ files' = [y \in DOMAIN files \cup {x} |-> IF y = x THEN index ELSE files[y]]
    BY <1>3 DEF VisitContainer
  <2>2. Len(new) = 2 /\ Folder(new)
    BY <1>2, <1>3, DocsFacts DEF VisitContainer, Home, Folder
  <2>3. Shaped(files, dirs') /\ new \in dirs'
    BY <1>1, <2>1, <2>2, MkdirShape
  <2>4. x \in Path /\ Len(x) = 3 /\ Front(x) = new
    <3>1. x \in Seq(Component) /\ Len(x) = 3 /\ x[1] = new[1] /\ x[2] = new[2]
      <4> HIDE DEF new
      <4>1. /\ x \in Seq(Component) /\ Len(x) = Len(new) + 1
            /\ \A i \in 1..Len(new) : x[i] = new[i]
        BY <1>2, DocsFacts, LongerFacts
      <4>2. 1 \in 1..Len(new) /\ 2 \in 1..Len(new)  BY <2>2
      <4> HIDE DEF x
      <4>3. QED  BY <2>2, <4>1, <4>2
    <3>2. x[1] \in {Tree} \cup Nat  BY <1>2, <3>1 DEF Path
    <3> HIDE DEF x
    <3>3. x \in Path  BY <3>1, <3>2, MakePath
    <3>4. /\ Front(x) \in Path /\ Len(Front(x)) = 2
          /\ Front(x)[1] = new[1] /\ Front(x)[2] = new[2]
      BY <3>1, <3>3, FileFolder
    <3>5. Front(x) = new  BY <1>2, <2>2, <3>4, SamePath
    <3>6. QED  BY <3>1, <3>3, <3>5
  <2> HIDE DEF x, index
  <2>5. DOMAIN files' \subseteq DOMAIN files \cup {x}  BY <2>1
  <2>6. QED  BY <2>3, <2>4, <2>5 DEF Shaped
<1>4. CASE VisitPage(d)
  <2> DEFINE fs == IF (d \in Active /\ old # new) /\ old \in DOMAIN files
                   THEN RenameFiles(files, old, new) ELSE files
  <2>1. /\ dirs' = MkdirAll(dirs, Front(new)) /\ DOMAIN files' = DOMAIN fs \cup {new}
        /\ d \in Pages
    BY <1>4 DEF VisitPage
  <2>2. Len(new) = 3  BY <1>2, <2>1 DEF Home
  <2>3. Folder(Front(new))  BY <1>2, <2>2, FileFolder DEF Folder
  <2>4. Shaped(files, dirs') /\ Front(new) \in dirs'
    BY <1>1, <2>1, <2>3, MkdirShape
  <2>5. Shaped(fs, dirs')
    <3>1. CASE d \in Active
      <4>1. old \in Path /\ Len(old) = 3
        BY <1>1, <2>1, <3>1 DEF Inv, Types, Home, Active
      <4> HIDE DEF old, new
      <4>2. Shaped(RenameFiles(files, old, new), dirs')
        BY <1>2, <2>2, <2>4, <4>1, RenamePageShape
      <4>3. QED  BY <2>4, <4>2
    <3>2. CASE d \notin Active  BY <2>4, <3>2
    <3>3. QED  BY <3>1, <3>2
  <2> HIDE DEF fs, new
  <2>6. QED  BY <1>2, <2>1, <2>2, <2>4, <2>5 DEF Shaped
<1>5. QED  BY <1>3, <1>4

LEMMA ShapeNext ==
  ASSUME FileInv, [Next]_vars
  PROVE  Shaped(files', dirs')
<1>1. Shaped(files, dirs)  BY DEF FileInv
<1>2. CASE Change \/ Begin \/ BeginDeletes \/ PurgeRows \/ Crash \/ UNCHANGED vars
           \/ \E d \in Docs : FailPage(d)
  <2>1. files' = files /\ dirs' = dirs
    BY <1>2 DEF Change, Begin, BeginDeletes, PurgeRows, Crash, FailPage, vars, disk
  <2>2. QED  BY <1>1, <2>1
<1>3. CASE Tick  BY <1>1, <1>3, TickShape
<1>4. CASE Sweep
  <2>1. files' = files /\ dirs' = Swept  BY <1>4 DEF Sweep
  <2>2. QED  BY <1>1, <2>1, SweepShape
<1>5. CASE PurgeDirs  BY <1>1, <1>5, PurgeShape
<1>6. CASE \E d \in Docs : VisitContainer(d) \/ VisitPage(d)  BY <1>6, VisitShape
<1>7. CASE \E d \in Docs : TrashOne(d) \/ AbortDeletes(d)
  <2>1. PICK d \in todo :
          \/ files' = TrashedFiles(d) /\ dirs' = TrashedDirs(d)
          \/ files' = files /\ dirs' = MkdirAll(dirs, Front(TrashPath(d)))
          \/ files' = files /\ dirs' = dirs
    BY <1>7 DEF TrashOne, AbortDeletes, Deepest, disk
  <2>2. pc = "reap"  BY <1>7 DEF TrashOne, AbortDeletes
  <2>3. /\ Shaped(TrashedFiles(d), TrashedDirs(d))
        /\ Shaped(files, MkdirAll(dirs, Front(TrashPath(d))))
    BY <2>2, TrashShape
  <2>4. QED  BY <1>1, <2>1, <2>3
<1>8. QED  BY <1>2, <1>3, <1>4, <1>5, <1>6, <1>7 DEF Next, Round

LEMMA RowsNext ==
  ASSUME FileInv, [Next]_vars
  PROVE  Rows'
<1>1. row \in [Docs -> Row] /\ Rows  BY DEF FileInv, Inv, Types
<1>2. SUFFICES ASSUME NEW d \in Docs, row'[d].status = "none" PROVE row'[d].path = NoPath
  BY DEF Rows
<1>3. CASE row' = row  BY <1>1, <1>2, <1>3 DEF Rows
<1>4. CASE Tick /\ row' # row
  <2>1. row' = [e \in Docs |-> [row[e] EXCEPT !.path = Older(@)]]  BY <1>4 DEF Tick
  <2>2. row[d] \in Row /\ row'[d] = [row[d] EXCEPT !.path = Older(row[d].path)]
    BY <1>1, <2>1
  <2>3. row'[d].status = row[d].status /\ row'[d].path = Older(row[d].path)
    BY <2>2 DEF Row
  <2>4. row[d].path = NoPath  BY <1>1, <1>2, <2>3 DEF Rows
  <2>5. QED  BY <2>3, <2>4 DEF Older
<1>5. ASSUME NEW e \in Docs, NEW r, r.status # "none", row' = [row EXCEPT ![e] = r]
      PROVE  row'[d].path = NoPath
  <2>1. d # e /\ row'[d] = row[d]  BY <1>1, <1>2, <1>5
  <2>2. QED  BY <1>1, <1>2, <2>1 DEF Rows
<1>6. ASSUME NEW e \in Docs, VisitContainer(e) \/ VisitPage(e) PROVE row'[d].path = NoPath
  <2> DEFINE r == [status |-> "active", path |-> listing[e], hour |-> 0, body |-> FALSE]
  <2>1. row' = row \/ row' = [row EXCEPT ![e] = r]
    BY <1>6 DEF VisitContainer, VisitPage
  <2>2. r.status # "none"  OBVIOUS
  <2> HIDE DEF r
  <2>3. QED  BY <1>3, <1>5, <2>1, <2>2
<1>7. ASSUME NEW e \in Docs, TrashOne(e) PROVE row'[d].path = NoPath
  <2> DEFINE r == [status |-> "trashed", path |-> TrashPath(e), hour |-> hour,
                   body |-> row[e].path \in DOMAIN files]
  <2>1. row' = [row EXCEPT ![e] = r]  BY <1>7 DEF TrashOne
  <2>2. r.status # "none"  OBVIOUS
  <2> HIDE DEF r
  <2>3. QED  BY <1>5, <2>1, <2>2
<1>8. CASE PurgeRows
  <2> DEFINE gone == [status |-> "none", path |-> NoPath, hour |-> 0, body |-> FALSE]
  <2>1. row'[d] = gone \/ row'[d] = row[d]  BY <1>8 DEF PurgeRows
  <2>2. gone.path = NoPath  OBVIOUS
  <2> HIDE DEF gone
  <2>3. QED  BY <1>1, <1>2, <2>1, <2>2 DEF Rows
<1>9. CASE Change \/ Begin \/ BeginDeletes \/ Sweep \/ PurgeDirs \/ Crash \/ UNCHANGED vars
           \/ \E e \in Docs : FailPage(e) \/ AbortDeletes(e)
  <2>1. row' = row
    BY <1>9 DEF Change, Begin, BeginDeletes, Sweep, PurgeDirs, Crash, FailPage, AbortDeletes, vars
  <2>2. QED  BY <1>3, <2>1
<1>10. QED  BY <1>3, <1>4, <1>6, <1>7, <1>8, <1>9 DEF Next, Round

LEMMA StatesNext ==
  ASSUME FileInv, [Next]_vars
  PROVE  States'
<1>1. States  BY DEF FileInv
<1>2. shared' \subseteq Docs
  <2>1. CASE Change  BY <1>1, <2>1 DEF Change, States
  <2>2. CASE ~ Change
    <3>1. shared' = shared
      BY <2>2 DEF Next, Round, Tick, Begin, BeginDeletes, Sweep, PurgeRows, PurgeDirs, Crash,
                  VisitContainer, VisitPage, FailPage, TrashOne, AbortDeletes, remote, vars
    <3>2. QED  BY <1>1, <3>1 DEF States
  <2>3. QED  BY <2>1, <2>2
<1>3. failed' \subseteq Docs
  <2>1. failed' \in {failed, {}} \/ \E d \in Docs : failed' = failed \cup {d}
    BY DEF Next, Round, Change, Tick, Begin, BeginDeletes, Sweep, PurgeRows, PurgeDirs, Crash, Rest,
           VisitContainer, VisitPage, FailPage, TrashOne, AbortDeletes, round, vars
  <2>2. QED  BY <1>1, <2>1 DEF States
<1>4. aborted' \in BOOLEAN
  <2>1. aborted' \in {aborted, TRUE, FALSE}
    BY DEF Next, Round, Change, Tick, Begin, BeginDeletes, Sweep, PurgeRows, PurgeDirs, Crash, Rest,
           VisitContainer, VisitPage, FailPage, TrashOne, AbortDeletes, round, vars
  <2>2. QED  BY <1>1, <2>1 DEF States
<1>5. pc' \in {"idle", "walk", "reap", "purgeRows", "purgeDirs"}
  <2>1. pc' \in {pc, "idle", "walk", "reap", "purgeRows", "purgeDirs"}
    BY DEF Next, Round, Change, Tick, Begin, BeginDeletes, Sweep, PurgeRows, PurgeDirs, Crash, Rest,
           VisitContainer, VisitPage, FailPage, TrashOne, AbortDeletes, round, vars
  <2>2. QED  BY <1>1, <2>1 DEF States
<1>6. QED  BY <1>2, <1>3, <1>4, <1>5 DEF States

(* The mirror and the manifest have the shape a file system and a table have,
   through every move, trashing, sweep and purge, at every depth of days: no file
   is where a directory is, none is without the directory it is in, and the
   status of a row says whether its path is in the trash. *)
THEOREM TrashTypes == Spec => []TypeOK
<1>1. Init => FileInv
  <2>1. SUFFICES ASSUME Init PROVE FileInv
    OBVIOUS
  <2>2. Inv  BY <2>1, InitInv
  <2>3. DOMAIN files = {} /\ dirs = {<<Tree>>}  BY <2>1 DEF Init
  <2>4. Folder(<<Tree>>)
    <3> DEFINE r == <<Tree>>
    <3>1. r \in Seq(Component) /\ Len(r) = 1 /\ r[1] = Tree  BY DocsFacts
    <3> HIDE DEF r
    <3>2. r \in Path /\ Len(r) = 1  BY <3>1, MakePath
    <3>3. QED  BY <3>2 DEF Folder, r
  <2>5. Shaped(files, dirs)  BY <2>3, <2>4 DEF Shaped
  <2>6. Rows
    <3> DEFINE none == [status |-> "none", path |-> NoPath, hour |-> 0, body |-> FALSE]
    <3>1. \A d \in Docs : row[d] = none  BY <2>1 DEF Init
    <3>2. none.path = NoPath  OBVIOUS
    <3> HIDE DEF none
    <3>3. QED  BY <3>1, <3>2 DEF Rows
  <2>7. States  BY <2>1 DEF Init, States, Docs
  <2>8. QED  BY <2>2, <2>5, <2>6, <2>7 DEF FileInv
<1>2. FileInv /\ [Next]_vars => FileInv'
  <2>1. FileInv => Inv  BY DEF FileInv
  <2>2. QED  BY <2>1, NextKeeps, ShapeNext, RowsNext, StatesNext DEF FileInv
<1>3. FileInv => TypeOK
  <2>1. SUFFICES ASSUME FileInv PROVE TypeOK
    OBVIOUS
  <2>2. Types /\ Rows /\ States /\ Shaped(files, dirs)
    <3>1. Inv /\ Rows /\ States /\ Shaped(files, dirs)  BY <2>1 DEF FileInv
    <3>2. Types  BY <3>1 DEF Inv
    <3>3. QED  BY <3>1, <3>2
  <2>3. \A d \in Docs : /\ row[d].status \in {"none", "active", "trashed"}
                        /\ row[d].status = "none" <=> row[d].path = NoPath
                        /\ row[d].status = "active" => ~ InTrash(row[d].path)
                        /\ row[d].status = "trashed" => InTrash(row[d].path)
    <3>1. SUFFICES ASSUME NEW d \in Docs
                   PROVE  /\ row[d].status \in {"none", "active", "trashed"}
                          /\ row[d].status = "none" <=> row[d].path = NoPath
                          /\ row[d].status = "active" => ~ InTrash(row[d].path)
                          /\ row[d].status = "trashed" => InTrash(row[d].path)
      OBVIOUS
    <3>2. row[d].status \in {"none", "active", "trashed"}  BY <2>2 DEF Types, Row
    <3>3. row[d].status = "active" => row[d].path \in Path /\ ~ InTrash(row[d].path)
      BY <2>2 DEF Types, Home
    <3>4. row[d].status = "trashed" => row[d].path \in Path /\ InTrash(row[d].path)
      BY <2>2 DEF Types
    <3>5. row[d].status = "none" => row[d].path = NoPath  BY <2>2 DEF Rows
    <3>6. row[d].path \in Path => row[d].path # NoPath  BY PathFacts
    <3>7. QED  BY <3>2, <3>3, <3>4, <3>5, <3>6
  <2>4. \A x \in DOMAIN files : Front(x) \in dirs /\ x \notin dirs
    <3>1. \A x \in DOMAIN files : Len(x) = 3 /\ Front(x) \in dirs  BY <2>2 DEF Shaped
    <3>2. \A p \in dirs : Len(p) = 1 \/ Len(p) = 2  BY <2>2 DEF Shaped, Folder
    <3>3. QED  BY <3>1, <3>2
  <2>5. ASSUME NEW p \in dirs PROVE Ancestors(p) \subseteq dirs
    <3>1. p \in Path /\ (Len(p) = 1 \/ Len(p) = 2) /\ <<p[1]>> \in dirs
      BY <2>2 DEF Shaped, Folder
    <3>2. Ancestors(p) \subseteq {p, <<p[1]>>}  BY <3>1, ShallowPaths
    <3>3. QED  BY <3>1, <3>2
  <2>6. QED  BY <2>2, <2>3, <2>4, <2>5 DEF TypeOK, Types, States, Clock
<1>4. QED  BY <1>1, <1>2, <1>3, PTL DEF Spec
===============================================================================
