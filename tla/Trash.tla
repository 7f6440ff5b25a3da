-------------------------------- MODULE Trash --------------------------------
(***************************************************************************)
(* Deletion on disk: reconcileDeletes, pruneEmptyDirs and purgeAgedTrash of *)
(* internal/engine, on a file system with directories.  Containers are      *)
(* trashed like documents, the trash of a day is one directory, and what is *)
(* older than trash_keep_days is reclaimed at the end of every round.       *)
(*                                                                          *)
(* Time is the hour of the day and the age of things in days, so that the   *)
(* days go on for ever in finitely many states.  Inventories are complete   *)
(* and large enough for the permission-jitter guard (see Reconcile); no     *)
(* document waits for an asset.                                             *)
(***************************************************************************)
EXTENDS Naturals, Sequences, FiniteSets

CONSTANTS
  Pages,        \* documents with a body, children of Container
  Container,    \* a folder or database
  HasIndex,     \* is it a database, with an _index.md?
  OrphanFolder, \* the folder "_orphans" that the engine synthesizes
  DirNames,     \* names the container may have
  Name,         \* Name[d]: the file name of a page when it is free
  Tree,         \* the first component of paths outside the trash
  Index,        \* the name _index.md
  NoPath,
  KeepDays,     \* trash_keep_days
  Hours,        \* points of time in a day
  MaxChanges, MaxFaults \* bounds: changes of the remote, failures and deaths

Docs == Pages \cup {Container, OrphanFolder}

ASSUME ConstantsAssumption ==
  /\ Container \notin Pages /\ OrphanFolder \notin Pages /\ Container # OrphanFolder
  /\ KeepDays \in Nat /\ Hours \in Nat \ {0}
  /\ MaxChanges \in Nat /\ MaxFaults \in Nat

\* What the components of paths are.
Component == DirNames \cup {Name[d] : d \in Pages} \cup Docs \cup {Tree, Index} \cup Nat

ASSUME PathAssumption ==
  /\ DirNames # {} /\ OrphanFolder \notin DirNames /\ Tree \notin Nat
  /\ NoPath \notin Seq(Component)

VARIABLES
  shared,   \* remote: documents that are there
  dirName,  \* remote: the container's name
  hour,     \* time of day
  row,      \* manifest: status, path and, for tombstones, the hour it was made;
            \* body is an observation: was there a file to move?
  files,    \* a function on the paths of files; in the trash with the hour
  dirs,     \* the directories there are
  pc,       \* "idle", "walk", "reap", "purgeRows" or "purgeDirs"
  listing,  \* where the round's inventory puts each document, or NoPath
  todo,     \* documents to be visited or trashed
  vacated,  \* old paths of moved and trashed documents
  failed,   \* documents with a recorded failure
  aborted,  \* did the delete step fail?
  changes, faults

remote == <<shared, dirName>>
disk   == <<files, dirs>>
round  == <<pc, listing, todo, vacated, failed, aborted>>
vars   == <<remote, hour, row, disk, round, changes, faults>>

-----------------------------------------------------------------------------
(***************************************************************************)
(* A file system.  A path is a sequence of names; its first component is    *)
(* Tree or the age, in days, of a directory of the trash.                   *)
(***************************************************************************)
Front(p) == SubSeq(p, 1, Len(p) - 1)
Under(p, x) == Len(x) >= Len(p) /\ SubSeq(x, 1, Len(p)) = p
Ancestors(p) == {SubSeq(p, 1, n) : n \in 1..Len(p)}
InTrash(x) == x[1] # Tree
Empty(fs, ds, p) == ~\E x \in DOMAIN fs \cup ds : Under(p, x) /\ x # p

\* os.MkdirAll
MkdirAll(ds, p) == ds \cup Ancestors(p)

\* A file or directory moves, with all that is in it.
Renamed(x, src, dst) == IF Under(src, x) THEN dst \o SubSeq(x, Len(src) + 1, Len(x)) ELSE x
RenameFiles(fs, src, dst) ==
  LET new == {Renamed(x, src, dst) : x \in DOMAIN fs}
  IN  [y \in new |-> IF Under(dst, y) /\ (\E x \in DOMAIN fs : Under(src, x) /\ Renamed(x, src, dst) = y)
                     THEN LET x == CHOOSE x \in DOMAIN fs : Under(src, x) /\ Renamed(x, src, dst) = y
                          IN  [doc |-> fs[x].doc, hour |-> IF InTrash(y) THEN hour ELSE 0]
                     ELSE fs[y]]
RenameDirs(ds, src, dst) == {Renamed(x, src, dst) : x \in ds}

\* os.Rename replaces a file by a file and an empty directory by a directory.
MayRename(fs, ds, src, dst) ==
  IF src \in ds THEN dst \notin DOMAIN fs /\ (dst \in ds => Empty(fs, ds, dst))
  ELSE dst \notin ds

Init ==
  /\ shared = Pages \cup {Container} /\ dirName = CHOOSE n \in DirNames : TRUE
  /\ hour = 0
  /\ row = [d \in Docs |-> [status |-> "none", path |-> NoPath, hour |-> 0, body |-> FALSE]]
  /\ files = <<>> /\ dirs = {<<Tree>>}
  /\ pc = "idle" /\ listing = [d \in Docs |-> NoPath] /\ todo = {}
  /\ vacated = {} /\ failed = {} /\ aborted = FALSE
  /\ changes = 0 /\ faults = 0

-----------------------------------------------------------------------------
(***************************************************************************)
(* The remote and the clock, which are read when a round begins and when    *)
(* it trashes and purges.                                                   *)
(***************************************************************************)
Change ==
  /\ pc = "idle" /\ changes < MaxChanges /\ changes' = changes + 1
  /\ \/ \E d \in Docs \ {OrphanFolder} :
          /\ shared' = IF d \in shared THEN shared \ {d} ELSE shared \cup {d}
          /\ UNCHANGED dirName
     \/ dirName' \in DirNames \ {dirName} /\ UNCHANGED shared
  /\ UNCHANGED <<hour, row, disk, round, faults>>

\* One day later a thing in the trash is a day older; beyond KeepDays + 1 it
\* makes no difference how old it is.
Older(p) ==
  IF p = NoPath \/ p[1] = Tree \/ p[1] > KeepDays + 1 THEN p ELSE <<p[1] + 1>> \o Tail(p)

\* Rounds take no time on this scale.
Tick ==
  /\ pc = "idle" /\ hour' = (hour + 1) % Hours
  /\ IF hour' # 0 THEN UNCHANGED <<row, disk>>
     ELSE /\ row' = [d \in Docs |-> [row[d] EXCEPT !.path = Older(@)]]
          /\ dirs' = {Older(p) : p \in dirs}
          /\ LET from(y) == CHOOSE x \in DOMAIN files : Older(x) = y
             IN  files' = [y \in {Older(x) : x \in DOMAIN files} |-> files[from(y)]]
  /\ UNCHANGED <<remote, round, changes, faults>>

-----------------------------------------------------------------------------
(***************************************************************************)
(* The walk.                                                                *)
(***************************************************************************)
\* A page lies in the container or, when that is not there, among the orphans;
\* of two pages of one name the second has another.
FileName(d) ==
  IF \E e \in shared \cap Pages : e # d /\ Name[e] = Name[d] /\ (CHOOSE x \in {d, e} : TRUE) = e
  THEN d ELSE Name[d]
Inventory ==
  LET home == IF Container \in shared THEN <<Tree, dirName>> ELSE <<Tree, OrphanFolder>>
  IN  [d \in Docs |->
         CASE d \in Pages \cap shared -> Append(home, FileName(d))
           [] d = Container /\ d \in shared -> home
           [] d = OrphanFolder /\ Container \notin shared /\ Pages \cap shared # {} -> home
           [] OTHER -> NoPath]

Listed == {d \in Docs : listing[d] # NoPath}

\* (mutant of Present) the documents that were enumerated, without the folders
\* that the engine adds.
PresentAsEnumerated == Listed \ {OrphanFolder}

\* The documents of the built tree.
Present == Listed
Active == {d \in Docs : row[d].status = "active"}
Taken(d, x) == \E e \in Docs \ {d} : row[e].path = x

Begin ==
  /\ pc = "idle" /\ pc' = "walk"
  /\ listing' = Inventory
  /\ todo' = {d \in Docs : Inventory[d] # NoPath}
  /\ vacated' = {} /\ failed' = {} /\ aborted' = FALSE
  /\ UNCHANGED <<remote, hour, row, disk, changes, faults>>

\* Containers come before the pages in them.
First(d) == d \in todo /\ (d \in Pages => todo \subseteq Pages)

Fault == faults < MaxFaults /\ faults' = faults + 1

\* A directory is made and its row saved; a database's index is written.
VisitContainer(d) ==
  /\ pc = "walk" /\ First(d) /\ d \notin Pages
  /\ dirs' = MkdirAll(dirs, listing[d])
  /\ files' = IF d = Container /\ HasIndex
              THEN LET x == Append(listing[d], Index)
                   IN  [y \in DOMAIN files \cup {x} |->
                          IF y = x THEN [doc |-> Index, hour |-> 0] ELSE files[y]]
              ELSE files
  /\ IF Taken(d, listing[d])
     THEN failed' = failed \cup {d} /\ UNCHANGED row
     ELSE row' = [row EXCEPT ![d] = [status |-> "active", path |-> listing[d], hour |-> 0, body |-> FALSE]]
          /\ UNCHANGED failed
  /\ vacated' = vacated \cup
       (IF d \in Active /\ row[d].path # listing[d] THEN {row[d].path} ELSE {})
  /\ todo' = todo \ {d}
  /\ UNCHANGED <<remote, hour, pc, listing, aborted, changes, faults>>

\* The body is moved, or fetched if there is none, and the row is saved.
VisitPage(d) ==
  LET new   == listing[d]
      old   == row[d].path
      moved == d \in Active /\ old # new
      fs    == IF moved /\ old \in DOMAIN files THEN RenameFiles(files, old, new) ELSE files
  IN  /\ pc = "walk" /\ First(d) /\ d \in Pages
      /\ dirs' = MkdirAll(dirs, Front(new))
      /\ files' = [x \in DOMAIN fs \cup {new} |->
                     IF x = new /\ ~(d \in Active /\ new \in DOMAIN fs)
                     THEN [doc |-> d, hour |-> 0] ELSE fs[x]]
      /\ IF Taken(d, new)
         THEN failed' = failed \cup {d} /\ UNCHANGED row
         ELSE row' = [row EXCEPT ![d] = [status |-> "active", path |-> new, hour |-> 0, body |-> FALSE]]
              /\ UNCHANGED failed
      /\ vacated' = vacated \cup (IF moved THEN {old} ELSE {})
      /\ todo' = todo \ {d}
      /\ UNCHANGED <<remote, hour, pc, listing, aborted, changes, faults>>

\* processNode fails before it has moved the body.
FailPage(d) ==
  /\ pc = "walk" /\ First(d) /\ d \in Pages /\ Fault
  /\ failed' = failed \cup {d} /\ todo' = todo \ {d}
  /\ UNCHANGED <<remote, hour, row, disk, pc, listing, vacated, aborted, changes>>

-----------------------------------------------------------------------------
(***************************************************************************)
(* The delete step.                                                         *)
(***************************************************************************)
BeginDeletes ==
  /\ pc = "walk" /\ todo = {} /\ pc' = "reap"
  /\ todo' = Active \ Present
  /\ UNCHANGED <<remote, hour, row, disk, listing, vacated, failed, aborted, changes, faults>>

TrashPath(d) == <<0>> \o Tail(row[d].path)

\* Longest paths first: never before what lies below it.
Deepest(d) == d \in todo /\ \A e \in todo : Len(row[e].path) <= Len(row[d].path)

\* The files and directories after the move of d to the trash of the day.
TrashedFiles(d) ==
  IF row[d].path \in DOMAIN files \cup dirs THEN RenameFiles(files, row[d].path, TrashPath(d))
  ELSE files
TrashedDirs(d) ==
  IF row[d].path \in DOMAIN files \cup dirs
  THEN RenameDirs(MkdirAll(dirs, Front(TrashPath(d))), row[d].path, TrashPath(d))
  ELSE dirs
Movable(d) ==
  row[d].path \in DOMAIN files \cup dirs =>
    MayRename(files, dirs, row[d].path, TrashPath(d))

TrashOne(d) ==
  /\ pc = "reap" /\ Deepest(d) /\ Movable(d) /\ ~Taken(d, TrashPath(d))
  /\ files' = TrashedFiles(d) /\ dirs' = TrashedDirs(d)
  /\ row' = [row EXCEPT ![d] = [status |-> "trashed", path |-> TrashPath(d), hour |-> hour,
                                 body |-> row[d].path \in DOMAIN files]]
  /\ vacated' = vacated \cup {row[d].path} /\ todo' = todo \ {d}
  /\ UNCHANGED <<remote, hour, pc, listing, failed, aborted, changes, faults>>

\* An error of the rename or of the tombstone ends the platform's round; the
\* finalize that follows is for all platforms and takes place.
AbortDeletes(d) ==
  /\ pc = "reap" /\ Deepest(d)
  /\ \/ /\ ~Movable(d) /\ UNCHANGED <<files, faults>>
        /\ dirs' = MkdirAll(dirs, Front(TrashPath(d)))
     \/ /\ Movable(d) /\ Taken(d, TrashPath(d)) /\ UNCHANGED faults
        /\ files' = TrashedFiles(d) /\ dirs' = TrashedDirs(d)
     \/ Fault /\ UNCHANGED disk
  /\ aborted' = TRUE /\ todo' = {} /\ pc' = "purgeRows"
  /\ UNCHANGED <<remote, hour, row, listing, vacated, failed, changes>>

\* (mutant of Swept) a vacated directory is removed with what is left in it.
SweptWholly == {p \in dirs : ~\E v \in vacated : Under(Front(v), p) /\ Front(v) # <<Tree>>}

\* pruneEmptyDirs: the ancestors of vacated paths that hold nothing any more.
Swept ==
  {p \in dirs : ~(/\ p # <<Tree>> /\ ~InTrash(p)
                  /\ \E v \in vacated : Under(p, Front(v))
                  /\ ~\E x \in DOMAIN files : Under(p, x)
                  /\ \A q \in dirs : Under(p, q) => \E v \in vacated : Under(q, Front(v)))}

Sweep ==
  /\ pc = "reap" /\ todo = {} /\ pc' = "purgeRows"
  /\ dirs' = Swept
  /\ UNCHANGED <<remote, hour, row, files, listing, todo, vacated, failed, aborted, changes, faults>>

-----------------------------------------------------------------------------
(***************************************************************************)
(* purgeAgedTrash, once for all platforms: tombstones by the time they were *)
(* made, directories by their day.                                          *)
(***************************************************************************)
Elapsed(age, since) == age * Hours + hour - since

\* (mutants of AgedRow and AgedDir) a day late, a day early, never.
AgedRowLate(d) == Elapsed(row[d].path[1], row[d].hour) > (KeepDays + 1) * Hours
AgedDirEarly(p) == InTrash(p) /\ p[1] >= KeepDays
AgedDirNever(p) == FALSE

AgedRow(d) == Elapsed(row[d].path[1], row[d].hour) > KeepDays * Hours
AgedDir(p) == InTrash(p) /\ p[1] > KeepDays

PurgeRows ==
  /\ pc = "purgeRows" /\ pc' = "purgeDirs"
  /\ row' = [d \in Docs |->
               IF row[d].status = "trashed" /\ AgedRow(d)
               THEN [status |-> "none", path |-> NoPath, hour |-> 0, body |-> FALSE] ELSE row[d]]
  /\ UNCHANGED <<remote, hour, disk, listing, todo, vacated, failed, aborted, changes, faults>>

Rest ==
  /\ pc' = "idle" /\ listing' = [d \in Docs |-> NoPath] /\ todo' = {}
  /\ vacated' = {} /\ failed' = {} /\ aborted' = FALSE

PurgeDirs ==
  /\ pc = "purgeDirs" /\ Rest
  /\ dirs' = {p \in dirs : ~AgedDir(p)}
  /\ files' = [x \in {y \in DOMAIN files : ~AgedDir(y)} |-> files[x]]
  /\ UNCHANGED <<remote, hour, row, changes, faults>>

Crash ==
  /\ pc # "idle" /\ Fault /\ Rest
  /\ UNCHANGED <<remote, hour, row, disk, changes>>

Round == \/ Begin \/ BeginDeletes \/ Sweep \/ PurgeRows \/ PurgeDirs
         \/ \E d \in Docs : VisitContainer(d) \/ VisitPage(d) \/ FailPage(d)
                              \/ TrashOne(d) \/ AbortDeletes(d)

Next == Change \/ Tick \/ Round \/ Crash

Spec     == Init /\ [][Next]_vars
FairSpec == Spec /\ WF_vars(Round) /\ SF_vars(Tick)

-----------------------------------------------------------------------------
(***************************************************************************)
(* Properties.                                                              *)
(***************************************************************************)
TypeOK ==
  /\ shared \subseteq Docs /\ dirName \in DirNames /\ hour \in 0..(Hours - 1)
  /\ \A d \in Docs : /\ row[d].status \in {"none", "active", "trashed"}
                     /\ row[d].status = "none" <=> row[d].path = NoPath
                     /\ row[d].status = "active" => ~InTrash(row[d].path)
                     /\ row[d].status = "trashed" => InTrash(row[d].path)
  /\ \A x \in DOMAIN files : Front(x) \in dirs /\ x \notin dirs
  /\ \A p \in dirs : Ancestors(p) \subseteq dirs
  /\ pc \in {"idle", "walk", "reap", "purgeRows", "purgeDirs"}
  /\ todo \subseteq Docs /\ failed \subseteq Docs /\ aborted \in BOOLEAN

(* The retention window is honoured to the hour: no file leaves the trash
   before trash_keep_days have passed since it was put there, although whole
   days are reclaimed at once. *)
RetentionKept ==
  [][pc = "purgeDirs" =>
       \A x \in DOMAIN files \ DOMAIN files' :
         InTrash(x) /\ Elapsed(x[1], files[x].hour) >= KeepDays * Hours]_vars

(* A tombstone never outlives what it stands for: as long as the row of a
   document whose body was trashed says where it is, there is a file, also when
   the process dies between the purge of the rows and that of the directories. *)
TombstoneHasBody ==
  \A d \in Pages : row[d].status = "trashed" /\ row[d].body => row[d].path \in DOMAIN files

(* The delete step takes no live document along when it trashes a directory: the
   body of every document of the inventory stays where its row says, unless the
   walk has recorded a failure for it. *)
LiveBodiesStay ==
  [][pc = "reap" =>
       \A d \in (Pages \cap Listed) \ failed :
         LET x == row[d].path
         IN  x \in DOMAIN files /\ files[x].doc = d => x \in DOMAIN files' /\ files'[x].doc = d]_vars

(* What is gone goes away: once the remote rests, every document that is not
   there loses its row after its days in the trash, the trash is emptied, and
   all that is there is mirrored at its place. *)
Settled ==
  /\ \A d \in Docs : IF Inventory[d] = NoPath THEN row[d].status = "none"
                    ELSE row[d].status = "active" /\ row[d].path = Inventory[d]
  /\ \A d \in Pages \cap shared : Inventory[d] \in DOMAIN files
  /\ ~\E x \in DOMAIN files : InTrash(x)

AbsentReclaimed == <>[][FALSE]_remote => <>[]Settled

(* "Trash deepest paths first so a parent directory is already empty by the time
   it (or the sweep) reaches it": the delete step is not aborted when nothing
   fails. *)
DeletesFinish == [][aborted' /\ ~aborted => faults' # faults]_vars
=============================================================================
