-------------------------------- MODULE Rounds --------------------------------
(***************************************************************************)
(* The rounds of a platform with incremental enumeration (Notion), day     *)
(* after day: the choice between a full and an incremental round, the      *)
(* checkpoint with its safety window, searches that take time while        *)
(* documents are edited, documents that fail, rounds that are aborted or   *)
(* die.  Reconcile has the inside of a full round; here a document is only *)
(* the edit time it was last mirrored at.                                  *)
(*                                                                         *)
(* A tick is the precision of last_edited_time, and a document is edited   *)
(* at most once in a tick.  Rounds do not overlap.                         *)
(***************************************************************************)
EXTENDS Naturals, Sequences, FiniteSets

CONSTANTS
  Docs,           \* the platform's documents
  DayLength,      \* ticks of a local calendar day
  Window,         \* SafetyWindow
  SearchTime,     \* bound: ticks a search takes at most
  EveryRuns,      \* notion_reconcile_every_runs, 0 when not set
  RecentRunLimit, \* recentRunLimit
  Forced,         \* values of --full
  MaxTime,        \* bound: the last tick
  MaxRuns         \* bound: recorded rounds

ASSUME RoundsAssumption ==
  /\ DayLength \in Nat \ {0} /\ RecentRunLimit \in Nat \ {0}
  /\ Window \in Nat /\ SearchTime \in Nat /\ EveryRuns \in Nat
  /\ Forced \subseteq BOOLEAN /\ MaxTime \in Nat /\ MaxRuns \in Nat

VARIABLES
  clock,    \* the current tick
  visible,  \* remote: the documents the integration can see
  edited,   \* remote: last_edited_time, 0 before a document exists
  row,      \* manifest: remote_edited of the live row, 0 when there is none
  runs,     \* manifest: sync_runs of the platform, newest first
  pc,       \* where the round is
  plan,     \* mode and previous checkpoint, decided before the round
  started,  \* platformStarted; the search begins then
  unread,   \* documents the search has not come to
  listing,  \* edit times of the documents enumerated, 0 for the others
  todo,     \* documents enumerated and not processed
  mark,     \* the checkpoint to be recorded
  failed,   \* documents whose last processing failed
  late      \* documents that became visible with an old edit time, not mirrored since

remote == <<visible, edited>>
round  == <<plan, started, unread, listing, todo, mark>>
vars   == <<clock, remote, row, runs, pc, round, failed, late>>

-----------------------------------------------------------------------------
Mode == {"full", "incremental"}
Run  == [started : Nat, mode : Mode, checkpoint : Nat]
Plan == [mode : Mode, prev : Nat]

Day(t) == t \div DayLength
Greatest(t, S) == t \in S /\ \A x \in S : x <= t
Listed == {d \in Docs : listing[d] # 0}

\* LatestCheckpoint: the newest checkpoint recorded that is not empty.
Dated == {i \in 1..Len(runs) : runs[i].checkpoint # 0}
Checkpoint ==
  IF Dated = {} THEN 0
  ELSE runs[CHOOSE i \in Dated : \A j \in Dated : i <= j].checkpoint

\* RecentSyncRuns
Recent == SubSeq(runs, 1, IF Len(runs) <= RecentRunLimit THEN Len(runs) ELSE RecentRunLimit)

Streak(rs) ==
  Cardinality({n \in 1..Len(rs) : \A i \in 1..n : rs[i].mode = "incremental"})

\* (mutant of Due) the running round itself is not counted.
DueOneLate == EveryRuns > 0 /\ Streak(Recent) >= EveryRuns
Due == EveryRuns > 0 /\ Streak(Recent) + 1 >= EveryRuns

\* decideNotionMode
DecideMode(now, full) ==
  IF \/ full \/ Checkpoint = 0 \/ Recent = <<>>
     \/ Day(Recent[1].started) # Day(now)
     \/ Due
  THEN "full" ELSE "incremental"

NoPlan == [mode |-> "full", prev |-> 0]

Init ==
  /\ clock = 1
  /\ visible = {} /\ edited = [d \in Docs |-> 0]
  /\ row = [d \in Docs |-> 0] /\ runs = <<>>
  /\ pc = "idle" /\ plan = NoPlan /\ started = 0
  /\ unread = {} /\ listing = [d \in Docs |-> 0] /\ todo = {} /\ mark = 0
  /\ failed = {} /\ late = {}

\* Nothing of a round outlives it but what is in the manifest.
Rest ==
  /\ pc' = "idle" /\ plan' = NoPlan /\ started' = 0
  /\ unread' = {} /\ listing' = [d \in Docs |-> 0] /\ todo' = {} /\ mark' = 0

-----------------------------------------------------------------------------
Tick ==
  /\ clock < MaxTime
  /\ pc = "search" => clock < started + SearchTime
  /\ clock' = clock + 1
  /\ UNCHANGED <<remote, row, runs, pc, round, failed, late>>

Edit(d) ==
  /\ d \in visible /\ edited[d] < clock
  /\ edited' = [edited EXCEPT ![d] = clock]
  /\ UNCHANGED <<clock, visible, row, runs, pc, round, failed, late>>

\* A document is created, or shared (again) with the edit time it has.
Share(d) ==
  /\ d \notin visible /\ visible' = visible \cup {d}
  /\ \/ edited' = [edited EXCEPT ![d] = clock] /\ UNCHANGED late
     \/ edited[d] # 0 /\ late' = late \cup {d} /\ UNCHANGED edited
  /\ UNCHANGED <<clock, row, runs, pc, round, failed>>

Unshare(d) ==
  /\ d \in visible /\ visible' = visible \ {d}
  /\ UNCHANGED <<clock, edited, row, runs, pc, round, failed, late>>

Remote == \E d \in Docs : Edit(d) \/ Share(d) \/ Unshare(d)

-----------------------------------------------------------------------------
\* Engine.Sync decides every platform's mode, then starts the platforms.
Decide ==
  /\ pc = "idle" /\ Len(runs) < MaxRuns
  /\ \E full \in Forced : plan' = [mode |-> DecideMode(clock, full), prev |-> Checkpoint]
  /\ pc' = "decided"
  /\ UNCHANGED <<clock, remote, row, runs, started, unread, listing, todo, mark, failed, late>>

StartPlatform ==
  /\ pc = "decided"
  /\ started' = clock
  /\ unread' = Docs /\ pc' = "search"
  /\ UNCHANGED <<clock, remote, row, runs, plan, listing, todo, mark, failed, late>>

\* (mutant of Read) the search of a full round stops at the window, too.
ReadStopping(d) ==
  /\ pc = "search" /\ d \in unread
  /\ unread' = unread \ {d}
  /\ IF d \in visible /\ edited[d] + Window >= plan.prev
     THEN listing' = [listing EXCEPT ![d] = edited[d]]
     ELSE UNCHANGED listing
  /\ UNCHANGED <<clock, remote, row, runs, pc, plan, started, todo, mark, failed, late>>

\* The search comes to where d is, or was: a document edited since it began has
\* moved to the head of the results and may be missed.  An incremental search
\* stops at the first document older than the safety window.
Read(d) ==
  /\ pc = "search" /\ d \in unread
  /\ unread' = unread \ {d}
  /\ \/ /\ d \in visible
        /\ plan.mode = "full" \/ edited[d] + Window >= plan.prev
        /\ listing' = [listing EXCEPT ![d] = edited[d]]
     \/ /\ \/ d \notin visible
           \/ edited[d] >= started
           \/ plan.mode = "incremental" /\ edited[d] + Window < plan.prev
        /\ UNCHANGED listing
  /\ UNCHANGED <<clock, remote, row, runs, pc, plan, started, todo, mark, failed, late>>

\* maxCheckpoint, and maxEdited of an incremental search: only there the previous
\* checkpoint is a floor.
EditTimes ==
  {listing[d] : d \in Docs} \cup {IF plan.mode = "full" THEN 0 ELSE plan.prev}

EndSearch ==
  /\ pc = "search" /\ unread = {}
  /\ \E t \in EditTimes : Greatest(t, EditTimes) /\ mark' = t
  /\ todo' = Listed /\ pc' = "walk"
  /\ UNCHANGED <<clock, remote, row, runs, plan, started, unread, listing, failed, late>>

Process(d) ==
  /\ pc = "walk" /\ d \in todo
  /\ todo' = todo \ {d}
  /\ \/ /\ row' = [row EXCEPT ![d] = listing[d]]
        /\ failed' = failed \ {d} /\ late' = late \ {d}
     \/ /\ failed' = failed \cup {d} /\ UNCHANGED <<row, late>>
  /\ UNCHANGED <<clock, remote, runs, pc, plan, started, unread, listing, mark>>

\* Delete detection: one of the documents that a full round did not enumerate.
Trash(d) ==
  /\ pc = "walk" /\ todo = {} /\ plan.mode = "full"
  /\ d \notin Listed /\ row[d] # 0
  /\ row' = [row EXCEPT ![d] = 0]
  /\ UNCHANGED <<clock, remote, runs, pc, round, failed, late>>

\* runFull or runIncremental returns: only the checkpoint is handed on.
Return(outcome, checkpoint) ==
  /\ pc' = outcome /\ mark' = checkpoint
  /\ unread' = {} /\ listing' = [d \in Docs |-> 0] /\ todo' = {}
  /\ UNCHANGED <<clock, remote, row, runs, plan, started, failed, late>>

\* The jitter guard may have left every absent document alone.
EndWalk == pc = "walk" /\ todo = {} /\ Return("done", mark)

\* (mutant of Abort) the round's own checkpoint is recorded although it failed.
AbortAdvances ==
  /\ pc \in {"search", "walk"}
  /\ \E t \in EditTimes : Greatest(t, EditTimes) /\ Return("aborted", t)

\* A fatal error of the round: the previous checkpoint is recorded.
Abort == pc \in {"search", "walk"} /\ Return("aborted", plan.prev)

Record ==
  /\ pc \in {"done", "aborted"}
  /\ runs' = <<[started |-> started, mode |-> plan.mode, checkpoint |-> mark]>> \o runs
  /\ Rest
  /\ UNCHANGED <<clock, remote, row, failed, late>>

\* The process dies, or the row of the run cannot be inserted.
Crash ==
  /\ pc # "idle" /\ Rest
  /\ UNCHANGED <<clock, remote, row, runs, failed, late>>

Next ==
  \/ Tick \/ Remote
  \/ Decide \/ StartPlatform \/ EndSearch \/ EndWalk \/ Abort \/ Record \/ Crash
  \/ \E d \in Docs : Read(d) \/ Process(d) \/ Trash(d)

Spec == Init /\ [][Next]_vars

-----------------------------------------------------------------------------
(***************************************************************************)
(* Properties.                                                             *)
(***************************************************************************)
TypeOK ==
  /\ clock \in Nat /\ visible \subseteq Docs /\ edited \in [Docs -> Nat]
  /\ row \in [Docs -> Nat] /\ runs \in Seq(Run)
  /\ pc \in {"idle", "decided", "search", "walk", "done", "aborted"}
  /\ plan \in Plan /\ started \in Nat /\ mark \in Nat
  /\ unread \subseteq Docs /\ todo \subseteq Docs /\ listing \in [Docs -> Nat]
  /\ failed \subseteq Docs /\ late \subseteq Docs

(* No edit slips under the safety window unseen: between rounds, a document the
   mirror is behind on is one the next incremental round will enumerate, or one
   whose failure was reported, or one that was shared without being edited. *)
Behind == {d \in visible : row[d] # edited[d]}
NothingSlips ==
  pc = "idle" => \A d \in Behind : edited[d] + Window >= Checkpoint \/ d \in failed \cup late

(* A round that was not aborted leaves the mirror behind only on what was edited
   while it ran, on documents whose failure was reported, and on documents that
   were shared without being edited. *)
RoundCatchesUp ==
  pc = "done" => \A d \in Behind : edited[d] >= started \/ d \in failed \cup late

(* The every-N cadence: among EveryRuns consecutive rounds one is full, as long
   as recentRunLimit rounds are enough to see that it is due. *)
CadenceKept ==
  EveryRuns > 0 /\ EveryRuns <= RecentRunLimit + 1 =>
    \A i \in 1..Len(runs) : i + EveryRuns - 1 <= Len(runs) =>
      \E j \in i..(i + EveryRuns - 1) : runs[j].mode = "full"

(* A document that failed is retried in the next round: that round enumerates it
   again, unless it cannot be seen, was only just shared, or is being edited. *)
RetriedNextRound ==
  [][pc = "search" /\ pc' = "walk" =>
       {d \in (failed \cap visible) \ late : edited[d] < started} \subseteq Listed]_vars

(* The first run each day forces reconciliation: of the runs that started on a
   day the oldest is a full one. *)
FirstOfDayIsFull ==
  \A i \in 1..Len(runs) :
    (\A j \in (i + 1)..Len(runs) : Day(runs[j].started) # Day(runs[i].started))
      => runs[i].mode = "full"
=============================================================================
