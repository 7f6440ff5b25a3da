# opendoc: specifications, model checking and proofs

TLA+ specifications of opendoc, a one-way mirror of Notion and Feishu documents
into a directory of Markdown files, translated from the Go sources under
`src/internal`. TLC checks small instances of them and TLAPS proves the main
safety properties for every instance. `PROJECT.json` holds, per definition, the
lines of the source it stands for, and lists runs, mutants, hazards and theorems.

| module | what it is | instance | proofs |
|---|---|---|---|
| `Reconcile` | full rounds of one platform, document by document: walk, move follow, skips, fetch, write, save, delete detection, against a remote that changes and with failures and crashes | `MCReconcile` (`reconcile_collision`), which the next two extend | `ReconcileProofs` |
| `Disturbances` | `Reconcile` with what has happened to each document that an unforced round cannot see: shared paths, returns, repeated texts and edit times, local edits | `MCProfiles` | `ReconcileProofs` |
| `Reports` | `Reconcile` with what was reported so far and what was done that an unforced round cannot see | `MCShared` | `ReconcileProofs` |
| `Rounds` | the sequence of full and incremental rounds of Notion: mode decision, checkpoint, safety window, searches that take time, failed documents, aborted rounds | `MCRounds` | `RoundsProofs` |
| `Placement` | where an inventory is put: the tree of parents, orphans, names and their tie-breakers, paths | `MCPlacement` | `PlacementProofs` |
| `Incremental` | placement of an incremental round against the manifest, composed with full rounds that place the same documents anew | `MCIncremental` | `IncrementalProofs` |
| `References` | what bodies point to: relative links and their fixup, URLs, assets | `MCReferences` | `ReferencesProofs` |
| `Trash` | deletion on a file system with directories: trash, sweep of empty directories, retention | `MCTrash` | `TrashProofs` |
| `Requests` | the rate bucket and the backoff of a platform's client, with several callers | (with `Enumeration`) | `SetupAndEnumerationProofs` |
| `Enumeration` | an adapter's producer goroutine, its two channels and `collectEnumeration`, on top of `Requests` | `MCEnumeration` | `SetupAndEnumerationProofs` |
| `Collection` | what the engine relies on: the whole inventory or an error, once. `Enumeration` implements it | | |
| `FeishuWalk` | Feishu's walk of wikis and folders while documents move, and what rounds make of it | `MCFeishuWalk` | `FeishuWalkProofs` |
| `Setup` | the command line: init, doctor, sync, schedule, their configuration and environment | `MCSetup` | `SetupAndEnumerationProofs` |

## 1. Inventory

One call of `Engine.Sync` is a *round* over all platforms; launchd starts it
at the times of day it was given, and a person may start it by hand. What survives a round is the
directory tree, the SQLite manifest and the asset pool; all else is in memory.

| component (source) | state | operations | talks to | hard part | what makes it correct |
|---|---|---|---|---|---|
| full round (`engine/pipeline.go`, `writer.go`) | body files; `runContext`, moves and statistics in memory | `runFull`, `processNode`, `upsertDoc`, `upsertFolder`, `processDatabase`, `removeStaleBody`, `atomicWrite` | adapter (enumerate, fetch), manifest, assets, links | failure or death between rename, write and upsert; edits racing the fetch; two documents and one path | a round without failures leaves a right mirror; rows are never ahead of files; bodies are not lost |
| delete detection and trash (`engine/lifecycle.go`) | trash directories, tombstones | `reconcileDeletes`, `purgeAgedTrash`, `pruneEmptyDirs` | manifest | incomplete enumerations (jitter), crash between move and tombstone, directories that meet in the trash, ageing by two clocks | only absent documents are trashed, trash is kept its days and then reclaimed |
| rounds and modes (`engine/engine.go`, `mode.go`) | `sync_runs` rows | `Sync`, `decidePlatformMode`, `runPlatform`, `recordRun` | manifest, the clock | midnight, aborted rounds, cadence | nothing slips behind the checkpoint, every N-th round is full |
| incremental round (`engine/incremental.go`) | in memory only | `runIncremental`, `prequeryDirtyDatabases`, `resolveIncrementalNodes`, `maxCheckpoint` | manifest, adapter | placement from old manifest state; failed queries; cycles of parents | placement agrees with the next full round's; nothing is overwritten |
| placement (`engine/tree.go`, `naming`) | none | `buildTree`, `assignPaths`, `walk`, `naming.Component` | full round | parent cycles, missing parents, names equal after folding | every enumerated document has one path of its own; ordinary names do not depend on the order |
| links (`engine/linkrewrite.go`, `lifecycle.go`) | `links` table, link text in bodies | `rewriteLinks`, `fixupMovedLinks` | manifest, body files | both ends move, swaps, moves of a round that died | a link points to where its target is |
| assets (`engine/assets.go`) | pool files, `assets` table | `processAssets`, `downloadAsset` | adapter, manifest | two platforms at once, pending assets, relative links | a body without markers has all its assets |
| index (`engine/dbindex.go`, `index.go`) | generated files | `generateIndex`, `generateDBIndex` | manifest | what is left out (pending documents) | lists the live documents |
| manifest (`manifest/manifest.go`) | five tables | upsert, tombstone, purge, queries | everyone | `UNIQUE(local_path)`, one connection | one live row per path |
| Notion adapter (`notion/`) | rate bucket | `Enumerate`, `EnumerateIncremental`, `FetchMarkdown`, `QueryDatabaseRows` | HTTP API | paging while documents change, retries, producer goroutine | complete inventories or an error |
| Feishu adapter (`feishu/`) | rate bucket | `Enumerate`, `FetchMarkdown`, assets, bitables | embedded lark-cli | a walk of listings while documents move | documents at rest are found; what is missed comes back |
| rate limiting (`ratelimit/`) | next slot | `Bucket.Wait`, `Backoff.Retry` | adapters | concurrent and cancelled callers | slots are an interval apart |
| configuration (`config/`) | `config.toml`, env file | `Load`, `Write`, `ResolveEnv` | command line | replaced while it is read, death half way | a sync acts on all of what somebody asked for |
| command line (`cmd/`, `cli/`) | plist, credentials | `sync`, `init`, `status`, `resolve`, `doctor`, `schedule` | engine, launchd, lark-cli | two commands at once, environments that differ, things that change after doctor | no platform is silently left out; what doctor passed is served |
| adapter contract (`adapter/`), layout, frontmatter | none | conversions | all | none | round trips |

Components interact through the manifest (shared by both platform goroutines,
serialised by one connection), the file tree (disjoint per platform, except
trash, assets and `INDEX.md`) and the two channels of an enumeration.

How the modules divide one round: `Enumeration` is how an inventory is
collected, `FeishuWalk` and `Rounds` what it can miss, `Placement` where the
documents belong, `Reconcile` what happens to one document's file and row,
`Trash` to directories, `References` to the text of bodies; `Incremental`
composes the placement of both kinds of round with the walk. Each says in its
header which of the others' concerns it takes as given.

The hazards these parts are exposed to are listed in `PROJECT.json`, each with
its line and the properties that guard it, or the reason why none does.

## 2. Reconcile: inside a full round

| variable | stands for |
|---|---|
| `history[d]`, `place[d]` | the remote: revisions of a document with text and edit time, and the path that naming gives it now, or `Gone` |
| `row[d]` | its row of `documents`: status, local path, remote_edited, content hash |
| `disk[x]` | the file at a path of the tree or the trash: whose text, which text, and whether all assets are there |
| `stored[d]` | texts of the document whose assets are all in the pool |
| `pc`, `cur`, `draft`, `todo` | where `processNode` is, for which node, what it is about to save, and the nodes not walked yet |
| `listing`, `force`, `doomed`, `failed` | the round's inventory, `--full`, what delete detection still has to trash, `Stats.Failures` |
| `faults` | bound on faults |

`StartRound` is `collectEnumeration` and `buildTree` (with a fault: an
enumeration that lost documents). `Visit` is the head of `processNode`: move
follow and pre-fetch skip in one step, since nothing else acts on these files
while a round runs. Where the code stops to do I/O that can fail or that the
remote can race, the model stops, too: `Fetch` (the fetch, assets, and the
content-hash skip), `Write` (`atomicWrite`: the file is the old or the new one,
never half), `Save` (`upsertDoc`, refused by `UNIQUE(local_path)`), `FailNode`
and `FailBeforeMove` (the error is recorded, the walk goes on). `BeginDeletes`, `MoveToTrash`,
`Tombstone` and `AbortRound` are `reconcileDeletes`, `Finish` the end of
`runFull`. `Crash` may happen in any of these states.

Of the constants, `Return`, `Undo` and `Coarse` say what the remote may do:
bring a document back to a path where an earlier failure left a file, bring an
earlier text back, edit within the precision of `last_edited_time`. The runs of
the properties set all of them.

`Disturbances` adds two observers: `been[d]`, the paths a document has had, and
`disturbed`, the documents to which one of these things, or a local edit, has
happened. A document is `Regular` as long as it is not among them and no other
one has had one of its paths. `BodyKept`, `RoundIsFaithful`, `SkipsAreSafe` and
`Convergence` are about the regular documents of a mirror in which anything may
happen to the others; that they are false of the rest is section 13's, what is
still true of these `Reports` and `ForcedRoundIsFaithful` say.

`Reports` adds two observers: `reported` (a failure is on a report, a round was
aborted or the process died) and `spoiled` (a body was edited in the mirror, or a
document without a new edit time). No step reads any of the four.

Abstracted: the walk order is nondeterministic (the code walks depth first, in
enumeration order), so what holds in every order holds in that one. Only
documents with a body; one trash day, one platform; the inventory is taken in
one step. The 0.8 of the jitter guard is exact in integers; `Stable` counts
documents that are enumerated and active in every round, so that small
instances have an inventory on both sides of the guard.

## 3. Rounds: one round after another

`Decide` is `decidePlatformMode` (with the time at which `Sync` began),
`StartPlatform` the start of `runPlatform` (with the time that is recorded),
`Read` the search coming to a document, `EndSearch` the end of it, where the
checkpoint is computed, `Process` a node of the walk, mirrored or failed, `Trash`
a step of delete detection, `EndWalk` or `Abort` the return of the adapter's
pipeline, `Record` the insertion of the `sync_runs` row, `Crash` a death, or a
row that could not be inserted. Documents are edited, shared and unshared
between and during all of these, time passes in ticks. A document edited after
the search began may or may not be found by it, since a search in order of
edit time moves it to the head of a list that was already passed.

`Window` is `SafetyWindow`; `SearchTime` bounds how long a search takes.
`late` records documents that were shared with an old edit time: no
incremental search can find these, in the code as in the model, and they are
the one exception in the properties that no report announces. A document is
edited at most once per tick, which the precision of a minute makes false: see
section 13.

## 4. Placement: from an inventory to paths

`docs` is the enumeration, any sequence of documents with parent, title and
type. The tree of `buildTree` is a function of it (`Order`, `ParentOf`, `Tree`,
`Children`, `IsDir`), in which a document that is listed twice counts as last
listed. `assignPaths` is a recursion over directories: `stack` holds its calls
under way, `used` the names taken per directory, `place` each node's parent path
and name. `Assign` is one turn of its loop, with `naming.Component` and `claim`
in full; `Return` is the end of a loop. The order in which nodes are placed is
that of `walk`.

A name is a sequence of tokens (text, id prefix with its dash, a number, `.md`),
so that a title that looks suffixed, numbered or like a file is a title like any
other. `Slug` (what is stripped) and `Cut` (what truncation to 200 bytes
leaves) are given as functions on titles; `Lower` folds text tokens. Breadcrumbs
are left out. `Files` and `Directories` are what the pipeline creates for a
node, among them the `_index.md` of a database.

What is assumed of reserved names (`ReservedAssumption`) is that the structural
names are among them, and that none is what a title becomes with an id: an id
suffix contains a dash, which `_orphans`, `readme` and `_index` do not.

`PathsDistinct` has an exception: names are made distinct without extension, so a
directory whose title ends in `.md`, in capitals or not, can meet a body. A document titled
`README.md` that has children becomes a directory at the path of its parent's
body, although the comment at `naming.go:23-25` says that a
reserved title "can never shadow a structural file".

## 5. Incremental: placement against the manifest

The state is a remote of titled documents with parents, `row` (with the parent
and title it was saved with), `file` (whose body, and does a row's have its
properties) and one round at a time, full or incremental. `StartFull` places the
whole inventory with `TreePath`, a plain form of `Placement`; `StartIncremental`
resolves any set of changed documents with `Placed` (`Place` is
`placeIncrementalNode`, in the search's order, with the names claimed so far), adds
the `Conversion` of leaves that gain a child, and queries the `DirtyDatabases`. The
nodes are then walked in the order of `Walks` or `ByDepth`: `ProcessFolder`,
`SkipPage`, `FetchPage`, `FailPage`. A full round ends with `TrashOne`, one document
at a time.

The orders are stated by what the code guarantees of them, and each is a set: `Orders`
are the sub-orders of the enumeration, `Walks` the orders in which parents come
first, siblings in enumeration order, the orphans last, and what is below a document
right behind it (the depth-first `walk`), `ByDepth` the one stable sort by depth.
The way up from a document, on the remote, in the tree and in the manifest, is one
function, `Climb`, of as many steps as there are documents.

Two orders of enumeration, failures of nodes and queries, and a death are in the
instance. `ResolutionEnds` is what childContext takes for granted; a round for
which it is false is not started (see section 13).

`ConstantsAssumption` says what the constants are; an enumeration order has every
document, once or more. `NamesAssumption` tells names apart: no title is a title with
an id (the code numbers these, which is `Placement`'s), and none is `_orphans` or the
trash, which `naming.Component` reserves.

Three properties of files are not the same. `RenamesAreCorrect` is what the comment in
`processNode` says of any incremental round, and is false when an earlier full round
died between two documents that exchange names (section 13). `NothingOverwritten` asks
it only when the live documents had places of their own, outside of the trash, when
the round began (`Orderly(before)`). That this is the normal case is `PlacesStayApart`: a
full round without failures ends with orderly rows, and incremental rounds keep them so,
whatever fails, but for one case (`Returning`): a directory that was trashed is found
again. `LiveOutsideTrash` leaves this case out, and is false (section 13). In the first two, a body counts as
lost when its document was live, its file was where the row says and after the step
there is no file with it any more (`BodiesStay`).

`EditedRowsHaveProperties` excepts a row that was mirrored with this very text before:
its hash is that of the row, so the content-hash skip leaves what is at the path,
which is `Reconcile`'s concern.

## 6. References: links and assets in bodies

`body[d]` gives every destination in a document's text: `Url`, or a relative path
computed by `RelAsset` from real path sequences at two depths, so that a body
that moves deeper makes its links wrong unless they are followed. The walk writes
bodies (`Write`, `FailSave`), keeps them (`Skip`, `HashSkip`) or loses them half
way (`FailFetch`); `Fixup` is `fixupMovedLinks` for one body, all orders of its
swaps; `Rewrite` is `rewriteLinks`. `Die` forgets the moves of the round.

`LinksFollow` holds but for `astray`, which collects exactly what `Missed` and
`Die` name: a target trashed or waiting for an asset when it or the referrer
moves, a body that is not where its row says, swaps of which one takes what
another made, a body that could not be read or written, and a round that died or
failed before its fixup. `ForcedRoundRepairs` says that `--full` repairs all of
these in the documents that it lists. Active documents that it does not list are left
only when `JitterGuard` keeps the deletes off, which the code records as a
warning and not as a failure (`lifecycle.go:56-61`); these are neither fetched nor repaired.
`Stable` counts documents that no link concerns, as in `Reconcile`. Two documents and one path are `Reconcile`'s: `Orderly` and `Clear` keep
rounds to those in which some order vacates a path before it is taken.

`Swapped` applies the swaps of one body in turn (`AfterSwaps`). What is assumed of
destinations (`DestinationsAssumption`): no relative path is a URL, since URLs are
absolute, and none to an asset is one to a document, since files of the pool are
named by their hash (`contentPath`, `assets.go:128-132`).

## 7. Trash: directories, days and retention

Paths are sequences, directories exist or do not, and renames refuse what
`os.Rename` refuses. A container (with or without `_index.md`) holds one or two
pages, perhaps of one name, and `_orphans` takes them when it is gone. Ages are
relative: a trashed path begins with its age in days, so that days go on for
ever in finitely many states; `hour` is the time of day. `AgedRow` compares to
the hour, `AgedDir` whole days, as in the code.

`LiveBodiesStay` excepts documents whose move failed in the walk: their body
still lies in a directory that is trashed with its container.

`PathAssumption` says that components of paths are told apart: the container has a name,
none of its names is `_orphans` (`layout.Component` reserves it), the tree is no day.

## 8. Requests, Enumeration and Collection

`Requests` has one bucket and one context for several callers; times are relative
to the present. `Attempt` is `Wait` up to its sleep, `Wake` and `Interrupt` its
two ends, `Answer` and `Repeat` the turns of `Retry`. A timer may fire up to
`MaxLate` late; the jitter of a delay is any member of `Delays`.

`Enumeration` adds the producer, which handles an `agenda` of requests and
documents depth first, replays what it found over an unbuffered channel, sends its
error into a channel of capacity one and closes both; and `collectEnumeration`, with
`docOpen` and `errOpen` for the channel variables it sets to nil. `Cancel` may
happen at any time, though in production the context is never cancelled.
Feishu's fetches are the instance of one attempt and no interval.

`Collection` is the abstract specification: one answer, the whole inventory or an
error. `C == INSTANCE Collection WITH Whole <- Found(Below[Root]), ...` maps it,
and `WholeOrError == C!FairSpec` is checked as a property, liveness included;
`EnumerationImplementsCollection` proves its safety part for all instances.

## 9. FeishuWalk: a walk among moving documents

The walk is a stack of listings (`Frame`): a wiki level is one listing with each
node's has_child of that moment, a folder is listed page by page and its folders
are walked between its pages. `Move` moves or deletes any document between any
two steps. `found` is the parent of a document's last listing; `Present` applies
`buildTree` to it; `Round` restores what was listed and trashes what was not,
behind the jitter guard. `Fail` is a refused call or a death. `Kinds` is what the
platform guarantees of its tree: folders are in the drive and files hold nothing.
`Climb` is the way up from a document, in as many steps as there are documents.

## 10. Setup: the commands around the engine

`config`, `plist` and `world` (variables in the operator's shell and the env
file, lark-cli's credentials and scopes, what the platforms let be read) are what
commands find. `init` and `sync` are processes of several steps, since they read
and write at several moments (`sync` reads the configuration three times);
`doctor` and `schedule` are one step each. Launchd's environment has
`OPENDOC_ROOT` only. `Change` is anything that happens to the world.

`Probes` is doctor's report as the set of probes that fail, `FeishuNeeds` and
`Unmet` what an enumeration asks for and is refused. That these are two
different lists in the code is the point of `ReadyIsServed`: it excepts the two
needs that doctor does not probe (the metadata scope, and the wiki scope for a
personal library). A refused platform fails its own round and the sync ends with
0, in the code as in the model.

## 11. What the runs show

Times are for two workers, in seconds. Every property has a mutant in
`PROJECT.json`: a plausible bug in one definition, kept in the module next to
the definition it stands for, with which TLC finds the property violated.

| run | bounds | states | s | properties |
|---|---|---|---|---|
| `reconcile` | three profiles: one document with two paths, two revisions, two faults of any kind; two documents with paths of their own, one fault; two that may want one path, with three revisions of the first, its return, its repeated text or edit time, or a local edit | 1.9 M | 130 | `BodyKept`, `RoundIsFaithful`, `RowNotAhead`, `SkipsAreSafe`, `OnlyAbsentTrashed`, `Convergence` |
| `reconcile_shared` | two profiles: two documents competing for two paths; one with three revisions, local edits, `Return`, `Undo`, `Coarse`; one fault | 6.3 M | 100 | `ForcedRoundIsFaithful`, `CorruptionIsReported` |
| `rounds` | two documents, two days of three ticks, three rounds, N = 2, one run read back | 7.3 M | 110 | `NothingSlips`, `RoundCatchesUp`, `CadenceKept` |
| `placement` | four siblings, three of one id prefix, eight titles; all parent relations of three documents, or of two with one listed twice, four titles | 0.8 M | 60 | `NamesDistinct`, `PathsDistinct`, `OnlyCyclesDropped`, `PlainTitlesKept` |
| `incremental` | two pages, a database, a row; two orders, two changes, one failure or death | 2.6 M | 130 | `PlacesStayApart`, `PlacedLikeFull`, `EditedRowsHaveProperties`, `NothingOverwritten`, `SubtreesStayWhole` |
| `references` | three documents, four paths at two depths, one asset, three changes, one failure or death, `Stable` = 3: the guard lets one document be trashed, not two | 3.2 M | 60 | `TypeOK`, `LinksFollow`, `UrlsRewritten`, `ForcedRoundRepairs` |
| `trash` | a database with two pages of one name, two hours a day, one day kept, three changes, one failure or death | 0.6 M | 35 | `TypeOK`, `TombstoneHasBody`, `RetentionKept`, `LiveBodiesStay`, `AbsentReclaimed` |
| `enumeration` | three pages of answers, three callers, two attempts, cancellation | 0.7 M | 85 | `EnumerationTypeOK`, `SlotsApart`, `WholeOrError`, `ProducerEnds` |
| `setup` | four commands, two at a time, two machines, two configurations, one change of the world | 3.7 M | 95 | `RunsAsAsked`, `NothingSkipped`, `ReadyIsServed`, `ScheduledIsInitialized` |
| `feishu_walk` | a page below a page, a folder with two files, pages of one file, two moves, one failed call | 0.1 M | 15 | `RestingIsFound`, `TrashedMoved`, `MissedComeBack` |
| `reconcile_collision` | two documents, three paths, no faults | | | `CleanRoundIsFaithful` is violated |
| `trash_container` | a database with a page, no faults | | | `DeletesFinish` is violated |

Why these bounds are enough to say something. In `Reconcile` rounds are not
bounded, only faults and revisions are: a fault and its repair need two rounds, a
fault in the repair a third. Two revisions distinguish mirrored from not
mirrored, three are needed for a text that comes back. The documents of a
platform interact through the inventory, the guard, the walk and the paths only,
which two documents exercise. In `rounds`, N = 2 with one run read back is the
boundary at which the cadence is still kept, two days have one midnight, and
three rounds are what a failure, its aftermath and a check of it take. In
`placement` four siblings are needed for a tie-breaker that is taken, too; three
documents give every shape of tree in which one is below, beside or in a cycle
with another. In `incremental` two changes are a move and an edit, or the two
moves that make a row's parent stale, and the row may be a parent itself, so all
three forms of a path occur. In `references` a referrer with two targets, one of
which links back, gives two swaps in one body and a link whose both ends move. In
`trash` two hours make the row's age and the directory's differ. In `enumeration`
three callers are one more than share a slot, and two attempts have a last one.
In `setup` two commands overlap, and an init, a doctor and a sync with a
schedule or a second init between them are four. In `feishu_walk` two moves take a
document out of a listing to come and into one that is over. It was also run with three
(1.2 M states), `setup` with two changes and three commands (12.8 M), and `incremental`
with the second page below the first, too (4.5 M).

`placement` and `setup` may stop (all paths assigned; all commands spent), so they
do not check deadlock; the others do. `TypeOK` of `Reconcile`, `Incremental`,
`FeishuWalk` and `Setup` describes their state; no run repeats it, for it is proved of all
four.

Some properties in words:

* `RoundIsFaithful`: a round leaves every regular document that it enumerated and
  does not report as failed with a body that is its own, where it belongs, and with
  a text that was current at some moment since the inventory. It says so about the
  first round after any failures or crashes, and whatever becomes of other documents.
* `Convergence`: with finitely many faults and a remote that comes to rest the mirror
  becomes equal to it, if no document has been disturbed. Two deletions at once are not
  in the instance, since the guard may put these off for ever (section 13).
* `CorruptionIsReported`: of all documents, regular or not, the first is false
  (see below), but only after a round reported a failure, or was cut short, or after somebody
  edited the mirror or edited a document twice in one tick. Texts that come back
  do no harm by themselves: a round has to die for that.
* `NothingSlips`: between rounds, whatever the mirror is behind on will be
  enumerated by the next incremental round, or is on a report, or was shared
  without an edit.
* `OnlyCyclesDropped`: a document without a path has an enumerated parent without
  one. Such documents are below a cycle, which pages that are read while
  documents are moved can show; the full round takes them for deleted.
* `PlainTitlesKept`: names depend on the enumeration order, which follows edits,
  only among siblings one of whose titles is the beginning of the other's.
* `PlacedLikeFull`: what an incremental round places, the next full round would
  place in the same directory, under a name of the same title.
* `PlacesStayApart`: names that a full round gives by enumeration order and names that
  incremental rounds give by what the manifest holds never lead two documents to
  one place, whatever of a round fails.
* `NothingOverwritten` and `SubtreesStayWhole`: an incremental round, which looks at
  rows and not at files, harms no body and no directory of a document that it did
  not enumerate.
* `TombstoneHasBody` and `RetentionKept`: rows and directories age by different
  clocks, but no row outlives its file and no file is reclaimed too early.
* `RestingIsFound` and `TrashedMoved`: what a walk loses, and a round trashes in
  error, is only what moved while the walk was under way; `MissedComeBack`: it
  is active again when the remote has come to rest.

Fairness. `Reconcile` has weak fairness of `Round`, the disjunction of all steps
of rounds and of nothing else: the process, while alive, goes on, and when none
runs launchd starts the next (the daily `StartCalendarInterval` entries of the
plist that `opendoc schedule install` writes). `FeishuWalk` and `Trash` have the
same for `Step` and `Round`; `Trash` has strong fairness of `Tick`, too, since days
pass between and during rounds. `Enumeration` has weak fairness of the producer,
the engine, the other callers and time: goroutines run, and every request is
answered - the HTTP client has no timeout, so this is an assumption about the
network. Faults have no fairness and are finite in number, as for a transient
failure; nothing is assumed about which document is walked first, and none of
`Fetch`, `Write` and `Save` is fair by itself. No fairness is assumed of the others.

Reductions. `MCNext` delays changes of the remote until the round is about to
read it (and in `MCRounds` the clock, too); such changes commute with the steps
in between, which neither read nor write what they change. The profiles of
`MCProfiles` and `MCShared` put three and two instances into one run: the profile is chosen
in the initial state and restricts the remote and the faults. Documents and
paths of `reconcile_shared`, documents of `rounds` and processes of `setup` are
interchangeable, so permuting them is sound for these safety runs; the runs with
liveness use no symmetry. In `MCReferences` documents start at one placement; the others
are reached by moves.

## 12. Disagreements with the documentation

Two runs state what a comment says and have a counterexample:

* `reconcile_collision`: two documents, no faults. A new document takes the old
  name of one that is renamed in the same enumeration. Visited first it
  overwrites the other's body; its row is refused, which is reported; then the
  other's rename carries the wrong text along, and the next round trusts it
  without a report.
* `trash_container`: a container and its page are deleted; trashing the page first
  ("deepest paths first") creates the container's directory in the trash, onto
  which the container's own directory can then not be renamed when it still has a
  file (its `_index.md`) or when the target is not empty. The round is aborted, on
  every full round of that day.

## 13. Further counterexamples

These were found while modelling; the definitions are in the modules, and adding
one to the cfg that is named shows its counterexample.

* `AtMostAFifthTrashed` (`Reconcile`): the guard compares totals, so documents that
  are new in an enumeration make up for lost ones and more than a fifth of the
  active inventory is trashed (`lifecycle.go:56`, against `lifecycle.go:44-46`).
  The reverse: when more than a fifth is really deleted at once, the guard puts the
  deletes off on every round for ever.
* `CleanRoundIsFaithful` (`ReconcileCollision.cfg` with `Docs = {d1}`, so that no path
  is contended, `Return = FALSE`, and as follows). With `Coarse = TRUE` and two
  revisions: two edits within one tick of `last_edited_time` with a round between them,
  the second is never fetched (`pipeline.go:258`, against
  `docs/dev/architecture.md:125`). With `Return = TRUE`, two revisions and a fault
  (`"store"` or `"crash"`): a file left behind by a failed or killed round is taken for
  the document's when the document returns to that path. With `Undo = TRUE`, three
  revisions and a crash: text A is edited to B, B is written, the process dies before
  the save, B is edited back to A: the hash of the row is A's, the file has B, and the
  content-hash skip keeps it. With `"tamper"` among the faults: a local edit stays until
  the document is edited. `reconcile_shared` shows that `--full` repairs all of these.
* `Convergence` with shared paths: two documents that exchange names are refused by
  `UNIQUE(local_path)` on every round (`pipeline.go:236-246`).
* `RetriedNextRound` (`Rounds`): a failed document is not retried by the next round
  when that round is incremental (`incremental.go:72`, against
  `plugin/skills/opendoc/SKILL.md:210-211`).
* `FirstOfDayIsFull` (`Rounds`): the mode is decided with the time `Sync` began, the
  run recorded with the time its platform began; a round across midnight makes
  all rounds of the new day incremental (`engine.go:315`, against
  `docs/dev/architecture.md:39`).
* `ResolutionEnds` (`Incremental` with `Pages = {p1, p2, r1}`, no databases,
  `PageTitles`, `PageParents`, `Orders1`): parents in the manifest are of different
  rounds; two documents that change places with an incremental round in between
  can each have the other for parent there, and childContext calls itself until the
  stack overflows (`incremental.go:228`).
* `RenamesAreCorrect` (`Incremental` with `Pages = {p1, p2, r1}`, `Rows = {}`, one change,
  `RivalTitles`, `RivalParents`): A and B have one title, so one of them is `X` and the
  other has an id in its name. The order of the search has changed, a full round is to
  exchange the names, and dies when A is at `X/README.md` and B's row still says
  `X.md`. In the next incremental round B has its first child: `leafToDirNode` makes
  `X/README.md` of `X.md` without asking who is there, A's body is renamed over
  (`incremental.go:339`, against `pipeline.go:234-235`), and B's row is refused.
* `LiveOutsideTrash` (`Incremental`, no faults): a page with a child is unshared and
  trashed, shared again, and found by an incremental round. `placeIncrementalNode` reuses
  the directory its row names, which is in the trash (`incremental.go:292`, against
  `layout.go:94-96`); the row is active there until a full round moves its body back.
* `MovesFollowed` and `AssetsFollow` (`References`): links between documents one of
  which waits for an asset are not followed, colliding swaps lose one, and the
  relative links to assets are not followed at all
  (`lifecycle.go:192-196`, `pipeline.go:234-235`, against `docs/dev/architecture.md:109`).
* `AbsentIsGone` (`FeishuWalk`): a document that is moved during the walk is missed
  and trashed (`pipeline.go:102-104` says that what is absent is "genuinely gone").
* `KeptUnlessForced` (`Setup`): two inits at once, the second replaces the first
  one's configuration without `--force` (`init.go:33-34`).

And seen in the code while modelling it, built into the models as exceptions or
abstractions:

* a pre-fetch skip at an unchanged path leaves the row's parent and title as they
  were; a database whose query fails has its rows rewritten without properties, and
  a page whose listing does not load its edit time is fetched anew and loses it in
  the row (`incremental.go:334-337`); a parent and its first child that are both new
  in one incremental round put the child into `_orphans`;
* the directory of a container that is renamed while empty is never swept, in spite
  of `pipeline.go:196-199`; a document that waits for an asset is never trashed; of two
  bodies of one name that are trashed on one day the second replaces the first;
* a page token that is missing although the answer has more ends a search silently;
* a missing Notion token stops the sync of Feishu, too (`sync.go:118-157`); doctor
  sees the operator's variables, launchd's sync does not (`doctor.go:212-215`).

## 14. What is proved

Assumptions are the named ones of each module, which say no more than what the
constants are. All proofs are about the unreduced `Spec`; `WatchedSpec` in `Disturbances` and
`ReportsSpec` in `Reports` are the same with the observers.

`ReconcileProofs`, for every number of documents, paths, revisions and faults:

* `TypeCorrect`: `TypeOK` is inductive only with `Control`, which ties `pc` to
  the document in hand: what is fetched, written or saved is of this round's
  inventory, what is doomed or being tombstoned is active and not in it.
  `TypeOKHolds` is its corollary.
* `TrashesOnlyAbsent`: an action property, from `Control` alone.
* `ManifestNotAhead`: `RowNotAhead` needs `Times`: edit times of a history
  ascend, the inventory's and the row's are those of some revision, and a draft
  is at least as recent as the inventory it will be saved with.

What rounds do with the mirror is proved three times, from an invariant of its own each:
of regular documents, of forced rounds, and as long as nothing was reported. None
assumes more than `ConstantsAssumption` and `AbsenceAssumption`.

* `BodyAlwaysKept`, `RoundsAlwaysFaithful`, `SkipsAlwaysSafe`, about `WatchedSpec`:
  `BodyKept`, `RoundIsFaithful` and `SkipsAreSafe` say something of a document only while
  it is `Regular`, which is not an assumption about the remote but a fact about the
  behaviour so far, of this document alone. Without any part of it they are false of the
  code (section 13 and `reconcile_collision`). The invariant has `Own(d, been[d])` for every
  regular document, whose places nobody else has had (`RegularOwn`), and of the others
  only where their files may lie (`Inhabited`). A step about another document, regular or not, moves and writes files at
  its own places only, and leaves it alone. Its heart is `Goods`: at the three paths where the next
  steps look for a body (the row's, the document's present one, the inventory's)
  there is nothing, or a file no older than the row that is whole when it has the
  row's text. `Kept` says that some file carries the document through every
  interruption, `Dated` and `Waits` tie the row and the files to the
  inventory, `Handled` follows the document in hand through fetch, write and save, and
  `Done` says what is true of it afterwards. A skip before the fetch is safe because
  the file is not older than the row, the row's edit time is the inventory's and
  nothing is newer than the inventory before the visit (`UnchangedFacts`); one
  after it because nothing is newer than what was fetched (`SameContentFacts`).
* `ForcedRoundAlwaysFaithful`: no assumption beyond the named ones of the module.
  `Tidy` says that places, rows and inventories have paths of their own (the rows by
  `UNIQUE(local_path)`), `Renewed(d)` that a forced round has written what it has
  passed. What it has written stays: its path is the row's and the inventory's, and
  neither another row nor another listed document has it (`RowPathIsSafe`).
* `CorruptionAlwaysReported`, about `ReportsSpec` and with no assumption either: from
  `Known`, which holds always, and `Sound`, which holds until something is reported
  or spoiled. `InPlace` says that every row has the file it stands for, `NoOrphans`
  that every file of the tree has such a row, both but for the path of the document
  in hand (`Busy`), onto which the walk may just have moved a file. The last link is
  `Caught`: when no other row has that path, what lies there is the document's own;
  when one has, the save is refused, and that is a report. A skip is right because
  edit times grow (`Strict`, `SkipIsRecent`).

`RoundsProofs`, for every number of documents, rounds and days:

* `NoSilentLoss` and `FinishedRoundCatchesUp`, for `SearchTime <= Window`: that
  a search fits in the safety window is the condition under which the
  checkpoint is right; a search that takes longer than five minutes loses edits
  made during it. The invariant `Inv` says what a round knows of each document
  its search has passed (`Passed`): it is listed with its current edit time, or
  it was edited since the search began, or the search rightly left it out. From
  this a finished round covers all documents (`Covered`), and when the run is
  recorded the checkpoint moves to `mark`, at most `SearchTime` after the start,
  so what was edited since the start is within `Window` of it. `NewCheckpoint`
  is the lemma about the newest dated row.
* `CadenceHolds`: the induction hypothesis is `Counted`: a round that was
  decided to be incremental saw a full one among the last `EveryRuns - 1`. It
  holds for `EveryRuns <= RecentRunLimit + 1`; with a larger value the streak that
  is read back is never long enough.
* `RoundsTypeCorrect`.

`PlacementProofs`, for every inventory:

* `SiblingsApart`: `NamesDistinct` from `NamesTaken` (the names of placed nodes
  are taken, finitely many are, `_orphans` is not before its folder is placed)
  and `ComponentIsFree`: by the pigeonhole principle (`ClaimIsFree`) the
  tie-breaker finds a free number, and no component is `_orphans`.
* `AllButCyclesPlaced`: `OnlyCyclesDropped` from `Agenda`: the children of a
  placed node are placed, or its call of `assignPaths` is under way.
* `PathsAreDistinct`: `PathsDistinct` from `PathInv`, which adds to that invariant that a
  placed node's directory is its parent's path (`Nested`), that a name is taken by
  one of the directory's nodes (`TakenByNodes`), and what a name's stem looks
  like (`WellNamed`). Two nodes with one path would have parents with one path, by
  `SiblingsApart`; the pair of the least depth has none (`PathsApart`).
* `PlainTitlesAreKept`: from `WellNamed`, in which the stem of every name is
  accounted for by its own title, so that no other document can have taken a
  title unlike all of theirs.
* `PlacementTypeCorrect`. `LeastNumber` and `LargestNumber` get the least and the
  greatest element of a set of numbers from the well-foundedness of finite sets.

`SetupAndEnumerationProofs` is about two components that share no state, which is why the
definitions of `Enumeration` carry its name. Of `Enumeration`, for every number of callers
and attempts, every interval and every tree of answers:

* `SlotsAreApart`: the bucket is an interval ahead of every slot it has given
  (`Ahead`), so the next one is apart from all of them, whoever was cancelled. It is
  about slots: after a late timer two requests may start closer together than that.
* `EnumerationImplementsCollection`: what is found, together with what the agenda
  still calls for, is all there is (`AnswerKeepsContents` for one answer); what has
  been received, together with what is still to be replayed, is what was found; and
  the channel of errors is not closed empty after a failure.
* `EnumerationTypeCorrect`.

Of `Setup`, for every set of configurations and worlds and every number of commands and
changes, assuming only its `ConstantsAssumption`:

* `RunsAsAskedAlways`, `NothingSkippedAlways`, `ScheduledAlwaysInitialized`: from `AskedInv`, which
  extends what is asked of a sync to what its causes must be: the file and what
  an init is about to rename onto it were asked for (`Asked`), and a
  `plist` is there only when there is a configuration.
* `ReadyAlwaysServed`: `SureInv` says what a sync that is still sure knows at each
  of its steps: while `ready` holds, doctor's probes are empty, and an empty
  report means that every need but the excepted ones is met (`NoProbeFails`, which
  compares the probes with the needs one by one). Every action that changes what
  a probe sees takes `ready` and `sure` away, those of other processes included.
* `TypeCorrect`.

`FeishuWalkProofs`, for every tree, every page size and every number of moves, assuming
`ConstantsAssumption` and `InitAssumption`:

* `RestingIsFoundAlways`: `WalkInv` says of every open listing (`FrameOK`) that its
  entries still hang where they were read or have moved, that what it has seen
  is an entry or found, that an entry above something that is still there will be
  walked, and that all was seen when no page is left; and of every node that was found
  or entered (`Covered`) that it has an open listing or its children that did not
  move are found. When the walk ends all that rests is found, by least height: the
  highest document missed would have a parent that was found (`WalkIsComplete`). The
  function `Climb` is unfolded step by step, and the least exception takes the place
  of an induction (`LeastException`).
* `OnlyMovedIsTrashed`: `TrashedMoved`, an action property, from that invariant.
* `TypeCorrect`.

`TrashProofs`, for every set of pages and names, every retention and every number of hours,
assuming `ConstantsAssumption` and `PathAssumption`:

* `TombstoneAlwaysHasBody`: between the two purges `RowsPurged` holds: a tombstone
  that is left is at most `KeepDays` old, since by the hour what is of an
  older day is due (`ElapsedFacts`); so the directories of days that are then removed
  hold none. Otherwise a rename keeps what is in the trash (`MoveFacts`).
* `RetentionAlwaysKept`: a day beyond the retention has had all its hours.
* `LiveBodiesAlwaysStay`: what is trashed is active and not listed, a mirrored page
  is where the inventory puts it (`Walked`, `Current`), and the inventory
  puts no page below a container that it does not list (`InventoryFacts`).
  Rows have paths of their own (`Unique`), so a page's body is not another's.

* `TrashTypes`: `TypeOK` from `Shaped`, which bounds the depth of files and directories:
  a move then makes the directories it needs and leaves none of the others, a
  directory that is trashed takes along what is in it, and a swept one is empty.

`ReferencesProofs`, for all documents, links, assets and paths and every number of changes and
faults, assuming `ReferencesAssumption` and `DestinationsAssumption`:

* `ReferencesTypes`: `TypeOK` from `Shape`, which adds what a mirrored row stands for: a body
  and the edges of its links (`Backed`).
* `UrlsAlwaysRewritten`: `UrlInv` says of every body that `rewriteLinks` has come to that it has no
  URL of an active document left.
* `ForcedRoundsRepair`: `RepairInv` follows a forced round through its phases; what it
  fetched has URLs for links and good assets until `rewriteLinks` makes the links good, too. That
  the fixup in between leaves such bodies alone is `FetchedIsNotSwapped`. The active
  documents that the round did not list are still to be trashed, or the guard tripped
  (`GuardInv`), and then it is true to the end of the round that it did.
* `LinksAlwaysFollow`: every link that is not astray is right for where its ends were when the
  round began, until the fixup comes to it, and from then on for where they are
  (`Holding`). `SwappedOnce`, about `AfterSwaps`, is the core: when no other swap takes or
  makes its destination, a link is changed by its own swap and by no other, in any order of
  the swaps. The proof takes the least index at which this fails (`LeastException`)
  in the place of an induction.

`IncrementalProofs`, for all documents, titles, parents and orders of enumeration, and every
number of changes and faults, assuming `ConstantsAssumption` and `NamesAssumption`. The
invariant is `Inv`, with three parts:

* `Typed`: the types of everything, with one fact the placement relies on: the last
  component of a row's path is a title of its document, with or without the id (`Own`).
* `OwnPaths(row)`: no two rows have one path (`UNIQUE(local_path)`).
* `WalkInv`, of a round that walks. A document has at most one node left
  (`NodesApart`). In an incremental round: what is left of the queue is what
  placement promised of it (`NodesDue`, which is `Due` for all nodes): a directory that is
  reused is the row's; a leaf that is converted keeps its place; anything else goes
  into the directory its parent's row names, under a name of its title (`Good`). As long as
  no failure is recorded, a document whose node is done lies where this says, and the
  others where they were (`Settled`). The nodes' paths are apart from each other's and from
  the live rows' (`NodesSeparate`, which needs `Orderly(before)`). And in both kinds of
  round, an edited row has its properties in its file, or its node waits, and its database
  was queried or waits in front of it (`RowsServed`).

The parts need each other: what a waiting node promises is a promise about `before`, and
becomes one about `row` only because the row of a document that waits is as it was
(`NodesDue`); what a move overwrites is settled by the waiting nodes' paths and the other
rows' together. TLC checked `Inv` as an invariant (two changes, no faults, 0.3 M states)
before it was proved.

What a round promises when it starts is the larger half of the proof, of `Placed`, `ByDepth` and
`Walks`. `Placed` is unfolded one turn at a time, the least exception taking the place of an
induction: names given in one directory differ from each other, since each is
claimed, and from those of the manifest (`SiblingUsed`). `ByDepth` rearranges the nodes,
and no property needs more of it: an incremental round asks its databases before the
walk. In `Walks`, for the full round, a database comes before its rows, as parents do.

* `PlacesAreKeptApart`: `PlacesStayApart` needs an invariant of its own besides `Inv`
  (`ApartInv`). In a full round without failures it is a choice of places, one for each
  enumerated document, no two equal, that nodes wait to give and rows have been given
  (`Given`); trashing the absent does not disturb it. That the nodes begin so is
  `TreeApart`: `TreePath` is injective. Its recursion is that of `Climb`; `TreeStep` shows
  that a document's place is its parent's and one name more, which holds because a walk,
  having parents first, is not shorter than any chain of parents (`AncestorsFirst`);
  siblings differ because the later of them knows the title of the earlier; and a
  least counterexample in the order of the walk has a parent that is one, too. In an
  incremental round the places of nodes are apart from each other's and from the
  rows' (`NodesOutside`), as the paths are in `NodesSeparate`.
* `NothingIsOverwritten`: `NothingOverwritten` from `NodesSeparate`: the only file a step
  replaces is at its node's path, which is no other live row's.
* `SubtreesAreKept`: `SubtreesStayWhole`, since a node of a document that is a directory reuses it
  and a conversion keeps it.
* `IncrementalPlacesLikeFull`: `PlacedLikeFull` is `Settled` at the end of the walk.
* `RowsHaveProperties`: `EditedRowsHaveProperties` from `RowsServed`.
* `TypeCorrect`.

Only model-checked is what is liveness, which is out of the provers' reach: `Convergence`,
`MissedComeBack`, `AbsentReclaimed`, `ProducerEnds` and the answer that `WholeOrError` promises.
Facts about recursive functions are proved by least exceptions throughout, since the
library's induction theorems take an operator as a parameter. Every safety property
that a passing run checks is the statement of a theorem.

## 15. Not modelled, and why

* Text conversion: Markdown extraction, rendering of properties, bitables,
  `INDEX.md`, `_index.md`, frontmatter and TOML syntax. It has no state.
* `status`, `resolve` and `schedule show`, which only read, and the wording of
  reports; doctor's probes of quotas and answer formats, which warn.
* Two rounds at once on one mirror: nothing prevents a scheduled and a manual
  sync from overlapping, no document says what should hold, and the states of two
  rounds are the square of `Reconcile`'s. Two platforms of one round share only
  the manifest, one connection, and the asset pool.
* `removeStaleBody`'s change of a document's type between container and page, schema migration.
* SQLite, launchd, lark-cli and the platforms appear only through what opendoc sees
  of them.

## 16. Left to do

Two rounds at once, when `Reconcile` has been abstracted far enough; the names of
`Incremental` replaced by those of `Placement`, so that one proof covers both; and what remains
true of the rows after a directory has returned from the trash, up to the next full round.
