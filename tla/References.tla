------------------------------ MODULE References ------------------------------
(***************************************************************************)
(* What the bodies of the mirror point to.  A fetched body has the URLs of  *)
(* the platform; processAssets makes those of assets relative when the body *)
(* is written, rewriteLinks those of documents at the end of every round,   *)
(* and fixupMovedLinks follows the documents that the round has moved       *)
(* (internal/engine/linkrewrite.go, lifecycle.go, assets.go).               *)
(*                                                                          *)
(* Which document a round lists, and where, is Placement's and              *)
(* Incremental's matter, and two documents with one path are Reconcile's:   *)
(* here a document moves to a path that no other one holds (Clear).         *)
(***************************************************************************)
EXTENDS Naturals, Sequences, FiniteSets, SequencesExt

CONSTANTS
  Docs,     \* documents of one platform
  Keys,     \* assets
  Targets,  \* Targets[d]: the documents that d's text links to
  Assets,   \* Assets[d]: the assets that d's text shows
  Paths,    \* of bodies: sequences of names
  Pool,     \* Pool[k]: the path of an asset's file
  Gone,     \* not shared; also the path of a document without row
  InTrash,  \* the path of a body in the trash
  Url,      \* a destination on the platform
  Forced,   \* may a round be a --full one: the values of e.full
  Stable,   \* number of further documents, active and listed, that no link concerns
  MaxChanges, MaxFaults

ASSUME ReferencesAssumption ==
  /\ IsFiniteSet(Docs) /\ Docs \cap Keys = {}
  /\ Targets \in [Docs -> SUBSET Docs] /\ Assets \in [Docs -> SUBSET Keys]
  /\ Gone \notin Paths /\ InTrash \notin Paths /\ Gone # InTrash
  /\ Forced \subseteq BOOLEAN /\ Stable \in Nat /\ MaxChanges \in Nat /\ MaxFaults \in Nat

VARIABLES
  place,   \* remote: where naming puts a document, or Gone
  dirty,   \* edited since its row was saved
  row,     \* manifest: status and path
  links,   \* manifest: edges from a document to one it links to
  pool,    \* assets that are downloaded
  at,      \* where the file of a document is, or Gone
  body,    \* the destinations in it, a function on Targets[d] \cup Assets[d]
  pc,      \* "idle", "walk", "reap", "fixup" or "rewrite"
  full, force, \* kind of the round: does it delete, does it skip nothing?
  listing, \* where its inventory puts the documents it lists
  todo,    \* documents that the loop under way has yet to come to
  moves,   \* moves[d]: the path d had before it was moved, or Gone
  failed,  \* has a failure been reported?
  astray,  \* history: links that a fixup has missed, see Missed
  changes, faults

remote == <<place, dirty>>
manifest == <<row, links, pool>>
bodies == <<at, body>>
round == <<pc, full, force, listing, todo, moves, failed>>
vars == <<remote, manifest, bodies, round, astray, changes, faults>>

-----------------------------------------------------------------------------
(* Relative destinations, as filepath.Rel gives them. *)
CommonPrefixLength(p, q) ==
  LET same == {n \in 0..Len(p) : n <= Len(q) /\ SubSeq(p, 1, n) = SubSeq(q, 1, n)}
  IN  CHOOSE n \in same : \A m \in same : m <= n

RelAsset(from, to) ==
  LET dir == Front(from)  n == CommonPrefixLength(dir, to)
  IN  [up |-> Len(dir) - n, down |-> SubSeq(to, n + 1, Len(to))]

\* A URL is absolute, and no document is called as a file of the pool, which is
\* named by its hash (contentPath).
ASSUME DestinationsAssumption ==
  \A p, q \in Paths :
    /\ RelAsset(p, q) # Url
    /\ \A k \in Keys : /\ RelAsset(p, Pool[k]) # Url
                       /\ \A o \in Paths : RelAsset(p, Pool[k]) # RelAsset(o, q)

Refs(d) == Targets[d] \cup Assets[d]
NoBody  == <<>>

\* Every destination that reads old becomes new, whatever it is for.
ReplaceLinkDest(b, old, new) == [r \in DOMAIN b |-> IF b[r] = old THEN new ELSE b[r]]

Active(d) == row[d].status = "active"
Pending(d) == row[d].status = "pending_assets"
Mirrored(d) == Active(d) \/ Pending(d)

Init ==
  /\ place \in [Docs -> Paths] /\ \A d, e \in Docs : place[d] = place[e] => d = e
  /\ dirty = [d \in Docs |-> TRUE]
  /\ row = [d \in Docs |-> [status |-> "none", path |-> Gone]] /\ links = {} /\ pool = {}
  /\ at = [d \in Docs |-> Gone] /\ body = [d \in Docs |-> NoBody]
  /\ pc = "idle" /\ full = FALSE /\ force = FALSE /\ listing = [d \in Docs |-> Gone]
  /\ todo = {} /\ moves = [d \in Docs |-> Gone] /\ failed = FALSE
  /\ astray = {} /\ changes = 0 /\ faults = 0

Fault == faults < MaxFaults /\ faults' = faults + 1

\* The remote changes between rounds.
Change ==
  /\ pc = "idle" /\ changes < MaxChanges /\ changes' = changes + 1
  /\ \E d \in Docs :
       \/ dirty' = [dirty EXCEPT ![d] = TRUE] /\ UNCHANGED place
       \/ /\ UNCHANGED dirty
          /\ \E x \in (Paths \ {place[e] : e \in Docs}) \cup {Gone} :
               x # place[d] /\ place' = [place EXCEPT ![d] = x]
  /\ UNCHANGED <<manifest, bodies, round, astray, faults>>

-----------------------------------------------------------------------------
(***************************************************************************)
(* The walk.  A full round lists all that is shared, an incremental one     *)
(* some of it.                                                              *)
(***************************************************************************)
Holds(d, x) == x \in Paths /\ (at[d] = x \/ (Mirrored(d) /\ row[d].path = x))

\* Some order of the walk has every path vacated before it is taken.
Orderly(l) ==
  ~\E S \in SUBSET {d \in Docs : l[d] # Gone} :
     /\ S # {}
     /\ \A d \in S : \E e \in Docs \ {d} : Holds(e, l[d]) /\ (e \in S \/ l[e] = Gone)

Begin ==
  /\ pc = "idle" /\ pc' = "walk"
  /\ full' \in BOOLEAN /\ force' \in Forced /\ (force' => full')
  /\ \E L \in SUBSET {d \in Docs : place[d] # Gone} :
       /\ full' => L = {d \in Docs : place[d] # Gone}
       /\ listing' = [d \in Docs |-> IF d \in L THEN place[d] ELSE Gone]
       /\ todo' = L
  /\ Orderly(listing')
  /\ moves' = [d \in Docs |-> Gone] /\ failed' = FALSE
  /\ UNCHANGED <<remote, manifest, bodies, astray, changes, faults>>

Clear(d) == \A e \in Docs \ {d} : ~Holds(e, listing[d])

\* The next node is d; its file follows it if the row has another path.
At(d) == pc = "walk" /\ d \in todo /\ Clear(d)
Relocated(d) == Mirrored(d) /\ row[d].path # listing[d]
Followed(d) == IF Relocated(d) /\ at[d] = row[d].path THEN listing[d] ELSE at[d]
Moves(d) == IF Relocated(d) THEN [moves EXCEPT ![d] = row[d].path] ELSE moves

\* (mutant of Save) the row keeps its path.
SaveInPlace(d, status) ==
  /\ row' = [row EXCEPT ![d].status = status]
  /\ dirty' = [dirty EXCEPT ![d] = FALSE]

Save(d, status) ==
  /\ row' = [row EXCEPT ![d] = [status |-> status, path |-> listing[d]]]
  /\ dirty' = [dirty EXCEPT ![d] = FALSE]

Skip(d) ==
  /\ At(d) /\ ~force /\ Active(d) /\ ~dirty[d] /\ Followed(d) = listing[d]
  /\ at' = [at EXCEPT ![d] = Followed(d)] /\ moves' = Moves(d)
  /\ Save(d, "active") /\ todo' = todo \ {d}
  /\ UNCHANGED <<place, links, pool, body, pc, full, force, listing, failed, astray, changes, faults>>

\* The text was edited, but is what it was: the body stays.
HashSkip(d) ==
  /\ At(d) /\ ~force /\ Active(d) /\ dirty[d] /\ Followed(d) = listing[d]
  /\ Assets[d] \subseteq pool
  /\ at' = [at EXCEPT ![d] = Followed(d)] /\ moves' = Moves(d)
  /\ links' = links \cup ({d} \X Targets[d])
  /\ Save(d, "active") /\ todo' = todo \ {d}
  /\ UNCHANGED <<place, pool, body, pc, full, force, listing, failed, astray, changes, faults>>

\* (mutant of Fresh) asset paths start from where the body was.
FreshFromOld(d, have) ==
  [r \in Refs(d) |->
     IF r \in Assets[d] \cap have
     THEN RelAsset(IF Relocated(d) THEN row[d].path ELSE listing[d], Pool[r]) ELSE Url]

\* What is written: URLs of documents, and of the assets that are not there.
Fresh(d, have) ==
  [r \in Refs(d) |-> IF r \in Assets[d] \cap have THEN RelAsset(listing[d], Pool[r]) ELSE Url]

\* A fetch downloads the assets that the pool lacks, some of them in vain.
Fetch(d, have) ==
  /\ At(d) /\ (force \/ ~Active(d) \/ dirty[d] \/ Followed(d) # listing[d])
  /\ pool \subseteq have /\ have \subseteq pool \cup Assets[d]
  /\ pool' = have
  /\ links' = links \cup ({d} \X Targets[d])
  /\ at' = [at EXCEPT ![d] = listing[d]] /\ body' = [body EXCEPT ![d] = Fresh(d, have)]
  /\ astray' = {l \in astray : l[1] # d}
  /\ moves' = Moves(d) /\ todo' = todo \ {d}
  /\ UNCHANGED <<place, pc, full, force, listing, changes>>

Write(d, have) ==
  /\ Fetch(d, have)
  /\ Save(d, IF Assets[d] \subseteq have THEN "active" ELSE "pending_assets")
  /\ IF Assets[d] \subseteq have THEN UNCHANGED faults ELSE Fault
  /\ UNCHANGED failed

\* No other document waits for a path that d will not leave.
Unawaited(d) == \A e \in todo \ {d} : ~Holds(d, listing[e])

\* The row is not saved; or the document is not fetched, before or after its
\* file was moved.
FailSave(d) ==
  /\ Fetch(d, pool) /\ Unawaited(d) /\ Fault /\ failed' = TRUE
  /\ UNCHANGED <<dirty, row>>
FailFetch(d) ==
  /\ At(d) /\ Unawaited(d) /\ Fault /\ failed' = TRUE /\ todo' = todo \ {d}
  /\ \/ UNCHANGED <<at, moves>>
     \/ at' = [at EXCEPT ![d] = Followed(d)] /\ moves' = Moves(d)
  /\ UNCHANGED <<remote, manifest, body, pc, full, force, listing, astray, changes>>

\* belowJitterThreshold: 0.8 of the active documents, in integers.
BelowJitterThreshold(enumCount, activeCount) ==
  activeCount > 0 /\ 5 * enumCount < 4 * activeCount

JitterGuard ==
  BelowJitterThreshold(Cardinality({d \in Docs : listing[d] # Gone}) + Stable,
                       Cardinality({d \in Docs : Active(d)}) + Stable)

\* Nothing is trashed by a round that has lost more than a fifth of the active
\* documents; it goes on to the links.
BeginDeletes ==
  /\ pc = "walk" /\ todo = {} /\ pc' = "reap"
  /\ todo' = IF full /\ ~JitterGuard THEN {d \in Docs : Active(d) /\ listing[d] = Gone} ELSE {}
  /\ UNCHANGED <<remote, manifest, bodies, full, force, listing, moves, failed, astray, changes, faults>>

\* The first move of a round gives the old path.
Trash(d) ==
  /\ pc = "reap" /\ d \in todo /\ todo' = todo \ {d}
  /\ row' = [row EXCEPT ![d] = [status |-> "trashed", path |-> InTrash]]
  /\ at' = [at EXCEPT ![d] = IF at[d] = row[d].path THEN InTrash ELSE at[d]]
  /\ moves' = [moves EXCEPT ![d] = IF moves[d] = Gone THEN row[d].path ELSE moves[d]]
  /\ UNCHANGED <<remote, links, pool, body, pc, full, force, listing, failed, astray, changes, faults>>

-----------------------------------------------------------------------------
(***************************************************************************)
(* finalizeLinks.                                                           *)
(***************************************************************************)
OldPath(d) == IF moves[d] # Gone THEN moves[d] ELSE row[d].path

\* (mutant of Concerned) only documents that point to what has moved.
TargetsMoved(d) == {t \in Docs : <<d, t>> \in links /\ Active(d) /\ Active(t) /\ moves[t] # Gone}

\* The targets of d whose links may have to change: d or they have moved.
Concerned(d) ==
  {t \in Docs : /\ <<d, t>> \in links /\ Active(d) /\ Active(t)
                /\ moves[d] # Gone \/ moves[t] # Gone}
OldRel(d, t) == RelAsset(OldPath(d), OldPath(t))
NewRel(d, t) == RelAsset(row[d].path, row[t].path)
Swaps(d) == {t \in Concerned(d) : OldRel(d, t) # NewRel(d, t)}

\* The links of d that this round does not bring to their targets: targets that
\* are trashed or wait for an asset are not followed, a body that is not where
\* its row says is not found, and one swap takes what another has made, or what
\* another is for.
Missed(d) ==
  {t \in Docs :
     /\ <<d, t>> \in links
     /\ \/ /\ moves[d] # Gone \/ moves[t] # Gone
           /\ ~Active(t) \/ at[d] # row[d].path
        \/ /\ Mirrored(t)
           /\ \E u \in Swaps(d) \ {t} : OldRel(d, u) \in {OldRel(d, t), NewRel(d, t)}}

BeginFixup ==
  /\ pc = "reap" /\ todo = {} /\ pc' = "fixup" /\ todo' = {d \in Docs : Swaps(d) \cup Missed(d) # {}}
  /\ UNCHANGED <<remote, manifest, bodies, full, force, listing, moves, failed, astray, changes, faults>>

\* The body after each of the swaps.
AfterSwaps(d, order) ==
  LET after[i \in 0..Len(order)] ==
        IF i = 0 THEN body[d]
        ELSE ReplaceLinkDest(after[i - 1], OldRel(d, order[i]), NewRel(d, order[i]))
  IN  after

Swapped(d, order) == AfterSwaps(d, order)[Len(order)]

Fixup(d) ==
  /\ pc = "fixup" /\ d \in todo /\ todo' = todo \ {d}
  /\ \/ /\ at[d] = row[d].path
        /\ \E order \in SetToSeqs(Swaps(d)) : body' = [body EXCEPT ![d] = Swapped(d, order)]
        /\ astray' = astray \cup ({d} \X Missed(d))
        /\ UNCHANGED <<failed, faults>>
     \/ /\ at[d] # row[d].path
        /\ astray' = astray \cup ({d} \X Missed(d))
        /\ UNCHANGED <<body, failed, faults>>
     \/ /\ Swaps(d) # {} /\ Fault /\ failed' = TRUE
        /\ astray' = astray \cup ({d} \X (Missed(d) \cup Swaps(d)))
        /\ UNCHANGED body
  /\ UNCHANGED <<remote, manifest, at, pc, full, force, listing, moves, changes>>

BeginRewrite ==
  /\ pc = "fixup" /\ todo = {} /\ pc' = "rewrite"
  /\ todo' = {l[1] : l \in links}
  /\ UNCHANGED <<remote, manifest, bodies, full, force, listing, moves, failed, astray, changes, faults>>

\* (mutant of Resolved) only targets that this round has listed.
ResolvedNow(t) == Active(t) /\ listing[t] # Gone

\* ResolveLinkTarget
Resolved(t) == Active(t)

Rewritten(d) ==
  [r \in DOMAIN body[d] |->
     IF r \in Targets[d] /\ body[d][r] = Url /\ Resolved(r)
     THEN RelAsset(row[d].path, row[r].path) ELSE body[d][r]]

Rewrite(d) ==
  /\ pc = "rewrite" /\ d \in todo /\ todo' = todo \ {d}
  /\ \/ /\ Active(d) /\ at[d] = row[d].path
        /\ body' = [body EXCEPT ![d] = Rewritten(d)]
        /\ UNCHANGED <<failed, faults>>
     \/ /\ ~(Active(d) /\ at[d] = row[d].path)
        /\ UNCHANGED <<body, failed, faults>>
     \/ Fault /\ failed' = TRUE /\ UNCHANGED body
  /\ UNCHANGED <<remote, manifest, at, pc, full, force, listing, moves, astray, changes>>

Rest ==
  /\ pc' = "idle" /\ full' = FALSE /\ force' = FALSE /\ listing' = [d \in Docs |-> Gone]
  /\ todo' = {} /\ moves' = [d \in Docs |-> Gone] /\ failed' = FALSE

Finish ==
  /\ pc = "rewrite" /\ todo = {} /\ Rest
  /\ UNCHANGED <<remote, manifest, bodies, astray, changes, faults>>

\* The moves of a round that dies, or whose deletes fail, are forgotten.
Die ==
  /\ pc # "idle" /\ Fault /\ Rest
  /\ astray' = astray \cup
       (IF pc = "rewrite" THEN {}
        ELSE {l \in links : /\ pc = "fixup" => l[1] \in todo
                            /\ moves[l[1]] # Gone \/ moves[l[2]] # Gone})
  /\ UNCHANGED <<remote, manifest, bodies, changes>>

Next ==
  \/ Change \/ Begin \/ BeginDeletes \/ BeginFixup \/ BeginRewrite \/ Finish \/ Die
  \/ \E d \in Docs :
       \/ Skip(d) \/ HashSkip(d) \/ FailSave(d) \/ FailFetch(d)
       \/ \E have \in SUBSET Keys : Write(d, have)
       \/ Trash(d) \/ Fixup(d) \/ Rewrite(d)

Spec == Init /\ [][Next]_vars

-----------------------------------------------------------------------------
(***************************************************************************)
(* Properties.                                                              *)
(***************************************************************************)
TypeOK ==
  /\ \A d \in Docs :
       /\ row[d].status \in {"none", "active", "pending_assets", "trashed"}
       /\ row[d].status = "none" => row[d].path = Gone
       /\ row[d].status = "trashed" => row[d].path = InTrash
       /\ Mirrored(d) => row[d].path \in Paths
       /\ at[d] \in Paths \cup {Gone, InTrash}
       /\ DOMAIN body[d] = IF at[d] = Gone THEN {} ELSE Refs(d)
       /\ moves[d] \in Paths \cup {Gone}
  /\ links \subseteq Docs \X Docs /\ astray \subseteq links /\ pool \subseteq Keys
  /\ pc \in {"idle", "walk", "reap", "fixup", "rewrite"} /\ todo \subseteq Docs

(* A link that was once made relative follows its two ends through renames and
   reparenting, in full and incremental rounds, also when a document failed in
   between, except for the ways named in Missed and Die. *)
LinksFollow ==
  pc = "idle" =>
    \A l \in links : LET d == l[1]  t == l[2] IN
      Active(d) /\ Active(t) /\ t \in DOMAIN body[d] =>
        body[d][t] \in {Url, NewRel(d, t)} \/ l \in astray

(* No URL of an active document survives in an active one a round that reports
   no failure, however long before or after the document its target was mirrored,
   and whatever rounds died before. *)
UrlsRewritten ==
  [][pc = "rewrite" /\ todo = {} /\ ~failed =>
       \A l \in links : LET d == l[1]  t == l[2] IN
         Active(d) /\ Active(t) /\ at[d] = row[d].path => body[d][t] # Url]_vars

\* The body is where its row says, and its links to active documents and its
\* assets resolve from there.
Repaired(d) ==
  /\ at[d] = row[d].path
  /\ \A t \in Targets[d] : Active(t) => body[d][t] = NewRel(d, t)
  /\ \A k \in Assets[d] : body[d][k] = RelAsset(row[d].path, Pool[k])

(* Whatever earlier rounds have left astray, a --full round without failures
   repairs every active document that it listed, and there are others only when
   the jitter guard has kept it from trashing them: these it may leave as they
   are. *)
ForcedRoundRepairs ==
  [][pc = "rewrite" /\ todo = {} /\ force /\ ~failed =>
       \A d \in Docs : Active(d) =>
         \/ listing[d] # Gone /\ Repaired(d)
         \/ listing[d] = Gone /\ JitterGuard]_vars

(* "When a link that has already been rewritten to a relative path later has its
   endpoint move, fixupMovedLinks recomputes the old/new relative paths from the
   links table and replaces it": without faults, links between documents that
   have stayed shared are right after every round. *)
MovesFollowed ==
  pc = "idle" =>
    \A l \in links : LET d == l[1]  t == l[2] IN
      Active(d) /\ Active(t) => body[d][t] \in {Url, NewRel(d, t)}

(* "every descendant node relocates its own body file the same way, so a plain
   rename of the single body file is always correct here": the assets of a body
   are found from where it was moved to. *)
AssetsFollow ==
  pc = "idle" =>
    \A d \in Docs : Active(d) /\ at[d] = row[d].path =>
      \A k \in Assets[d] : body[d][k] \in {Url, RelAsset(row[d].path, Pool[k])}
=============================================================================
