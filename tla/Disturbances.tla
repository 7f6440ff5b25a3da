----------------------------- MODULE Disturbances -----------------------------
(***************************************************************************)
(* Reconcile, and what has happened to each of its documents so far that an *)
(* unforced round cannot know of: did another document ever have one of its *)
(* paths, did it come back to a path where a file was left, did an edit     *)
(* bring back an earlier text or leave the edit time as it was, did anybody *)
(* edit its file?  Of any other document the properties here say that a     *)
(* round does with it what it should.                                       *)
(***************************************************************************)
EXTENDS Reconcile

VARIABLES
  been,      \* been[d]: the places d has had
  disturbed  \* documents that came back, whose text or time did, or that were tampered with

\* The document gets a place where there is a file that its row does not stand for.
ComesBack(d) ==
  /\ place'[d] \notin {place[d], Gone}
  /\ disk[Tree(place'[d])] # NoFile /\ row[d].path # Tree(place'[d])

\* The new revision has the edit time of the last one, or the text of one before.
Repeats(d) ==
  /\ history[d] # <<>> /\ history'[d] # history[d]
  /\ \/ Tip(d)'.edited = Tip(d).edited
     \/ \E i \in 1..Len(history[d]) : /\ history[d][i].body = Tip(d)'.body
                                      /\ Tip(d)'.body # Tip(d).body

TamperedWith(d) ==
  /\ pc = "idle" /\ pc' = "idle"
  /\ \E x \in Paths : disk[x] # NoFile /\ disk[x].doc = d /\ disk'[x] # disk[x]

Watch ==
  /\ been' = [d \in Docs |-> been[d] \cup ({place'[d]} \ {Gone})]
  /\ disturbed' = disturbed \cup {d \in Docs : ComesBack(d) \/ Repeats(d) \/ TamperedWith(d)}

WatchedInit == Init /\ been = [d \in Docs |-> {}] /\ disturbed = {}
watchedVars == <<vars, been, disturbed>>
WatchedSpec == WatchedInit /\ [][Next /\ Watch]_watchedVars

\* Nothing of the kind has happened to d, whatever has to others.
Regular(d) ==
  /\ d \notin disturbed
  /\ \A e \in Docs \ {d} : been[d] \cap been[e] = {}

-----------------------------------------------------------------------------
(* What was mirrored once is never lost: of every regular document with a row,
   trashed or not, some file in the tree or in the trash holds a text at least as
   recent as the row says, wherever a fault interrupted the rename, the write,
   the save or the trashing. *)
BodyKept ==
  \A d \in Docs : Regular(d) /\ row[d].status # "none" =>
    \E x \in Paths : /\ disk[x] # NoFile /\ disk[x].doc = d
                     /\ NotOlder(d, disk[x].body, row[d].edited)

(* A round has mirrored every regular document that it enumerated and does not
   report as failed, whatever earlier rounds left behind when they failed or
   died, and whatever becomes of the others. *)
RoundIsFaithful ==
  RoundDone => \A d \in Listed \ failed : Regular(d) => Faithful(d)

(* A skip is never a loss: whenever processNode leaves the file of a regular
   document as it is, before the fetch or after it, that file is the document's
   own and holds the text the row's hash stands for. *)
SkipsAreSafe ==
  [][\A d \in Docs :
       /\ Regular(d)
       /\ \/ d \in (todo \ todo') \ failed' /\ pc' \in {"walk", "save"}
          \/ d = cur /\ pc = "fetch" /\ pc' = "save"
       => LET file == disk'[Target(d)]
          IN  file # NoFile /\ file.doc = d /\ file.body = row[d].hash]_watchedVars

(* Whatever happened before, once the remote rests and when all documents are
   regular the mirror becomes equal to it: every shared document at its place
   with its last text, and no active document that is not shared. *)
Convergence ==
  <>[][FALSE]_remote => <>[]((\A d \in Docs : Regular(d)) => Settled)
=============================================================================
