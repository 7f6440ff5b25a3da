-------------------------------- MODULE Reports --------------------------------
(***************************************************************************)
(* Reconcile, and what is known of its rounds so far: was any of them cut   *)
(* short or did it report a failure, and was anything done to the mirror or *)
(* to an edit time that an unforced round cannot see?                       *)
(***************************************************************************)
EXTENDS Reconcile

VARIABLES reported, spoiled

\* A local edit, or an edit that does not change the edit time.
Spoils ==
  \/ pc = "idle" /\ pc' = "idle" /\ disk' # disk
  \/ \E d \in Docs : history'[d] # history[d] /\ history[d] # <<>> /\ Tip(d)'.edited = Tip(d).edited

\* Stats.Failures, a round that returns an error, a process that dies.
Reported ==
  \/ failed' # {}
  \/ Crash
  \/ pc \in {"reap", "tombstone"} /\ AbortRound

Observe ==
  /\ reported' = (reported \/ Reported)
  /\ spoiled' = (spoiled \/ Spoils)

ReportsInit == Init /\ reported = FALSE /\ spoiled = FALSE
ReportsSpec == ReportsInit /\ [][Next /\ Observe]_<<vars, reported, spoiled>>

(* Documents may want one path (a rename onto a path that another document is
   leaving, a deleted document's path taken over): as long as no failure was
   ever reported, no round died and nobody tampered, what a round did is right. *)
CorruptionIsReported ==
  RoundDone /\ ~reported /\ ~spoiled => \A d \in Listed : Faithful(d)
=============================================================================
