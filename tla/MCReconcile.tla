----------------------------- MODULE MCReconcile -----------------------------
(* Small instances of Reconcile for TLC: two documents with two places each,
   their own or shared ones. *)
EXTENDS Reconcile, TLC

CONSTANTS d1, d2, a, b, c, e

MixedTitles  == (d1 :> {a, b}) @@ (d2 :> {c, a})
SharedTitles == [d \in Docs |-> Places]

\* Renaming places, and renaming documents, maps behaviours to behaviours.
SharedSymmetry == Permutations(Docs) \cup Permutations(Places)

(* The rounds read the remote when they start and when they fetch; a change of
   the remote between two such reads commutes with the steps in between, so it
   is enough to explore those that happen while the round is about to read. *)
ReadsNext == pc \in {"idle", "fetch"}
MCNext == Next /\ (remote' # remote => ReadsNext)
MCSpec == Init /\ [][MCNext]_vars
========================================================================================================
