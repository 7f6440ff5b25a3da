------------------------------ MODULE MCRounds ------------------------------
(* Small instances of Rounds for TLC. *)
EXTENDS Rounds, TLC

DocSymmetry == Permutations(Docs)

(* A round reads the clock when it is decided and started, and the remote in its
   search; changes of the remote before the search starts or after it has ended
   commute with the steps of the round, as does the clock once it walks. *)
MCNext ==
  /\ Next
  /\ remote' # remote => pc \in {"idle", "search"}
  /\ clock' # clock => pc \in {"idle", "decided", "search"}
MCSpec == Init /\ [][MCNext]_vars
=============================================================================
