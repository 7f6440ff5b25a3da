------------------------------- MODULE MCShared -------------------------------
(* Reports with two unedited documents for two places and unforced rounds, or one
   document with all that a forced round repairs. *)
EXTENDS MCReconcile, Reports

VARIABLE profile

Contended ==
  /\ ~Spoils /\ ~force' /\ \A d \in Docs : Len(history'[d]) <= 1
  /\ faults' # faults => pc = "idle" \/ (pc = "fetch" /\ cur \in failed')
Alone == Cardinality({d \in Docs : history'[d] # <<>>}) <= 1

SharedInit == ReportsInit /\ profile \in {"contended", "alone"}
SharedNext ==
  /\ MCNext
  /\ profile = "contended" => Contended
  /\ profile = "alone" => Alone
  /\ Observe
  /\ UNCHANGED profile
SharedSpec == SharedInit /\ [][SharedNext]_<<vars, reported, spoiled, profile>>
=============================================================================
