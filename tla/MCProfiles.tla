------------------------------ MODULE MCProfiles ------------------------------
(* One instance of Reconcile, told apart by a profile that is chosen once: a
   document that moves, under two faults; two documents whose inventory may lose
   one of them, under one; and two that may want one path while all that disturbs
   a document may happen to the first. *)
EXTENDS MCReconcile, Disturbances

VARIABLE profile

(* "moves": d1 has two places and d2 is never shared. "inventory": each document
   has a place of its own. "disturbed": d2 may be given the place of d1, d1 comes
   back, is edited back or within a tick, or its file is edited.
   The documents are not both deleted by one change: when more
   than a fifth of the active inventory is deleted at once, the jitter guard puts
   the deletes off on every round for ever, and the mirror does not converge. *)
ProfileInit == WatchedInit /\ profile \in {"moves", "inventory", "disturbed"}
ProfileNext ==
  /\ MCNext /\ Watch
  /\ profile = "moves" => place'[d2] = Gone
  /\ profile # "moves" => /\ place'[d1] # b /\ faults' <= 1
                          /\ place' = place \/ \E d \in Docs : place'[d] # Gone
  /\ profile # "disturbed" => /\ place'[d2] # a /\ disturbed' = {}
                              /\ \A d \in Docs : Len(history'[d]) <= 2
  /\ profile = "disturbed" =>
       /\ ~force' /\ Len(history'[d2]) <= 1 /\ (place[d2] # Gone => place'[d2] # Gone)
       /\ faults' # faults => \E x \in Paths : Tamper(x)
       /\ ~Regular(d1) => history'[d1] = history[d1] /\ place'[d1] = place[d1]
       /\ Len(history'[d1]) = 3 => d1 \in disturbed'
  /\ UNCHANGED profile
ProfileSpec == ProfileInit /\ [][ProfileNext]_<<watchedVars, profile>> /\ WF_vars(Round)
=============================================================================
