------------------------------ MODULE Collection ------------------------------
(***************************************************************************)
(* What the engine relies on when it collects an inventory: it gets one     *)
(* answer, and that is all there is or an error.                            *)
(***************************************************************************)
CONSTANTS Whole, Error, Nothing

VARIABLE answer

Init == answer = Nothing
Next == answer = Nothing /\ answer' \in {Whole, Error}

Spec     == Init /\ [][Next]_answer
FairSpec == Spec /\ WF_answer(Next)
=============================================================================
