---------------------------- MODULE MCFeishuWalk -----------------------------
(* Small instances of FeishuWalk: a page below another in the wiki, two files
   in a folder of the drive. *)
EXTENDS FeishuWalk

CONSTANTS a, b, e, g, f

MCSources == <<Wiki, Drive>>
MCParent == [d \in Docs |-> CASE d = a -> Wiki [] d = b -> a [] d \in {e, g} -> f [] d = f -> Drive]
=============================================================================
