------------------------------- MODULE MCTrash -------------------------------
(* Small instances of Trash: one page, or two of the same name, in a container
   that is renamed, deleted and restored. *)
EXTENDS Trash

CONSTANTS c, e, title

SameName == [d \in Pages |-> title]
=============================================================================
