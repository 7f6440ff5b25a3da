------------------------------ MODULE MCSetup -------------------------------
(* Small instances of Setup: two commands at a time; a machine where nothing is
   set up yet, and one where everything is. *)
EXTENDS Setup, TLC

CONSTANTS p, q

Ask(sources, notion) == [sources |-> sources, notion |-> notion, knobs |-> TRUE]

MCAsks == {Ask({"wiki", "drive"}, TRUE), Ask({"library"}, FALSE)}

Fresh ==
  [shell |-> Unset, file |-> Unset, auth |-> "noapp", granted |-> {},
   reach |-> {"wiki", "drive"}, visible |-> TRUE, writable |-> TRUE]

Prepared ==
  [Fresh EXCEPT !.file.token = "valid", !.shell.lark = "good", !.auth = "ready",
                !.granted = Scopes]

MCWorlds == {Fresh, Prepared}

ProcSymmetry == Permutations(Procs)
=============================================================================
