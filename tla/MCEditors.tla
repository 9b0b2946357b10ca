------------------------------ MODULE MCEditors ------------------------------
(* Two numbers from 1 in every table and number 0 for an action; at the start there is a
   family and an action about none, with number 0. *)
EXTENDS Editors

CONSTANT a

MCSection == {"families", "actions", "destinations"}
MCName == {a}
MCStart ==
  {[s \in MCSection |->
      [n \in CASE s = "families" -> {1} [] s = "actions" -> {0} [] s = "destinations" -> {} |-> a]]}
==============================================================================
