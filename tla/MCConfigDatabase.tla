--------------------------- MODULE MCConfigDatabase ---------------------------
(* ConfigDatabase for TLC.                                                 *)
EXTENDS ConfigDatabase

CONSTANTS f1, f2, a1, meal, cdc, app

For(f)   == [type |-> "FAMILY", family |-> f]
ForAll   == [type |-> "COMMON", family |-> None]

Action(target, targets) ==
  [id |-> a1, target |-> target, changes |-> <<meal>>, targets |-> targets]

\* Valid; with a notification target twice, which only the schema refuses; with
\* a family that is not in it, which validate_config refuses.
Full     == [families |-> <<f1, f2>>, actions |-> <<Action(For(f1), <<f2>>)>>,
             destinations |-> <<f1, f2>>]
Repeated == [Full EXCEPT !.actions = <<Action(ForAll, <<f1, f1>>)>>]
Dangling == [Full EXCEPT !.families = <<f1>>]

MCConfigs == {Full, Repeated, Dangling}
MCRows == {[target |-> ForAll, changes |-> {}, targets |-> {f1}]}
==============================================================================
