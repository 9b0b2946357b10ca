----------------------------- MODULE MCHubAudit -----------------------------
(***************************************************************************)
(* The hub for TLC: configurations that differ in what a commit can change *)
(* under a handler: the target, the changes, the enabled flag, existence.  *)
(***************************************************************************)
EXTENDS HubAudit, TLC

CONSTANTS d1, d2, e1, e2, a1, taro, hanako, meal, snack, on, off

\* One action row changing a single state type.
Row(en, s, t, v) ==
  [enabled |-> en, scope |-> s, changes |-> [NoChanges EXCEPT ![t] = v]]

MealForTaro    == [families |-> {taro, hanako}, actions |-> a1 :> Row(TRUE, taro, meal, on)]
SnackForHanako == [families |-> {hanako}, actions |-> a1 :> Row(TRUE, hanako, snack, off)]
PostForAll     == [families |-> {}, actions |-> a1 :> Row(TRUE, Common, meal, off)]
Disabled       == [families |-> {taro}, actions |-> a1 :> Row(FALSE, taro, meal, on)]
FactoryReset   == [families |-> {}, actions |-> <<>>]

MCConfigs == {MealForTaro, SnackForHanako, PostForAll, Disabled, FactoryReset}
MCStates  == {meal, snack}
MCValues  == {on, off}
=============================================================================
