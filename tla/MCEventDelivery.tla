--------------------------- MODULE MCEventDelivery ---------------------------
(* EventDelivery for TLC.                                                  *)
EXTENDS EventDelivery, TLC

CONSTANTS d1, a1, taro, meal, on, off

Row(v) == [enabled |-> TRUE, scope |-> taro, changes |-> [t \in StateType |-> v]]

OnOnly == [families |-> {taro}, actions |-> a1 :> Row(on)]

MCOneAction == {OnOnly}
MCEventIds == (1..MaxBoot) \X (1..MaxSequence)
MCStates == {meal}
MCValues == {on, off}
==============================================================================
