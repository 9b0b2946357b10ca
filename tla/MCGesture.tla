------------------------------ MODULE MCGesture ------------------------------
(* Every contact, bouncing or not, over MaxNow samples of one input. *)
EXTENDS Gesture
==============================================================================
