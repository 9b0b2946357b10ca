---------------------------- MODULE MCNodeSettings ----------------------------
(* Two settings a host may save, one that validate() refuses, the defaults. *)
EXTENDS NodeSettings

CONSTANTS kitchen, bedroom, broken, factory

MCDeviceId(c) == c  \* every configuration names its device differently
==============================================================================
