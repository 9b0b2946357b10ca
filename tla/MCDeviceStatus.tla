---------------------------- MODULE MCDeviceStatus ----------------------------
(* DeviceStatus for TLC.                                                    *)
EXTENDS DeviceStatus
CONSTANTS d1, d2
==============================================================================
