---------------------------- MODULE MCSdkBridge ----------------------------
(***************************************************************************)
(* Small instances of SdkBridge for TLC.                                   *)
(***************************************************************************)
EXTENDS SdkBridge, TLC

CONSTANTS c1, c2
=============================================================================
