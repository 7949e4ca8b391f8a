---------------------------- MODULE MCHeartbeats ----------------------------
(***************************************************************************)
(* Small instances of Heartbeats for TLC.                                  *)
(***************************************************************************)
EXTENDS Heartbeats, TLC

CONSTANTS a1, a2, h1, h2, h3, w1, x1

OfAgent == [j \in Jobs |-> IF j = h3 THEN a2 ELSE a1]
Kind == [j \in Jobs |-> CASE j = w1 -> "watch" [] j = x1 -> "free" [] OTHER -> "heartbeat"]
=============================================================================
