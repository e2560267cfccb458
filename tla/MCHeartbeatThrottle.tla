--------------------------- MODULE MCHeartbeatThrottle ---------------------------
(***************************************************************************)
(* Instances of HeartbeatThrottle for TLC: three spawned tasks beside the  *)
(* manager, enough for two changes in flight and a delayed heartbeat.      *)
(***************************************************************************)
EXTENDS HeartbeatThrottle

=============================================================================
