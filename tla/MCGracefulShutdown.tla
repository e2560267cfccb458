---------------------------- MODULE MCGracefulShutdown ----------------------------
(* Instances of GracefulShutdown for TLC. *)
EXTENDS GracefulShutdown

MCClientOf == [r \in Results |-> "orchestrator"]

=============================================================================
