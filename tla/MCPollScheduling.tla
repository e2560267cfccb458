---------------------------- MODULE MCPollScheduling ----------------------------
(* Instances of PollScheduling for TLC. *)
EXTENDS PollScheduling

=============================================================================
