---------------------------- MODULE MCPowerFeed ----------------------------
(* Instances of PowerFeed for TLC. *)
EXTENDS PowerFeed

MCConfigured == {"house", "servers"}
=============================================================================
