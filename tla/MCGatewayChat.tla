---------------------------- MODULE MCGatewayChat ----------------------------
(* Instances of GatewayChat for TLC. *)
EXTENDS GatewayChat
=============================================================================
