---------------------------- MODULE MCProxyPool ----------------------------
(* Instances of ProxyPool for TLC. *)
EXTENDS ProxyPool
=============================================================================
