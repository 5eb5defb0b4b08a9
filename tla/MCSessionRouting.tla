-------------------------- MODULE MCSessionRouting --------------------------
(* Instances of SessionRouting for TLC. *)
EXTENDS SessionRouting, TLC

CONSTANTS k1, l1

OneLock == (k1 :> l1)
=============================================================================
