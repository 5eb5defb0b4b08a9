--------------------------- MODULE MCRuntimeCache ---------------------------
(* Instances of RuntimeCache for TLC. *)
EXTENDS RuntimeCache
=============================================================================
