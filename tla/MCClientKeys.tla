---------------------------- MODULE MCClientKeys ----------------------------
(* Instances of ClientKeys for TLC. No liveness is checked: the handlers may *)
(* be exchanged.                                                             *)
EXTENDS ClientKeys, TLC

Symmetry == Permutations(Handlers)
=============================================================================
