--------------------------- MODULE MCResinRouting ---------------------------
(* Instances of ResinRouting for TLC. *)
EXTENDS ResinRouting, TLC

Symmetry == Permutations(Requests)
=============================================================================
