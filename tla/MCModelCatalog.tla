--------------------------- MODULE MCModelCatalog ---------------------------
(* Instances of ModelCatalog for TLC. *)
EXTENDS ModelCatalog, TLC

Symmetry == Permutations(Handlers)
=============================================================================
