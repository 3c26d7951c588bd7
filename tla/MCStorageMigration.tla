--------------------------- MODULE MCStorageMigration ---------------------------
(***************************************************************************)
(* StorageMigration for TLC: the workers are interchangeable.              *)
(***************************************************************************)
EXTENDS StorageMigration, TLC

Symmetry == Permutations(Workers)
=============================================================================
