---------------------------- MODULE MCUpdateStore ---------------------------
(* Small instances of UpdateStore for TLC. *)
EXTENDS UpdateStore, TLC

PackageSymmetry == Permutations(Packages)
============================================================================
