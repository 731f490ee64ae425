---------------------------- MODULE MCManagedFile ----------------------------
(* A small instance of ManagedFile for TLC. *)
EXTENDS ManagedFile, TLC

CONSTANTS x1, x2, x3

FileSymmetry == Permutations({x1, x2, x3})
=============================================================================
