--------------------------- MODULE MCOfflineBackup ---------------------------
(* A small instance of OfflineBackup for TLC. *)
EXTENDS OfflineBackup

CONSTANTS k1, k2

=============================================================================
