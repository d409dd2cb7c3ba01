--------------------------- MODULE MCMigrationLock ---------------------------
(* Instances of MigrationLock for TLC.                                      *)
EXTENDS MigrationLock, TLC

LockSymmetry == Permutations(Locks)
=============================================================================
