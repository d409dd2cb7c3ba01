----------------------------- MODULE MCBackupJob -----------------------------
(* Instances of BackupJob for TLC.                                          *)
EXTENDS BackupJob, TLC

MCObjects == 1 .. 2
ReconcilerSymmetry == Permutations(Reconcilers)
=============================================================================
