----------------------------- MODULE MCRestoreJob -----------------------------
(* Instances of RestoreJob for TLC.                                         *)
EXTENDS RestoreJob

MCBatches == 1 .. 2
=============================================================================
