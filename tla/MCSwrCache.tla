----------------------------- MODULE MCSwrCache -----------------------------
(* Instances of SwrCache for TLC.                                           *)
EXTENDS SwrCache, TLC

(* Callers and refresh tasks are interchangeable; the CHOOSEs of the module *)
(* pick keys and identities only.                                           *)
TaskSymmetry == Permutations(Readers) \cup Permutations(Refreshers)
=============================================================================
