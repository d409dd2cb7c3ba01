--------------------------- MODULE MCRegistrations ---------------------------
(* Instances of Registrations for TLC.                                      *)
EXTENDS Registrations

CONSTANTS s1, r1, r2, r3, m1, m2

MCOwner == [r \in Regs |-> s1]
=============================================================================
