---------------------------- MODULE MCIndexSync -----------------------------
(* IndexSync for TLC.                                                       *)
EXTENDS IndexSync, TLC

CONSTANTS far, near

IndexSymmetry == Permutations(Writers) \cup Permutations(IndexKeys) \cup Permutations(Builders)
(* A row in a partition before that of the item, and one in the same.       *)
Tokens == [r \in {far, near, Self} |-> IF r = far THEN 1 ELSE 2]

(* What one key's row goes through does not depend on the other keys, so an *)
(* image without the key is to it what the other key's is; and a put is an  *)
(* update that starts over as if it were new when it loses.                 *)
Distinct ==
    \A x \in Writers : w[x].pc \in {"read", "stamp", "lwt"} =>
        w[x].kind = "delete" \/ (w[x].kind # "put" /\ w[x].ik # NoKey)

(* After a gap or a skip the properties say nothing.                        *)
Open == ~gap /\ ~skip /\ Distinct
=============================================================================
