------------------------------ MODULE MCTtlWork ------------------------------
(***************************************************************************)
(* Images and expiration times for the runs of TtlWork.                     *)
(***************************************************************************)
EXTENDS TtlWork

CONSTANTS a, c

\* a has expired, c expires later.
Ttls == [i \in Images |-> IF i = c THEN 2 ELSE 1]

\* Two directed searches.  Writes in the second generation only, without hosts.
SecondGeneration ==
    /\ faults = 0 /\ \A s \in Hosts : row[s].pc = "idle"
    /\ lastGen = 1 => \A w \in Writers : batch[w].pc = "idle"

\* One write in flight at a time, TTL stays enabled, and no pass runs.
OneAfterTheOther ==
    /\ gen = 1 /\ pass.kind = "none"
    /\ \A v, w \in Writers : batch[v].pc = "sent" /\ batch[w].pc = "sent" => v = w
=============================================================================
