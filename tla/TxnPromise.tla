------------------------------ MODULE TxnPromise ------------------------------
(***************************************************************************)
(* What TransactWriteItems promises, without markers, ledger and recovery:  *)
(* a call is decided once and for good; only a committed call changes items,*)
(* each item it is to change once; and the client is told the truth.        *)
(***************************************************************************)
CONSTANTS Keys, Txns, Items,
          Singles     \* single-item writes run beside the transactions

VARIABLES
    store,            \* the item of a key, as a reader of the table finds it
    outcome,          \* what was decided of a call
    due,              \* the keys a committed call is to change
    done,             \* the keys it has changed
    answer            \* what its client was told

vars == <<store, outcome, due, done, answer>>

Init ==
    /\ store \in [Keys -> Items]
    /\ outcome = [t \in Txns |-> "open"] /\ answer = [t \in Txns |-> "none"]
    /\ due = [t \in Txns |-> {}] /\ done = [t \in Txns |-> {}]

Commit(t) ==
    /\ outcome[t] = "open" /\ outcome' = [outcome EXCEPT ![t] = "committed"]
    /\ \E ks \in SUBSET Keys : due' = [due EXCEPT ![t] = ks]
    /\ UNCHANGED <<store, done, answer>>

(* A cancellation may be answered at once, later or, after a crash, never.  *)
Cancel(t) ==
    /\ outcome[t] = "open" /\ outcome' = [outcome EXCEPT ![t] = "cancelled"]
    /\ answer' \in {answer, [answer EXCEPT ![t] = "cancelled"]}
    /\ UNCHANGED <<store, due, done>>

Change(k) == \E x \in Items : store' = [store EXCEPT ![k] = x]

Apply(t) ==
    /\ outcome[t] = "committed"
    /\ \E k \in due[t] \ done[t] : Change(k) /\ done' = [done EXCEPT ![t] = @ \cup {k}]
    /\ UNCHANGED <<outcome, due, answer>>

Tell(t) ==
    /\ answer[t] = "none"
    /\ \/ outcome[t] = "committed" /\ done[t] = due[t]
       \/ outcome[t] = "cancelled"
    /\ answer' = [answer EXCEPT ![t] = outcome[t]]
    /\ UNCHANGED <<store, outcome, due, done>>

SingleWrite ==
    /\ Singles # {}
    /\ \E k \in Keys : Change(k)
    /\ UNCHANGED <<outcome, due, done, answer>>

Next == SingleWrite \/ \E t \in Txns : Commit(t) \/ Cancel(t) \/ Apply(t) \/ Tell(t)

Spec == Init /\ [][Next]_vars
=============================================================================
