------------------------------- MODULE CassTxn -------------------------------
(***************************************************************************)
(* TransactWriteItems on Cassandra (crates/storage-cassandra,               *)
(* data/transactions.rs and data/transaction_ledger.rs), with what shares   *)
(* its rows: the recovery worker (workers.rs) and single-item writes        *)
(* (put_get_item.rs, update_item.rs, delete_item.rs).                       *)
(*                                                                         *)
(* A coordinator writes a ledger entry, marks every row with a lightweight  *)
(* transaction (LWT), saves the post-images in the ledger, moves it to      *)
(* COMMITTING and then writes row by row; it may stop at any await.  Every  *)
(* query is a step, except that a read of a row the transaction has fenced  *)
(* and the LWT that follows it are one: nobody else may change that row.    *)
(*                                                                         *)
(* An item is the set of the writers whose attributes it carries: a Put     *)
(* replaces the set, an Update adds to it.                                  *)
(***************************************************************************)
EXTENDS Integers, Sequences, FiniteSets

CONSTANTS
    Keys,           \* primary keys, in the order of prepare_order_key
    PartitionOf,    \* the partition of a key
    Txns,           \* TransactWriteItems calls
    Requests,       \* the operation lists a call may carry
    Recoverers,     \* recovery workers, one per server process
    Singles,        \* single-item writes
    SingleOps,      \* the operations a single-item write may carry
    MaxRecoveryErrors,  \* bound: passes of recovery that fail half way
    EarlyRecovery,  \* TRUE: recovery may pick up a transaction still running
    None, NoItem

Partitions == {PartitionOf[k] : k \in Keys}
Kinds == {"put", "update", "trim", "delete", "check"}   \* trim: an Update that only removes
Conditions == {"none", "exists", "absent", "any"}       \* any: holds on every image
Op == [key : Keys, kind : Kinds, cond : Conditions]

ASSUME TxnAssumption ==
    /\ Keys \subseteq Nat
    /\ PartitionOf \in [Keys -> Nat]
    /\ None \notin Txns
    /\ \A x \in SUBSET (Txns \cup Singles) : x # NoItem
    /\ \A q \in Requests : q \in Seq(Op) /\ \A i, j \in DOMAIN q : q[i].key = q[j].key => i = j
    /\ SingleOps \subseteq Op
    /\ MaxRecoveryErrors \in Nat /\ EarlyRecovery \in BOOLEAN

VARIABLES
    \* one base row per key
    live,      \* the row exists (it may hold no item)
    item,      \* item_data
    prep,      \* prepared_txn_id
    ctp,       \* created_to_prepare
    last,      \* last_committed_txn_timestamp, 0 for null
    ver,       \* version
    pmax,      \* partition_max_delete_timestamp of a partition, 0 for null
    clock,     \* the servers' clock; every write gets a later version
    \* the ledger entry of a transaction
    ledger,    \* its state, "none" when there is no entry
    started,   \* started_at is set: the recovery scan can find the entry
    \* the coordinator of a transaction
    pc, req, ts,
    todo,      \* operations PREPARE has not processed
    failed,    \* some operation has a cancellation reason
    seen,      \* `existing` of the operation being prepared
    image,     \* post-images computed by PREPARE
    pos,       \* next operation of COMMIT or ROLLBACK, in request order
    answer,    \* what the client was told
    \* the others
    rec,       \* recovery workers
    recErrors, \* passes that failed so far
    single,    \* single-item writes
    \* history
    committed, \* the item of a key according to the writes that took effect
    applied,   \* operations of a transaction that took effect
    outrun     \* operations whose row another write changed between read and marker

rowVars == <<live, item, prep, ctp, last, ver>>
ledgerVars == <<ledger, started>>
prepareVars == <<req, ts, todo, failed, seen, image>>
historyVars == <<committed, applied, outrun>>
recVars == <<rec, recErrors>>
vars == <<live, item, prep, ctp, last, ver, pmax, clock, ledger, started,
          pc, req, ts, todo, failed, seen, image, pos, answer,
          rec, recErrors, single, committed, applied, outrun>>

Writers == Txns \cup Singles
Items == (SUBSET Writers) \cup {NoItem}
LedgerStates == {"none", "preparing", "committing", "cancelling"}
Running == {"prepare", "floor", "mark", "wait", "saved", "commit", "rollback"}
Pcs == Running \cup {"idle", "stopped", "done"}
Answers == {"none", "committed", "cancelled"}

IdleRec == [txn |-> None, mode |-> "rollback", pos |-> 1]
RecState == [txn : Txns \cup {None}, mode : {"commit", "rollback"}, pos : Nat \ {0}]
SingleState == [pc : {"idle", "read", "write", "done"}, op : Op \cup {None},
                item : Items, ver : Nat]

TypeOK ==
    /\ live \in [Keys -> BOOLEAN] /\ ctp \in [Keys -> BOOLEAN]
    /\ item \in [Keys -> Items] /\ committed \in [Keys -> Items]
    /\ prep \in [Keys -> Txns \cup {None}]
    /\ last \in [Keys -> Nat] /\ ver \in [Keys -> Nat]
    /\ pmax \in [Partitions -> Nat] /\ clock \in Nat
    /\ ledger \in [Txns -> LedgerStates] /\ started \in [Txns -> BOOLEAN]
    /\ pc \in [Txns -> Pcs] /\ ts \in [Txns -> Nat] /\ pos \in [Txns -> Nat \ {0}]
    /\ req \in [Txns -> Requests \cup {<<>>}]
    /\ \A t \in Txns : /\ todo[t] \subseteq DOMAIN req[t]
                       /\ applied[t] \subseteq DOMAIN req[t]
                       /\ outrun[t] \subseteq DOMAIN req[t]
                       /\ image[t] \in [DOMAIN req[t] -> Items]
    /\ failed \in [Txns -> BOOLEAN] /\ seen \in [Txns -> Items]
    /\ answer \in [Txns -> Answers]
    /\ rec \in [Recoverers -> RecState] /\ recErrors \in 0 .. MaxRecoveryErrors
    /\ single \in [Singles -> SingleState]

(* The tables hold some items written by single-item writes.                *)
Init ==
    /\ live \in [Keys -> BOOLEAN]
    /\ item = [k \in Keys |-> IF live[k] THEN {} ELSE NoItem]
    /\ committed = item
    /\ prep = [k \in Keys |-> None] /\ ctp = [k \in Keys |-> FALSE]
    /\ last = [k \in Keys |-> 0] /\ ver = [k \in Keys |-> IF live[k] THEN 1 ELSE 0]
    /\ pmax = [p \in Partitions |-> 0] /\ clock = 1
    /\ ledger = [t \in Txns |-> "none"] /\ started = [t \in Txns |-> FALSE]
    /\ pc = [t \in Txns |-> "idle"] /\ req = [t \in Txns |-> <<>>]
    /\ ts = [t \in Txns |-> 0] /\ pos = [t \in Txns |-> 1]
    /\ todo = [t \in Txns |-> {}] /\ failed = [t \in Txns |-> FALSE]
    /\ seen = [t \in Txns |-> NoItem] /\ image = [t \in Txns |-> <<>>]
    /\ answer = [t \in Txns |-> "none"]
    /\ rec = [r \in Recoverers |-> IdleRec] /\ recErrors = 0
    /\ single = [s \in Singles |-> [pc |-> "idle", op |-> None, item |-> NoItem, ver |-> 0]]
    /\ applied = [t \in Txns |-> {}] /\ outrun = [t \in Txns |-> {}]

-----------------------------------------------------------------------------
(* Conditions, images and rows.                                             *)

Holds(c, x) == CASE c = "exists" -> x # NoItem [] c = "absent" -> x = NoItem [] OTHER -> TRUE

(* apply_update_validated: the update over the item, or over the bare key.  *)
Updated(x, w) == (IF x = NoItem THEN {} ELSE x) \cup {w}

(* What an operation of w writes over x; NoItem when it writes no item.     *)
PostImage(o, x, w) ==
    CASE o.kind = "put" -> {w}
      [] o.kind = "update" -> Updated(x, w)
      [] o.kind = "trim" /\ x # NoItem -> Updated(x, w)
      [] OTHER -> NoItem

(* PREPARE plants a created_to_prepare row for an absent key, except for an *)
(* unconditional Delete.                                                    *)
PlantsRow(o, x) == x = NoItem /\ (o.kind = "delete" => o.cond # "none")

(* A check of an item that exists leaves no marker.                         *)
TakesMarker(o, x) == o.kind = "check" => x = NoItem

DeleteRow(k) ==
    /\ live' = [live EXCEPT ![k] = FALSE] /\ item' = [item EXCEPT ![k] = NoItem]
    /\ prep' = [prep EXCEPT ![k] = None] /\ ctp' = [ctp EXCEPT ![k] = FALSE]
    /\ last' = [last EXCEPT ![k] = 0] /\ ver' = [ver EXCEPT ![k] = 0]

(* commit_put_or_update and recover_commit_op: the row gets the item, the   *)
(* next version and the transaction's timestamp; both marks are cleared.    *)
CommitRow(k, x, stamp) ==
    /\ item' = [item EXCEPT ![k] = x] /\ prep' = [prep EXCEPT ![k] = None]
    /\ ctp' = [ctp EXCEPT ![k] = FALSE] /\ last' = [last EXCEPT ![k] = stamp]
    /\ ver' = [ver EXCEPT ![k] = clock + 1] /\ clock' = clock + 1
    /\ UNCHANGED live

ClearMarker(k) ==
    /\ prep' = [prep EXCEPT ![k] = None]
    /\ UNCHANGED <<live, item, ctp, last, ver>>

(* UPDATE .. SET partition_max_delete_timestamp = stamp, if null or less.   *)
RaiseFloor(k, stamp) ==
    pmax' = [pmax EXCEPT ![PartitionOf[k]] = IF @ < stamp THEN stamp ELSE @]

(* History: operation i of t takes effect and k holds x from here on.       *)
TakeEffect(t, i, k, x) ==
    /\ committed' = [committed EXCEPT ![k] = x]
    /\ applied' = [applied EXCEPT ![t] = @ \cup {i}]
    /\ UNCHANGED outrun

-----------------------------------------------------------------------------
(* transact_write_items_impl: started_at, then the PREPARING ledger entry.  *)
Begin(t, q) ==
    /\ pc[t] = "idle"
    /\ pc' = [pc EXCEPT ![t] = "prepare"]
    /\ req' = [req EXCEPT ![t] = q] /\ ts' = [ts EXCEPT ![t] = clock]
    /\ todo' = [todo EXCEPT ![t] = DOMAIN q]
    /\ image' = [image EXCEPT ![t] = [i \in DOMAIN q |-> NoItem]]
    /\ ledger' = [ledger EXCEPT ![t] = "preparing"] /\ started' = [started EXCEPT ![t] = TRUE]
    /\ UNCHANGED <<rowVars, pmax, clock, failed, seen, pos, answer, recVars, single, historyVars>>

(* execute_prepare_phase visits the operations by prepare_order_key.        *)
Cur(t) == CHOOSE i \in todo[t] : \A j \in todo[t] : req[t][i].key <= req[t][j].key
CurOp(t) == req[t][Cur(t)]

(* The current operation is over; a failed one does not stop the phase.     *)
FailOp(t) ==
    /\ pc' = [pc EXCEPT ![t] = "prepare"]
    /\ todo' = [todo EXCEPT ![t] = @ \ {Cur(t)}]
    /\ failed' = [failed EXCEPT ![t] = TRUE]
    /\ UNCHANGED image

(* Results pushed in the order PREPARE goes in, not put in the request's.   *)
FinishOpPushing(t, x) ==
    /\ pc' = [pc EXCEPT ![t] = "prepare"]
    /\ todo' = [todo EXCEPT ![t] = @ \ {Cur(t)}]
    /\ image' = [image EXCEPT ![t] = Append(@, PostImage(CurOp(t), x, t))]
    /\ UNCHANGED failed

FinishOp(t, x) ==
    /\ pc' = [pc EXCEPT ![t] = "prepare"]
    /\ todo' = [todo EXCEPT ![t] = @ \ {Cur(t)}]
    /\ image' = [image EXCEPT ![t] = [@ EXCEPT ![Cur(t)] = PostImage(CurOp(t), x, t)]]
    /\ UNCHANGED failed

EnterOp(t, target) ==
    /\ pc' = [pc EXCEPT ![t] = target]
    /\ UNCHANGED <<todo, failed, image>>

(* prepare_single_operation reads the row, waiting while another            *)
(* transaction holds it, and evaluates the condition.                       *)
PrepareRead(t) ==
    LET o == CurOp(t)
        x == item[o.key]
    IN
    /\ pc[t] = "prepare" /\ todo[t] # {}
    /\ prep[o.key] = None
    /\ seen' = [seen EXCEPT ![t] = x]
    /\ IF ~Holds(o.cond, x) THEN FailOp(t)
       ELSE IF ~TakesMarker(o, x) THEN FinishOp(t, x)
       ELSE EnterOp(t, IF PlantsRow(o, x) THEN "floor" ELSE "mark")
    /\ UNCHANGED <<rowVars, pmax, clock, ledgerVars, req, ts, pos, answer, recVars, single,
                   historyVars>>

(* The wait for another transaction's row times out, or a query fails.      *)
PrepareFails(t) ==
    /\ pc[t] \in {"prepare", "floor", "mark", "wait"} /\ todo[t] # {}
    /\ FailOp(t)
    /\ UNCHANGED <<rowVars, pmax, clock, ledgerVars, req, ts, seen, pos, answer, recVars,
                   single, historyVars>>

(* check_partition_max_delete_timestamp.                                    *)
PrepareFloor(t) ==
    /\ pc[t] = "floor"
    /\ IF ts[t] <= pmax[PartitionOf[CurOp(t).key]] THEN FailOp(t) ELSE EnterOp(t, "mark")
    /\ UNCHANGED <<rowVars, pmax, clock, ledgerVars, req, ts, seen, pos, answer, recVars,
                   single, historyVars>>

(* INSERT .. IF NOT EXISTS, or UPDATE .. IF prepared_txn_id = null, which   *)
(* also applies to a row that does not exist.                               *)
MarkRow(t, k, o) ==
    /\ prep' = [prep EXCEPT ![k] = t] /\ live' = [live EXCEPT ![k] = TRUE]
    /\ IF PlantsRow(o, seen[t])
       THEN /\ ~live[k]
            /\ item' = [item EXCEPT ![k] = IF o.kind = "put" THEN {t} ELSE {}]
            /\ ctp' = [ctp EXCEPT ![k] = TRUE]
       ELSE /\ prep[k] = None
            /\ UNCHANGED <<item, ctp>>
    /\ UNCHANGED <<last, ver>>

CanMark(t, k, o) == IF PlantsRow(o, seen[t]) THEN ~live[k] ELSE prep[k] = None

(* prepare_item.  An LWT that applied may still report an error.            *)
PrepareMark(t) ==
    LET o == CurOp(t) IN
    /\ pc[t] = "mark"
    /\ MarkRow(t, o.key, o)
    /\ FinishOp(t, seen[t]) \/ FailOp(t)
    /\ outrun' = IF item[o.key] = seen[t] THEN outrun
                 ELSE [outrun EXCEPT ![t] = @ \cup {Cur(t)}]
    /\ UNCHANGED <<pmax, clock, ledgerVars, req, ts, seen, pos, answer, recVars, single,
                   committed, applied>>

(* The LWT lost: all but the plain Delete wait for the winner and retry.    *)
PrepareLost(t) ==
    LET o == CurOp(t) IN
    /\ pc[t] = "mark"
    /\ ~CanMark(t, o.key, o)
    /\ IF o.kind = "delete" /\ ~PlantsRow(o, seen[t]) THEN FailOp(t) ELSE EnterOp(t, "wait")
    /\ UNCHANGED <<rowVars, pmax, clock, ledgerVars, req, ts, seen, pos, answer, recVars,
                   single, historyVars>>

(* A wait after which the condition is not evaluated again.                 *)
PrepareWaitUnchecked(t) ==
    LET o == CurOp(t)
        k == o.key
    IN
    /\ pc[t] = "wait"
    /\ ~live[k] \/ (prep[k] = None /\ last[k] # 0)
    /\ seen' = [seen EXCEPT ![t] = item[k]]
    /\ EnterOp(t, "mark")
    /\ UNCHANGED <<rowVars, pmax, clock, ledgerVars, req, ts, pos, answer, recVars, single,
                   historyVars>>

(* wait_for_commit_and_read: the row is gone, or a commit has landed on it. *)
(* A Put does not evaluate its condition again when the row is gone; a      *)
(* Delete or check whose key now exists goes on without a marker.           *)
PrepareWait(t) ==
    LET o == CurOp(t)
        k == o.key
        recheck == live[k] \/ o.kind # "put"
    IN
    /\ pc[t] = "wait"
    /\ ~live[k] \/ (prep[k] = None /\ last[k] # 0)
    /\ seen' = [seen EXCEPT ![t] = item[k]]
    /\ IF recheck /\ ~Holds(o.cond, item[k]) THEN FailOp(t)
       ELSE IF live[k] /\ o.kind \in {"delete", "check"} THEN FinishOp(t, item[k])
       ELSE EnterOp(t, "mark")
    /\ UNCHANGED <<rowVars, pmax, clock, ledgerVars, req, ts, pos, answer, recVars, single,
                   historyVars>>

-----------------------------------------------------------------------------
(* update_ledger_blob.                                                      *)
SaveImages(t) ==
    /\ pc[t] = "prepare" /\ todo[t] = {} /\ ~failed[t]
    /\ pc' = [pc EXCEPT ![t] = "saved"]
    /\ UNCHANGED <<rowVars, pmax, clock, ledgerVars, prepareVars, pos, answer, recVars, single,
                   historyVars>>

SetLedger(t, state) ==
    /\ ledger' = [ledger EXCEPT ![t] = state]   \* a plain UPDATE: it upserts
    /\ UNCHANGED started

DeleteLedger(t) ==
    /\ ledger' = [ledger EXCEPT ![t] = "none"] /\ started' = [started EXCEPT ![t] = FALSE]

(* execute_commit_phase: COMMITTING is the point of no return.              *)
StartCommit(t) ==
    /\ pc[t] = "saved"
    /\ SetLedger(t, "committing")
    /\ pc' = [pc EXCEPT ![t] = "commit"]
    /\ UNCHANGED <<rowVars, pmax, clock, prepareVars, pos, answer, recVars, single, historyVars>>

Done(t) == pos[t] > Len(req[t])
Stop(t) == pc' = [pc EXCEPT ![t] = "stopped"] /\ UNCHANGED pos
Advance(t) == pos' = [pos EXCEPT ![t] = @ + 1] /\ UNCHANGED pc

(* commit_single_operation of a Put or an Update, which is applied again to *)
(* the row; the commit stops when the row is not this transaction's.        *)
CommitWrite(t) ==
    LET o == req[t][pos[t]]
        k == o.key
        x == PostImage(o, item[k], t)
    IN
    /\ pc[t] = "commit" /\ ~Done(t)
    /\ o.kind \in {"put", "update", "trim"} /\ image[t][pos[t]] # NoItem
    /\ IF prep[k] = t
       THEN /\ CommitRow(k, x, ts[t])
            /\ TakeEffect(t, pos[t], k, x)
            /\ Advance(t)
       ELSE Stop(t) /\ UNCHANGED <<rowVars, clock, historyVars>>
    /\ UNCHANGED <<pmax, ledgerVars, prepareVars, answer, recVars, single>>

(* ... of a Delete, which reads the row first, and so waits for another     *)
(* transaction on it; the partition's floor is raised before the row goes.  *)
CommitDelete(t) ==
    LET k == req[t][pos[t]].key IN
    /\ pc[t] = "commit" /\ ~Done(t)
    /\ req[t][pos[t]].kind = "delete"
    /\ prep[k] \in {None, t}
    /\ RaiseFloor(k, ts[t])
    /\ IF prep[k] = t
       THEN DeleteRow(k) /\ TakeEffect(t, pos[t], k, NoItem) /\ Advance(t)
       ELSE Stop(t) /\ UNCHANGED <<rowVars, historyVars>>
    /\ UNCHANGED <<clock, ledgerVars, prepareVars, answer, recVars, single>>

(* commit_condition_check: only a planted row is removed.                   *)
CommitCheck(t) ==
    LET o == req[t][pos[t]] IN
    /\ pc[t] = "commit" /\ ~Done(t)
    /\ o.kind \in {"check", "trim"} /\ image[t][pos[t]] = NoItem
    /\ IF prep[o.key] = t /\ ctp[o.key] THEN DeleteRow(o.key) ELSE UNCHANGED rowVars
    /\ Advance(t)
    /\ UNCHANGED <<pmax, clock, ledgerVars, prepareVars, answer, recVars, single, historyVars>>

CommitDone(t) ==
    /\ pc[t] = "commit" /\ Done(t)
    /\ DeleteLedger(t)
    /\ pc' = [pc EXCEPT ![t] = "done"] /\ answer' = [answer EXCEPT ![t] = "committed"]
    /\ UNCHANGED <<rowVars, pmax, clock, prepareVars, pos, recVars, single, historyVars>>

(* execute_rollback_phase.                                                  *)
StartRollback(t) ==
    /\ pc[t] = "prepare" /\ todo[t] = {} /\ failed[t]
    /\ SetLedger(t, "cancelling")
    /\ pc' = [pc EXCEPT ![t] = "rollback"]
    /\ UNCHANGED <<rowVars, pmax, clock, prepareVars, pos, answer, recVars, single, historyVars>>

(* A rollback that clears every marker it finds, planted row or not.        *)
ClearOnly(t, k) == IF prep[k] = t THEN ClearMarker(k) ELSE UNCHANGED rowVars

(* DELETE .. IF created_to_prepare, else clear the marker.                  *)
Unmark(t, k) ==
    IF prep[k] # t THEN UNCHANGED rowVars
    ELSE IF ctp[k] THEN DeleteRow(k) ELSE ClearMarker(k)

(* rollback_single_operation: it waits while another transaction holds the  *)
(* row, and leaves a row that holds no item as it is.                       *)
RollbackOp(t) ==
    LET k == req[t][pos[t]].key IN
    /\ pc[t] = "rollback" /\ ~Done(t)
    /\ prep[k] \in {None, t}
    /\ IF item[k] = NoItem THEN UNCHANGED rowVars ELSE Unmark(t, k)
    /\ Advance(t)
    /\ UNCHANGED <<pmax, clock, ledgerVars, prepareVars, answer, recVars, single, historyVars>>

RollbackDone(t) ==
    /\ pc[t] = "rollback" /\ Done(t)
    /\ DeleteLedger(t)
    /\ pc' = [pc EXCEPT ![t] = "done"] /\ answer' = [answer EXCEPT ![t] = "cancelled"]
    /\ UNCHANGED <<rowVars, pmax, clock, prepareVars, pos, recVars, single, historyVars>>

(* Every failure is answered as a cancellation, a failed commit too.        *)
AbandonCancels(t) ==
    /\ pc[t] \in Running
    /\ pc' = [pc EXCEPT ![t] = "stopped"]
    /\ answer' = [answer EXCEPT ![t] = "cancelled"]
    /\ UNCHANGED <<rowVars, pmax, clock, ledgerVars, prepareVars, pos, recVars, single,
                   historyVars>>

(* The server dies or a query fails: the ledger entry stays.  A rollback    *)
(* that fails is still answered as a cancellation.                          *)
Abandon(t) ==
    /\ pc[t] \in Running
    /\ pc' = [pc EXCEPT ![t] = "stopped"]
    /\ \/ UNCHANGED answer
       \/ /\ pc[t] = "rollback" \/ (pc[t] = "prepare" /\ todo[t] = {} /\ failed[t])
          /\ answer' = [answer EXCEPT ![t] = "cancelled"]
    /\ UNCHANGED <<rowVars, pmax, clock, ledgerVars, prepareVars, pos, recVars, single,
                   historyVars>>

-----------------------------------------------------------------------------
(* A recovery that takes a COMMITTING entry for an abandoned one.           *)
RollbackAlways(t) == "rollback"

(* A recovery that takes a transaction whose every row is marked for one    *)
(* that was decided.                                                        *)
RollForwardPrepared(t) ==
    IF ledger[t] = "committing" \/ (ledger[t] = "preparing" /\ todo[t] = {} /\ ~failed[t])
    THEN "commit" ELSE "rollback"

RecoveryMode(t) == IF ledger[t] = "committing" THEN "commit" ELSE "rollback"

(* A scan for transactions whose commit was cut off, and no others.         *)
StartRecoveryOfCommits(r, t) ==
    /\ rec[r].txn = None
    /\ ledger[t] = "committing" /\ started[t]
    /\ pc[t] = "stopped" \/ EarlyRecovery
    /\ rec' = [rec EXCEPT ![r] = [txn |-> t, mode |-> RecoveryMode(t), pos |-> 1]]
    /\ UNCHANGED <<rowVars, pmax, clock, ledgerVars, pc, prepareVars, pos, answer, recErrors,
                   single, historyVars>>

(* poll_transaction_recovery finds an entry older than the timeout, and     *)
(* recover_transaction reads it.                                            *)
StartRecovery(r, t) ==
    /\ rec[r].txn = None
    /\ ledger[t] # "none" /\ started[t]
    /\ pc[t] = "stopped" \/ EarlyRecovery
    /\ rec' = [rec EXCEPT ![r] = [txn |-> t, mode |-> RecoveryMode(t), pos |-> 1]]
    /\ UNCHANGED <<rowVars, pmax, clock, ledgerVars, pc, prepareVars, pos, answer, recErrors,
                   single, historyVars>>

RecOp(r) == req[rec[r].txn][rec[r].pos]
RecDone(r) == rec[r].pos > Len(req[rec[r].txn])
RecAdvance(r) == rec' = [rec EXCEPT ![r] = [@ EXCEPT !.pos = rec[r].pos + 1]]

(* recover_commit_op writes the ledger's image; a lost fence is no error.   *)
RecoverWrite(r) ==
    LET t == rec[r].txn
        x == image[t][rec[r].pos]
        k == RecOp(r).key
    IN
    /\ t # None /\ rec[r].mode = "commit" /\ ~RecDone(r)
    /\ RecOp(r).kind \in {"put", "update", "trim"} /\ x # NoItem
    /\ IF prep[k] = t
       THEN CommitRow(k, x, ts[t]) /\ TakeEffect(t, rec[r].pos, k, x)
       ELSE UNCHANGED <<rowVars, clock, historyVars>>
    /\ RecAdvance(r)
    /\ UNCHANGED <<pmax, ledgerVars, pc, prepareVars, pos, answer, recErrors, single>>

RecoverDelete(r) ==
    LET t == rec[r].txn
        k == RecOp(r).key
    IN
    /\ t # None /\ rec[r].mode = "commit" /\ ~RecDone(r)
    /\ RecOp(r).kind = "delete"
    /\ RaiseFloor(k, ts[t])
    /\ IF prep[k] = t THEN DeleteRow(k) /\ TakeEffect(t, rec[r].pos, k, NoItem)
                      ELSE UNCHANGED <<rowVars, historyVars>>
    /\ RecAdvance(r)
    /\ UNCHANGED <<clock, ledgerVars, pc, prepareVars, pos, answer, recErrors, single>>

RecoverCheck(r) ==
    LET t == rec[r].txn
        o == RecOp(r)
    IN
    /\ t # None /\ rec[r].mode = "commit" /\ ~RecDone(r)
    /\ o.kind \in {"check", "trim"} /\ image[t][rec[r].pos] = NoItem
    /\ IF prep[o.key] = t /\ ctp[o.key] THEN DeleteRow(o.key) ELSE UNCHANGED rowVars
    /\ RecAdvance(r)
    /\ UNCHANGED <<pmax, clock, ledgerVars, pc, prepareVars, pos, answer, recErrors, single,
                   historyVars>>

(* A recovery that takes a check for an operation that leaves no marker.    *)
RecoverRollbackSkipsChecks(r) ==
    /\ rec[r].txn # None /\ rec[r].mode = "rollback" /\ ~RecDone(r)
    /\ IF RecOp(r).kind = "check" THEN UNCHANGED rowVars ELSE Unmark(rec[r].txn, RecOp(r).key)
    /\ RecAdvance(r)
    /\ UNCHANGED <<pmax, clock, ledgerVars, pc, prepareVars, pos, answer, recErrors, single,
                   historyVars>>

(* recover_rollback_op.                                                     *)
RecoverRollback(r) ==
    /\ rec[r].txn # None /\ rec[r].mode = "rollback" /\ ~RecDone(r)
    /\ Unmark(rec[r].txn, RecOp(r).key)
    /\ RecAdvance(r)
    /\ UNCHANGED <<pmax, clock, ledgerVars, pc, prepareVars, pos, answer, recErrors, single,
                   historyVars>>

RecoverDone(r) ==
    /\ rec[r].txn # None /\ RecDone(r)
    /\ DeleteLedger(rec[r].txn)
    /\ rec' = [rec EXCEPT ![r] = IdleRec]
    /\ UNCHANGED <<rowVars, pmax, clock, pc, prepareVars, pos, answer, recErrors, single,
                   historyVars>>

(* An operation fails: the pass ends and a later one starts over.           *)
RecoverFails(r) ==
    /\ rec[r].txn # None /\ recErrors < MaxRecoveryErrors
    /\ rec' = [rec EXCEPT ![r] = IdleRec] /\ recErrors' = recErrors + 1
    /\ UNCHANGED <<rowVars, pmax, clock, ledgerVars, pc, prepareVars, pos, answer, single,
                   historyVars>>

-----------------------------------------------------------------------------
(* put_item_impl_inner, occ_read of update_item_impl, delete_item_impl_inner:*)
(* the row is read; a prepared row, a condition that does not hold and a    *)
(* Delete of nothing end the call.                                          *)
SingleRead(s, o) ==
    LET x == item[o.key]
        writes == /\ prep[o.key] = None /\ Holds(o.cond, x)
                  /\ o.kind = "delete" => x # NoItem
    IN
    /\ single[s].pc = "idle" \/ (single[s].pc = "read" /\ single[s].op = o)
    /\ single' = [single EXCEPT ![s] = [pc |-> IF writes THEN "write" ELSE "done", op |-> o,
                                        item |-> x, ver |-> ver[o.key]]]
    /\ UNCHANGED <<rowVars, pmax, clock, ledgerVars, pc, prepareVars, pos, answer, recVars,
                   historyVars>>

(* A write fenced on prepared_txn_id only.                                  *)
FenceWithoutVersion(s) == prep[single[s].op.key] = None

(* IF version = ? AND prepared_txn_id = null, or IF item_data = null ..     *)
Fence(s) ==
    LET k == single[s].op.key IN
    /\ prep[k] = None
    /\ IF single[s].item = NoItem THEN item[k] = NoItem ELSE live[k] /\ ver[k] = single[s].ver

(* occ_write, put_item_if_not_exists, occ_delete_lwt.                       *)
SingleWrite(s) ==
    LET o == single[s].op
        k == o.key
        x == PostImage(o, single[s].item, s)
    IN
    /\ single[s].pc = "write"
    /\ Fence(s)
    /\ clock' = clock + 1
    /\ IF o.kind = "delete"
       THEN DeleteRow(k) /\ RaiseFloor(k, clock)
       ELSE /\ item' = [item EXCEPT ![k] = x] /\ live' = [live EXCEPT ![k] = TRUE]
            /\ ver' = [ver EXCEPT ![k] = clock + 1]
            /\ UNCHANGED <<prep, ctp, last, pmax>>
    /\ committed' = [committed EXCEPT ![k] = x]
    /\ single' = [single EXCEPT ![s] = [@ EXCEPT !.pc = "done"]]
    /\ UNCHANGED <<ledgerVars, pc, prepareVars, pos, answer, recVars, applied, outrun>>

(* The fence does not hold: read again, or give up after the last attempt.  *)
(* A Delete has raised the floor by then.                                   *)
SingleRetry(s) ==
    LET o == single[s].op IN
    /\ single[s].pc = "write" /\ ~Fence(s)
    /\ \E next \in {"read", "done"} : single' = [single EXCEPT ![s] = [@ EXCEPT !.pc = next]]
    /\ IF o.kind = "delete" THEN RaiseFloor(o.key, clock) ELSE UNCHANGED pmax
    /\ UNCHANGED <<rowVars, clock, ledgerVars, pc, prepareVars, pos, answer, recVars, historyVars>>

-----------------------------------------------------------------------------
CoordinatorStep(t) ==
    \/ PrepareRead(t) \/ PrepareFails(t) \/ PrepareFloor(t) \/ PrepareMark(t) \/ PrepareLost(t)
    \/ PrepareWait(t) \/ SaveImages(t) \/ StartCommit(t)
    \/ CommitWrite(t) \/ CommitDelete(t) \/ CommitCheck(t) \/ CommitDone(t)
    \/ StartRollback(t) \/ RollbackOp(t) \/ RollbackDone(t)

RecoveryStep(r) ==
    \/ \E t \in Txns : StartRecovery(r, t)
    \/ RecoverWrite(r) \/ RecoverDelete(r) \/ RecoverCheck(r) \/ RecoverRollback(r)
    \/ RecoverDone(r)

SingleStep(s) == SingleWrite(s) \/ SingleRetry(s)

Next ==
    \/ \E t \in Txns : (\E q \in Requests : Begin(t, q)) \/ CoordinatorStep(t) \/ Abandon(t)
    \/ \E r \in Recoverers : RecoveryStep(r) \/ RecoverFails(r)
    \/ \E s \in Singles : (\E o \in SingleOps : SingleRead(s, o)) \/ SingleStep(s)

Spec == Init /\ [][Next]_vars

(* A server that runs polls its tasks, every wait has a timeout, and the    *)
(* recovery worker scans again and again.                                   *)
FairSpec ==
    /\ Spec
    /\ \A t \in Txns : WF_vars(CoordinatorStep(t) \/ Abandon(t))
    /\ \A r \in Recoverers : WF_vars(RecoveryStep(r))

-----------------------------------------------------------------------------
(* Properties.                                                              *)

(* The operations of t that write or remove an item.                        *)
Effects(t) == {i \in DOMAIN req[t] : req[t][i].kind = "delete" \/ image[t][i] # NoItem}

(* Committed data survives every transaction: a row holds the item the last *)
(* write that took effect gave it, and a row that PREPARE planted stands for*)
(* an absent item and is still held by its transaction.  No cancelled or    *)
(* recovered transaction deletes or resurrects an item (commit_put_or_update,*)
(* rollback_single_operation, recover_rollback_op).                         *)
DataIntact ==
    \A k \in Keys : IF ctp[k] THEN prep[k] # None /\ committed[k] = NoItem
                              ELSE item[k] = committed[k]

(* A transaction whose ledger entry is gone took effect entirely or not at  *)
(* all, whoever finished it (execute_commit_phase, recover_transaction).    *)
AllOrNothing ==
    \A t \in Txns : (pc[t] \in {"stopped", "done"} /\ ledger[t] = "none")
                        => applied[t] \in {{}, Effects(t)}

(* The client was told the truth: after a commit every operation has taken  *)
(* effect, after a cancellation none has or ever will.                      *)
AnswerIsOutcome ==
    \A t \in Txns : /\ answer[t] = "committed" => applied[t] = Effects(t)
                    /\ answer[t] = "cancelled" => applied[t] = {}

(* A marked row can always be released: its transaction is in the ledger,   *)
(* where recovery will find it (rollback_single_operation,                  *)
(* delete_ledger_entry).                                                    *)
NoOrphanMarker == \A k \in Keys : prep[k] # None => ledger[prep[k]] # "none"

(* The same for the rows that hold an item: whatever order PREPARE, COMMIT, *)
(* ROLLBACK and recovery go through the operations in, the ledger entry     *)
(* outlives every marker on an item.                                        *)
ItemMarkerInLedger ==
    \A k \in Keys : (prep[k] # None /\ item[k] # NoItem) => ledger[prep[k]] # "none"

(* The update of a single-item write adds to the item as it stands when it  *)
(* takes effect (occ_write).                                                *)
SingleUpdateKept ==
    \A s \in Singles :
        LET o == single[s].op IN
        (single[s].pc = "write" /\ o.kind = "update" /\ committed' # committed
            /\ single'[s] # single[s])
            => committed'[o.key] = Updated(committed[o.key], s)

(* An update adds to the item as it stands when the update takes effect: no *)
(* concurrent transaction or single-item write is lost (occ_write,          *)
(* commit_single_operation).  What recovery applies was computed by PREPARE *)
(* (recover_commit_op): it adds to the item as it stands too, unless the    *)
(* row changed between the read of PREPARE and its marker, whose LWT is not *)
(* fenced on the version.                                                   *)
NoLostUpdate ==
    [][ /\ \A t \in Txns : \A i \in applied'[t] \ applied[t] :
              LET o == req[t][i] IN
              (o.kind = "update" /\ (pos'[t] # pos[t] \/ i \notin outrun[t])) =>
                  committed'[o.key] = Updated(committed[o.key], t)
        /\ SingleUpdateKept ]_vars

(* The same without the exception, as the fence of recover_commit_op is     *)
(* meant to make it.  The code does not keep it.                            *)
EveryUpdateKept ==
    [][ \A t \in Txns : \A i \in applied'[t] \ applied[t] :
          LET o == req[t][i] IN
          o.kind = "update" => committed'[o.key] = Updated(committed[o.key], t) ]_vars

(* Transactions are serializable at the moment they decide: every condition *)
(* PREPARE evaluated still holds (prepare_single_operation).                *)
ConditionsHold ==
    [][\A t \in Txns : (pc[t] = "saved" /\ pc'[t] = "commit") =>
          \A i \in DOMAIN req[t] : Holds(req[t][i].cond, committed[req[t][i].key])]_vars

(* Every row is released: a coordinator that dies is cleaned up after, and  *)
(* nobody waits for a row for ever (poll_transaction_recovery).             *)
RowsReleased ==
    \A k \in Keys, t \in Txns : (prep[k] = t) ~> (prep[k] # t)
-----------------------------------------------------------------------------
(* The refinement mapping to what TransactWriteItems promises: the row as   *)
(* GetItem finds it, and a decision that stands once COMMITTING is recorded *)
(* or the coordinator can no longer record it.                              *)
Store == [k \in Keys |-> IF ctp[k] THEN NoItem ELSE item[k]]
KeysOf(t, ops) == {req[t][i].key : i \in ops}
Outcome == [t \in Txns |->
              IF ledger[t] = "committing" \/ answer[t] = "committed" \/ applied[t] # {} THEN "committed"
              ELSE IF pc[t] \in {"idle", "prepare", "floor", "mark", "wait", "saved"} THEN "open"
              ELSE "cancelled"]
Promise == INSTANCE TxnPromise WITH
              store <- Store, outcome <- Outcome,
              due <- [t \in Txns |-> IF Outcome[t] = "committed" THEN KeysOf(t, Effects(t)) ELSE {}],
              done <- [t \in Txns |-> KeysOf(t, applied[t])]

(* The protocol keeps its promise through crashes, half-done commits and    *)
(* recovery passes: a decision is never taken back, no step but a committed *)
(* operation's one and only effect changes an item, and every answer is     *)
(* that of the decision (transact_write_items_impl, recover_transaction).   *)
PromiseKept == Promise!Spec
=============================================================================
