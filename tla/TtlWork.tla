------------------------------- MODULE TtlWork -------------------------------
(***************************************************************************)
(* The expiration of one item of a TTL table on Cassandra                   *)
(* (crates/storage-cassandra: ttl_worker.rs and data/ttl.rs, the claims of  *)
(* data/delete_item.rs, the claimed writes of data/put_get_item.rs,         *)
(* update_item.rs and delete_item.rs, the lifecycle in metadata_engine.rs). *)
(*                                                                         *)
(* Writers and expiration work claim the base row with a lightweight        *)
(* transaction (LWT) on prepared_txn_id.  A writer then writes the item,    *)
(* its index rows, its queue rows and an outbox row in one logged batch     *)
(* under a timestamp pinned after its claim; the batch has no condition,    *)
(* lands in two parts, and may land long after the claim is gone.  The      *)
(* effects of expiration work carry the timestamp recorded with the work.   *)
(* Every other write is an LWT, whose timestamp is the moment it applies.   *)
(* Instead of timestamps the model keeps, for what is pinned and still in   *)
(* flight, which cells have since been written by something newer.          *)
(***************************************************************************)
EXTENDS Integers

CONSTANTS
    Writers,         \* writes of the item, one each
    Sweepers,        \* queue rows that sweeps process at a time
    Cleaners,        \* queue rows that cleanups process at a time
    Works,           \* expiration work at a time
    Images,          \* what the item may be
    TtlOf,           \* the expiration time of an image, or None
    Expiries, Due,   \* the expiration times, and those in the past
    MaxGen,          \* bound: generations
    MaxFaults,       \* bound: crashes of sweepers and destroys of unknown outcome
    None

ASSUME TtlAssumption ==
    /\ TtlOf \in [Images -> Expiries \cup {None}] /\ Due \subseteq Expiries
    /\ MaxGen \in Nat \ {0} /\ MaxFaults \in Nat
    /\ None \notin Writers \cup Works \cup Images \cup Expiries
    /\ Writers \cap Works = {}

VARIABLES
    item, owner, sealed,   \* base row: item_data, prepared_txn_id, and that the owner has no TTL
    idx,                   \* the image the item's index rows show
    idxNewer,              \* works whose delete timestamp is older than the index rows
    queue,                 \* ttl_expirations: state and work of every row of this key
    outbox,                \* ttl_reconcile_pending has a row that no pass holds
    markers,               \* generations of ttl_repair_inflight rows left behind
    ghosts,                \* destroys of unknown outcome
    replays,               \* works whose effects are still in the batch log
    gen, cleanup, ready,   \* ttl_generation, ttl_cleanup_generation, ttl_index_ready
    lastGen,               \* the newest generation
    cleared,               \* rows this cleanup pass found or made empty
    batch,                 \* the writers
    row,                   \* the sweepers
    pass,                  \* the pass that reconciles, audits or fills the queue
    missed,                \* a host that took TTL for disabled wrote the item, or an outbox row was
                           \* read before the item of its batch had landed (history)
    faults

base == <<item, owner, sealed>>
index == <<idx, idxNewer, replays>>
repairs == <<outbox, markers, ghosts>>
config == <<gen, cleanup, ready, lastGen, cleared>>
vars == <<base, index, queue, repairs, config, batch, row, pass, missed, faults>>

Hosts == Sweepers \cup Cleaners
Gens == 1 .. MaxGen
Images0 == Images \cup {None}
States == {"none", "PENDING", "CLAIMED", "ABORTING", "APPLYING", "APPLIED"}
Unclaimed == {"none", "PENDING"}
NoWork == [id |-> None, img |-> None]
WorkData == [id : Works, img : Images] \cup {NoWork}
Empty == [st |-> "none", work |-> NoWork]

Expiry(img) == IF img = None THEN None ELSE TtlOf[img]   \* ttl_epoch_seconds, entry_for_item

\* The cells that writes with different timestamps compete for.
Item == <<"item", 0, 0>>
Owner == <<"owner", 0, 0>>
Index == <<"index", 0, 0>>
State(g, e) == <<"state", g, e>>
Work(g, e) == <<"work", g, e>>
QueueCells == {State(g, e) : g \in Gens, e \in Expiries} \cup {Work(g, e) : g \in Gens, e \in Expiries}

Resting == [pc |-> "idle", old |-> None, new |-> None, gen |-> 0, landed |-> {}, newer |-> {},
            beats |-> {}]
NoRow == [pc |-> "idle", gen |-> 0, exp |-> None, st |-> "none", work |-> NoWork, drain |-> FALSE,
          seen |-> None, after |-> "idle"]
NoPass == [kind |-> "none", gen |-> 0, seen |-> None]

SweepPcs == {"idle", "read", "claim", "check", "own", "gate", "seal", "apply", "owned", "effects",
             "mark", "final", "delete", "survivor", "restore", "abort", "release", "record",
             "destroy", "handoff", "unmark", "reread", "insert"}
Kinds == {"outbox", "repair", "audit", "backfill"}

TypeOK ==
    /\ item \in Images0 /\ owner \in Writers \cup Works \cup {None} /\ sealed \in BOOLEAN
    /\ idx \in Images0 /\ idxNewer \subseteq Works /\ replays \subseteq Works
    /\ queue \in [Gens -> [Expiries -> [st : States, work : WorkData]]]
    /\ outbox \in BOOLEAN /\ markers \subseteq Gens
    /\ ghosts \subseteq [gen : Gens, exp : Expiries, st : States, id : Works \cup {None}]
    /\ gen \in 0 .. MaxGen /\ cleanup \in 0 .. MaxGen /\ ready \in BOOLEAN
    /\ lastGen \in 0 .. MaxGen /\ cleared \subseteq Expiries
    /\ batch \in [Writers -> [pc : {"idle", "sent", "done"}, old : Images0, new : Images0,
                              gen : 0 .. MaxGen, landed : SUBSET {"base", "rest"},
                              newer : SUBSET ({Item, Owner, Index} \cup QueueCells),
                              beats : SUBSET (Writers \cup Works)]]
    /\ row \in [Hosts -> [pc : SweepPcs, gen : 0 .. MaxGen, exp : Expiries \cup {None},
                             st : States, work : WorkData, drain : BOOLEAN, seen : Images0,
                             after : {"idle", "reread", "insert"}]]
    /\ pass \in [kind : Kinds \cup {"none"}, gen : 0 .. MaxGen, seen : Images0]
    /\ missed \in BOOLEAN /\ faults \in 0 .. MaxFaults

-----------------------------------------------------------------------------
\* Timestamps

\* The rows of the queue a batch deletes and inserts (add_ttl_queue_mutations).
Deleted(b) == {Expiry(b.old)} \ {None, Expiry(b.new)}
Inserted(b) == {Expiry(b.new)} \ {None}

\* The cells a batch has still to write.
Cells(b) ==
    (IF "base" \in b.landed THEN {} ELSE {Item, Owner})
    \cup (IF "rest" \in b.landed THEN {}
          ELSE {Index} \cup {State(b.gen, e) : e \in Deleted(b) \cup Inserted(b)}
                       \cup {Work(b.gen, e) : e \in Deleted(b) \cup Inserted(b)})

\* A write to cells, newer than what is pinned by the writers in ws.
Outdate(ws, cells) ==
    [w \in Writers |->
        IF w \in ws /\ batch[w].pc = "sent"
        THEN [batch[w] EXCEPT !.newer = @ \cup (cells \cap Cells(batch[w]))] ELSE batch[w]]

\* A write that carries the present.
Now(cells) == batch' = Outdate(Writers, cells)

\* Part of w's batch lands; what it wrote is as old as its pin.
Landed(w, part, cells) ==
    LET b == batch[w]
        done == b.landed \cup {part} = {"base", "rest"}
        rest == [b EXCEPT !.landed = @ \cup {part}]
    IN  [Outdate(b.beats, cells) EXCEPT ![w] =
            IF done THEN [Resting EXCEPT !.pc = "done"]
            ELSE [rest EXCEPT !.newer = @ \cap Cells(rest)]]

-----------------------------------------------------------------------------
\* Writes of the item

\* put_item_impl_inner, update and delete with a TTL configuration: the claim
\* (acquire_ttl_mutation_claim), the pin right after it, and the batch goes out.
\* The configuration may be one that was read long ago.
ClaimAndSend(w, img, g) ==
    /\ batch[w].pc = "idle" /\ g \in 1 .. lastGen /\ owner = None
    /\ item # None \/ img # None
    /\ owner' = w /\ sealed' = FALSE
    /\ batch' = [Outdate(Writers, {Owner}) EXCEPT ![w] =
                    [pc |-> "sent", old |-> item, new |-> img, gen |-> g, landed |-> {}, newer |-> {},
                     beats |-> {v \in Writers : batch[v].pc = "sent"} \cup Works]]
    /\ UNCHANGED <<item, index, queue, repairs, config, row, pass, missed, faults>>

\* occ_write without a configuration, and its index batch.
OccWrite(w, img) ==
    /\ batch[w].pc = "idle" /\ owner = None
    /\ item' = img /\ idx' = img /\ idxNewer' = Works
    /\ missed' = (missed \/ gen # 0)
    /\ batch' = [Outdate(Writers, {Item, Index}) EXCEPT ![w] = [Resting EXCEPT !.pc = "done"]]
    /\ UNCHANGED <<owner, sealed, replays, queue, repairs, config, row, pass, faults>>

\* The base row's part of a batch: the item, and no owner.
LandBase(w) ==
    LET b == batch[w] IN
    /\ b.pc = "sent" /\ "base" \notin b.landed
    /\ item' = IF Item \in b.newer THEN item ELSE b.new
    /\ owner' = IF Owner \in b.newer THEN owner ELSE None
    /\ sealed' = (sealed /\ Owner \in b.newer)
    /\ batch' = Landed(w, "base", {Item, Owner} \ b.newer)
    /\ UNCHANGED <<index, queue, repairs, config, row, pass, missed, faults>>

\* A row of the queue after a write of b: the cells that are not newer change.
Overwrite(b, e, q) ==
    LET st == IF e \in Inserted(b) THEN "PENDING" ELSE "none" IN
    [st |-> IF State(b.gen, e) \in b.newer THEN q.st ELSE st,
     work |-> IF Work(b.gen, e) \in b.newer THEN q.work ELSE NoWork]

\* The other rows of a batch: index, queue, and the outbox row of an item with
\* an expiration time (add_ttl_reconciliation_mutation).
LandRest(w) ==
    LET b == batch[w]
        hit == Deleted(b) \cup Inserted(b)
        rows == [e \in Expiries |-> IF e \in hit THEN Overwrite(b, e, queue[b.gen][e])
                                    ELSE queue[b.gen][e]]
    IN
    /\ b.pc = "sent" /\ "rest" \notin b.landed
    /\ idx' = IF Index \in b.newer THEN idx ELSE b.new
    /\ idxNewer' = IF Index \in b.newer THEN idxNewer ELSE idxNewer \cup (b.beats \cap Works)
    /\ queue' = [queue EXCEPT ![b.gen] = rows]
    /\ outbox' = (outbox \/ Inserted(b) # {})
    /\ batch' = Landed(w, "rest", Cells([b EXCEPT !.landed = {"base"}]) \ b.newer)
    /\ UNCHANGED <<base, replays, markers, ghosts, config, row, pass, missed, faults>>

\* The batch is not answered: its writer releases the claim and gives up
\* (release_ttl_mutation_claim), but the batch may be in the log.  A writer that
\* stops leaves its claim to expire.
GiveUp(w) ==
    /\ batch[w].pc = "sent" /\ owner = w
    /\ owner' = None
    /\ Now({Owner})
    /\ UNCHANGED <<item, sealed, index, queue, repairs, config, row, pass, missed, faults>>

\* A batch that no node has logged is gone; one that has landed in part is not.
Lose(w) ==
    /\ batch[w].pc = "sent" /\ batch[w].landed = {}
    /\ batch' = [batch EXCEPT ![w] = [Resting EXCEPT !.pc = "done"]]
    /\ UNCHANGED <<base, index, queue, repairs, config, row, pass, missed, faults>>

\* A claim outlives its TTL; expiring writes nothing.
ExpireClaim ==
    /\ owner # None /\ ~sealed
    /\ owner' = None
    /\ UNCHANGED <<item, sealed, index, queue, repairs, config, batch, row, pass, missed, faults>>

-----------------------------------------------------------------------------
\* A row of the queue: process_ttl_work_row, and drain_retired_generation

Q(r) == queue[r.gen][r.exp]
Is(r, st) == Q(r).st = st /\ Q(r).work.id = r.work.id
Goto(s, pc) == row' = [row EXCEPT ![s].pc = pc]
Quit(s) == row' = [row EXCEPT ![s] = NoRow]
Local == UNCHANGED <<base, index, queue, repairs, config, batch, pass, missed, faults>>

\* An LWT on r's queue row that leaves it at q.
SetRow(r, q) ==
    /\ queue' = [queue EXCEPT ![r.gen][r.exp] = q]
    /\ Now({State(r.gen, r.exp)} \cup IF q.work = Q(r).work THEN {} ELSE {Work(r.gen, r.exp)})

FreeWorks ==
    {k \in Works : /\ k # owner /\ k \notin replays
                   /\ \A g \in Gens, e \in Expiries : queue[g][e].work.id # k
                   /\ \A s \in Hosts : row[s].work.id # k
                   /\ \A d \in ghosts : d.id # k}

\* load_due_ttl_work: a due row of the current generation.  A row under work
\* without its work is an error that no sweep gets past.
Load(s, e) ==
    LET q == queue[gen][e] IN
    /\ row[s].pc = "idle" /\ gen # 0 /\ ready /\ e \in Due /\ q.st # "none"
    /\ q.st = "PENDING" \/ q.work # NoWork
    /\ row' = [row EXCEPT ![s] =
                 [NoRow EXCEPT !.gen = gen, !.exp = e, !.st = q.st, !.work = q.work,
                               !.pc = CASE q.st = "PENDING"  -> "read"
                                        [] q.st = "CLAIMED"  -> "check"
                                        [] q.st = "ABORTING" -> "release"
                                        [] q.st = "APPLYING" -> "owned"
                                        [] q.st = "APPLIED"  -> "final"]]
    /\ Local

\* load_generation_work: any row under work of the generation being cleaned up.
DrainLoad(s, e) ==
    LET q == queue[cleanup][e] IN
    /\ row[s].pc = "idle" /\ cleanup # 0 /\ q.st \notin Unclaimed /\ q.work # NoWork
    /\ row' = [row EXCEPT ![s] =
                 [NoRow EXCEPT !.gen = cleanup, !.exp = e, !.st = q.st, !.work = q.work,
                               !.drain = TRUE,
                               !.pc = CASE q.st = "CLAIMED"  -> "abort"
                                        [] q.st = "ABORTING" -> "release"
                                        [] q.st = "APPLYING" -> "owned"
                                        [] q.st = "APPLIED"  -> "final"]]
    /\ Local

\* PENDING: read the item; retire the row if the item is gone or has another
\* expiration time, otherwise make up work for this image, and pin its delete
\* timestamp.
ReadItem(s) ==
    LET r == row[s] IN
    /\ r.pc = "read"
    /\ \/ /\ Expiry(item) # r.exp
          /\ row' = [row EXCEPT ![s].pc = "record",
                                ![s].after = IF item = None THEN "idle" ELSE "reread"]
          /\ UNCHANGED <<idxNewer, batch>>
       \/ /\ Expiry(item) = r.exp
          /\ \E k \in FreeWorks :
                /\ row' = [row EXCEPT ![s].pc = "claim", ![s].work = [id |-> k, img |-> item]]
                /\ idxNewer' = idxNewer \ {k}
                /\ batch' = [w \in Writers |-> [batch[w] EXCEPT !.beats = @ \ {k}]]
    /\ UNCHANGED <<base, idx, replays, queue, repairs, config, pass, missed, faults>>

\* claim_ttl_work
ClaimWork(s) ==
    LET r == row[s] IN
    /\ r.pc = "claim"
    /\ IF Q(r).st = "PENDING"
       THEN /\ SetRow(r, [st |-> "CLAIMED", work |-> r.work])
            /\ row' = [row EXCEPT ![s].pc = "check", ![s].st = "CLAIMED"]
       ELSE Quit(s) /\ UNCHANGED <<queue, batch>>
    /\ UNCHANGED <<base, index, repairs, config, pass, missed, faults>>

\* CLAIMED: go on with the image the work was made for, abort with any other.
CheckItem(s) ==
    LET r == row[s] IN
    /\ r.pc = "check"
    /\ IF item = r.work.img
       THEN Goto(s, "own")
       ELSE row' = [row EXCEPT ![s].pc = "abort", ![s].seen = item,
                               ![s].after = IF item = None THEN "idle" ELSE "insert"]
    /\ Local

\* Mutant: the cleanup goes on to release the base row though its LWT lost.
AbortAnyway(s) ==
    LET r == row[s] IN
    /\ r.pc = "abort"
    /\ IF Is(r, "CLAIMED") THEN SetRow(r, [Q(r) EXCEPT !.st = "ABORTING"])
       ELSE UNCHANGED <<queue, batch>>
    /\ row' = [row EXCEPT ![s].pc = "release", ![s].st = "ABORTING"]
    /\ UNCHANGED <<base, index, repairs, config, pass, missed, faults>>

\* mark_ttl_claim_aborting
AbortWork(s) ==
    LET r == row[s] IN
    /\ r.pc = "abort"
    /\ IF Is(r, "CLAIMED")
       THEN /\ SetRow(r, [Q(r) EXCEPT !.st = "ABORTING"])
            /\ row' = [row EXCEPT ![s].pc = "release", ![s].st = "ABORTING"]
       ELSE Quit(s) /\ UNCHANGED <<queue, batch>>
    /\ UNCHANGED <<base, index, repairs, config, pass, missed, faults>>

\* ensure_ttl_work_claim: claim the base row, or find it claimed.
OwnBase(s) ==
    LET r == row[s]
        free == owner = None /\ item = r.work.img
        held == owner = r.work.id /\ item = r.work.img
    IN
    /\ r.pc = "own"
    /\ IF free THEN owner' = r.work.id /\ Now({Owner}) ELSE UNCHANGED <<owner, batch>>
    /\ \/ /\ free \/ held
          /\ Goto(s, IF r.st = "CLAIMED" THEN "gate" ELSE "delete")
       \/ /\ ~free /\ ~held
          /\ IF r.drain THEN Goto(s, "survivor") ELSE Quit(s)
    /\ UNCHANGED <<item, sealed, index, queue, repairs, config, pass, missed, faults>>

\* The last look at the configuration before the effects.
Gate(s) ==
    /\ row[s].pc = "gate"
    /\ IF gen = row[s].gen THEN Goto(s, "seal") ELSE Quit(s)
    /\ Local

\* seal_ttl_work_claim
Seal(s) ==
    LET r == row[s] IN
    /\ r.pc = "seal"
    /\ IF owner = r.work.id /\ item = r.work.img
       THEN sealed' = TRUE /\ Now({Owner}) /\ Goto(s, "apply")
       ELSE Quit(s) /\ UNCHANGED <<sealed, batch>>
    /\ UNCHANGED <<item, owner, index, queue, repairs, config, pass, missed, faults>>

\* mark_ttl_effects_applying
MarkApplying(s) ==
    LET r == row[s] IN
    /\ r.pc = "apply"
    /\ IF Is(r, "CLAIMED")
       THEN /\ SetRow(r, [Q(r) EXCEPT !.st = "APPLYING"])
            /\ row' = [row EXCEPT ![s].pc = "owned", ![s].st = "APPLYING"]
       ELSE Quit(s) /\ UNCHANGED <<queue, batch>>
    /\ UNCHANGED <<base, index, repairs, config, pass, missed, faults>>

\* base_row_owned_by
CheckOwner(s) ==
    /\ row[s].pc = "owned"
    /\ IF owner = row[s].work.id THEN Goto(s, "effects") ELSE Quit(s)
    /\ Local

\* Mutant: the effects carry the present instead of the recorded timestamp.
EffectsNow(k) == idx' = None /\ Now({Index})

\* The effects of k: the index rows are deleted, at the recorded timestamp.
Effects(k) ==
    IF k \in idxNewer THEN UNCHANGED <<idx, batch>>
    ELSE idx' = None /\ batch' = Outdate({w \in Writers : k \notin batch[w].beats}, {Index})

\* apply_ttl_delete_effects
ApplyEffects(s) ==
    /\ row[s].pc = "effects"
    /\ Effects(row[s].work.id)
    /\ Goto(s, "mark")
    /\ UNCHANGED <<base, idxNewer, replays, queue, repairs, config, pass, missed, faults>>

\* The batch of the effects is not answered; it is in the log and lands later.
EffectsUnknown(s) ==
    /\ row[s].pc = "effects" /\ faults < MaxFaults
    /\ faults' = faults + 1
    /\ replays' = replays \cup {row[s].work.id}
    /\ Quit(s)
    /\ UNCHANGED <<base, idx, idxNewer, queue, repairs, config, batch, pass, missed>>

Replay(k) ==
    /\ k \in replays
    /\ Effects(k)
    /\ replays' = replays \ {k}
    /\ UNCHANGED <<base, idxNewer, queue, repairs, config, row, pass, missed, faults>>

\* mark_ttl_effects_applied
MarkApplied(s) ==
    LET r == row[s] IN
    /\ r.pc = "mark"
    /\ IF Is(r, "APPLYING")
       THEN /\ SetRow(r, [Q(r) EXCEPT !.st = "APPLIED"])
            /\ row' = [row EXCEPT ![s].pc = "final", ![s].st = "APPLIED"]
       ELSE Quit(s) /\ UNCHANGED <<queue, batch>>
    /\ UNCHANGED <<base, index, repairs, config, pass, missed, faults>>

\* Where a sweep goes with the image that has survived the effects.
Survive(s) ==
    row' = [row EXCEPT ![s].seen = item,
                       ![s].pc = IF item = None THEN "release" ELSE "restore",
                       ![s].after = IF item = None THEN "idle" ELSE "insert"]

\* APPLIED: read the item once more.
FinalRead(s) ==
    LET r == row[s] IN
    /\ r.pc = "final"
    /\ IF item = r.work.img THEN Goto(s, "own")
       ELSE IF r.drain THEN Goto(s, "survivor") ELSE Survive(s)
    /\ Local

\* Mutant: the delete is conditioned on the owner alone.
DeleteByOwner(s) ==
    LET r == row[s] IN
    /\ r.pc = "delete"
    /\ IF owner = r.work.id
       THEN /\ item' = None /\ owner' = None /\ sealed' = FALSE
            /\ Now({Item, Owner})
            /\ Goto(s, IF r.drain THEN "destroy" ELSE "record")
       ELSE Goto(s, "survivor") /\ UNCHANGED <<base, batch>>
    /\ UNCHANGED <<index, queue, repairs, config, pass, missed, faults>>

\* delete_ttl_base_exact
DeleteBase(s) ==
    LET r == row[s] IN
    /\ r.pc = "delete"
    /\ IF owner = r.work.id /\ item = r.work.img
       THEN /\ item' = None /\ owner' = None /\ sealed' = FALSE
            /\ Now({Item, Owner})
            /\ Goto(s, IF r.drain THEN "destroy" ELSE "record")
       ELSE Goto(s, "survivor") /\ UNCHANGED <<base, batch>>
    /\ UNCHANGED <<index, queue, repairs, config, pass, missed, faults>>

\* The base row was not deleted: read the item again.  A sweep that finds the
\* image unchanged leaves the row for the next pass.
ReadSurvivor(s) ==
    LET r == row[s] IN
    /\ r.pc = "survivor"
    /\ IF item = r.work.img /\ ~r.drain THEN Quit(s) ELSE Survive(s)
    /\ Local

\* Mutant: the survivor of the effects does not get its index rows back.
RestoreNothing(s) ==
    /\ row[s].pc = "restore"
    /\ Goto(s, "release")
    /\ Local

\* restore_sync_indexes_for_item
RestoreIndex(s) ==
    /\ row[s].pc = "restore"
    /\ idx' = row[s].seen /\ idxNewer' = Works
    /\ Now({Index})
    /\ Goto(s, "release")
    /\ UNCHANGED <<base, replays, queue, repairs, config, pass, missed, faults>>

\* release_ttl_claim; then the row goes, in a cleanup of applied work without a marker.
ReleaseBase(s) ==
    LET r == row[s] IN
    /\ r.pc = "release"
    /\ IF owner = r.work.id
       THEN owner' = None /\ sealed' = FALSE /\ Now({Owner})
       ELSE UNCHANGED <<owner, sealed, batch>>
    /\ Goto(s, IF r.drain /\ r.st = "APPLIED" THEN "destroy" ELSE "record")
    /\ UNCHANGED <<item, index, queue, repairs, config, pass, missed, faults>>

-----------------------------------------------------------------------------
\* Destroying a row of the queue under a repair marker

Guarded(r) == ~(r.drain /\ r.st = "APPLIED")
Marking == {s \in Hosts : row[s].pc \in {"destroy", "handoff", "unmark"} /\ Guarded(row[s])}
Marked == markers # {} \/ Marking # {}

\* record_ttl_repair: from here on the sweeper's marker stands.
RecordRepair(s) == row[s].pc = "record" /\ Goto(s, "destroy") /\ Local

\* The condition of a destroy: the state, and the work of a row under work.
Matches(d) ==
    LET q == queue[d.gen][d.exp] IN q.st = d.st /\ (d.st = "PENDING" \/ q.work.id = d.id)
Doomed(r) == [gen |-> r.gen, exp |-> r.exp, st |-> r.st,
              id |-> IF r.st = "PENDING" THEN None ELSE r.work.id]

\* retire_pending_row, abort_claimed_ttl_work, complete_ttl_work
Destroy(s) ==
    LET r == row[s] IN
    /\ r.pc = "destroy"
    /\ IF Matches(Doomed(r)) THEN SetRow(r, Empty) ELSE UNCHANGED <<queue, batch>>
    /\ IF Guarded(r)
       THEN row' = [row EXCEPT ![s].pc = "handoff",
                               ![s].after = IF Matches(Doomed(r)) THEN @ ELSE "idle"]
       ELSE Quit(s)
    /\ UNCHANGED <<base, index, repairs, config, pass, missed, faults>>

\* Mutant: the marker goes and no outbox row takes its place.
HandoffForgets(s) == row[s].pc = "handoff" /\ Goto(s, "unmark") /\ Local

\* TtlRepairGuard::complete: first the outbox row, then the marker goes.
Handoff(s) ==
    /\ row[s].pc = "handoff"
    /\ outbox' = TRUE
    /\ Goto(s, "unmark")
    /\ UNCHANGED <<base, index, queue, markers, ghosts, config, batch, pass, missed, faults>>

Unmark(s) ==
    /\ row[s].pc = "unmark"
    /\ IF row[s].after = "idle" THEN Quit(s) ELSE Goto(s, row[s].after)
    /\ Local

\* A retired row: the item is read again before it is registered.
Reread(s) ==
    /\ row[s].pc = "reread"
    /\ IF item = None THEN Quit(s)
       ELSE row' = [row EXCEPT ![s].pc = "insert", ![s].seen = item]
    /\ Local

\* insert_ttl_entry: the row is PENDING afterwards, or is under work already.
Insert(g, e) ==
    IF e # None /\ queue[g][e].st = "none"
    THEN SetRow([gen |-> g, exp |-> e], [Empty EXCEPT !.st = "PENDING"])
    ELSE UNCHANGED <<queue, batch>>

InsertSeen(s) ==
    /\ row[s].pc = "insert"
    /\ Insert(row[s].gen, Expiry(row[s].seen))
    /\ Quit(s)
    /\ UNCHANGED <<base, index, repairs, config, pass, missed, faults>>

\* The process stops; its marker stays.
Crash(s) ==
    /\ row[s].pc # "idle" /\ faults < MaxFaults
    /\ faults' = faults + 1
    /\ markers' = IF s \in Marking THEN markers \cup {row[s].gen} ELSE markers
    /\ Quit(s)
    /\ UNCHANGED <<base, index, queue, outbox, ghosts, config, batch, pass, missed>>

\* A destroy is not answered: it may apply now, later or never.
DestroyUnknown(s) ==
    /\ s \in Marking /\ row[s].pc = "destroy" /\ faults < MaxFaults
    /\ faults' = faults + 1
    /\ markers' = markers \cup {row[s].gen}
    /\ ghosts' = ghosts \cup {Doomed(row[s])}
    /\ Quit(s)
    /\ UNCHANGED <<base, index, queue, outbox, config, batch, pass, missed>>

LateDestroy(d) ==
    /\ d \in ghosts
    /\ ghosts' = ghosts \ {d}
    /\ IF Matches(d) THEN SetRow(d, Empty) ELSE UNCHANGED <<queue, batch>>
    /\ UNCHANGED <<base, index, outbox, markers, config, row, pass, missed, faults>>

-----------------------------------------------------------------------------
\* The passes that repair the queue from the item

\* A pass reads the configuration and the item.
ReadForPass(kind) ==
    /\ pass.kind = "none"
    /\ pass' = [kind |-> kind, gen |-> gen, seen |-> item]
    /\ UNCHANGED <<base, index, queue, markers, ghosts, config, batch, row, faults>>

\* reconcile_pending_older_than takes a row of the outbox.
TakeOutboxRow ==
    /\ outbox /\ ReadForPass("outbox")
    /\ outbox' = FALSE
    /\ missed' = (missed \/ \E w \in Writers : batch[w].landed = {"rest"})

\* reconcile_inflight_repairs_once
TakeMarker == Marked /\ ReadForPass("repair") /\ UNCHANGED <<outbox, missed>>

\* audit_ttl_queue_for_table
AuditItem == gen # 0 /\ ready /\ ReadForPass("audit") /\ UNCHANGED <<outbox, missed>>

\* backfill_ttl_queue
BackfillItem == gen # 0 /\ ~ready /\ ReadForPass("backfill") /\ UNCHANGED <<outbox, missed>>

\* The pass registers what it read.  A row under work is no answer.
PassExpiry == IF pass.gen = 0 THEN None ELSE Expiry(pass.seen)
UnderWork == PassExpiry # None /\ queue[pass.gen][PassExpiry].st \notin Unclaimed

RegisterSeen(kind) ==
    /\ pass.kind = kind
    /\ Insert(pass.gen, PassExpiry)
    /\ pass' = NoPass
    /\ UNCHANGED <<base, index, ghosts, gen, cleanup, lastGen, cleared, row, missed, faults>>

\* The outbox row goes, unless its item's row is under work.
Discharge ==
    /\ RegisterSeen("outbox")
    /\ outbox' = (outbox \/ UnderWork)
    /\ UNCHANGED <<markers, ready>>

\* A marker goes only when its generation is retired.
RetireMarkers ==
    /\ RegisterSeen("repair")
    /\ markers' = IF UnderWork THEN markers ELSE markers \cap {pass.gen}
    /\ UNCHANGED <<outbox, ready>>

AuditDone == RegisterSeen("audit") /\ UNCHANGED <<outbox, markers, ready>>

\* The queue is ready, if its generation is still the current one.
BackfillDone ==
    /\ RegisterSeen("backfill")
    /\ ready' = (ready \/ (~UnderWork /\ gen = pass.gen))
    /\ UNCHANGED <<outbox, markers>>

\* The pass's host stops.
PassCrash ==
    /\ pass.kind # "none" /\ faults < MaxFaults
    /\ faults' = faults + 1
    /\ outbox' = (outbox \/ pass.kind = "outbox")
    /\ pass' = NoPass
    /\ UNCHANGED <<base, index, queue, markers, ghosts, config, batch, row, missed>>

-----------------------------------------------------------------------------
\* The lifecycle of a table's TTL

\* update_ttl
Enable ==
    /\ gen = 0 /\ cleanup = 0 /\ lastGen < MaxGen
    /\ gen' = lastGen + 1 /\ lastGen' = lastGen + 1 /\ ready' = FALSE
    /\ UNCHANGED <<base, index, queue, repairs, cleanup, cleared, batch, row, pass, missed, faults>>

Disable ==
    /\ gen # 0 /\ cleanup = 0
    /\ cleanup' = gen /\ gen' = 0 /\ ready' = FALSE
    /\ UNCHANGED <<base, index, queue, repairs, lastGen, cleared, batch, row, pass, missed, faults>>

\* clear_ttl_generation: a row that is not under work goes without a marker.
ClearRow(e) ==
    /\ cleanup # 0 /\ e \notin cleared /\ queue[cleanup][e].st \in Unclaimed
    /\ IF queue[cleanup][e].st = "PENDING" THEN SetRow([gen |-> cleanup, exp |-> e], Empty)
       ELSE UNCHANGED <<queue, batch>>
    /\ cleared' = cleared \cup {e}
    /\ UNCHANGED <<base, index, repairs, gen, cleanup, ready, lastGen, row, pass, missed, faults>>

\* complete_ttl_cleanup
FinishCleanup ==
    /\ cleanup # 0 /\ cleared = Expiries
    /\ cleanup' = 0 /\ cleared' = {}
    /\ UNCHANGED <<base, index, queue, repairs, gen, ready, lastGen, batch, row, pass, missed, faults>>

-----------------------------------------------------------------------------
\* TTL is disabled, or enabled with the item registered.
Init ==
    /\ item \in Images0 /\ idx = item /\ owner = None /\ sealed = FALSE /\ idxNewer = Works /\ replays = {}
    /\ gen \in {0, 1} /\ lastGen = gen /\ ready = (gen # 0) /\ cleanup = 0 /\ cleared = {}
    /\ queue = [g \in Gens |-> [e \in Expiries |->
                   IF g = gen /\ e = Expiry(item) THEN [Empty EXCEPT !.st = "PENDING"] ELSE Empty]]
    /\ outbox = FALSE /\ markers = {} /\ ghosts = {}
    /\ batch = [w \in Writers |-> Resting] /\ row = [s \in Hosts |-> NoRow] /\ pass = NoPass
    /\ missed = FALSE /\ faults = 0

Land(w) == LandBase(w) \/ LandRest(w)

Write(w) ==
    \/ \E img \in Images0, g \in Gens : ClaimAndSend(w, img, g)
    \/ \E img \in Images : OccWrite(w, img)
    \/ Land(w) \/ GiveUp(w) \/ Lose(w)

RowStep(s) ==
    \/ ReadItem(s) \/ ClaimWork(s) \/ CheckItem(s) \/ AbortWork(s) \/ OwnBase(s) \/ Gate(s)
    \/ Seal(s) \/ MarkApplying(s) \/ CheckOwner(s) \/ ApplyEffects(s) \/ MarkApplied(s)
    \/ FinalRead(s) \/ DeleteBase(s) \/ ReadSurvivor(s) \/ RestoreIndex(s) \/ ReleaseBase(s)
    \/ RecordRepair(s) \/ Destroy(s) \/ Handoff(s) \/ Unmark(s) \/ Reread(s) \/ InsertSeen(s)

Next ==
    \/ \E w \in Writers : Write(w)
    \/ ExpireClaim
    \/ \E e \in Expiries : (\E s \in Sweepers : Load(s, e)) \/ (\E s \in Cleaners : DrainLoad(s, e))
    \/ \E s \in Hosts : RowStep(s) \/ Crash(s) \/ EffectsUnknown(s) \/ DestroyUnknown(s)
    \/ \E k \in replays : Replay(k)
    \/ \E d \in ghosts : LateDestroy(d)
    \/ TakeOutboxRow \/ TakeMarker \/ AuditItem \/ BackfillItem
    \/ Discharge \/ RetireMarkers \/ AuditDone \/ BackfillDone \/ PassCrash
    \/ Enable \/ Disable \/ FinishCleanup \/ \E e \in Expiries : ClearRow(e)

Spec == Init /\ [][Next]_vars

-----------------------------------------------------------------------------
\* An item of a table whose TTL is active that has an expiration time is in the
\* queue under it, or something durable will put it there: an outbox row, a
\* marker, or a batch of which a part has landed.  (Except an item written by
\* a host that took TTL for disabled, or whose outbox row was read before it:
\* those are the audit's.)  This is so for batches of one generation; a write
\* that holds the configuration of a retired one can bring the item back while
\* another's rest part removes its queue row (MCTtlWorkStaleGen).
Registered ==
    LET e == Expiry(item) IN
    (gen # 0 /\ ready /\ e # None /\ ~missed) =>
        \/ queue[gen][e].st # "none"
        \/ outbox \/ pass.kind = "outbox" \/ Marked
        \/ \E w \in Writers : /\ batch[w].pc = "sent"
                              /\ batch[w].new = item \/ "rest" \in batch[w].landed

\* Work that a later pass can complete: the queue still holds it.
Held(k) == \E g \in Gens, e \in Expiries :
              queue[g][e].work.id = k /\ queue[g][e].st \notin Unclaimed

\* A base row that belongs to work without a time limit, and that no sweep is
\* busy with, has that work in the queue: what a sweep leaves behind after the
\* seal, the next one finds and completes.
SealedWorkHeld == (sealed /\ \A s \in Hosts : row[s].work.id # owner) => Held(owner)

\* While the effects of work are being applied the base row belongs to the
\* work, without a time limit.
Fenced ==
    \A g \in Gens, e \in Expiries :
        (queue[g][e].st = "APPLYING" /\ queue[g][e].work # NoWork)
            => sealed /\ owner = queue[g][e].work.id

\* When nothing is under way the index shows an item that is there: what has
\* survived the effects of work, or their replay, has its rows again.  This is
\* so for one write.  Of two batches that outlive their claims, the second can
\* land its base part after the survivor is read, and its index part loses to
\* the effects (MCTtlWorkTwoBatches); and rows restored for a survivor of work
\* that crashed after its release replace those of a later write
\* (MCTtlWorkLateRestore).
IndexKept ==
    (/\ \A s \in Hosts : row[s].pc = "idle"
     /\ \A w \in Writers : batch[w].pc # "sent"
     /\ \A g \in Gens, e \in Expiries : queue[g][e].st \notin {"APPLYING", "APPLIED"}
     /\ item # None)
        => idx = item

\* Index rows go with a writer's batch, or while work owns the base row: the
\* effects of work that is over, replayed late, erase nothing.
NoBatchLands == \A w \in Writers : batch'[w].landed = batch[w].landed /\ batch'[w].pc = batch[w].pc
EffectsFenced == [][(NoBatchLands /\ idx # None /\ idx' = None)
                        => sealed /\ owner \in Works]_vars

\* Expiration deletes only an image whose time has come, though the work was
\* made for what the item was when the row was read.
Expires == item # None /\ item' = None /\ NoBatchLands
OnlyDueDeleted == [][Expires => Expiry(item) \in Due]_vars
=============================================================================
