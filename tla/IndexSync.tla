----------------------------- MODULE IndexSync ------------------------------
(* The rows that one item of a Cassandra table has in one secondary index.  *)
(* Every write commits the base row with a lightweight transaction and then *)
(* writes the index rows in a batch of its own, or queues them for the GSI  *)
(* worker; a new index is filled by a backfill that runs beside the writes. *)
(* What keeps the index in the order of the base row is the write timestamp *)
(* of its rows: the version that the base row got.                          *)
EXTENDS Naturals, FiniteSets

CONSTANTS
    Writers,      \* calls of PutItem, UpdateItem and DeleteItem, one write each
    Builders,     \* passes of the backfill recovery worker over the index
    IndexKeys,    \* values of the index key
    Self,         \* the row of the item in the base table
    Others,       \* the other rows of the base table
    Token,        \* token(pk) of a row: the rows of one partition share it
    PageSize,     \* the LIMIT of the backfill's pages
    LwtTime,      \* least time from a clock reading to the commit of the LWT it is bound to
    Grain,        \* what the clock advances by
    MaxClock,     \* bound on the clock
    First,        \* the writer of an item that is there from the start
    NoKey,        \* an image without the index key
    Absent,       \* no item
    Tomb,         \* a deleted index row
    None          \* a row never written

(* The hosts' clocks agree, and an LWT takes longer than two microseconds.  *)
ASSUME IndexAssumption ==
    /\ LwtTime \in Nat /\ LwtTime >= 2
    /\ Grain \in Nat \ {0} /\ MaxClock \in Nat
    /\ Self \notin Others
    /\ Token \in [Others \cup {Self} -> Nat \ {0}]
    /\ PageSize \in Nat \ {0}
    /\ NoKey \notin IndexKeys
    /\ First \notin Writers
    /\ Tomb \notin Writers \cup {First, None}
    /\ None \notin Writers \cup {First}
    /\ Absent \notin [ik : IndexKeys \cup {NoKey}, by : Writers \cup {First}, ver : Nat]

VARIABLES
    clock,        \* the hosts' clock, in microseconds
    base,         \* the base row: index key, writer and version, or Absent
    prior,        \* an earlier image of the row, that a replica may still show
    status,       \* index_status of the catalog row: "none", "CREATING", "ACTIVE"
    hold,         \* the row of index_propagation_holds
    table,        \* the index data table exists
    delayed,      \* the index has a propagation delay: its writes are queued
    rows,         \* the index data table: what each index key's row holds
    flight,       \* statements sent to the index data table that have not landed
    queue,        \* gsi_pending: the statements of each entry
    applying,     \* entries a worker read and found not held
    creation,     \* apply_table_update for the new index
    w,            \* a write between its queries
    b,            \* a backfill between its queries
    gap,          \* history: an event happened after which the index may differ
    skip          \* history: a backfill went past the item without its image

vars == <<clock, base, prior, status, hold, table, delayed, rows, flight, queue, applying,
          creation, w, b, gap, skip>>

indexVars == <<status, hold, table, creation, b>>
rowVars == <<rows, flight, queue, applying>>

Keys == IndexKeys \cup {NoKey}
Authors == Writers \cup {First}
Items == [ik : Keys, by : Authors, ver : Nat]
Cells == [ts : Nat, val : Authors \cup {Tomb, None}]
Ops == [ik : IndexKeys, ts : Nat, val : Authors \cup {Tomb}]
Kinds == {"put", "update", "create", "delete"}
WriteState ==
    [pc : {"idle", "read", "stamp", "lwt", "batch", "done"}, kind : Kinds, ik : Keys,
     sees : BOOLEAN, old : Items \cup {Absent}, at : Nat, late : BOOLEAN, ops : SUBSET Ops]
BackfillState ==
    [pc : {"idle", "drop", "create", "hold", "scan", "write", "token", "activate", "release"},
     page : SUBSET Ops, last : Nat, more : BOOLEAN]

Idle == [pc |-> "idle", kind |-> "put", ik |-> NoKey, sees |-> FALSE, old |-> Absent,
         at |-> 0, late |-> FALSE, ops |-> {}]
Done == [Idle EXCEPT !.pc = "done"]
Unused == [pc |-> "idle", page |-> {}, last |-> 0, more |-> FALSE]

EmptyTable == [k \in IndexKeys |-> [ts |-> 0, val |-> None]]

-----------------------------------------------------------------------------
(* Versions and index statements.                                           *)

(* next_row_version_at.                                                     *)
NextVersion(old, now) ==
    IF old = Absent THEN now ELSE IF old.ver + 1 > now THEN old.ver + 1 ELSE now

(* A delete that reads the clock after its fence.                           *)
DeleteStampFromClock(old) == clock

(* delete_stamp.                                                            *)
DeleteStamp(old) == old.ver + 1

(* Statements that delete the old row even where the new row is the same.   *)
SyncDeletesAlways(old, new, stamp) ==
    {[ik |-> i.ik, ts |-> stamp, val |-> Tomb] : i \in {j \in {old} \ {Absent} : j.ik # NoKey}}
    \cup {[ik |-> i.ik, ts |-> stamp, val |-> i.by] :
             i \in {j \in {new} \ {Absent} : j.ik # NoKey}}

(* sync_indexes_at, gsi_apply_index: the old image's row is deleted only    *)
(* where the row moves, the new image's row is written.                     *)
SyncIndexes(old, new, stamp) ==
    {[ik |-> i.ik, ts |-> stamp, val |-> Tomb] :
        i \in {j \in {old} \ {Absent} : j.ik # NoKey /\ (new # Absent => new.ik # j.ik)}}
    \cup {[ik |-> i.ik, ts |-> stamp, val |-> i.by] :
             i \in {j \in {new} \ {Absent} : j.ik # NoKey}}

(* Cassandra keeps the larger write timestamp, and the tombstone of a tie.  *)
Newest(cell, o) ==
    IF o.ts > cell.ts \/ (o.ts = cell.ts /\ o.val = Tomb)
    THEN [ts |-> o.ts, val |-> o.val] ELSE cell

-----------------------------------------------------------------------------
(* What the gaps are made of.                                               *)

Sending == {x \in Writers : w[x].pc = "batch"}
Underway(c) == b[c].pc \in {"create", "hold", "scan", "write", "token", "activate"}

(* Index statements of another committed write, or of a page, are to come.  *)
OthersOutstanding(writes, entries) ==
    \/ Sending \ writes # {}
    \/ (queue \cup applying) \ entries # {}
    \/ \E c \in Builders : b[c].pc = "write"

Outstanding == OthersOutstanding({}, {})

HasTombstone ==
    \/ \E k \in IndexKeys : rows[k].val = Tomb
    \/ \E o \in flight : o.val = Tomb

-----------------------------------------------------------------------------
(* Writes.                                                                  *)

(* fetch_indexes_for_table: the write knows the index if it is listed.      *)
Fetch(x) ==
    /\ w[x].pc = "idle"
    /\ \E kind \in Kinds, ik \in Keys :
          /\ kind = "delete" => ik = NoKey
          /\ w' = [w EXCEPT ![x] = [Idle EXCEPT
                     !.pc = IF kind = "create" THEN "stamp" ELSE "read",
                     !.kind = kind, !.ik = ik, !.sees = status # "none"]]
    /\ UNCHANGED <<clock, base, prior, delayed, indexVars, rowVars, gap, skip>>

(* The read of the row, at consistency ONE; a delete of an absent item ends. *)
Read(x) ==
    /\ w[x].pc = "read"
    /\ \E img \in {base, prior} :
          w' = [w EXCEPT ![x] =
                  IF w[x].kind # "delete" THEN [@ EXCEPT !.pc = "stamp", !.old = img]
                  ELSE IF img = Absent THEN Done
                  ELSE [@ EXCEPT !.pc = "lwt", !.old = img]]
    /\ UNCHANGED <<clock, base, prior, delayed, indexVars, rowVars, gap, skip>>

(* occ_write, put_item_if_not_exists: the clock is read for the version.    *)
Stamp(x) ==
    /\ w[x].pc = "stamp"
    /\ w' = [w EXCEPT ![x] = [@ EXCEPT !.pc = "lwt", !.at = clock, !.late = FALSE]]
    /\ UNCHANGED <<clock, base, prior, delayed, indexVars, rowVars, gap, skip>>

(* A create that leaves the version null.                                   *)
NullVersion(x) ==
    IF w[x].kind = "delete" THEN DeleteStamp(w[x].old)
    ELSE IF w[x].old = Absent THEN None ELSE NextVersion(w[x].old, w[x].at)

(* The version a write stores, or the stamp of a delete.                    *)
Version(x) ==
    IF w[x].kind = "delete" THEN DeleteStamp(w[x].old) ELSE NextVersion(w[x].old, w[x].at)

(* IF version = ?, or IF item_data = null for an item read as absent.       *)
Fence(old) == IF old = Absent THEN base = Absent ELSE base # Absent /\ base.ver = old.ver

NewImage(x) ==
    IF w[x].kind = "delete" THEN Absent
    ELSE [ik |-> w[x].ik, by |-> x, ver |-> Version(x)]

(* The others that create the item and have read their clock already.       *)
MarkLate(x) ==
    [y \in Writers |->
        IF y # x /\ w[y].pc = "lwt" /\ w[y].old = Absent /\ w[x].kind # "delete"
        THEN [w[y] EXCEPT !.late = TRUE] ELSE w[y]]

(* The LWT applies.                                                         *)
Commit(x) ==
    /\ w[x].pc = "lwt"
    /\ w[x].kind # "delete" => clock >= w[x].at + LwtTime
    /\ Fence(w[x].old)
    /\ base' = NewImage(x)
    /\ prior' \in {prior, base}
    /\ w' = [MarkLate(x) EXCEPT ![x] =
               IF w[x].sees
               THEN [Idle EXCEPT !.pc = "batch",
                       !.ops = SyncIndexes(w[x].old, NewImage(x), Version(x))]
               ELSE Done]
    /\ gap' = (gap \/ w[x].late \/ (~w[x].sees /\ status # "none"))
    /\ UNCHANGED <<clock, delayed, indexVars, rowVars, skip>>

(* The LWT does not apply: an update reads again with the index list it     *)
(* has, a put or delete starts over, a create fails its condition.          *)
Lost(x) ==
    /\ w[x].pc = "lwt"
    /\ ~Fence(w[x].old)
    /\ w' = [w EXCEPT ![x] =
               CASE w[x].kind = "update" -> [@ EXCEPT !.pc = "read", !.old = Absent, !.at = 0]
                 [] w[x].kind = "create" -> Done
                 [] OTHER -> Idle]
    /\ UNCHANGED <<clock, base, prior, delayed, indexVars, rowVars, gap, skip>>

(* The batch: index statements, or an entry of the queue. It is refused     *)
(* while the index table does not exist.                                    *)
SendBatch(x) ==
    /\ w[x].pc = "batch"
    /\ w' = [w EXCEPT ![x] = Done]
    /\ \/ /\ delayed
          /\ queue' = queue \cup {w[x].ops}
          /\ UNCHANGED <<flight, gap>>
       \/ /\ ~delayed /\ table
          /\ flight' = flight \cup w[x].ops
          /\ UNCHANGED <<queue, gap>>
       \/ /\ ~delayed /\ ~table
          /\ gap' = (gap \/ ((\E o \in w[x].ops : o.val = Tomb) /\ OthersOutstanding({x}, {})))
          /\ UNCHANGED <<flight, queue>>
    /\ UNCHANGED <<clock, base, prior, delayed, indexVars, rows, applying, skip>>

(* The server dies before the batch, or the LWT applies and its answer is   *)
(* an error: the index statements are never sent.                           *)
LoseBatch(x) ==
    /\ w[x].pc = "batch"
    /\ w' = [w EXCEPT ![x] = Done]
    /\ gap' = TRUE
    /\ UNCHANGED <<clock, base, prior, delayed, indexVars, rowVars, skip>>

(* A statement of a batch lands, each in its own time.                      *)
Land(o) ==
    /\ o \in flight
    /\ flight' = flight \ {o}
    /\ rows' = [rows EXCEPT ![o.ik] = Newest(@, o)]
    /\ UNCHANGED <<clock, base, prior, delayed, indexVars, queue, applying, w, gap, skip>>

-----------------------------------------------------------------------------
(* The GSI workers of the servers.                                          *)

(* gsi_process_batch: an entry is read, and its table has no hold.          *)
TakeEntry(e) ==
    /\ e \in queue \ applying
    /\ ~hold
    /\ applying' = applying \cup {e}
    /\ UNCHANGED <<clock, base, prior, delayed, indexVars, rows, flight, queue, w, gap, skip>>

(* The entry is applied at its stamp and removed, or, when the index table  *)
(* is gone, only removed. The worker of another server may be at it still.  *)
ApplyEntry(e) ==
    /\ e \in applying
    /\ applying' \in {applying, applying \ {e}}
    /\ queue' = queue \ {e}
    /\ flight' = IF table THEN flight \cup e ELSE flight
    /\ gap' = (gap \/ (~table /\ (\E o \in e : o.val = Tomb) /\ OthersOutstanding({}, {e})))
    /\ UNCHANGED <<clock, base, prior, delayed, indexVars, rows, w, skip>>

(* The batch fails, or the worker stops before it removes the entry: the    *)
(* entry stays, whether or not its statements land.                         *)
ApplyFails(e) ==
    /\ e \in applying
    /\ applying' = applying \ {e}
    /\ \/ UNCHANGED flight
       \/ table /\ flight' = flight \cup e
    /\ UNCHANGED <<clock, base, prior, delayed, indexVars, rows, queue, w, gap, skip>>

-----------------------------------------------------------------------------
(* The new index.                                                           *)

(* apply_table_update: the hold, then the catalog row, then the table.      *)
TakeHold ==
    /\ creation = "none"
    /\ creation' = "held"
    /\ hold' = TRUE
    /\ UNCHANGED <<clock, base, prior, delayed, status, table, b, rowVars, w, gap, skip>>

(* Any step of it fails before the catalog row is there.                    *)
CreationFails ==
    /\ creation = "held"
    /\ creation' = "over"
    /\ hold' = FALSE
    /\ UNCHANGED <<clock, base, prior, delayed, status, table, b, rowVars, w, gap, skip>>

ListIndex ==
    /\ creation = "held"
    /\ creation' = "listed"
    /\ status' = "CREATING"
    /\ UNCHANGED <<clock, base, prior, delayed, hold, table, b, rowVars, w, gap, skip>>

CreateTable ==
    /\ creation = "listed"
    /\ creation' = "over"
    /\ table' = TRUE
    /\ UNCHANGED <<clock, base, prior, delayed, status, hold, b, rowVars, w, gap, skip>>

(* recover_stale_backfills: a CREATING index without a heartbeat, or whose  *)
(* heartbeat is old: that of a dead backfill, or of a slow one.             *)
Scan(c) ==
    /\ b[c].pc = "idle"
    /\ status = "CREATING"
    /\ b' = [b EXCEPT ![c].pc = "drop"]
    /\ UNCHANGED <<clock, base, prior, delayed, status, hold, table, creation, rowVars, w, gap,
                   skip>>

(* drop_index_data_table; what was on its way to the table goes with it.    *)
Drop(c) ==
    /\ b[c].pc = "drop"
    /\ b' = [b EXCEPT ![c].pc = "create"]
    /\ table' = FALSE
    /\ rows' = EmptyTable
    /\ flight' = {}
    /\ gap' = (gap \/ status # "CREATING" \/ (\E d \in Builders \ {c} : Underway(d))
                   \/ (HasTombstone /\ Outstanding))
    /\ UNCHANGED <<clock, base, prior, delayed, status, hold, creation, queue, applying, w, skip>>

Recreate(c) ==
    /\ b[c].pc = "create"
    /\ b' = [b EXCEPT ![c].pc = "hold"]
    /\ table' = TRUE
    /\ UNCHANGED <<clock, base, prior, delayed, status, hold, creation, rowVars, w, gap, skip>>

(* take_propagation_hold.                                                   *)
Retake(c) ==
    /\ b[c].pc = "hold"
    /\ b' = [b EXCEPT ![c].pc = "scan"]
    /\ hold' = TRUE
    /\ UNCHANGED <<clock, base, prior, delayed, status, table, creation, rowVars, w, gap, skip>>

(* WHERE token(pk) > last LIMIT PageSize, answered by a replica that shows  *)
(* img: partitions in the order of their tokens, and as much of the last    *)
(* one as the page still holds. The other rows come and go as they like.    *)
IsPage(page, last, img) ==
    /\ \A r \in page : Token[r] > last
    /\ Cardinality(page) <= PageSize
    /\ Self \in page => img # Absent
    /\ (img # Absent /\ last < Token[Self] /\ Self \notin page) =>
          /\ Cardinality(page) = PageSize
          /\ \A r \in page : Token[r] <= Token[Self]

(* What a backfill makes of a page that ends in the partition of end.       *)
AfterPage(page, img, stamp, end) ==
    [pc |-> "write", page |-> IF Self \in page THEN SyncIndexes(Absent, img, stamp) ELSE {},
     last |-> Token[end], more |-> Cardinality(page) = PageSize]

(* The page leaves the place of the item behind with another image of it    *)
(* than it has, or with none.                                               *)
Skips(page, last, img) ==
    /\ last < Token[Self]
    /\ Cardinality(page) = PageSize => \E r \in page : Token[Self] <= Token[r]
    /\ base # (IF Self \in page THEN img ELSE Absent)

(* A backfill that leaves the timestamp to the coordinator.                 *)
ReadPageAtClock(c) ==
    /\ b[c].pc = "scan"
    /\ \E page \in SUBSET (Others \cup {Self}), img \in {base, prior} :
          /\ IsPage(page, b[c].last, img)
          /\ \/ page = {} /\ b' = [b EXCEPT ![c] = [Unused EXCEPT !.pc = "activate"]]
             \/ \E end \in page :
                   /\ \A r \in page : Token[r] <= Token[end]
                   /\ b' = [b EXCEPT ![c] = AfterPage(page, img, clock, end)]
          /\ skip' = (skip \/ Skips(page, b[c].last, img))
    /\ UNCHANGED <<clock, base, prior, delayed, status, hold, table, creation, rowVars, w, gap>>

(* backfill_gsi: a page is read at consistency ONE; its rows go to the      *)
(* index with the versions of their items. An empty page ends the scan.     *)
ReadPage(c) ==
    /\ b[c].pc = "scan"
    /\ \E page \in SUBSET (Others \cup {Self}), img \in {base, prior} :
          /\ IsPage(page, b[c].last, img)
          /\ \/ page = {} /\ b' = [b EXCEPT ![c] = [Unused EXCEPT !.pc = "activate"]]
             \/ \E end \in page :
                   /\ \A r \in page : Token[r] <= Token[end]
                   /\ b' = [b EXCEPT ![c] = AfterPage(page, img, img.ver, end)]
          /\ skip' = (skip \/ Skips(page, b[c].last, img))
    /\ UNCHANGED <<clock, base, prior, delayed, status, hold, table, creation, rowVars, w, gap>>

(* The index rows of the page are written. A page that is not full is the   *)
(* last one.                                                                *)
WritePage(c) ==
    /\ b[c].pc = "write"
    /\ table \/ b[c].page = {}
    /\ flight' = flight \cup b[c].page
    /\ b' = [b EXCEPT ![c] = IF b[c].more THEN [@ EXCEPT !.pc = "token", !.page = {}]
                             ELSE [Unused EXCEPT !.pc = "activate"]]
    /\ UNCHANGED <<clock, base, prior, delayed, status, hold, table, creation, rows, queue,
                   applying, w, gap, skip>>

(* SELECT token(pk) WHERE pk = ?, for the partition the page ended in: the  *)
(* next page starts behind it. When no row of it is left the scan ends.     *)
AdvanceCursor(c) ==
    /\ b[c].pc = "token"
    /\ \/ /\ \/ \E r \in Others : Token[r] = b[c].last
             \/ Token[Self] = b[c].last /\ {base, prior} # {Absent}
          /\ b' = [b EXCEPT ![c].pc = "scan"]
          /\ UNCHANGED skip
       \/ /\ Token[Self] = b[c].last => Absent \in {base, prior}
          /\ b' = [b EXCEPT ![c] = [Unused EXCEPT !.pc = "activate"]]
          /\ skip' = (skip \/ (b[c].last < Token[Self] /\ base # Absent))
    /\ UNCHANGED <<clock, base, prior, delayed, status, hold, table, creation, rowVars, w, gap>>

Activate(c) ==
    /\ b[c].pc = "activate"
    /\ b' = [b EXCEPT ![c].pc = "release"]
    /\ status' = "ACTIVE"
    /\ UNCHANGED <<clock, base, prior, delayed, hold, table, creation, rowVars, w, gap,
                   skip>>

(* release_propagation_hold.                                                *)
Release(c) ==
    /\ b[c].pc = "release"
    /\ b' = [b EXCEPT ![c] = Unused]
    /\ hold' = FALSE
    /\ UNCHANGED <<clock, base, prior, delayed, status, table, creation, rowVars, w, gap, skip>>

(* The scan, a page or the activation fails: the hold goes, the index stays *)
(* CREATING. A page that fails may have been written.                       *)
BackfillFails(c) ==
    /\ b[c].pc \in {"scan", "write", "token", "activate"}
    /\ b' = [b EXCEPT ![c] = [Unused EXCEPT !.pc = "release"]]
    /\ \/ UNCHANGED flight
       \/ table /\ flight' = flight \cup b[c].page
    /\ UNCHANGED <<clock, base, prior, delayed, status, hold, table, creation, rows, queue,
                   applying, w, gap, skip>>

(* The server stops, or a step before the backfill fails; a page under way  *)
(* may land all the same.                                                   *)
Stop(c) ==
    /\ b[c].pc # "idle"
    /\ b' = [b EXCEPT ![c] = Unused]
    /\ \/ UNCHANGED flight
       \/ table /\ flight' = flight \cup b[c].page
    /\ UNCHANGED <<clock, base, prior, delayed, status, hold, table, creation, rows, queue,
                   applying, w, gap, skip>>

-----------------------------------------------------------------------------

Tick ==
    /\ clock < MaxClock
    /\ clock' = clock + Grain
    /\ UNCHANGED <<base, prior, delayed, indexVars, rowVars, w, gap, skip>>

(* A table with or without an item, before the index or with it.            *)
Init ==
    /\ clock = 1 + LwtTime
    /\ base \in {Absent} \cup {[ik |-> k, by |-> First, ver |-> 1] : k \in Keys}
    /\ prior = base
    /\ \/ status = "none" /\ table = FALSE /\ creation = "none" /\ rows = EmptyTable
       \/ /\ status = "ACTIVE" /\ table = TRUE /\ creation = "over"
          /\ rows = [k \in IndexKeys |->
                       IF base # Absent /\ base.ik = k THEN [ts |-> 1, val |-> First]
                       ELSE [ts |-> 0, val |-> None]]
    /\ hold = FALSE
    /\ delayed \in BOOLEAN
    /\ flight = {} /\ queue = {} /\ applying = {}
    /\ w = [x \in Writers |-> Idle]
    /\ b = [c \in Builders |-> Unused]
    /\ gap = FALSE /\ skip = FALSE

WriteStep(x) ==
    Fetch(x) \/ Read(x) \/ Stamp(x) \/ Commit(x) \/ Lost(x) \/ SendBatch(x) \/ LoseBatch(x)

BackfillStep(c) ==
    \/ Scan(c) \/ Drop(c) \/ Recreate(c) \/ Retake(c) \/ ReadPage(c) \/ WritePage(c)
    \/ AdvanceCursor(c) \/ Activate(c) \/ Release(c) \/ BackfillFails(c) \/ Stop(c)

Next ==
    \/ Tick
    \/ \E x \in Writers : WriteStep(x)
    \/ \E o \in flight : Land(o)
    \/ \E e \in queue \cup applying : TakeEntry(e) \/ ApplyEntry(e) \/ ApplyFails(e)
    \/ TakeHold \/ CreationFails \/ ListIndex \/ CreateTable
    \/ \E c \in Builders : BackfillStep(c)

Spec == Init /\ [][Next]_vars

-----------------------------------------------------------------------------
(* Properties.                                                              *)

TypeOK ==
    /\ clock \in Nat
    /\ base \in Items \cup {Absent} /\ prior \in Items \cup {Absent}
    /\ status \in {"none", "CREATING", "ACTIVE"}
    /\ hold \in BOOLEAN /\ table \in BOOLEAN /\ delayed \in BOOLEAN
    /\ gap \in BOOLEAN /\ skip \in BOOLEAN
    /\ rows \in [IndexKeys -> Cells]
    /\ flight \subseteq Ops
    /\ queue \subseteq SUBSET Ops /\ applying \subseteq SUBSET Ops
    /\ creation \in {"none", "held", "listed", "over"}
    /\ w \in [Writers -> WriteState]
    /\ b \in [Builders -> BackfillState]

(* The statements that are in the index or bound for it.                    *)
Issued ==
    {[ik |-> k, ts |-> rows[k].ts, val |-> rows[k].val] : k \in {j \in IndexKeys : rows[j].val # None}}
    \cup flight \cup (UNION queue)
    \cup (UNION {w[x].ops : x \in Writers}) \cup (UNION {b[c].page : c \in Builders})

(* Those, and the ones a worker may apply a second time.                    *)
Coming == Issued \cup UNION applying

Settled == ~Outstanding /\ flight = {} /\ \A c \in Builders : ~Underway(c)

(* The rows of the item as it stands, and no other.                         *)
Agrees ==
    \A k \in IndexKeys :
        IF base # Absent /\ base.ik = k
        THEN rows[k] = [ts |-> base.ver, val |-> base.by]
        ELSE rows[k].val \in {Tomb, None}

(* ADR-0027: whatever order the writes, their batches, the queue's entries  *)
(* and the pages of a backfill arrive in, the index ends up with the rows   *)
(* of the item as it stands and no other, unless a gap came between them or *)
(* a backfill skipped the item.                                             *)
IndexAgrees == (status = "ACTIVE" /\ Settled /\ ~gap /\ ~skip) => Agrees

(* backfill_gsi, as its comment has it: it inserts each qualifying item     *)
(* into the index. It does not.                                             *)
EachItemInserted == (status = "ACTIVE" /\ Settled /\ ~gap) => Agrees

(* ADR-0027: a version that is stored exceeds every stamp the index rows of *)
(* the item were given before it, those of a deleted item's tombstones too. *)
VersionsIncrease ==
    [][(base' # base /\ base' # Absent /\ ~gap') => \A o \in Coming : o.ts < base'.ver]_vars

-----------------------------------------------------------------------------
(* The inductive invariant behind IndexAgrees.                              *)

Current(k) == base # Absent /\ base.ik = k

(* A create that read its clock before it committed to an absent row.       *)
Creating(x) == w[x].pc = "lwt" /\ w[x].old = Absent /\ ~w[x].late

(* Stamps: the version of the item is the largest, and its own.             *)
Ordered ==
    \A o \in Coming :
        /\ base # Absent => o.ts <= base.ver
        /\ (Current(o.ik) /\ o.ts = base.ver) => o.val = base.by

(* What an earlier image left is under a tombstone that is there or coming. *)
Buried ==
    \A o \in Coming : (~skip /\ o.val # Tomb /\ ~Current(o.ik)) =>
        \E t \in Issued : t.ik = o.ik /\ t.val = Tomb /\ t.ts >= o.ts

(* The scan of a backfill has passed the place of the item.                 *)
Passed(c) ==
    \/ b[c].pc = "activate"
    \/ b[c].pc = "write" /\ ~b[c].more
    \/ b[c].pc \in {"scan", "write", "token"} /\ Token[Self] <= b[c].last

(* What the index must show is there or coming, once the item was read.     *)
Shown ==
    (~skip /\ base # Absent /\ base.ik # NoKey
        /\ (status = "ACTIVE" \/ \E c \in Builders : Passed(c))) =>
        [ik |-> base.ik, ts |-> base.ver, val |-> base.by] \in Issued

(* Clock readings that a create is bound to exceed what came before them.   *)
Fresh ==
    /\ base # Absent => base.ver + LwtTime <= clock
    /\ \A o \in Coming : o.ts < clock
    /\ \A x \in Writers :
          /\ w[x].at <= clock
          /\ Creating(x) =>
                /\ base # Absent => base.ver + 1 < w[x].at
                /\ \A o \in Coming : o.ts < w[x].at

(* The image a write read is the item as long as the version is.            *)
Reads ==
    \A x \in Writers : w[x].old # Absent =>
        LET old == w[x].old IN
        /\ old.ver + LwtTime <= clock
        /\ w[x].pc = "lwt" /\ w[x].kind # "delete" => old.ver + LwtTime <= w[x].at
        /\ base # Absent => old.ver <= base.ver
        /\ base # Absent /\ old.ver = base.ver => old = base
        /\ \A y \in Writers : Creating(y) => old.ver < w[y].at

(* So is the image that a replica still shows.                              *)
Lagging ==
    prior # Absent =>
        /\ prior.ver + LwtTime <= clock
        /\ base # Absent => prior.ver <= base.ver
        /\ base # Absent /\ prior.ver = base.ver => prior = base
        /\ \A y \in Writers : Creating(y) => prior.ver < w[y].at

(* One backfill at a time, on an index that is being created, with a table. *)
Building ==
    /\ \A c \in Builders : Underway(c) => status = "CREATING"
    /\ \A c, d \in Builders : Underway(c) /\ Underway(d) => c = d
    /\ (status = "ACTIVE" \/ \E c \in Builders : Underway(c) /\ b[c].pc # "create") => table

(* Where there can be nothing, gap or not, and the form of what there is.   *)
Apart(ops) == \A o, p \in ops : o.ik = p.ik => o = p

WriteShape(x) ==
    /\ w[x].ops # {} => w[x].pc = "batch"
    /\ w[x].pc = "stamp" => w[x].kind # "delete"
    /\ w[x].pc = "lwt" => IF w[x].kind = "delete" THEN w[x].old # Absent ELSE w[x].at > 0
    /\ Apart(w[x].ops)
    /\ status = "none" => ~w[x].sees /\ w[x].pc # "batch"

BackfillShape(c) ==
    /\ b[c].page # {} => b[c].pc = "write"
    /\ \A o \in b[c].page : o.val # Tomb
    /\ status = "none" => b[c].pc = "idle"
    /\ b[c].pc \notin {"scan", "write", "token"} => b[c].last = 0

Shape ==
    /\ clock > 0 /\ (base # Absent => base.ver > 0)
    /\ ~table => rows = EmptyTable /\ flight = {}
    /\ \A k \in IndexKeys : rows[k].val = None => rows[k].ts = 0
    /\ \A e \in queue \cup applying : Apart(e)
    /\ \A x \in Writers : WriteShape(x)
    /\ \A c \in Builders : BackfillShape(c)
    /\ status = "none" => ~table /\ queue = {} /\ applying = {}
    /\ creation \in {"none", "held"} => status = "none"
    /\ creation = "listed" => status # "none"

Core == Ordered /\ Buried /\ Shown /\ Fresh /\ Reads /\ Lagging /\ Building

IndexInv == TypeOK /\ Shape /\ (~gap => Core)
=============================================================================
