------------------------------ MODULE BackupJob ------------------------------
(***************************************************************************)
(* One backup from its claim to its removal: the job that writes it         *)
(* (crates/engine, backup/job.rs with job/heartbeat.rs and job/failure.rs), *)
(* the reconciler that resolves it when its owner is dead                   *)
(* (backup/reconciler.rs), DeleteBackup (backup.rs), and the catalog row on *)
(* Cassandra they all write (crates/storage-cassandra, backup_catalog.rs).  *)
(*                                                                         *)
(* The row is changed by lightweight transactions only; its entry in the    *)
(* status index, the one way the reconciler finds it, is moved by a batch   *)
(* of its own afterwards.  Objects of the store appear when a put lands,    *)
(* which can be after the job gave the put up.  Ages are counted in ticks   *)
(* of one unit and capped just above the largest bound compared with.       *)
(***************************************************************************)
EXTENDS Integers, FiniteSets

CONSTANTS
    Reconcilers,     \* servers' reconcilers
    Objects,         \* the objects of the backup, in the order of their puts: 1..n
    Period,          \* JobSettings::heartbeat_interval
    StaleAfter,      \* stale_job_after
    Clients,         \* {"client"} or none: calls of DeleteBackup, one at a time
    MaxTakes,        \* bound: takeovers of the row
    MaxBeats,        \* bound: beats of the job's timer
    MaxFaults        \* bound: failed calls, unknown outcomes and crashes

ASSUME BackupAssumption ==
    /\ Period \in Nat \ {0} /\ StaleAfter \in Nat
    /\ StaleAfter >= 3 * Period          \* MIN_STALE_HEARTBEATS
    /\ MaxTakes \in Nat /\ MaxBeats \in Nat /\ MaxFaults \in Nat
    /\ IsFiniteSet(Objects) /\ Objects # {} /\ Objects = 1 .. Cardinality(Objects)
    /\ Clients \subseteq {"client"} /\ Reconcilers \cap {"job", "client"} = {}

VARIABLES
    row,             \* backups_by_arn: its status and its owner_generation
    limbo,           \* the row as a write of unknown outcome may still make it
    hbAge,           \* ticks since the row's heartbeat_at
    expired,         \* completed_at is older than failed_row_retention
    index,           \* statuses under which backup_index_by_status lists the row
    obj, flight,     \* objects in the store; puts sent and not over
    act,             \* what each actor is doing
    hb,              \* HeartbeatHandle: the loss, the time since last_confirmed, the beats
    result,          \* what the job reported
    takes, faults

rowVars == <<row, limbo, hbAge, expired, takes>>
vars == <<row, limbo, hbAge, expired, index, obj, flight, act, hb, result, takes, faults>>

Actors == {"job"} \cup Clients \cup Reconcilers
Manifest == Cardinality(Objects)
JobGen == 0
NoGen == -1
Status == {"none", "CREATING", "AVAILABLE", "FAILED", "DELETING", "DELETED", "removed"}
Rows == [status : Status, gen : NoGen .. MaxTakes]
NoRow == [status |-> "none", gen |-> NoGen]
PCs == {"idle", "done", "insert", "index", "put", "wait", "recheck", "rechecking", "write",
        "reread", "move", "take", "probe", "verify", "prefix", "sweep", "mark", "marked",
        "manifest", "list", "settle", "settled", "remove", "removed"}
Beats == {"timer", "recheck"}

(* An actor's local state: gen is the generation of its claim, or the one a *)
(* reconciler read; want the status to write; todo the keys to delete; next *)
(* the object to put; clean whether to delete the prefix after FAILED.      *)
At(p) == [pc |-> p, gen |-> NoGen, want |-> "none", try |-> 1, todo |-> {}, next |-> 1,
          clean |-> FALSE]
Quiet == [lost |-> FALSE, age |-> 0, late |-> FALSE, sent |-> 0,
          beat |-> [b \in Beats |-> [at |-> "idle", age |-> 0]]]

TypeOK ==
    /\ row \in Rows /\ limbo \in Rows /\ hbAge \in 0 .. StaleAfter + 1 /\ expired \in BOOLEAN
    /\ index \subseteq Status /\ obj \subseteq Objects /\ flight \subseteq Objects
    /\ act \in [Actors -> [pc : PCs, gen : NoGen .. MaxTakes, want : Status, try : 1 .. 2,
                           todo : SUBSET Objects, next : Objects, clean : BOOLEAN]]
    /\ hb \in [lost : BOOLEAN, age : 0 .. 2 * Period + 1, late : BOOLEAN, sent : 0 .. MaxBeats,
               beat : [Beats -> [at : {"idle", "sent", "ok", "refused"}, age : 0 .. Period + 1]]]
    /\ result \in {"none", "succeeded", "failed"}
    /\ takes \in 0 .. MaxTakes /\ faults \in 0 .. MaxFaults

Init ==
    /\ row = NoRow /\ limbo = NoRow /\ hbAge = 0 /\ expired = FALSE /\ index = {}
    /\ obj = {} /\ flight = {}
    /\ act = [a \in Actors |-> At("idle")] /\ hb = Quiet /\ result = "none"
    /\ takes = 0 /\ faults = 0

-----------------------------------------------------------------------------
(* Helpers.                                                                 *)

Older(age, cap) == IF age < cap THEN age + 1 ELSE cap
Fault == faults < MaxFaults /\ faults' = faults + 1

(* An actor goes on to p, or is over; a job that is over leaves the beat in *)
(* flight behind.                                                           *)
Go(a, p) == act' = [act EXCEPT ![a].pc = p] /\ UNCHANGED hb
Over(a) ==
    /\ act' = [act EXCEPT ![a] = At(IF a = "job" THEN "done" ELSE "idle")]
    /\ hb' = IF a # "job" THEN hb
             ELSE [Quiet EXCEPT !.beat = [b \in Beats |->
                       [at |-> IF hb.beat[b].at = "sent" THEN "sent" ELSE "idle", age |-> 0]]]

(* conditional_write: a lightweight transaction with condition c that turns *)
(* the row into new.  A write whose answer is lost may commit at any later  *)
(* time, though before the next such write on the row.                      *)
Lwt(c, new, outcome) ==
    /\ limbo = NoRow
    /\ \/ outcome = "matched" /\ c /\ row' = new /\ UNCHANGED <<limbo, faults>>
       \/ outcome = "not" /\ ~c /\ UNCHANGED <<row, limbo, faults>>
       \/ /\ outcome = "unknown" /\ Fault /\ UNCHANGED row
          /\ limbo' \in IF c THEN {limbo, new} ELSE {limbo}

(* What is left of a write of unknown outcome: it commits, or never.        *)
Settle ==
    /\ limbo # NoRow
    /\ row' \in {row, limbo}
    /\ limbo' = NoRow
    /\ hbAge' = IF row.status = "none" THEN 0 ELSE hbAge
    /\ expired' = (expired /\ row' = row)
    /\ UNCHANGED <<index, obj, flight, act, hb, result, takes, faults>>

(* A put the job sent reaches the store, or one it gave up does not.        *)
Land(o) ==
    /\ o \in flight
    /\ flight' = flight \ {o}
    /\ \/ obj' = obj \cup {o}
       \/ ~(act["job"].pc = "wait" /\ act["job"].next = o) /\ UNCHANGED obj
    /\ UNCHANGED <<rowVars, index, act, hb, result, faults>>

Aged(b) == [hb.beat[b] EXCEPT !.age = Older(@, Period + 1)]
Tick ==
    /\ hbAge' = IF row.status \in {"none", "removed"} THEN 0 ELSE Older(hbAge, StaleAfter + 1)
    /\ hb' = IF act["job"].pc \in {"idle", "done"} THEN hb
             ELSE [hb EXCEPT !.age = Older(@, 2 * Period + 1),
                             !.beat = [b \in Beats |-> Aged(b)]]
    /\ UNCHANGED <<row, limbo, expired, index, obj, flight, act, result, takes, faults>>

(* failed_row_retention passes after completed_at.                          *)
Expire ==
    /\ row.status \in {"FAILED", "DELETED"} /\ ~expired
    /\ expired' = TRUE
    /\ UNCHANGED <<row, limbo, hbAge, index, obj, flight, act, hb, result, takes, faults>>

-----------------------------------------------------------------------------
(* write_status, with the set_status and read it calls: the job's and the   *)
(* reconciler's move of a CREATING row.                                     *)

(* fail_row: the prefix is deleted when the FAILED write matched.           *)
(* Mutant: whatever became of the write.                                    *)
CleansUpAlways(a, matched) == act[a].want = "FAILED" /\ act[a].clean
CleansUp(a, matched) == matched /\ act[a].want = "FAILED" /\ act[a].clean

Written(a, matched) ==
    /\ IF CleansUp(a, matched) THEN Go(a, "prefix") ELSE Over(a)
    /\ result' = IF a # "job" THEN result
                 ELSE IF matched /\ act[a].want = "AVAILABLE" THEN "succeeded" ELSE "failed"

(* The condition of set_status.  Mutant: on nothing the row says.           *)
SetStatusIfRow(a) == row.status \in {"CREATING", "AVAILABLE"}
SetStatusIf(a) == row.gen = act[a].gen /\ row.status = "CREATING"

SetStatus(a) ==
    /\ act[a].pc = "write"
    /\ \E o \in {"matched", "not", "unknown"} :
          /\ Lwt(SetStatusIf(a), [row EXCEPT !.status = act[a].want], o)
          /\ expired' = (expired /\ o # "matched")
          /\ IF o = "not" THEN Written(a, FALSE)
             ELSE Go(a, IF o = "matched" THEN "move" ELSE "reread") /\ UNCHANGED result
    /\ UNCHANGED <<hbAge, index, obj, flight, takes>>

Reread(a) ==
    /\ act[a].pc = "reread"
    /\ IF row.gen = act[a].gen /\ row.status = "CREATING" /\ act[a].try = 1
       THEN act' = [act EXCEPT ![a].pc = "write", ![a].try = 2] /\ UNCHANGED <<hb, result>>
       ELSE Written(a, row.gen = act[a].gen /\ row.status = act[a].want)
    /\ UNCHANGED <<rowVars, index, obj, flight, faults>>

(* The write or the re-read fails with an error that is an answer.          *)
StatusError(a) ==
    /\ act[a].pc \in {"write", "reread"}
    /\ Fault
    /\ Written(a, FALSE)
    /\ UNCHANGED <<rowVars, index, obj, flight>>

(* move_status_index_row, whose failure is logged and nothing more.         *)
MoveIndex(from, to) ==
    \/ index' = (index \ {from}) \cup {to} /\ UNCHANGED faults
    \/ Fault /\ UNCHANGED index

MoveStatus(a) ==
    /\ act[a].pc = "move"
    /\ MoveIndex("CREATING", act[a].want)
    /\ Written(a, TRUE)
    /\ UNCHANGED <<rowVars, obj, flight>>

-----------------------------------------------------------------------------
(* delete_prefix: the store lists the prefix and deletes what it listed.    *)

ListPrefix(a) ==
    /\ act[a].pc = "prefix"
    /\ act' = [act EXCEPT ![a].pc = "sweep", ![a].todo = obj]
    /\ UNCHANGED <<rowVars, index, obj, flight, hb, result, faults>>

DeleteObject(a) ==
    /\ act[a].pc = "sweep"
    /\ \/ /\ act[a].todo = {} /\ UNCHANGED obj
          /\ IF act[a].want = "DELETED" THEN Go(a, "list") ELSE Over(a)
       \/ \E o \in act[a].todo :
             /\ obj' = obj \ {o}
             /\ act' = [act EXCEPT ![a].todo = @ \ {o}] /\ UNCHANGED hb
    /\ UNCHANGED <<rowVars, index, flight, result, faults>>

(* A store call of a deletion or of a probe fails: the caller logs it.      *)
StoreError(a) ==
    /\ act[a].pc \in {"manifest", "prefix", "sweep", "list", "probe", "verify"}
    /\ Fault
    /\ Over(a)
    /\ UNCHANGED <<rowVars, index, obj, flight, result>>

-----------------------------------------------------------------------------
(* finish_backup_delete, of DeleteBackup and of the DELETING duty.          *)

(* Mutant: the manifest goes with the rest.                                 *)
DeleteManifestLater(a) ==
    /\ act[a].pc = "manifest"
    /\ act' = [act EXCEPT ![a].pc = "prefix", ![a].want = "DELETED"]
    /\ UNCHANGED <<rowVars, index, obj, flight, hb, result, faults>>

DeleteManifest(a) ==
    /\ act[a].pc = "manifest"
    /\ obj' = obj \ {Manifest}
    /\ act' = [act EXCEPT ![a].pc = "prefix", ![a].want = "DELETED"]
    /\ UNCHANGED <<rowVars, index, flight, hb, result, faults>>

(* Mutant: the listing is read the wrong way round.                         *)
ListAfterDeleteInverted(a) ==
    /\ act[a].pc = "list"
    /\ IF obj # {} THEN Go(a, "settle") ELSE Over(a)
    /\ UNCHANGED <<rowVars, index, obj, flight, result, faults>>

ListAfterDelete(a) ==
    /\ act[a].pc = "list"
    /\ IF obj = {} THEN Go(a, "settle") ELSE Over(a)
    /\ UNCHANGED <<rowVars, index, obj, flight, result, faults>>

(* set_backup_deleted.                                                      *)
SetDeleted(a) ==
    /\ act[a].pc = "settle"
    /\ \E o \in {"matched", "not", "unknown"} :
          /\ Lwt(row.status = "DELETING", [row EXCEPT !.status = "DELETED"], o)
          /\ expired' = (expired /\ o # "matched")
          /\ IF o = "matched" THEN Go(a, "settled") ELSE Over(a)
    /\ UNCHANGED <<hbAge, index, obj, flight, result, takes>>

MoveDeleted(a) ==
    /\ act[a].pc = "settled"
    /\ MoveIndex("DELETING", "DELETED")
    /\ Over(a)
    /\ UNCHANGED <<rowVars, obj, flight, result>>

(* delete_catalog_backup reads the row; a row it finds DELETING it finishes *)
(* at once.                                                                 *)
DeleteBackup(c) ==
    /\ act[c].pc = "idle"
    /\ \/ row.status = "AVAILABLE" /\ Go(c, "mark")
       \/ row.status = "DELETING" /\ Go(c, "manifest")
    /\ UNCHANGED <<rowVars, index, obj, flight, result, faults>>

(* start_backup_delete, of a backup no restore uses; a row that another     *)
(* call turned DELETING meanwhile is finished by this one too.              *)
StartDelete(c) ==
    /\ act[c].pc = "mark"
    /\ \E o \in {"matched", "not", "unknown"} :
          /\ Lwt(row.status = "AVAILABLE", [row EXCEPT !.status = "DELETING"], o)
          /\ CASE o = "matched" -> Go(c, "marked")
               [] o = "not" /\ row.status = "DELETING" -> Go(c, "manifest")
               [] OTHER -> Over(c)
    /\ UNCHANGED <<hbAge, expired, index, obj, flight, result, takes>>

MoveDeleting(c) ==
    /\ act[c].pc = "marked"
    /\ MoveIndex("AVAILABLE", "DELETING")
    /\ Go(c, "manifest")
    /\ UNCHANGED <<rowVars, obj, flight, result>>

-----------------------------------------------------------------------------
(* The job.                                                                 *)

(* open_and_claim up to the insert: claimed_at is taken first.              *)
Open ==
    /\ act["job"].pc = "idle"
    /\ Go("job", "insert")
    /\ UNCHANGED <<rowVars, index, obj, flight, result, faults>>

(* claim_backup: the row, then its index entries.                           *)
ClaimBackup ==
    /\ act["job"].pc = "insert"
    /\ \E o \in {"matched", "unknown"} :
          /\ Lwt(row = NoRow, [status |-> "CREATING", gen |-> JobGen], o)
          /\ IF o = "matched"
             THEN /\ act' = [act EXCEPT !["job"].pc = "index", !["job"].gen = JobGen]
                  /\ hbAge' = 0 /\ UNCHANGED <<hb, result>>
             ELSE Over("job") /\ result' = "failed" /\ UNCHANGED hbAge
    /\ UNCHANGED <<expired, index, obj, flight, takes>>

ClaimIndex ==
    /\ act["job"].pc = "index"
    /\ \/ /\ index' = index \cup {"CREATING"}
          /\ act' = [act EXCEPT !["job"].pc = "put"]
          /\ hb' = [hb EXCEPT !.beat["timer"].age = 0]
          /\ UNCHANGED <<result, faults>>
       \/ /\ index' \in {index, index \cup {"CREATING"}}
          /\ Fault /\ Over("job") /\ result' = "failed"
    /\ UNCHANGED <<rowVars, obj, flight>>

(* ClaimCheck::confirms_the_claim.                                          *)
ConfirmsTheClaim == ~hb.lost /\ hb.age <= 2 * Period

(* put_document, and a data file's put: the check, then the put.  A loss of *)
(* the claim ends the job with no further access.                           *)
PutStart ==
    /\ act["job"].pc = "put"
    /\ IF ConfirmsTheClaim
       THEN Go("job", "wait") /\ flight' = flight \cup {act["job"].next} /\ UNCHANGED result
       ELSE Over("job") /\ result' = "failed" /\ UNCHANGED flight
    /\ UNCHANGED <<rowVars, index, obj, faults>>

(* The put returns: on to the next object, by way of the re-check before    *)
(* the manifest, or to the AVAILABLE write after it.                        *)
PutReturn ==
    LET n == act["job"].next IN
    /\ act["job"].pc = "wait" /\ n \notin flight /\ ~hb.lost
    /\ act' = IF n = Manifest
              THEN [act EXCEPT !["job"].pc = "write", !["job"].want = "AVAILABLE"]
              ELSE [act EXCEPT !["job"].pc = IF n + 1 = Manifest THEN "recheck" ELSE "put",
                               !["job"].next = n + 1]
    /\ UNCHANGED <<rowVars, index, obj, flight, hb, result, faults>>

(* The loss of the claim ends a put that is waited for; the put goes on.    *)
PutLost ==
    /\ act["job"].pc = "wait" /\ hb.lost
    /\ Over("job")
    /\ result' = "failed"
    /\ UNCHANGED <<rowVars, index, obj, flight, faults>>

(* Stop::Fail and Stop::Cancelled: fail_row.  Stop::StoreUnhealthy, found   *)
(* before a put: FAILED without a store call.                               *)
JobFails ==
    \E c \in BOOLEAN :
        /\ act["job"].pc = "put" \/ (act["job"].pc = "wait" /\ c)
        /\ Fault
        /\ act' = [act EXCEPT !["job"].pc = "write", !["job"].want = "FAILED", !["job"].clean = c]
        /\ UNCHANGED <<rowVars, index, obj, flight, hb, result>>

(* HeartbeatHandle::recheck.                                                *)
Recheck ==
    /\ act["job"].pc = "recheck"
    /\ act' = [act EXCEPT !["job"].pc = "rechecking"]
    /\ hb' = [hb EXCEPT !.beat["recheck"] = [at |-> "sent", age |-> 0]]
    /\ UNCHANGED <<rowVars, index, obj, flight, result, faults>>

(* HeartbeatHandle::start's loop.                                           *)
BeatSend ==
    /\ act["job"].pc \notin {"idle", "insert", "index", "done"}
    /\ hb.beat["timer"].at = "idle" /\ hb.beat["timer"].age >= Period /\ ~hb.lost
    /\ hb.sent < MaxBeats
    /\ hb' = [hb EXCEPT !.beat["timer"] = [at |-> "sent", age |-> 0], !.sent = @ + 1]
    /\ UNCHANGED <<rowVars, index, obj, flight, act, result, faults>>

(* heartbeat_backup_row on its coordinator, also after it was given up.  A  *)
(* takeover is conditioned on the heartbeat as read.                        *)
BeatApply(b) ==
    /\ hb.beat[b].at = "sent" /\ limbo = NoRow
    /\ hbAge' = IF row.gen = JobGen THEN 0 ELSE hbAge
    /\ act' = [a \in Actors |-> IF row.gen = JobGen /\ act[a].pc = "take"
                                THEN [act[a] EXCEPT !.gen = NoGen] ELSE act[a]]
    /\ hb' = [hb EXCEPT !.beat[b].at = IF act["job"].pc = "done" THEN "idle"
                                       ELSE IF row.gen = JobGen THEN "ok" ELSE "refused"]
    /\ UNCHANGED <<row, limbo, expired, index, obj, flight, result, takes, faults>>

Awaits(b) ==
    IF b = "timer" THEN ~hb.lost /\ act["job"].pc # "done" ELSE act["job"].pc = "rechecking"

(* An answer the task reads after the bound counts when it is read first:   *)
(* timeout polls the beat before its timer.                                 *)
BeatConfirmed(b) ==
    /\ Awaits(b) /\ hb.beat[b].at = "ok"
    /\ hb' = [hb EXCEPT !.age = 0, !.late = hb.beat[b].age > Period, !.beat[b].at = "idle"]
    /\ act' = IF b = "timer" THEN act ELSE [act EXCEPT !["job"].pc = "put"]
    /\ UNCHANGED <<rowVars, index, obj, flight, result, faults>>

(* Refused, failed, or not back within the bound: the loss.                 *)
BeatLost(b) ==
    /\ Awaits(b) /\ hb.beat[b].at # "idle"
    /\ \/ (hb.beat[b].at = "refused" \/ hb.beat[b].age > Period) /\ UNCHANGED faults
       \/ hb.beat[b].at \in {"sent", "ok"} /\ hb.beat[b].age <= Period /\ Fault
    /\ IF b = "timer"
       THEN /\ hb' = [hb EXCEPT !.lost = TRUE, !.beat[b].at = IF @ = "sent" THEN @ ELSE "idle"]
            /\ UNCHANGED <<act, result>>
       ELSE Over("job") /\ result' = "failed"
    /\ UNCHANGED <<rowVars, index, obj, flight>>

-----------------------------------------------------------------------------
(* The reconciler's duties; each lists the row through the status index and *)
(* re-reads it.                                                             *)

Listed(status) == status \in index /\ row.status = status

(* The heartbeat is older than the window.  Mutant: than two periods.       *)
DeadAfterTwo == hbAge > 2 * Period
Dead == hbAge > StaleAfter

(* resolve_dead_creating_rows: claim_dead_backup's serial read.             *)
FindDead(r) ==
    /\ act[r].pc = "idle" /\ Listed("CREATING") /\ limbo = NoRow /\ Dead
    /\ act' = [act EXCEPT ![r].pc = "take", ![r].gen = row.gen]
    /\ UNCHANGED <<rowVars, index, obj, flight, hb, result, faults>>

(* The takeover, under a new generation; an unknown outcome is settled by a *)
(* serial re-read.                                                          *)
TakeOver(r) ==
    /\ act[r].pc = "take" /\ limbo = NoRow
    /\ IF row.status = "CREATING" /\ row.gen = act[r].gen
       THEN /\ takes < MaxTakes
            /\ takes' = takes + 1
            /\ row' = [row EXCEPT !.gen = takes + 1]
            /\ act' = [act EXCEPT ![r].pc = "probe", ![r].gen = takes + 1] /\ UNCHANGED hb
       ELSE Over(r) /\ UNCHANGED <<takes, row>>
    /\ UNCHANGED <<limbo, hbAge, expired, index, obj, flight, result, faults>>

ReconcilerWrites(r, to) == act' = [act EXCEPT ![r].pc = "write", ![r].want = to] /\ UNCHANGED hb

(* Mutant: an absent manifest is taken for a store that does not answer.    *)
ProbeManifestOrLeave(r) ==
    /\ act[r].pc = "probe"
    /\ IF Manifest \in obj THEN Go(r, "verify") ELSE Over(r)
    /\ UNCHANGED <<rowVars, index, obj, flight, result, faults>>

(* probe_manifest: the manifest with its sidecar, then the files it lists.  *)
ProbeManifest(r) ==
    /\ act[r].pc = "probe"
    /\ IF Manifest \in obj THEN Go(r, "verify") ELSE ReconcilerWrites(r, "FAILED")
    /\ UNCHANGED <<rowVars, index, obj, flight, result, faults>>

ProbeFiles(r) ==
    /\ act[r].pc = "verify"
    /\ ReconcilerWrites(r, IF obj = Objects THEN "AVAILABLE" ELSE "FAILED")
    /\ UNCHANGED <<rowVars, index, obj, flight, result, faults>>

(* finish_deleting_rows.                                                    *)
FinishDeleting(r) ==
    /\ act[r].pc = "idle" /\ Listed("DELETING")
    /\ Go(r, "manifest")
    /\ UNCHANGED <<rowVars, index, obj, flight, result, faults>>

(* Mutant: the FAILED prefixes are left to the job that failed.             *)
SweepDeletedOnly(r) ==
    /\ act[r].pc = "idle" /\ obj # {} /\ Listed("DELETED")
    /\ Go(r, "prefix")
    /\ UNCHANGED <<rowVars, index, obj, flight, result, faults>>

(* delete_stale_failed_prefixes and sweep_deleted_prefixes.                 *)
SweepPrefix(r) ==
    /\ act[r].pc = "idle" /\ obj # {}
    /\ (Listed("FAILED") /\ Dead) \/ Listed("DELETED")
    /\ Go(r, "prefix")
    /\ UNCHANGED <<rowVars, index, obj, flight, result, faults>>

(* remove_tombstones: remove_backup_row once the prefix lists nothing.      *)
FindTombstone(r) ==
    /\ act[r].pc = "idle" /\ obj = {} /\ expired
    /\ \E s \in {"FAILED", "DELETED"} :
          Listed(s) /\ act' = [act EXCEPT ![r].pc = "remove", ![r].want = s]
    /\ UNCHANGED <<rowVars, index, obj, flight, hb, result, faults>>

RemoveRow(r) ==
    /\ act[r].pc = "remove"
    /\ \E o \in {"matched", "not", "unknown"} :
          /\ Lwt(row.status = act[r].want, [status |-> "removed", gen |-> NoGen], o)
          /\ IF o = "matched" THEN Go(r, "removed") ELSE Over(r)
    /\ UNCHANGED <<hbAge, expired, index, obj, flight, result, takes>>

RemoveEntries(r) ==
    /\ act[r].pc = "removed"
    /\ \/ index' = index \ {act[r].want} /\ UNCHANGED faults
       \/ Fault /\ UNCHANGED index
    /\ Over(r)
    /\ UNCHANGED <<rowVars, obj, flight, result>>

(* A server dies, and with it what its actor was doing.                     *)
Crash(a) ==
    /\ act[a].pc \notin {"idle", "done"}
    /\ Fault
    /\ Over(a)
    /\ UNCHANGED <<rowVars, index, obj, flight, result>>

-----------------------------------------------------------------------------
Works(a) == SetStatus(a) \/ Reread(a) \/ MoveStatus(a) \/ ListPrefix(a) \/ DeleteObject(a)
Finishes(a) == DeleteManifest(a) \/ ListAfterDelete(a) \/ SetDeleted(a) \/ MoveDeleted(a)

JobStep ==
    \/ ClaimBackup \/ ClaimIndex \/ PutStart \/ PutReturn \/ PutLost \/ Recheck
    \/ BeatConfirmed("recheck") \/ BeatLost("recheck") \/ Works("job")
TimerStep == BeatSend \/ BeatConfirmed("timer") \/ BeatLost("timer")
ClientStep(c) == StartDelete(c) \/ MoveDeleting(c) \/ Works(c) \/ Finishes(c)
ReconcilerStep(r) ==
    \/ FindDead(r) \/ TakeOver(r) \/ ProbeManifest(r) \/ ProbeFiles(r)
    \/ FinishDeleting(r) \/ SweepPrefix(r) \/ FindTombstone(r) \/ RemoveRow(r) \/ RemoveEntries(r)
    \/ Works(r) \/ Finishes(r)

Next ==
    \/ Tick \/ Settle \/ Expire \/ \E o \in Objects : Land(o)
    \/ Open \/ JobStep \/ JobFails \/ TimerStep \/ \E b \in Beats : BeatApply(b)
    \/ \E c \in Clients : DeleteBackup(c) \/ ClientStep(c)
    \/ \E r \in Reconcilers : ReconcilerStep(r)
    \/ \E a \in Actors : StatusError(a) \/ StoreError(a) \/ Crash(a)

Spec == Init /\ [][Next]_vars

(* Time passes, a Paxos round and a put are over some time, and the job, a  *)
(* request and the reconcilers run; calls fail, and processes die,          *)
(* MaxFaults times at most.  Nothing is asked of the timer or of the beats. *)
Fairness ==
    /\ WF_vars(Tick) /\ WF_vars(Settle \/ \E o \in Objects : Land(o))
    /\ WF_vars(JobStep) /\ \A c \in Clients : WF_vars(ClientStep(c))
    /\ \A r \in Reconcilers : WF_vars(ReconcilerStep(r))
FairSpec == Spec /\ Fairness

-----------------------------------------------------------------------------
(* An AVAILABLE backup has all its objects: no deletion, of a job that lost *)
(* its claim least of all, reaches the prefix of a row another made         *)
(* AVAILABLE.                                                               *)
AvailableComplete == row.status = "AVAILABLE" => obj = Objects

(* A manifest in the store means a complete backup to any reader, before    *)
(* the backup is AVAILABLE and while it is being deleted.                   *)
ManifestMeansComplete ==
    row.status \in {"CREATING", "DELETING"} /\ Manifest \in obj => obj = Objects

(* A job that reported success has its backup: no reconciler fails the row  *)
(* it resolved.                                                             *)
SucceededKept == result = "succeeded" => row.status \notin {"CREATING", "FAILED"}

(* The pre-put check is exact: while beats are read in time, a put starts   *)
(* only while the row is the job's, whatever a reconciler does.             *)
PutUnderClaim ==
    [][PutStart /\ flight' # flight /\ ~hb.late => row = [status |-> "CREATING", gen |-> JobGen]]_vars

(* A CREATING row the index lists is resolved, by its job or, once that is  *)
(* dead, by a reconciler (resolve_dead_creating_rows).                      *)
DeadOwnerResolved == Listed("CREATING") ~> row.status # "CREATING"

(* A deletion cut off by a failure or a crash is finished by some later     *)
(* cycle, once the index shows it (finish_deleting_rows).                   *)
DeletionFinished == Listed("DELETING") ~> row.status # "DELETING"

(* The objects of a failed backup do not stay in the store, whether its job *)
(* or a cycle removes them (delete_stale_failed_prefixes).                  *)
FailedPrefixEmptied == Listed("FAILED") ~> (obj = {} \/ row.status = "removed")

(* What the module comments promise of every DELETING row: a process that   *)
(* dies between the row and its index entry costs a wasted read, and the    *)
(* reconciler finishes the deletion.                                        *)
EveryDeletionFinished == row.status = "DELETING" ~> row.status # "DELETING"
=============================================================================
