------------------------------ MODULE RestoreJob ------------------------------
(***************************************************************************)
(* One restore of a store-backed backup on Cassandra: the registration of   *)
(* the target (crates/storage-cassandra, backup_engine.rs), the job that    *)
(* loads it (crates/engine, backup/restore.rs, over restore_engine.rs), the *)
(* reconciler's takeovers (backup/reconciler.rs, backup_catalog.rs), the    *)
(* removal of a failed target, and DeleteBackup beside them.                *)
(*                                                                         *)
(* The record is a set of columns of the target's row, changed by           *)
(* lightweight transactions; the backup's in-use entry is in another        *)
(* partition.  The items are written without a condition, under a write     *)
(* timestamp.  Nothing is assumed of time: the record may look stale while  *)
(* its owner lives, and a job may find its claim unconfirmed at any check.  *)
(***************************************************************************)
EXTENDS Integers, FiniteSets

CONSTANTS
    Batches,         \* the batches of items of the backup, in the order of the load: 1..n
    Takeovers,       \* RESTORE_TAKEOVERS
    Jobs,            \* bound: the owners, dead or fenced ones included, at work at a time
    MaxDeletes,      \* bound: items deleted through the ACTIVE table
    MaxFaults        \* bound: failed calls, unknown outcomes, crashes during a removal

ASSUME RestoreAssumption ==
    /\ Takeovers \in Nat /\ Jobs \in Nat \ {0} /\ MaxDeletes \in Nat /\ MaxFaults \in Nat
    /\ IsFiniteSet(Batches) /\ Batches # {} /\ Batches = 1 .. Cardinality(Batches)

VARIABLES
    row,             \* the target's row of tables: its status and its job record
    limbo,           \* the row as a write of unknown outcome may still make it
    stale,           \* restore_heartbeat_at, or restore_completed_at, is older than the window
    tables,          \* the target's data tables exist
    cell,            \* each batch's items: the newest write and the newest delete
    flight,          \* batches sent and not over
    backup,          \* backups_by_arn: backup_status, and active_restores names the target
    act,             \* what each actor is doing
    clock,           \* the write timestamps' clock
    takes,           \* restore_takeovers: the instance's count for this record
    faults

vars == <<row, limbo, stale, tables, cell, flight, backup, act, clock, takes, faults>>

Total == Cardinality(Batches)
Registrant == 0
Owners == 0 .. Jobs - 1      \* the registrant, and the jobs of takeovers
Duty == -1                   \* the reconciler's FAILED-target duty
Client == -2                 \* a call of DeleteBackup
Actors == Owners \cup {Duty, Client}
Stamps == 0 .. MaxDeletes + 2

Rows == [status : {"none", "CREATING", "ACTIVE", "DELETING", "gone"},
         rec : {"none", "RUNNING", "DONE", "FAILED"},
         gen : Owners, prog : 0 .. Total, reason : {"none", "count", "other"}]
NoRow == [status |-> "none", rec |-> "none", gen |-> 0, prog |-> 0, reason |-> "none"]

(* An actor's local state: next is the batch it loads, stamp its timestamp. *)
At(p) == [pc |-> p, next |-> 1, stamp |-> 0, try |-> 1, reason |-> "none"]
Loading == {"beat", "load", "confirm", "write", "await", "progress", "count", "finish"}
PCs == {"idle", "ddl", "register", "refused", "reapply", "judge", "resume", "reread",
        "fail", "failed", "claim", "unregister", "droptables", "droprow", "mark"} \cup Loading

TypeOK ==
    /\ row \in Rows /\ limbo \in Rows /\ stale \in BOOLEAN /\ tables \in BOOLEAN
    /\ cell \in [Batches -> [put : Stamps, del : Stamps]]
    /\ flight \subseteq (Batches \X Stamps)
    /\ backup \in [status : {"AVAILABLE", "DELETING"}, entry : BOOLEAN]
    /\ act \in [Actors -> [pc : PCs, next : 1 .. Total + 1, stamp : Stamps, try : 1 .. 2,
                           reason : {"none", "count", "other"}]]
    /\ clock \in Stamps /\ takes \in 0 .. Takeovers /\ faults \in 0 .. MaxFaults

NoItems == [b \in Batches |-> [put |-> 0, del |-> 0]]

Init ==
    /\ row = NoRow /\ limbo = NoRow /\ stale = FALSE /\ tables = FALSE
    /\ cell = NoItems /\ flight = {}
    /\ backup = [status |-> "AVAILABLE", entry |-> FALSE]
    /\ act = [a \in Actors |-> At("idle")]
    /\ clock = 1 /\ takes = 0 /\ faults = 0

-----------------------------------------------------------------------------
(* Helpers.                                                                 *)

Fault == faults < MaxFaults /\ faults' = faults + 1
Go(a, p) == act' = [act EXCEPT ![a].pc = p]
Over(a) == act' = [act EXCEPT ![a] = At("idle")]
GoFail(a, why) == act' = [act EXCEPT ![a] = [At("fail") EXCEPT !.reason = why]]

Owned(g) == row.rec = "RUNNING" /\ row.gen = g

(* conditional_write, and query_lwt, whose error keeps as much open.        *)
Lwt(c, new, outcome) ==
    /\ limbo = NoRow
    /\ \/ outcome = "matched" /\ c /\ row' = new /\ UNCHANGED <<limbo, faults>>
       \/ outcome = "not" /\ ~c /\ UNCHANGED <<row, limbo, faults>>
       \/ /\ outcome = "unknown" /\ Fault /\ UNCHANGED row
          /\ limbo' \in IF c THEN {limbo, new} ELSE {limbo}

Outcomes == {"matched", "not", "unknown"}

(* A write of unknown outcome commits, or never.  The ACTIVE flip takes     *)
(* longer than the clock's resolution.                                      *)
Settle ==
    /\ limbo # NoRow
    /\ row' \in {row, limbo}
    /\ limbo' = NoRow
    /\ stale' = (stale /\ row' = row)
    /\ clock' = IF row'.status = "ACTIVE" THEN clock + 1 ELSE clock
    /\ UNCHANGED <<tables, cell, flight, backup, act, takes, faults>>

(* The heartbeat, or the end of a FAILED record, grows old.                 *)
GoStale ==
    /\ ~stale /\ row.rec \in {"RUNNING", "FAILED"}
    /\ stale' = TRUE
    /\ UNCHANGED <<row, limbo, tables, cell, flight, backup, act, clock, takes, faults>>

(* HeartbeatHandle's timer.                                                 *)
Beat(g) ==
    /\ act[g].pc \in Loading /\ stale /\ limbo = NoRow /\ Owned(g)
    /\ stale' = FALSE
    /\ UNCHANGED <<row, limbo, tables, cell, flight, backup, act, clock, takes, faults>>

-----------------------------------------------------------------------------
(* register_manifest_restore_target.                                        *)

Insert ==
    /\ act[Registrant].pc = "idle" /\ backup.status = "AVAILABLE" /\ row = NoRow
    /\ row' = [NoRow EXCEPT !.status = "CREATING", !.rec = "RUNNING"]
    /\ Go(Registrant, "ddl")
    /\ UNCHANGED <<limbo, stale, tables, cell, flight, backup, clock, takes, faults>>

CreateTables ==
    /\ act[Registrant].pc = "ddl"
    /\ tables' = TRUE
    /\ Go(Registrant, "register")
    /\ UNCHANGED <<row, limbo, stale, cell, flight, backup, clock, takes, faults>>

(* A statement of the creation fails, or its answer is lost: the target is  *)
(* dropped, by its table id alone.                                          *)
CreateFails ==
    /\ act[Registrant].pc = "ddl" /\ Fault
    /\ tables' \in {tables, TRUE}
    /\ Go(Registrant, "unregister")
    /\ UNCHANGED <<row, limbo, stale, cell, flight, backup, clock, takes>>

(* register_restore; a stale entry is cleared and the call repeated.        *)
Register ==
    /\ act[Registrant].pc = "register"
    /\ LET free == backup.status = "AVAILABLE" /\ (backup.entry => row.status # "CREATING") IN
       \/ /\ free /\ backup' = [backup EXCEPT !.entry = TRUE]
          /\ Go(Registrant, "beat") /\ UNCHANGED faults
       \/ ~free /\ UNCHANGED <<backup, faults>> /\ Go(Registrant, "refused")
       \/ /\ Fault /\ Go(Registrant, "refused")
          /\ \E landed \in BOOLEAN : backup' = [backup EXCEPT !.entry = @ \/ (landed /\ free)]
    /\ UNCHANGED <<row, limbo, stale, tables, cell, flight, clock, takes>>

(* claim_registered_target_for_removal, under the registration's own        *)
(* generation.                                                              *)
Refused ==
    /\ act[Registrant].pc = "refused"
    /\ \E o \in Outcomes :
          /\ Lwt(row.status = "CREATING" /\ Owned(Registrant),
                 [row EXCEPT !.status = "DELETING", !.rec = "FAILED", !.reason = "other"], o)
          /\ IF o = "matched" THEN Go(Registrant, "unregister") ELSE Over(Registrant)
          /\ stale' = (stale /\ o # "matched")
    /\ UNCHANGED <<tables, cell, flight, backup, clock, takes>>

(* The job's first beat, before the reply.                                  *)
FirstBeat ==
    /\ act[Registrant].pc = "beat" /\ limbo = NoRow
    /\ \/ /\ Owned(Registrant)
          /\ stale' = FALSE /\ Go(Registrant, "load") /\ UNCHANGED faults
       \/ ~Owned(Registrant) /\ GoFail(Registrant, "other") /\ UNCHANGED <<stale, faults>>
       \/ Fault /\ GoFail(Registrant, "other") /\ UNCHANGED stale
    /\ UNCHANGED <<row, limbo, tables, cell, flight, backup, clock, takes>>

-----------------------------------------------------------------------------
(* The load: flush_restore_batch and write_restore_progress, batch by batch.*)

(* The batch's timestamp is read before the claim is confirmed.             *)
ReadStamp(g) ==
    /\ act[g].pc = "load" /\ act[g].next <= Total
    /\ act' = [act EXCEPT ![g].pc = "confirm", ![g].stamp = clock]
    /\ UNCHANGED <<row, limbo, stale, tables, cell, flight, backup, clock, takes, faults>>

(* confirm_restore_claim; an unknown outcome is settled by a serial read.   *)
Confirm(g) ==
    /\ act[g].pc = "confirm" /\ limbo = NoRow
    /\ IF Owned(g)
       THEN \/ Go(g, "write") /\ stale' = FALSE /\ UNCHANGED faults
            \/ Go(g, "write") /\ UNCHANGED stale /\ Fault
       ELSE GoFail(g, "other") /\ UNCHANGED <<stale, faults>>
    /\ UNCHANGED <<row, limbo, tables, cell, flight, backup, clock, takes>>

(* Mutant: the timestamp of the moment of the write.                        *)
WriteBatchNow(g) ==
    /\ act[g].pc = "write"
    /\ flight' = flight \cup {<<act[g].next, clock>>}
    /\ act' = [act EXCEPT ![g].pc = "await", ![g].stamp = clock]
    /\ UNCHANGED <<row, limbo, stale, tables, cell, backup, clock, takes, faults>>

WriteBatch(g) ==
    /\ act[g].pc = "write"
    /\ flight' = flight \cup {<<act[g].next, act[g].stamp>>}
    /\ Go(g, "await")
    /\ UNCHANGED <<row, limbo, stale, tables, cell, backup, clock, takes, faults>>

(* The writes land on the replicas, also long after their sender is gone;   *)
(* a write nobody waits for may be lost.                                    *)
Awaited(w) == \E g \in Owners : act[g].pc = "await" /\ w = <<act[g].next, act[g].stamp>>
Land(w) ==
    /\ w \in flight
    /\ flight' = flight \ {w}
    /\ IF tables THEN \/ cell' = [cell EXCEPT ![w[1]].put = IF @ < w[2] THEN w[2] ELSE @]
                      \/ ~Awaited(w) /\ UNCHANGED cell
       ELSE UNCHANGED cell
    /\ UNCHANGED <<row, limbo, stale, tables, backup, act, clock, takes, faults>>

Written(g) ==
    /\ act[g].pc = "await" /\ <<act[g].next, act[g].stamp>> \notin flight
    /\ IF tables THEN Go(g, "progress") ELSE GoFail(g, "other")
    /\ UNCHANGED <<row, limbo, stale, tables, cell, flight, backup, clock, takes, faults>>

(* Mutant: the progress of a batch is the one its load starts from.         *)
RecordedAhead(g) == IF act[g].next < Total THEN act[g].next + 1 ELSE Total
Recorded(g) == act[g].next

(* write_restore_progress; an unknown outcome is settled by a serial read,  *)
(* and a write that did not land is sent once more.                         *)
Progress(g) ==
    /\ act[g].pc = "progress" /\ limbo = NoRow
    /\ \/ /\ Owned(g)
          /\ row' = [row EXCEPT !.prog = Recorded(g)]
          /\ act' = [act EXCEPT ![g].pc = IF act[g].next = Total THEN "count" ELSE "load",
                                ![g].next = @ + 1, ![g].try = 1, ![g].stamp = 0]
          /\ UNCHANGED faults
       \/ ~Owned(g) /\ GoFail(g, "other") /\ UNCHANGED <<row, faults>>
       \/ /\ Owned(g) /\ Fault /\ UNCHANGED row
          /\ IF act[g].try = 1 THEN act' = [act EXCEPT ![g].try = 2] ELSE GoFail(g, "other")
    /\ UNCHANGED <<limbo, stale, tables, cell, flight, backup, clock, takes>>

(* A read of the store, a write or a call fails: Stop::Fail.                *)
LoadFails(g) ==
    /\ act[g].pc \in {"load", "await", "resume"}
    /\ IF backup.status = "AVAILABLE" THEN Fault ELSE UNCHANGED faults
    /\ GoFail(g, "other")
    /\ UNCHANGED <<row, limbo, stale, tables, cell, flight, backup, clock, takes>>

(* ClaimLost, Cancelled, LeftRunning, or the death of the server: the       *)
(* record stays RUNNING.  A takeover that ends before it is counted is a    *)
(* fault.                                                                   *)
Stop(g) ==
    /\ \/ act[g].pc \in Loading \cup {"ddl", "register", "resume", "reread"} /\ UNCHANGED faults
       \/ act[g].pc \in {"reapply", "judge"} /\ Fault
    /\ Over(g)
    /\ UNCHANGED <<row, limbo, stale, tables, cell, flight, backup, clock, takes>>

Present == {b \in Batches : cell[b].put > cell[b].del}

Countable == row.status = "CREATING" /\ tables

(* count_target: an error leaves the record RUNNING.                        *)
Count(g) ==
    /\ act[g].pc = "count"
    /\ CASE ~Countable -> Over(g)
         [] Countable /\ Present = Batches -> Go(g, "finish")
         [] OTHER -> GoFail(g, "count")
    /\ UNCHANGED <<row, limbo, stale, tables, cell, flight, backup, clock, takes, faults>>

(* finish: the ACTIVE flip, with one repetition after an error.             *)
Finish(g) ==
    /\ act[g].pc = "finish"
    /\ \E o \in Outcomes :
          /\ Lwt(row.status = "CREATING" /\ Owned(g),
                 [row EXCEPT !.status = "ACTIVE", !.rec = "DONE"], o)
          /\ IF o = "unknown" THEN Go(g, "reread") ELSE Over(g)
          /\ clock' = IF o = "matched" THEN clock + 1 ELSE clock
    /\ UNCHANGED <<stale, tables, cell, flight, backup, takes>>

FinishReread(g) ==
    /\ act[g].pc = "reread"
    /\ IF Owned(g) /\ act[g].try = 1
       THEN act' = [act EXCEPT ![g].pc = "finish", ![g].try = 2]
       ELSE Over(g)
    /\ UNCHANGED <<row, limbo, stale, tables, cell, flight, backup, clock, takes, faults>>

-----------------------------------------------------------------------------
(* fail_restore: write_status to FAILED, then remove_restore_target.        *)

SetFailed(g) ==
    /\ act[g].pc = "fail"
    /\ \E o \in Outcomes :
          /\ Lwt(Owned(g), [row EXCEPT !.rec = "FAILED", !.reason = act[g].reason], o)
          /\ CASE o = "matched" -> Go(g, "claim")
               [] o = "not" -> Over(g)
               [] OTHER -> Go(g, "failed")
          /\ stale' = (stale /\ o # "matched")
    /\ UNCHANGED <<tables, cell, flight, backup, clock, takes>>

FailReread(g) ==
    /\ act[g].pc = "failed"
    /\ CASE Owned(g) /\ act[g].try = 1 -> act' = [act EXCEPT ![g].pc = "fail", ![g].try = 2]
         [] row.rec = "FAILED" /\ row.gen = g -> Go(g, "claim")
         [] OTHER -> Over(g)
    /\ UNCHANGED <<row, limbo, stale, tables, cell, flight, backup, clock, takes, faults>>

(* Mutant: only a target whose removal had begun.                           *)
FindFailedClaimed ==
    /\ act[Duty].pc = "idle"
    /\ row.rec = "FAILED" /\ stale /\ row.status = "DELETING"
    /\ Go(Duty, "claim")
    /\ UNCHANGED <<row, limbo, stale, tables, cell, flight, backup, clock, takes, faults>>

(* list_dead_restore_jobs: the FAILED-target duty.                          *)
FindFailed ==
    /\ act[Duty].pc = "idle"
    /\ row.rec = "FAILED" /\ stale /\ row.status \in {"CREATING", "DELETING"}
    /\ Go(Duty, "claim")
    /\ UNCHANGED <<row, limbo, stale, tables, cell, flight, backup, clock, takes, faults>>

(* remove_restore_target: the claim from CREATING to DELETING, or one that  *)
(* was made already.                                                        *)
ClaimRemoval(a) ==
    /\ act[a].pc = "claim"
    /\ \/ \E o \in Outcomes :
             /\ Lwt(row.status = "CREATING", [row EXCEPT !.status = "DELETING"], o)
             /\ IF o = "matched" THEN Go(a, "unregister") ELSE Over(a)
       \/ /\ row.status = "DELETING" /\ row.rec = "FAILED"
          /\ Go(a, "unregister") /\ UNCHANGED <<row, limbo, faults>>
    /\ UNCHANGED <<stale, tables, cell, flight, backup, clock, takes>>

(* drop_restore_target: the entry, then delete_table's tables and row.      *)
Unregister(a) ==
    /\ act[a].pc = "unregister"
    /\ backup' = [backup EXCEPT !.entry = FALSE]
    /\ IF row.status \in {"none", "gone"} THEN Over(a) ELSE Go(a, "droptables")
    /\ UNCHANGED <<row, limbo, stale, tables, cell, flight, clock, takes, faults>>

DropTables(a) ==
    /\ act[a].pc = "droptables"
    /\ tables' = FALSE /\ cell' = NoItems
    /\ Go(a, "droprow")
    /\ UNCHANGED <<row, limbo, stale, flight, backup, clock, takes, faults>>

DropRow(a) ==
    /\ act[a].pc = "droprow" /\ limbo = NoRow
    /\ row' = [NoRow EXCEPT !.status = "gone"] /\ stale' = FALSE
    /\ Over(a)
    /\ UNCHANGED <<limbo, tables, cell, flight, backup, clock, takes, faults>>

(* A removal fails or its process dies: a later cycle goes on.              *)
RemovalStops(a) ==
    /\ act[a].pc \in {"refused", "fail", "failed", "claim", "unregister", "droptables", "droprow"}
    /\ Fault
    /\ Over(a)
    /\ UNCHANGED <<row, limbo, stale, tables, cell, flight, backup, clock, takes>>

-----------------------------------------------------------------------------
(* The reconciler: resume_dead_manifest_restore.                            *)

(* claim_restore_dead: the takeover stands only if no beat came between its *)
(* read and its write.  The new generation is one that nobody holds.  An    *)
(* owner that stalls past the window on its way to a FAILED record is a     *)
(* fault.                                                                   *)
TakeOver ==
    /\ row.rec = "RUNNING" /\ stale /\ limbo = NoRow
    /\ \E g \in Owners :
          /\ act[g].pc = "idle" /\ \A h \in Owners : h < g => act[h].pc # "idle"
          /\ row' = [row EXCEPT !.gen = g]
          /\ Go(g, "reapply")
    /\ stale' = FALSE
    /\ IF act[row.gen].pc \in {"reapply", "judge", "fail", "failed"} THEN Fault ELSE UNCHANGED faults
    /\ UNCHANGED <<limbo, tables, cell, flight, backup, clock, takes>>

(* reapply_restore_registration; an unknown outcome is passed over.         *)
Reapply(g) ==
    /\ act[g].pc = "reapply"
    /\ \/ backup' = [backup EXCEPT !.entry = @ \/ backup.status = "AVAILABLE"] /\ UNCHANGED faults
       \/ Fault /\ UNCHANGED backup
    /\ Go(g, "judge")
    /\ UNCHANGED <<row, limbo, stale, tables, cell, flight, clock, takes>>

(* The takeovers counted, the progress read, restore_target_ready.          *)
Exhausted == takes = Takeovers
Resumable == row.status = "CREATING" /\ tables

Judge(g) ==
    /\ act[g].pc = "judge"
    /\ takes' = IF Exhausted THEN 0 ELSE takes + 1
    /\ CASE Exhausted -> GoFail(g, "other")
         [] ~Exhausted /\ row.status # "CREATING" -> Over(g)
         [] ~Exhausted /\ Resumable ->
              act' = [act EXCEPT ![g].pc = "resume", ![g].next = row.prog + 1]
         [] OTHER -> GoFail(g, "other")
    /\ UNCHANGED <<row, limbo, stale, tables, cell, flight, backup, clock, faults>>

(* resume: the manifest is read, from the store or the host's spool.        *)
Resume(g) ==
    /\ act[g].pc = "resume"
    /\ Go(g, IF act[g].next > Total THEN "count" ELSE "load")
    /\ UNCHANGED <<row, limbo, stale, tables, cell, flight, backup, clock, takes, faults>>

(* Mutant: only the entry of a target that never was is swept.              *)
SweepsNothing == backup.entry /\ row.status = "none"

(* sweep_restore_registrations: the entry of a target not being restored.   *)
Sweeps == backup.entry /\ row.status # "CREATING"
Sweep ==
    /\ Sweeps
    /\ backup' = [backup EXCEPT !.entry = FALSE]
    /\ UNCHANGED <<row, limbo, stale, tables, cell, flight, act, clock, takes, faults>>

-----------------------------------------------------------------------------
(* DeleteBackup: backup_in_use, then start_backup_delete's transaction,     *)
(* repeated once an entry of a finished restore is cleared.                 *)

DeleteBackup ==
    /\ act[Client].pc = "idle" /\ backup.status = "AVAILABLE" /\ row.status # "CREATING"
    /\ backup' = [backup EXCEPT !.entry = FALSE]
    /\ Go(Client, "mark")
    /\ UNCHANGED <<row, limbo, stale, tables, cell, flight, clock, takes, faults>>

(* Mutant: without the condition on active_restores.                        *)
MarkDeletingAnyway ==
    /\ act[Client].pc = "mark"
    /\ backup' = [backup EXCEPT !.status = "DELETING"]
    /\ Over(Client)
    /\ UNCHANGED <<row, limbo, stale, tables, cell, flight, clock, takes, faults>>

MarkDeleting ==
    /\ act[Client].pc = "mark"
    /\ \/ ~backup.entry /\ backup' = [backup EXCEPT !.status = "DELETING"] /\ Over(Client)
       \/ backup.entry /\ row.status = "CREATING" /\ UNCHANGED backup /\ Over(Client)
       \/ /\ backup.entry /\ row.status # "CREATING"
          /\ backup' = [backup EXCEPT !.entry = FALSE] /\ UNCHANGED act
    /\ UNCHANGED <<row, limbo, stale, tables, cell, flight, clock, takes, faults>>

(* A client deletes an item of the restored table.                          *)
DeleteItem(b) ==
    /\ row.status = "ACTIVE" /\ tables /\ clock < MaxDeletes + 2
    /\ cell[b].put > cell[b].del
    /\ cell' = [cell EXCEPT ![b].del = clock]
    /\ clock' = clock + 1
    /\ UNCHANGED <<row, limbo, stale, tables, flight, backup, act, takes, faults>>

-----------------------------------------------------------------------------
Removal(a) == ClaimRemoval(a) \/ Unregister(a) \/ DropTables(a) \/ DropRow(a)
Registration == CreateTables \/ Register \/ Refused \/ FirstBeat
OwnerStep(g) ==
    \/ ReadStamp(g) \/ Confirm(g) \/ WriteBatch(g) \/ Written(g) \/ Progress(g)
    \/ Count(g) \/ Finish(g) \/ FinishReread(g)
    \/ SetFailed(g) \/ FailReread(g) \/ Reapply(g) \/ Judge(g) \/ Resume(g) \/ Removal(g)
Cycle == FindFailed \/ Removal(Duty) \/ TakeOver \/ Sweep

Next ==
    \/ Insert \/ Registration \/ CreateFails
    \/ \E g \in Owners : OwnerStep(g) \/ Beat(g) \/ LoadFails(g) \/ Stop(g)
    \/ \E w \in Batches \X Stamps : Land(w)
    \/ \E a \in Owners \cup {Duty} : RemovalStops(a)
    \/ Cycle \/ GoStale \/ Settle
    \/ DeleteBackup \/ MarkDeleting \/ \E b \in Batches : DeleteItem(b)

Spec == Init /\ [][Next]_vars

(* A Paxos round and a sent write are over some time, an unrefreshed record *)
(* grows stale, a registration and a job run until they stop, the           *)
(* reconciler's cycles go on.  Beats, stops and faults are never required.  *)
Fairness ==
    /\ WF_vars(Settle) /\ WF_vars(GoStale) /\ \A w \in Batches \X Stamps : WF_vars(Land(w))
    /\ WF_vars(Registration) /\ \A g \in Owners : WF_vars(OwnerStep(g))
    /\ WF_vars(FindFailed \/ Removal(Duty)) /\ WF_vars(TakeOver) /\ WF_vars(Sweep)
FairSpec == Spec /\ Fairness

-----------------------------------------------------------------------------
(* The fence of the load: a batch that stalls past a takeover never brings  *)
(* back an item that was deleted from the restored table.                   *)
NoResurrection == \A b \in Batches : cell[b].del # 0 => cell[b].put <= cell[b].del

(* A resume never misses an item: whatever the crash it resumes from, the   *)
(* final count finds every item of the backup.                              *)
NoMiscount == row.reason # "count"

(* A backup whose in-use entry names a target being restored is not         *)
(* deleted, whichever of DeleteBackup, the registration and a takeover      *)
(* comes first.                                                             *)
InUseKept == backup.entry /\ row.status = "CREATING" => backup.status = "AVAILABLE"

(* No restore stays CREATING for good: it becomes ACTIVE or its target is   *)
(* removed.                                                                 *)
CreatingResolved == row.status = "CREATING" ~> row.status # "CREATING"

(* An entry that outlives its restore is removed: the backup can be deleted *)
(* some time.                                                               *)
EntryReleased == backup.entry ~> ~backup.entry

(* drop_restore_target removes "a restore target this caller has claimed    *)
(* (or that never had a copy)": not the tables of a restored table.         *)
ActiveTableKept == [][row.status = "ACTIVE" /\ row'.status = "ACTIVE" /\ tables => tables']_vars
=============================================================================
