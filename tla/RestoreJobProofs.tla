-------------------------- MODULE RestoreJobProofs --------------------------
(***************************************************************************)
(* RestoreJob for every number of batches, takeovers, jobs, deletes and     *)
(* faults.                                                                  *)
(*                                                                         *)
(* The argument: the clock moves for the first time with the ACTIVE flip,   *)
(* which ends the RUNNING record for good (Flip), so a batch whose claim    *)
(* was confirmed carries a timestamp from before every delete (Fenced).     *)
(* The tables are created once, before anything is loaded into them         *)
(* (Early), and what a job counts as loaded, or records as progress, has    *)
(* landed in them, unless they are gone (Loaded); a count that can be taken *)
(* is therefore complete.                                                   *)
(***************************************************************************)
EXTENDS RestoreJob, FiniteSetTheorems, TLAPS

(* A write of unknown outcome: only the last change of a live row is open.  *)
Open ==
    /\ limbo.status = "CREATING" => row.status = "CREATING"
    /\ limbo.status = "ACTIVE" => limbo.rec = "DONE"
    /\ limbo # NoRow => clock = 1 /\ limbo.prog = row.prog

(* The clock moves with the flip, and only then do items go.                *)
Flip ==
    /\ clock >= 1
    /\ row.status = "ACTIVE" => row.rec = "DONE" /\ clock > 1
    /\ clock > 1 => \/ row.status = "ACTIVE"
                    \/ row.status = "gone" /\ row.rec = "none"
    /\ clock = 1 => \A b \in Batches : cell[b].del = 0

Stamped == {"confirm", "write", "await"}
Sent == {"write", "await"}

(* Every batch that is written has a timestamp from before the flip.        *)
Fenced == (\A w \in flight : w[2] = 1) /\ (\A b \in Batches : cell[b].put <= 1)

JobFenced(r) ==
    /\ r.pc \in Stamped => 1 <= r.stamp /\ r.stamp <= clock
    /\ r.pc \in Sent => r.stamp = 1

(* Until the tables are created nobody loads.                               *)
BeforeLoad == {"idle", "ddl", "refused", "reapply", "judge", "fail", "failed", "claim", "unregister",
               "droptables", "droprow"}
Early ==
    (row = NoRow \/ act[Registrant].pc = "ddl") =>
        /\ ~tables /\ row.prog = 0 /\ (row = NoRow => act[Registrant].pc # "ddl")
        /\ \A g \in Owners : act[g].next = 1 /\ act[g].pc \in BeforeLoad

(* The position of a load.                                                  *)
JobPlaced(r) ==
    /\ r.pc \in Stamped \cup {"progress"} => r.next <= Total
    /\ r.pc = "count" => r.next > Total
    /\ r.pc \in {"register", "beat"} => r.next = 1
Placed == \A g \in Owners : JobPlaced(act[g])

(* What is recorded as loaded, and what a job takes for loaded, has landed. *)
Loaded == tables => \A b \in Batches : b <= row.prog => cell[b].put >= 1

JobLoaded(r) ==
    tables =>
        /\ \A b \in Batches : b < r.next => cell[b].put >= 1
        /\ r.pc = "await" /\ <<r.next, r.stamp>> \notin flight => cell[r.next].put >= 1
        /\ r.pc = "progress" => cell[r.next].put >= 1

(* No job has found a count short.                                          *)
NoneShort == row.reason # "count" /\ limbo.reason # "count"

JobInv(r) == JobFenced(r) /\ JobPlaced(r) /\ JobLoaded(r) /\ r.reason # "count"
JobsInv == \A g \in Owners : JobInv(act[g])

RestoreInv ==
    TypeOK /\ Open /\ Flip /\ Fenced /\ Early /\ Loaded /\ JobsInv /\ NoneShort /\ InUseKept

-----------------------------------------------------------------------------
(* Types.                                                                   *)

Worker == [pc : PCs, next : 1 .. Total + 1, stamp : Stamps, try : 1 .. 2,
           reason : {"none", "count", "other"}]

LEMMA Constants ==
    /\ Total \in Nat /\ Total >= 1 /\ Batches = 1 .. Total
    /\ Registrant \in Owners /\ Owners \subseteq Actors /\ Duty \in Actors /\ Client \in Actors
    /\ Duty \notin Owners /\ Client \notin Owners /\ Duty # Client
    /\ 0 \in Stamps /\ 1 \in Stamps /\ 2 \in Stamps /\ NoRow \in Rows
BY RestoreAssumption, FS_CardinalityType, FS_EmptySet
   DEF Total, Registrant, Owners, Actors, Duty, Client, Stamps, NoRow, Rows

LEMMA AtType == ASSUME NEW p \in PCs PROVE At(p) \in Worker
BY Constants DEF At, Worker

LEMMA GoType ==
    ASSUME act \in [Actors -> Worker], NEW a \in Actors, NEW p \in PCs, Go(a, p)
    PROVE  act' \in [Actors -> Worker]
BY DEF Go, Worker

LEMMA OverType ==
    ASSUME act \in [Actors -> Worker], NEW a \in Actors, Over(a)
    PROVE  act' \in [Actors -> Worker]
<1>1. At("idle") \in Worker
  BY AtType DEF PCs
<1> QED
  BY <1>1 DEF Over

LEMMA GoFailType ==
    ASSUME act \in [Actors -> Worker], NEW a \in Actors, NEW why \in {"none", "count", "other"},
           GoFail(a, why)
    PROVE  act' \in [Actors -> Worker]
<1>1. At("fail") \in Worker
  BY AtType DEF PCs
<1>2. [At("fail") EXCEPT !.reason = why] \in Worker
  BY <1>1 DEF Worker
<1> QED
  BY <1>2 DEF GoFail

LEMMA WorkerFields ==
    ASSUME NEW r \in Worker, NEW x \in PCs
    PROVE  /\ [r EXCEPT !.pc = x] \in Worker
           /\ \A z \in Stamps : [r EXCEPT !.pc = x, !.stamp = z] \in Worker
           /\ \A y \in 1 .. Total + 1 : [r EXCEPT !.pc = x, !.next = y] \in Worker
           /\ \A t \in 1 .. 2 : [r EXCEPT !.pc = x, !.try = t] \in Worker
           /\ \A y \in 1 .. Total + 1, t \in 1 .. 2, z \in Stamps :
                 [r EXCEPT !.pc = x, !.next = y, !.try = t, !.stamp = z] \in Worker
BY DEF Worker

(* Where an actor goes.                                                     *)
LEMMA ActStep == ASSUME TypeOK, Placed, Next PROVE act' \in [Actors -> Worker]
<1> USE Constants
<1>t. act \in [Actors -> Worker]
  BY DEF TypeOK, Worker
<1>r. \A g \in Owners : act[g] \in Worker
  BY <1>t
<1>w. 2 \in 1 .. 2
  OBVIOUS
<1> DEFINE Ok == act' \in [Actors -> Worker]
<1> SUFFICES Ok
  OBVIOUS
<1> HIDE DEF Ok
<1>g. \A a \in Actors, p \in PCs : act' = [act EXCEPT ![a].pc = p] => Ok
  BY <1>t, GoType DEF Ok, Go
<1>o. \A a \in Actors : act' = [act EXCEPT ![a] = At("idle")] => Ok
  BY <1>t, OverType DEF Ok, Over
<1>f. \A a \in Actors, why \in {"count", "other"} :
          act' = [act EXCEPT ![a] = [At("fail") EXCEPT !.reason = why]] => Ok
  BY <1>t, GoFailType DEF Ok, GoFail
<1>s. act' = act => Ok
  BY <1>t DEF Ok
<1>5. CASE Insert \/ CreateTables \/ CreateFails \/ Register \/ Refused \/ FirstBeat \/
           FindFailed \/ TakeOver \/ Sweep \/ GoStale \/ Settle \/ DeleteBackup \/ MarkDeleting
  BY <1>g, <1>o, <1>f, <1>s, <1>5 DEF Insert, CreateTables, CreateFails, Register, Refused,
     FirstBeat, FindFailed, TakeOver, Sweep, GoStale, Settle, DeleteBackup, MarkDeleting, PCs,
     Loading, Go, Over, GoFail
<1>6. ASSUME NEW g \in Owners, Confirm(g) \/ WriteBatch(g) \/ Written(g) \/ LoadFails(g)
             \/ Stop(g) \/ Count(g) \/ Finish(g) \/ SetFailed(g) \/ Reapply(g) \/ Resume(g)
      PROVE  Ok
  BY <1>g, <1>o, <1>f, <1>s, <1>6 DEF Confirm, WriteBatch, Written, LoadFails, Stop, Count,
     Finish, SetFailed, Reapply, Resume, PCs, Loading, Go, Over, GoFail
<1>7. ASSUME NEW a \in Actors, ClaimRemoval(a) \/ Unregister(a) \/ DropTables(a) \/
             DropRow(a) \/ RemovalStops(a)
      PROVE  Ok
  BY <1>g, <1>o, <1>f, <1>s, <1>7 DEF ClaimRemoval, Unregister, DropTables, DropRow,
     RemovalStops, PCs, Loading, Go, Over, GoFail
<1>8. ASSUME NEW g \in Owners, Beat(g) PROVE Ok
  BY <1>g, <1>o, <1>f, <1>s, <1>8 DEF Beat, Go, Over, GoFail
<1>9. ASSUME NEW w \in Batches \X Stamps, Land(w) PROVE Ok
  BY <1>g, <1>o, <1>f, <1>s, <1>9 DEF Land, Go, Over, GoFail
<1>10. ASSUME NEW b \in Batches, DeleteItem(b) PROVE Ok
  BY <1>g, <1>o, <1>f, <1>s, <1>10 DEF DeleteItem, Go, Over, GoFail
<1>11. ASSUME NEW g \in Owners, ReadStamp(g) PROVE Ok
  <2>1. [act[g] EXCEPT !.pc = "confirm", !.stamp = clock] \in Worker
    BY <1>t, <1>r, WorkerFields DEF PCs, Loading, TypeOK
  <2>2. act' = [act EXCEPT ![g] = [act[g] EXCEPT !.pc = "confirm", !.stamp = clock]]
    BY <1>11, <1>t DEF ReadStamp
  <2> QED
    BY <2>1, <2>2, <1>t DEF Ok
<1>12. ASSUME NEW g \in Owners, Progress(g) PROVE Ok
  <2> DEFINE n == [act[g] EXCEPT !.pc = IF act[g].next = Total THEN "count" ELSE "load",
                                 !.next = @ + 1, !.try = 1, !.stamp = 0]
             t == [act[g] EXCEPT !.try = 2]
  <2>1. CASE act' = [act EXCEPT ![g] = n] /\ act[g].next <= Total
    <3>1. n \in Worker
      <4>1. /\ act[g].next \in 1 .. Total + 1 /\ act[g].next + 1 \in 1 .. Total + 1
            /\ (IF act[g].next = Total THEN "count" ELSE "load") \in PCs
        BY <1>r, <2>1 DEF Worker, PCs, Loading
      <4>2. 1 \in 1 .. 2
        OBVIOUS
      <4> QED
        BY <1>r, <4>1, <4>2, WorkerFields
    <3> HIDE DEF n
    <3> QED
      BY <3>1, <2>1, <1>t DEF Ok
  <2>2. CASE act' = [act EXCEPT ![g] = t]
    <3>1. t \in Worker
      BY <1>t DEF Worker
    <3> HIDE DEF t
    <3> QED
      BY <3>1, <2>2, <1>t DEF Ok
  <2>3. act' = [act EXCEPT ![g] = n] \/ act' = [act EXCEPT ![g] = t] \/ GoFail(g, "other")
    BY <1>12, <1>t DEF Progress
  <2>4. act[g].next <= Total
    BY <1>12 DEF Progress, Placed, JobPlaced
  <2> QED
    BY <2>1, <2>2, <2>3, <2>4, <1>f DEF GoFail
<1>13. ASSUME NEW g \in Owners, FinishReread(g) PROVE Ok
  <2>1. [act[g] EXCEPT !.pc = "finish", !.try = 2] \in Worker
    BY <1>r, <1>w, WorkerFields DEF PCs, Loading
  <2>2. act' = [act EXCEPT ![g] = [act[g] EXCEPT !.pc = "finish", !.try = 2]] \/ Over(g)
    BY <1>13, <1>t DEF FinishReread
  <2> QED
    BY <2>1, <2>2, <1>t, <1>o DEF Ok, Over
<1>14. ASSUME NEW g \in Owners, FailReread(g) PROVE Ok
  <2>1. [act[g] EXCEPT !.pc = "fail", !.try = 2] \in Worker
    BY <1>r, <1>w, WorkerFields DEF PCs, Loading
  <2>2. act' = [act EXCEPT ![g] = [act[g] EXCEPT !.pc = "fail", !.try = 2]] \/ Over(g)
           \/ Go(g, "claim")
    BY <1>14, <1>t DEF FailReread
  <2> QED
    BY <2>1, <2>2, <1>t, <1>g, <1>o DEF Ok, Over, Go, PCs
<1>15. ASSUME NEW g \in Owners, Judge(g) PROVE Ok
  <2>1. [act[g] EXCEPT !.pc = "resume", !.next = row.prog + 1] \in Worker
    <3>1. row.prog + 1 \in 1 .. Total + 1
      BY DEF TypeOK, Rows
    <3> QED
      BY <3>1, <1>r, WorkerFields DEF PCs
  <2>2. act' = [act EXCEPT ![g] = [act[g] EXCEPT !.pc = "resume", !.next = row.prog + 1]]
           \/ Over(g) \/ GoFail(g, "other")
    BY <1>15, <1>t DEF Judge
  <2> QED
    BY <2>1, <2>2, <1>t, <1>o, <1>f DEF Ok, Over, GoFail
<1> QED
  BY <1>5, <1>6, <1>7, <1>8, <1>9, <1>10, <1>11, <1>12, <1>13, <1>14, <1>15 DEF Next,
     Registration, Cycle, OwnerStep, Removal, Ok

(* The state but for the actors.                                            *)
RowTypes == row \in Rows /\ limbo \in Rows
FlagTypes ==
    /\ stale \in BOOLEAN /\ tables \in BOOLEAN
    /\ backup \in [status : {"AVAILABLE", "DELETING"}, entry : BOOLEAN]
ItemTypes ==
    /\ cell \in [Batches -> [put : Stamps, del : Stamps]]
    /\ flight \subseteq (Batches \X Stamps)
CounterTypes == clock \in Stamps /\ takes \in 0 .. Takeovers /\ faults \in 0 .. MaxFaults

LEMMA RowStep == ASSUME TypeOK, Placed, Next PROVE RowTypes'
<1>t. RowTypes
  BY DEF TypeOK, RowTypes
<1> DEFINE Ok == RowTypes'
<1> SUFFICES Ok
  OBVIOUS
<1> HIDE DEF Ok
<1>u. UNCHANGED <<row, limbo>> => Ok
  BY <1>t DEF Ok, RowTypes
<1>1. CASE Insert
  BY <1>1, <1>t, Constants DEF Ok, RowTypes, Insert, Rows, NoRow
<1>2. CASE CreateTables \/ CreateFails \/ Register \/ FirstBeat \/ FindFailed \/ Sweep \/
           GoStale \/ DeleteBackup \/ MarkDeleting
  BY <1>u, <1>2 DEF CreateTables, CreateFails, Register, FirstBeat, FindFailed, Sweep, GoStale,
     DeleteBackup, MarkDeleting
<1>3. CASE Refused
  BY <1>3, <1>t DEF Ok, RowTypes, Refused, Lwt, Rows
<1>4. ASSUME NEW g \in Owners, ReadStamp(g) \/ Confirm(g) \/ WriteBatch(g) \/ Written(g)
             \/ LoadFails(g) \/ Stop(g) \/ Count(g) \/ FinishReread(g) \/ FailReread(g) \/
             Reapply(g) \/ Judge(g) \/ Resume(g) \/ Beat(g)
      PROVE  Ok
  BY <1>u, <1>4 DEF ReadStamp, Confirm, WriteBatch, Written, LoadFails, Stop, Count,
     FinishReread, FailReread, Reapply, Judge, Resume, Beat
<1>5. ASSUME NEW g \in Owners, Progress(g) PROVE Ok
  <2>1. act[g] \in Worker /\ act[g].next <= Total
    BY <1>5, Constants DEF TypeOK, Worker, Progress, Placed, JobPlaced
  <2>2. Recorded(g) \in 0 .. Total
    BY <2>1, Constants DEF Worker, Recorded
  <2> QED
    BY <1>5, <2>2, <1>t DEF Ok, RowTypes, Progress, Rows
<1>6. ASSUME NEW g \in Owners, Finish(g) PROVE Ok
  BY <1>6, <1>t DEF Ok, RowTypes, Finish, Lwt, Rows
<1>7. ASSUME NEW g \in Owners, SetFailed(g) PROVE Ok
  <2>1. act[g].reason \in {"none", "count", "other"}
    BY Constants DEF TypeOK
  <2>2. [row EXCEPT !.rec = "FAILED", !.reason = act[g].reason] \in Rows
    BY <2>1, <1>t DEF RowTypes, Rows
  <2> QED
    BY <1>7, <2>2, <1>t DEF Ok, RowTypes, SetFailed, Lwt
<1>8. ASSUME NEW a \in Actors, ClaimRemoval(a) PROVE Ok
  BY <1>8, <1>t DEF Ok, RowTypes, ClaimRemoval, Lwt, Rows
<1>9. ASSUME NEW a \in Actors, Unregister(a) \/ DropTables(a) \/ RemovalStops(a)
      PROVE  Ok
  BY <1>u, <1>9 DEF Unregister, DropTables, RemovalStops
<1>10. ASSUME NEW a \in Actors, DropRow(a) PROVE Ok
  BY <1>10, <1>t, Constants DEF Ok, RowTypes, DropRow, Rows, NoRow
<1>11. CASE TakeOver
  BY <1>11, <1>t DEF Ok, RowTypes, TakeOver, Rows
<1>12. CASE Settle
  BY <1>12, <1>t, Constants DEF Ok, RowTypes, Settle
<1>13. ASSUME NEW w \in Batches \X Stamps, Land(w) PROVE Ok
  BY <1>u, <1>13 DEF Land
<1>14. ASSUME NEW b \in Batches, DeleteItem(b) PROVE Ok
  BY <1>u, <1>14 DEF DeleteItem
<1> QED
  BY Constants, <1>1, <1>2, <1>3, <1>4, <1>5, <1>6, <1>7, <1>8, <1>9, <1>10, <1>11, <1>12, <1>13,
     <1>14 DEF Next, Registration, Cycle, OwnerStep, Removal

LEMMA FlagStep == ASSUME TypeOK, Next PROVE FlagTypes'
<1>t. FlagTypes
  BY DEF TypeOK, FlagTypes
<1> DEFINE Ok == FlagTypes'
<1> SUFFICES Ok
  OBVIOUS
<1> HIDE DEF Ok
<1>u. UNCHANGED <<stale, tables, backup>> => Ok
  BY <1>t DEF Ok, FlagTypes
<1>1. CASE Insert \/ FindFailed
  BY <1>u, <1>1 DEF Insert, FindFailed
<1>2. CASE CreateTables \/ CreateFails \/ Register \/ Refused \/ FirstBeat \/ TakeOver \/
           Sweep \/ GoStale \/ Settle \/ DeleteBackup \/ MarkDeleting
  BY <1>2, <1>t DEF Ok, FlagTypes, CreateTables, CreateFails, Register, Refused, FirstBeat,
     TakeOver, Sweep, GoStale, Settle, DeleteBackup, MarkDeleting
<1>3. ASSUME NEW g \in Owners, ReadStamp(g) \/ WriteBatch(g) \/ Written(g) \/ Progress(g)
             \/ LoadFails(g) \/ Stop(g) \/ Count(g) \/ Finish(g) \/ FinishReread(g) \/
             FailReread(g) \/ Judge(g) \/ Resume(g)
      PROVE  Ok
  BY <1>u, <1>3 DEF ReadStamp, WriteBatch, Written, Progress, LoadFails, Stop, Count, Finish,
     FinishReread, FailReread, Judge, Resume
<1>4. ASSUME NEW g \in Owners, Confirm(g) \/ SetFailed(g) \/ Reapply(g) \/ Beat(g)
      PROVE  Ok
  BY <1>4, <1>t DEF Ok, FlagTypes, Confirm, SetFailed, Reapply, Beat
<1>5. ASSUME NEW a \in Actors, ClaimRemoval(a) \/ RemovalStops(a)
      PROVE  Ok
  BY <1>u, <1>5 DEF ClaimRemoval, RemovalStops
<1>6. ASSUME NEW a \in Actors, Unregister(a) \/ DropTables(a) \/ DropRow(a)
      PROVE  Ok
  BY <1>6, <1>t DEF Ok, FlagTypes, Unregister, DropTables, DropRow
<1>7. ASSUME NEW w \in Batches \X Stamps, Land(w) PROVE Ok
  BY <1>u, <1>7 DEF Land
<1>8. ASSUME NEW b \in Batches, DeleteItem(b) PROVE Ok
  BY <1>u, <1>8 DEF DeleteItem
<1> QED
  BY Constants, <1>1, <1>2, <1>3, <1>4, <1>5, <1>6, <1>7, <1>8 DEF Next, Registration, Cycle,
     OwnerStep, Removal

LEMMA CounterStep == ASSUME TypeOK, Open, Flip, Next PROVE CounterTypes'
<1>t. CounterTypes
  BY DEF TypeOK, CounterTypes
<1> DEFINE Ok == CounterTypes'
<1> SUFFICES Ok
  OBVIOUS
<1> HIDE DEF Ok
<1>u. UNCHANGED <<clock, takes, faults>> => Ok
  BY <1>t DEF Ok, CounterTypes
<1>1. CASE Insert \/ CreateTables \/ FindFailed \/ Sweep \/ GoStale \/ DeleteBackup \/
           MarkDeleting
  BY <1>u, <1>1 DEF Insert, CreateTables, FindFailed, Sweep, GoStale, DeleteBackup, MarkDeleting
<1>2. CASE CreateFails \/ Register \/ Refused \/ FirstBeat \/ TakeOver
  <2>1. CASE CreateFails
    BY <2>1, <1>t, RestoreAssumption DEF CreateFails, Ok, CounterTypes, Fault, Lwt
  <2>2. CASE Register
    BY <2>2, <1>t, RestoreAssumption DEF Register, Ok, CounterTypes, Fault, Lwt
  <2>3. CASE Refused
    BY <2>3, <1>t, RestoreAssumption DEF Refused, Ok, CounterTypes, Fault, Lwt
  <2>4. CASE FirstBeat
    BY <2>4, <1>t, RestoreAssumption DEF FirstBeat, Ok, CounterTypes, Fault, Lwt
  <2>5. CASE TakeOver
    BY <2>5, <1>t, RestoreAssumption DEF TakeOver, Ok, CounterTypes, Fault, Lwt
  <2> QED
    BY <1>2, <2>1, <2>2, <2>3, <2>4, <2>5
<1>3. ASSUME NEW g \in Owners, ReadStamp(g) \/ WriteBatch(g) \/ Written(g) \/ Count(g) \/
             FinishReread(g) \/ FailReread(g) \/ Resume(g) \/ Beat(g)
      PROVE  Ok
  BY <1>u, <1>3 DEF ReadStamp, WriteBatch, Written, Count, FinishReread, FailReread, Resume, Beat
<1>4. ASSUME NEW g \in Owners, Confirm(g) \/ Progress(g) \/ LoadFails(g) \/ Stop(g) \/
             SetFailed(g) \/ Reapply(g)
      PROVE  Ok
  BY <1>4, <1>t, RestoreAssumption DEF Ok, CounterTypes, Confirm, Progress, LoadFails, Stop,
     SetFailed, Reapply, Fault, Lwt
<1>5. ASSUME NEW g \in Owners, Finish(g) PROVE Ok
  BY <1>5, <1>t, RestoreAssumption, Flip DEF Ok, CounterTypes, Finish, Fault, Lwt, Flip, Stamps
<1>6. ASSUME NEW g \in Owners, Judge(g) PROVE Ok
  BY <1>6, <1>t, RestoreAssumption DEF Ok, CounterTypes, Judge, Exhausted
<1>7. ASSUME NEW a \in Actors, ClaimRemoval(a) \/ RemovalStops(a)
      PROVE  Ok
  BY <1>7, <1>t, RestoreAssumption DEF Ok, CounterTypes, ClaimRemoval, RemovalStops, Fault, Lwt
<1>8. ASSUME NEW a \in Actors, Unregister(a) \/ DropTables(a) \/ DropRow(a)
      PROVE  Ok
  BY <1>u, <1>8 DEF Unregister, DropTables, DropRow
<1>9. CASE Settle
  BY <1>9, <1>t, RestoreAssumption, Flip, Open DEF Ok, CounterTypes, Settle, Flip, Open, Stamps
<1>10. ASSUME NEW w \in Batches \X Stamps, Land(w) PROVE Ok
  BY <1>u, <1>10 DEF Land
<1>11. ASSUME NEW b \in Batches, DeleteItem(b) PROVE Ok
  BY <1>11, <1>t, RestoreAssumption DEF Ok, CounterTypes, DeleteItem, Stamps
<1> QED
  BY Constants, <1>1, <1>2, <1>3, <1>4, <1>5, <1>6, <1>7, <1>8, <1>9, <1>10, <1>11 DEF Next,
     Registration, Cycle, OwnerStep, Removal

LEMMA ItemStep == ASSUME TypeOK, Placed, Next PROVE ItemTypes'
<1>t. ItemTypes
  BY DEF TypeOK, ItemTypes
<1> DEFINE Ok == ItemTypes'
<1> SUFFICES Ok
  OBVIOUS
<1> HIDE DEF Ok
<1>u. UNCHANGED <<cell, flight>> => Ok
  BY <1>t DEF Ok, ItemTypes
<1>1. CASE Insert \/ CreateTables \/ CreateFails \/ Register \/ Refused \/ FirstBeat \/
           FindFailed \/ TakeOver \/ Sweep \/ GoStale \/ Settle \/ DeleteBackup \/ MarkDeleting
  BY <1>u, <1>1 DEF Insert, CreateTables, CreateFails, Register, Refused, FirstBeat, FindFailed,
     TakeOver, Sweep, GoStale, Settle, DeleteBackup, MarkDeleting
<1>2. ASSUME NEW g \in Owners, ReadStamp(g) \/ Confirm(g) \/ Written(g) \/ Progress(g) \/
             LoadFails(g) \/ Stop(g) \/ Count(g) \/ Finish(g) \/ FinishReread(g) \/ SetFailed(g)
             \/ FailReread(g) \/ Reapply(g) \/ Judge(g) \/ Resume(g) \/ Beat(g)
      PROVE  Ok
  BY <1>u, <1>2 DEF ReadStamp, Confirm, Written, Progress, LoadFails, Stop, Count, Finish,
     FinishReread, SetFailed, FailReread, Reapply, Judge, Resume, Beat
<1>3. ASSUME NEW g \in Owners, WriteBatch(g) PROVE Ok
  BY <1>3, <1>t, TypeOK, Placed, Constants DEF Ok, ItemTypes, WriteBatch, TypeOK, Placed,
     JobPlaced, Stamped
<1>4. ASSUME NEW a \in Actors, ClaimRemoval(a) \/ Unregister(a) \/ DropRow(a) \/
             RemovalStops(a)
      PROVE  Ok
  BY <1>u, <1>4 DEF ClaimRemoval, Unregister, DropRow, RemovalStops
<1>5. ASSUME NEW a \in Actors, DropTables(a) PROVE Ok
  BY <1>5, <1>t, Constants DEF Ok, ItemTypes, DropTables, NoItems
<1>6. ASSUME NEW w \in Batches \X Stamps, Land(w) PROVE Ok
  BY <1>6, <1>t DEF Ok, ItemTypes, Land
<1>7. ASSUME NEW b \in Batches, DeleteItem(b) PROVE Ok
  BY <1>7, <1>t, TypeOK DEF Ok, ItemTypes, DeleteItem, TypeOK
<1> QED
  BY Constants, <1>1, <1>2, <1>3, <1>4, <1>5, <1>6, <1>7 DEF Next, Registration, Cycle,
     OwnerStep, Removal

LEMMA TypeStep == ASSUME TypeOK, Open, Flip, Placed, Next PROVE TypeOK'
BY ActStep, RowStep, FlagStep, CounterStep, ItemStep
   DEF TypeOK, Worker, RowTypes, FlagTypes, CounterTypes, ItemTypes

-----------------------------------------------------------------------------
(* The row and the clock.                                                   *)

(* The four conditional writes: nothing, or new, at once or in doubt.       *)
Writes(new) ==
    limbo = NoRow /\ ((row' = new /\ limbo' = limbo) \/ (row' = row /\ limbo' = new))

LEMMA RefusedEffect ==
    ASSUME row \in Rows, Refused, ~ UNCHANGED <<row, limbo>>
    PROVE  \E new \in Rows : /\ new.status = "DELETING" /\ new.prog = row.prog /\ new.reason = "other"
                             /\ row.status = "CREATING" /\ Writes(new)
<1> DEFINE new == [row EXCEPT !.status = "DELETING", !.rec = "FAILED", !.reason = "other"]
<1>1. PICK o \in Outcomes : Lwt(row.status = "CREATING" /\ Owned(Registrant), new, o)
  BY DEF Refused
<1>2. row.status = "CREATING" /\ Writes(new)
  <2> HIDE DEF new
  <2> QED
    BY <1>1 DEF Lwt, Writes
<1>3. new \in Rows /\ new.status = "DELETING" /\ new.prog = row.prog /\ new.reason = "other"
  BY DEF Rows
<1> HIDE DEF new
<1> QED
  BY <1>2, <1>3

LEMMA FinishEffect ==
    ASSUME row \in Rows, clock \in Nat, NEW g \in Owners, Finish(g)
    PROVE  \/ UNCHANGED <<row, limbo, clock>>
           \/ \E new \in Rows : /\ new.status = "ACTIVE" /\ new.rec = "DONE" /\ new.prog = row.prog
                               /\ new.reason = row.reason /\ row.status = "CREATING" /\ limbo = NoRow
                               /\ \/ row' = new /\ limbo' = limbo /\ clock' = clock + 1
                                  \/ row' = row /\ limbo' = new /\ clock' = clock
<1> DEFINE new == [row EXCEPT !.status = "ACTIVE", !.rec = "DONE"]
<1>1. PICK o \in Outcomes : /\ Lwt(row.status = "CREATING" /\ Owned(g), new, o)
                            /\ clock' = IF o = "matched" THEN clock + 1 ELSE clock
  BY DEF Finish
<1>2. new \in Rows /\ new.status = "ACTIVE" /\ new.rec = "DONE" /\ new.prog = row.prog
      /\ new.reason = row.reason
  BY DEF Rows
<1> HIDE DEF new
<1> QED
  BY <1>1, <1>2 DEF Lwt

LEMMA SetFailedEffect ==
    ASSUME TypeOK, NEW g \in Owners, SetFailed(g), ~ UNCHANGED <<row, limbo>>
    PROVE  \E new \in Rows : /\ new.status = row.status /\ new.rec = "FAILED" /\ new.prog = row.prog
                             /\ new.reason = act[g].reason /\ Owned(g) /\ Writes(new)
<1> DEFINE new == [row EXCEPT !.rec = "FAILED", !.reason = act[g].reason]
<1>1. PICK o \in Outcomes : Lwt(Owned(g), new, o)
  BY DEF SetFailed
<1>2. Owned(g) /\ Writes(new)
  <2> HIDE DEF new
  <2> QED
    BY <1>1 DEF Lwt, Writes
<1>3. act[g].reason \in {"none", "count", "other"}
  BY Constants DEF TypeOK
<1>4. new \in Rows /\ new.status = row.status /\ new.rec = "FAILED" /\ new.prog = row.prog
      /\ new.reason = act[g].reason
  BY <1>3 DEF Rows, TypeOK
<1> HIDE DEF new
<1> QED
  BY <1>2, <1>4

LEMMA ClaimEffect ==
    ASSUME row \in Rows, NEW a, ClaimRemoval(a), ~ UNCHANGED <<row, limbo>>
    PROVE  \E new \in Rows : /\ new.status = "DELETING" /\ new.prog = row.prog
                             /\ new.reason = row.reason /\ row.status = "CREATING" /\ Writes(new)
<1> DEFINE new == [row EXCEPT !.status = "DELETING"]
<1>1. PICK o \in Outcomes : Lwt(row.status = "CREATING", new, o)
  BY DEF ClaimRemoval
<1>2. row.status = "CREATING" /\ Writes(new)
  <2> HIDE DEF new
  <2> QED
    BY <1>1 DEF Lwt, Writes
<1>3. new \in Rows /\ new.status = "DELETING" /\ new.prog = row.prog /\ new.reason = row.reason
  BY DEF Rows
<1> HIDE DEF new
<1> QED
  BY <1>2, <1>3

LEMMA OpenStep == ASSUME TypeOK, Open, Flip, Next PROVE Open'
<1>t. Open /\ Flip /\ row \in Rows /\ limbo \in Rows /\ clock \in Nat
  BY DEF TypeOK, Stamps
<1> DEFINE Ok == Open'
<1> SUFFICES Ok
  OBVIOUS
<1> HIDE DEF Ok
<1>u. UNCHANGED <<row, limbo, clock>> => Ok
  BY DEF Ok, Open, NoRow
<1>1. CASE CreateTables \/ CreateFails \/ Register \/ FirstBeat \/ FindFailed \/ Sweep \/
           GoStale \/ DeleteBackup \/ MarkDeleting
  BY <1>u, <1>1 DEF CreateTables, CreateFails, Register, FirstBeat, FindFailed, Sweep, GoStale,
     DeleteBackup, MarkDeleting
<1>2. CASE Insert \/ TakeOver \/ Settle
  <2>1. CASE Insert
    BY <2>1, <1>t DEF Insert, Ok, Open, Flip, Owned, NoRow, Rows, Stamps
  <2>2. CASE TakeOver
    BY <2>2, <1>t DEF TakeOver, Ok, Open, Flip, Owned, NoRow, Rows, Stamps
  <2>3. CASE Settle
    BY <2>3, <1>t DEF Settle, Ok, Open, Flip, Owned, NoRow, Rows, Stamps
  <2> QED
    BY <1>2, <2>1, <2>2, <2>3
<1>3. CASE Refused
  <2>1. CASE UNCHANGED <<row, limbo>>
    BY <1>3, <2>1, <1>u DEF Refused
  <2>2. CASE ~ UNCHANGED <<row, limbo>>
    <3>1. UNCHANGED <<clock>>
      BY <1>3 DEF Refused
    <3> QED
      BY <1>3, <2>2, <3>1, <1>t, RefusedEffect DEF Ok, Open, Flip, Writes, Owned, NoRow
  <2> QED
    BY <2>1, <2>2
<1>4. ASSUME NEW g \in Owners, ReadStamp(g) \/ Confirm(g) \/ WriteBatch(g) \/ Written(g) \/
      LoadFails(g) \/ Stop(g) \/ Count(g) \/ FinishReread(g) \/ FailReread(g) \/ Reapply(g) \/
      Judge(g) \/ Resume(g) \/ Beat(g)
      PROVE  Ok
  BY <1>u, <1>4 DEF ReadStamp, Confirm, WriteBatch, Written, LoadFails, Stop, Count,
     FinishReread, FailReread, Reapply, Judge, Resume, Beat
<1>5. ASSUME NEW g \in Owners, Progress(g) PROVE Ok
  BY <1>5, <1>t DEF Ok, Open, Flip, Owned, NoRow, Rows, Stamps, Progress
<1>6. ASSUME NEW g \in Owners, Finish(g) PROVE Ok
  <2>1. CASE UNCHANGED <<row, limbo, clock>>
    BY <1>6, <2>1, <1>u DEF Finish
  <2>2. CASE ~ UNCHANGED <<row, limbo, clock>>
    BY <1>6, <2>2, <1>t, FinishEffect DEF Ok, Open, Flip, Writes, Owned, NoRow
  <2> QED
    BY <2>1, <2>2
<1>7. ASSUME NEW g \in Owners, SetFailed(g) PROVE Ok
  <2>1. CASE UNCHANGED <<row, limbo>>
    BY <1>7, <2>1, <1>u DEF SetFailed
  <2>2. CASE ~ UNCHANGED <<row, limbo>>
    <3>1. UNCHANGED <<clock>>
      BY <1>7 DEF SetFailed
    <3> QED
      BY <1>7, <2>2, <3>1, <1>t, SetFailedEffect DEF Ok, Open, Flip, Writes, Owned, NoRow
  <2> QED
    BY <2>1, <2>2
<1>8. ASSUME NEW a \in Actors, Unregister(a) \/ DropTables(a) \/ RemovalStops(a)
      PROVE  Ok
  BY <1>u, <1>8 DEF Unregister, DropTables, RemovalStops
<1>9. ASSUME NEW a \in Actors, ClaimRemoval(a) PROVE Ok
  <2>1. CASE UNCHANGED <<row, limbo>>
    BY <1>9, <2>1, <1>u DEF ClaimRemoval
  <2>2. CASE ~ UNCHANGED <<row, limbo>>
    <3>1. UNCHANGED <<clock>>
      BY <1>9 DEF ClaimRemoval
    <3> QED
      BY <1>9, <2>2, <3>1, <1>t, ClaimEffect DEF Ok, Open, Flip, Writes, Owned, NoRow
  <2> QED
    BY <2>1, <2>2
<1>10. ASSUME NEW a \in Actors, DropRow(a) PROVE Ok
  BY <1>10, <1>t DEF Ok, Open, Flip, Owned, NoRow, Rows, Stamps, DropRow
<1>11. ASSUME NEW w \in Batches \X Stamps, Land(w) PROVE Ok
  BY <1>u, <1>11 DEF Land
<1>12. ASSUME NEW b \in Batches, DeleteItem(b) PROVE Ok
  BY <1>12, <1>t DEF Ok, Open, Flip, Owned, NoRow, Rows, Stamps, DeleteItem
<1> QED
  BY Constants, <1>1, <1>2, <1>3, <1>4, <1>5, <1>6, <1>7, <1>8, <1>9, <1>10, <1>11, <1>12 DEF
     Next, Registration, Cycle, OwnerStep, Removal

LEMMA FlipStep == ASSUME TypeOK, Open, Flip, Next PROVE Flip'
<1>t. /\ Open /\ Flip /\ row \in Rows /\ limbo \in Rows /\ clock \in Nat
     /\ cell \in [Batches -> [put : Stamps, del : Stamps]]
  BY DEF TypeOK, Stamps
<1> DEFINE Ok == Flip'
<1> SUFFICES Ok
  OBVIOUS
<1> HIDE DEF Ok
<1>u. UNCHANGED <<row, cell, clock>> => Ok
  BY DEF Ok, Flip
<1>1. CASE CreateTables \/ CreateFails \/ Register \/ FirstBeat \/ FindFailed \/ Sweep \/
           GoStale \/ DeleteBackup \/ MarkDeleting
  BY <1>u, <1>1 DEF CreateTables, CreateFails, Register, FirstBeat, FindFailed, Sweep, GoStale,
     DeleteBackup, MarkDeleting
<1>2. CASE Insert \/ TakeOver \/ Settle
  <2>1. CASE Insert
    BY <2>1, <1>t DEF Insert, Ok, Open, Flip, Owned, NoRow, Rows, Stamps
  <2>2. CASE TakeOver
    BY <2>2, <1>t DEF TakeOver, Ok, Open, Flip, Owned, NoRow, Rows, Stamps
  <2>3. CASE Settle
    BY <2>3, <1>t DEF Settle, Ok, Open, Flip, Owned, NoRow, Rows, Stamps
  <2> QED
    BY <1>2, <2>1, <2>2, <2>3
<1>3. CASE Refused
  <2>1. CASE UNCHANGED <<row, limbo>>
    BY <1>3, <2>1, <1>u DEF Refused
  <2>2. CASE ~ UNCHANGED <<row, limbo>>
    <3>1. UNCHANGED <<clock, cell>>
      BY <1>3 DEF Refused
    <3> QED
      BY <1>3, <2>2, <3>1, <1>t, RefusedEffect DEF Ok, Open, Flip, Writes, Owned, NoRow
  <2> QED
    BY <2>1, <2>2
<1>4. ASSUME NEW g \in Owners, ReadStamp(g) \/ Confirm(g) \/ WriteBatch(g) \/ Written(g) \/
      LoadFails(g) \/ Stop(g) \/ Count(g) \/ FinishReread(g) \/ FailReread(g) \/ Reapply(g) \/
      Judge(g) \/ Resume(g) \/ Beat(g)
      PROVE  Ok
  BY <1>u, <1>4 DEF ReadStamp, Confirm, WriteBatch, Written, LoadFails, Stop, Count,
     FinishReread, FailReread, Reapply, Judge, Resume, Beat
<1>5. ASSUME NEW g \in Owners, Progress(g) PROVE Ok
  BY <1>5, <1>t DEF Ok, Open, Flip, Owned, NoRow, Rows, Stamps, Progress
<1>6. ASSUME NEW g \in Owners, Finish(g) PROVE Ok
  <2>1. CASE UNCHANGED <<row, limbo, clock>>
    BY <1>6, <2>1, <1>u DEF Finish
  <2>2. CASE ~ UNCHANGED <<row, limbo, clock>>
    <3>1. UNCHANGED <<cell>>
      BY <1>6 DEF Finish
    <3> QED
      BY <1>6, <2>2, <3>1, <1>t, FinishEffect DEF Ok, Open, Flip, Writes, Owned, NoRow
  <2> QED
    BY <2>1, <2>2
<1>7. ASSUME NEW g \in Owners, SetFailed(g) PROVE Ok
  <2>1. CASE UNCHANGED <<row, limbo>>
    BY <1>7, <2>1, <1>u DEF SetFailed
  <2>2. CASE ~ UNCHANGED <<row, limbo>>
    <3>1. UNCHANGED <<clock, cell>>
      BY <1>7 DEF SetFailed
    <3> QED
      BY <1>7, <2>2, <3>1, <1>t, SetFailedEffect DEF Ok, Open, Flip, Writes, Owned, NoRow
  <2> QED
    BY <2>1, <2>2
<1>8. ASSUME NEW a \in Actors, Unregister(a) \/ RemovalStops(a)
      PROVE  Ok
  BY <1>u, <1>8 DEF Unregister, RemovalStops
<1>9. ASSUME NEW a \in Actors, ClaimRemoval(a) PROVE Ok
  <2>1. CASE UNCHANGED <<row, limbo>>
    BY <1>9, <2>1, <1>u DEF ClaimRemoval
  <2>2. CASE ~ UNCHANGED <<row, limbo>>
    <3>1. UNCHANGED <<clock, cell>>
      BY <1>9 DEF ClaimRemoval
    <3> QED
      BY <1>9, <2>2, <3>1, <1>t, ClaimEffect DEF Ok, Open, Flip, Writes, Owned, NoRow
  <2> QED
    BY <2>1, <2>2
<1>10. ASSUME NEW a \in Actors, DropTables(a) PROVE Ok
  BY <1>10, <1>t DEF Ok, Flip, NoItems, DropTables
<1>11. ASSUME NEW a \in Actors, DropRow(a) PROVE Ok
  BY <1>11, <1>t DEF Ok, Open, Flip, Owned, NoRow, Rows, Stamps, DropRow
<1>12. ASSUME NEW w \in Batches \X Stamps, Land(w) PROVE Ok
  BY <1>12, <1>t DEF Ok, Flip, Land
<1>13. ASSUME NEW b \in Batches, DeleteItem(b) PROVE Ok
  BY <1>13, <1>t DEF Ok, Flip, Stamps, DeleteItem
<1> QED
  BY Constants, <1>1, <1>2, <1>3, <1>4, <1>5, <1>6, <1>7, <1>8, <1>9, <1>10, <1>11, <1>12, <1>13
     DEF Next, Registration, Cycle, OwnerStep, Removal

-----------------------------------------------------------------------------
(* DeleteBackup, the registration and the takeovers.                        *)

LEMMA InUseStep == ASSUME TypeOK, Open, Flip, InUseKept, Next PROVE InUseKept'
<1>t. /\ Open /\ InUseKept /\ row \in Rows /\ limbo \in Rows /\ clock \in Nat
      /\ backup \in [status : {"AVAILABLE", "DELETING"}, entry : BOOLEAN]
  BY DEF TypeOK, Stamps
<1> DEFINE Ok == InUseKept'
<1> SUFFICES Ok
  OBVIOUS
<1> HIDE DEF Ok
<1>u. UNCHANGED <<row, backup>> => Ok
  BY <1>t DEF Ok, InUseKept
<1>1. CASE CreateTables \/ CreateFails \/ FirstBeat \/ FindFailed \/ GoStale
  BY <1>u, <1>1 DEF CreateTables, CreateFails, FirstBeat, FindFailed, GoStale
<1>2. CASE Insert
  BY <1>2, <1>t DEF Ok, InUseKept, NoRow, Insert
<1>3. CASE Register \/ DeleteBackup \/ MarkDeleting
  BY <1>3, <1>t DEF Ok, InUseKept, Register, DeleteBackup, MarkDeleting
<1>4. CASE Refused
  <2>1. UNCHANGED backup
    BY <1>4 DEF Refused
  <2>2. row' = row \/ row'.status # "CREATING" \/ row'.status = row.status
    BY <1>4, <1>t, RefusedEffect DEF Writes
  <2> QED
    BY <1>t, <2>1, <2>2 DEF Ok, InUseKept
<1>5. CASE TakeOver
  BY <1>5, <1>t DEF Ok, InUseKept, Rows, TakeOver
<1>6. CASE Sweep
  BY <1>6, <1>t DEF Ok, InUseKept, Sweeps, Sweep
<1>7. CASE Settle
  BY <1>7, <1>t DEF Ok, InUseKept, Open, Settle
<1>8. ASSUME NEW g \in Owners, ReadStamp(g) \/ Confirm(g) \/ WriteBatch(g) \/ Written(g) \/
      LoadFails(g) \/ Stop(g) \/ Count(g) \/ FinishReread(g) \/ FailReread(g) \/ Judge(g) \/
      Resume(g) \/ Beat(g)
      PROVE  Ok
  BY <1>u, <1>8 DEF ReadStamp, Confirm, WriteBatch, Written, LoadFails, Stop, Count,
     FinishReread, FailReread, Judge, Resume, Beat
<1>9. ASSUME NEW g \in Owners, Progress(g) PROVE Ok
  BY <1>9, <1>t DEF Ok, InUseKept, Rows, Progress
<1>10. ASSUME NEW g \in Owners, Finish(g) PROVE Ok
  <2>1. UNCHANGED backup
    BY <1>10 DEF Finish
  <2>2. row' = row \/ row'.status # "CREATING" \/ row'.status = row.status
    BY <1>10, <1>t, FinishEffect DEF Writes
  <2> QED
    BY <1>t, <2>1, <2>2 DEF Ok, InUseKept
<1>11. ASSUME NEW g \in Owners, SetFailed(g) PROVE Ok
  <2>1. UNCHANGED backup
    BY <1>11 DEF SetFailed
  <2>2. row' = row \/ row'.status # "CREATING" \/ row'.status = row.status
    BY <1>11, <1>t, SetFailedEffect DEF Writes
  <2> QED
    BY <1>t, <2>1, <2>2 DEF Ok, InUseKept
<1>12. ASSUME NEW g \in Owners, Reapply(g) PROVE Ok
  BY <1>12, <1>t DEF Ok, InUseKept, Reapply
<1>13. ASSUME NEW a \in Actors, DropTables(a) \/ RemovalStops(a)
      PROVE  Ok
  BY <1>u, <1>13 DEF DropTables, RemovalStops
<1>14. ASSUME NEW a \in Actors, ClaimRemoval(a) PROVE Ok
  <2>1. UNCHANGED backup
    BY <1>14 DEF ClaimRemoval
  <2>2. row' = row \/ row'.status # "CREATING" \/ row'.status = row.status
    BY <1>14, <1>t, ClaimEffect DEF Writes
  <2> QED
    BY <1>t, <2>1, <2>2 DEF Ok, InUseKept
<1>15. ASSUME NEW a \in Actors, Unregister(a) PROVE Ok
  BY <1>15, <1>t DEF Ok, InUseKept, Unregister
<1>16. ASSUME NEW a \in Actors, DropRow(a) PROVE Ok
  BY <1>16, <1>t DEF Ok, InUseKept, NoRow, DropRow
<1>17. ASSUME NEW w \in Batches \X Stamps, Land(w) PROVE Ok
  BY <1>u, <1>17 DEF Land
<1>18. ASSUME NEW b \in Batches, DeleteItem(b) PROVE Ok
  BY <1>u, <1>18 DEF DeleteItem
<1> QED
  BY Constants, <1>1, <1>2, <1>3, <1>4, <1>5, <1>6, <1>7, <1>8, <1>9, <1>10, <1>11, <1>12, <1>13,
     <1>14, <1>15, <1>16, <1>17, <1>18 DEF Next, Registration, Cycle,
     OwnerStep, Removal

-----------------------------------------------------------------------------
(* The load.                                                                *)

LEMMA JobsPlaced == ASSUME JobsInv PROVE Placed
BY DEF JobsInv, JobInv, Placed

Plain == PCs \ (Stamped \cup {"progress", "count", "register", "beat"})

LEMMA JobAt == ASSUME NEW p \in Plain PROVE JobInv(At(p))
BY Constants DEF JobInv, JobFenced, JobPlaced, JobLoaded, At, Plain, Stamped, Sent

LEMMA JobFail == JobInv([At("fail") EXCEPT !.reason = "other"])
BY Constants DEF JobInv, JobFenced, JobPlaced, JobLoaded, At, Stamped, Sent

LEMMA JobGo ==
    ASSUME NEW r \in Worker, JobInv(r), NEW p \in Plain
    PROVE  JobInv([r EXCEPT !.pc = p])
BY Constants DEF JobInv, JobFenced, JobPlaced, JobLoaded, Worker, Plain, Stamped, Sent

(* Every step that leaves the tables alone.                                 *)
Keeps == \A r \in Worker : JobInv(r) => JobInv(r)'

LEMMA KeepsSame == ASSUME UNCHANGED <<clock, tables, cell, flight>> PROVE Keeps
BY DEF Keeps, JobInv, JobFenced, JobPlaced, JobLoaded

LEMMA JobsMove ==
    ASSUME TypeOK, JobsInv, Keeps, NEW a \in Actors, NEW r \in Worker, act' = [act EXCEPT ![a] = r],
           a \in Owners => JobInv(r) \/ JobInv(r)'
    PROVE  JobsInv'
<1>1. act \in [Actors -> Worker]
  BY DEF TypeOK, Worker
<1>2. SUFFICES ASSUME NEW g \in Owners PROVE JobInv(act[g])'
  BY DEF JobsInv
<1>3. CASE g = a
  <2>1. act'[g] = r /\ JobInv(r)'
    BY <1>1, <1>3, Constants DEF Keeps
  <2> QED
    BY <2>1 DEF JobInv, JobFenced, JobPlaced, JobLoaded
<1>4. CASE g # a
  <2>0. act[g] \in Worker /\ JobInv(act[g]) /\ act'[g] = act[g]
    BY <1>1, <1>4, Constants DEF JobsInv
  <2>1. PICK o \in Worker : act'[g] = o /\ JobInv(o)
    BY <2>0
  <2>2. JobInv(o)'
    BY <2>1 DEF Keeps
  <2> QED
    BY <2>1, <2>2 DEF JobInv, JobFenced, JobPlaced, JobLoaded
<1> QED
  BY <1>3, <1>4

LEMMA JobsGo ==
    ASSUME TypeOK, JobsInv, Keeps, NEW a \in Actors, NEW p \in PCs, p \in Plain \/ a \notin Owners,
           act' = [act EXCEPT ![a].pc = p]
    PROVE  JobsInv'
<1>1. act[a] \in Worker
  BY DEF TypeOK, Worker
<1>2. act' = [act EXCEPT ![a] = [act[a] EXCEPT !.pc = p]] /\ [act[a] EXCEPT !.pc = p] \in Worker
  BY <1>1 DEF TypeOK, Worker
<1>3. a \in Owners => JobInv([act[a] EXCEPT !.pc = p])
  BY <1>1, JobGo DEF JobsInv
<1> QED
  BY <1>2, <1>3, JobsMove

LEMMA JobsOver ==
    ASSUME TypeOK, JobsInv, Keeps, NEW a \in Actors, act' = [act EXCEPT ![a] = At("idle")]
    PROVE  JobsInv'
<1>1. "idle" \in Plain /\ "idle" \in PCs
  BY DEF Plain, PCs, Stamped
<1> QED
  BY <1>1, AtType, JobAt, JobsMove

LEMMA JobsFail ==
    ASSUME TypeOK, JobsInv, Keeps, NEW a \in Actors,
           act' = [act EXCEPT ![a] = [At("fail") EXCEPT !.reason = "other"]]
    PROVE  JobsInv'
<1>1. At("fail") \in Worker
  BY AtType DEF PCs
<1>2. [At("fail") EXCEPT !.reason = "other"] \in Worker
  BY <1>1 DEF Worker
<1> QED
  BY <1>2, JobFail, JobsMove

LEMMA KeepsMore ==
    ASSUME TypeOK, TypeOK', clock <= clock', tables' => tables, flight \subseteq flight',
           tables' => \A b \in Batches : cell'[b].put >= cell[b].put
    PROVE  Keeps
<1> SUFFICES ASSUME NEW r \in Worker, JobInv(r) PROVE JobInv(r)'
  BY DEF Keeps
<1>1. JobFenced(r)' /\ JobPlaced(r)'
  BY DEF JobInv, JobFenced, JobPlaced, TypeOK, Worker, Stamps
<1>2. ASSUME tables', NEW b \in Batches, cell[b].put >= 1 PROVE cell'[b].put >= 1
  BY <1>2 DEF TypeOK, Stamps
<1>3. r.pc \in {"await", "progress"} => r.next \in Batches
  BY Constants DEF JobInv, JobPlaced, Worker, Stamped
<1>4. JobLoaded(r)'
  BY <1>2, <1>3 DEF JobInv, JobLoaded
<1> QED
  BY <1>1, <1>4 DEF JobInv

LEMMA JobsStep ==
    ASSUME TypeOK, TypeOK', Open, Flip, Early, Fenced, Loaded, JobsInv, Next
    PROVE  JobsInv'
<1>t. /\ act \in [Actors -> Worker]
      /\ \A g \in Owners : act[g] \in Worker /\ JobInv(act[g])
  BY Constants DEF TypeOK, Worker, JobsInv
<1> DEFINE Ok == JobsInv'
<1> SUFFICES Ok
  OBVIOUS
<1> HIDE DEF Ok
<1>n. /\ clock \in Nat /\ clock >= 1 /\ row.prog \in 0 .. Total /\ (row.rec = "RUNNING" => clock = 1)
      /\ \A g \in Owners : act[g].next \in 1 .. Total + 1 /\ act[g].stamp \in Nat
      /\ \A b \in Batches : cell[b].put \in Nat
  <2>1. clock \in Nat /\ \A b \in Batches : cell[b].put \in Nat
    BY DEF TypeOK, Stamps
  <2>2. clock >= 1 /\ (row.rec = "RUNNING" => clock = 1)
    BY <2>1 DEF Flip
  <2>3. row.prog \in 0 .. Total
    BY DEF TypeOK, Rows
  <2>4. \A g \in Owners : act[g].next \in 1 .. Total + 1 /\ act[g].stamp \in Nat
    BY <1>t DEF Worker, Stamps
  <2> QED
    BY <2>1, <2>2, <2>3, <2>4
<1>w. 1 \in 1 .. 2 /\ 2 \in 1 .. 2
  OBVIOUS
<1>m. \A a \in Actors, r \in Worker :
          Keeps /\ act' = [act EXCEPT ![a] = r] /\ (a \in Owners => JobInv(r) \/ JobInv(r)') => Ok
  BY JobsMove DEF Ok
<1>g. \A a \in Actors, p \in PCs :
          Keeps /\ (p \in Plain \/ a \notin Owners) /\ act' = [act EXCEPT ![a].pc = p] => Ok
  BY JobsGo DEF Ok
<1>o. \A a \in Actors : Keeps /\ act' = [act EXCEPT ![a] = At("idle")] => Ok
  BY JobsOver DEF Ok
<1>f. \A a \in Actors :
          Keeps /\ act' = [act EXCEPT ![a] = [At("fail") EXCEPT !.reason = "other"]] => Ok
  BY JobsFail DEF Ok
<1>s. Keeps /\ act' = act => Ok
  <2>1. \A g \in Owners : act[g] = [act EXCEPT ![g] = act[g]][g]
    BY <1>t, Constants
  <2>2. act' = act => act' = [act EXCEPT ![Registrant] = act[Registrant]]
    BY <1>t, Constants
  <2> QED
    BY <2>2, <1>m, <1>t, Constants
<1>k. UNCHANGED <<clock, tables, cell, flight>> => Keeps
  BY KeepsSame
<1>u. UNCHANGED <<act, clock, tables, cell, flight>> => Ok
  BY <1>k, <1>s
<1>1. CASE Insert \/ Refused \/ FirstBeat \/ FindFailed \/ TakeOver \/ Sweep \/ GoStale \/
           DeleteBackup \/ MarkDeleting
  <2>1. Keeps
    BY <1>1, <1>k DEF Insert, Refused, FirstBeat, FindFailed, TakeOver, Sweep, GoStale,
       DeleteBackup, MarkDeleting
  <2> QED
    BY <1>1, <2>1, <1>g, <1>o, <1>f, <1>s, Constants DEF Insert, Refused, FirstBeat, FindFailed,
       TakeOver, Sweep, GoStale, DeleteBackup, MarkDeleting, Go, Over, GoFail, PCs, Plain, Stamped,
       Loading
<1>2. CASE CreateTables
  <2>1. act[Registrant].pc = "ddl" /\ Go(Registrant, "register") /\ UNCHANGED <<clock, cell, flight>>
    BY <1>2 DEF CreateTables
  <2>2. \A g \in Owners : act[g].next = 1 /\ act[g].pc \in BeforeLoad
    BY <2>1 DEF Early
  <2>3. ASSUME NEW g \in Owners PROVE JobInv(act[g])'
    <3>1. /\ act'[g].next = 1 /\ act'[g].reason # "count"
          /\ act'[g].pc = act[g].pc \/ act'[g].pc = "register"
      BY <2>1, <2>2, <1>t, Constants DEF Go, Worker, JobInv
    <3> QED
      BY <2>2, <3>1, Constants DEF JobInv, JobFenced, JobPlaced, JobLoaded, BeforeLoad, Stamped,
         Sent
  <2> QED
    BY <2>3 DEF Ok, JobsInv
<1>3. CASE CreateFails
  <2>1. act[Registrant].pc = "ddl" /\ Go(Registrant, "unregister") /\ UNCHANGED <<clock, cell, flight>>
    BY <1>3 DEF CreateFails
  <2>2. \A g \in Owners : act[g].next = 1 /\ act[g].pc \in BeforeLoad
    BY <2>1 DEF Early
  <2>3. ASSUME NEW g \in Owners PROVE JobInv(act[g])'
    <3>1. /\ act'[g].next = 1 /\ act'[g].reason # "count"
          /\ act'[g].pc = act[g].pc \/ act'[g].pc = "unregister"
      BY <2>1, <2>2, <1>t, Constants DEF Go, Worker, JobInv
    <3> QED
      BY <2>2, <3>1, Constants DEF JobInv, JobFenced, JobPlaced, JobLoaded, BeforeLoad, Stamped,
         Sent
  <2> QED
    BY <2>3 DEF Ok, JobsInv
<1>4. CASE Register
  <2> DEFINE n == [act[Registrant] EXCEPT !.pc = "beat"]
  <2>1. Keeps
    BY <1>4, <1>k DEF Register
  <2>2. n \in Worker
    BY <1>t, <1>w, Constants, WorkerFields DEF PCs, Loading
  <2>3. /\ n.pc = "beat" /\ n.next = act[Registrant].next
        /\ n.stamp = act[Registrant].stamp /\ n.reason = act[Registrant].reason
    BY <1>t, Constants DEF Worker
  <2>4. act' = [act EXCEPT ![Registrant] = n] \/ Go(Registrant, "refused")
    BY <1>4, <1>t, Constants DEF Register, Go, Over, GoFail, Worker
  <2> HIDE DEF n
  <2>s. act[Registrant].pc = "register"
    BY <1>4 DEF Register
  <2>j. /\ JobInv(act[Registrant])
        /\ act[Registrant].next \in 1 .. Total + 1 /\ act[Registrant].stamp \in Nat
    BY <1>t, <1>n, Constants
  <2>5. JobInv(n)
    <3>1. JobFenced(n)
      BY <2>s, <2>3, <2>j, <1>n DEF JobInv, JobFenced, Stamped, Sent
    <3>2. JobPlaced(n)
      BY <2>s, <2>3, <2>j, Constants DEF JobInv, JobPlaced, Stamped
    <3>3. JobLoaded(n)
      BY <2>s, <2>3, <2>j, <1>n, Constants DEF JobInv, JobLoaded
    <3> QED
      BY <3>1, <3>2, <3>3, <2>3, <2>j DEF JobInv
  <2> QED
    BY <2>1, <2>2, <2>4, <2>5, <1>m, <1>g, <1>o, <1>f, Constants DEF Go, Over, GoFail, PCs,
       Plain, Stamped, Loading
<1>5. CASE Settle
  <2>1. Keeps
    <3>1. tables' => \A b \in Batches : cell'[b].put >= cell[b].put
      BY <1>5 DEF Settle, TypeOK, Stamps
    <3>2. clock <= clock' /\ UNCHANGED flight /\ (tables' => tables)
      BY <1>5 DEF Settle, TypeOK, Stamps
    <3> QED
      BY <3>1, <3>2, KeepsMore
  <2> QED
    BY <1>5, <2>1, <1>g, <1>o, <1>f, <1>s, Constants DEF Settle, Go, Over, GoFail, PCs, Plain,
       Stamped, Loading
<1>6. ASSUME NEW g \in Owners, ReadStamp(g) PROVE Ok
  <2> DEFINE n == [act[g] EXCEPT !.pc = "confirm", !.stamp = clock]
  <2>1. Keeps
    BY <1>6, <1>k DEF ReadStamp
  <2>2. act[g].next <= Total => n \in Worker
    BY <1>t, <1>w, Constants, WorkerFields DEF TypeOK, PCs, Loading
  <2>3. n.pc = "confirm" /\ n.next = act[g].next /\ n.stamp = clock /\ n.reason = act[g].reason
    BY <1>t, Constants DEF Worker
  <2>4. (act[g].next <= Total /\ act' = [act EXCEPT ![g] = n])
    BY <1>6, <1>t, Constants DEF ReadStamp, Go, Worker
  <2> HIDE DEF n
  <2>s. act[g].pc = "load"
    BY <1>6 DEF ReadStamp
  <2>j. JobInv(act[g]) /\ act[g].next \in 1 .. Total + 1 /\ act[g].stamp \in Nat
    BY <1>t, <1>n, Constants
  <2>5. act[g].next <= Total => JobInv(n)
    <3>1. act[g].next <= Total => JobFenced(n)
      BY <2>s, <2>3, <2>j, <1>n DEF JobInv, JobFenced, Stamped, Sent
    <3>2. act[g].next <= Total => JobPlaced(n)
      BY <2>s, <2>3, <2>j, Constants DEF JobInv, JobPlaced, Stamped
    <3>3. act[g].next <= Total => JobLoaded(n)
      BY <2>s, <2>3, <2>j, <1>n, Constants DEF JobInv, JobLoaded
    <3> QED
      BY <3>1, <3>2, <3>3, <2>3, <2>j DEF JobInv
  <2> QED
    BY <2>1, <2>2, <2>4, <2>5, <1>m, <1>g, <1>o, <1>f, Constants DEF Go, Over, GoFail, PCs,
       Plain, Stamped, Loading
<1>7. ASSUME NEW g \in Owners, Confirm(g) PROVE Ok
  <2> DEFINE n == [act[g] EXCEPT !.pc = "write"]
  <2>1. Keeps
    BY <1>7, <1>k DEF Confirm
  <2>2. Owned(g) => n \in Worker
    BY <1>t, <1>w, Constants, WorkerFields DEF PCs, Loading
  <2>3. n.pc = "write" /\ n.next = act[g].next /\ n.stamp = act[g].stamp /\ n.reason = act[g].reason
    BY <1>t, Constants DEF Worker
  <2>4. (Owned(g) /\ act' = [act EXCEPT ![g] = n]) \/ GoFail(g, "other")
    BY <1>7, <1>t, Constants DEF Confirm, Go, Over, GoFail, Worker
  <2> HIDE DEF n
  <2>s. act[g].pc = "confirm"
    BY <1>7 DEF Confirm
  <2>j. JobInv(act[g]) /\ act[g].next \in 1 .. Total + 1 /\ act[g].stamp \in Nat
    BY <1>t, <1>n, Constants
  <2>5. Owned(g) => JobInv(n)
    <3>1. Owned(g) => JobFenced(n)
      BY <2>s, <2>3, <2>j, <1>n DEF JobInv, JobFenced, Stamped, Sent, Owned
    <3>2. Owned(g) => JobPlaced(n)
      BY <2>s, <2>3, <2>j, Constants DEF JobInv, JobPlaced, Stamped
    <3>3. Owned(g) => JobLoaded(n)
      BY <2>s, <2>3, <2>j, <1>n, Constants DEF JobInv, JobLoaded, Owned
    <3> QED
      BY <3>1, <3>2, <3>3, <2>3, <2>j DEF JobInv
  <2> QED
    BY <2>1, <2>2, <2>4, <2>5, <1>m, <1>g, <1>o, <1>f, Constants DEF Go, Over, GoFail, PCs,
       Plain, Stamped, Loading
<1>8. ASSUME NEW g \in Owners, WriteBatch(g) PROVE Ok
  <2>1. Keeps
    <3>1. UNCHANGED <<clock, tables, cell>> /\ flight \subseteq flight'
      BY <1>8 DEF WriteBatch
    <3>2. \A b \in Batches : cell'[b].put >= cell[b].put
      BY <3>1 DEF TypeOK, Stamps
    <3>3. clock <= clock'
      BY <3>1 DEF TypeOK, Stamps
    <3> QED
      BY <3>1, <3>2, <3>3, KeepsMore
  <2>2. [act[g] EXCEPT !.pc = "await"] \in Worker
    BY <1>t DEF Worker, PCs, Loading
  <2>3. PICK n \in Worker : n = [act[g] EXCEPT !.pc = "await"]
    BY <2>2
  <2>4. /\ n.pc = "await" /\ n.next = act[g].next /\ n.stamp = act[g].stamp
        /\ n.reason = act[g].reason /\ act[g].pc = "write" /\ <<n.next, n.stamp>> \in flight'
        /\ UNCHANGED <<clock, tables, cell>>
    BY <1>8, <2>3, <1>t DEF WriteBatch, Worker
  <2>5. JobInv(n)'
    BY <2>4, <1>t DEF JobInv, JobFenced, JobPlaced, JobLoaded, Stamped, Sent
  <2>6. act' = [act EXCEPT ![g] = n]
    BY <1>8, <2>3, <1>t, Constants DEF WriteBatch, Go, Worker
  <2> QED
    BY <2>1, <2>5, <2>6, <1>m, Constants
<1>9. ASSUME NEW g \in Owners, Written(g) PROVE Ok
  <2> DEFINE n == [act[g] EXCEPT !.pc = "progress"]
  <2>1. Keeps
    BY <1>9, <1>k DEF Written
  <2>2. tables => n \in Worker
    BY <1>t, <1>w, Constants, WorkerFields DEF PCs, Loading
  <2>3. n.pc = "progress" /\ n.next = act[g].next /\ n.stamp = act[g].stamp /\ n.reason = act[g].reason
    BY <1>t, Constants DEF Worker
  <2>4. (tables /\ act' = [act EXCEPT ![g] = n]) \/ GoFail(g, "other")
    BY <1>9, <1>t, Constants DEF Written, Go, Over, GoFail, Worker
  <2> HIDE DEF n
  <2>s. act[g].pc = "await" /\ <<act[g].next, act[g].stamp>> \notin flight
    BY <1>9 DEF Written
  <2>j. JobInv(act[g]) /\ act[g].next \in 1 .. Total + 1 /\ act[g].stamp \in Nat
    BY <1>t, <1>n, Constants
  <2>5. tables => JobInv(n)
    <3>1. tables => JobFenced(n)
      BY <2>s, <2>3, <2>j, <1>n DEF JobInv, JobFenced, Stamped, Sent
    <3>2. tables => JobPlaced(n)
      BY <2>s, <2>3, <2>j, Constants DEF JobInv, JobPlaced, Stamped
    <3>3. tables => JobLoaded(n)
      BY <2>s, <2>3, <2>j, <1>n, Constants DEF JobInv, JobLoaded
    <3> QED
      BY <3>1, <3>2, <3>3, <2>3, <2>j DEF JobInv
  <2> QED
    BY <2>1, <2>2, <2>4, <2>5, <1>m, <1>g, <1>o, <1>f, Constants DEF Go, Over, GoFail, PCs,
       Plain, Stamped, Loading
<1>10. ASSUME NEW g \in Owners, Progress(g) PROVE Ok
  <2> DEFINE n == [act[g] EXCEPT !.pc = (IF act[g].next = Total THEN "count" ELSE "load"),
                                 !.next = act[g].next + 1, !.try = 1, !.stamp = 0]
             t == [act[g] EXCEPT !.try = 2]
  <2>1. Keeps
    BY <1>10, <1>k DEF Progress
  <2>2. act[g].next <= Total => n \in Worker
    <3>1. act[g].next <= Total => act[g].next + 1 \in 1 .. Total + 1
      BY <1>t, Constants DEF Worker
    <3>2. (IF act[g].next = Total THEN "count" ELSE "load") \in PCs
      BY DEF PCs, Loading
    <3> QED
      BY <3>1, <3>2, <1>t, <1>w, Constants, WorkerFields
  <2>3. /\ n.pc = (IF act[g].next = Total THEN "count" ELSE "load")
        /\ n.next = act[g].next + 1 /\ n.stamp = 0 /\ n.reason = act[g].reason
    BY <1>t, Constants DEF Worker
  <2>4. act' = [act EXCEPT ![g] = n]
        \/ GoFail(g, "other") \/ act' = [act EXCEPT ![g] = t]
    BY <1>10, <1>t, Constants DEF Progress, Go, Over, GoFail, Worker
  <2>6. t \in Worker /\ JobInv(t)
    <3>1. /\ t \in Worker /\ t.pc = act[g].pc /\ t.next = act[g].next /\ t.stamp = act[g].stamp
          /\ t.reason = act[g].reason
      BY <1>t DEF Worker
    <3> HIDE DEF t
    <3> QED
      BY <3>1, <1>t DEF JobInv, JobFenced, JobPlaced, JobLoaded
  <2>7. act[g].next <= Total
    BY <1>10, <1>t DEF Progress, JobInv, JobPlaced
  <2> HIDE DEF n, t
  <2>s. act[g].pc = "progress"
    BY <1>10 DEF Progress
  <2>j. JobInv(act[g]) /\ act[g].next \in 1 .. Total + 1 /\ act[g].stamp \in Nat
    BY <1>t, <1>n, Constants
  <2>5. act[g].next <= Total => JobInv(n)
    <3>1. act[g].next <= Total => JobFenced(n)
      BY <2>s, <2>3, <2>j, <1>n DEF JobInv, JobFenced, Stamped, Sent
    <3>2. act[g].next <= Total => JobPlaced(n)
      BY <2>s, <2>3, <2>j, Constants DEF JobInv, JobPlaced, Stamped
    <3>3. act[g].next <= Total => JobLoaded(n)
      BY <2>s, <2>3, <2>j, <1>n, Constants DEF JobInv, JobLoaded
    <3> QED
      BY <3>1, <3>2, <3>3, <2>3, <2>j DEF JobInv
  <2> QED
    BY <2>1, <2>2, <2>4, <2>5, <2>6, <2>7, <1>m, <1>g, <1>o, <1>f, Constants DEF Go, Over,
       GoFail, PCs, Plain, Stamped, Loading
<1>11. ASSUME NEW g \in Owners, LoadFails(g) \/ Stop(g) \/ SetFailed(g) \/ Reapply(g) \/
             Beat(g)
      PROVE  Ok
  <2>1. Keeps
    BY <1>11, <1>k DEF LoadFails, Stop, SetFailed, Reapply, Beat
  <2> QED
    BY <1>11, <2>1, <1>g, <1>o, <1>f, <1>s, Constants DEF LoadFails, Stop, SetFailed, Reapply,
       Beat, Go, Over, GoFail, PCs, Plain, Stamped, Loading
<1>12. ASSUME NEW g \in Owners, Count(g) PROVE Ok
  <2>1. Keeps
    BY <1>12, <1>k DEF Count
  <2>2. ASSUME Countable PROVE Present = Batches
    <3>1. \A b \in Batches : cell[b].put >= 1
      <4>1. act[g].pc = "count" /\ tables
        BY <1>12, <2>2 DEF Count, Countable
      <4>2. \A b \in Batches : b < act[g].next
        BY <4>1, <1>t, <1>n, Constants DEF JobInv, JobPlaced
      <4> QED
        BY <4>1, <4>2, <1>t DEF JobInv, JobLoaded
    <3>2. \A b \in Batches : cell[b].del = 0
      BY <2>2 DEF Countable, Flip, TypeOK, Stamps
    <3> QED
      BY <3>1, <3>2 DEF Present, TypeOK, Stamps
  <2>3. Over(g) \/ Go(g, "finish")
    BY <1>12, <2>2 DEF Count
  <2> QED
    BY <2>1, <2>3, <1>g, <1>o, Constants DEF Go, Over, PCs, Plain, Stamped, Loading
<1>13. ASSUME NEW g \in Owners, Finish(g) PROVE Ok
  <2>1. Keeps
    <3>1. tables' => \A b \in Batches : cell'[b].put >= cell[b].put
      BY <1>13 DEF Finish, TypeOK, Stamps
    <3>2. clock <= clock' /\ UNCHANGED flight /\ (tables' => tables)
      BY <1>13 DEF Finish, TypeOK, Stamps
    <3> QED
      BY <3>1, <3>2, KeepsMore
  <2> QED
    BY <1>13, <2>1, <1>g, <1>o, <1>f, <1>s, Constants DEF Finish, Go, Over, GoFail, PCs, Plain,
       Stamped, Loading
<1>14. ASSUME NEW g \in Owners, FinishReread(g) PROVE Ok
  <2> DEFINE n == [act[g] EXCEPT !.pc = "finish", !.try = 2]
  <2>1. Keeps
    BY <1>14, <1>k DEF FinishReread
  <2>2. n \in Worker
    BY <1>t, <1>w, Constants, WorkerFields DEF PCs, Loading
  <2>3. n.pc = "finish" /\ n.next = act[g].next /\ n.stamp = act[g].stamp /\ n.reason = act[g].reason
    BY <1>t, Constants DEF Worker
  <2>4. act' = [act EXCEPT ![g] = n] \/ Over(g)
    BY <1>14, <1>t, Constants DEF FinishReread, Go, Over, GoFail, Worker
  <2> HIDE DEF n
  <2>s. act[g].pc = "reread"
    BY <1>14 DEF FinishReread
  <2>j. JobInv(act[g]) /\ act[g].next \in 1 .. Total + 1 /\ act[g].stamp \in Nat
    BY <1>t, <1>n, Constants
  <2>5. JobInv(n)
    <3>1. JobFenced(n)
      BY <2>s, <2>3, <2>j, <1>n DEF JobInv, JobFenced, Stamped, Sent
    <3>2. JobPlaced(n)
      BY <2>s, <2>3, <2>j, Constants DEF JobInv, JobPlaced, Stamped
    <3>3. JobLoaded(n)
      BY <2>s, <2>3, <2>j, <1>n, Constants DEF JobInv, JobLoaded
    <3> QED
      BY <3>1, <3>2, <3>3, <2>3, <2>j DEF JobInv
  <2> QED
    BY <2>1, <2>2, <2>4, <2>5, <1>m, <1>g, <1>o, <1>f, Constants DEF Go, Over, GoFail, PCs,
       Plain, Stamped, Loading
<1>15. ASSUME NEW g \in Owners, FailReread(g) PROVE Ok
  <2> DEFINE n == [act[g] EXCEPT !.pc = "fail", !.try = 2]
  <2>1. Keeps
    BY <1>15, <1>k DEF FailReread
  <2>2. n \in Worker
    BY <1>t, <1>w, Constants, WorkerFields DEF PCs, Loading
  <2>3. n.pc = "fail" /\ n.next = act[g].next /\ n.stamp = act[g].stamp /\ n.reason = act[g].reason
    BY <1>t, Constants DEF Worker
  <2>4. act' = [act EXCEPT ![g] = n] \/ Over(g) \/ Go(g, "claim")
    BY <1>15, <1>t, Constants DEF FailReread, Go, Over, GoFail, Worker
  <2> HIDE DEF n
  <2>s. act[g].pc = "failed"
    BY <1>15 DEF FailReread
  <2>j. JobInv(act[g]) /\ act[g].next \in 1 .. Total + 1 /\ act[g].stamp \in Nat
    BY <1>t, <1>n, Constants
  <2>5. JobInv(n)
    <3>1. JobFenced(n)
      BY <2>s, <2>3, <2>j, <1>n DEF JobInv, JobFenced, Stamped, Sent
    <3>2. JobPlaced(n)
      BY <2>s, <2>3, <2>j, Constants DEF JobInv, JobPlaced, Stamped
    <3>3. JobLoaded(n)
      BY <2>s, <2>3, <2>j, <1>n, Constants DEF JobInv, JobLoaded
    <3> QED
      BY <3>1, <3>2, <3>3, <2>3, <2>j DEF JobInv
  <2> QED
    BY <2>1, <2>2, <2>4, <2>5, <1>m, <1>g, <1>o, <1>f, Constants DEF Go, Over, GoFail, PCs,
       Plain, Stamped, Loading
<1>16. ASSUME NEW g \in Owners, Judge(g) PROVE Ok
  <2> DEFINE n == [act[g] EXCEPT !.pc = "resume", !.next = row.prog + 1]
  <2>1. Keeps
    BY <1>16, <1>k DEF Judge
  <2>2. tables => n \in Worker
    <3>1. row.prog + 1 \in 1 .. Total + 1
      BY <1>n, Constants
    <3> QED
      BY <3>1, <1>t, WorkerFields DEF PCs
  <2>3. n.pc = "resume" /\ n.next = row.prog + 1 /\ n.stamp = act[g].stamp /\ n.reason = act[g].reason
    BY <1>t, Constants DEF Worker
  <2>4. (tables /\ act' = [act EXCEPT ![g] = n]) \/ Over(g) \/ GoFail(g, "other")
    BY <1>16, <1>t, Constants DEF Judge, Exhausted, Resumable, Go, Over, GoFail, Worker
  <2> HIDE DEF n
  <2>s. act[g].pc = "judge"
    BY <1>16 DEF Judge
  <2>j. JobInv(act[g]) /\ act[g].next \in 1 .. Total + 1 /\ act[g].stamp \in Nat
    BY <1>t, <1>n, Constants
  <2>5. tables => JobInv(n)
    <3>1. tables => JobFenced(n)
      BY <2>s, <2>3, <2>j, <1>n DEF JobInv, JobFenced, Stamped, Sent, Loaded
    <3>2. tables => JobPlaced(n)
      BY <2>s, <2>3, <2>j, Constants DEF JobInv, JobPlaced, Stamped
    <3>3. tables => JobLoaded(n)
      BY <2>s, <2>3, <2>j, <1>n, Constants DEF JobInv, JobLoaded, Loaded
    <3> QED
      BY <3>1, <3>2, <3>3, <2>3, <2>j DEF JobInv
  <2> QED
    BY <2>1, <2>2, <2>4, <2>5, <1>m, <1>g, <1>o, <1>f, Constants DEF Go, Over, GoFail, PCs,
       Plain, Stamped, Loading
<1>17. ASSUME NEW g \in Owners, Resume(g) PROVE Ok
  <2> DEFINE n == [act[g] EXCEPT !.pc = (IF act[g].next > Total THEN "count" ELSE "load")]
  <2>1. Keeps
    BY <1>17, <1>k DEF Resume
  <2>2. n \in Worker
    BY <1>t, <1>w, Constants, WorkerFields DEF PCs, Loading
  <2>3. /\ n.pc = (IF act[g].next > Total THEN "count" ELSE "load")
        /\ n.next = act[g].next /\ n.stamp = act[g].stamp /\ n.reason = act[g].reason
    BY <1>t, Constants DEF Worker
  <2>4. act' = [act EXCEPT ![g] = n]
    BY <1>17, <1>t, Constants DEF Resume, Go, Worker
  <2> HIDE DEF n
  <2>s. act[g].pc = "resume"
    BY <1>17 DEF Resume
  <2>j. JobInv(act[g]) /\ act[g].next \in 1 .. Total + 1 /\ act[g].stamp \in Nat
    BY <1>t, <1>n, Constants
  <2>5. JobInv(n)
    <3>1. JobFenced(n)
      BY <2>s, <2>3, <2>j, <1>n DEF JobInv, JobFenced, Stamped, Sent
    <3>2. JobPlaced(n)
      BY <2>s, <2>3, <2>j, Constants DEF JobInv, JobPlaced, Stamped
    <3>3. JobLoaded(n)
      BY <2>s, <2>3, <2>j, <1>n, Constants DEF JobInv, JobLoaded
    <3> QED
      BY <3>1, <3>2, <3>3, <2>3, <2>j DEF JobInv
  <2> QED
    BY <2>1, <2>2, <2>4, <2>5, <1>m, <1>g, <1>o, <1>f, Constants DEF Go, Over, GoFail, PCs,
       Plain, Stamped, Loading
<1>18. ASSUME NEW a \in Actors, ClaimRemoval(a) \/ Unregister(a) \/ DropRow(a) \/
             RemovalStops(a)
      PROVE  Ok
  <2>1. Keeps
    BY <1>18, <1>k DEF ClaimRemoval, Unregister, DropRow, RemovalStops
  <2> QED
    BY <1>18, <2>1, <1>g, <1>o, <1>f, <1>s, Constants DEF ClaimRemoval, Unregister, DropRow,
       RemovalStops, Go, Over, GoFail, PCs, Plain, Stamped, Loading
<1>19. ASSUME NEW a \in Actors, DropTables(a) PROVE Ok
  <2>1. Keeps
    <3>1. tables' => \A b \in Batches : cell'[b].put >= cell[b].put
      BY <1>19 DEF DropTables, TypeOK, Stamps
    <3>2. clock <= clock' /\ UNCHANGED flight /\ (tables' => tables)
      BY <1>19 DEF DropTables, TypeOK, Stamps
    <3> QED
      BY <3>1, <3>2, KeepsMore
  <2> QED
    BY <1>19, <2>1, <1>g, <1>o, <1>f, <1>s, Constants DEF DropTables, Go, Over, GoFail, PCs,
       Plain, Stamped, Loading
<1>20. ASSUME NEW w \in Batches \X Stamps, Land(w) PROVE Ok
  <2>1. UNCHANGED <<act, clock, tables>> /\ flight' = flight \ {w}
    BY <1>20 DEF Land
  <2>2. \A b \in Batches : tables /\ cell[b].put >= 1 => cell'[b].put >= 1
    BY <1>20 DEF Land, TypeOK, Stamps
  <2>3. ASSUME NEW g \in Owners PROVE JobInv(act[g])'
    <3>1. act'[g] = act[g] /\ JobInv(act[g])
      BY <2>1, <1>t
    <3>2. JobFenced(act[g])' /\ JobPlaced(act[g])' /\ act'[g].reason # "count"
      BY <2>1, <3>1 DEF JobInv, JobFenced, JobPlaced
    <3>3. act[g].pc \in {"await", "progress"} => act[g].next \in Batches
      BY <3>1, <1>t, Constants DEF JobInv, JobPlaced, Worker, Stamped
    <3>4. ASSUME tables, act[g].pc = "await", <<act[g].next, act[g].stamp>> \notin flight'
          PROVE  cell'[act[g].next].put >= 1
      <4>1. CASE <<act[g].next, act[g].stamp>> \notin flight
        BY <4>1, <3>1, <3>3, <3>4, <2>2 DEF JobInv, JobLoaded
      <4>2. CASE <<act[g].next, act[g].stamp>> = w
        <5>1. Awaited(w)
          BY <4>2, <3>4 DEF Awaited
        <5>2. cell' = [cell EXCEPT ![w[1]].put = IF @ < w[2] THEN w[2] ELSE @]
          BY <1>20, <3>4, <5>1 DEF Land
        <5>3. w[1] = act[g].next /\ w[2] = act[g].stamp /\ act[g].stamp = 1
          BY <4>2, <3>4, <3>1 DEF JobInv, JobFenced, Sent
        <5> QED
          BY <5>2, <5>3, <3>3, <3>4 DEF TypeOK, Stamps
      <4> QED
        BY <4>1, <4>2, <3>4, <2>1
    <3>5. JobLoaded(act[g])'
      BY <2>1, <2>2, <3>1, <3>3, <3>4 DEF JobInv, JobLoaded
    <3> QED
      BY <3>2, <3>5 DEF JobInv
  <2> QED
    BY <2>3 DEF Ok, JobsInv
<1>21. ASSUME NEW b \in Batches, DeleteItem(b) PROVE Ok
  <2>1. Keeps
    <3>1. tables' => \A c \in Batches : cell'[c].put >= cell[c].put
      BY <1>21 DEF DeleteItem, TypeOK, Stamps
    <3>2. clock <= clock' /\ UNCHANGED flight /\ (tables' => tables)
      BY <1>21 DEF DeleteItem, TypeOK, Stamps
    <3> QED
      BY <3>1, <3>2, KeepsMore
  <2> QED
    BY <1>21, <2>1, <1>g, <1>o, <1>f, <1>s, Constants DEF DeleteItem, Go, Over, GoFail, PCs,
       Plain, Stamped, Loading
<1> QED
  BY Constants, <1>1, <1>2, <1>3, <1>4, <1>5, <1>6, <1>7, <1>8, <1>9, <1>10, <1>11, <1>12, <1>13,
     <1>14, <1>15, <1>16, <1>17, <1>18, <1>19, <1>20, <1>21 DEF Next,
     Registration, Cycle, OwnerStep, Removal

LEMMA FencedStep == ASSUME TypeOK, Fenced, JobsInv, Next PROVE Fenced'
<1>t. /\ Fenced /\ cell \in [Batches -> [put : Stamps, del : Stamps]]
      /\ \A g \in Owners : JobInv(act[g])
  BY DEF TypeOK, JobsInv
<1> DEFINE Ok == Fenced'
<1> SUFFICES Ok
  OBVIOUS
<1> HIDE DEF Ok
<1>u. UNCHANGED <<cell, flight>> => Ok
  BY <1>t DEF Ok, Fenced
<1>1. CASE Insert \/ CreateTables \/ CreateFails \/ Register \/ Refused \/ FirstBeat \/
           FindFailed \/ TakeOver \/ Sweep \/ GoStale \/ Settle \/ DeleteBackup \/ MarkDeleting
  BY <1>u, <1>1 DEF Insert, CreateTables, CreateFails, Register, Refused, FirstBeat, FindFailed,
     TakeOver, Sweep, GoStale, Settle, DeleteBackup, MarkDeleting
<1>2. ASSUME NEW g \in Owners, ReadStamp(g) \/ Confirm(g) \/ Written(g) \/ Progress(g) \/
      LoadFails(g) \/ Stop(g) \/ Count(g) \/ Finish(g) \/ FinishReread(g) \/ SetFailed(g) \/
      FailReread(g) \/ Reapply(g) \/ Judge(g) \/ Resume(g) \/ Beat(g)
      PROVE  Ok
  BY <1>u, <1>2 DEF ReadStamp, Confirm, Written, Progress, LoadFails, Stop, Count, Finish,
     FinishReread, SetFailed, FailReread, Reapply, Judge, Resume, Beat
<1>3. ASSUME NEW g \in Owners, WriteBatch(g) PROVE Ok
  <2>1. act[g].stamp = 1
    BY <1>3, <1>t DEF WriteBatch, JobInv, JobFenced, Sent
  <2> QED
    BY <1>3, <2>1, <1>t DEF Ok, Fenced, WriteBatch
<1>4. ASSUME NEW a \in Actors, ClaimRemoval(a) \/ Unregister(a) \/ DropRow(a) \/ RemovalStops(a)
     
      PROVE  Ok
  BY <1>u, <1>4 DEF ClaimRemoval, Unregister, DropRow, RemovalStops
<1>5. ASSUME NEW a \in Actors, DropTables(a) PROVE Ok
  BY <1>5, <1>t DEF Ok, Fenced, NoItems, DropTables
<1>6. ASSUME NEW w \in Batches \X Stamps, Land(w) PROVE Ok
  BY <1>6, <1>t DEF Ok, Fenced, Stamps, Land
<1>7. ASSUME NEW b \in Batches, DeleteItem(b) PROVE Ok
  BY <1>7, <1>t DEF Ok, Fenced, Stamps, DeleteItem
<1> QED
  BY Constants, <1>1, <1>2, <1>3, <1>4, <1>5, <1>6, <1>7 DEF Next, Registration, Cycle,
     OwnerStep, Removal

LEMMA NoneShortStep == ASSUME TypeOK, NoneShort, JobsInv, Next PROVE NoneShort'
<1>t. /\ NoneShort /\ row \in Rows /\ limbo \in Rows /\ clock \in Nat
      /\ \A g \in Owners : JobInv(act[g])
  BY DEF TypeOK, JobsInv, Stamps
<1> DEFINE Ok == NoneShort'
<1> SUFFICES Ok
  OBVIOUS
<1> HIDE DEF Ok
<1>u. UNCHANGED <<row, limbo>> => Ok
  BY <1>t DEF Ok, NoneShort
<1>1. CASE CreateTables \/ CreateFails \/ Register \/ FirstBeat \/ FindFailed \/ Sweep \/
           GoStale \/ DeleteBackup \/ MarkDeleting
  BY <1>u, <1>1 DEF CreateTables, CreateFails, Register, FirstBeat, FindFailed, Sweep, GoStale,
     DeleteBackup, MarkDeleting
<1>2. CASE Insert \/ Settle
  <2>1. CASE Insert
    BY <2>1, <1>t DEF Insert, Ok, NoneShort, NoRow
  <2>2. CASE Settle
    BY <2>2, <1>t DEF Settle, Ok, NoneShort, NoRow
  <2> QED
    BY <1>2, <2>1, <2>2
<1>3. CASE Refused
  <2>1. NoneShort
    BY <1>t
  <2> QED
    BY <1>3, <2>1, <1>t, RefusedEffect DEF Ok, NoneShort, Writes
<1>4. CASE TakeOver
  BY <1>4, <1>t DEF Ok, NoneShort, Rows, TakeOver
<1>5. ASSUME NEW g \in Owners, ReadStamp(g) \/ Confirm(g) \/ WriteBatch(g) \/ Written(g) \/
      LoadFails(g) \/ Stop(g) \/ Count(g) \/ FinishReread(g) \/ FailReread(g) \/ Reapply(g) \/
      Judge(g) \/ Resume(g) \/ Beat(g)
      PROVE  Ok
  BY <1>u, <1>5 DEF ReadStamp, Confirm, WriteBatch, Written, LoadFails, Stop, Count,
     FinishReread, FailReread, Reapply, Judge, Resume, Beat
<1>6. ASSUME NEW g \in Owners, Progress(g) PROVE Ok
  BY <1>6, <1>t DEF Ok, NoneShort, Rows, Progress
<1>7. ASSUME NEW g \in Owners, Finish(g) PROVE Ok
  <2>1. NoneShort
    BY <1>t
  <2> QED
    BY <1>7, <2>1, <1>t, FinishEffect DEF Ok, NoneShort, Writes
<1>8. ASSUME NEW g \in Owners, SetFailed(g) PROVE Ok
  <2>1. act[g].reason # "count"
    BY <1>t DEF JobInv
  <2> QED
    BY <1>8, <2>1, <1>t, SetFailedEffect DEF Ok, NoneShort, Writes
<1>9. ASSUME NEW a \in Actors, Unregister(a) \/ DropTables(a) \/ RemovalStops(a)
      PROVE  Ok
  BY <1>u, <1>9 DEF Unregister, DropTables, RemovalStops
<1>10. ASSUME NEW a \in Actors, ClaimRemoval(a) PROVE Ok
  <2>1. NoneShort
    BY <1>t
  <2> QED
    BY <1>10, <2>1, <1>t, ClaimEffect DEF Ok, NoneShort, Writes
<1>11. ASSUME NEW a \in Actors, DropRow(a) PROVE Ok
  BY <1>11, <1>t DEF Ok, NoneShort, NoRow, DropRow
<1>12. ASSUME NEW w \in Batches \X Stamps, Land(w) PROVE Ok
  BY <1>u, <1>12 DEF Land
<1>13. ASSUME NEW b \in Batches, DeleteItem(b) PROVE Ok
  BY <1>u, <1>13 DEF DeleteItem
<1> QED
  BY Constants, <1>1, <1>2, <1>3, <1>4, <1>5, <1>6, <1>7, <1>8, <1>9, <1>10, <1>11, <1>12, <1>13
     DEF Next, Registration, Cycle, OwnerStep, Removal

LEMMA LoadedStep == ASSUME TypeOK, Open, Early, Loaded, JobsInv, Next PROVE Loaded'
<1>t. /\ Loaded /\ Open /\ Early /\ row \in Rows /\ limbo \in Rows /\ clock \in Nat
      /\ cell \in [Batches -> [put : Stamps, del : Stamps]]
      /\ \A g \in Owners : JobInv(act[g])
  BY DEF TypeOK, JobsInv, Stamps
<1> DEFINE Ok == Loaded'
<1> SUFFICES Ok
  OBVIOUS
<1> HIDE DEF Ok
<1>u. UNCHANGED <<row, tables, cell>> => Ok
  BY <1>t DEF Ok, Loaded
<1>1. CASE Register \/ FirstBeat \/ FindFailed \/ Sweep \/ GoStale \/ DeleteBackup \/
           MarkDeleting
  BY <1>u, <1>1 DEF Register, FirstBeat, FindFailed, Sweep, GoStale, DeleteBackup, MarkDeleting
<1>2. CASE Insert
  <2>1. row'.prog = 0
    BY <1>2, <1>t DEF Insert, NoRow
  <2> QED
    BY <2>1, Constants DEF Ok, Loaded
<1>3. CASE CreateTables \/ CreateFails
  <2>1. row'.prog = 0
    BY <1>3, <1>t DEF CreateTables, CreateFails, Early
  <2> QED
    BY <2>1, Constants DEF Ok, Loaded
<1>4. CASE Refused
  <2>1. UNCHANGED <<tables, cell>>
    BY <1>4 DEF Refused
  <2>2. row'.prog = row.prog
    BY <1>4, <1>t, RefusedEffect DEF Writes
  <2> QED
    BY <2>1, <2>2, <1>t DEF Ok, Loaded
<1>5. CASE TakeOver \/ Settle
  <2>1. UNCHANGED <<tables, cell>> /\ row'.prog = row.prog
    BY <1>5, <1>t DEF TakeOver, Settle, Rows, Open
  <2> QED
    BY <2>1, <1>t DEF Ok, Loaded
<1>6. ASSUME NEW g \in Owners, ReadStamp(g) \/ Confirm(g) \/ WriteBatch(g) \/ Written(g) \/
      LoadFails(g) \/ Stop(g) \/ Count(g) \/ FinishReread(g) \/ FailReread(g) \/ Reapply(g) \/
      Judge(g) \/ Resume(g) \/ Beat(g)
      PROVE  Ok
  BY <1>u, <1>6 DEF ReadStamp, Confirm, WriteBatch, Written, LoadFails, Stop, Count,
     FinishReread, FailReread, Reapply, Judge, Resume, Beat
<1>7. ASSUME NEW g \in Owners, Progress(g) PROVE Ok
  <2>1. UNCHANGED <<tables, cell>> /\ (row'.prog = row.prog \/ row'.prog = act[g].next)
    BY <1>7, <1>t DEF Progress, Rows, Recorded
  <2>2. tables => \A b \in Batches : b <= act[g].next => cell[b].put >= 1
    <3>1. JobInv(act[g]) /\ act[g].pc = "progress" /\ act[g].next \in 1 .. Total + 1
      BY <1>7, <1>t, Constants DEF Progress, TypeOK
    <3>2. \A b \in Batches : b <= act[g].next => b < act[g].next \/ b = act[g].next
      BY <3>1, Constants
    <3> QED
      BY <3>1, <3>2 DEF JobInv, JobLoaded
  <2> QED
    BY <2>1, <2>2, <1>t DEF Ok, Loaded
<1>8. ASSUME NEW g \in Owners, Finish(g) PROVE Ok
  <2>1. UNCHANGED <<tables, cell>>
    BY <1>8 DEF Finish
  <2>2. row'.prog = row.prog
    BY <1>8, <1>t, FinishEffect DEF Writes
  <2> QED
    BY <2>1, <2>2, <1>t DEF Ok, Loaded
<1>9. ASSUME NEW g \in Owners, SetFailed(g) PROVE Ok
  <2>1. UNCHANGED <<tables, cell>>
    BY <1>9 DEF SetFailed
  <2>2. row'.prog = row.prog
    BY <1>9, <1>t, SetFailedEffect DEF Writes
  <2> QED
    BY <2>1, <2>2, <1>t DEF Ok, Loaded
<1>10. ASSUME NEW a \in Actors, Unregister(a) \/ RemovalStops(a)
      PROVE  Ok
  BY <1>u, <1>10 DEF Unregister, RemovalStops
<1>11. ASSUME NEW a \in Actors, ClaimRemoval(a) PROVE Ok
  <2>1. UNCHANGED <<tables, cell>>
    BY <1>11 DEF ClaimRemoval
  <2>2. row'.prog = row.prog
    BY <1>11, <1>t, ClaimEffect DEF Writes
  <2> QED
    BY <2>1, <2>2, <1>t DEF Ok, Loaded
<1>12. ASSUME NEW a \in Actors, DropTables(a) PROVE Ok
  BY <1>12, <1>t DEF Ok, Loaded, DropTables
<1>13. ASSUME NEW a \in Actors, DropRow(a) PROVE Ok
  <2>1. row'.prog = 0
    BY <1>13, <1>t DEF DropRow, NoRow
  <2> QED
    BY <2>1, Constants DEF Ok, Loaded
<1>14. ASSUME NEW w \in Batches \X Stamps, Land(w) PROVE Ok
  <2>1. UNCHANGED <<tables, row>>
    BY <1>14 DEF Land
  <2>2. \A b \in Batches : cell[b].put >= 1 => cell'[b].put >= 1
    BY <1>14, <1>t DEF Land, Stamps
  <2> QED
    BY <2>1, <2>2, <1>t DEF Ok, Loaded
<1>15. ASSUME NEW b \in Batches, DeleteItem(b) PROVE Ok
  <2>1. UNCHANGED <<tables, row>>
    BY <1>15 DEF DeleteItem
  <2>2. \A c \in Batches : cell'[c].put = cell[c].put
    BY <1>15, <1>t DEF DeleteItem
  <2> QED
    BY <2>1, <2>2, <1>t DEF Ok, Loaded
<1> QED
  BY Constants, <1>1, <1>2, <1>3, <1>4, <1>5, <1>6, <1>7, <1>8, <1>9, <1>10, <1>11, <1>12, <1>13,
     <1>14, <1>15 DEF Next, Registration, Cycle, OwnerStep, Removal

(* The row is never again as it was before the restore.                     *)
LEMMA RowStays == ASSUME TypeOK, Next PROVE row' = NoRow => row = NoRow
<1>t. /\ row \in Rows /\ limbo \in Rows /\ clock \in Nat
  BY DEF TypeOK, Stamps
<1> DEFINE Ok == row' = NoRow => row = NoRow
<1> SUFFICES Ok
  OBVIOUS
<1> HIDE DEF Ok
<1>u. UNCHANGED <<row>> => Ok
  BY DEF Ok
<1>1. CASE CreateTables \/ CreateFails \/ Register \/ FirstBeat \/ FindFailed \/ Sweep \/
           GoStale \/ DeleteBackup \/ MarkDeleting
  BY <1>u, <1>1 DEF CreateTables, CreateFails, Register, FirstBeat, FindFailed, Sweep, GoStale,
     DeleteBackup, MarkDeleting
<1>2. CASE Insert
  BY <1>2, <1>t DEF Ok, NoRow, Insert
<1>3. CASE Refused
  <2>1. row' = row \/ row'.status # "none" \/ row'.rec # "none"
    BY <1>3, <1>t, RefusedEffect DEF Writes
  <2> QED
    BY <2>1 DEF Ok, NoRow
<1>4. CASE TakeOver
  BY <1>4, <1>t DEF Ok, NoRow, Rows, TakeOver
<1>5. CASE Settle
  BY <1>5, <1>t DEF Ok, Settle
<1>6. ASSUME NEW g \in Owners, ReadStamp(g) \/ Confirm(g) \/ WriteBatch(g) \/ Written(g) \/
      LoadFails(g) \/ Stop(g) \/ Count(g) \/ FinishReread(g) \/ FailReread(g) \/ Reapply(g) \/
      Judge(g) \/ Resume(g) \/ Beat(g)
      PROVE  Ok
  BY <1>u, <1>6 DEF ReadStamp, Confirm, WriteBatch, Written, LoadFails, Stop, Count,
     FinishReread, FailReread, Reapply, Judge, Resume, Beat
<1>7. ASSUME NEW g \in Owners, Progress(g) PROVE Ok
  BY <1>7, <1>t DEF Ok, NoRow, Rows, Owned, Progress
<1>8. ASSUME NEW g \in Owners, Finish(g) PROVE Ok
  <2>1. row' = row \/ row'.status # "none" \/ row'.rec # "none"
    BY <1>8, <1>t, FinishEffect DEF Writes
  <2> QED
    BY <2>1 DEF Ok, NoRow
<1>9. ASSUME NEW g \in Owners, SetFailed(g) PROVE Ok
  <2>1. row' = row \/ row'.status # "none" \/ row'.rec # "none"
    BY <1>9, <1>t, SetFailedEffect DEF Writes
  <2> QED
    BY <2>1 DEF Ok, NoRow
<1>10. ASSUME NEW a \in Actors, Unregister(a) \/ DropTables(a) \/ RemovalStops(a)
      PROVE  Ok
  BY <1>u, <1>10 DEF Unregister, DropTables, RemovalStops
<1>11. ASSUME NEW a \in Actors, ClaimRemoval(a) PROVE Ok
  <2>1. row' = row \/ row'.status # "none" \/ row'.rec # "none"
    BY <1>11, <1>t, ClaimEffect DEF Writes
  <2> QED
    BY <2>1 DEF Ok, NoRow
<1>12. ASSUME NEW a \in Actors, DropRow(a) PROVE Ok
  BY <1>12, <1>t DEF Ok, NoRow, DropRow
<1>13. ASSUME NEW w \in Batches \X Stamps, Land(w)
      PROVE  Ok
  BY <1>u, <1>13 DEF Land
<1>14. ASSUME NEW b \in Batches, DeleteItem(b)
      PROVE  Ok
  BY <1>u, <1>14 DEF DeleteItem
<1> QED
  BY Constants, <1>1, <1>2, <1>3, <1>4, <1>5, <1>6, <1>7, <1>8, <1>9, <1>10, <1>11, <1>12,
     <1>13, <1>14 DEF Next, Registration, Cycle, OwnerStep, Removal

LEMMA NoSecondDdl ==
    ASSUME TypeOK, ~Insert, Next
    PROVE  act'[Registrant].pc = "ddl" => act[Registrant].pc = "ddl"
<1>t. act \in [Actors -> Worker] /\ act[Registrant] \in Worker
  BY Constants DEF TypeOK, Worker
<1> DEFINE Ok == act'[Registrant].pc = "ddl" => act[Registrant].pc = "ddl"
<1> SUFFICES Ok
  OBVIOUS
<1> HIDE DEF Ok
<1>g. \A a \in Actors : \A p : p # "ddl" /\ act' = [act EXCEPT ![a].pc = p] => Ok
  BY <1>t, Constants DEF Ok, Worker
<1>o. \A a \in Actors : act' = [act EXCEPT ![a] = At("idle")] => Ok
  BY <1>t, Constants DEF Ok, At
<1>f. \A a \in Actors : \A why : act' = [act EXCEPT ![a] = [At("fail") EXCEPT !.reason = why]] => Ok
  BY <1>t, Constants DEF Ok, At
<1>u. UNCHANGED <<act>> => Ok
  BY DEF Ok
<1>1. CASE Sweep \/ GoStale \/ Settle
  BY <1>u, <1>1 DEF Sweep, GoStale, Settle
<1>2. CASE Insert
  BY <1>2 DEF Ok
<1>3. CASE CreateTables \/ CreateFails \/ Register \/ Refused \/ FirstBeat \/ FindFailed \/
           TakeOver \/ DeleteBackup \/ MarkDeleting
  BY <1>3, <1>g, <1>o, <1>f, <1>u, Constants DEF CreateTables, CreateFails, Register, Refused,
     FirstBeat, FindFailed, TakeOver, DeleteBackup, MarkDeleting, Go, Over, GoFail
<1>4. ASSUME NEW g \in Owners, Beat(g) PROVE Ok
  BY <1>u, <1>4 DEF Beat
<1>5. ASSUME NEW g \in Owners, ReadStamp(g) \/ FinishReread(g) \/ FailReread(g)
      PROVE  Ok
  <2>1. act'[Registrant] = act[Registrant] \/ act'[Registrant].pc # "ddl"
    BY <1>5, <1>t, Constants DEF ReadStamp, FinishReread, FailReread, Go, Over, GoFail, At, Worker
  <2> QED
    BY <2>1 DEF Ok
<1>6. ASSUME NEW g \in Owners, Confirm(g) \/ WriteBatch(g) \/ Written(g) \/ LoadFails(g)
             \/ Stop(g) \/ Count(g) \/ Finish(g) \/ SetFailed(g) \/ Reapply(g) \/ Resume(g)
      PROVE  Ok
  BY <1>6, <1>g, <1>o, <1>f, <1>u, Constants DEF Confirm, WriteBatch, Written, LoadFails, Stop,
     Count, Finish, SetFailed, Reapply, Resume, Go, Over, GoFail
<1>7. ASSUME NEW g \in Owners, Progress(g) PROVE Ok
  <2>1. /\ act[g].pc = "progress"
        /\ \/ act' = [act EXCEPT ![g].pc = IF act[g].next = Total THEN "count" ELSE "load",
                                 ![g].next = @ + 1, ![g].try = 1, ![g].stamp = 0]
           \/ act' = [act EXCEPT ![g].try = 2]
           \/ GoFail(g, "other")
    BY <1>7 DEF Progress
  <2>2. CASE g # Registrant
    BY <2>1, <2>2, <1>t, <1>f, Constants DEF Ok, GoFail
  <2>3. CASE g = Registrant
    <3>1. CASE act' = [act EXCEPT ![g].try = 2]
      BY <3>1, <2>1, <2>3, <1>t, Constants DEF Ok, Worker
    <3>2. CASE act' = [act EXCEPT ![g].pc = IF act[g].next = Total THEN "count" ELSE "load",
                                  ![g].next = @ + 1, ![g].try = 1, ![g].stamp = 0]
      <4>1. act'[g].pc = IF act[g].next = Total THEN "count" ELSE "load"
        BY <3>2, <1>t, Constants DEF Worker
      <4> QED
        BY <4>1, <2>3 DEF Ok
    <3> QED
      BY <3>1, <3>2, <2>1, <1>f, Constants DEF GoFail
  <2> QED
    BY <2>2, <2>3
<1>8. ASSUME NEW g \in Owners, Judge(g) PROVE Ok
  <2>1. \/ act' = [act EXCEPT ![g].pc = "resume", ![g].next = row.prog + 1]
        \/ Over(g) \/ GoFail(g, "other")
    BY <1>8 DEF Judge
  <2>2. ASSUME act' = [act EXCEPT ![g].pc = "resume", ![g].next = row.prog + 1]
        PROVE  act'[Registrant] = act[Registrant] \/ act'[Registrant].pc # "ddl"
    BY <2>2, <1>t, Constants DEF Worker
  <2> QED
    BY <2>1, <2>2, <1>o, <1>f, Constants DEF Ok, Over, GoFail
<1>9. ASSUME NEW a \in Actors, ClaimRemoval(a) \/ Unregister(a) \/ DropTables(a) \/
             DropRow(a) \/ RemovalStops(a)
      PROVE  Ok
  BY <1>9, <1>g, <1>o, <1>f, <1>u, Constants DEF ClaimRemoval, Unregister, DropTables, DropRow,
     RemovalStops, Go, Over, GoFail
<1>10. ASSUME NEW w \in Batches \X Stamps, Land(w) PROVE Ok
  BY <1>u, <1>10 DEF Land
<1>11. ASSUME NEW b \in Batches, DeleteItem(b) PROVE Ok
  BY <1>u, <1>11 DEF DeleteItem
<1> QED
  BY Constants, <1>1, <1>2, <1>3, <1>4, <1>5, <1>6, <1>7, <1>8, <1>9, <1>10, <1>11 DEF Next,
     Registration,
     Cycle, OwnerStep, Removal

NotYet == row = NoRow \/ act[Registrant].pc = "ddl"

LEMMA NotYetBefore ==
    ASSUME TypeOK, Early, Next, ~Insert, NotYet'
    PROVE  /\ NotYet /\ ~tables /\ row.prog = 0 /\ (row' = NoRow => act'[Registrant].pc # "ddl")
           /\ \A g \in Owners : act[g].next = 1 /\ act[g].pc \in BeforeLoad
BY RowStays, NoSecondDdl DEF NotYet, Early, NoRow

LEMMA EarlyData == ASSUME TypeOK, Open, Early, ~Insert, NotYet', Next PROVE ~tables' /\ row'.prog = 0
<1>t. /\ row \in Rows /\ limbo \in Rows /\ clock \in Nat /\ act \in [Actors -> Worker]
      /\ NotYet /\ NotYet' /\ ~tables /\ row.prog = 0
      /\ (row = NoRow => act[Registrant].pc # "ddl")
      /\ \A g \in Owners : act[g] \in Worker /\ act[g].next = 1 /\ act[g].pc \in BeforeLoad
  <2>1. row \in Rows /\ limbo \in Rows /\ clock \in Nat /\ act \in [Actors -> Worker]
    BY DEF TypeOK, Stamps, Worker
  <2>2. \A g \in Owners : act[g] \in Worker
    BY <2>1, Constants
  <2> QED
    BY <2>1, <2>2, NotYetBefore DEF Early, NotYet
<1> DEFINE Ok == ~tables' /\ row'.prog = 0
<1> SUFFICES Ok
  OBVIOUS
<1> HIDE DEF Ok
<1>u. UNCHANGED <<row, tables>> => Ok
  BY <1>t DEF Ok
<1>1. CASE Register \/ FirstBeat \/ FindFailed \/ Sweep \/ GoStale \/ DeleteBackup \/
           MarkDeleting
  BY <1>u, <1>1 DEF Register, FirstBeat, FindFailed, Sweep, GoStale, DeleteBackup, MarkDeleting
<1>2. CASE Insert
  BY <1>2 DEF Ok
<1>3. CASE CreateTables \/ CreateFails
  <2>1. act'[Registrant].pc # "ddl" /\ row' = row /\ act[Registrant].pc = "ddl"
    BY <1>3, <1>t, Constants DEF CreateTables, CreateFails, Go, Worker
  <2> QED
    BY <2>1, <1>t DEF NotYet, NoRow
<1>4. CASE Refused
  <2>1. UNCHANGED tables
    BY <1>4 DEF Refused
  <2>2. row'.prog = row.prog
    BY <1>4, <1>t, RefusedEffect DEF Writes
  <2> QED
    BY <2>1, <2>2, <1>t DEF Ok
<1>5. CASE TakeOver
  BY <1>5, <1>t DEF Ok, Rows, TakeOver
<1>6. CASE Settle
  BY <1>6, <1>t, Open DEF Ok, Open, Settle
<1>7. ASSUME NEW g \in Owners, ReadStamp(g) \/ Confirm(g) \/ WriteBatch(g) \/ Written(g) \/
      LoadFails(g) \/ Stop(g) \/ Count(g) \/ FinishReread(g) \/ FailReread(g) \/ Reapply(g) \/
      Judge(g) \/ Resume(g) \/ Beat(g)
      PROVE  Ok
  BY <1>u, <1>7 DEF ReadStamp, Confirm, WriteBatch, Written, LoadFails, Stop, Count,
     FinishReread, FailReread, Reapply, Judge, Resume, Beat
<1>8. ASSUME NEW g \in Owners, Progress(g) PROVE Ok
  BY <1>8, <1>t DEF Progress, BeforeLoad
<1>9. ASSUME NEW g \in Owners, Finish(g) PROVE Ok
  <2>1. UNCHANGED tables
    BY <1>9 DEF Finish
  <2>2. row'.prog = row.prog
    BY <1>9, <1>t, FinishEffect DEF Writes
  <2> QED
    BY <2>1, <2>2, <1>t DEF Ok
<1>10. ASSUME NEW g \in Owners, SetFailed(g) PROVE Ok
  <2>1. UNCHANGED tables
    BY <1>10 DEF SetFailed
  <2>2. row'.prog = row.prog
    BY <1>10, <1>t, SetFailedEffect DEF Writes
  <2> QED
    BY <2>1, <2>2, <1>t DEF Ok
<1>11. ASSUME NEW a \in Actors, Unregister(a) \/ RemovalStops(a)
      PROVE  Ok
  BY <1>u, <1>11 DEF Unregister, RemovalStops
<1>12. ASSUME NEW a \in Actors, ClaimRemoval(a) PROVE Ok
  <2>1. UNCHANGED tables
    BY <1>12 DEF ClaimRemoval
  <2>2. row'.prog = row.prog
    BY <1>12, <1>t, ClaimEffect DEF Writes
  <2> QED
    BY <2>1, <2>2, <1>t DEF Ok
<1>13. ASSUME NEW a \in Actors, DropTables(a) PROVE Ok
  BY <1>13, <1>t DEF Ok, DropTables
<1>14. ASSUME NEW a \in Actors, DropRow(a) PROVE Ok
  BY <1>14, <1>t DEF Ok, NoRow, DropRow
<1>15. ASSUME NEW w \in Batches \X Stamps, Land(w) PROVE Ok
  BY <1>u, <1>15 DEF Land
<1>16. ASSUME NEW b \in Batches, DeleteItem(b) PROVE Ok
  BY <1>u, <1>16 DEF DeleteItem
<1> QED
  BY Constants, <1>1, <1>2, <1>3, <1>4, <1>5, <1>6, <1>7, <1>8, <1>9, <1>10, <1>11, <1>12, <1>13,
     <1>14, <1>15, <1>16 DEF Next, Registration, Cycle, OwnerStep, Removal

LEMMA EarlyJobs ==
    ASSUME TypeOK, Early, ~Insert, NotYet', Next
    PROVE  \A g \in Owners : act'[g].next = 1 /\ act'[g].pc \in BeforeLoad
<1>t. /\ row \in Rows /\ limbo \in Rows /\ clock \in Nat /\ act \in [Actors -> Worker]
      /\ NotYet /\ NotYet' /\ ~tables /\ row.prog = 0
      /\ (row = NoRow => act[Registrant].pc # "ddl")
      /\ \A g \in Owners : act[g] \in Worker /\ act[g].next = 1 /\ act[g].pc \in BeforeLoad
  <2>1. row \in Rows /\ limbo \in Rows /\ clock \in Nat /\ act \in [Actors -> Worker]
    BY DEF TypeOK, Stamps, Worker
  <2>2. \A g \in Owners : act[g] \in Worker
    BY <2>1, Constants
  <2> QED
    BY <2>1, <2>2, NotYetBefore DEF Early, NotYet
<1> DEFINE Ok == \A g \in Owners : act'[g].next = 1 /\ act'[g].pc \in BeforeLoad
<1> SUFFICES Ok
  OBVIOUS
<1> HIDE DEF Ok
<1>g. \A a \in Actors : \A p :
          (p \in BeforeLoad \/ a \notin Owners) /\ act' = [act EXCEPT ![a].pc = p] => Ok
  BY <1>t, Constants DEF Ok, Worker
<1>o. \A a \in Actors : act' = [act EXCEPT ![a] = At("idle")] => Ok
  BY <1>t, Constants DEF Ok, At, BeforeLoad
<1>f. \A a \in Actors : \A why : act' = [act EXCEPT ![a] = [At("fail") EXCEPT !.reason = why]] => Ok
  BY <1>t, Constants DEF Ok, At, BeforeLoad
<1>u. UNCHANGED <<act>> => Ok
  BY <1>t DEF Ok
<1>1. CASE Sweep \/ GoStale \/ Settle
  BY <1>u, <1>1 DEF Sweep, GoStale, Settle
<1>2. CASE Insert
  BY <1>2 DEF Ok
<1>3. CASE CreateTables \/ CreateFails
  <2>1. act'[Registrant].pc # "ddl" /\ row' = row /\ act[Registrant].pc = "ddl"
    BY <1>3, <1>t, Constants DEF CreateTables, CreateFails, Go, Worker
  <2> QED
    BY <2>1, <1>t DEF NotYet, NoRow
<1>4. CASE Register \/ Refused \/ FirstBeat \/ FindFailed \/ DeleteBackup \/ MarkDeleting
  BY <1>4, <1>t, <1>g, <1>o, <1>f, <1>u, Constants DEF Register, Refused, FirstBeat, FindFailed,
     DeleteBackup, MarkDeleting, Go, Over, GoFail, BeforeLoad, Loading
<1>5. CASE TakeOver
  <2>1. PICK g \in Owners : act' = [act EXCEPT ![g].pc = "reapply"]
    BY <1>5 DEF TakeOver, Go
  <2> QED
    BY <2>1, <1>g, Constants DEF BeforeLoad
<1>6. ASSUME NEW g \in Owners, Beat(g) PROVE Ok
  BY <1>u, <1>6 DEF Beat
<1>7. ASSUME NEW g \in Owners, ReadStamp(g) \/ Confirm(g) \/ WriteBatch(g) \/ Written(g)
             \/ Progress(g) \/ LoadFails(g) \/ Stop(g) \/ Count(g) \/ Finish(g) \/
             FinishReread(g) \/ SetFailed(g) \/ Reapply(g) \/ Resume(g)
      PROVE  Ok
  <2>1. CASE ReadStamp(g)
    BY <2>1, <1>t, <1>g, <1>o, <1>f, <1>u, Constants DEF ReadStamp, Go, Over, GoFail,
       BeforeLoad, Loading
  <2>2. CASE Confirm(g)
    BY <2>2, <1>t, <1>g, <1>o, <1>f, <1>u, Constants DEF Confirm, Go, Over, GoFail, BeforeLoad,
       Loading
  <2>3. CASE WriteBatch(g)
    BY <2>3, <1>t, <1>g, <1>o, <1>f, <1>u, Constants DEF WriteBatch, Go, Over, GoFail,
       BeforeLoad, Loading
  <2>4. CASE Written(g)
    BY <2>4, <1>t, <1>g, <1>o, <1>f, <1>u, Constants DEF Written, Go, Over, GoFail, BeforeLoad,
       Loading
  <2>5. CASE Progress(g)
    BY <2>5, <1>t, <1>g, <1>o, <1>f, <1>u, Constants DEF Progress, Go, Over, GoFail, BeforeLoad,
       Loading
  <2>6. CASE LoadFails(g)
    BY <2>6, <1>t, <1>g, <1>o, <1>f, <1>u, Constants DEF LoadFails, Go, Over, GoFail,
       BeforeLoad, Loading
  <2>7. CASE Stop(g)
    BY <2>7, <1>t, <1>g, <1>o, <1>f, <1>u, Constants DEF Stop, Go, Over, GoFail, BeforeLoad,
       Loading
  <2>8. CASE Count(g)
    BY <2>8, <1>t, <1>g, <1>o, <1>f, <1>u, Constants DEF Count, Go, Over, GoFail, BeforeLoad,
       Loading
  <2>9. CASE Finish(g)
    BY <2>9, <1>t, <1>g, <1>o, <1>f, <1>u, Constants DEF Finish, Go, Over, GoFail, BeforeLoad,
       Loading
  <2>10. CASE FinishReread(g)
    BY <2>10, <1>t, <1>g, <1>o, <1>f, <1>u, Constants DEF FinishReread, Go, Over, GoFail,
       BeforeLoad, Loading
  <2>11. CASE SetFailed(g)
    BY <2>11, <1>t, <1>g, <1>o, <1>f, <1>u, Constants DEF SetFailed, Go, Over, GoFail,
       BeforeLoad, Loading
  <2>12. CASE Reapply(g)
    BY <2>12, <1>t, <1>g, <1>o, <1>f, <1>u, Constants DEF Reapply, Go, Over, GoFail, BeforeLoad,
       Loading
  <2>13. CASE Resume(g)
    BY <2>13, <1>t, <1>g, <1>o, <1>f, <1>u, Constants DEF Resume, Go, Over, GoFail, BeforeLoad,
       Loading
  <2> QED
    BY <1>7, <2>1, <2>2, <2>3, <2>4, <2>5, <2>6, <2>7, <2>8, <2>9, <2>10, <2>11, <2>12, <2>13
<1>8. ASSUME NEW g \in Owners, FailReread(g) PROVE Ok
  <2>1. act' = [act EXCEPT ![g].pc = "fail", ![g].try = 2] \/ Over(g) \/ Go(g, "claim")
    BY <1>8 DEF FailReread
  <2>2. CASE act' = [act EXCEPT ![g].pc = "fail", ![g].try = 2]
    BY <2>2, <1>t, Constants DEF Ok, Worker, BeforeLoad
  <2> QED
    BY <2>1, <2>2, <1>g, <1>o, Constants DEF Over, Go, BeforeLoad
<1>9. ASSUME NEW g \in Owners, Judge(g) PROVE Ok
  <2>1. Over(g) \/ GoFail(g, "other")
    BY <1>9, <1>t DEF Judge, Resumable
  <2> QED
    BY <2>1, <1>o, <1>f, Constants DEF Over, GoFail
<1>10. ASSUME NEW a \in Actors, ClaimRemoval(a) \/ Unregister(a) \/ DropTables(a) \/
             DropRow(a) \/ RemovalStops(a)
      PROVE  Ok
  BY <1>10, <1>t, <1>g, <1>o, <1>f, <1>u, Constants DEF ClaimRemoval, Unregister, DropTables,
     DropRow, RemovalStops, Go, Over, GoFail, BeforeLoad, Loading
<1>11. ASSUME NEW w \in Batches \X Stamps, Land(w) PROVE Ok
  BY <1>u, <1>11 DEF Land
<1>12. ASSUME NEW b \in Batches, DeleteItem(b) PROVE Ok
  BY <1>u, <1>12 DEF DeleteItem
<1> QED
  BY Constants, <1>1, <1>2, <1>3, <1>4, <1>5, <1>6, <1>7, <1>8, <1>9, <1>10, <1>11, <1>12 DEF
     Next, Registration,
     Cycle, OwnerStep, Removal

LEMMA EarlyStep == ASSUME TypeOK, Open, Early, Next PROVE Early'
<1>1. CASE Insert
  <2>1. /\ row = NoRow /\ ~tables /\ row'.prog = 0 /\ row' # NoRow /\ UNCHANGED tables
        /\ act' = [act EXCEPT ![Registrant].pc = "ddl"]
        /\ \A g \in Owners : act[g].next = 1 /\ act[g].pc \in BeforeLoad
    BY <1>1 DEF Insert, Early, NoRow, Go
  <2>2. \A g \in Owners : act'[g].next = 1 /\ act'[g].pc \in BeforeLoad
    BY <2>1, Constants DEF TypeOK, BeforeLoad
  <2> QED
    BY <2>1, <2>2 DEF Early
<1>2. CASE ~Insert
  <2> SUFFICES ASSUME NotYet'
               PROVE  /\ ~tables' /\ row'.prog = 0 /\ (row' = NoRow => act'[Registrant].pc # "ddl")
                      /\ \A g \in Owners : act'[g].next = 1 /\ act'[g].pc \in BeforeLoad
    BY DEF Early, NotYet, NoRow
  <2> QED
    BY <1>2, EarlyData, EarlyJobs, NotYetBefore
<1> QED
  BY <1>1, <1>2

-----------------------------------------------------------------------------
(* The invariant.                                                           *)

LEMMA RestoreInit == ASSUME Init PROVE RestoreInv
<1> USE Constants DEF Init
<1>1. TypeOK
  <2>1. At("idle") \in Worker
    BY AtType DEF PCs
  <2>2. act \in [Actors -> Worker]
    BY <2>1
  <2>3. row \in Rows /\ limbo \in Rows /\ cell \in [Batches -> [put : Stamps, del : Stamps]]
    BY DEF NoItems
  <2>4. clock \in Stamps /\ takes \in 0 .. Takeovers /\ faults \in 0 .. MaxFaults
    BY RestoreAssumption
  <2> QED
    BY <2>2, <2>3, <2>4 DEF TypeOK, Worker
<1>2. Open /\ Flip /\ Fenced /\ Loaded /\ NoneShort /\ InUseKept
  BY DEF Open, Flip, Fenced, Loaded, NoneShort, InUseKept, NoRow, NoItems
<1>3. JobsInv
  BY JobAt DEF JobsInv, Plain, PCs, Stamped
<1>4. Early
  BY DEF Early, At, BeforeLoad, NoRow
<1> QED
  BY <1>1, <1>2, <1>3, <1>4 DEF RestoreInv

LEMMA RestoreStep == ASSUME RestoreInv, [Next]_vars PROVE RestoreInv'
<1>1. CASE Next
  <2>1. TypeOK'
    BY <1>1, TypeStep, JobsPlaced DEF RestoreInv
  <2>2. Open' /\ Flip' /\ Fenced' /\ Loaded' /\ NoneShort' /\ InUseKept' /\ Early'
    BY <1>1, OpenStep, FlipStep, FencedStep, LoadedStep, NoneShortStep, InUseStep, EarlyStep DEF
       RestoreInv
  <2>3. JobsInv'
    BY <1>1, <2>1, JobsStep DEF RestoreInv
  <2> QED
    BY <2>1, <2>2, <2>3 DEF RestoreInv
<1>2. CASE UNCHANGED vars
  BY <1>2 DEF vars, RestoreInv, TypeOK, Open, Flip, Fenced, Loaded, NoneShort, InUseKept, Early,
     JobsInv, JobInv, JobFenced, JobPlaced, JobLoaded, Rows, NoRow
<1> QED
  BY <1>1, <1>2

LEMMA RestoreInvariant == Spec => []RestoreInv
<1>1. Init => RestoreInv
  BY RestoreInit
<1>2. RestoreInv /\ [Next]_vars => RestoreInv'
  BY RestoreStep
<1> QED
  BY <1>1, <1>2, PTL DEF Spec

(* Whatever the number of batches, jobs and takeovers, a batch that stalls  *)
(* past a takeover and past the ACTIVE flip never brings back an item that  *)
(* was deleted from the restored table (flush_restore_batch reads the       *)
(* timestamp before confirm_restore_claim).                                 *)
THEOREM RestoreNoResurrection == Spec => []NoResurrection
<1>1. RestoreInv => NoResurrection
  <2> SUFFICES ASSUME RestoreInv, NEW b \in Batches, cell[b].del # 0 PROVE cell[b].put <= cell[b].del
    BY DEF NoResurrection
  <2>1. cell[b].put \in Nat /\ cell[b].del \in Nat /\ cell[b].put <= 1
    BY DEF RestoreInv, TypeOK, Fenced, Stamps
  <2> QED
    BY <2>1
<1> QED
  BY <1>1, RestoreInvariant, PTL

(* A load resumed from write_restore_progress, whichever owner recorded it, *)
(* is never failed by count_target: no item of the backup is passed over.   *)
THEOREM RestoreNoMiscount == Spec => []NoMiscount
<1>1. RestoreInv => NoMiscount
  BY DEF RestoreInv, NoneShort, NoMiscount
<1> QED
  BY <1>1, RestoreInvariant, PTL

(* DeleteBackup's start_backup_delete never marks a backup whose in-use     *)
(* entry names a target being restored.                                     *)
THEOREM RestoreInUseKept == Spec => []InUseKept
<1>1. RestoreInv => InUseKept
  BY DEF RestoreInv
<1> QED
  BY <1>1, RestoreInvariant, PTL
=============================================================================
