-------------------------- MODULE BackupJobProofs --------------------------
(***************************************************************************)
(* BackupJob for every number of objects, reconcilers, takeovers, beats and *)
(* faults, and every Period and StaleAfter of BackupAssumption.             *)
(*                                                                         *)
(* The argument.  The row only moves forward (RowInv), so what an actor     *)
(* concluded from its status stays true of it: whoever deletes from the     *)
(* prefix acts on a row that has left CREATING and AVAILABLE for good       *)
(* (ActorsInv).  While the row is CREATING the store therefore only grows,   *)
(* in the order of the job's puts (JobInv, StoreInv), and whoever decides   *)
(* for AVAILABLE has seen all of it.  The claim: a heartbeat that is        *)
(* confirmed in time is younger than the window, and stays so for as long   *)
(* as the pre-put check accepts it (ClaimInv).                              *)
(***************************************************************************)
EXTENDS BackupJob, FiniteSetTheorems, TLAPS

(* The changes of a row that one write makes.                               *)
Edge(s, t) ==
    \/ s = "none" /\ t = "CREATING"
    \/ s = "CREATING" /\ t \in {"AVAILABLE", "FAILED"}
    \/ s = "AVAILABLE" /\ t = "DELETING"
    \/ s = "DELETING" /\ t = "DELETED"
    \/ s \in {"FAILED", "DELETED"} /\ t = "removed"
RowShape(r) ==
    /\ r.status \in {"none", "removed"} => r.gen = NoGen
    /\ r.status \notin {"none", "removed"} => r.gen # NoGen
RowInv ==
    /\ RowShape(row) /\ RowShape(limbo)
    /\ limbo # NoRow => /\ Edge(row.status, limbo.status)
                        /\ row.status = "none" \/ limbo.gen \in {row.gen, NoGen}

Gone == {"FAILED", "DELETING", "DELETED", "removed"}
Failed == {"FAILED", "removed"}
Kept == {"AVAILABLE", "DELETING", "DELETED", "removed"}
Whole == {"AVAILABLE", "DELETING", "DELETED"}
Rest == {"idle", "insert", "done"}
Erasing == {"marked", "manifest", "prefix", "sweep", "list", "settle", "settled", "remove", "removed"}

(* What an actor at p, with w to write, knows of the row and of the store.  *)
Writing(w) ==
    /\ w \in {"AVAILABLE", "FAILED"}
    /\ w = "AVAILABLE" /\ row.status = "CREATING" => obj = Objects
Moving(w) ==
    \/ w = "FAILED" /\ row.status \in Failed
    \/ w = "AVAILABLE" /\ row.status \in Kept
Knows(p, w) ==
    /\ p \notin Rest => row.status # "none"
    /\ p \in {"write", "reread"} => Writing(w)
    /\ p = "move" => Moving(w)
    /\ p \in Erasing => row.status \in Gone
    /\ p \in {"prefix", "sweep"} /\ row.status = "DELETING" => Manifest \notin obj
    /\ p = "remove" => w \in {"FAILED", "DELETED"}
ActorsInv == \A a \in Actors : Knows(act[a].pc, act[a].want)

(* How far the job at p is with its puts, n being the next one.             *)
Putting == {"idle", "insert", "index", "put", "recheck", "rechecking"}
Puts(p, n) ==
    /\ p \in Putting =>
          /\ flight \cup obj \subseteq 1 .. n - 1
          /\ row.status \notin Whole
          /\ row.status = "CREATING" => 1 .. n - 1 \subseteq obj
    /\ p = "wait" =>
          /\ flight \cup obj \subseteq 1 .. n
          /\ row.status \in Whole => n = Manifest
          /\ row.status = "CREATING" => 1 .. n - 1 \subseteq obj /\ n \in flight \cup obj
    /\ p \in {"idle", "insert", "index"} => n = 1
JobInv == Puts(act["job"].pc, act["job"].next)

StoreInv ==
    /\ flight \cap obj = {}
    /\ row.status = "none" => obj = {} /\ flight = {}
    /\ row.status = "CREATING" /\ Manifest \in flight \cup obj => Objects \ {Manifest} \subseteq obj
    /\ row.status \in Whole => flight = {}
    /\ row.status = "AVAILABLE" \/ limbo.status = "AVAILABLE" => obj = Objects
    /\ row.status = "DELETING" /\ Manifest \in obj => obj = Objects

Succeeded == result = "succeeded" => row.status \in Kept

(* The job's claim.  Fresh: it is the job's, by a heartbeat that young.     *)
Owner == {"index", "put", "wait", "recheck", "rechecking"}
JobRow == [status |-> "CREATING", gen |-> JobGen]
Fresh(age) == row = JobRow /\ limbo = NoRow /\ hbAge <= age
Claimed ==
    /\ row.gen = JobGen => row = JobRow /\ limbo = NoRow
    /\ \A b \in Beats : hb.beat[b].at = "ok" /\ hb.beat[b].age <= Period => Fresh(hb.beat[b].age)
    /\ ~hb.late /\ hb.age <= 2 * Period => Fresh(hb.age + Period)
Resolving == {"probe", "verify", "write", "reread"}
Takes(m) ==
    /\ m.pc \in Resolving => m.gen # JobGen
    /\ m.pc = "take" /\ m.gen = JobGen /\ row.gen = JobGen => hbAge > StaleAfter
ClaimInv ==
    /\ act["job"].pc \in Owner => Claimed
    /\ act["job"].pc \in {"idle", "insert", "index"} => \A b \in Beats : hb.beat[b].at = "idle"
    /\ \A a \in Actors \ {"job"} : Takes(act[a])

BackupInv ==
    TypeOK /\ RowInv /\ ActorsInv /\ JobInv /\ StoreInv /\ Succeeded /\ ClaimInv

-----------------------------------------------------------------------------
(* Types.                                                                   *)

Actor == [pc : PCs, gen : NoGen .. MaxTakes, want : Status, try : 1 .. 2, todo : SUBSET Objects,
          next : Objects, clean : BOOLEAN]
Beat == [at : {"idle", "sent", "ok", "refused"}, age : 0 .. Period + 1]
Beating == [lost : BOOLEAN, age : 0 .. 2 * Period + 1, late : BOOLEAN, sent : 0 .. MaxBeats,
            beat : [Beats -> Beat]]

LEMMA Constants ==
    /\ Manifest \in Nat /\ Manifest >= 1 /\ Objects = 1 .. Manifest
    /\ Period \in Nat /\ Period >= 1 /\ StaleAfter \in Nat /\ StaleAfter >= 3 * Period
    /\ MaxTakes \in Nat /\ MaxBeats \in Nat /\ MaxFaults \in Nat
    /\ "job" \in Actors /\ Clients \subseteq Actors \ {"job"} /\ Reconcilers \subseteq Actors \ {"job"}
BY BackupAssumption, FS_CardinalityType, FS_EmptySet DEF Manifest, Actors

LEMMA AtType == ASSUME NEW p \in PCs PROVE At(p) \in Actor
BY Constants DEF At, Actor, Status, NoGen

LEMMA ActorFields ==
    ASSUME NEW m \in Actor, NEW p \in PCs
    PROVE  /\ [m EXCEPT !.pc = p] \in Actor
           /\ \A w \in Status : [m EXCEPT !.pc = p, !.want = w] \in Actor
           /\ \A w \in Status, c \in BOOLEAN : [m EXCEPT !.pc = p, !.want = w, !.clean = c] \in Actor
           /\ \A t \in 1 .. 2 : [m EXCEPT !.pc = p, !.try = t] \in Actor
           /\ \A s \in SUBSET Objects : [m EXCEPT !.pc = p, !.todo = s] \in Actor
           /\ \A s \in SUBSET Objects : [m EXCEPT !.todo = s] \in Actor
           /\ \A g \in NoGen .. MaxTakes : [m EXCEPT !.pc = p, !.gen = g] \in Actor
           /\ \A g \in NoGen .. MaxTakes : [m EXCEPT !.gen = g] \in Actor
           /\ \A n \in Objects : [m EXCEPT !.pc = p, !.next = n] \in Actor
BY DEF Actor

LEMMA ActType == ASSUME TypeOK PROVE act \in [Actors -> Actor]
BY DEF TypeOK, Actor

(* Where an actor goes.                                                     *)
LEMMA ActStep == ASSUME TypeOK, Next PROVE act' \in [Actors -> Actor]
<1> DEFINE Ok == act' \in [Actors -> Actor]
<1> SUFFICES Ok
  OBVIOUS
<1> HIDE DEF Ok
<1>t. act \in [Actors -> Actor]
  BY ActType
<1>m. \A a \in Actors : act[a] \in Actor
  BY <1>t
<1>r. \A a \in Actors, n \in Actor : act' = [act EXCEPT ![a] = n] => Ok
  BY <1>t DEF Ok
<1>g. \A a \in Actors, p \in PCs : act' = [act EXCEPT ![a].pc = p] => Ok
  <2> SUFFICES ASSUME NEW a \in Actors, NEW p \in PCs, act' = [act EXCEPT ![a].pc = p] PROVE Ok
    OBVIOUS
  <2>1. act' = [act EXCEPT ![a] = [act[a] EXCEPT !.pc = p]] /\ [act[a] EXCEPT !.pc = p] \in Actor
    BY <1>t, <1>m, ActorFields
  <2> QED
    BY <2>1, <1>r
<1>o. \A a \in Actors : act' = [act EXCEPT ![a] = At(IF a = "job" THEN "done" ELSE "idle")] => Ok
  <2>1. At("done") \in Actor /\ At("idle") \in Actor
    BY AtType DEF PCs
  <2> QED
    BY <2>1, <1>r
<1>u. UNCHANGED <<act>> => Ok
  BY <1>t DEF Ok
<1>1. CASE Tick \/ Settle \/ Expire \/ BeatSend
  BY <1>u, <1>1 DEF Tick, Settle, Expire, BeatSend
<1>2. CASE Open \/ PutStart \/ PutLost
  BY <1>g, <1>o, <1>u, Constants, <1>2 DEF Open, PutStart, PutLost, Go, Over, Written, PCs
<1>3. CASE ClaimBackup
  <2>1. [act["job"] EXCEPT !.pc = "index", !.gen = JobGen] \in Actor
    <3>1. JobGen \in NoGen .. MaxTakes
      BY Constants DEF JobGen, NoGen
    <3> QED
      BY <3>1, <1>m, ActorFields, Constants DEF PCs
  <2>2. \/ act' = [act EXCEPT !["job"] = [act["job"] EXCEPT !.pc = "index", !.gen = JobGen]]
        \/ Over("job")
    BY <1>3, <1>t, Constants DEF ClaimBackup
  <2> QED
    BY <2>1, <2>2, <1>r, <1>o, Constants DEF Over
<1>4. CASE ClaimIndex
  <2>1. act' = [act EXCEPT !["job"].pc = "put"] \/ Over("job")
    BY <1>4 DEF ClaimIndex
  <2> QED
    BY <2>1, <1>o, <1>g, Constants DEF PCs, Over
<1>5. CASE PutReturn
  <2> DEFINE m == act["job"]
             n == IF m.next = Manifest THEN [m EXCEPT !.pc = "write", !.want = "AVAILABLE"]
                  ELSE [m EXCEPT !.pc = IF m.next + 1 = Manifest THEN "recheck" ELSE "put",
                                 !.next = m.next + 1]
  <2>1. m \in Actor /\ m.next \in 1 .. Manifest
    BY <1>m, Constants DEF Actor
  <2>2. m.next # Manifest => m.next + 1 \in Objects
    BY <2>1, Constants
  <2>3. n \in Actor
    BY <2>1, <2>2, ActorFields DEF PCs, Status
  <2>4. act' = [act EXCEPT !["job"] = n]
    BY <1>5, <1>t, Constants DEF PutReturn
  <2> QED
    BY <2>3, <2>4, <1>r, Constants
<1>6. CASE JobFails
  <2> PICK c \in BOOLEAN : act' = [act EXCEPT !["job"].pc = "write", !["job"].want = "FAILED",
                                             !["job"].clean = c]
    BY <1>6 DEF JobFails
  <2>1. [act["job"] EXCEPT !.pc = "write", !.want = "FAILED", !.clean = c] \in Actor
    BY <1>m, ActorFields, Constants DEF PCs, Status
  <2>2. act' = [act EXCEPT !["job"] = [act["job"] EXCEPT !.pc = "write", !.want = "FAILED",
                                                         !.clean = c]]
    BY <1>t, Constants
  <2> QED
    BY <2>1, <2>2, <1>r, Constants
<1>7. CASE Recheck
  <2>1. [act["job"] EXCEPT !.pc = "rechecking"] \in Actor
    BY <1>7, <1>m, ActorFields, Constants DEF PCs
  <2>2. act' = [act EXCEPT !["job"] = [act["job"] EXCEPT !.pc = "rechecking"]]
    BY <1>7, <1>t, Constants DEF Recheck
  <2> QED
    BY <2>1, <2>2, <1>r, Constants
<1>8. ASSUME NEW o \in Objects, Land(o) PROVE Ok
  BY <1>u, <1>8 DEF Land
<1>9. ASSUME NEW b \in Beats, BeatLost(b) PROVE Ok
  BY <1>g, <1>o, <1>u, Constants, <1>9 DEF BeatLost, Go, Over, Written, PCs
<1>10. ASSUME NEW b \in Beats, BeatApply(b) PROVE Ok
  <2>1. \A a \in Actors : [act[a] EXCEPT !.gen = NoGen] \in Actor
    <3>1. NoGen \in NoGen .. MaxTakes
      BY Constants DEF NoGen
    <3> QED
      BY <3>1, <1>m DEF Actor
  <2> QED
    BY <1>10, <2>1, <1>m DEF BeatApply, Ok
<1>11. ASSUME NEW b \in Beats, BeatConfirmed(b) PROVE Ok
  <2>1. act' = act \/ act' = [act EXCEPT !["job"].pc = "put"]
    BY <1>11 DEF BeatConfirmed
  <2> QED
    BY <2>1, <1>u, <1>g, Constants DEF PCs
<1>12. ASSUME NEW a \in Actors, SetStatus(a) \/ MoveStatus(a) \/ StatusError(a) \/
             StoreError(a) \/ Crash(a)
      PROVE  Ok
  BY <1>g, <1>o, <1>u, Constants, <1>12 DEF SetStatus, MoveStatus, StatusError, StoreError, Crash,
     Go, Over, Written, PCs
<1>13. ASSUME NEW a \in Actors, Reread(a) PROVE Ok
  <2>1. [act[a] EXCEPT !.pc = "write", !.try = 2] \in Actor
    <3>1. 2 \in 1 .. 2
      OBVIOUS
    <3> QED
      BY <3>1, <1>m, ActorFields DEF PCs
  <2>2. \/ act' = [act EXCEPT ![a] = [act[a] EXCEPT !.pc = "write", !.try = 2]]
        \/ Go(a, "prefix") \/ Over(a)
    BY <1>13, <1>t DEF Reread, Written
  <2> QED
    BY <2>1, <2>2, <1>r, <1>o, <1>g DEF Over, Go, PCs
<1>14. ASSUME NEW a \in Actors, ListPrefix(a) PROVE Ok
  <2>1. [act[a] EXCEPT !.pc = "sweep", !.todo = obj] \in Actor
    BY <1>14, <1>m, ActorFields, Constants DEF PCs, TypeOK
  <2>2. act' = [act EXCEPT ![a] = [act[a] EXCEPT !.pc = "sweep", !.todo = obj]]
    BY <1>14, <1>t, Constants DEF ListPrefix
  <2> QED
    BY <2>1, <2>2, <1>r, Constants
<1>15. ASSUME NEW a \in Actors, DeleteObject(a) PROVE Ok
  <2>1. \A s \in Objects : [act[a] EXCEPT !.todo = @ \ {s}] \in Actor
    BY <1>m DEF Actor
  <2>2. \/ \E s \in Objects : act' = [act EXCEPT ![a] = [act[a] EXCEPT !.todo = @ \ {s}]]
        \/ Go(a, "list") \/ Over(a)
    BY <1>15, <1>t, <1>m DEF DeleteObject, Actor
  <2> QED
    BY <2>1, <2>2, <1>r, <1>o, <1>g DEF Over, Go, PCs
<1>16. ASSUME NEW a \in Actors \ {"job"}, ListAfterDelete(a) \/ SetDeleted(a) \/
             MoveDeleted(a)
      PROVE  Ok
  BY <1>g, <1>o, <1>u, Constants, <1>16 DEF ListAfterDelete, SetDeleted, MoveDeleted, Go, Over,
     Written, PCs
<1>17. ASSUME NEW a \in Actors \ {"job"}, DeleteManifest(a) PROVE Ok
  <2>1. [act[a] EXCEPT !.pc = "prefix", !.want = "DELETED"] \in Actor
    BY <1>17, <1>m, ActorFields, Constants DEF PCs, Status
  <2>2. act' = [act EXCEPT ![a] = [act[a] EXCEPT !.pc = "prefix", !.want = "DELETED"]]
    BY <1>17, <1>t, Constants DEF DeleteManifest
  <2> QED
    BY <2>1, <2>2, <1>r, Constants
<1>18. ASSUME NEW c \in Clients, DeleteBackup(c) \/ StartDelete(c) \/ MoveDeleting(c) PROVE Ok
  BY <1>g, <1>o, <1>u, Constants, <1>18 DEF DeleteBackup, StartDelete, MoveDeleting, Go, Over,
     Written, PCs
<1>19. ASSUME NEW r \in Reconcilers, FinishDeleting(r) \/ SweepPrefix(r) \/ RemoveRow(r) \/
             RemoveEntries(r)
      PROVE  Ok
  BY <1>g, <1>o, <1>u, Constants, <1>19 DEF FinishDeleting, SweepPrefix, RemoveRow, RemoveEntries,
     Go, Over, Written, PCs
<1>20. ASSUME NEW r \in Reconcilers, FindDead(r) PROVE Ok
  <2>1. [act[r] EXCEPT !.pc = "take", !.gen = row.gen] \in Actor
    BY <1>20, <1>m, ActorFields, Constants DEF PCs, TypeOK, Rows
  <2>2. act' = [act EXCEPT ![r] = [act[r] EXCEPT !.pc = "take", !.gen = row.gen]]
    BY <1>20, <1>t, Constants DEF FindDead
  <2> QED
    BY <2>1, <2>2, <1>r, Constants
<1>21. ASSUME NEW r \in Reconcilers, TakeOver(r) PROVE Ok
  <2>1. takes < MaxTakes => [act[r] EXCEPT !.pc = "probe", !.gen = takes + 1] \in Actor
    <3>1. takes < MaxTakes => takes + 1 \in NoGen .. MaxTakes
      BY Constants DEF TypeOK, NoGen
    <3> QED
      BY <3>1, <1>m, ActorFields, Constants DEF PCs
  <2>2. \/ /\ takes < MaxTakes
           /\ act' = [act EXCEPT ![r] = [act[r] EXCEPT !.pc = "probe", !.gen = takes + 1]]
        \/ Over(r)
    BY <1>21, <1>t, Constants DEF TakeOver
  <2> QED
    BY <2>1, <2>2, <1>r, <1>o, Constants DEF Over
<1>22. ASSUME NEW r \in Reconcilers, ProbeManifest(r) PROVE Ok
  <2>1. [act[r] EXCEPT !.pc = "write", !.want = "FAILED"] \in Actor
    BY <1>m, ActorFields, Constants DEF PCs, Status
  <2>2. \/ act' = [act EXCEPT ![r] = [act[r] EXCEPT !.pc = "write", !.want = "FAILED"]]
        \/ Go(r, "verify")
    BY <1>22, <1>t, Constants DEF ProbeManifest, ReconcilerWrites
  <2> QED
    BY <2>1, <2>2, <1>r, <1>g, Constants DEF Go, PCs
<1>23. ASSUME NEW r \in Reconcilers, ProbeFiles(r) PROVE Ok
  <2>1. [act[r] EXCEPT !.pc = "write",
                       !.want = IF obj = Objects THEN "AVAILABLE" ELSE "FAILED"] \in Actor
    BY <1>23, <1>m, ActorFields, Constants DEF PCs, Status
  <2>2. act' = [act EXCEPT ![r] = [act[r] EXCEPT !.pc = "write",
                                                 !.want = IF obj = Objects THEN "AVAILABLE"
                                                          ELSE "FAILED"]]
    BY <1>23, <1>t, Constants DEF ProbeFiles, ReconcilerWrites
  <2> QED
    BY <2>1, <2>2, <1>r, Constants
<1>24. ASSUME NEW r \in Reconcilers, FindTombstone(r) PROVE Ok
  <2> PICK s \in {"FAILED", "DELETED"} : act' = [act EXCEPT ![r].pc = "remove", ![r].want = s]
    BY <1>24 DEF FindTombstone
  <2>1. [act[r] EXCEPT !.pc = "remove", !.want = s] \in Actor
    BY <1>m, ActorFields, Constants DEF PCs, Status
  <2>2. act' = [act EXCEPT ![r] = [act[r] EXCEPT !.pc = "remove", !.want = s]]
    BY <1>t, Constants
  <2> QED
    BY <2>1, <2>2, <1>r, Constants
<1> QED
  BY Constants, <1>1, <1>2, <1>3, <1>4, <1>5, <1>6, <1>7, <1>8, <1>9, <1>10, <1>11, <1>12, <1>13,
     <1>14, <1>15, <1>16, <1>17, <1>18, <1>19, <1>20, <1>21, <1>22, <1>23, <1>24 DEF Next,
     JobStep, TimerStep, ClientStep, ReconcilerStep, Works, Finishes, Beats

(* The heartbeat's record.                                                  *)
LEMMA BeatFields ==
    ASSUME NEW h \in Beating, NEW b \in Beats
    PROVE  /\ \A x \in Beat : [h EXCEPT !.beat[b] = x] \in Beating
           /\ \A x \in {"idle", "sent", "ok", "refused"} : [h EXCEPT !.beat[b].at = x] \in Beating
           /\ [h EXCEPT !.beat[b].age = 0] \in Beating
           /\ [h EXCEPT !.lost = TRUE] \in Beating
           /\ \A s \in 0 .. MaxBeats : [h EXCEPT !.sent = s] \in Beating
           /\ \A l \in BOOLEAN : [h EXCEPT !.age = 0, !.late = l] \in Beating
<1>1. \A x \in Beat : [h EXCEPT !.beat[b] = x] \in Beating
  BY DEF Beating
<1>2. /\ \A x \in {"idle", "sent", "ok", "refused"} : [h.beat[b] EXCEPT !.at = x] \in Beat
      /\ [h.beat[b] EXCEPT !.age = 0] \in Beat
  <2>1. h.beat[b] \in Beat
    BY DEF Beating
  <2>2. 0 \in 0 .. Period + 1
    BY Constants
  <2> QED
    BY <2>1, <2>2 DEF Beat
<1>3. /\ \A x : [h EXCEPT !.beat[b].at = x] = [h EXCEPT !.beat[b] = [h.beat[b] EXCEPT !.at = x]]
      /\ [h EXCEPT !.beat[b].age = 0] = [h EXCEPT !.beat[b] = [h.beat[b] EXCEPT !.age = 0]]
  BY DEF Beating
<1>4. /\ [h EXCEPT !.lost = TRUE] \in Beating
      /\ \A s \in 0 .. MaxBeats : [h EXCEPT !.sent = s] \in Beating
      /\ \A l \in BOOLEAN : [h EXCEPT !.age = 0, !.late = l] \in Beating
  <2>1. 0 \in 0 .. 2 * Period + 1
    BY Constants
  <2>2. /\ [h EXCEPT !.lost = TRUE] \in Beating
        /\ \A l \in BOOLEAN : [h EXCEPT !.age = 0, !.late = l] \in Beating
    BY <2>1 DEF Beating
  <2>3. \A s \in 0 .. MaxBeats : [h EXCEPT !.sent = s] \in Beating
    BY DEF Beating
  <2> QED
    BY <2>2, <2>3
<1> QED
  BY <1>1, <1>2, <1>3, <1>4

LEMMA QuietType == Quiet \in Beating
BY Constants DEF Quiet, Beating, Beat

LEMMA OverBeating ==
    ASSUME hb \in Beating, NEW a \in Actors, Over(a)
    PROVE  hb' \in Beating
<1>1. CASE a # "job"
  BY <1>1 DEF Over
<1>2. CASE a = "job"
  <2> DEFINE n(b) == [at |-> IF hb.beat[b].at = "sent" THEN "sent" ELSE "idle", age |-> 0]
  <2>1. hb' = [Quiet EXCEPT !.beat = [b \in Beats |-> n(b)]]
    BY <1>2 DEF Over
  <2>2. \A b \in Beats : n(b) \in Beat
    BY Constants DEF Beat
  <2> HIDE DEF n
  <2>3. [b \in Beats |-> n(b)] \in [Beats -> Beat]
    BY <2>2
  <2> QED
    BY <2>1, <2>3, QuietType DEF Beating
<1> QED
  BY <1>1, <1>2

LEMMA OlderType ==
    ASSUME NEW cap \in Nat, NEW x \in 0 .. cap
    PROVE  /\ Older(x, cap) \in 0 .. cap
           /\ Older(x, cap) = x + 1 \/ (x = cap /\ Older(x, cap) = cap)
BY DEF Older

LEMMA HbStep == ASSUME TypeOK, Next PROVE hb' \in Beating
<1> DEFINE Ok == hb' \in Beating
<1> SUFFICES Ok
  OBVIOUS
<1> HIDE DEF Ok
<1>t. hb \in Beating
  BY DEF TypeOK, Beating, Beat
<1>o. \A a \in Actors : Over(a) => Ok
  BY <1>t, OverBeating DEF Ok
<1>u. UNCHANGED <<hb>> => Ok
  BY <1>t DEF Ok
<1>1. CASE Settle \/ Expire \/ PutReturn \/ JobFails
  BY <1>u, <1>1 DEF Settle, Expire, PutReturn, JobFails
<1>2. CASE Open \/ ClaimBackup \/ PutStart \/ PutLost
  BY <1>o, <1>u, Constants, <1>2 DEF Open, ClaimBackup, PutStart, PutLost, Go, Written,
     ReconcilerWrites
<1>3. CASE Tick
  <2> DEFINE x == [hb EXCEPT !.age = Older(hb.age, 2 * Period + 1),
                             !.beat = [b \in Beats |-> Aged(b)]]
  <2>1. \A b \in Beats : Aged(b) \in Beat
    <3>1. \A b \in Beats : hb.beat[b] \in Beat /\ hb.beat[b].age \in 0 .. Period + 1
      BY <1>t DEF Beating, Beat
    <3>2. \A b \in Beats : Older(hb.beat[b].age, Period + 1) \in 0 .. Period + 1
      <4>1. Period + 1 \in Nat
        BY Constants
      <4> QED
        BY <4>1, <3>1, OlderType
    <3> QED
      BY <3>1, <3>2 DEF Aged, Beat
  <2>2. Older(hb.age, 2 * Period + 1) \in 0 .. 2 * Period + 1
    <3>1. hb.age \in 0 .. 2 * Period + 1 /\ 2 * Period + 1 \in Nat
      BY <1>t, Constants DEF Beating
    <3> QED
      BY <3>1, OlderType
  <2>3. hb' = hb \/ hb' = x
    BY <1>3 DEF Tick
  <2>4. x \in Beating
    BY <2>1, <2>2, <1>t DEF Beating
  <2> QED
    BY <2>3, <2>4, <1>t DEF Ok
<1>4. CASE ClaimIndex
  <2>1. hb' = [hb EXCEPT !.beat["timer"].age = 0] \/ Over("job")
    BY <1>4 DEF ClaimIndex
  <2> QED
    BY <2>1, <1>t, <1>o, BeatFields, Constants DEF Ok, Beats
<1>5. CASE Recheck
  <2>1. [at |-> "sent", age |-> 0] \in Beat
    BY Constants DEF Beat
  <2> QED
    BY <1>5, <2>1, <1>t, BeatFields DEF Recheck, Ok, Beats
<1>6. CASE BeatSend
  <2>1. [at |-> "sent", age |-> 0] \in Beat /\ "timer" \in Beats
    BY Constants DEF Beat, Beats
  <2>2. hb.sent + 1 \in 0 .. MaxBeats
    BY <1>6, <1>t, Constants DEF BeatSend, Beating
  <2>3. PICK n : n = [hb EXCEPT !.beat["timer"] = [at |-> "sent", age |-> 0]]
    OBVIOUS
  <2>4. n \in Beating /\ n.sent = hb.sent
    BY <2>1, <2>3, <1>t, BeatFields DEF Beating
  <2>5. hb' = [n EXCEPT !.sent = hb.sent + 1]
    BY <1>6, <2>3, <2>4 DEF BeatSend
  <2> QED
    BY <2>1, <2>2, <2>4, <2>5, BeatFields DEF Ok
<1>7. ASSUME NEW o \in Objects, Land(o) PROVE Ok
  BY <1>u, <1>7 DEF Land
<1>8. ASSUME NEW b \in Beats, BeatApply(b) PROVE Ok
  <2>1. PICK x \in {"idle", "ok", "refused"} : hb' = [hb EXCEPT !.beat[b].at = x]
    BY <1>8 DEF BeatApply
  <2> QED
    BY <2>1, <1>t, BeatFields DEF Ok
<1>9. ASSUME NEW b \in Beats, BeatConfirmed(b) PROVE Ok
  <2>0. PICK l \in BOOLEAN : hb' = [hb EXCEPT !.age = 0, !.late = l, !.beat[b].at = "idle"]
    <3>1. hb' = [hb EXCEPT !.age = 0, !.late = hb.beat[b].age > Period, !.beat[b].at = "idle"]
      BY <1>9, Zenon DEF BeatConfirmed
    <3>2. CASE hb.beat[b].age > Period
      <4>1. (hb.beat[b].age > Period) = TRUE
        BY <3>2
      <4> QED
        BY <3>1, <4>1, Zenon
    <3>3. CASE ~(hb.beat[b].age > Period)
      <4>1. (hb.beat[b].age > Period) = FALSE
        BY <3>3
      <4> QED
        BY <3>1, <4>1, Zenon
    <3> QED
      BY <3>2, <3>3
  <2>1. PICK n : n = [hb EXCEPT !.age = 0, !.late = l]
    OBVIOUS
  <2>2. n \in Beating
    BY <2>1, <1>t, BeatFields
  <2>3. hb' = [n EXCEPT !.beat[b].at = "idle"]
    BY <2>0, <2>1
  <2> QED
    BY <2>2, <2>3, BeatFields DEF Ok
<1>10. ASSUME NEW b \in Beats, BeatLost(b) PROVE Ok
  <2>1. PICK n : n = [hb EXCEPT !.lost = TRUE]
    OBVIOUS
  <2>2. n \in Beating
    BY <2>1, <1>t, BeatFields
  <2>3. \/ \E x \in {"sent", "idle"} : hb' = [n EXCEPT !.beat[b].at = x]
        \/ Over("job")
    <3>1. CASE b = "timer"
      <4>1. hb' = [hb EXCEPT !.lost = TRUE, !.beat[b].at = IF @ = "sent" THEN @ ELSE "idle"]
        BY <1>10, <3>1, Zenon DEF BeatLost
      <4>2. n.beat[b].at = hb.beat[b].at
        BY <2>1, <1>t DEF Beating
      <4> QED
        BY <4>1, <4>2, <2>1
    <3>2. CASE b # "timer"
      BY <1>10, <3>2 DEF BeatLost
    <3> QED
      BY <3>1, <3>2
  <2>4. \A x \in {"sent", "idle"} : [n EXCEPT !.beat[b].at = x] \in Beating
    BY <2>2, BeatFields
  <2>5. "job" \in Actors
    BY Constants
  <2> QED
    BY <2>3, <2>4, <2>5, <1>o DEF Ok
<1>11. ASSUME NEW a \in Actors, ListPrefix(a) PROVE Ok
  BY <1>u, <1>11 DEF ListPrefix
<1>12. ASSUME NEW a \in Actors, SetStatus(a) \/ Reread(a) \/ MoveStatus(a) \/ StatusError(a)
             \/ StoreError(a) \/ Crash(a) \/ DeleteObject(a)
      PROVE  Ok
  BY <1>o, <1>u, Constants, <1>12 DEF SetStatus, Reread, MoveStatus, StatusError, StoreError,
     Crash, DeleteObject, Go, Written, ReconcilerWrites
<1>13. ASSUME NEW a \in Actors \ {"job"}, DeleteManifest(a) PROVE Ok
  BY <1>u, <1>13 DEF DeleteManifest
<1>14. ASSUME NEW a \in Actors \ {"job"}, ListAfterDelete(a) \/ SetDeleted(a) \/
             MoveDeleted(a)
      PROVE  Ok
  BY <1>o, <1>u, Constants, <1>14 DEF ListAfterDelete, SetDeleted, MoveDeleted, Go, Written,
     ReconcilerWrites
<1>15. ASSUME NEW c \in Clients, DeleteBackup(c) \/ StartDelete(c) \/ MoveDeleting(c) PROVE Ok
  BY <1>o, <1>u, Constants, <1>15 DEF DeleteBackup, StartDelete, MoveDeleting, Go, Written,
     ReconcilerWrites
<1>16. ASSUME NEW r \in Reconcilers, FindDead(r) \/ FindTombstone(r) PROVE Ok
  BY <1>u, <1>16 DEF FindDead, FindTombstone
<1>17. ASSUME NEW r \in Reconcilers, TakeOver(r) \/ ProbeManifest(r) \/ ProbeFiles(r) \/
             FinishDeleting(r) \/ SweepPrefix(r) \/ RemoveRow(r) \/ RemoveEntries(r)
      PROVE  Ok
  BY <1>o, <1>u, Constants, <1>17 DEF TakeOver, ProbeManifest, ProbeFiles, FinishDeleting,
     SweepPrefix, RemoveRow, RemoveEntries, Go, Written, ReconcilerWrites
<1> QED
  BY Constants, <1>1, <1>2, <1>3, <1>4, <1>5, <1>6, <1>7, <1>8, <1>9, <1>10, <1>11, <1>12, <1>13,
     <1>14, <1>15, <1>16, <1>17 DEF Next, JobStep, TimerStep, ClientStep, ReconcilerStep, Works,
     Finishes, Beats

RowTypes == row \in Rows /\ limbo \in Rows

LEMMA RowTypesStep == ASSUME TypeOK, Next PROVE RowTypes'
<1> DEFINE Ok == RowTypes'
<1> SUFFICES Ok
  OBVIOUS
<1> HIDE DEF Ok
<1>t. row \in Rows /\ limbo \in Rows /\ NoRow \in Rows
  BY Constants DEF TypeOK, Rows, NoRow, Status, NoGen
<1>e. \A s \in Status : [row EXCEPT !.status = s] \in Rows
  BY <1>t DEF Rows
<1>l. \A c, o : \A n \in Rows : Lwt(c, n, o) => Ok
  BY <1>t DEF Lwt, Ok, RowTypes
<1>u. UNCHANGED <<row, limbo>> => Ok
  BY <1>t DEF Ok, RowTypes
<1>1. CASE Tick \/ Expire \/ Open \/ ClaimIndex \/ PutStart \/ PutReturn \/ PutLost \/
           JobFails \/ Recheck \/ BeatSend
  BY <1>u, <1>1 DEF Tick, Expire, Open, ClaimIndex, PutStart, PutReturn, PutLost, JobFails,
     Recheck, BeatSend, rowVars
<1>2. CASE Settle
  BY <1>2, <1>t DEF Settle, Ok, RowTypes
<1>3. CASE ClaimBackup
  <2>1. [status |-> "CREATING", gen |-> JobGen] \in Rows
    BY Constants DEF Rows, Status, JobGen, NoGen
  <2> QED
    BY <1>3, <2>1, <1>l DEF ClaimBackup
<1>4. ASSUME NEW o \in Objects, Land(o) PROVE Ok
  BY <1>u, <1>4 DEF Land, rowVars
<1>5. ASSUME NEW b \in Beats, BeatApply(b) \/ BeatConfirmed(b) \/ BeatLost(b) PROVE Ok
  BY <1>u, <1>5 DEF BeatApply, BeatConfirmed, BeatLost, rowVars
<1>6. ASSUME NEW a \in Actors, Reread(a) \/ MoveStatus(a) \/ ListPrefix(a) \/
             DeleteObject(a) \/ StatusError(a) \/ StoreError(a) \/ Crash(a)
      PROVE  Ok
  BY <1>u, <1>6 DEF Reread, MoveStatus, ListPrefix, DeleteObject, StatusError, StoreError, Crash,
     rowVars
<1>7. ASSUME NEW a \in Actors, SetStatus(a) PROVE Ok
  <2>1. act[a].want \in Status
    BY ActType DEF Actor
  <2> QED
    BY <1>7, <2>1, <1>e, <1>l DEF SetStatus
<1>8. ASSUME NEW a \in Actors \ {"job"}, DeleteManifest(a) \/ ListAfterDelete(a) \/
             MoveDeleted(a)
      PROVE  Ok
  BY <1>u, <1>8 DEF DeleteManifest, ListAfterDelete, MoveDeleted, rowVars
<1>9. ASSUME NEW a \in Actors \ {"job"}, SetDeleted(a) PROVE Ok
  BY <1>9, <1>e, <1>l DEF SetDeleted, Status
<1>10. ASSUME NEW c \in Clients, DeleteBackup(c) \/ MoveDeleting(c) PROVE Ok
  BY <1>u, <1>10 DEF DeleteBackup, MoveDeleting, rowVars
<1>11. ASSUME NEW c \in Clients, StartDelete(c) PROVE Ok
  BY <1>11, <1>e, <1>l DEF StartDelete, Status
<1>12. ASSUME NEW r \in Reconcilers, FindDead(r) \/ ProbeManifest(r) \/ ProbeFiles(r) \/
             FinishDeleting(r) \/ SweepPrefix(r) \/ FindTombstone(r) \/ RemoveEntries(r)
      PROVE  Ok
  BY <1>u, <1>12 DEF FindDead, ProbeManifest, ProbeFiles, FinishDeleting, SweepPrefix,
     FindTombstone, RemoveEntries, rowVars
<1>13. ASSUME NEW r \in Reconcilers, TakeOver(r) PROVE Ok
  <2>1. takes < MaxTakes => [row EXCEPT !.gen = takes + 1] \in Rows
    <3>1. takes < MaxTakes => takes + 1 \in NoGen .. MaxTakes
      BY Constants DEF TypeOK, NoGen
    <3> QED
      BY <3>1, <1>t DEF Rows
  <2> QED
    BY <1>13, <2>1, <1>t DEF TakeOver, Ok, RowTypes
<1>14. ASSUME NEW r \in Reconcilers, RemoveRow(r) PROVE Ok
  <2>1. [status |-> "removed", gen |-> NoGen] \in Rows
    BY Constants DEF Rows, Status, NoGen
  <2> QED
    BY <1>14, <2>1, <1>l DEF RemoveRow
<1> QED
  BY Constants, <1>1, <1>2, <1>3, <1>4, <1>5, <1>6, <1>7, <1>8, <1>9, <1>10, <1>11, <1>12, <1>13,
     <1>14 DEF Next, JobStep, TimerStep, ClientStep, ReconcilerStep, Works, Finishes, Beats

StoreTypes == index \subseteq Status /\ obj \subseteq Objects /\ flight \subseteq Objects

LEMMA StoreTypesStep == ASSUME TypeOK, Next PROVE StoreTypes'
<1> DEFINE Ok == StoreTypes'
<1> SUFFICES Ok
  OBVIOUS
<1> HIDE DEF Ok
<1>t. /\ index \subseteq Status /\ obj \subseteq Objects /\ flight \subseteq Objects
      /\ \A a \in Actors : act[a].want \in Status /\ act[a].next \in Objects
  BY ActType DEF TypeOK, Actor
<1>u. UNCHANGED <<index, obj, flight>> => Ok
  BY <1>t DEF Ok, StoreTypes
<1>1. CASE Tick \/ Settle \/ Expire \/ Open \/ ClaimBackup \/ PutReturn \/ PutLost \/
           JobFails \/ Recheck \/ BeatSend
  BY <1>u, <1>1 DEF Tick, Settle, Expire, Open, ClaimBackup, PutReturn, PutLost, JobFails,
     Recheck, BeatSend
<1>2. CASE ClaimIndex
  BY <1>2, <1>t DEF ClaimIndex, Ok, StoreTypes, Status
<1>3. CASE PutStart
  <2>1. act["job"].next \in Objects
    BY <1>t, Constants
  <2> QED
    BY <1>3, <2>1, <1>t DEF PutStart, Ok, StoreTypes
<1>4. ASSUME NEW o \in Objects, Land(o) PROVE Ok
  BY <1>4, <1>t DEF Land, Ok, StoreTypes
<1>5. ASSUME NEW b \in Beats, BeatApply(b) \/ BeatConfirmed(b) \/ BeatLost(b) PROVE Ok
  BY <1>u, <1>5 DEF BeatApply, BeatConfirmed, BeatLost
<1>6. ASSUME NEW a \in Actors, SetStatus(a) \/ Reread(a) \/ ListPrefix(a) \/ StatusError(a)
             \/ StoreError(a) \/ Crash(a)
      PROVE  Ok
  BY <1>u, <1>6 DEF SetStatus, Reread, ListPrefix, StatusError, StoreError, Crash
<1>7. ASSUME NEW a \in Actors, MoveStatus(a) PROVE Ok
  BY <1>7, <1>t DEF MoveStatus, MoveIndex, Ok, StoreTypes, Status
<1>8. ASSUME NEW a \in Actors, DeleteObject(a) PROVE Ok
  BY <1>8, <1>t DEF DeleteObject, Ok, StoreTypes
<1>9. ASSUME NEW a \in Actors \ {"job"}, ListAfterDelete(a) \/ SetDeleted(a) PROVE Ok
  BY <1>u, <1>9 DEF ListAfterDelete, SetDeleted
<1>10. ASSUME NEW a \in Actors \ {"job"}, DeleteManifest(a) PROVE Ok
  BY <1>10, <1>t DEF DeleteManifest, Ok, StoreTypes
<1>11. ASSUME NEW a \in Actors \ {"job"}, MoveDeleted(a) PROVE Ok
  BY <1>11, <1>t DEF MoveDeleted, MoveIndex, Ok, StoreTypes, Status
<1>12. ASSUME NEW c \in Clients, DeleteBackup(c) \/ StartDelete(c) PROVE Ok
  BY <1>u, <1>12 DEF DeleteBackup, StartDelete
<1>13. ASSUME NEW c \in Clients, MoveDeleting(c) PROVE Ok
  BY <1>13, <1>t DEF MoveDeleting, MoveIndex, Ok, StoreTypes, Status
<1>14. ASSUME NEW r \in Reconcilers, FindDead(r) \/ TakeOver(r) \/ ProbeManifest(r) \/
             ProbeFiles(r) \/ FinishDeleting(r) \/ SweepPrefix(r) \/ FindTombstone(r) \/
             RemoveRow(r)
      PROVE  Ok
  BY <1>u, <1>14 DEF FindDead, TakeOver, ProbeManifest, ProbeFiles, FinishDeleting, SweepPrefix,
     FindTombstone, RemoveRow
<1>15. ASSUME NEW r \in Reconcilers, RemoveEntries(r) PROVE Ok
  BY <1>15, <1>t DEF RemoveEntries, Ok, StoreTypes
<1> QED
  BY Constants, <1>1, <1>2, <1>3, <1>4, <1>5, <1>6, <1>7, <1>8, <1>9, <1>10, <1>11, <1>12, <1>13,
     <1>14, <1>15 DEF Next, JobStep, TimerStep, ClientStep, ReconcilerStep, Works, Finishes, Beats

CountTypes == /\ hbAge \in 0 .. StaleAfter + 1
              /\ takes \in 0 .. MaxTakes /\ faults \in 0 .. MaxFaults

LEMMA CountStep == ASSUME TypeOK, Next PROVE CountTypes'
<1> DEFINE Ok == CountTypes'
<1> SUFFICES Ok
  OBVIOUS
<1> HIDE DEF Ok
<1>t. /\ hbAge \in 0 .. StaleAfter + 1 /\ takes \in 0 .. MaxTakes /\ faults \in 0 .. MaxFaults
      /\ 0 \in 0 .. StaleAfter + 1
  BY Constants DEF TypeOK
<1>f. /\ faults' \in 0 .. MaxFaults /\ (hbAge' = hbAge \/ hbAge' = 0) /\ takes' = takes => Ok
  BY <1>t DEF Ok, CountTypes
<1>w. (faults' = faults \/ Fault) => faults' \in 0 .. MaxFaults
  BY <1>t, Constants DEF Fault
<1>u. UNCHANGED <<hbAge, takes, faults>> => Ok
  BY <1>t DEF Ok, CountTypes
<1>1. CASE Expire \/ Open \/ PutStart \/ PutReturn \/ PutLost \/ Recheck \/ BeatSend
  BY <1>u, <1>1 DEF Expire, Open, PutStart, PutReturn, PutLost, Recheck, BeatSend, rowVars
<1>2. CASE Settle \/ ClaimBackup \/ ClaimIndex \/ JobFails
  BY <1>f, <1>w, <1>2 DEF Settle, ClaimBackup, ClaimIndex, JobFails, Lwt, MoveIndex, rowVars
<1>3. CASE Tick
  <2>1. StaleAfter + 1 \in Nat
    BY Constants
  <2>2. Older(hbAge, StaleAfter + 1) \in 0 .. StaleAfter + 1
    BY <1>t, <2>1, OlderType
  <2> QED
    BY <1>3, <2>2, <1>t DEF Tick, Ok, CountTypes
<1>4. ASSUME NEW o \in Objects, Land(o) PROVE Ok
  BY <1>u, <1>4 DEF Land, rowVars
<1>5. ASSUME NEW b \in Beats, BeatConfirmed(b) PROVE Ok
  BY <1>u, <1>5 DEF BeatConfirmed, rowVars
<1>6. ASSUME NEW b \in Beats, BeatApply(b) \/ BeatLost(b) PROVE Ok
  BY <1>f, <1>w, <1>6 DEF BeatApply, BeatLost, Lwt, MoveIndex, rowVars
<1>7. ASSUME NEW a \in Actors, Reread(a) \/ ListPrefix(a) \/ DeleteObject(a) PROVE Ok
  BY <1>u, <1>7 DEF Reread, ListPrefix, DeleteObject, rowVars
<1>8. ASSUME NEW a \in Actors, SetStatus(a) \/ MoveStatus(a) \/ StatusError(a) \/
             StoreError(a) \/ Crash(a)
      PROVE  Ok
  BY <1>f, <1>w, <1>8 DEF SetStatus, MoveStatus, StatusError, StoreError, Crash, Lwt, MoveIndex,
     rowVars
<1>9. ASSUME NEW a \in Actors \ {"job"}, DeleteManifest(a) \/ ListAfterDelete(a) PROVE Ok
  BY <1>u, <1>9 DEF DeleteManifest, ListAfterDelete, rowVars
<1>10. ASSUME NEW a \in Actors \ {"job"}, SetDeleted(a) \/ MoveDeleted(a) PROVE Ok
  BY <1>f, <1>w, <1>10 DEF SetDeleted, MoveDeleted, Lwt, MoveIndex, rowVars
<1>11. ASSUME NEW c \in Clients, DeleteBackup(c) PROVE Ok
  BY <1>u, <1>11 DEF DeleteBackup, rowVars
<1>12. ASSUME NEW c \in Clients, StartDelete(c) \/ MoveDeleting(c) PROVE Ok
  BY <1>f, <1>w, <1>12 DEF StartDelete, MoveDeleting, Lwt, MoveIndex, rowVars
<1>13. ASSUME NEW r \in Reconcilers, FindDead(r) \/ ProbeManifest(r) \/ ProbeFiles(r) \/
             FinishDeleting(r) \/ SweepPrefix(r) \/ FindTombstone(r)
      PROVE  Ok
  BY <1>u, <1>13 DEF FindDead, ProbeManifest, ProbeFiles, FinishDeleting, SweepPrefix,
     FindTombstone, rowVars
<1>14. ASSUME NEW r \in Reconcilers, RemoveRow(r) \/ RemoveEntries(r) PROVE Ok
  BY <1>f, <1>w, <1>14 DEF RemoveRow, RemoveEntries, Lwt, MoveIndex, rowVars
<1>15. ASSUME NEW r \in Reconcilers, TakeOver(r) PROVE Ok
  <2>1. takes' \in 0 .. MaxTakes /\ UNCHANGED <<hbAge, faults>>
    BY <1>15, <1>t, Constants DEF TakeOver
  <2> QED
    BY <2>1, <1>t DEF Ok, CountTypes
<1> QED
  BY Constants, <1>1, <1>2, <1>3, <1>4, <1>5, <1>6, <1>7, <1>8, <1>9, <1>10, <1>11, <1>12, <1>13,
     <1>14, <1>15 DEF Next, JobStep, TimerStep, ClientStep, ReconcilerStep, Works, Finishes, Beats

FlagTypes == expired \in BOOLEAN /\ result \in {"none", "succeeded", "failed"}

LEMMA FlagStep == ASSUME TypeOK, Next PROVE FlagTypes'
<1> DEFINE Ok == FlagTypes'
<1> SUFFICES Ok
  OBVIOUS
<1> HIDE DEF Ok
<1>t. expired \in BOOLEAN /\ result \in {"none", "succeeded", "failed"}
  BY DEF TypeOK
<1>b. \A p : expired' = (expired /\ p) /\ result' = result => Ok
  BY <1>t, Zenon DEF Ok, FlagTypes
<1>w. \A a, p : Written(a, p) => result' \in {"none", "succeeded", "failed"}
  BY <1>t DEF Written
<1>s. expired' = expired /\ result' \in {"none", "succeeded", "failed"} => Ok
  BY <1>t DEF Ok, FlagTypes
<1>u. UNCHANGED <<expired, result>> => Ok
  BY <1>t DEF Ok, FlagTypes
<1>1. CASE Tick \/ Open \/ PutReturn \/ JobFails \/ Recheck \/ BeatSend
  BY <1>u, <1>1 DEF Tick, Open, PutReturn, JobFails, Recheck, BeatSend, rowVars
<1>2. CASE ClaimBackup \/ ClaimIndex \/ PutStart \/ PutLost
  BY <1>s, <1>t, <1>2 DEF ClaimBackup, ClaimIndex, PutStart, PutLost, rowVars
<1>3. CASE Settle
  <2>1. expired' = (expired /\ row' = row) /\ result' = result
    BY <1>3 DEF Settle
  <2> QED
    BY <2>1, <1>b
<1>4. CASE Expire
  BY <1>4, <1>t DEF Expire, Ok, FlagTypes
<1>5. ASSUME NEW o \in Objects, Land(o) PROVE Ok
  BY <1>u, <1>5 DEF Land, rowVars
<1>6. ASSUME NEW b \in Beats, BeatApply(b) \/ BeatConfirmed(b) PROVE Ok
  BY <1>u, <1>6 DEF BeatApply, BeatConfirmed, rowVars
<1>7. ASSUME NEW b \in Beats, BeatLost(b) PROVE Ok
  BY <1>s, <1>t, <1>7 DEF BeatLost, rowVars
<1>8. ASSUME NEW a \in Actors, ListPrefix(a) \/ DeleteObject(a) \/ StoreError(a) \/
             Crash(a)
      PROVE  Ok
  BY <1>u, <1>8 DEF ListPrefix, DeleteObject, StoreError, Crash, rowVars
<1>9. ASSUME NEW a \in Actors, SetStatus(a) PROVE Ok
  <2>1. PICK o : /\ expired' = (expired /\ o # "matched")
                 /\ Written(a, FALSE) \/ result' = result
    BY <1>9 DEF SetStatus
  <2>2. result' \in {"none", "succeeded", "failed"}
    BY <2>1, <1>w, <1>t
  <2>3. expired' \in BOOLEAN
    BY <2>1, <1>t, Zenon
  <2> QED
    BY <2>2, <2>3 DEF Ok, FlagTypes
<1>10. ASSUME NEW a \in Actors, Reread(a) PROVE Ok
  <2>1. expired' = expired /\ (result' = result \/ \E p : Written(a, p))
    BY <1>10 DEF Reread, rowVars
  <2>2. result' \in {"none", "succeeded", "failed"}
    BY <2>1, <1>w, <1>t
  <2> QED
    BY <2>1, <2>2, <1>s
<1>11. ASSUME NEW a \in Actors, MoveStatus(a) PROVE Ok
  <2>1. expired' = expired /\ (result' = result \/ \E p : Written(a, p))
    BY <1>11 DEF MoveStatus, rowVars
  <2>2. result' \in {"none", "succeeded", "failed"}
    BY <2>1, <1>w, <1>t
  <2> QED
    BY <2>1, <2>2, <1>s
<1>12. ASSUME NEW a \in Actors, StatusError(a) PROVE Ok
  <2>1. expired' = expired /\ (result' = result \/ \E p : Written(a, p))
    BY <1>12 DEF StatusError, rowVars
  <2>2. result' \in {"none", "succeeded", "failed"}
    BY <2>1, <1>w, <1>t
  <2> QED
    BY <2>1, <2>2, <1>s
<1>13. ASSUME NEW a \in Actors \ {"job"}, DeleteManifest(a) \/ ListAfterDelete(a) \/
             MoveDeleted(a)
      PROVE  Ok
  BY <1>u, <1>13 DEF DeleteManifest, ListAfterDelete, MoveDeleted, rowVars
<1>14. ASSUME NEW a \in Actors \ {"job"}, SetDeleted(a) PROVE Ok
  <2>1. PICK o : expired' = (expired /\ o # "matched") /\ result' = result
    BY <1>14 DEF SetDeleted
  <2> QED
    BY <2>1, <1>b
<1>15. ASSUME NEW c \in Clients, DeleteBackup(c) \/ StartDelete(c) \/ MoveDeleting(c) PROVE Ok
  BY <1>u, <1>15 DEF DeleteBackup, StartDelete, MoveDeleting, rowVars
<1>16. ASSUME NEW r \in Reconcilers, FindDead(r) \/ TakeOver(r) \/ ProbeManifest(r) \/
             ProbeFiles(r) \/ FinishDeleting(r) \/ SweepPrefix(r) \/ FindTombstone(r) \/
             RemoveRow(r) \/ RemoveEntries(r)
      PROVE  Ok
  BY <1>u, <1>16 DEF FindDead, TakeOver, ProbeManifest, ProbeFiles, FinishDeleting, SweepPrefix,
     FindTombstone, RemoveRow, RemoveEntries, rowVars
<1> QED
  BY Constants, <1>1, <1>2, <1>3, <1>4, <1>5, <1>6, <1>7, <1>8, <1>9, <1>10, <1>11, <1>12, <1>13,
     <1>14, <1>15, <1>16 DEF Next, JobStep, TimerStep, ClientStep, ReconcilerStep, Works,
     Finishes, Beats

LEMMA TypeStep == ASSUME TypeOK, Next PROVE TypeOK'
<1>1. /\ act' \in [Actors -> Actor] /\ hb' \in Beating /\ RowTypes' /\ StoreTypes' /\ CountTypes'
      /\ FlagTypes'
  BY ActStep, HbStep, RowTypesStep, StoreTypesStep, CountStep, FlagStep
<1> QED
  BY <1>1 DEF TypeOK, Actor, Beating, Beat, RowTypes, StoreTypes, CountTypes, FlagTypes

-----------------------------------------------------------------------------
(* The row moves forward.                                                   *)

Ahead == row'.status = row.status \/ Edge(row.status, row'.status)
RowMove == RowInv' /\ Ahead

LEMMA RowStep == ASSUME TypeOK, RowInv, ActorsInv, Next PROVE RowMove
<1> DEFINE Ok == RowMove
<1> SUFFICES Ok
  OBVIOUS
<1> HIDE DEF Ok
<1>t. row \in Rows /\ limbo \in Rows /\ RowShape(row) /\ RowShape(limbo) /\ RowShape(NoRow)
  BY DEF TypeOK, RowInv, RowShape, NoRow
<1>r. \A n \in Rows : /\ limbo = NoRow /\ row' = n /\ limbo' = limbo /\ RowShape(n)
                      /\ n.status = row.status \/ Edge(row.status, n.status)
                      => Ok
  BY <1>t DEF Ok, RowMove, RowInv, RowShape, Ahead
<1>p. \A n \in Rows : /\ limbo = NoRow /\ row' = row /\ limbo' \in {limbo, n} /\ RowShape(n)
                      /\ Edge(row.status, n.status)
                      /\ row.status = "none" \/ n.gen \in {row.gen, NoGen}
                      => Ok
  BY <1>t DEF Ok, RowMove, RowInv, RowShape, Ahead
<1>s. limbo = NoRow /\ row' = row /\ limbo' = limbo => Ok
  BY <1>t DEF Ok, RowMove, RowInv, RowShape, Ahead
<1>l. \A c, o : \A n \in Rows :
          /\ Lwt(c, n, o) /\ RowShape(n)
          /\ c => Edge(row.status, n.status) /\ (row.status = "none" \/ n.gen \in {row.gen, NoGen})
          => Ok
  BY <1>r, <1>p, <1>s DEF Lwt
<1>e. \A x \in Status \ {"none", "removed"} :
          row.status \notin {"none", "removed"} =>
              /\ [row EXCEPT !.status = x] \in Rows /\ [row EXCEPT !.status = x].status = x
              /\ [row EXCEPT !.status = x].gen = row.gen
              /\ RowShape([row EXCEPT !.status = x])
  BY <1>t DEF Rows, RowShape
<1>u. UNCHANGED <<row, limbo>> => Ok
  BY <1>t DEF Ok, RowMove, RowInv, RowShape, Ahead
<1>1. CASE Tick \/ Expire \/ Open \/ ClaimIndex \/ PutStart \/ PutReturn \/ PutLost \/
           JobFails \/ Recheck \/ BeatSend
  BY <1>u, <1>1 DEF Tick, Expire, Open, ClaimIndex, PutStart, PutReturn, PutLost, JobFails,
     Recheck, BeatSend, rowVars
<1>2. CASE Settle
  <2>1. CASE row' = row
    BY <1>2, <2>1, <1>t DEF Settle, Ok, RowMove, RowInv, RowShape, Ahead
  <2>2. CASE row' = limbo
    BY <1>2, <2>2, <1>t DEF Settle, Ok, RowMove, RowInv, RowShape, Ahead
  <2> QED
    BY <1>2, <2>1, <2>2 DEF Settle
<1>3. CASE ClaimBackup
  <2> DEFINE n == [status |-> "CREATING", gen |-> JobGen]
  <2>1. n \in Rows /\ RowShape(n)
        /\ (row = NoRow => Edge(row.status, n.status) /\ row.status = "none")
    BY Constants DEF Rows, RowShape, Edge, Status, JobGen, NoGen, NoRow
  <2> HIDE DEF n
  <2>2. \E o : Lwt(row = NoRow, n, o)
    BY <1>3 DEF ClaimBackup, n
  <2> QED
    BY <2>1, <2>2, <1>l
<1>4. ASSUME NEW o \in Objects, Land(o) PROVE Ok
  BY <1>u, <1>4 DEF Land, rowVars
<1>5. ASSUME NEW b \in Beats, BeatApply(b) \/ BeatConfirmed(b) \/ BeatLost(b) PROVE Ok
  BY <1>u, <1>5 DEF BeatApply, BeatConfirmed, BeatLost, rowVars
<1>6. ASSUME NEW a \in Actors, Reread(a) \/ MoveStatus(a) \/ ListPrefix(a) \/
             DeleteObject(a) \/ StatusError(a) \/ StoreError(a) \/ Crash(a)
      PROVE  Ok
  BY <1>u, <1>6 DEF Reread, MoveStatus, ListPrefix, DeleteObject, StatusError, StoreError, Crash,
     rowVars
<1>7. ASSUME NEW a \in Actors, SetStatus(a) PROVE Ok
  <2> DEFINE n == [row EXCEPT !.status = act[a].want]
  <2>1. act[a].want \in {"AVAILABLE", "FAILED"}
    BY <1>7 DEF SetStatus, ActorsInv, Knows, Writing
  <2>2. CASE row.status = "CREATING"
    <3>1. n \in Rows /\ RowShape(n) /\ Edge(row.status, n.status) /\ n.gen = row.gen
      BY <2>1, <2>2, <1>e DEF Edge, Status
    <3> HIDE DEF n
    <3>2. \E o : Lwt(SetStatusIf(a), n, o)
      BY <1>7 DEF SetStatus, n
    <3> QED
      BY <3>1, <3>2, <1>l
  <2>3. CASE row.status # "CREATING"
    BY <1>7, <2>3, <1>s DEF SetStatus, SetStatusIf, Lwt
  <2> QED
    BY <2>2, <2>3
<1>8. ASSUME NEW a \in Actors \ {"job"}, DeleteManifest(a) \/ ListAfterDelete(a) \/
             MoveDeleted(a)
      PROVE  Ok
  BY <1>u, <1>8 DEF DeleteManifest, ListAfterDelete, MoveDeleted, rowVars
<1>9. ASSUME NEW a \in Actors \ {"job"}, SetDeleted(a) PROVE Ok
  <2> DEFINE n == [row EXCEPT !.status = "DELETED"]
  <2>1. CASE row.status = "DELETING"
    <3>1. n \in Rows /\ RowShape(n) /\ Edge(row.status, n.status) /\ n.gen = row.gen
      BY <2>1, <1>e DEF Edge, Status
    <3> HIDE DEF n
    <3> QED
      BY <1>9, <3>1, <1>l DEF SetDeleted, n
  <2>2. CASE row.status # "DELETING"
    BY <1>9, <2>2, <1>s, <1>t DEF SetDeleted, Lwt
  <2> QED
    BY <2>1, <2>2
<1>10. ASSUME NEW c \in Clients, DeleteBackup(c) \/ MoveDeleting(c) PROVE Ok
  BY <1>u, <1>10 DEF DeleteBackup, MoveDeleting, rowVars
<1>11. ASSUME NEW c \in Clients, StartDelete(c) PROVE Ok
  <2> DEFINE n == [row EXCEPT !.status = "DELETING"]
  <2>1. CASE row.status = "AVAILABLE"
    <3>1. n \in Rows /\ RowShape(n) /\ Edge(row.status, n.status) /\ n.gen = row.gen
      BY <2>1, <1>e DEF Edge, Status
    <3> HIDE DEF n
    <3> QED
      BY <1>11, <3>1, <1>l DEF StartDelete, n
  <2>2. CASE row.status # "AVAILABLE"
    BY <1>11, <2>2, <1>s, <1>t DEF StartDelete, Lwt
  <2> QED
    BY <2>1, <2>2
<1>12. ASSUME NEW r \in Reconcilers, FindDead(r) \/ ProbeManifest(r) \/ ProbeFiles(r) \/
             FinishDeleting(r) \/ SweepPrefix(r) \/ FindTombstone(r) \/ RemoveEntries(r)
      PROVE  Ok
  BY <1>u, <1>12 DEF FindDead, ProbeManifest, ProbeFiles, FinishDeleting, SweepPrefix,
     FindTombstone, RemoveEntries, rowVars
<1>13. ASSUME NEW r \in Reconcilers, TakeOver(r) PROVE Ok
  <2>1. CASE row.status = "CREATING" /\ takes < MaxTakes /\ row' = [row EXCEPT !.gen = takes + 1]
    <3>1. takes + 1 \in NoGen .. MaxTakes /\ takes + 1 # NoGen
      <4>1. takes \in 0 .. MaxTakes
        BY DEF TypeOK
      <4> QED
        BY <4>1, <2>1, Constants DEF NoGen
    <3>2. row' \in Rows /\ row'.status = row.status /\ RowShape(row')
      BY <2>1, <3>1, <1>t DEF Rows, RowShape
    <3>3. limbo = NoRow /\ limbo' = limbo
      BY <1>13 DEF TakeOver
    <3> QED
      BY <3>2, <3>3, <1>r
  <2>2. CASE row' = row
    BY <1>13, <2>2, <1>s DEF TakeOver
  <2> QED
    BY <1>13, <2>1, <2>2 DEF TakeOver
<1>14. ASSUME NEW r \in Reconcilers, RemoveRow(r) PROVE Ok
  <2> DEFINE n == [status |-> "removed", gen |-> NoGen]
  <2>1. act[r].want \in {"FAILED", "DELETED"}
    BY <1>14, Constants DEF RemoveRow, ActorsInv, Knows
  <2>2. n \in Rows /\ RowShape(n) /\ n.gen = NoGen
        /\ (row.status = act[r].want => Edge(row.status, n.status))
    BY <2>1, Constants DEF Rows, RowShape, Edge, Status, NoGen
  <2> HIDE DEF n
  <2>3. \E o : Lwt(row.status = act[r].want, n, o)
    BY <1>14 DEF RemoveRow, n
  <2> QED
    BY <2>2, <2>3, <1>l
<1> QED
  BY Constants, <1>1, <1>2, <1>3, <1>4, <1>5, <1>6, <1>7, <1>8, <1>9, <1>10, <1>11, <1>12, <1>13,
     <1>14 DEF Next, JobStep, TimerStep, ClientStep, ReconcilerStep, Works, Finishes, Beats

-----------------------------------------------------------------------------
(* The store: a put lands or is dropped, the job sends a put, or somebody   *)
(* deletes, from a prefix whose row has left CREATING and AVAILABLE.        *)

Lands ==
    \E o \in flight :
        /\ flight' = flight \ {o} /\ obj' \in {obj, obj \cup {o}} /\ UNCHANGED <<row, limbo, act>>
        /\ act["job"].pc = "wait" /\ act["job"].next = o => o \in obj'
Sends ==
    /\ act["job"].pc = "put" /\ act'["job"].pc = "wait" /\ act'["job"].next = act["job"].next
    /\ flight' = flight \cup {act["job"].next} /\ UNCHANGED <<row, limbo, obj>>
Deletes ==
    /\ row.status \in Gone /\ obj' \subseteq obj /\ UNCHANGED <<row, limbo, flight>>
    /\ row.status = "DELETING" => Manifest \notin obj'
StoreEffect == UNCHANGED <<obj, flight>> \/ Lands \/ Sends \/ Deletes

LEMMA StoreMove == ASSUME TypeOK, ActorsInv, Next PROVE StoreEffect
<1> DEFINE Ok == StoreEffect
<1> SUFFICES Ok
  OBVIOUS
<1> HIDE DEF Ok
<1>d. \A a \in Actors :
          /\ act[a].pc \in {"manifest", "sweep"} => row.status \in Gone
          /\ act[a].pc = "sweep" /\ row.status = "DELETING" => Manifest \notin obj
  BY DEF ActorsInv, Knows, Erasing
<1>l. Lands \/ Sends \/ Deletes => Ok
  BY DEF Ok, StoreEffect
<1>u. UNCHANGED <<obj, flight>> => Ok
  BY DEF Ok, StoreEffect
<1>1. CASE Tick \/ Settle \/ Expire \/ Open \/ ClaimBackup \/ ClaimIndex \/ PutReturn \/
           PutLost \/ JobFails \/ Recheck \/ BeatSend
  BY <1>u, <1>1 DEF Tick, Settle, Expire, Open, ClaimBackup, ClaimIndex, PutReturn, PutLost,
     JobFails, Recheck, BeatSend, rowVars
<1>2. CASE PutStart
  <2>1. CASE flight' = flight
    BY <1>2, <2>1, <1>u DEF PutStart
  <2>2. CASE Go("job", "wait") /\ flight' = flight \cup {act["job"].next}
    <3>1. act'["job"].pc = "wait" /\ act'["job"].next = act["job"].next
      BY <2>2, ActType, Constants DEF Go, Actor
    <3>2. Sends
      BY <1>2, <2>2, <3>1 DEF PutStart, Sends, rowVars
    <3> QED
      BY <3>2, <1>l
  <2> QED
    BY <1>2, <2>1, <2>2 DEF PutStart
<1>3. ASSUME NEW o \in Objects, Land(o) PROVE Ok
  <2>1. Lands
    BY <1>3 DEF Land, Lands, rowVars
  <2> QED
    BY <2>1, <1>l
<1>4. ASSUME NEW b \in Beats, BeatApply(b) \/ BeatConfirmed(b) \/ BeatLost(b) PROVE Ok
  BY <1>u, <1>4 DEF BeatApply, BeatConfirmed, BeatLost, rowVars
<1>5. ASSUME NEW a \in Actors, SetStatus(a) \/ Reread(a) \/ MoveStatus(a) \/ ListPrefix(a)
             \/ StatusError(a) \/ StoreError(a) \/ Crash(a)
      PROVE  Ok
  BY <1>u, <1>5 DEF SetStatus, Reread, MoveStatus, ListPrefix, StatusError, StoreError, Crash,
     rowVars
<1>6. ASSUME NEW a \in Actors, DeleteObject(a) PROVE Ok
  <2>1. obj' \subseteq obj /\ UNCHANGED <<row, limbo, flight>>
    BY <1>6 DEF DeleteObject, rowVars
  <2>2. row.status \in Gone /\ (row.status = "DELETING" => Manifest \notin obj')
    BY <1>6, <2>1, <1>d DEF DeleteObject
  <2> QED
    BY <2>1, <2>2, <1>l DEF Deletes
<1>7. ASSUME NEW a \in Actors \ {"job"}, ListAfterDelete(a) \/ SetDeleted(a) \/
             MoveDeleted(a)
      PROVE  Ok
  BY <1>u, <1>7 DEF ListAfterDelete, SetDeleted, MoveDeleted, rowVars
<1>8. ASSUME NEW a \in Actors \ {"job"}, DeleteManifest(a) PROVE Ok
  <2>1. obj' \subseteq obj /\ UNCHANGED <<row, limbo, flight>>
    BY <1>8 DEF DeleteManifest, rowVars
  <2>2. row.status \in Gone /\ (row.status = "DELETING" => Manifest \notin obj')
    BY <1>8, <2>1, <1>d DEF DeleteManifest
  <2> QED
    BY <2>1, <2>2, <1>l DEF Deletes
<1>9. ASSUME NEW c \in Clients, DeleteBackup(c) \/ StartDelete(c) \/ MoveDeleting(c) PROVE Ok
  BY <1>u, <1>9 DEF DeleteBackup, StartDelete, MoveDeleting, rowVars
<1>10. ASSUME NEW r \in Reconcilers, FindDead(r) \/ TakeOver(r) \/ ProbeManifest(r) \/
             ProbeFiles(r) \/ FinishDeleting(r) \/ SweepPrefix(r) \/ FindTombstone(r) \/
             RemoveRow(r) \/ RemoveEntries(r)
      PROVE  Ok
  BY <1>u, <1>10 DEF FindDead, TakeOver, ProbeManifest, ProbeFiles, FinishDeleting, SweepPrefix,
     FindTombstone, RemoveRow, RemoveEntries, rowVars
<1> QED
  BY Constants, <1>1, <1>2, <1>3, <1>4, <1>5, <1>6, <1>7, <1>8, <1>9, <1>10 DEF Next, JobStep,
     TimerStep, ClientStep, ReconcilerStep, Works, Finishes, Beats

Grown ==
    /\ row.status \in {"none", "CREATING", "AVAILABLE"} => obj \subseteq obj'
    /\ obj' \subseteq obj \cup flight

LEMMA StoreGrows == ASSUME StoreEffect PROVE Grown
BY DEF StoreEffect, Lands, Sends, Deletes, Grown, Gone

(* What an actor knows stays true.                                          *)
Keeps == \A p, w : Knows(p, w) => Knows(p, w)'

LEMMA KnowsKept == ASSUME TypeOK, TypeOK', StoreInv, Ahead, Grown PROVE Keeps
<1> SUFFICES ASSUME NEW p, NEW w, Knows(p, w) PROVE Knows(p, w)'
  BY DEF Keeps
<1>1. p \notin Rest => row.status # "none" /\ row'.status # "none"
  BY DEF Knows, Ahead, Edge
<1>2. p \in {"write", "reread"} => Writing(w)'
  <2> SUFFICES ASSUME p \in {"write", "reread"}, w = "AVAILABLE", row'.status = "CREATING"
               PROVE  obj' = Objects
    BY DEF Knows, Writing
  <2>1. row.status = "CREATING"
    BY <1>1 DEF Ahead, Edge, Rest
  <2> QED
    BY <2>1 DEF Knows, Writing, Grown, TypeOK
<1>3. p = "move" => Moving(w)'
  BY DEF Knows, Moving, Ahead, Edge, Kept, Failed
<1>4. p \in Erasing => row'.status \in Gone
  BY DEF Knows, Ahead, Edge, Gone
<1>5. p \in {"prefix", "sweep"} /\ row'.status = "DELETING" => Manifest \notin obj'
  <2> SUFFICES ASSUME p \in {"prefix", "sweep"}, row'.status = "DELETING" PROVE Manifest \notin obj'
    OBVIOUS
  <2>1. row.status = "DELETING"
    BY DEF Knows, Ahead, Edge, Gone, Erasing
  <2> QED
    BY <2>1 DEF Knows, Grown, StoreInv, Whole
<1> QED
  BY <1>1, <1>2, <1>3, <1>4, <1>5 DEF Knows

-----------------------------------------------------------------------------
(* What the actors know.                                                    *)

LEMMA ActorsStep == ASSUME TypeOK, RowInv, ActorsInv, JobInv, StoreInv, Next PROVE ActorsInv'
<1> DEFINE Ok == ActorsInv'
<1> SUFFICES Ok
  OBVIOUS
<1> HIDE DEF Ok
<1>t. act \in [Actors -> Actor] /\ \A a \in Actors : act[a] \in Actor
  BY ActType
<1>e. \A a \in Actors : \A p :
          Go(a, p) => /\ act'[a].pc = p /\ act'[a].want = act[a].want
                      /\ \A y \in Actors \ {a} : act'[y] = act[y]
  BY <1>t DEF Go, Actor
<1>k. \A a \in Actors : Knows(act[a].pc, act[a].want)
  BY DEF ActorsInv
<1>a. row'.status = row.status \/ Edge(row.status, row'.status)
  BY RowStep DEF RowMove, Ahead
<1>v. Keeps
  BY TypeStep, RowStep, StoreMove, StoreGrows, KnowsKept DEF RowMove
<1>x. \A a \in Actors : \A p, w : p = act[a].pc /\ w = act[a].want => Knows(p, w)'
  BY <1>k, <1>v DEF Keeps
<1>j. (\A a \in Actors : \E p, w : p = act'[a].pc /\ w = act'[a].want /\ Knows(p, w)') => Ok
  BY DEF Ok, ActorsInv, Knows, Writing, Moving
<1>h. \A a \in Actors : \A p, w :
          /\ act'[a].pc = p /\ act'[a].want = w /\ Knows(p, w)'
          /\ \A y \in Actors \ {a} : act'[y].pc = act[y].pc /\ act'[y].want = act[y].want
          => Ok
  BY <1>j, <1>x
<1>u. (\A y \in Actors : act'[y].pc = act[y].pc /\ act'[y].want = act[y].want) => Ok
  BY <1>j, <1>x
<1>w. \A a \in Actors : \A p, w :
          act' = [act EXCEPT ![a].pc = p, ![a].want = w] /\ Knows(p, w)' => Ok
  <2> SUFFICES ASSUME NEW a \in Actors, NEW p, NEW w,
                      act' = [act EXCEPT ![a].pc = p, ![a].want = w], Knows(p, w)'
               PROVE  Ok
    OBVIOUS
  <2>1. act'[a].pc = p /\ act'[a].want = w /\ \A y \in Actors \ {a} : act'[y] = act[y]
    BY <1>t DEF Actor
  <2> QED
    BY <2>1, <1>h
<1>g. \A a \in Actors : \A p, w :
          act' = [act EXCEPT ![a].pc = p] /\ w = act[a].want /\ Knows(p, w)' => Ok
  <2> SUFFICES ASSUME NEW a \in Actors, NEW p, NEW w,
                      act' = [act EXCEPT ![a].pc = p], w = act[a].want, Knows(p, w)'
               PROVE  Ok
    OBVIOUS
  <2>1. act'[a].pc = p /\ act'[a].want = w /\ \A y \in Actors \ {a} : act'[y] = act[y]
    BY <1>t DEF Actor
  <2> QED
    BY <2>1, <1>h
<1>o. \A a \in Actors : Over(a) => Ok
  <2> SUFFICES ASSUME NEW a \in Actors, Over(a) PROVE Ok
    OBVIOUS
  <2>1. /\ act'[a].pc \in {"idle", "done"} /\ act'[a].want = "none"
        /\ \A y \in Actors \ {a} : act'[y] = act[y]
    BY <1>t DEF Over, At
  <2>2. Knows("idle", "none")' /\ Knows("done", "none")'
    BY DEF Knows, Rest, Erasing
  <2> QED
    BY <2>1, <2>2, <1>h
<1>1. CASE Tick \/ Settle \/ Expire \/ BeatSend
  BY <1>u, <1>1 DEF Tick, Settle, Expire, BeatSend
<1>2. CASE Open
  <2>1. \A w : w = act["job"].want => Knows("insert", w)'
    BY <1>2, <1>k, <1>x, <1>a, Constants DEF Open, Edge, Rest, Erasing, Gone, Knows
  <2> QED
    BY <1>2, <2>1, <1>g, <1>o, Constants DEF Open, Go
<1>3. CASE ClaimBackup
  <2>1. \/ /\ act'["job"].pc = "index" /\ act'["job"].want = act["job"].want
           /\ row'.status = "CREATING"
           /\ \A y \in Actors \ {"job"} : act'[y] = act[y]
        \/ Over("job")
    BY <1>3, <1>t, Constants DEF ClaimBackup, Go, Actor, Lwt
  <2>2. row'.status = "CREATING" => (\A w : w = act["job"].want => Knows("index", w)')
    BY <1>3, <1>k, <1>x, <1>a, Constants DEF ClaimBackup, Edge, Rest, Erasing, Gone, Writing, Knows
  <2> QED
    BY <2>1, <2>2, <1>h, <1>o, Constants
<1>4. CASE ClaimIndex
  <2>1. \A w : w = act["job"].want => Knows("put", w)'
    BY <1>4, <1>k, <1>x, <1>a, Constants DEF ClaimIndex, Edge, Rest, Erasing, Gone, Knows
  <2> QED
    BY <1>4, <2>1, <1>g, <1>o, Constants DEF ClaimIndex, Go
<1>5. CASE PutStart
  <2>1. \A w : w = act["job"].want => Knows("wait", w)'
    BY <1>5, <1>k, <1>x, <1>a, Constants DEF PutStart, Edge, Rest, Erasing, Gone, Knows
  <2> QED
    BY <1>5, <2>1, <1>g, <1>o, Constants DEF PutStart, Go
<1>6. CASE PutReturn
  <2>1. \/ /\ act'["job"].pc = "write" /\ act'["job"].want = "AVAILABLE"
           /\ act["job"].next = Manifest
           /\ \A y \in Actors \ {"job"} : act'[y] = act[y]
        \/ /\ act'["job"].pc = "recheck" /\ act'["job"].want = act["job"].want
           /\ \A y \in Actors \ {"job"} : act'[y] = act[y]
        \/ /\ act'["job"].pc = "put" /\ act'["job"].want = act["job"].want
           /\ \A y \in Actors \ {"job"} : act'[y] = act[y]
    BY <1>6, <1>t, Constants DEF PutReturn, Go, Actor
  <2>2. act["job"].next = Manifest => (Knows("write", "AVAILABLE")')
    <3>1. /\ act["job"].pc = "wait" /\ act["job"].next \notin flight /\ UNCHANGED <<row, obj>>
          /\ row.status # "none"
      BY <1>6, <1>k, Constants DEF PutReturn, rowVars, Knows, Rest
    <3>2. row.status = "CREATING" /\ act["job"].next = Manifest => obj = Objects
      <4>1. obj \subseteq Objects
        BY DEF TypeOK
      <4>2. row.status = "CREATING" => 1 .. act["job"].next - 1 \subseteq obj /\ act["job"].next \in obj
        BY <3>1 DEF JobInv, Puts
      <4>3. Objects = (1 .. Manifest - 1) \cup {Manifest}
        BY Constants
      <4> QED
        BY <4>1, <4>2, <4>3
    <3> QED
      BY <3>1, <3>2 DEF Knows, Writing, Rest, Erasing
  <2>3. \A w : w = act["job"].want => Knows("recheck", w)'
    BY <1>6, <1>k, <1>x, <1>a, Constants DEF PutReturn, Edge, Rest, Erasing, Gone, Writing, Knows,
       JobInv, Puts, rowVars
  <2>4. \A w : w = act["job"].want => Knows("put", w)'
    BY <1>6, <1>k, <1>x, <1>a, Constants DEF PutReturn, Edge, Rest, Erasing, Gone, Writing, Knows,
       JobInv, Puts, rowVars
  <2> QED
    BY <2>1, <2>2, <2>3, <2>4, <1>h, <1>o, Constants
<1>7. CASE PutLost
  BY <1>7, <1>o, Constants DEF PutLost
<1>8. CASE JobFails
  <2>1. /\ act'["job"].pc = "write" /\ act'["job"].want = "FAILED"
        /\ \A y \in Actors \ {"job"} : act'[y] = act[y]
    BY <1>8, <1>t, Constants DEF JobFails, Go, Actor
  <2>2. Knows("write", "FAILED")'
    BY <1>8, <1>k, <1>x, <1>a, Constants DEF JobFails, Edge, Rest, Erasing, Gone, Writing, Knows
  <2> QED
    BY <2>1, <2>2, <1>h, <1>o, Constants
<1>9. CASE Recheck
  <2>1. \A w : w = act["job"].want => Knows("rechecking", w)'
    BY <1>9, <1>k, <1>x, <1>a, Constants DEF Recheck, Edge, Rest, Erasing, Gone, Knows
  <2> QED
    BY <1>9, <2>1, <1>g, <1>o, Constants DEF Recheck, Go
<1>10. ASSUME NEW o \in Objects, Land(o) PROVE Ok
  BY <1>u, <1>10 DEF Land
<1>11. ASSUME NEW b \in Beats, BeatApply(b) PROVE Ok
  <2>1. \A y \in Actors : act'[y].pc = act[y].pc /\ act'[y].want = act[y].want
    BY <1>11, <1>t DEF BeatApply, Actor
  <2> QED
    BY <2>1, <1>u
<1>12. ASSUME NEW b \in Beats, BeatConfirmed(b) PROVE Ok
  <2>1. CASE b = "timer"
    BY <1>12, <2>1, <1>u DEF BeatConfirmed
  <2>2. CASE b # "timer"
    <3>1. act' = [act EXCEPT !["job"].pc = "put"] /\ act["job"].pc = "rechecking"
      BY <1>12, <2>2 DEF BeatConfirmed, Awaits
    <3>2. \A w : w = act["job"].want => Knows("put", w)'
      BY <3>1, <1>x, Constants DEF Rest, Erasing, Knows
    <3> QED
      BY <3>1, <3>2, <1>g, Constants
  <2> QED
    BY <2>1, <2>2
<1>13. ASSUME NEW b \in Beats, BeatLost(b) PROVE Ok
  BY <1>13, <1>o, <1>u, Constants DEF BeatLost
<1>14. ASSUME NEW a \in Actors, StoreError(a) \/ Crash(a) PROVE Ok
  BY <1>o, Constants, <1>14 DEF StoreError, Crash
<1>15. ASSUME NEW a \in Actors, SetStatus(a) PROVE Ok
  <2>0. PICK o : /\ o = "matched" => /\ row.status = "CREATING"
                                     /\ row' = [row EXCEPT !.status = act[a].want]
                 /\ o # "matched" => row' = row
                 /\ IF o = "not" THEN Written(a, FALSE)
                    ELSE Go(a, IF o = "matched" THEN "move" ELSE "reread")
    BY <1>15 DEF SetStatus, Lwt, SetStatusIf
  <2>s. o = "matched" => row'.status = act[a].want
    BY <2>0 DEF TypeOK, Rows
  <2>1. \/ /\ act'[a].pc = "move" /\ act'[a].want = act[a].want
           /\ row.status = "CREATING" /\ row'.status = act[a].want
           /\ \A y \in Actors \ {a} : act'[y] = act[y]
        \/ /\ act'[a].pc = "reread" /\ act'[a].want = act[a].want
           /\ row' = row
           /\ \A y \in Actors \ {a} : act'[y] = act[y]
        \/ Over(a)
    BY <2>0, <2>s, <1>e, Constants DEF Written, CleansUp
  <2>2. row.status = "CREATING" /\ row'.status = act[a].want
            => (\A w : w = act[a].want => Knows("move", w)')
    BY <1>15, <1>k, <1>x, <1>a, Constants DEF SetStatus, Edge, Rest, Erasing, Gone, Writing, Knows,
       Moving, Failed, Kept
  <2>3. row' = row => (\A w : w = act[a].want => Knows("reread", w)')
    BY <1>15, <1>k, <1>x, <1>a, Constants DEF SetStatus, Edge, Rest, Erasing, Gone, Writing, Knows,
       Moving, Failed, Kept
  <2> QED
    BY <2>1, <2>2, <2>3, <1>h, <1>o, Constants
<1>16. ASSUME NEW a \in Actors, Reread(a) PROVE Ok
  <2>1. \/ /\ act'[a].pc = "write" /\ act'[a].want = act[a].want
           /\ \A y \in Actors \ {a} : act'[y] = act[y]
        \/ /\ act'[a].pc = "prefix" /\ act'[a].want = act[a].want
           /\ row.status = "FAILED"
           /\ \A y \in Actors \ {a} : act'[y] = act[y]
        \/ Over(a)
    BY <1>16, <1>t, Constants DEF Reread, Go, Actor, Written, CleansUp
  <2>2. \A w : w = act[a].want => Knows("write", w)'
    BY <1>16, <1>k, <1>x, <1>a, Constants DEF Reread, Edge, Rest, Erasing, Gone, Writing, Knows,
       rowVars
  <2>3. row.status = "FAILED" => (\A w : w = act[a].want => Knows("prefix", w)')
    BY <1>16, <1>k, <1>x, <1>a, Constants DEF Reread, Edge, Rest, Erasing, Gone, Writing, Knows,
       rowVars
  <2> QED
    BY <2>1, <2>2, <2>3, <1>h, <1>o, Constants
<1>17. ASSUME NEW a \in Actors, MoveStatus(a) PROVE Ok
  <2>1. \/ /\ act'[a].pc = "prefix" /\ act'[a].want = act[a].want
           /\ act[a].want = "FAILED"
           /\ \A y \in Actors \ {a} : act'[y] = act[y]
        \/ Over(a)
    BY <1>17, <1>t, Constants DEF MoveStatus, Go, Actor, Written, CleansUp
  <2>2. act[a].want = "FAILED" => (\A w : w = act[a].want => Knows("prefix", w)')
    BY <1>17, <1>k, <1>x, <1>a, Constants DEF MoveStatus, Edge, Rest, Erasing, Gone, Writing, Knows,
       Moving, Failed, rowVars
  <2> QED
    BY <2>1, <2>2, <1>h, <1>o, Constants
<1>18. ASSUME NEW a \in Actors, ListPrefix(a) PROVE Ok
  <2>1. /\ act'[a].pc = "sweep" /\ act'[a].want = act[a].want
        /\ \A y \in Actors \ {a} : act'[y] = act[y]
    BY <1>18, <1>t, Constants DEF ListPrefix, Go, Actor
  <2>2. \A w : w = act[a].want => Knows("sweep", w)'
    BY <1>18, <1>k, <1>x, <1>a, Constants DEF ListPrefix, Edge, Rest, Erasing, Gone, Writing, Knows
  <2> QED
    BY <2>1, <2>2, <1>h, <1>o, Constants
<1>19. ASSUME NEW a \in Actors, DeleteObject(a) PROVE Ok
  <2>1. \/ /\ act'[a].pc = "list" /\ act'[a].want = act[a].want
           /\ \A y \in Actors \ {a} : act'[y] = act[y]
        \/ /\ act'[a].pc = "sweep" /\ act'[a].want = act[a].want
           /\ \A y \in Actors \ {a} : act'[y] = act[y]
        \/ Over(a)
    BY <1>19, <1>t, Constants DEF DeleteObject, Go, Actor
  <2>2. \A w : w = act[a].want => Knows("list", w)'
    BY <1>19, <1>k, <1>x, <1>a, Constants DEF DeleteObject, Edge, Rest, Erasing, Gone, Writing, Knows
  <2>3. \A w : w = act[a].want => Knows("sweep", w)'
    BY <1>19, <1>k, <1>x, <1>a, Constants DEF DeleteObject, Edge, Rest, Erasing, Gone, Writing, Knows
  <2> QED
    BY <2>1, <2>2, <2>3, <1>h, <1>o, Constants
<1>20. ASSUME NEW a \in Actors, StatusError(a) PROVE Ok
  BY <1>20, <1>o DEF StatusError, Written, CleansUp
<1>21. ASSUME NEW a \in Actors \ {"job"}, MoveDeleted(a) PROVE Ok
  BY <1>o, Constants, <1>21 DEF MoveDeleted
<1>22. ASSUME NEW a \in Actors \ {"job"}, DeleteManifest(a) PROVE Ok
  <2>1. /\ act'[a].pc = "prefix" /\ act'[a].want = "DELETED"
        /\ \A y \in Actors \ {a} : act'[y] = act[y]
    BY <1>22, <1>t, Constants DEF DeleteManifest, Go, Actor
  <2>2. Knows("prefix", "DELETED")'
    BY <1>22, <1>k, <1>x, <1>a, Constants DEF DeleteManifest, Edge, Rest, Erasing, Gone, Writing,
       Knows
  <2> QED
    BY <2>1, <2>2, <1>h, <1>o, Constants
<1>23. ASSUME NEW a \in Actors \ {"job"}, ListAfterDelete(a) PROVE Ok
  <2>1. \A w : w = act[a].want => Knows("settle", w)'
    BY <1>23, <1>k, <1>x, <1>a, Constants DEF ListAfterDelete, Edge, Rest, Erasing, Gone, Knows
  <2> QED
    BY <1>23, <2>1, <1>g, <1>o, Constants DEF ListAfterDelete, Go
<1>24. ASSUME NEW a \in Actors \ {"job"}, SetDeleted(a) PROVE Ok
  <2>0. PICK o : /\ o = "matched" => row.status = "DELETING" /\ row' = [row EXCEPT !.status = "DELETED"]
                 /\ o # "matched" => row' = row
                 /\ IF o = "matched" THEN Go(a, "settled") ELSE Over(a)
    BY <1>24 DEF SetDeleted, Lwt
  <2>s. o = "matched" => row'.status = "DELETED"
    BY <2>0 DEF TypeOK, Rows
  <2>1. \/ /\ act'[a].pc = "settled" /\ act'[a].want = act[a].want
           /\ row'.status = "DELETED"
           /\ \A y \in Actors \ {a} : act'[y] = act[y]
        \/ Over(a)
    BY <2>0, <2>s, <1>e, Constants
  <2>2. row'.status = "DELETED" => (\A w : w = act[a].want => Knows("settled", w)')
    BY <1>24, <1>k, <1>x, <1>a, Constants DEF SetDeleted, Edge, Rest, Erasing, Gone, Writing, Knows
  <2> QED
    BY <2>1, <2>2, <1>h, <1>o, Constants
<1>25. ASSUME NEW c \in Clients, DeleteBackup(c) PROVE Ok
  <2>1. \/ /\ act'[c].pc = "mark" /\ act'[c].want = act[c].want
           /\ row.status = "AVAILABLE"
           /\ \A y \in Actors \ {c} : act'[y] = act[y]
        \/ /\ act'[c].pc = "manifest" /\ act'[c].want = act[c].want
           /\ row.status = "DELETING"
           /\ \A y \in Actors \ {c} : act'[y] = act[y]
    BY <1>25, <1>t, Constants DEF DeleteBackup, Go, Actor
  <2>2. row.status = "AVAILABLE" => (\A w : w = act[c].want => Knows("mark", w)')
    BY <1>25, <1>k, <1>x, <1>a, Constants DEF DeleteBackup, Edge, Rest, Erasing, Gone, Writing,
       Knows, rowVars
  <2>3. row.status = "DELETING" => (\A w : w = act[c].want => Knows("manifest", w)')
    BY <1>25, <1>k, <1>x, <1>a, Constants DEF DeleteBackup, Edge, Rest, Erasing, Gone, Writing,
       Knows, rowVars
  <2> QED
    BY <2>1, <2>2, <2>3, <1>h, <1>o, Constants
<1>26. ASSUME NEW c \in Clients, StartDelete(c) PROVE Ok
  <2>0. PICK o : /\ o = "matched" => /\ row.status = "AVAILABLE"
                                     /\ row' = [row EXCEPT !.status = "DELETING"]
                 /\ o # "matched" => row' = row
                 /\ \/ o = "matched" /\ Go(c, "marked")
                    \/ o # "matched" /\ row.status = "DELETING" /\ Go(c, "manifest")
                    \/ Over(c)
    BY <1>26 DEF StartDelete, Lwt
  <2>s. o = "matched" => row'.status = "DELETING"
    BY <2>0 DEF TypeOK, Rows
  <2>1. \/ /\ act'[c].pc = "marked" /\ act'[c].want = act[c].want
           /\ row'.status = "DELETING"
           /\ \A y \in Actors \ {c} : act'[y] = act[y]
        \/ /\ act'[c].pc = "manifest" /\ act'[c].want = act[c].want
           /\ row'.status = "DELETING"
           /\ \A y \in Actors \ {c} : act'[y] = act[y]
        \/ Over(c)
    BY <2>0, <2>s, <1>e, Constants
  <2>2. row'.status = "DELETING" => (\A w : w = act[c].want => Knows("marked", w)')
    BY <1>26, <1>k, <1>x, <1>a, Constants DEF StartDelete, Edge, Rest, Erasing, Gone, Writing, Knows
  <2>3. row'.status = "DELETING" => (\A w : w = act[c].want => Knows("manifest", w)')
    BY <1>26, <1>k, <1>x, <1>a, Constants DEF StartDelete, Edge, Rest, Erasing, Gone, Writing, Knows
  <2> QED
    BY <2>1, <2>2, <2>3, <1>h, <1>o, Constants
<1>27. ASSUME NEW c \in Clients, MoveDeleting(c) PROVE Ok
  <2>1. \A w : w = act[c].want => Knows("manifest", w)'
    BY <1>27, <1>k, <1>x, <1>a, Constants DEF MoveDeleting, Edge, Rest, Erasing, Gone, Knows
  <2> QED
    BY <1>27, <2>1, <1>g, <1>o, Constants DEF MoveDeleting, Go
<1>28. ASSUME NEW r \in Reconcilers, RemoveEntries(r) PROVE Ok
  BY <1>o, Constants, <1>28 DEF RemoveEntries
<1>29. ASSUME NEW r \in Reconcilers, FindDead(r) PROVE Ok
  <2>1. /\ act'[r].pc = "take" /\ act'[r].want = act[r].want
        /\ row.status = "CREATING"
        /\ \A y \in Actors \ {r} : act'[y] = act[y]
    BY <1>29, <1>t, Constants DEF FindDead, Go, Actor, Listed
  <2>2. row.status = "CREATING" => (\A w : w = act[r].want => Knows("take", w)')
    BY <1>29, <1>k, <1>x, <1>a, Constants DEF FindDead, Edge, Rest, Erasing, Gone, Writing, Knows,
       rowVars
  <2> QED
    BY <2>1, <2>2, <1>h, <1>o, Constants
<1>30. ASSUME NEW r \in Reconcilers, TakeOver(r) PROVE Ok
  <2>1. \/ /\ act'[r].pc = "probe" /\ act'[r].want = act[r].want
           /\ \A y \in Actors \ {r} : act'[y] = act[y]
        \/ Over(r)
    BY <1>30, <1>t, Constants DEF TakeOver, Go, Actor
  <2>2. \A w : w = act[r].want => Knows("probe", w)'
    BY <1>30, <1>k, <1>x, <1>a, Constants DEF TakeOver, Edge, Rest, Erasing, Gone, Writing, Knows
  <2> QED
    BY <2>1, <2>2, <1>h, <1>o, Constants
<1>31. ASSUME NEW r \in Reconcilers, ProbeManifest(r) PROVE Ok
  <2>1. \/ /\ act'[r].pc = "verify" /\ act'[r].want = act[r].want
           /\ \A y \in Actors \ {r} : act'[y] = act[y]
        \/ /\ act'[r].pc = "write" /\ act'[r].want = "FAILED"
           /\ \A y \in Actors \ {r} : act'[y] = act[y]
    BY <1>31, <1>t, Constants DEF ProbeManifest, Go, Actor, ReconcilerWrites
  <2>2. \A w : w = act[r].want => Knows("verify", w)'
    BY <1>31, <1>k, <1>x, <1>a, Constants DEF ProbeManifest, Edge, Rest, Erasing, Gone, Writing,
       Knows
  <2>3. Knows("write", "FAILED")'
    BY <1>31, <1>k, <1>x, <1>a, Constants DEF ProbeManifest, Edge, Rest, Erasing, Gone, Writing,
       Knows
  <2> QED
    BY <2>1, <2>2, <2>3, <1>h, <1>o, Constants
<1>32. ASSUME NEW r \in Reconcilers, ProbeFiles(r) PROVE Ok
  <2>1. \/ /\ act'[r].pc = "write" /\ act'[r].want = "AVAILABLE"
           /\ obj = Objects
           /\ \A y \in Actors \ {r} : act'[y] = act[y]
        \/ /\ act'[r].pc = "write" /\ act'[r].want = "FAILED"
           /\ \A y \in Actors \ {r} : act'[y] = act[y]
    BY <1>32, <1>t, Constants DEF ProbeFiles, Go, Actor, ReconcilerWrites
  <2>2. obj = Objects => (Knows("write", "AVAILABLE")')
    BY <1>32, <1>k, <1>x, <1>a, Constants DEF ProbeFiles, Edge, Rest, Erasing, Gone, Writing, Knows
  <2>3. Knows("write", "FAILED")'
    BY <1>32, <1>k, <1>x, <1>a, Constants DEF ProbeFiles, Edge, Rest, Erasing, Gone, Writing, Knows
  <2> QED
    BY <2>1, <2>2, <2>3, <1>h, <1>o, Constants
<1>33. ASSUME NEW r \in Reconcilers, FinishDeleting(r) PROVE Ok
  <2>1. \A w : w = act[r].want => Knows("manifest", w)'
    BY <1>33, <1>k, <1>x, <1>a, Constants DEF FinishDeleting, Listed, Edge, Rest, Erasing, Gone,
       Knows
  <2> QED
    BY <1>33, <2>1, <1>g, <1>o, Constants DEF FinishDeleting, Go
<1>34. ASSUME NEW r \in Reconcilers, SweepPrefix(r) PROVE Ok
  <2>1. \A w : w = act[r].want => Knows("prefix", w)'
    BY <1>34, <1>k, <1>x, <1>a, Constants DEF SweepPrefix, Listed, rowVars, Edge, Rest, Erasing,
       Gone, Knows
  <2> QED
    BY <1>34, <2>1, <1>g, <1>o, Constants DEF SweepPrefix, Go
<1>35. ASSUME NEW r \in Reconcilers, FindTombstone(r) PROVE Ok
  <2>1. \/ /\ act'[r].pc = "remove" /\ act'[r].want = "FAILED"
           /\ row.status = "FAILED"
           /\ \A y \in Actors \ {r} : act'[y] = act[y]
        \/ /\ act'[r].pc = "remove" /\ act'[r].want = "DELETED"
           /\ row.status = "DELETED"
           /\ \A y \in Actors \ {r} : act'[y] = act[y]
    BY <1>35, <1>t, Constants DEF FindTombstone, Go, Actor, Listed
  <2>2. row.status = "FAILED" => (Knows("remove", "FAILED")')
    BY <1>35, <1>k, <1>x, <1>a, Constants DEF FindTombstone, Edge, Rest, Erasing, Gone, Writing,
       Knows, rowVars
  <2>3. row.status = "DELETED" => (Knows("remove", "DELETED")')
    BY <1>35, <1>k, <1>x, <1>a, Constants DEF FindTombstone, Edge, Rest, Erasing, Gone, Writing,
       Knows, rowVars
  <2> QED
    BY <2>1, <2>2, <2>3, <1>h, <1>o, Constants
<1>36. ASSUME NEW r \in Reconcilers, RemoveRow(r) PROVE Ok
  <2>1. \/ /\ act'[r].pc = "removed" /\ act'[r].want = act[r].want
           /\ row'.status = "removed"
           /\ \A y \in Actors \ {r} : act'[y] = act[y]
        \/ Over(r)
    BY <1>36, <1>t, Constants DEF RemoveRow, Go, Actor, Lwt
  <2>2. row'.status = "removed" => (\A w : w = act[r].want => Knows("removed", w)')
    BY <1>36, <1>k, <1>x, <1>a, Constants DEF RemoveRow, Edge, Rest, Erasing, Gone, Writing, Knows
  <2> QED
    BY <2>1, <2>2, <1>h, <1>o, Constants
<1> QED
  BY Constants, <1>1, <1>2, <1>3, <1>4, <1>5, <1>6, <1>7, <1>8, <1>9, <1>10, <1>11, <1>12, <1>13,
     <1>14, <1>15, <1>16, <1>17, <1>18, <1>19, <1>20, <1>21, <1>22, <1>23, <1>24, <1>25, <1>26,
     <1>27, <1>28, <1>29, <1>30, <1>31, <1>32, <1>33, <1>34, <1>35, <1>36 DEF Next, JobStep,
     TimerStep, ClientStep, ReconcilerStep, Works, Finishes, Beats

-----------------------------------------------------------------------------
(* Whoever decides for AVAILABLE has seen all objects.                      *)

Decided ==
    row'.status = "AVAILABLE" \/ limbo'.status = "AVAILABLE" =>
        row.status \in {"CREATING", "AVAILABLE"} /\ obj = Objects

LEMMA DecidedStep == ASSUME TypeOK, RowInv, ActorsInv, StoreInv, Next PROVE Decided
<1> DEFINE Ok == Decided
<1> SUFFICES Ok
  OBVIOUS
<1> HIDE DEF Ok
<1>t. row \in Rows /\ limbo \in Rows
  BY DEF TypeOK
<1>a. row.status = "AVAILABLE" \/ limbo.status = "AVAILABLE" =>
          row.status \in {"CREATING", "AVAILABLE"} /\ obj = Objects
  BY DEF RowInv, StoreInv, Edge, NoRow
<1>n. row'.status # "AVAILABLE" /\ limbo'.status # "AVAILABLE" => Ok
  BY DEF Ok, Decided
<1>o. row' \in {row, limbo} /\ limbo' \in {limbo, NoRow} => Ok
  BY <1>a DEF Ok, Decided, NoRow
<1>l. \A n : n.status # "AVAILABLE" /\ row' \in {row, n} /\ limbo' \in {limbo, n} => Ok
  BY <1>a DEF Ok, Decided
<1>u. UNCHANGED <<row, limbo>> => Ok
  BY <1>o
<1>1. CASE Tick \/ Expire \/ Open \/ ClaimIndex \/ PutStart \/ PutReturn \/ PutLost \/
           JobFails \/ Recheck \/ BeatSend
  BY <1>u, <1>1 DEF Tick, Expire, Open, ClaimIndex, PutStart, PutReturn, PutLost, JobFails,
     Recheck, BeatSend, rowVars
<1>2. CASE Settle
  BY <1>2, <1>o DEF Settle
<1>3. CASE ClaimBackup
  <2>1. PICK n : n = [status |-> "CREATING", gen |-> JobGen]
    OBVIOUS
  <2>2. n.status # "AVAILABLE"
    BY <2>1, <1>t DEF Rows
  <2>3. row' \in {row, n} /\ limbo' \in {limbo, n}
    BY <1>3, <2>1 DEF ClaimBackup, Lwt
  <2> QED
    BY <2>2, <2>3, <1>l
<1>4. ASSUME NEW o \in Objects, Land(o) PROVE Ok
  BY <1>u, <1>4 DEF Land, rowVars
<1>5. ASSUME NEW b \in Beats, BeatApply(b) \/ BeatConfirmed(b) \/ BeatLost(b) PROVE Ok
  BY <1>u, <1>5 DEF BeatApply, BeatConfirmed, BeatLost, rowVars
<1>6. ASSUME NEW a \in Actors, Reread(a) \/ MoveStatus(a) \/ ListPrefix(a) \/
             DeleteObject(a) \/ StatusError(a) \/ StoreError(a) \/ Crash(a)
      PROVE  Ok
  BY <1>u, <1>6 DEF Reread, MoveStatus, ListPrefix, DeleteObject, StatusError, StoreError, Crash,
     rowVars
<1>7. ASSUME NEW a \in Actors, SetStatus(a) PROVE Ok
  <2>1. PICK n : n = [row EXCEPT !.status = act[a].want]
    OBVIOUS
  <2>2. n.status = act[a].want /\ Writing(act[a].want)
    BY <1>7, <2>1, <1>t DEF Rows, SetStatus, ActorsInv, Knows
  <2>3. \/ row' = row /\ limbo' = limbo
        \/ row' \in {row, n} /\ limbo' \in {limbo, n} /\ row.status = "CREATING"
    BY <1>7, <2>1 DEF SetStatus, SetStatusIf, Lwt
  <2> QED
    BY <2>2, <2>3, <1>a, <1>o DEF Ok, Decided, Writing
<1>8. ASSUME NEW a \in Actors \ {"job"}, DeleteManifest(a) \/ ListAfterDelete(a) \/
             MoveDeleted(a)
      PROVE  Ok
  BY <1>u, <1>8 DEF DeleteManifest, ListAfterDelete, MoveDeleted, rowVars
<1>9. ASSUME NEW a \in Actors \ {"job"}, SetDeleted(a) PROVE Ok
  <2>1. PICK n : n = [row EXCEPT !.status = "DELETED"]
    OBVIOUS
  <2>2. n.status # "AVAILABLE"
    BY <2>1, <1>t DEF Rows
  <2>3. row' \in {row, n} /\ limbo' \in {limbo, n}
    BY <1>9, <2>1 DEF SetDeleted, Lwt
  <2> QED
    BY <2>2, <2>3, <1>l
<1>10. ASSUME NEW c \in Clients, DeleteBackup(c) \/ MoveDeleting(c) PROVE Ok
  BY <1>u, <1>10 DEF DeleteBackup, MoveDeleting, rowVars
<1>11. ASSUME NEW c \in Clients, StartDelete(c) PROVE Ok
  <2>1. PICK n : n = [row EXCEPT !.status = "DELETING"]
    OBVIOUS
  <2>2. n.status # "AVAILABLE"
    BY <2>1, <1>t DEF Rows
  <2>3. row' \in {row, n} /\ limbo' \in {limbo, n}
    BY <1>11, <2>1 DEF StartDelete, Lwt
  <2> QED
    BY <2>2, <2>3, <1>l
<1>12. ASSUME NEW r \in Reconcilers, FindDead(r) \/ ProbeManifest(r) \/ ProbeFiles(r) \/
             FinishDeleting(r) \/ SweepPrefix(r) \/ FindTombstone(r) \/ RemoveEntries(r)
      PROVE  Ok
  BY <1>u, <1>12 DEF FindDead, ProbeManifest, ProbeFiles, FinishDeleting, SweepPrefix,
     FindTombstone, RemoveEntries, rowVars
<1>13. ASSUME NEW r \in Reconcilers, TakeOver(r) PROVE Ok
  <2>1. row'.status = row.status /\ limbo' = limbo
    BY <1>13, <1>t DEF TakeOver, Rows
  <2> QED
    BY <2>1, <1>a DEF Ok, Decided
<1>14. ASSUME NEW r \in Reconcilers, RemoveRow(r) PROVE Ok
  <2>1. PICK n : n = [status |-> "removed", gen |-> NoGen]
    OBVIOUS
  <2>2. n.status # "AVAILABLE"
    BY <2>1, <1>t DEF Rows
  <2>3. row' \in {row, n} /\ limbo' \in {limbo, n}
    BY <1>14, <2>1 DEF RemoveRow, Lwt
  <2> QED
    BY <2>2, <2>3, <1>l
<1> QED
  BY Constants, <1>1, <1>2, <1>3, <1>4, <1>5, <1>6, <1>7, <1>8, <1>9, <1>10, <1>11, <1>12, <1>13,
     <1>14 DEF Next, JobStep, TimerStep, ClientStep, ReconcilerStep, Works, Finishes, Beats

(* The job's own way.                                                       *)
Early == {"idle", "insert", "index"}
Past == PCs \ (Putting \cup {"wait"})
JobStays == act'["job"].pc = act["job"].pc /\ act'["job"].next = act["job"].next
JobGoes ==
    /\ act["job"].pc \in Putting /\ act'["job"].pc \in Putting /\ act'["job"].next = act["job"].next
    /\ act'["job"].pc \in Early => act["job"].pc \in Early
    /\ UNCHANGED <<obj, flight>>
JobReturns ==
    /\ act["job"].pc = "wait" /\ act["job"].next \notin flight /\ act["job"].next # Manifest
    /\ act'["job"].pc \in {"recheck", "put"} /\ act'["job"].next = act["job"].next + 1
    /\ UNCHANGED <<row, obj, flight>>
JobEffect == JobStays \/ JobGoes \/ JobReturns \/ Sends \/ act'["job"].pc \in Past

LEMMA JobMove == ASSUME TypeOK, Next PROVE JobEffect
<1> DEFINE Ok == JobEffect
<1> SUFFICES Ok
  OBVIOUS
<1> HIDE DEF Ok
<1>t. act \in [Actors -> Actor] /\ act["job"] \in Actor /\ "job" \in Actors
  BY ActType, Constants
<1>j. JobStays \/ JobGoes \/ JobReturns \/ Sends \/ act'["job"].pc \in Past => Ok
  BY DEF Ok, JobEffect
<1>n. \A a \in Actors : \A p : act' = [act EXCEPT ![a].pc = p] /\ (a # "job" \/ p \in Past) => Ok
  BY <1>t, <1>j DEF JobStays, Actor
<1>o. \A a \in Actors : Over(a) => Ok
  BY <1>t, <1>j DEF Over, At, JobStays, Past, PCs, Putting
<1>x. \A a \in Actors \ {"job"} : act'["job"] = act["job"] => Ok
  BY <1>t, <1>j DEF JobStays
<1>u. UNCHANGED <<act>> => Ok
  BY <1>j DEF JobStays
<1>1. CASE Tick \/ Settle \/ Expire \/ BeatSend
  BY <1>u, <1>1 DEF Tick, Settle, Expire, BeatSend
<1>2. CASE Open
  <2>1. /\ act["job"].pc = "idle" /\ act'["job"].pc = "insert" /\ act'["job"].next = act["job"].next
        /\ UNCHANGED <<obj, flight>>
    BY <1>2, <1>t DEF Open, Go, Actor
  <2> QED
    BY <2>1, <1>j DEF JobGoes, Putting, Early
<1>3. CASE ClaimBackup
  <2>1. CASE Over("job")
    BY <2>1, <1>o, Constants
  <2>2. CASE ~Over("job")
    <3>1. /\ act["job"].pc = "insert" /\ act'["job"].pc = "index" /\ act'["job"].next = act["job"].next
          /\ UNCHANGED <<obj, flight>>
      BY <1>3, <2>2, <1>t DEF ClaimBackup, Go, Actor
    <3> QED
      BY <3>1, <1>j DEF JobGoes, Putting, Early
  <2> QED
    BY <2>1, <2>2
<1>4. CASE ClaimIndex
  <2>1. CASE Over("job")
    BY <2>1, <1>o, Constants
  <2>2. CASE ~Over("job")
    <3>1. /\ act["job"].pc = "index" /\ act'["job"].pc = "put" /\ act'["job"].next = act["job"].next
          /\ UNCHANGED <<obj, flight>>
      BY <1>4, <2>2, <1>t DEF ClaimIndex, Go, Actor
    <3> QED
      BY <3>1, <1>j DEF JobGoes, Putting, Early
  <2> QED
    BY <2>1, <2>2
<1>5. CASE PutStart
  <2>1. CASE Over("job")
    BY <2>1, <1>o, <1>t
  <2>2. CASE ~Over("job")
    <3>1. act'["job"].pc = "wait" /\ act'["job"].next = act["job"].next
      BY <1>5, <2>2, <1>t DEF PutStart, Go, Actor
    <3>2. Sends
      BY <1>5, <2>2, <3>1 DEF PutStart, Sends, rowVars
    <3> QED
      BY <3>2, <1>j
  <2> QED
    BY <2>1, <2>2
<1>6. CASE PutReturn
  <2>1. CASE act["job"].next = Manifest
    <3>1. act'["job"].pc = "write"
      BY <1>6, <2>1, <1>t DEF PutReturn, Actor
    <3> QED
      BY <3>1, <1>j DEF Past, PCs, Putting
  <2>2. CASE act["job"].next # Manifest
    <3>1. act'["job"].pc \in {"recheck", "put"} /\ act'["job"].next = act["job"].next + 1
      BY <1>6, <2>2, <1>t DEF PutReturn, Actor
    <3>2. JobReturns
      BY <1>6, <2>2, <3>1 DEF PutReturn, JobReturns, rowVars
    <3> QED
      BY <3>2, <1>j
  <2> QED
    BY <2>1, <2>2
<1>7. CASE PutLost
  BY <1>7, <1>o, <1>t DEF PutLost
<1>8. CASE JobFails
  <2>1. act'["job"].pc = "write"
    BY <1>8, <1>t DEF JobFails, Actor
  <2> QED
    BY <2>1, <1>j DEF Past, PCs, Putting
<1>9. CASE Recheck
  <2>1. /\ act["job"].pc = "recheck" /\ act'["job"].pc = "rechecking"
        /\ act'["job"].next = act["job"].next
        /\ UNCHANGED <<obj, flight>>
    BY <1>9, <1>t DEF Recheck, Go, Actor
  <2> QED
    BY <2>1, <1>j DEF JobGoes, Putting, Early
<1>10. ASSUME NEW o \in Objects, Land(o) PROVE Ok
  BY <1>u, <1>10 DEF Land
<1>11. ASSUME NEW b \in Beats, BeatApply(b) PROVE Ok
  <2>1. JobStays
    BY <1>11, <1>t DEF BeatApply, JobStays, Actor
  <2> QED
    BY <2>1, <1>j
<1>12. ASSUME NEW b \in Beats, BeatConfirmed(b) PROVE Ok
  <2>1. CASE b = "timer"
    BY <1>12, <2>1, <1>u DEF BeatConfirmed
  <2>2. CASE b # "timer"
    <3>1. /\ act["job"].pc = "rechecking" /\ act'["job"].pc = "put"
          /\ act'["job"].next = act["job"].next
          /\ UNCHANGED <<obj, flight>>
      BY <1>12, <2>2, <1>t DEF BeatConfirmed, Awaits, Actor
    <3> QED
      BY <3>1, <1>j DEF JobGoes, Putting, Early
  <2> QED
    BY <2>1, <2>2
<1>13. ASSUME NEW b \in Beats, BeatLost(b) PROVE Ok
  BY <1>13, <1>o, <1>u, <1>t DEF BeatLost
<1>14. ASSUME NEW a \in Actors, SetStatus(a) \/ MoveStatus(a) \/ StatusError(a) \/
             StoreError(a) \/ Crash(a)
      PROVE  Ok
  BY <1>n, <1>o, <1>t, <1>14 DEF SetStatus, MoveStatus, StatusError, StoreError, Crash, Go,
     Written, Past, PCs, Putting
<1>15. ASSUME NEW a \in Actors, Reread(a) PROVE Ok
  <2>1. CASE act' = [act EXCEPT ![a].pc = "write", ![a].try = 2]
    <3>1. act'["job"] = act["job"] \/ act'["job"].pc = "write"
      BY <2>1, <1>t DEF Actor
    <3> QED
      BY <3>1, <1>j DEF JobStays, Past, PCs, Putting
  <2>2. CASE Go(a, "prefix") \/ Over(a)
    BY <2>2, <1>n, <1>o DEF Go, Past, PCs, Putting
  <2> QED
    BY <1>15, <2>1, <2>2 DEF Reread, Written
<1>16. ASSUME NEW a \in Actors, ListPrefix(a) PROVE Ok
  <2>1. act'["job"] = act["job"] \/ act'["job"].pc = "sweep" \/ Over(a)
    BY <1>16, <1>t DEF ListPrefix, Go, Actor
  <2> QED
    BY <2>1, <1>j, <1>o DEF JobStays, Past, PCs, Putting
<1>17. ASSUME NEW a \in Actors, DeleteObject(a) PROVE Ok
  <2>1. JobStays \/ act'["job"].pc = "list" \/ Over(a)
    BY <1>17, <1>t DEF DeleteObject, Go, Actor, JobStays
  <2> QED
    BY <2>1, <1>j, <1>o DEF Past, PCs, Putting
<1>18. ASSUME NEW a \in Actors \ {"job"}, DeleteManifest(a) PROVE Ok
  <2>1. act'["job"] = act["job"]
    BY <1>18, <1>t, Constants DEF DeleteManifest, Go, Over
  <2> QED
    BY <2>1, <1>j DEF JobStays
<1>19. ASSUME NEW a \in Actors \ {"job"}, ListAfterDelete(a) PROVE Ok
  <2>1. act'["job"] = act["job"]
    BY <1>19, <1>t, Constants DEF ListAfterDelete, Go, Over
  <2> QED
    BY <2>1, <1>j DEF JobStays
<1>20. ASSUME NEW a \in Actors \ {"job"}, SetDeleted(a) PROVE Ok
  <2>1. act'["job"] = act["job"]
    BY <1>20, <1>t, Constants DEF SetDeleted, Go, Over
  <2> QED
    BY <2>1, <1>j DEF JobStays
<1>21. ASSUME NEW a \in Actors \ {"job"}, MoveDeleted(a) PROVE Ok
  <2>1. act'["job"] = act["job"]
    BY <1>21, <1>t, Constants DEF MoveDeleted, Go, Over
  <2> QED
    BY <2>1, <1>j DEF JobStays
<1>22. ASSUME NEW c \in Clients, DeleteBackup(c) PROVE Ok
  <2>1. act'["job"] = act["job"]
    BY <1>22, <1>t, Constants DEF DeleteBackup, Go, Over
  <2> QED
    BY <2>1, <1>j DEF JobStays
<1>23. ASSUME NEW c \in Clients, StartDelete(c) PROVE Ok
  <2>1. act'["job"] = act["job"]
    BY <1>23, <1>t, Constants DEF StartDelete, Go, Over
  <2> QED
    BY <2>1, <1>j DEF JobStays
<1>24. ASSUME NEW c \in Clients, MoveDeleting(c) PROVE Ok
  <2>1. act'["job"] = act["job"]
    BY <1>24, <1>t, Constants DEF MoveDeleting, Go, Over
  <2> QED
    BY <2>1, <1>j DEF JobStays
<1>25. ASSUME NEW r \in Reconcilers, FindDead(r) PROVE Ok
  <2>1. act'["job"] = act["job"]
    BY <1>25, <1>t, Constants DEF FindDead, Go, Over
  <2> QED
    BY <2>1, <1>j DEF JobStays
<1>26. ASSUME NEW r \in Reconcilers, TakeOver(r) PROVE Ok
  <2>1. act'["job"] = act["job"]
    BY <1>26, <1>t, Constants DEF TakeOver, Go, Over
  <2> QED
    BY <2>1, <1>j DEF JobStays
<1>27. ASSUME NEW r \in Reconcilers, ProbeManifest(r) PROVE Ok
  <2>1. act'["job"] = act["job"]
    BY <1>27, <1>t, Constants DEF ProbeManifest, Go, Over, ReconcilerWrites
  <2> QED
    BY <2>1, <1>j DEF JobStays
<1>28. ASSUME NEW r \in Reconcilers, ProbeFiles(r) PROVE Ok
  <2>1. act'["job"] = act["job"]
    BY <1>28, <1>t, Constants DEF ProbeFiles, Go, Over, ReconcilerWrites
  <2> QED
    BY <2>1, <1>j DEF JobStays
<1>29. ASSUME NEW r \in Reconcilers, FinishDeleting(r) PROVE Ok
  <2>1. act'["job"] = act["job"]
    BY <1>29, <1>t, Constants DEF FinishDeleting, Go, Over
  <2> QED
    BY <2>1, <1>j DEF JobStays
<1>30. ASSUME NEW r \in Reconcilers, SweepPrefix(r) PROVE Ok
  <2>1. act'["job"] = act["job"]
    BY <1>30, <1>t, Constants DEF SweepPrefix, Go, Over
  <2> QED
    BY <2>1, <1>j DEF JobStays
<1>31. ASSUME NEW r \in Reconcilers, FindTombstone(r) PROVE Ok
  <2>1. act'["job"] = act["job"]
    BY <1>31, <1>t, Constants DEF FindTombstone, Go, Over
  <2> QED
    BY <2>1, <1>j DEF JobStays
<1>32. ASSUME NEW r \in Reconcilers, RemoveRow(r) PROVE Ok
  <2>1. act'["job"] = act["job"]
    BY <1>32, <1>t, Constants DEF RemoveRow, Go, Over
  <2> QED
    BY <2>1, <1>j DEF JobStays
<1>33. ASSUME NEW r \in Reconcilers, RemoveEntries(r) PROVE Ok
  <2>1. act'["job"] = act["job"]
    BY <1>33, <1>t, Constants DEF RemoveEntries, Go, Over
  <2> QED
    BY <2>1, <1>j DEF JobStays
<1> QED
  BY Constants, <1>1, <1>2, <1>3, <1>4, <1>5, <1>6, <1>7, <1>8, <1>9, <1>10, <1>11, <1>12, <1>13,
     <1>14, <1>15, <1>16, <1>17, <1>18, <1>19, <1>20, <1>21, <1>22, <1>23, <1>24, <1>25, <1>26,
     <1>27, <1>28, <1>29, <1>30, <1>31, <1>32, <1>33 DEF Next, JobStep, TimerStep, ClientStep,
     ReconcilerStep, Works, Finishes, Beats

LEMMA JobStepInv ==
    ASSUME TypeOK, RowInv, ActorsInv, JobInv, StoreInv, Next
    PROVE  JobInv'
<1>0. PICK p, n, q, m : /\ p = act["job"].pc /\ n = act["job"].next
                        /\ q = act'["job"].pc /\ m = act'["job"].next
  OBVIOUS
<1>t. n \in 1 .. Manifest /\ m \in 1 .. Manifest /\ p \in PCs /\ q \in PCs /\ Manifest \in Nat
  BY <1>0, ActType, TypeStep, Constants DEF TypeOK, Actor
<1>p. Puts(p, n) /\ Knows(p, act["job"].want) /\ obj \subseteq Objects /\ Objects = 1 .. Manifest
  BY <1>0, Constants DEF JobInv, ActorsInv, TypeOK
<1>e. StoreEffect /\ Grown /\ JobEffect /\ Decided /\ Ahead
  BY StoreMove, StoreGrows, JobMove, DecidedStep, RowStep DEF RowMove
<1> SUFFICES Puts(q, m)'
  BY <1>0 DEF JobInv, Puts
<1>1. CASE q \in Putting /\ m = n /\ p \in Putting /\ (q \in Early => p \in Early)
  <2>1. flight' \cup obj' \subseteq flight \cup obj
    <3>1. ~Sends
      BY <1>0, <1>1 DEF Sends, Putting
    <3>2. CASE Lands
      BY <3>2 DEF Lands
    <3>3. CASE Deletes
      BY <3>3 DEF Deletes
    <3> QED
      BY <3>1, <3>2, <3>3, <1>e DEF StoreEffect
  <2>2. row'.status \notin Whole
    <3>1. obj # Objects
      <4>1. n \in Objects /\ n \notin 1 .. n - 1
        BY <1>p, <1>t
      <4> QED
        BY <4>1, <1>p, <1>1 DEF Puts
    <3>2. row'.status # "AVAILABLE"
      BY <3>1, <1>e DEF Decided
    <3> QED
      BY <3>2, <1>e, <1>p, <1>1 DEF Puts, Ahead, Edge, Whole
  <2>3. row'.status = "CREATING" => 1 .. n - 1 \subseteq obj'
    <3>1. CASE row.status = "CREATING"
      BY <3>1, <1>p, <1>e, <1>1 DEF Puts, Grown
    <3>2. CASE row.status = "none"
      <4>1. p \in {"idle", "insert"}
        BY <3>2, <1>p, <1>1 DEF Knows, Rest, Putting
      <4> QED
        BY <4>1, <1>p DEF Puts
    <3> QED
      BY <3>1, <3>2, <1>e DEF Ahead, Edge
  <2>4. q \in {"idle", "insert", "index"} => m = 1
    BY <1>1, <1>p DEF Puts, Early
  <2> QED
    BY <2>1, <2>2, <2>3, <2>4, <1>1, <1>p DEF Puts, Putting
<1>2. CASE q = "wait" /\ p = "wait" /\ m = n
  <2>1. flight' \cup obj' \subseteq flight \cup obj
    <3>1. ~Sends
      BY <1>0, <1>2 DEF Sends
    <3>2. CASE Lands
      BY <3>2 DEF Lands
    <3>3. CASE Deletes
      BY <3>3 DEF Deletes
    <3> QED
      BY <3>1, <3>2, <3>3, <1>e DEF StoreEffect
  <2>2. row'.status \in Whole => m = Manifest
    <3>1. CASE row.status \in Whole
      BY <3>1, <1>2, <1>p DEF Puts
    <3>2. CASE row'.status = "AVAILABLE"
      <4>0. Manifest \in Objects
        BY <1>p, <1>t
      <4>1. Manifest \in 1 .. n
        BY <4>0, <3>2, <1>e, <1>p, <1>2 DEF Decided, Puts
      <4> QED
        BY <4>1, <1>t, <1>2
    <3> QED
      BY <3>1, <3>2, <1>e DEF Ahead, Edge, Whole
  <2>3. row'.status = "CREATING" => 1 .. n - 1 \subseteq obj' /\ n \in flight' \cup obj'
    <3> SUFFICES ASSUME row'.status = "CREATING"
                 PROVE  1 .. n - 1 \subseteq obj' /\ n \in flight' \cup obj'
      OBVIOUS
    <3>1. row.status = "CREATING"
      BY <1>e, <1>p, <1>2 DEF Ahead, Edge, Knows, Rest
    <3>2. 1 .. n - 1 \subseteq obj'
      BY <3>1, <1>p, <1>2, <1>e DEF Puts, Grown
    <3>3. n \in flight' \cup obj'
      BY <1>0, <3>1, <1>p, <1>2, <1>e DEF Puts, StoreEffect, Lands, Sends, Deletes, Gone
    <3> QED
      BY <3>2, <3>3
  <2> QED
    BY <2>1, <2>2, <2>3, <1>2, <1>p DEF Puts, Putting
<1>3. CASE JobReturns
  <2>1. /\ p = "wait" /\ n \notin flight /\ n # Manifest /\ q \in {"recheck", "put"} /\ m = n + 1
        /\ UNCHANGED <<row, obj, flight>>
    BY <1>0, <1>3 DEF JobReturns
  <2>2. m - 1 = n /\ 1 .. n = (1 .. n - 1) \cup {n}
    BY <2>1, <1>t
  <2>3. /\ flight \cup obj \subseteq 1 .. m - 1 /\ row.status \notin Whole
        /\ row.status = "CREATING" => 1 .. m - 1 \subseteq obj
    BY <2>1, <2>2, <1>p DEF Puts
  <2> QED
    BY <2>1, <2>3 DEF Puts, Putting
<1>4. CASE Sends
  <2>1. p = "put" /\ q = "wait" /\ m = n /\ flight' = flight \cup {n} /\ UNCHANGED <<row, limbo, obj>>
    BY <1>0, <1>4 DEF Sends
  <2>2. flight \cup obj \subseteq 1 .. n - 1 /\ row.status \notin Whole
        /\ (row.status = "CREATING" => 1 .. n - 1 \subseteq obj)
    BY <2>1, <1>p DEF Puts, Putting
  <2>3. flight' \cup obj' \subseteq 1 .. n
    BY <2>1, <2>2, <1>t
  <2> QED
    BY <2>1, <2>2, <2>3 DEF Puts, Putting
<1>5. CASE q \in Past
  BY <1>5 DEF Puts, Past, Putting
<1> QED
  BY <1>0, <1>1, <1>2, <1>3, <1>4, <1>5, <1>e, <1>t DEF JobEffect, JobStays, JobGoes, Past

LEMMA StoreStep ==
    ASSUME TypeOK, RowInv, ActorsInv, JobInv, StoreInv, Next
    PROVE  StoreInv'
<1> DEFINE p == act["job"].pc  n == act["job"].next
<1>t. /\ obj \subseteq Objects /\ flight \subseteq Objects
      /\ obj' \subseteq Objects /\ flight' \subseteq Objects
      /\ Manifest \in Nat /\ Objects = 1 .. Manifest /\ n \in 1 .. Manifest
  BY ActType, TypeStep, Constants DEF TypeOK, Actor
<1>p. Puts(p, n) /\ Knows(p, act["job"].want)
  BY Constants DEF JobInv, ActorsInv
<1>e. StoreEffect /\ Grown /\ Decided /\ Ahead
  BY StoreMove, StoreGrows, DecidedStep, RowStep DEF RowMove
<1>s. Sends => /\ p = "put" /\ flight' = flight \cup {n} /\ UNCHANGED <<row, limbo, obj>>
               /\ flight \cup obj \subseteq 1 .. n - 1 /\ row.status \notin Whole /\ row.status # "none"
               /\ row.status = "CREATING" => 1 .. n - 1 \subseteq obj
  BY <1>p DEF Sends, Puts, Putting, Knows, Rest
<1> HIDE DEF p, n
<1>1. flight' \cap obj' = {}
  <2>1. CASE Sends
    BY <2>1, <1>s, <1>t DEF StoreInv
  <2>2. CASE UNCHANGED <<obj, flight>> \/ Lands \/ Deletes
    BY <2>2 DEF StoreInv, Lands, Deletes
  <2> QED
    BY <2>1, <2>2, <1>e DEF StoreEffect
<1>2. row'.status = "none" => obj' = {} /\ flight' = {}
  <2> SUFFICES ASSUME row'.status = "none" PROVE obj' = {} /\ flight' = {}
    OBVIOUS
  <2>1. row.status = "none" /\ obj = {} /\ flight = {}
    BY <1>e DEF Ahead, Edge, StoreInv
  <2> QED
    BY <2>1, <1>e, <1>s DEF StoreEffect, Lands, Deletes
<1>3. row'.status = "CREATING" /\ Manifest \in flight' \cup obj' => Objects \ {Manifest} \subseteq obj'
  <2> SUFFICES ASSUME row'.status = "CREATING", Manifest \in flight' \cup obj'
               PROVE  Objects \ {Manifest} \subseteq obj'
    OBVIOUS
  <2>1. CASE Sends
    <3>1. row.status = "CREATING" /\ obj' = obj
      BY <2>1, <1>s
    <3>2. CASE n = Manifest
      BY <3>1, <3>2, <2>1, <1>s, <1>t
    <3>3. CASE n # Manifest
      BY <3>1, <3>3, <2>1, <1>s DEF StoreInv
    <3> QED
      BY <3>2, <3>3
  <2>2. CASE ~Sends
    <3>1. Manifest \in flight \cup obj
      BY <2>2, <1>e DEF StoreEffect, Lands, Deletes
    <3>2. row.status = "CREATING"
      BY <3>1, <1>e DEF Ahead, Edge, StoreInv
    <3> QED
      BY <3>1, <3>2, <1>e DEF StoreInv, Grown
  <2> QED
    BY <2>1, <2>2
<1>4. row'.status = "AVAILABLE" \/ limbo'.status = "AVAILABLE" => obj' = Objects
  BY <1>e, <1>t DEF Decided, Grown
<1>5. row'.status \in Whole => flight' = {}
  <2> SUFFICES ASSUME row'.status \in Whole PROVE flight' = {}
    OBVIOUS
  <2>1. CASE row.status \in Whole
    <3>1. flight = {} /\ ~Sends
      BY <2>1, <1>s DEF StoreInv
    <3> QED
      BY <3>1, <1>e DEF StoreEffect, Lands, Deletes
  <2>2. CASE row'.status = "AVAILABLE"
    BY <2>2, <1>4, <1>1, <1>t
  <2> QED
    BY <2>1, <2>2, <1>e DEF Ahead, Edge, Whole
<1>6. row'.status = "DELETING" /\ Manifest \in obj' => obj' = Objects
  <2> SUFFICES ASSUME row'.status = "DELETING", Manifest \in obj' PROVE obj' = Objects
    OBVIOUS
  <2>1. CASE row.status = "AVAILABLE"
    BY <2>1, <1>e, <1>t DEF StoreInv, Grown
  <2>2. CASE row.status = "DELETING"
    <3>1. flight = {} /\ ~Sends /\ ~Deletes /\ ~Lands
      BY <2>2, <1>s DEF StoreInv, Whole, Deletes, Lands
    <3> QED
      BY <3>1, <2>2, <1>e DEF StoreInv, StoreEffect
  <2> QED
    BY <2>1, <2>2, <1>e DEF Ahead, Edge
<1> QED
  BY <1>1, <1>2, <1>3, <1>4, <1>5, <1>6 DEF StoreInv

LEMMA SucceededStep == ASSUME TypeOK, RowInv, ActorsInv, Succeeded, Next PROVE Succeeded'
<1> DEFINE Ok == Succeeded'
<1> SUFFICES Ok
  OBVIOUS
<1> HIDE DEF Ok
<1>k. row.status \in Kept => row'.status \in Kept
  BY RowStep DEF RowMove, Ahead, Edge, Kept
<1>r. result' = result \/ result' = "failed" => Ok
  BY <1>k DEF Ok, Succeeded
<1>w. \A a, m : Written(a, m) /\ (m /\ act[a].want = "AVAILABLE" => row.status \in Kept) => Ok
  BY <1>k, <1>r DEF Ok, Succeeded, Written
<1>u. UNCHANGED <<result>> => Ok
  BY <1>r
<1>1. CASE Tick \/ Settle \/ Expire \/ Open \/ PutReturn \/ JobFails \/ Recheck \/ BeatSend
  BY <1>u, <1>1 DEF Tick, Settle, Expire, Open, PutReturn, JobFails, Recheck, BeatSend
<1>2. CASE ClaimBackup \/ ClaimIndex \/ PutStart \/ PutLost
  BY <1>r, <1>2 DEF ClaimBackup, ClaimIndex, PutStart, PutLost
<1>3. ASSUME NEW o \in Objects, Land(o) PROVE Ok
  BY <1>u, <1>3 DEF Land
<1>4. ASSUME NEW b \in Beats, BeatApply(b) \/ BeatConfirmed(b) PROVE Ok
  BY <1>u, <1>4 DEF BeatApply, BeatConfirmed
<1>5. ASSUME NEW b \in Beats, BeatLost(b) PROVE Ok
  BY <1>r, <1>5 DEF BeatLost
<1>6. ASSUME NEW a \in Actors, ListPrefix(a) \/ DeleteObject(a) \/ StoreError(a) \/
             Crash(a)
      PROVE  Ok
  BY <1>u, <1>6 DEF ListPrefix, DeleteObject, StoreError, Crash
<1>7. ASSUME NEW a \in Actors, SetStatus(a) PROVE Ok
  <2>1. result' = result \/ Written(a, FALSE)
    BY <1>7 DEF SetStatus
  <2> QED
    BY <2>1, <1>r, <1>w
<1>8. ASSUME NEW a \in Actors, Reread(a) PROVE Ok
  <2>1. row.status = "AVAILABLE" => row.status \in Kept
    BY DEF Kept
  <2>2. result' = result \/ Written(a, row.gen = act[a].gen /\ row.status = act[a].want)
    BY <1>8 DEF Reread
  <2> QED
    BY <2>1, <2>2, <1>r, <1>w
<1>9. ASSUME NEW a \in Actors, MoveStatus(a) PROVE Ok
  <2>1. Written(a, TRUE) /\ Moving(act[a].want)
    BY <1>9 DEF MoveStatus, ActorsInv, Knows
  <2> QED
    BY <2>1, <1>w DEF Moving
<1>10. ASSUME NEW a \in Actors, StatusError(a) PROVE Ok
  BY <1>10, <1>w DEF StatusError
<1>11. ASSUME NEW a \in Actors \ {"job"}, DeleteManifest(a) \/ ListAfterDelete(a) \/
             SetDeleted(a) \/ MoveDeleted(a)
      PROVE  Ok
  BY <1>u, <1>11 DEF DeleteManifest, ListAfterDelete, SetDeleted, MoveDeleted
<1>12. ASSUME NEW c \in Clients, DeleteBackup(c) \/ StartDelete(c) \/ MoveDeleting(c) PROVE Ok
  BY <1>u, <1>12 DEF DeleteBackup, StartDelete, MoveDeleting
<1>13. ASSUME NEW r \in Reconcilers, FindDead(r) \/ TakeOver(r) \/ ProbeManifest(r) \/
             ProbeFiles(r) \/ FinishDeleting(r) \/ SweepPrefix(r) \/ FindTombstone(r) \/
             RemoveRow(r) \/ RemoveEntries(r)
      PROVE  Ok
  BY <1>u, <1>13 DEF FindDead, TakeOver, ProbeManifest, ProbeFiles, FinishDeleting, SweepPrefix,
     FindTombstone, RemoveRow, RemoveEntries
<1> QED
  BY Constants, <1>1, <1>2, <1>3, <1>4, <1>5, <1>6, <1>7, <1>8, <1>9, <1>10, <1>11, <1>12, <1>13
     DEF Next, JobStep, TimerStep, ClientStep, ReconcilerStep, Works, Finishes, Beats

-----------------------------------------------------------------------------
(* The claim.                                                               *)

(* Nobody gives the row the job's generation again.                         *)
GenFlow == row'.gen \in {row.gen, NoGen} \/ row'.gen > 0 \/ row.status = "none"

LEMMA GenStep == ASSUME TypeOK, RowInv, Next PROVE GenFlow
<1> DEFINE Ok == GenFlow
<1> SUFFICES Ok
  OBVIOUS
<1> HIDE DEF Ok
<1>t. row \in Rows /\ limbo \in Rows
  BY DEF TypeOK
<1>l. \A n : row' \in {row, n} /\ n.gen \in {row.gen, NoGen} => Ok
  BY DEF Ok, GenFlow
<1>u. UNCHANGED <<row>> => Ok
  BY DEF Ok, GenFlow
<1>1. CASE Tick \/ Expire \/ Open \/ ClaimIndex \/ PutStart \/ PutReturn \/ PutLost \/
           JobFails \/ Recheck \/ BeatSend
  BY <1>u, <1>1 DEF Tick, Expire, Open, ClaimIndex, PutStart, PutReturn, PutLost, JobFails,
     Recheck, BeatSend, rowVars
<1>2. CASE Settle
  <2>1. row' \in {row, limbo} /\ (row.status = "none" \/ limbo.gen \in {row.gen, NoGen})
    BY <1>2 DEF Settle, RowInv
  <2> QED
    BY <2>1, <1>l DEF Ok, GenFlow
<1>3. CASE ClaimBackup
  <2>1. row' = row \/ row = NoRow
    BY <1>3 DEF ClaimBackup, Lwt
  <2> QED
    BY <2>1 DEF Ok, GenFlow, NoRow
<1>4. ASSUME NEW o \in Objects, Land(o) PROVE Ok
  BY <1>u, <1>4 DEF Land, rowVars
<1>5. ASSUME NEW b \in Beats, BeatApply(b) \/ BeatConfirmed(b) \/ BeatLost(b) PROVE Ok
  BY <1>u, <1>5 DEF BeatApply, BeatConfirmed, BeatLost, rowVars
<1>6. ASSUME NEW a \in Actors, Reread(a) \/ MoveStatus(a) \/ ListPrefix(a) \/
             DeleteObject(a) \/ StatusError(a) \/ StoreError(a) \/ Crash(a)
      PROVE  Ok
  BY <1>u, <1>6 DEF Reread, MoveStatus, ListPrefix, DeleteObject, StatusError, StoreError, Crash,
     rowVars
<1>7. ASSUME NEW a \in Actors, SetStatus(a) PROVE Ok
  <2>1. PICK n : n = [row EXCEPT !.status = act[a].want]
    OBVIOUS
  <2>2. n.gen \in {row.gen, NoGen}
    BY <2>1, <1>t DEF Rows
  <2>3. row' \in {row, n}
    BY <1>7, <2>1 DEF SetStatus, Lwt
  <2> QED
    BY <2>2, <2>3, <1>l
<1>8. ASSUME NEW a \in Actors \ {"job"}, DeleteManifest(a) \/ ListAfterDelete(a) \/
             MoveDeleted(a)
      PROVE  Ok
  BY <1>u, <1>8 DEF DeleteManifest, ListAfterDelete, MoveDeleted, rowVars
<1>9. ASSUME NEW a \in Actors \ {"job"}, SetDeleted(a) PROVE Ok
  <2>1. PICK n : n = [row EXCEPT !.status = "DELETED"]
    OBVIOUS
  <2>2. n.gen \in {row.gen, NoGen}
    BY <2>1, <1>t DEF Rows
  <2>3. row' \in {row, n}
    BY <1>9, <2>1 DEF SetDeleted, Lwt
  <2> QED
    BY <2>2, <2>3, <1>l
<1>10. ASSUME NEW c \in Clients, DeleteBackup(c) \/ MoveDeleting(c) PROVE Ok
  BY <1>u, <1>10 DEF DeleteBackup, MoveDeleting, rowVars
<1>11. ASSUME NEW c \in Clients, StartDelete(c) PROVE Ok
  <2>1. PICK n : n = [row EXCEPT !.status = "DELETING"]
    OBVIOUS
  <2>2. n.gen \in {row.gen, NoGen}
    BY <2>1, <1>t DEF Rows
  <2>3. row' \in {row, n}
    BY <1>11, <2>1 DEF StartDelete, Lwt
  <2> QED
    BY <2>2, <2>3, <1>l
<1>12. ASSUME NEW r \in Reconcilers, FindDead(r) \/ ProbeManifest(r) \/ ProbeFiles(r) \/
             FinishDeleting(r) \/ SweepPrefix(r) \/ FindTombstone(r) \/ RemoveEntries(r)
      PROVE  Ok
  BY <1>u, <1>12 DEF FindDead, ProbeManifest, ProbeFiles, FinishDeleting, SweepPrefix,
     FindTombstone, RemoveEntries, rowVars
<1>13. ASSUME NEW r \in Reconcilers, TakeOver(r) PROVE Ok
  <2>1. takes + 1 > 0
    <3>1. takes \in 0 .. MaxTakes
      BY DEF TypeOK
    <3> QED
      BY <3>1, Constants
  <2>2. row' = row \/ row'.gen = takes + 1
    BY <1>13, <1>t DEF TakeOver, Rows
  <2> QED
    BY <2>1, <2>2 DEF Ok, GenFlow
<1>14. ASSUME NEW r \in Reconcilers, RemoveRow(r) PROVE Ok
  <2>1. PICK n : n = [status |-> "removed", gen |-> NoGen]
    OBVIOUS
  <2>2. n.gen \in {row.gen, NoGen}
    BY <2>1, <1>t DEF Rows
  <2>3. row' \in {row, n}
    BY <1>14, <2>1 DEF RemoveRow, Lwt
  <2> QED
    BY <2>2, <2>3, <1>l
<1> QED
  BY Constants, <1>1, <1>2, <1>3, <1>4, <1>5, <1>6, <1>7, <1>8, <1>9, <1>10, <1>11, <1>12, <1>13,
     <1>14 DEF Next, JobStep, TimerStep, ClientStep, ReconcilerStep, Works, Finishes, Beats

(* A row that is the job's stays so, unless its heartbeat is too old.       *)
Mine == act["job"].pc \in Owner /\ row.gen = JobGen
Held == Mine => UNCHANGED <<row, limbo>> \/ (hbAge > StaleAfter /\ row'.gen # JobGen)

LEMMA HeldStep == ASSUME TypeOK, ActorsInv, ClaimInv, Next PROVE Held
<1> DEFINE Ok == Held
<1> SUFFICES Ok
  OBVIOUS
<1> HIDE DEF Ok
<1>m. Mine => row = JobRow /\ limbo = NoRow /\ row.status = "CREATING"
  BY DEF Mine, ClaimInv, Claimed, JobRow
<1>n. ~Mine => Ok
  BY DEF Ok, Held
<1>l. \A c, n, o : Lwt(c, n, o) /\ ~c => UNCHANGED <<row, limbo>>
  BY DEF Lwt
<1>u. UNCHANGED <<row, limbo>> => Ok
  BY DEF Ok, Held
<1>1. CASE Tick \/ Expire \/ Open \/ ClaimIndex \/ PutStart \/ PutReturn \/ PutLost \/
           JobFails \/ Recheck \/ BeatSend
  BY <1>u, <1>1 DEF Tick, Expire, Open, ClaimIndex, PutStart, PutReturn, PutLost, JobFails,
     Recheck, BeatSend, rowVars
<1>2. CASE Settle
  BY <1>2, <1>m, <1>n DEF Settle
<1>3. CASE ClaimBackup
  BY <1>3, <1>n DEF ClaimBackup, Mine, Owner
<1>4. ASSUME NEW o \in Objects, Land(o) PROVE Ok
  BY <1>u, <1>4 DEF Land, rowVars
<1>5. ASSUME NEW b \in Beats, BeatApply(b) \/ BeatConfirmed(b) \/ BeatLost(b) PROVE Ok
  BY <1>u, <1>5 DEF BeatApply, BeatConfirmed, BeatLost, rowVars
<1>6. ASSUME NEW a \in Actors, Reread(a) \/ MoveStatus(a) \/ ListPrefix(a) \/
             DeleteObject(a) \/ StatusError(a) \/ StoreError(a) \/ Crash(a)
      PROVE  Ok
  BY <1>u, <1>6 DEF Reread, MoveStatus, ListPrefix, DeleteObject, StatusError, StoreError, Crash,
     rowVars
<1>7. ASSUME NEW a \in Actors, SetStatus(a) PROVE Ok
  <2>1. CASE ~SetStatusIf(a)
    BY <1>7, <2>1, <1>u DEF SetStatus, Lwt
  <2>2. CASE SetStatusIf(a)
    <3>1. act[a].pc = "write" /\ act[a].gen = row.gen
      BY <1>7, <2>2 DEF SetStatus, SetStatusIf
    <3>2. a # "job" => act[a].gen # JobGen
      BY <3>1 DEF ClaimInv, Takes, Resolving
    <3> QED
      BY <3>1, <3>2, <1>n DEF Mine, Owner
  <2> QED
    BY <2>1, <2>2
<1>8. ASSUME NEW a \in Actors \ {"job"}, DeleteManifest(a) \/ ListAfterDelete(a) \/
             MoveDeleted(a)
      PROVE  Ok
  BY <1>u, <1>8 DEF DeleteManifest, ListAfterDelete, MoveDeleted, rowVars
<1>9. ASSUME NEW a \in Actors \ {"job"}, SetDeleted(a) PROVE Ok
  <2>1. CASE row.status # "DELETING"
    BY <1>9, <2>1, <1>u DEF SetDeleted, Lwt
  <2>2. CASE row.status = "DELETING"
    BY <2>2, <1>m, <1>n
  <2> QED
    BY <2>1, <2>2
<1>10. ASSUME NEW c \in Clients, DeleteBackup(c) \/ MoveDeleting(c) PROVE Ok
  BY <1>u, <1>10 DEF DeleteBackup, MoveDeleting, rowVars
<1>11. ASSUME NEW c \in Clients, StartDelete(c) PROVE Ok
  <2>1. CASE row.status # "AVAILABLE"
    BY <1>11, <2>1, <1>u DEF StartDelete, Lwt
  <2>2. CASE row.status = "AVAILABLE"
    BY <2>2, <1>m, <1>n
  <2> QED
    BY <2>1, <2>2
<1>12. ASSUME NEW r \in Reconcilers, FindDead(r) \/ ProbeManifest(r) \/ ProbeFiles(r) \/
             FinishDeleting(r) \/ SweepPrefix(r) \/ FindTombstone(r) \/ RemoveEntries(r)
      PROVE  Ok
  BY <1>u, <1>12 DEF FindDead, ProbeManifest, ProbeFiles, FinishDeleting, SweepPrefix,
     FindTombstone, RemoveEntries, rowVars
<1>13. ASSUME NEW r \in Reconcilers, TakeOver(r) PROVE Ok
  <2>1. CASE row.status = "CREATING" /\ row.gen = act[r].gen
    <3>1. takes + 1 # JobGen
      <4>1. takes \in 0 .. MaxTakes
        BY DEF TypeOK
      <4> QED
        BY <4>1, Constants DEF JobGen
    <3>2. row'.gen = takes + 1
      BY <1>13, <2>1 DEF TakeOver, TypeOK, Rows
    <3>3. act[r].pc = "take" /\ r \in Actors \ {"job"}
      BY <1>13, Constants DEF TakeOver
    <3>4. Mine => hbAge > StaleAfter
      BY <2>1, <3>3 DEF Mine, ClaimInv, Takes
    <3> QED
      BY <3>1, <3>2, <3>4 DEF Ok, Held
  <2>2. CASE ~(row.status = "CREATING" /\ row.gen = act[r].gen)
    BY <1>13, <2>2, <1>u DEF TakeOver
  <2> QED
    BY <2>1, <2>2
<1>14. ASSUME NEW r \in Reconcilers, RemoveRow(r) PROVE Ok
  <2>1. act[r].want \in {"FAILED", "DELETED"}
    BY <1>14, Constants DEF RemoveRow, ActorsInv, Knows
  <2>2. CASE row.status # act[r].want
    BY <1>14, <2>2, <1>u DEF RemoveRow, Lwt
  <2>3. CASE row.status = act[r].want
    BY <2>1, <2>3, <1>m, <1>n
  <2> QED
    BY <2>2, <2>3
<1> QED
  BY Constants, <1>1, <1>2, <1>3, <1>4, <1>5, <1>6, <1>7, <1>8, <1>9, <1>10, <1>11, <1>12, <1>13,
     <1>14 DEF Next, JobStep, TimerStep, ClientStep, ReconcilerStep, Works, Finishes, Beats

(* The steps that touch a heartbeat.                                        *)
HbSame ==
    /\ act["job"].pc \in Owner /\ hbAge' = hbAge /\ hb'.late = hb.late /\ hb'.age = hb.age
    /\ \A b \in Beats : hb'.beat[b].at = "ok" =>
                            hb.beat[b].at = "ok" /\ hb'.beat[b].age = hb.beat[b].age
HbEffect ==
    act'["job"].pc \in Owner =>
        \/ Tick \/ ClaimBackup \/ HbSame
        \/ \E b \in Beats : BeatApply(b) \/ BeatConfirmed(b)

LEMMA HbMove == ASSUME TypeOK, ActorsInv, ClaimInv, Next PROVE HbEffect
<1> DEFINE Ok == HbEffect
<1> SUFFICES Ok
  OBVIOUS
<1> HIDE DEF Ok
<1>t. act \in [Actors -> Actor] /\ act["job"] \in Actor /\ "job" \in Actors /\ hb \in Beating
  BY ActType, Constants DEF TypeOK, Beating, Beat
<1>s. HbSame \/ act'["job"].pc \notin Owner => Ok
  BY DEF Ok, HbEffect
<1>o. Over("job") => Ok
  BY <1>t, <1>s DEF Over, At, Owner
<1>p. /\ act["job"].pc \in Owner \/ act'["job"].pc \notin Owner
      /\ hbAge' = hbAge /\ hb' = hb
      => Ok
  BY <1>s DEF HbSame
<1>q. act'["job"].pc = act["job"].pc /\ hbAge' = hbAge /\ hb' = hb => Ok
  BY <1>p
<1>x. \A a \in Actors : Over(a) /\ hbAge' = hbAge => Ok
  BY <1>o, <1>q, <1>t DEF Over
<1>u. UNCHANGED <<act, hb, hbAge>> => Ok
  BY <1>q
<1>1. CASE Expire
  BY <1>u, <1>1 DEF Expire, rowVars
<1>2. CASE Tick
  BY <1>2 DEF Ok, HbEffect
<1>3. CASE Settle
  <2>1. act["job"].pc \in Owner => row.status # "none"
    BY <1>t DEF ActorsInv, Knows, Owner, Rest
  <2>2. CASE row.status = "none"
    BY <1>3, <2>1, <2>2, <1>s DEF Settle
  <2>3. CASE row.status # "none"
    BY <1>3, <2>3, <1>q DEF Settle
  <2> QED
    BY <2>2, <2>3
<1>4. CASE Open
  <2>1. act'["job"].pc = "insert"
    BY <1>4, <1>t DEF Open, Go, Actor
  <2> QED
    BY <2>1, <1>s DEF Owner
<1>5. CASE ClaimBackup
  BY <1>5 DEF Ok, HbEffect
<1>6. CASE ClaimIndex
  <2>1. CASE Over("job")
    BY <2>1, <1>o
  <2>2. CASE ~Over("job")
    <3>1. hb' = [hb EXCEPT !.beat["timer"].age = 0] /\ act["job"].pc = "index" /\ hbAge' = hbAge
      BY <1>6, <2>2 DEF ClaimIndex, rowVars
    <3>2. hb'.late = hb.late /\ hb'.age = hb.age /\ \A b \in Beats : hb'.beat[b].at = hb.beat[b].at
      BY <3>1, <1>t DEF Beating, Beat, Beats
    <3>3. \A b \in Beats : hb.beat[b].at = "idle"
      BY <3>1 DEF ClaimInv
    <3> QED
      BY <3>1, <3>2, <3>3, <1>s DEF HbSame, Owner
  <2> QED
    BY <2>1, <2>2
<1>7. CASE PutStart
  <2>1. CASE Over("job")
    BY <2>1, <1>o
  <2>2. CASE ~Over("job")
    BY <1>7, <2>2, <1>p DEF PutStart, Go, Owner, rowVars
  <2> QED
    BY <2>1, <2>2
<1>8. CASE PutReturn
  BY <1>8, <1>p DEF PutReturn, Owner, rowVars
<1>9. CASE PutLost
  BY <1>9, <1>o DEF PutLost
<1>10. CASE JobFails
  BY <1>10, <1>p DEF JobFails, Owner, rowVars
<1>11. CASE Recheck
  <2>1. hb' = [hb EXCEPT !.beat["recheck"] = [at |-> "sent", age |-> 0]] /\ hbAge' = hbAge
    BY <1>11 DEF Recheck, rowVars
  <2>2. /\ hb'.late = hb.late /\ hb'.age = hb.age
        /\ \A b \in Beats : IF b = "recheck" THEN hb'.beat[b].at = "sent"
                             ELSE hb'.beat[b] = hb.beat[b]
    BY <2>1, <1>t DEF Beating, Beat, Beats
  <2>3. act["job"].pc \in Owner \/ act'["job"].pc \notin Owner
    BY <1>11 DEF Recheck, Owner
  <2> QED
    BY <2>1, <2>2, <2>3, <1>s DEF HbSame
<1>12. CASE BeatSend
  <2>1. /\ hb' = [hb EXCEPT !.beat["timer"] = [at |-> "sent", age |-> 0], !.sent = hb.sent + 1]
        /\ hbAge' = hbAge
    BY <1>12 DEF BeatSend, rowVars
  <2>2. /\ hb'.late = hb.late /\ hb'.age = hb.age
        /\ \A b \in Beats : IF b = "timer" THEN hb'.beat[b].at = "sent"
                             ELSE hb'.beat[b] = hb.beat[b]
    BY <2>1, <1>t DEF Beating, Beat, Beats
  <2>3. act["job"].pc \in Owner \/ act'["job"].pc \notin Owner
    BY <1>12 DEF BeatSend, Owner
  <2> QED
    BY <2>1, <2>2, <2>3, <1>s DEF HbSame
<1>13. ASSUME NEW o \in Objects, Land(o) PROVE Ok
  BY <1>u, <1>13 DEF Land, rowVars
<1>14. ASSUME NEW b \in Beats, BeatApply(b) PROVE Ok
  BY <1>14 DEF Ok, HbEffect
<1>15. ASSUME NEW b \in Beats, BeatConfirmed(b) PROVE Ok
  BY <1>15 DEF Ok, HbEffect
<1>16. ASSUME NEW b \in Beats, BeatLost(b) PROVE Ok
  <2>1. CASE Over("job")
    BY <2>1, <1>o
  <2>2. CASE ~Over("job")
    <3>1. /\ hb' = [hb EXCEPT !.lost = TRUE, !.beat[b].at = IF @ = "sent" THEN @ ELSE "idle"]
          /\ act' = act /\ hbAge' = hbAge
      BY <1>16, <2>2, Zenon DEF BeatLost, rowVars
    <3>2. /\ hb'.late = hb.late /\ hb'.age = hb.age /\ hb'.beat[b].at # "ok"
          /\ \A x \in Beats \ {b} : hb'.beat[x] = hb.beat[x]
      BY <3>1, <1>t DEF Beating, Beat
    <3> QED
      BY <3>1, <3>2, <1>s DEF HbSame
  <2> QED
    BY <2>1, <2>2
<1>17. ASSUME NEW a \in Actors, SetStatus(a) PROVE Ok
  <2>1. CASE Over(a)
    BY <1>17, <2>1, <1>x DEF SetStatus, rowVars
  <2>2. CASE ~Over(a)
    <3>1. hb' = hb /\ hbAge' = hbAge /\ (act'["job"] = act["job"] \/ act'["job"].pc \notin Owner)
      BY <1>17, <2>2, <1>t DEF SetStatus, Go, Actor, Owner, rowVars, Written
    <3> QED
      BY <3>1, <1>s, <1>q
  <2> QED
    BY <2>1, <2>2
<1>18. ASSUME NEW a \in Actors, Reread(a) PROVE Ok
  <2>1. CASE Over(a)
    BY <1>18, <2>1, <1>x DEF Reread, rowVars
  <2>2. CASE ~Over(a)
    <3>1. hb' = hb /\ hbAge' = hbAge /\ (act'["job"] = act["job"] \/ act'["job"].pc \notin Owner)
      BY <1>18, <2>2, <1>t DEF Reread, Go, Actor, Owner, rowVars, Written
    <3> QED
      BY <3>1, <1>s, <1>q
  <2> QED
    BY <2>1, <2>2
<1>19. ASSUME NEW a \in Actors, MoveStatus(a) PROVE Ok
  <2>1. CASE Over(a)
    BY <1>19, <2>1, <1>x DEF MoveStatus, rowVars
  <2>2. CASE ~Over(a)
    <3>1. hb' = hb /\ hbAge' = hbAge /\ (act'["job"] = act["job"] \/ act'["job"].pc \notin Owner)
      BY <1>19, <2>2, <1>t DEF MoveStatus, Go, Actor, Owner, rowVars, Written
    <3> QED
      BY <3>1, <1>s, <1>q
  <2> QED
    BY <2>1, <2>2
<1>20. ASSUME NEW a \in Actors, ListPrefix(a) PROVE Ok
  <2>1. CASE Over(a)
    BY <1>20, <2>1, <1>x DEF ListPrefix, rowVars
  <2>2. CASE ~Over(a)
    <3>1. hb' = hb /\ hbAge' = hbAge /\ (act'["job"] = act["job"] \/ act'["job"].pc \notin Owner)
      BY <1>20, <2>2, <1>t DEF ListPrefix, Go, Actor, Owner, rowVars
    <3> QED
      BY <3>1, <1>s, <1>q
  <2> QED
    BY <2>1, <2>2
<1>21. ASSUME NEW a \in Actors, DeleteObject(a) PROVE Ok
  <2>1. CASE Over(a)
    BY <1>21, <2>1, <1>x DEF DeleteObject, rowVars
  <2>2. CASE ~Over(a)
    <3>1. /\ hb' = hb /\ hbAge' = hbAge
          /\ act'["job"].pc = act["job"].pc \/ act'["job"].pc \notin Owner
      BY <1>21, <2>2, <1>t DEF DeleteObject, Go, Actor, Owner, rowVars
    <3> QED
      BY <3>1, <1>s, <1>q
  <2> QED
    BY <2>1, <2>2
<1>22. ASSUME NEW a \in Actors, StatusError(a) PROVE Ok
  <2>1. CASE Over(a)
    BY <1>22, <2>1, <1>x DEF StatusError, rowVars
  <2>2. CASE ~Over(a)
    <3>1. hb' = hb /\ hbAge' = hbAge /\ (act'["job"] = act["job"] \/ act'["job"].pc \notin Owner)
      BY <1>22, <2>2, <1>t DEF StatusError, Go, Actor, Owner, rowVars, Written
    <3> QED
      BY <3>1, <1>s, <1>q
  <2> QED
    BY <2>1, <2>2
<1>23. ASSUME NEW a \in Actors, StoreError(a) PROVE Ok
  BY <1>23, <1>x DEF StoreError, rowVars
<1>24. ASSUME NEW a \in Actors, Crash(a) PROVE Ok
  BY <1>24, <1>x DEF Crash, rowVars
<1>25. ASSUME NEW a \in Actors \ {"job"}, DeleteManifest(a) PROVE Ok
  <2>1. act'["job"].pc = act["job"].pc /\ hb' = hb /\ hbAge' = hbAge
    BY <1>25, <1>t, Constants DEF DeleteManifest, Go, Over, rowVars
  <2> QED
    BY <2>1, <1>q
<1>26. ASSUME NEW a \in Actors \ {"job"}, ListAfterDelete(a) PROVE Ok
  <2>1. act'["job"].pc = act["job"].pc /\ hb' = hb /\ hbAge' = hbAge
    BY <1>26, <1>t, Constants DEF ListAfterDelete, Go, Over, rowVars
  <2> QED
    BY <2>1, <1>q
<1>27. ASSUME NEW a \in Actors \ {"job"}, SetDeleted(a) PROVE Ok
  <2>1. act'["job"].pc = act["job"].pc /\ hb' = hb /\ hbAge' = hbAge
    BY <1>27, <1>t, Constants DEF SetDeleted, Go, Over, rowVars
  <2> QED
    BY <2>1, <1>q
<1>28. ASSUME NEW a \in Actors \ {"job"}, MoveDeleted(a) PROVE Ok
  <2>1. act'["job"].pc = act["job"].pc /\ hb' = hb /\ hbAge' = hbAge
    BY <1>28, <1>t, Constants DEF MoveDeleted, Go, Over, rowVars
  <2> QED
    BY <2>1, <1>q
<1>29. ASSUME NEW c \in Clients, DeleteBackup(c) PROVE Ok
  <2>1. act'["job"].pc = act["job"].pc /\ hb' = hb /\ hbAge' = hbAge
    BY <1>29, <1>t, Constants DEF DeleteBackup, Go, Over, rowVars
  <2> QED
    BY <2>1, <1>q
<1>30. ASSUME NEW c \in Clients, StartDelete(c) PROVE Ok
  <2>1. act'["job"].pc = act["job"].pc /\ hb' = hb /\ hbAge' = hbAge
    BY <1>30, <1>t, Constants DEF StartDelete, Go, Over, rowVars
  <2> QED
    BY <2>1, <1>q
<1>31. ASSUME NEW c \in Clients, MoveDeleting(c) PROVE Ok
  <2>1. act'["job"].pc = act["job"].pc /\ hb' = hb /\ hbAge' = hbAge
    BY <1>31, <1>t, Constants DEF MoveDeleting, Go, Over, rowVars
  <2> QED
    BY <2>1, <1>q
<1>32. ASSUME NEW r \in Reconcilers, FindDead(r) PROVE Ok
  <2>1. act'["job"].pc = act["job"].pc /\ hb' = hb /\ hbAge' = hbAge
    BY <1>32, <1>t, Constants DEF FindDead, Go, Over, rowVars
  <2> QED
    BY <2>1, <1>q
<1>33. ASSUME NEW r \in Reconcilers, TakeOver(r) PROVE Ok
  <2>1. act'["job"].pc = act["job"].pc /\ hb' = hb /\ hbAge' = hbAge
    BY <1>33, <1>t, Constants DEF TakeOver, Go, Over, rowVars
  <2> QED
    BY <2>1, <1>q
<1>34. ASSUME NEW r \in Reconcilers, ProbeManifest(r) PROVE Ok
  <2>1. act'["job"].pc = act["job"].pc /\ hb' = hb /\ hbAge' = hbAge
    BY <1>34, <1>t, Constants DEF ProbeManifest, Go, Over, rowVars, ReconcilerWrites
  <2> QED
    BY <2>1, <1>q
<1>35. ASSUME NEW r \in Reconcilers, ProbeFiles(r) PROVE Ok
  <2>1. act'["job"].pc = act["job"].pc /\ hb' = hb /\ hbAge' = hbAge
    BY <1>35, <1>t, Constants DEF ProbeFiles, Go, Over, rowVars, ReconcilerWrites
  <2> QED
    BY <2>1, <1>q
<1>36. ASSUME NEW r \in Reconcilers, FinishDeleting(r) PROVE Ok
  <2>1. act'["job"].pc = act["job"].pc /\ hb' = hb /\ hbAge' = hbAge
    BY <1>36, <1>t, Constants DEF FinishDeleting, Go, Over, rowVars
  <2> QED
    BY <2>1, <1>q
<1>37. ASSUME NEW r \in Reconcilers, SweepPrefix(r) PROVE Ok
  <2>1. act'["job"].pc = act["job"].pc /\ hb' = hb /\ hbAge' = hbAge
    BY <1>37, <1>t, Constants DEF SweepPrefix, Go, Over, rowVars
  <2> QED
    BY <2>1, <1>q
<1>38. ASSUME NEW r \in Reconcilers, FindTombstone(r) PROVE Ok
  <2>1. act'["job"].pc = act["job"].pc /\ hb' = hb /\ hbAge' = hbAge
    BY <1>38, <1>t, Constants DEF FindTombstone, Go, Over, rowVars
  <2> QED
    BY <2>1, <1>q
<1>39. ASSUME NEW r \in Reconcilers, RemoveRow(r) PROVE Ok
  <2>1. act'["job"].pc = act["job"].pc /\ hb' = hb /\ hbAge' = hbAge
    BY <1>39, <1>t, Constants DEF RemoveRow, Go, Over, rowVars
  <2> QED
    BY <2>1, <1>q
<1>40. ASSUME NEW r \in Reconcilers, RemoveEntries(r) PROVE Ok
  <2>1. act'["job"].pc = act["job"].pc /\ hb' = hb /\ hbAge' = hbAge
    BY <1>40, <1>t, Constants DEF RemoveEntries, Go, Over, rowVars
  <2> QED
    BY <2>1, <1>q
<1> QED
  BY Constants, <1>1, <1>2, <1>3, <1>4, <1>5, <1>6, <1>7, <1>8, <1>9, <1>10, <1>11, <1>12, <1>13,
     <1>14, <1>15, <1>16, <1>17, <1>18, <1>19, <1>20, <1>21, <1>22, <1>23, <1>24, <1>25, <1>26,
     <1>27, <1>28, <1>29, <1>30, <1>31, <1>32, <1>33, <1>34, <1>35, <1>36, <1>37, <1>38, <1>39,
     <1>40 DEF Next, JobStep, TimerStep, ClientStep, ReconcilerStep, Works, Finishes, Beats

LEMMA ClaimedStep ==
    ASSUME TypeOK, TypeOK', RowInv, ActorsInv, ClaimInv, Next, act'["job"].pc \in Owner
    PROVE  Claimed'
<1> DEFINE Now(age) == row' = JobRow /\ limbo' = NoRow /\ hbAge' <= age
           Ok == /\ row'.gen = JobGen => row' = JobRow /\ limbo' = NoRow
                 /\ \A b \in Beats : hb'.beat[b].at = "ok" /\ hb'.beat[b].age <= Period
                                         => Now(hb'.beat[b].age)
                 /\ ~hb'.late /\ hb'.age <= 2 * Period => Now(hb'.age + Period)
<1> SUFFICES Ok
  BY DEF Claimed, Fresh, JobRow, NoRow
<1>h. hb \in Beating /\ hbAge \in Nat
  BY DEF TypeOK, Beating, Beat
<1>i. hb' \in Beating /\ hbAge' \in Nat
  BY DEF TypeOK, Beating, Beat
<1>g. \A b \in Beats : hb.beat[b] \in Beat /\ hb'.beat[b] \in Beat
  BY <1>h, <1>i DEF Beating
<1>a. /\ hb.age \in Nat /\ hb'.age \in Nat
      /\ \A b \in Beats : hb.beat[b].age \in Nat /\ hb'.beat[b].age \in Nat
  BY <1>h, <1>i, <1>g, Constants DEF Beating, Beat
<1>j. act["job"] \in Actor /\ act \in [Actors -> Actor]
  BY ActType, Constants
<1> HIDE DEF Now
<1>1. CASE HbSame
  <2>1. act["job"].pc \in Owner /\ Claimed
    BY <1>1 DEF HbSame, ClaimInv
  <2>2. row.status # "none"
    BY <2>1, Constants DEF ActorsInv, Knows, Owner, Rest
  <2>3. row'.gen = JobGen => row.gen = JobGen
    BY <2>2, GenStep DEF GenFlow, JobGen, NoGen
  <2>4. Held
    BY HeldStep
  <2>5. row'.gen = JobGen => row' = JobRow /\ limbo' = NoRow
    BY <2>1, <2>3, <2>4 DEF Held, Mine, Claimed
  <2>6. ASSUME NEW age \in Nat, age <= StaleAfter, Fresh(age) PROVE Now(age)
    <3>1. Mine /\ hbAge <= StaleAfter
      BY <2>1, <2>6, <1>h, Constants DEF Mine, Fresh, JobRow
    <3>2. UNCHANGED <<row, limbo>>
      BY <3>1, <2>4, <1>h, Constants DEF Held
    <3> QED
      BY <3>2, <2>6, <1>1 DEF Fresh, HbSame, Now
  <2>7. ASSUME NEW b \in Beats, hb'.beat[b].at = "ok", hb'.beat[b].age <= Period
        PROVE  Now(hb'.beat[b].age)
    <3>1. hb.beat[b].at = "ok" /\ hb'.beat[b].age = hb.beat[b].age
      BY <2>7, <1>1 DEF HbSame
    <3>2. Fresh(hb.beat[b].age) /\ hb.beat[b].age <= StaleAfter
      BY <3>1, <2>7, <2>1, <1>a, Constants DEF Claimed
    <3> QED
      BY <3>1, <3>2, <2>6, <1>a
  <2>8. ASSUME ~hb'.late, hb'.age <= 2 * Period PROVE Now(hb'.age + Period)
    <3>1. ~hb.late /\ hb'.age = hb.age
      BY <2>8, <1>1 DEF HbSame
    <3>2. Fresh(hb.age + Period)
      BY <3>1, <2>8, <2>1 DEF Claimed
    <3>3. hb.age + Period \in Nat /\ hb.age + Period <= StaleAfter
      BY <3>1, <2>8, <1>a, Constants
    <3> QED
      BY <3>1, <3>2, <3>3, <2>6
  <2> QED
    BY <2>5, <2>7, <2>8
<1>2. CASE Tick
  <2>1. act["job"].pc \in Owner /\ Claimed /\ row' = row /\ limbo' = limbo
    BY <1>2 DEF Tick, ClaimInv
  <2>2. hbAge' <= hbAge + 1
    <3>1. hbAge' = 0 \/ hbAge' = Older(hbAge, StaleAfter + 1)
      BY <1>2 DEF Tick
    <3> QED
      BY <3>1, <1>h, Constants DEF Older
  <2>3. hb' = [hb EXCEPT !.age = Older(@, 2 * Period + 1), !.beat = [b \in Beats |-> Aged(b)]]
    BY <1>2, <2>1 DEF Tick, Owner
  <2>4. /\ hb'.age = Older(hb.age, 2 * Period + 1) /\ hb'.late = hb.late
        /\ \A b \in Beats : hb'.beat[b].at = hb.beat[b].at
                            /\ hb'.beat[b].age = Older(hb.beat[b].age, Period + 1)
    BY <2>3, <1>h, <1>g DEF Beating, Beat, Aged
  <2>5. ASSUME NEW age \in Nat, Fresh(age) PROVE Now(age + 1)
    BY <2>1, <2>2, <2>5, <1>h, <1>i DEF Fresh, Now
  <2>6. ASSUME NEW b \in Beats, hb'.beat[b].at = "ok", hb'.beat[b].age <= Period
        PROVE  Now(hb'.beat[b].age)
    <3>1. hb'.beat[b].age = hb.beat[b].age + 1
      BY <2>4, <2>6, <1>a, Constants DEF Older
    <3>2. Fresh(hb.beat[b].age)
      BY <2>1, <2>4, <2>6, <3>1, <1>a, Constants DEF Claimed
    <3> QED
      BY <3>1, <3>2, <2>5, <1>a
  <2>7. ASSUME ~hb'.late, hb'.age <= 2 * Period PROVE Now(hb'.age + Period)
    <3>1. hb'.age = hb.age + 1
      BY <2>4, <2>7, <1>a, Constants DEF Older
    <3>2. Fresh(hb.age + Period)
      BY <2>1, <2>4, <2>7, <3>1, <1>a, Constants DEF Claimed
    <3>3. hb.age + Period \in Nat /\ hb'.age + Period = (hb.age + Period) + 1
      BY <3>1, <1>a, Constants
    <3> QED
      BY <3>2, <3>3, <2>5
  <2>8. row'.gen = JobGen => row' = JobRow /\ limbo' = NoRow
    BY <2>1 DEF Claimed
  <2> QED
    BY <2>6, <2>7, <2>8
<1>3. ASSUME NEW b \in Beats, BeatApply(b) PROVE Ok
  <2>1. /\ act'["job"].pc = act["job"].pc /\ row' = row /\ limbo' = limbo /\ limbo = NoRow
        /\ hbAge' = IF row.gen = JobGen THEN 0 ELSE hbAge
    BY <1>3, <1>j, Constants DEF BeatApply, Actor
  <2>2. act["job"].pc \in Owner /\ Claimed
    BY <2>1 DEF ClaimInv
  <2>3. /\ hb'.age = hb.age /\ hb'.late = hb.late
        /\ hb'.beat[b].at = "ok" => row.gen = JobGen
        /\ \A x \in Beats : x # b => hb'.beat[x] = hb.beat[x]
    BY <1>3, <1>h DEF BeatApply, Beating, Beat
  <2>4. ASSUME NEW age \in Nat, Fresh(age) PROVE Now(age)
    BY <2>1, <2>4, <1>h DEF Fresh, Now
  <2>5. ASSUME row.gen = JobGen, NEW age \in Nat PROVE Now(age)
    BY <2>1, <2>2, <2>5 DEF Claimed, Now
  <2>6. ASSUME NEW x \in Beats, hb'.beat[x].at = "ok", hb'.beat[x].age <= Period
        PROVE  Now(hb'.beat[x].age)
    <3>1. CASE x = b
      BY <3>1, <2>3, <2>5, <2>6, <1>a
    <3>2. CASE x # b
      BY <3>2, <2>2, <2>3, <2>4, <2>6, <1>a DEF Claimed
    <3> QED
      BY <3>1, <3>2
  <2>7. ASSUME ~hb'.late, hb'.age <= 2 * Period PROVE Now(hb'.age + Period)
    <3>1. hb.age + Period \in Nat
      BY <1>a, Constants
    <3> QED
      BY <3>1, <2>2, <2>3, <2>4, <2>7 DEF Claimed
  <2>8. row'.gen = JobGen => row' = JobRow /\ limbo' = NoRow
    BY <2>1, <2>2 DEF Claimed
  <2> QED
    BY <2>6, <2>7, <2>8
<1>4. ASSUME NEW b \in Beats, BeatConfirmed(b) PROVE Ok
  <2>1. act["job"].pc \in Owner
    BY <1>4 DEF BeatConfirmed, Awaits, Owner
  <2>2. Claimed /\ row' = row /\ limbo' = limbo /\ hbAge' = hbAge
    BY <1>4, <2>1 DEF BeatConfirmed, ClaimInv, rowVars
  <2>3. hb' = [hb EXCEPT !.age = 0, !.late = hb.beat[b].age > Period, !.beat[b].at = "idle"]
    BY <1>4, Zenon DEF BeatConfirmed
  <2>4. /\ hb'.age = 0 /\ hb'.beat[b].at = "idle"
        /\ \A x \in Beats : x # b => hb'.beat[x] = hb.beat[x]
    BY <2>3, <1>h DEF Beating, Beat
  <2>5. hb'.late <=> hb.beat[b].age > Period
    BY <2>3, <1>h DEF Beating
  <2>6. ASSUME NEW age \in Nat, Fresh(age) PROVE Now(age)
    BY <2>2, <2>6 DEF Fresh, Now
  <2>7. ASSUME NEW x \in Beats, hb'.beat[x].at = "ok", hb'.beat[x].age <= Period
        PROVE  Now(hb'.beat[x].age)
    BY <2>2, <2>4, <2>6, <2>7, <1>a DEF Claimed
  <2>8. ASSUME ~hb'.late PROVE Now(hb'.age + Period)
    <3>1. hb.beat[b].age <= Period /\ hb.beat[b].at = "ok"
      BY <1>4, <2>5, <2>8, <1>a, Constants DEF BeatConfirmed
    <3>2. Fresh(hb.beat[b].age)
      BY <3>1, <2>2 DEF Claimed
    <3>3. Fresh(Period)
      BY <3>1, <3>2, <1>a, <1>h, Constants DEF Fresh
    <3>4. hb'.age + Period = Period
      BY <2>4, Constants
    <3> QED
      BY <3>3, <3>4, <2>6, Constants
  <2>9. row'.gen = JobGen => row' = JobRow /\ limbo' = NoRow
    BY <2>2 DEF Claimed
  <2> QED
    BY <2>7, <2>8, <2>9
<1>5. CASE ClaimBackup
  <2>1. ~Over("job")
    BY <1>j, Constants DEF Over, At, Owner
  <2>2. row' = JobRow /\ limbo' = NoRow /\ hbAge' = 0 /\ hb' = hb /\ act["job"].pc = "insert"
    BY <1>5, <2>1 DEF ClaimBackup, Lwt, JobRow
  <2>3. \A b \in Beats : hb'.beat[b].at = "idle"
    BY <2>2 DEF ClaimInv
  <2>4. \A age \in Nat : Now(age)
    BY <2>2 DEF Now
  <2> QED
    BY <2>2, <2>3, <2>4, <1>a, Constants
<1> QED
  BY HbMove, <1>1, <1>2, <1>3, <1>4, <1>5 DEF HbEffect

(* No beat is out before the job has its claim.                             *)
LEMMA BeatsStep ==
    ASSUME TypeOK, ClaimInv, Next
    PROVE  act'["job"].pc \in Early => \A b \in Beats : hb'.beat[b].at = "idle"
<1> DEFINE Ok == act'["job"].pc \in Early => \A b \in Beats : hb'.beat[b].at = "idle"
<1> SUFFICES Ok
  OBVIOUS
<1> HIDE DEF Ok
<1>t. act \in [Actors -> Actor] /\ act["job"] \in Actor /\ "job" \in Actors /\ hb \in Beating
  BY ActType, Constants DEF TypeOK, Beating, Beat
<1>i. act["job"].pc \in Early => \A b \in Beats : hb.beat[b].at = "idle"
  BY DEF ClaimInv, Early
<1>n. act'["job"].pc \notin Early => Ok
  BY DEF Ok
<1>q. (act'["job"].pc = act["job"].pc \/ act["job"].pc \in Early) /\ hb' = hb => Ok
  BY <1>i DEF Ok
<1>o. Over("job") => Ok
  BY <1>t, <1>n DEF Over, At, Early
<1>x. \A a \in Actors : Over(a) => Ok
  BY <1>o, <1>q, <1>t DEF Over
<1>u. UNCHANGED <<act, hb>> => Ok
  BY <1>q
<1>1. CASE Settle \/ Expire
  BY <1>u, <1>1 DEF Settle, Expire
<1>2. CASE Tick
  <2>1. act' = act /\ \A b \in Beats : hb'.beat[b].at = hb.beat[b].at
    <3>1. CASE act["job"].pc \in {"idle", "done"}
      BY <1>2, <3>1 DEF Tick
    <3>2. CASE act["job"].pc \notin {"idle", "done"}
      <4>1. hb' = [hb EXCEPT !.age = Older(@, 2 * Period + 1), !.beat = [b \in Beats |-> Aged(b)]]
        BY <1>2, <3>2 DEF Tick
      <4> QED
        BY <1>2, <4>1, <1>t DEF Tick, Beating, Beat, Aged
    <3> QED
      BY <3>1, <3>2
  <2> QED
    BY <2>1, <1>i DEF Ok
<1>3. CASE Open
  BY <1>3, <1>q DEF Open, Go, Early
<1>4. CASE ClaimBackup
  BY <1>4, <1>q, <1>o DEF ClaimBackup, Early
<1>5. CASE ClaimIndex
  <2>1. CASE Over("job")
    BY <2>1, <1>o
  <2>2. CASE ~Over("job")
    <3>1. act'["job"].pc = "put"
      BY <1>5, <2>2, <1>t DEF ClaimIndex, Actor
    <3> QED
      BY <3>1, <1>n DEF Early
  <2> QED
    BY <2>1, <2>2
<1>6. CASE PutStart
  <2>1. Over("job") \/ act'["job"].pc \in {"wait"}
    BY <1>6, <1>t DEF PutStart, Go, Actor
  <2> QED
    BY <2>1, <1>o, <1>n DEF Early
<1>7. CASE PutReturn
  <2>1. Over("job") \/ act'["job"].pc \in {"write", "put", "recheck"}
    BY <1>7, <1>t DEF PutReturn, Go, Actor
  <2> QED
    BY <2>1, <1>o, <1>n DEF Early
<1>8. CASE PutLost
  BY <1>8, <1>o DEF PutLost
<1>9. CASE JobFails
  <2>1. Over("job") \/ act'["job"].pc \in {"write"}
    BY <1>9, <1>t DEF JobFails, Go, Actor
  <2> QED
    BY <2>1, <1>o, <1>n DEF Early
<1>10. CASE Recheck
  <2>1. Over("job") \/ act'["job"].pc \in {"rechecking"}
    BY <1>10, <1>t DEF Recheck, Go, Actor
  <2> QED
    BY <2>1, <1>o, <1>n DEF Early
<1>11. CASE BeatSend
  BY <1>11, <1>n DEF BeatSend, Early
<1>12. ASSUME NEW o \in Objects, Land(o) PROVE Ok
  BY <1>u, <1>12 DEF Land
<1>13. ASSUME NEW b \in Beats, BeatApply(b) PROVE Ok
  <2>1. act'["job"].pc = act["job"].pc /\ hb.beat[b].at # "idle"
    BY <1>13, <1>t DEF BeatApply, Actor
  <2> QED
    BY <2>1, <1>i, <1>n
<1>14. ASSUME NEW b \in Beats, BeatConfirmed(b) PROVE Ok
  <2>1. act'["job"].pc \in {act["job"].pc, "put"} /\ hb.beat[b].at # "idle"
    BY <1>14, <1>t DEF BeatConfirmed, Actor
  <2> QED
    BY <2>1, <1>i, <1>n DEF Early
<1>15. ASSUME NEW b \in Beats, BeatLost(b) PROVE Ok
  <2>1. (act' = act \/ Over("job")) /\ hb.beat[b].at # "idle"
    BY <1>15 DEF BeatLost
  <2> QED
    BY <2>1, <1>i, <1>n, <1>o
<1>16. ASSUME NEW a \in Actors, SetStatus(a) PROVE Ok
  <2>1. CASE Over(a)
    BY <2>1, <1>x
  <2>2. CASE ~Over(a)
    <3>1. /\ hb' = hb
          /\ act'["job"].pc = act["job"].pc \/ act'["job"].pc \notin Early
      BY <1>16, <2>2, <1>t DEF SetStatus, Go, Actor, Early, Written
    <3> QED
      BY <3>1, <1>n, <1>q
  <2> QED
    BY <2>1, <2>2
<1>17. ASSUME NEW a \in Actors, Reread(a) PROVE Ok
  <2>1. CASE Over(a)
    BY <2>1, <1>x
  <2>2. CASE ~Over(a)
    <3>1. /\ hb' = hb
          /\ act'["job"].pc = act["job"].pc \/ act'["job"].pc \notin Early
      BY <1>17, <2>2, <1>t DEF Reread, Go, Actor, Early, Written
    <3> QED
      BY <3>1, <1>n, <1>q
  <2> QED
    BY <2>1, <2>2
<1>18. ASSUME NEW a \in Actors, MoveStatus(a) PROVE Ok
  <2>1. CASE Over(a)
    BY <2>1, <1>x
  <2>2. CASE ~Over(a)
    <3>1. /\ hb' = hb
          /\ act'["job"].pc = act["job"].pc \/ act'["job"].pc \notin Early
      BY <1>18, <2>2, <1>t DEF MoveStatus, Go, Actor, Early, Written
    <3> QED
      BY <3>1, <1>n, <1>q
  <2> QED
    BY <2>1, <2>2
<1>19. ASSUME NEW a \in Actors, ListPrefix(a) PROVE Ok
  <2>1. CASE Over(a)
    BY <2>1, <1>x
  <2>2. CASE ~Over(a)
    <3>1. /\ hb' = hb
          /\ act'["job"].pc = act["job"].pc \/ act'["job"].pc \notin Early
      BY <1>19, <2>2, <1>t DEF ListPrefix, Go, Actor, Early
    <3> QED
      BY <3>1, <1>n, <1>q
  <2> QED
    BY <2>1, <2>2
<1>20. ASSUME NEW a \in Actors, DeleteObject(a) PROVE Ok
  <2>1. CASE Over(a)
    BY <2>1, <1>x
  <2>2. CASE ~Over(a)
    <3>1. /\ hb' = hb
          /\ act'["job"].pc = act["job"].pc \/ act'["job"].pc \notin Early
      BY <1>20, <2>2, <1>t DEF DeleteObject, Go, Actor, Early
    <3> QED
      BY <3>1, <1>n, <1>q
  <2> QED
    BY <2>1, <2>2
<1>21. ASSUME NEW a \in Actors, StatusError(a) PROVE Ok
  <2>1. CASE Over(a)
    BY <2>1, <1>x
  <2>2. CASE ~Over(a)
    <3>1. /\ hb' = hb
          /\ act'["job"].pc = act["job"].pc \/ act'["job"].pc \notin Early
      BY <1>21, <2>2, <1>t DEF StatusError, Go, Actor, Early, Written
    <3> QED
      BY <3>1, <1>n, <1>q
  <2> QED
    BY <2>1, <2>2
<1>22. ASSUME NEW a \in Actors, StoreError(a) PROVE Ok
  BY <1>22, <1>x DEF StoreError
<1>23. ASSUME NEW a \in Actors, Crash(a) PROVE Ok
  BY <1>23, <1>x DEF Crash
<1>24. ASSUME NEW a \in Actors \ {"job"}, DeleteManifest(a) PROVE Ok
  <2>1. act'["job"].pc = act["job"].pc /\ hb' = hb
    BY <1>24, <1>t, Constants DEF DeleteManifest, Go, Over, rowVars
  <2> QED
    BY <2>1, <1>q
<1>25. ASSUME NEW a \in Actors \ {"job"}, ListAfterDelete(a) PROVE Ok
  <2>1. act'["job"].pc = act["job"].pc /\ hb' = hb
    BY <1>25, <1>t, Constants DEF ListAfterDelete, Go, Over, rowVars
  <2> QED
    BY <2>1, <1>q
<1>26. ASSUME NEW a \in Actors \ {"job"}, SetDeleted(a) PROVE Ok
  <2>1. act'["job"].pc = act["job"].pc /\ hb' = hb
    BY <1>26, <1>t, Constants DEF SetDeleted, Go, Over, rowVars
  <2> QED
    BY <2>1, <1>q
<1>27. ASSUME NEW a \in Actors \ {"job"}, MoveDeleted(a) PROVE Ok
  <2>1. act'["job"].pc = act["job"].pc /\ hb' = hb
    BY <1>27, <1>t, Constants DEF MoveDeleted, Go, Over, rowVars
  <2> QED
    BY <2>1, <1>q
<1>28. ASSUME NEW c \in Clients, DeleteBackup(c) PROVE Ok
  <2>1. act'["job"].pc = act["job"].pc /\ hb' = hb
    BY <1>28, <1>t, Constants DEF DeleteBackup, Go, Over, rowVars
  <2> QED
    BY <2>1, <1>q
<1>29. ASSUME NEW c \in Clients, StartDelete(c) PROVE Ok
  <2>1. act'["job"].pc = act["job"].pc /\ hb' = hb
    BY <1>29, <1>t, Constants DEF StartDelete, Go, Over, rowVars
  <2> QED
    BY <2>1, <1>q
<1>30. ASSUME NEW c \in Clients, MoveDeleting(c) PROVE Ok
  <2>1. act'["job"].pc = act["job"].pc /\ hb' = hb
    BY <1>30, <1>t, Constants DEF MoveDeleting, Go, Over, rowVars
  <2> QED
    BY <2>1, <1>q
<1>31. ASSUME NEW r \in Reconcilers, FindDead(r) PROVE Ok
  <2>1. act'["job"].pc = act["job"].pc /\ hb' = hb
    BY <1>31, <1>t, Constants DEF FindDead, Go, Over, rowVars
  <2> QED
    BY <2>1, <1>q
<1>32. ASSUME NEW r \in Reconcilers, TakeOver(r) PROVE Ok
  <2>1. act'["job"].pc = act["job"].pc /\ hb' = hb
    BY <1>32, <1>t, Constants DEF TakeOver, Go, Over, rowVars
  <2> QED
    BY <2>1, <1>q
<1>33. ASSUME NEW r \in Reconcilers, ProbeManifest(r) PROVE Ok
  <2>1. act'["job"].pc = act["job"].pc /\ hb' = hb
    BY <1>33, <1>t, Constants DEF ProbeManifest, Go, Over, rowVars, ReconcilerWrites
  <2> QED
    BY <2>1, <1>q
<1>34. ASSUME NEW r \in Reconcilers, ProbeFiles(r) PROVE Ok
  <2>1. act'["job"].pc = act["job"].pc /\ hb' = hb
    BY <1>34, <1>t, Constants DEF ProbeFiles, Go, Over, rowVars, ReconcilerWrites
  <2> QED
    BY <2>1, <1>q
<1>35. ASSUME NEW r \in Reconcilers, FinishDeleting(r) PROVE Ok
  <2>1. act'["job"].pc = act["job"].pc /\ hb' = hb
    BY <1>35, <1>t, Constants DEF FinishDeleting, Go, Over, rowVars
  <2> QED
    BY <2>1, <1>q
<1>36. ASSUME NEW r \in Reconcilers, SweepPrefix(r) PROVE Ok
  <2>1. act'["job"].pc = act["job"].pc /\ hb' = hb
    BY <1>36, <1>t, Constants DEF SweepPrefix, Go, Over, rowVars
  <2> QED
    BY <2>1, <1>q
<1>37. ASSUME NEW r \in Reconcilers, FindTombstone(r) PROVE Ok
  <2>1. act'["job"].pc = act["job"].pc /\ hb' = hb
    BY <1>37, <1>t, Constants DEF FindTombstone, Go, Over, rowVars
  <2> QED
    BY <2>1, <1>q
<1>38. ASSUME NEW r \in Reconcilers, RemoveRow(r) PROVE Ok
  <2>1. act'["job"].pc = act["job"].pc /\ hb' = hb
    BY <1>38, <1>t, Constants DEF RemoveRow, Go, Over, rowVars
  <2> QED
    BY <2>1, <1>q
<1>39. ASSUME NEW r \in Reconcilers, RemoveEntries(r) PROVE Ok
  <2>1. act'["job"].pc = act["job"].pc /\ hb' = hb
    BY <1>39, <1>t, Constants DEF RemoveEntries, Go, Over, rowVars
  <2> QED
    BY <2>1, <1>q
<1> QED
  BY Constants, <1>1, <1>2, <1>3, <1>4, <1>5, <1>6, <1>7, <1>8, <1>9, <1>10, <1>11, <1>12, <1>13,
     <1>14, <1>15, <1>16, <1>17, <1>18, <1>19, <1>20, <1>21, <1>22, <1>23, <1>24, <1>25, <1>26,
     <1>27, <1>28, <1>29, <1>30, <1>31, <1>32, <1>33, <1>34, <1>35, <1>36, <1>37, <1>38, <1>39 DEF
     Next, JobStep, TimerStep, ClientStep, ReconcilerStep, Works, Finishes, Beats

(* The heartbeat of a row that stays the job's is renewed by a beat only.   *)
AgeFlow ==
    \/ row'.gen = JobGen => hbAge' >= hbAge
    \/ row.status = "none" \/ \E b \in Beats : BeatApply(b)

LEMMA AgeStep == ASSUME TypeOK, RowInv, Next PROVE AgeFlow
<1> DEFINE Ok == AgeFlow
<1> SUFFICES Ok
  OBVIOUS
<1> HIDE DEF Ok
<1>t. row \in Rows /\ hbAge \in 0 .. StaleAfter + 1 /\ StaleAfter \in Nat
  BY Constants DEF TypeOK
<1>u. UNCHANGED <<hbAge>> => Ok
  BY <1>t DEF Ok, AgeFlow
<1>1. CASE Expire \/ Open \/ ClaimIndex \/ PutStart \/ PutReturn \/ PutLost \/ JobFails \/
           Recheck \/ BeatSend
  BY <1>u, <1>1 DEF Expire, Open, ClaimIndex, PutStart, PutReturn, PutLost, JobFails, Recheck,
     BeatSend, rowVars
<1>2. CASE Tick
  <2>1. row' = row /\ (row.status \in {"none", "removed"} => row.gen = NoGen)
    BY <1>2 DEF Tick, RowInv, RowShape
  <2>2. CASE row.status \in {"none", "removed"}
    BY <2>1, <2>2 DEF Ok, AgeFlow, JobGen, NoGen
  <2>3. CASE row.status \notin {"none", "removed"}
    <3>1. hbAge' = Older(hbAge, StaleAfter + 1)
      BY <1>2, <2>3 DEF Tick
    <3>2. hbAge' >= hbAge
      BY <3>1, <1>t DEF Older
    <3> QED
      BY <3>2 DEF Ok, AgeFlow
  <2> QED
    BY <2>2, <2>3
<1>3. CASE Settle
  BY <1>3, <1>u DEF Settle, Ok, AgeFlow
<1>4. CASE ClaimBackup
  <2>1. hbAge' = hbAge \/ row = NoRow
    BY <1>4 DEF ClaimBackup, Lwt
  <2> QED
    BY <2>1, <1>u DEF Ok, AgeFlow, NoRow
<1>5. ASSUME NEW o \in Objects, Land(o) PROVE Ok
  BY <1>u, <1>5 DEF Land, rowVars
<1>6. ASSUME NEW b \in Beats, BeatConfirmed(b) \/ BeatLost(b) PROVE Ok
  BY <1>u, <1>6 DEF BeatConfirmed, BeatLost, rowVars
<1>7. ASSUME NEW b \in Beats, BeatApply(b) PROVE Ok
  BY <1>7 DEF Ok, AgeFlow
<1>8. ASSUME NEW a \in Actors, SetStatus(a) \/ Reread(a) \/ MoveStatus(a) \/ ListPrefix(a)
             \/ DeleteObject(a) \/ StatusError(a) \/ StoreError(a) \/ Crash(a)
      PROVE  Ok
  BY <1>u, <1>8 DEF SetStatus, Reread, MoveStatus, ListPrefix, DeleteObject, StatusError,
     StoreError, Crash, rowVars
<1>9. ASSUME NEW a \in Actors \ {"job"}, DeleteManifest(a) \/ ListAfterDelete(a) \/
             SetDeleted(a) \/ MoveDeleted(a)
      PROVE  Ok
  BY <1>u, <1>9 DEF DeleteManifest, ListAfterDelete, SetDeleted, MoveDeleted, rowVars
<1>10. ASSUME NEW c \in Clients, DeleteBackup(c) \/ StartDelete(c) \/ MoveDeleting(c) PROVE Ok
  BY <1>u, <1>10 DEF DeleteBackup, StartDelete, MoveDeleting, rowVars
<1>11. ASSUME NEW r \in Reconcilers, FindDead(r) \/ TakeOver(r) \/ ProbeManifest(r) \/
             ProbeFiles(r) \/ FinishDeleting(r) \/ SweepPrefix(r) \/ FindTombstone(r) \/
             RemoveRow(r) \/ RemoveEntries(r)
      PROVE  Ok
  BY <1>u, <1>11 DEF FindDead, TakeOver, ProbeManifest, ProbeFiles, FinishDeleting, SweepPrefix,
     FindTombstone, RemoveRow, RemoveEntries, rowVars
<1> QED
  BY Constants, <1>1, <1>2, <1>3, <1>4, <1>5, <1>6, <1>7, <1>8, <1>9, <1>10, <1>11 DEF Next,
     JobStep, TimerStep, ClientStep, ReconcilerStep, Works, Finishes, Beats

(* What becomes of the generation an actor goes by.                         *)
Shift(m, n) ==
    \/ n.pc \notin Resolving \cup {"take"} \/ n.gen # JobGen
    \/ n.pc = m.pc /\ n.gen = m.gen
    \/ m.pc \in Resolving /\ n.pc # "take" /\ n.gen = m.gen
Shifts == \A a \in Actors \ {"job"} : Shift(act[a], act'[a]) \/ FindDead(a)

LEMMA ShiftStep == ASSUME TypeOK, Next PROVE Shifts
<1> DEFINE Ok == Shifts
<1> SUFFICES Ok
  OBVIOUS
<1> HIDE DEF Ok
<1>t. act \in [Actors -> Actor] /\ act["job"] \in Actor /\ "job" \in Actors
  BY ActType, Constants
<1>e. \A a \in Actors : \A n : act' = [act EXCEPT ![a] = n] /\ (a = "job" \/ Shift(act[a], n)) => Ok
  BY <1>t DEF Ok, Shifts, Shift
<1>g. \A a \in Actors : \A p :
          /\ act' = [act EXCEPT ![a].pc = p]
          /\ \/ a = "job" \/ p \notin Resolving \cup {"take"}
             \/ act[a].pc \in Resolving /\ p # "take"
          => Ok
  <2> SUFFICES ASSUME NEW a \in Actors, NEW p, act' = [act EXCEPT ![a].pc = p],
                      \/ a = "job" \/ p \notin Resolving \cup {"take"}
                      \/ act[a].pc \in Resolving /\ p # "take"
               PROVE  Ok
    OBVIOUS
  <2>1. PICK n : n = [act[a] EXCEPT !.pc = p]
    OBVIOUS
  <2>2. act' = [act EXCEPT ![a] = n] /\ n.pc = p /\ n.gen = act[a].gen
    BY <2>1, <1>t DEF Actor
  <2> QED
    BY <2>2, <1>e DEF Shift
<1>o. \A a \in Actors : Over(a) => Ok
  <2>1. \A p : At(p).gen # JobGen
    BY DEF At, JobGen, NoGen
  <2> QED
    BY <2>1, <1>e DEF Over, Shift
<1>j. (\A a \in Actors \ {"job"} : act'[a] = act[a]) => Ok
  BY DEF Ok, Shifts, Shift
<1>u. UNCHANGED <<act>> => Ok
  BY DEF Ok, Shifts, Shift
<1>1. CASE Tick \/ Settle \/ Expire \/ BeatSend
  BY <1>u, <1>1 DEF Tick, Settle, Expire, BeatSend
<1>2. CASE Open
  <2>1. \A a \in Actors \ {"job"} : act'[a] = act[a]
    BY <1>2, <1>t DEF Open, Go, Over
  <2> QED
    BY <2>1, <1>j
<1>3. CASE ClaimBackup
  <2>1. \A a \in Actors \ {"job"} : act'[a] = act[a]
    BY <1>3, <1>t DEF ClaimBackup, Go, Over
  <2> QED
    BY <2>1, <1>j
<1>4. CASE ClaimIndex
  <2>1. \A a \in Actors \ {"job"} : act'[a] = act[a]
    BY <1>4, <1>t DEF ClaimIndex, Go, Over
  <2> QED
    BY <2>1, <1>j
<1>5. CASE PutStart
  <2>1. \A a \in Actors \ {"job"} : act'[a] = act[a]
    BY <1>5, <1>t DEF PutStart, Go, Over
  <2> QED
    BY <2>1, <1>j
<1>6. CASE PutReturn
  <2>1. \A a \in Actors \ {"job"} : act'[a] = act[a]
    BY <1>6, <1>t DEF PutReturn, Go, Over
  <2> QED
    BY <2>1, <1>j
<1>7. CASE PutLost
  <2>1. \A a \in Actors \ {"job"} : act'[a] = act[a]
    BY <1>7, <1>t DEF PutLost, Go, Over
  <2> QED
    BY <2>1, <1>j
<1>8. CASE JobFails
  <2>1. \A a \in Actors \ {"job"} : act'[a] = act[a]
    BY <1>8, <1>t DEF JobFails, Go, Over
  <2> QED
    BY <2>1, <1>j
<1>9. CASE Recheck
  <2>1. \A a \in Actors \ {"job"} : act'[a] = act[a]
    BY <1>9, <1>t DEF Recheck, Go, Over
  <2> QED
    BY <2>1, <1>j
<1>10. ASSUME NEW o \in Objects, Land(o) PROVE Ok
  BY <1>u, <1>10 DEF Land
<1>11. ASSUME NEW b \in Beats, BeatApply(b) PROVE Ok
  <2>1. \A a \in Actors : act'[a] = act[a] \/ act'[a].gen = NoGen
    BY <1>11, <1>t DEF BeatApply, Actor
  <2>2. JobGen # NoGen
    BY DEF JobGen, NoGen
  <2> QED
    BY <2>1, <2>2 DEF Ok, Shifts, Shift
<1>12. ASSUME NEW b \in Beats, BeatConfirmed(b) PROVE Ok
  <2>1. \A a \in Actors \ {"job"} : act'[a] = act[a]
    BY <1>12, <1>t DEF BeatConfirmed, Over
  <2> QED
    BY <2>1, <1>j
<1>13. ASSUME NEW b \in Beats, BeatLost(b) PROVE Ok
  <2>1. \A a \in Actors \ {"job"} : act'[a] = act[a]
    BY <1>13, <1>t DEF BeatLost, Over
  <2> QED
    BY <2>1, <1>j
<1>14. ASSUME NEW a \in Actors, SetStatus(a) PROVE Ok
  <2>1. (Go(a, "move") \/ Go(a, "reread") \/ Go(a, "prefix") \/ Over(a)) /\ act[a].pc = "write"
    BY <1>14 DEF SetStatus, Written
  <2> QED
    BY <2>1, <1>g, <1>o DEF Go, Resolving
<1>15. ASSUME NEW a \in Actors, Reread(a) PROVE Ok
  <2>1. PICK n : n = [act[a] EXCEPT !.pc = "write", !.try = 2]
    OBVIOUS
  <2>2. n.pc = "write" /\ n.gen = act[a].gen /\ act[a].pc = "reread"
    BY <1>15, <2>1, <1>t DEF Reread, Actor
  <2>3. act' = [act EXCEPT ![a] = n] \/ Go(a, "prefix") \/ Over(a)
    BY <1>15, <2>1, <1>t DEF Reread, Written
  <2> QED
    BY <2>2, <2>3, <1>e, <1>g, <1>o DEF Go, Shift, Resolving
<1>16. ASSUME NEW a \in Actors, MoveStatus(a) PROVE Ok
  <2>1. Go(a, "prefix") \/ Over(a)
    BY <1>16 DEF MoveStatus, Written
  <2> QED
    BY <2>1, <1>g, <1>o, Constants DEF Go, Resolving
<1>17. ASSUME NEW a \in Actors, ListPrefix(a) PROVE Ok
  <2>1. PICK n : n = [act[a] EXCEPT !.pc = "sweep", !.todo = obj]
    OBVIOUS
  <2>2. n.pc = "sweep"
    BY <2>1, <1>t, Constants DEF Actor
  <2>3. act' = [act EXCEPT ![a] = n]
    BY <1>17, <2>1, <1>t, Constants DEF ListPrefix
  <2> QED
    BY <2>2, <2>3, <1>e, Constants DEF Shift, Resolving
<1>18. ASSUME NEW a \in Actors, DeleteObject(a) PROVE Ok
  <2>1. CASE Go(a, "list") \/ Over(a)
    BY <2>1, <1>g, <1>o DEF Go, Resolving
  <2>2. CASE ~(Go(a, "list") \/ Over(a))
    <3>1. PICK o : act' = [act EXCEPT ![a].todo = @ \ {o}]
      BY <1>18, <2>2 DEF DeleteObject
    <3>2. \A x \in Actors : act'[x].pc = act[x].pc /\ act'[x].gen = act[x].gen
      BY <3>1, <1>t DEF Actor
    <3> QED
      BY <3>2 DEF Ok, Shifts, Shift
  <2> QED
    BY <2>1, <2>2
<1>19. ASSUME NEW a \in Actors, StatusError(a) PROVE Ok
  <2>1. Go(a, "prefix") \/ Over(a)
    BY <1>19 DEF StatusError, Written
  <2> QED
    BY <2>1, <1>g, <1>o, Constants DEF Go, Resolving
<1>20. ASSUME NEW a \in Actors, StoreError(a) PROVE Ok
  BY <1>20, <1>o DEF StoreError
<1>21. ASSUME NEW a \in Actors, Crash(a) PROVE Ok
  BY <1>21, <1>o DEF Crash
<1>22. ASSUME NEW a \in Actors \ {"job"}, DeleteManifest(a) PROVE Ok
  <2>1. PICK n : n = [act[a] EXCEPT !.pc = "prefix", !.want = "DELETED"]
    OBVIOUS
  <2>2. n.pc = "prefix"
    BY <2>1, <1>t, Constants DEF Actor
  <2>3. act' = [act EXCEPT ![a] = n]
    BY <1>22, <2>1, <1>t, Constants DEF DeleteManifest
  <2> QED
    BY <2>2, <2>3, <1>e, Constants DEF Shift, Resolving
<1>23. ASSUME NEW a \in Actors \ {"job"}, ListAfterDelete(a) PROVE Ok
  <2>1. Go(a, "settle") \/ Over(a)
    BY <1>23 DEF ListAfterDelete
  <2> QED
    BY <2>1, <1>g, <1>o, Constants DEF Go, Resolving
<1>24. ASSUME NEW a \in Actors \ {"job"}, SetDeleted(a) PROVE Ok
  <2>1. Go(a, "settled") \/ Over(a)
    BY <1>24 DEF SetDeleted
  <2> QED
    BY <2>1, <1>g, <1>o, Constants DEF Go, Resolving
<1>25. ASSUME NEW a \in Actors \ {"job"}, MoveDeleted(a) PROVE Ok
  BY <1>25, <1>o DEF MoveDeleted
<1>26. ASSUME NEW c \in Clients, DeleteBackup(c) PROVE Ok
  <2>1. Go(c, "mark") \/ Go(c, "manifest") \/ Over(c)
    BY <1>26 DEF DeleteBackup
  <2> QED
    BY <2>1, <1>g, <1>o, Constants DEF Go, Resolving
<1>27. ASSUME NEW c \in Clients, StartDelete(c) PROVE Ok
  <2>1. Go(c, "marked") \/ Go(c, "manifest") \/ Over(c)
    BY <1>27 DEF StartDelete
  <2> QED
    BY <2>1, <1>g, <1>o, Constants DEF Go, Resolving
<1>28. ASSUME NEW c \in Clients, MoveDeleting(c) PROVE Ok
  <2>1. Go(c, "manifest") \/ Over(c)
    BY <1>28 DEF MoveDeleting
  <2> QED
    BY <2>1, <1>g, <1>o, Constants DEF Go, Resolving
<1>29. ASSUME NEW r \in Reconcilers, FindDead(r) PROVE Ok
  <2>1. \A a \in Actors \ {r} : act'[a] = act[a]
    BY <1>29, <1>t DEF FindDead
  <2> QED
    BY <1>29, <2>1 DEF Ok, Shifts, Shift
<1>30. ASSUME NEW r \in Reconcilers, TakeOver(r) PROVE Ok
  <2>1. PICK n : n = [act[r] EXCEPT !.pc = "probe", !.gen = takes + 1]
    OBVIOUS
  <2>2. n.gen # JobGen
    <3>1. n.gen = takes + 1 /\ takes \in 0 .. MaxTakes
      BY <2>1, <1>t, Constants DEF Actor, TypeOK
    <3> QED
      BY <3>1, Constants DEF JobGen
  <2>3. act' = [act EXCEPT ![r] = n] \/ Over(r)
    BY <1>30, <2>1, <1>t, Constants DEF TakeOver
  <2> QED
    BY <2>2, <2>3, <1>e, <1>o, Constants DEF Shift
<1>31. ASSUME NEW r \in Reconcilers, ProbeManifest(r) PROVE Ok
  <2>1. PICK n : n = [act[r] EXCEPT !.pc = "write", !.want = "FAILED"]
    OBVIOUS
  <2>2. n.pc = "write" /\ n.gen = act[r].gen /\ act[r].pc = "probe"
    BY <1>31, <2>1, <1>t, Constants DEF ProbeManifest, Actor
  <2>3. act' = [act EXCEPT ![r] = n] \/ Go(r, "verify")
    BY <1>31, <2>1, <1>t, Constants DEF ProbeManifest, ReconcilerWrites
  <2> QED
    BY <2>2, <2>3, <1>e, <1>g, Constants DEF Go, Shift, Resolving
<1>32. ASSUME NEW r \in Reconcilers, ProbeFiles(r) PROVE Ok
  <2>1. PICK n : n = [act[r] EXCEPT !.pc = "write",
                                    !.want = IF obj = Objects THEN "AVAILABLE" ELSE "FAILED"]
    OBVIOUS
  <2>2. n.pc = "write" /\ n.gen = act[r].gen /\ act[r].pc = "verify"
    BY <1>32, <2>1, <1>t, Constants DEF ProbeFiles, Actor
  <2>3. act' = [act EXCEPT ![r] = n]
    BY <1>32, <2>1, <1>t, Constants DEF ProbeFiles, ReconcilerWrites
  <2> QED
    BY <2>2, <2>3, <1>e, Constants DEF Shift, Resolving
<1>33. ASSUME NEW r \in Reconcilers, FinishDeleting(r) PROVE Ok
  <2>1. Go(r, "manifest") \/ Over(r)
    BY <1>33 DEF FinishDeleting
  <2> QED
    BY <2>1, <1>g, <1>o, Constants DEF Go, Resolving
<1>34. ASSUME NEW r \in Reconcilers, SweepPrefix(r) PROVE Ok
  <2>1. Go(r, "prefix") \/ Over(r)
    BY <1>34 DEF SweepPrefix
  <2> QED
    BY <2>1, <1>g, <1>o, Constants DEF Go, Resolving
<1>35. ASSUME NEW r \in Reconcilers, FindTombstone(r) PROVE Ok
  <2>1. PICK s : act' = [act EXCEPT ![r].pc = "remove", ![r].want = s]
    BY <1>35 DEF FindTombstone
  <2>2. PICK n : n = [act[r] EXCEPT !.pc = "remove", !.want = s]
    OBVIOUS
  <2>3. n.pc = "remove" /\ act' = [act EXCEPT ![r] = n]
    BY <2>1, <2>2, <1>t, Constants DEF Actor
  <2> QED
    BY <2>3, <1>e, Constants DEF Shift, Resolving
<1>36. ASSUME NEW r \in Reconcilers, RemoveRow(r) PROVE Ok
  <2>1. Go(r, "removed") \/ Over(r)
    BY <1>36 DEF RemoveRow
  <2> QED
    BY <2>1, <1>g, <1>o, Constants DEF Go, Resolving
<1>37. ASSUME NEW r \in Reconcilers, RemoveEntries(r) PROVE Ok
  BY <1>37, <1>o, Constants DEF RemoveEntries
<1> QED
  BY Constants, <1>1, <1>2, <1>3, <1>4, <1>5, <1>6, <1>7, <1>8, <1>9, <1>10, <1>11, <1>12, <1>13,
     <1>14, <1>15, <1>16, <1>17, <1>18, <1>19, <1>20, <1>21, <1>22, <1>23, <1>24, <1>25, <1>26,
     <1>27, <1>28, <1>29, <1>30, <1>31, <1>32, <1>33, <1>34, <1>35, <1>36, <1>37 DEF Next,
     JobStep, TimerStep, ClientStep, ReconcilerStep, Works, Finishes, Beats

LEMMA TakesStep ==
    ASSUME TypeOK, RowInv, ActorsInv, ClaimInv, Next
    PROVE  \A a \in Actors \ {"job"} : Takes(act[a])'
<1> TAKE a \in Actors \ {"job"}
<1> DEFINE m == act[a]
           n == act'[a]
<1>t. act \in [Actors -> Actor] /\ m \in Actor /\ hbAge \in Nat /\ hbAge' \in Nat
  BY ActType, RowTypesStep, TypeStep DEF TypeOK
<1>1. Takes(m) /\ (Shift(m, n) \/ FindDead(a))
  BY ShiftStep DEF ClaimInv, Shifts
<1>2. CASE FindDead(a)
  <2>1. n.pc = "take" /\ hbAge > StaleAfter /\ hbAge' = hbAge
    BY <1>2, <1>t DEF FindDead, Dead, Actor, rowVars
  <2> QED
    BY <2>1 DEF Takes, Resolving
<1>3. CASE Shift(m, n)
  <2>1. n.pc \in Resolving => n.gen # JobGen
    BY <1>1, <1>3 DEF Shift, Takes, Resolving
  <2>2. ASSUME n.pc = "take", n.gen = JobGen, row'.gen = JobGen PROVE hbAge' > StaleAfter
    <3>1. m.pc = "take" /\ m.gen = JobGen
      BY <2>2, <1>3 DEF Shift
    <3>2. row.status # "none"
      BY <3>1 DEF ActorsInv, Knows, Rest
    <3>3. row.gen = JobGen
      BY <3>2, <2>2, GenStep DEF GenFlow, JobGen, NoGen
    <3>4. ASSUME NEW b \in Beats, BeatApply(b) PROVE FALSE
      <4>1. n.gen = NoGen
        BY <3>1, <3>3, <3>4, <1>t DEF BeatApply, Actor
      <4> QED
        BY <4>1, <2>2 DEF JobGen, NoGen
    <3>5. hbAge' >= hbAge
      BY AgeStep, <2>2, <3>2, <3>4 DEF AgeFlow
    <3>6. hbAge > StaleAfter
      BY <1>1, <3>1, <3>3 DEF Takes
    <3> QED
      BY <3>5, <3>6, <1>t, Constants
  <2> QED
    BY <2>1, <2>2 DEF Takes
<1> QED
  BY <1>1, <1>2, <1>3

-----------------------------------------------------------------------------
(* The invariant.                                                           *)

LEMMA BackupInit == Init => BackupInv
<1> SUFFICES ASSUME Init PROVE BackupInv
  OBVIOUS
<1>i. /\ row = NoRow /\ limbo = NoRow /\ hbAge = 0 /\ expired = FALSE /\ index = {} /\ obj = {}
      /\ flight = {} /\ hb = Quiet /\ result = "none" /\ takes = 0 /\ faults = 0
  BY DEF Init
<1>a. \A a \in Actors : act[a] = At("idle") /\ act[a].pc = "idle" /\ act[a].next = 1
  BY DEF Init, At
<1>r. row.status = "none" /\ row.gen = NoGen
  BY <1>i DEF NoRow
<1>1. TypeOK
  <2>1. act \in [Actors -> Actor] /\ hb \in Beating
    BY AtType, QuietType, <1>i DEF Init, PCs
  <2>2. NoRow \in Rows
    BY Constants DEF NoRow, Rows, Status, NoGen
  <2>3. 0 \in 0 .. StaleAfter + 1 /\ 0 \in 0 .. MaxTakes /\ 0 \in 0 .. MaxFaults
    BY Constants
  <2> QED
    BY <2>1, <2>2, <2>3, <1>i DEF TypeOK, Actor, Beating, Beat
<1>2. RowInv
  BY <1>i DEF RowInv, RowShape, NoRow
<1>3. ActorsInv
  BY <1>a DEF ActorsInv, Knows, Rest, Erasing
<1>4. JobInv
  BY <1>a, <1>i, <1>r, Constants DEF JobInv, Puts, Putting, Whole
<1>5. StoreInv
  BY <1>i DEF StoreInv, NoRow, Whole
<1>6. Succeeded
  BY <1>i DEF Succeeded
<1>7. ClaimInv
  <2>1. act["job"].pc \notin Owner /\ \A b \in Beats : hb.beat[b].at = "idle"
    BY <1>a, <1>i, Constants DEF Owner, Quiet
  <2> QED
    BY <2>1, <1>a DEF ClaimInv, Takes, Resolving
<1> QED
  BY <1>1, <1>2, <1>3, <1>4, <1>5, <1>6, <1>7 DEF BackupInv

LEMMA ClaimStep == ASSUME TypeOK, TypeOK', RowInv, ActorsInv, ClaimInv, Next PROVE ClaimInv'
BY ClaimedStep, BeatsStep, TakesStep DEF ClaimInv, Early

LEMMA BackupStep == BackupInv /\ [Next]_vars => BackupInv'
<1> SUFFICES ASSUME BackupInv, [Next]_vars PROVE BackupInv'
  OBVIOUS
<1>1. CASE Next
  <2>1. TypeOK' /\ RowInv'
    BY <1>1, TypeStep, RowStep DEF BackupInv, RowMove
  <2>2. ActorsInv' /\ JobInv' /\ StoreInv'
    BY <1>1, ActorsStep, JobStepInv, StoreStep DEF BackupInv
  <2>3. Succeeded' /\ ClaimInv'
    BY <1>1, <2>1, SucceededStep, ClaimStep DEF BackupInv
  <2> QED
    BY <2>1, <2>2, <2>3 DEF BackupInv
<1>2. CASE UNCHANGED vars
  <2>1. TypeOK' /\ RowInv'
    BY <1>2 DEF BackupInv, vars, TypeOK, RowInv
  <2>2. ActorsInv' /\ JobInv' /\ StoreInv' /\ Succeeded'
    BY <1>2 DEF BackupInv, vars, ActorsInv, Knows, Writing, Moving, JobInv, Puts, StoreInv, Succeeded
  <2>3. ClaimInv'
    BY <1>2 DEF BackupInv, vars, ClaimInv, Claimed, Fresh, Takes
  <2> QED
    BY <2>1, <2>2, <2>3 DEF BackupInv
<1> QED
  BY <1>1, <1>2

LEMMA BackupInvariant == Spec => []BackupInv
BY BackupInit, BackupStep, PTL DEF Spec

(* A row that is AVAILABLE has every object of the backup in the store,     *)
(* whichever of the job's set_status and the reconciler's made it so and    *)
(* whatever delete_prefix, of a job whose FAILED write matched, of a sweep  *)
(* or of finish_backup_delete, is under way.                                *)
THEOREM BackupAvailableComplete == Spec => []AvailableComplete
<1>1. BackupInv => AvailableComplete
  BY DEF BackupInv, StoreInv, AvailableComplete
<1> QED
  BY <1>1, BackupInvariant, PTL

(* A manifest that a reader finds while the row is CREATING or DELETING     *)
(* stands for a complete backup: the job puts it last and after everything  *)
(* else has landed, and finish_backup_delete removes it before the rest.    *)
THEOREM BackupManifestMeansComplete == Spec => []ManifestMeansComplete
<1>1. BackupInv => ManifestMeansComplete
  <2> SUFFICES ASSUME BackupInv, row.status \in {"CREATING", "DELETING"}, Manifest \in obj
               PROVE  obj = Objects
    BY DEF ManifestMeansComplete
  <2>1. obj \subseteq Objects
    BY DEF BackupInv, TypeOK
  <2> QED
    BY <2>1 DEF BackupInv, StoreInv
<1> QED
  BY <1>1, BackupInvariant, PTL

(* A job that reported success keeps its backup: once write_status said     *)
(* AVAILABLE, by the answer of set_status or by the re-read after an        *)
(* unknown outcome, no reconciler turns the row back or fails it.           *)
THEOREM BackupSucceededKept == Spec => []SucceededKept
<1>1. BackupInv => SucceededKept
  BY DEF BackupInv, Succeeded, SucceededKept, Kept
<1> QED
  BY <1>1, BackupInvariant, PTL

(* confirms_the_claim is exact while beats are read in time: a put starts   *)
(* only while the row is CREATING under the job's generation, because a     *)
(* confirmation that is at most two periods old is younger than the window  *)
(* after which claim_dead_backup takes the row over.                        *)
THEOREM BackupPutUnderClaim == Spec => PutUnderClaim
<1> DEFINE Started == PutStart /\ flight' # flight /\ ~hb.late
                         => row = [status |-> "CREATING", gen |-> JobGen]
<1>1. BackupInv => Started
  <2> SUFFICES ASSUME BackupInv, PutStart, flight' # flight, ~hb.late
               PROVE  row = [status |-> "CREATING", gen |-> JobGen]
    OBVIOUS
  <2>1. act["job"].pc = "put" /\ hb.age <= 2 * Period
    BY DEF PutStart, ConfirmsTheClaim
  <2>2. Claimed
    BY <2>1 DEF BackupInv, ClaimInv, Owner
  <2> QED
    BY <2>1, <2>2 DEF Claimed, Fresh, JobRow
<1>2. Spec => [][Started]_vars
  BY <1>1, BackupInvariant, PTL
<1> QED
  BY <1>2 DEF PutUnderClaim

=============================================================================
