------------------------- MODULE RegistrationsProofs -------------------------
(***************************************************************************)
(* Registrations for every number of servers, rows and migrations, and for  *)
(* all durations with LostAfter + RenewEvery + StopBound + 4 * Lag < Ttl.   *)
(*                                                                         *)
(* The argument: a row lives for Ttl from the send of the last successful   *)
(* write of it, and the renewal task gives up soon enough (OnTime) for the  *)
(* server to see the loss and stop its workers while the row still lives    *)
(* (InTime).  A row a server relies on (Relies) is therefore one that a     *)
(* migration finds; and a server comes to rely on a row only when it has    *)
(* seen no lock with the row written, when no migration has yet read it     *)
(* (Unread).  So a migration that found no row has no server beside it, and *)
(* the catalog changes under nobody (Current).                              *)
(***************************************************************************)
EXTENDS Registrations, TLAPS

Renewing == {"asleep", "renewing"}
Holding == Renewing \cup {"lost"}

(* Which registration a server has in which phase.                          *)
Slots(s) ==
    /\ cur[s] # None => Owner[cur[s]] = s /\ task[cur[s]] \in Holding
    /\ trial[s] # None => Owner[trial[s]] = s /\ trial[s] # cur[s] /\ phase[s] \in Trying
    /\ phase[s] = "insert" => trial[s] # None /\ task[trial[s]] = "asked"
    /\ phase[s] \in {"lock", "status"} => trial[s] # None /\ task[trial[s]] \in Holding
    /\ phase[s] \in {"open", "up", "stop"} => cur[s] # None
    /\ phase[s] \in {"open", "up"} => age[s] = 0
    /\ phase[s] = "up" => workers[s] = "on"
    /\ phase[s] = "stop" => task[cur[s]] = "lost"
    /\ workers[s] = "on" => cur[s] # None /\ phase[s] \in {"up", "stop", "halt"}

(* How old the last successful write is, and how long the row lives yet.    *)
OnTime(r) ==
    /\ left[r] <= Ttl
    /\ task[r] # "lost" => lostAge[r] = 0
    /\ task[r] = "asked" => /\ okAge[r] <= RequestTimeout + Lag
                            /\ landed[r] => Ttl <= left[r] + okAge[r]
    /\ task[r] = "asleep" => okAge[r] <= LostAfter + Lag
    /\ task[r] = "renewing" =>
          /\ sentAt[r] <= LostAfter + Lag /\ sentAt[r] <= okAge[r]
          /\ okAge[r] <= AttemptEnd(r) + Lag
          /\ landed[r] => Ttl <= left[r] + (okAge[r] - sentAt[r])
    /\ task[r] \in Renewing => Ttl <= left[r] + okAge[r]
    /\ task[r] \in {"none", "dropped"} => okAge[r] = 0 /\ ~landed[r]

(* What a row has left when its loss is reported.                           *)
Slack == Ttl - (LostAfter + RenewEvery + 2 * Lag)

(* A server that has lost its registration stops in time.                   *)
InTime(s) ==
    (workers[s] = "on" /\ ~late[s]) =>
        /\ (phase[s] = "up" /\ task[cur[s]] = "lost") =>
              Slack <= left[cur[s]] + lostAge[cur[s]] /\ lostAge[cur[s]] <= Lag
        /\ phase[s] \in {"stop", "halt"} => age[s] <= StopBound + Lag
        /\ (phase[s] \in {"stop", "halt"} /\ task[cur[s]] = "lost") =>
              Slack <= left[cur[s]] + age[s] + Lag

(* Server s relies on row r to keep migrations away.                        *)
Relies(s, r) ==
    \/ r = cur[s] /\ workers[s] = "on" /\ ~late[s]
    \/ r = cur[s] /\ phase[s] = "open" /\ task[r] # "lost"
    \/ r = trial[s] /\ phase[s] = "status" /\ task[r] # "lost"

Locking ==
    /\ lock = None => clear = {}
    /\ \A m \in Migrations : stage[m] # "idle" => lock = m
    /\ \A m \in Migrations : stage[m] = "working" => clear = Regs

(* What the migration found gone nobody relies on.                          *)
Unread(s) == \A r \in clear : ~Relies(s, r)

Current(s) ==
    ((phase[s] = "open" /\ task[cur[s]] # "lost") \/ (phase[s] = "up" /\ ~late[s]))
        => started[s] = status

ServerInv(s) == Slots(s) /\ InTime(s) /\ Unread(s) /\ Current(s)

RegistrationInv ==
    TypeOK /\ Locking /\ (\A r \in Regs : OnTime(r)) /\ (\A s \in Servers : ServerInv(s))

-----------------------------------------------------------------------------
(* The registrations that end are reset, the others stay as they are.       *)
LEMMA FinishTyped ==
    ASSUME TypeOK, NEW R \in SUBSET Regs, NEW t \in Tasks, Finish(R, t)
    PROVE  /\ left' \in [Regs -> Nat] /\ task' \in [Regs -> Tasks]
           /\ okAge' \in [Regs -> Nat] /\ nextAt' \in [Regs -> Nat] /\ sentAt' \in [Regs -> Nat]
           /\ landed' \in [Regs -> BOOLEAN] /\ lostAge' \in [Regs -> Nat] /\ ghosts' \subseteq Regs
<1>1. left' \in [Regs -> Nat] /\ task' \in [Regs -> Tasks] /\ ghosts' \subseteq Regs
  BY DEF TypeOK, Finish
<1>2. okAge' \in [Regs -> Nat] /\ nextAt' \in [Regs -> Nat] /\ sentAt' \in [Regs -> Nat]
  BY DEF TypeOK, Finish
<1>3. landed' \in [Regs -> BOOLEAN] /\ lostAge' \in [Regs -> Nat]
  BY DEF TypeOK, Finish
<1> QED BY <1>1, <1>2, <1>3

LEMMA RegType == ASSUME TypeOK, NEW r \in Regs, RegStep(r), OnTime(r) PROVE TypeOK'
<1> USE RegistrationAssumption
<1> USE DEF TypeOK, clockVars, serverVars, migrationVars, Tasks
<1>1. CASE SendRenewal(r)
  BY <1>1 DEF SendRenewal
<1>2. CASE InsertLands(r)
  BY <1>2 DEF InsertLands
<1>3. CASE GhostLands(r)
  BY <1>3 DEF GhostLands
<1>4. CASE Renewed(r)
  <2>1. okAge[r] - sentAt[r] \in Nat
    BY <1>4 DEF Renewed, OnTime
  <2> QED BY <1>4, <2>1 DEF Renewed
<1>5. CASE RenewFails(r)
  BY <1>5 DEF RenewFails, GiveUpRenewal
<1>6. CASE ReportLoss(r)
  BY <1>6 DEF ReportLoss, GiveUpRenewal
<1>7. CASE DeleteRow(r)
  BY <1>7 DEF DeleteRow
<1> QED BY <1>1, <1>2, <1>3, <1>4, <1>5, <1>6, <1>7 DEF RegStep

LEMMA ServerType ==
    ASSUME TypeOK, NEW s \in Servers, Slots(s), ServerStep(s) PROVE TypeOK'
<1> USE RegistrationAssumption
<1>1. ASSUME NEW r \in Regs, SendInsert(s, r) PROVE TypeOK'
  BY <1>1 DEF TypeOK, SendInsert, clockVars, migrationVars, Tasks, Phases
<1>2. CASE Registered(s)
  <2>1. trial[s] \in Regs
    BY <1>2 DEF Registered, Slots, TypeOK
  <2> QED BY <1>2, <2>1 DEF TypeOK, Registered, migrationVars, Tasks, Phases
<1>3. CASE ReadLock(s) \/ NoticeLoss(s) \/ Shutdown(s)
  BY <1>3 DEF TypeOK, ReadLock, NoticeLoss, Shutdown, regVars, clockVars, migrationVars, Phases
<1>8. CASE WorkersEnd(s) \/ WorkersStuck(s)
  <2>1. phase' \in [Servers -> Phases] /\ age' \in [Servers -> Nat]
    BY <1>8 DEF WorkersEnd, WorkersStuck, TypeOK, Phases
  <2> QED BY <1>8, <2>1 DEF TypeOK, WorkersEnd, WorkersStuck, regVars, clockVars, migrationVars
<1>7. CASE Open(s)
  <2>1. late' \in [Servers -> BOOLEAN]
    BY <1>7, ZenonT(30) DEF Open, TypeOK
  <2> QED BY <1>7, <2>1 DEF TypeOK, Open, regVars, clockVars, migrationVars, Phases
<1>4. CASE ReadStatus(s)
  <2>1. Finish({cur[s]} \cap Regs, "dropped")
    BY <1>4 DEF ReadStatus, HoldTrial
  <2> QED BY <1>4, <2>1, FinishTyped DEF TypeOK, ReadStatus, HoldTrial, migrationVars, Tasks, Phases
<1>5. CASE Unavailable(s) \/ Refused(s) \/ WindowOver(s) \/ CancelToken(s)
  <2>1. \E R \in SUBSET Regs, t \in Tasks : Finish(R, t)
    BY <1>5 DEF Unavailable, Refused, WindowOver, CancelToken, GiveUpTrial, Tasks
  <2>2. trial' \in [Servers -> Regs \cup {None}]
    BY <1>5 DEF Unavailable, Refused, WindowOver, CancelToken, GiveUpTrial, TypeOK
  <2>3. phase' \in [Servers -> Phases] /\ age' \in [Servers -> Nat]
    BY <1>5 DEF Unavailable, Refused, WindowOver, CancelToken, TypeOK, Phases
  <2>4. UNCHANGED <<cur, again, workers, draining, started, late, migrationVars>>
    BY <1>5 DEF Unavailable, Refused, WindowOver, CancelToken
  <2> QED BY <2>1, <2>2, <2>3, <2>4, FinishTyped DEF TypeOK, migrationVars
<1>6. CASE Release(s) \/ Leave(s) \/ Kill(s)
  <2>1. \E R \in SUBSET Regs, t \in Tasks : Finish(R, t)
    BY <1>6 DEF Release, Leave, Kill, Tasks
  <2>2. Gone(s)
    BY <1>6 DEF Release, Leave, Kill
  <2> QED BY <2>1, <2>2, FinishTyped DEF TypeOK, Gone, migrationVars, Phases
<1> QED BY <1>1, <1>2, <1>3, <1>4, <1>5, <1>6, <1>7, <1>8 DEF ServerStep, Start, TryAgain

LEMMA MigrationType == ASSUME TypeOK, NEW m \in Migrations, MigrationStep(m) PROVE TypeOK'
BY RegistrationAssumption DEF TypeOK, MigrationStep, WaitForNoServers, TakeLock, ReadRow, NoServers,
   Migrate, EndRun, regVars, clockVars, serverVars

LEMMA TickType == ASSUME TypeOK, Tick PROVE TypeOK'
BY RegistrationAssumption DEF TypeOK, Tick, migrationVars

LEMMA TypeStep == ASSUME RegistrationInv, [Next]_vars PROVE TypeOK'
<1>1. TypeOK /\ (\A r \in Regs : OnTime(r)) /\ (\A s \in Servers : Slots(s))
  BY DEF RegistrationInv, ServerInv
<1>2. CASE UNCHANGED vars
  BY <1>1, <1>2 DEF TypeOK, vars, regVars, clockVars, serverVars, migrationVars
<1> QED BY <1>1, <1>2, RegType, ServerType, MigrationType, TickType DEF Next
LEMMA InitInv == Init => RegistrationInv
<1> SUFFICES ASSUME Init PROVE RegistrationInv OBVIOUS
<1> USE RegistrationAssumption
<1>1. TypeOK
  BY DEF Init, TypeOK, Tasks, Phases
<1>2. Locking
  BY DEF Init, Locking
<1>3. ASSUME NEW r \in Regs PROVE OnTime(r)
  BY <1>3 DEF Init, OnTime, Renewing
<1>4. ASSUME NEW s \in Servers PROVE ServerInv(s)
  BY <1>4 DEF Init, ServerInv, Slots, InTime, Unread, Current, Trying
<1> QED BY <1>1, <1>2, <1>3, <1>4 DEF RegistrationInv

-----------------------------------------------------------------------------
(* The renewal task keeps its times.                                        *)
SameReg(r) ==
    /\ left'[r] = left[r] /\ task'[r] = task[r] /\ okAge'[r] = okAge[r]
    /\ sentAt'[r] = sentAt[r] /\ landed'[r] = landed[r] /\ lostAge'[r] = lostAge[r]

LEMMA OnTimeSame == ASSUME NEW r \in Regs, OnTime(r), SameReg(r) PROVE OnTime(r)'
BY DEF OnTime, SameReg, AttemptEnd

LEMMA OnTimeFresh ==
    ASSUME TypeOK, NEW r \in Regs, OnTime(r), task'[r] \in {"none", "dropped"},
           okAge'[r] = 0, lostAge'[r] = 0, ~landed'[r], left'[r] = left[r]
    PROVE  OnTime(r)'
BY DEF OnTime, Renewing

LEMMA RegFrame ==
    ASSUME TypeOK, NEW r \in Regs, RegStep(r), NEW q \in Regs, q # r PROVE SameReg(q)
<1> USE DEF SameReg, TypeOK, clockVars
<1>1. CASE SendRenewal(r)
  BY <1>1 DEF SendRenewal
<1>2. CASE InsertLands(r)
  BY <1>2 DEF InsertLands
<1>3. CASE GhostLands(r)
  BY <1>3 DEF GhostLands
<1>4. CASE Renewed(r)
  BY <1>4 DEF Renewed
<1>5. CASE RenewFails(r)
  BY <1>5 DEF RenewFails, GiveUpRenewal
<1>6. CASE ReportLoss(r)
  BY <1>6 DEF ReportLoss, GiveUpRenewal
<1>7. CASE DeleteRow(r)
  BY <1>7 DEF DeleteRow
<1> QED BY <1>1, <1>2, <1>3, <1>4, <1>5, <1>6, <1>7 DEF RegStep

LEMMA OnTimeReg == ASSUME TypeOK, NEW r \in Regs, RegStep(r), OnTime(r) PROVE OnTime(r)'
<1> USE RegistrationAssumption
<1> USE DEF TypeOK, OnTime, Renewing, AttemptEnd, clockVars
<1>1. CASE SendRenewal(r)
  BY <1>1 DEF SendRenewal
<1>2. CASE InsertLands(r)
  BY <1>2 DEF InsertLands, Requesting
<1>3. CASE GhostLands(r)
  BY <1>3 DEF GhostLands
<1>4. CASE Renewed(r)
  BY <1>4 DEF Renewed
<1>5. CASE RenewFails(r)
  BY <1>5 DEF RenewFails, GiveUpRenewal
<1>6. CASE ReportLoss(r)
  BY <1>6 DEF ReportLoss, GiveUpRenewal
<1>7. CASE DeleteRow(r)
  BY <1>7 DEF DeleteRow
<1> QED BY <1>1, <1>2, <1>3, <1>4, <1>5, <1>6, <1>7 DEF RegStep

LEMMA OnTimeFinish ==
    ASSUME TypeOK, NEW R \in SUBSET Regs, NEW t \in {"none", "dropped"}, Finish(R, t),
           NEW r \in Regs, OnTime(r)
    PROVE  OnTime(r)'
<1>1. CASE r \in R
  BY <1>1, OnTimeFresh DEF Finish, TypeOK
<1>2. CASE r \notin R
  BY <1>2, OnTimeSame DEF Finish, TypeOK, SameReg
<1> QED BY <1>1, <1>2

LEMMA OnTimeTick == ASSUME TypeOK, Tick, NEW r \in Regs, OnTime(r) PROVE OnTime(r)'
<1> USE RegistrationAssumption DEF TypeOK
<1>1. /\ task'[r] = task[r] /\ sentAt'[r] = sentAt[r] /\ landed'[r] = landed[r]
      /\ left'[r] \in Nat /\ left[r] <= left'[r] + 1 /\ left'[r] <= left[r]
      /\ okAge'[r] = IF Counting(r) THEN okAge[r] + 1 ELSE okAge[r]
      /\ task[r] # "lost" => lostAge'[r] = lostAge[r]
      /\ TaskOnTime(r)
  BY DEF Tick
<1>2. AttemptEnd(r)' = AttemptEnd(r) /\ AttemptEnd(r) \in Nat /\ Due(r) \in Nat /\ Due(r) <= LostAfter
  BY <1>1 DEF AttemptEnd, Due
<1> QED BY <1>1, <1>2 DEF OnTime, TaskOnTime, Counting, Renewing

LEMMA OnTimeServer ==
    ASSUME TypeOK, NEW s \in Servers, Slots(s), ServerStep(s), NEW r \in Regs, OnTime(r)
    PROVE  OnTime(r)'
<1> USE RegistrationAssumption
<1>1. ASSUME NEW q \in Regs, SendInsert(s, q) PROVE OnTime(r)'
  <2>1. CASE r # q
    BY <1>1, <2>1, OnTimeSame DEF SendInsert, SameReg, TypeOK, clockVars
  <2>2. CASE r = q
    <3>1. landed[r] => Ttl <= left[r] + okAge[r]
      BY <1>1, <2>2 DEF SendInsert, OnTime
    <3> QED BY <1>1, <2>2, <3>1 DEF SendInsert, OnTime, TypeOK, Renewing, clockVars
  <2> QED BY <2>1, <2>2
<1>2. CASE Registered(s)
  <2>1. trial[s] \in Regs /\ task[trial[s]] = "asked"
    BY <1>2 DEF Registered, Slots, TypeOK
  <2>2. CASE r # trial[s]
    BY <1>2, <2>1, <2>2, OnTimeSame DEF Registered, SameReg, TypeOK
  <2>3. CASE r = trial[s]
    BY <1>2, <2>1, <2>3 DEF Registered, OnTime, TypeOK, Renewing
  <2> QED BY <2>2, <2>3
<1>3. CASE ReadLock(s) \/ NoticeLoss(s) \/ Shutdown(s) \/ WorkersEnd(s) \/ WorkersStuck(s) \/ Open(s)
  <2>1. UNCHANGED regVars
    BY <1>3 DEF ReadLock, NoticeLoss, Shutdown, WorkersEnd, WorkersStuck, Open
  <2> QED BY <2>1, OnTimeSame DEF SameReg, regVars, clockVars
<1>4. CASE \/ ReadStatus(s) \/ Unavailable(s) \/ Refused(s) \/ WindowOver(s) \/ CancelToken(s)
           \/ Release(s) \/ Leave(s) \/ Kill(s)
  <2>1. \E R \in SUBSET Regs, t \in {"none", "dropped"} : Finish(R, t)
    BY <1>4 DEF ReadStatus, HoldTrial, Unavailable, Refused, WindowOver, CancelToken, GiveUpTrial,
       Release, Leave, Kill
  <2> QED BY <2>1, OnTimeFinish
<1> QED BY <1>1, <1>2, <1>3, <1>4 DEF ServerStep, Start, TryAgain

LEMMA OnTimeStep ==
    ASSUME RegistrationInv, [Next]_vars, NEW r \in Regs PROVE OnTime(r)'
<1>1. TypeOK /\ OnTime(r) /\ (\A s \in Servers : Slots(s))
  BY DEF RegistrationInv, ServerInv
<1>2. ASSUME UNCHANGED regVars PROVE OnTime(r)'
  BY <1>1, <1>2, OnTimeSame DEF SameReg, regVars, clockVars
<1>3. ASSUME NEW q \in Regs, RegStep(q) PROVE OnTime(r)'
  BY <1>1, <1>3, OnTimeReg, RegFrame, OnTimeSame
<1>4. ASSUME NEW m \in Migrations, MigrationStep(m) PROVE UNCHANGED regVars
  BY <1>4 DEF MigrationStep, WaitForNoServers, TakeLock, ReadRow, NoServers, Migrate, EndRun
<1>5. UNCHANGED vars => UNCHANGED regVars
  BY DEF vars
<1> QED BY <1>1, <1>2, <1>3, <1>4, <1>5, OnTimeTick, OnTimeServer DEF Next

LEMMA LockingStep == ASSUME RegistrationInv, [Next]_vars PROVE Locking'
<1>1. TypeOK /\ Locking
  BY DEF RegistrationInv
<1>2. ASSUME UNCHANGED migrationVars PROVE Locking'
  BY <1>1, <1>2 DEF Locking, migrationVars
<1>3. ASSUME NEW m \in Migrations, MigrationStep(m) PROVE Locking'
  BY <1>1, <1>3, RegistrationAssumption DEF Locking, TypeOK, MigrationStep, WaitForNoServers, TakeLock,
     ReadRow, NoServers, Migrate, EndRun
<1>4. ASSUME NEW r \in Regs, RegStep(r) PROVE UNCHANGED migrationVars
  BY <1>4 DEF RegStep, SendRenewal, InsertLands, GhostLands, Renewed, RenewFails, ReportLoss,
     GiveUpRenewal, DeleteRow
<1>5. ASSUME NEW s \in Servers, ServerStep(s) PROVE UNCHANGED migrationVars
  BY <1>5 DEF ServerStep, Start, TryAgain, SendInsert, Registered, ReadLock, ReadStatus, HoldTrial,
     Open, Unavailable, Refused, WindowOver, NoticeLoss, WorkersEnd, WorkersStuck, Shutdown,
     CancelToken, Release, Leave, Kill, Gone
<1>6. Tick \/ UNCHANGED vars => UNCHANGED migrationVars
  BY DEF Tick, vars
<1> QED BY <1>2, <1>3, <1>4, <1>5, <1>6 DEF Next

-----------------------------------------------------------------------------
(* A row that a server relies on lives.                                     *)
LEMMA RowLives ==
    ASSUME TypeOK, NEW s \in Servers, NEW r \in Regs, OnTime(r), Slots(s), InTime(s), Relies(s, r)
    PROVE  left[r] > 0
<1> USE RegistrationAssumption
<1>1. ASSUME task[r] \in Renewing PROVE left[r] > 0
  BY <1>1 DEF TypeOK, OnTime, Renewing, AttemptEnd
<1>2. CASE r = cur[s] /\ workers[s] = "on" /\ ~late[s] /\ task[r] = "lost"
  <2>1. phase[s] \in {"up", "stop", "halt"}
    BY <1>2 DEF Slots
  <2>2. CASE phase[s] = "up"
    BY <1>2, <2>2 DEF TypeOK, InTime, Slack
  <2>3. CASE phase[s] \in {"stop", "halt"}
    BY <1>2, <2>3 DEF TypeOK, InTime, Slack
  <2> QED BY <2>1, <2>2, <2>3
<1>3. task[r] \in Holding
  BY DEF Relies, Slots, TypeOK
<1> QED BY <1>1, <1>2, <1>3 DEF Relies, Holding

-----------------------------------------------------------------------------
(* What one server and its registrations do is nothing to another one.      *)
SameServer(s) ==
    /\ phase'[s] = phase[s] /\ cur'[s] = cur[s] /\ trial'[s] = trial[s] /\ age'[s] = age[s]
    /\ workers'[s] = workers[s] /\ started'[s] = started[s] /\ late'[s] = late[s]

SameRegs(s) ==
    \A r \in Regs : Owner[r] = s =>
        left'[r] = left[r] /\ task'[r] = task[r] /\ lostAge'[r] = lostAge[r]

LEMMA SameInv ==
    ASSUME TypeOK, NEW s \in Servers, ServerInv(s), SameServer(s), SameRegs(s),
           UNCHANGED <<clear, status>>
    PROVE  ServerInv(s)'
<1>1. cur[s] # None => cur[s] \in Regs /\ Owner[cur[s]] = s
  BY DEF TypeOK, ServerInv, Slots
<1>2. trial[s] # None => trial[s] \in Regs /\ Owner[trial[s]] = s
  BY DEF TypeOK, ServerInv, Slots
<1>3. Slots(s)'
  BY <1>1, <1>2 DEF ServerInv, Slots, SameServer, SameRegs
<1>4. workers[s] = "on" \/ phase[s] \in {"open", "up", "stop"} => cur[s] # None
  BY DEF ServerInv, Slots
<1>5. InTime(s)'
  BY <1>1, <1>4 DEF ServerInv, InTime, SameServer, SameRegs, Slack
<1>6. phase[s] = "status" => trial[s] # None
  BY DEF ServerInv, Slots
<1>7. Unread(s)'
  BY <1>1, <1>2, <1>4, <1>6 DEF ServerInv, Unread, Relies, SameServer, SameRegs, TypeOK
<1>8. Current(s)'
  BY <1>1, <1>4 DEF ServerInv, Current, SameServer, SameRegs
<1> QED BY <1>3, <1>5, <1>7, <1>8 DEF ServerInv

LEMMA ServerFrame ==
    ASSUME TypeOK, NEW s \in Servers, Slots(s), ServerStep(s), NEW q \in Servers, q # s
    PROVE  SameServer(q) /\ SameRegs(q) /\ UNCHANGED <<clear, status>>
<1> USE RegistrationAssumption
<1>a. (cur[s] # None => Owner[cur[s]] = s) /\ (trial[s] # None => Owner[trial[s]] = s)
  BY DEF Slots
<1>1. SameServer(q)
  BY DEF TypeOK, SameServer, ServerStep, Start, TryAgain, SendInsert, Registered, ReadLock, ReadStatus,
     HoldTrial, Open, Unavailable, Refused, WindowOver, GiveUpTrial, NoticeLoss, WorkersEnd,
     WorkersStuck, Shutdown, CancelToken, Release, Leave, Kill, Gone
<1>2. UNCHANGED <<clear, status>>
  BY DEF ServerStep, Start, TryAgain, SendInsert, Registered, ReadLock, ReadStatus, HoldTrial,
     Open, Unavailable, Refused, WindowOver, NoticeLoss, WorkersEnd, WorkersStuck, Shutdown,
     CancelToken, Release, Leave, Kill, Gone, migrationVars
<1>3. ASSUME NEW R \in SUBSET Regs, NEW t, Finish(R, t), \A r \in R : Owner[r] = s PROVE SameRegs(q)
  BY <1>3 DEF Finish, SameRegs
<1>4. ASSUME NEW r \in Regs, SendInsert(s, r) PROVE SameRegs(q)
  BY <1>4 DEF SendInsert, SameRegs, TypeOK, clockVars
<1>5. CASE Registered(s)
  BY <1>1, <1>2, <1>5, <1>a DEF Registered, Slots, SameRegs, TypeOK
<1>6. CASE ReadLock(s) \/ NoticeLoss(s) \/ Shutdown(s) \/ WorkersEnd(s) \/ WorkersStuck(s) \/ Open(s)
  BY <1>1, <1>2, <1>6 DEF ReadLock, NoticeLoss, Shutdown, WorkersEnd, WorkersStuck, Open, regVars,
     clockVars, SameRegs
<1>7. CASE \/ ReadStatus(s) \/ Unavailable(s) \/ Refused(s) \/ WindowOver(s) \/ CancelToken(s)
           \/ Release(s) \/ Leave(s) \/ Kill(s)
  <2>1. \E R \in SUBSET Regs, t \in Tasks : Finish(R, t) /\ R \subseteq {cur[s], trial[s]}
    BY <1>7 DEF ReadStatus, HoldTrial, Unavailable, Refused, WindowOver, CancelToken, GiveUpTrial,
       Release, Leave, Kill, Tasks
  <2> QED BY <1>1, <1>2, <1>3, <1>a, <2>1
<1> QED BY <1>1, <1>2, <1>4, <1>5, <1>6, <1>7 DEF ServerStep, Start, TryAgain

(* A renewal task only ever loses a registration.                           *)
LEMMA RegFacts ==
    ASSUME TypeOK, NEW r \in Regs, RegStep(r), OnTime(r), NEW q \in Regs, left[q] <= Ttl
    PROVE  /\ task[q] \in Holding => task'[q] \in Holding
           /\ task[q] = "asked" => task'[q] = "asked"
           /\ task[q] = "lost" => task'[q] = "lost" /\ lostAge'[q] = lostAge[q]
           /\ left'[q] \in Nat
           /\ task[q] \in Holding => left'[q] >= left[q]
           /\ (task[q] # "lost" /\ task'[q] = "lost") => Slack <= left'[q] /\ lostAge'[q] = 0
<1> USE RegistrationAssumption
<1> USE DEF TypeOK, clockVars, Holding, Renewing, Requesting
<1>1. CASE SendRenewal(r)
  BY <1>1 DEF SendRenewal
<1>2. CASE InsertLands(r)
  BY <1>2 DEF InsertLands
<1>3. CASE GhostLands(r)
  BY <1>3 DEF GhostLands
<1>4. CASE Renewed(r)
  BY <1>4 DEF Renewed
<1>5. CASE RenewFails(r)
  BY <1>5 DEF RenewFails, GiveUpRenewal
<1>6. CASE ReportLoss(r)
  BY <1>6 DEF ReportLoss, GiveUpRenewal, OnTime, AttemptEnd, Slack
<1>7. CASE DeleteRow(r)
  BY <1>7 DEF DeleteRow
<1> QED BY <1>1, <1>2, <1>3, <1>4, <1>5, <1>6, <1>7 DEF RegStep

LEMMA RegStepServer ==
    ASSUME RegistrationInv, NEW r \in Regs, RegStep(r), NEW s \in Servers PROVE ServerInv(s)'
<1> USE RegistrationAssumption
<1>1. TypeOK /\ OnTime(r) /\ ServerInv(s)
  BY DEF RegistrationInv
<1>2. UNCHANGED <<serverVars, migrationVars>>
  BY DEF RegStep, SendRenewal, InsertLands, GhostLands, Renewed, RenewFails, ReportLoss,
     GiveUpRenewal, DeleteRow
<1>3. ASSUME NEW q \in Regs
      PROVE  /\ task[q] \in Holding => task'[q] \in Holding
             /\ task[q] = "asked" => task'[q] = "asked"
             /\ task[q] = "lost" => task'[q] = "lost" /\ lostAge'[q] = lostAge[q]
             /\ left'[q] \in Nat
             /\ task[q] \in Holding => left'[q] >= left[q]
             /\ (task[q] # "lost" /\ task'[q] = "lost") => Slack <= left'[q] /\ lostAge'[q] = 0
  <2>1. left[q] <= Ttl
    BY DEF RegistrationInv, OnTime
  <2> QED BY <1>1, <2>1, RegFacts
<1>4. /\ cur[s] # None => cur[s] \in Regs /\ task[cur[s]] \in Holding
      /\ trial[s] # None => trial[s] \in Regs
  BY <1>1 DEF TypeOK, ServerInv, Slots
<1>5. Slots(s)'
  BY <1>1, <1>2, <1>3, <1>4 DEF ServerInv, Slots, serverVars
<1>6. workers[s] = "on" \/ phase[s] \in {"open", "up", "stop"} => cur[s] # None
  BY <1>1 DEF ServerInv, Slots
<1>7. InTime(s)'
  <2>1. SUFFICES ASSUME workers[s] = "on", ~late[s]
                 PROVE  /\ (phase[s] = "up" /\ task'[cur[s]] = "lost") =>
                              Slack <= left'[cur[s]] + lostAge'[cur[s]] /\ lostAge'[cur[s]] <= Lag
                        /\ phase[s] \in {"stop", "halt"} => age[s] <= StopBound + Lag
                        /\ (phase[s] \in {"stop", "halt"} /\ task'[cur[s]] = "lost") =>
                              Slack <= left'[cur[s]] + age[s] + Lag
    BY <1>2 DEF InTime, serverVars, Slack
  <2>2. cur[s] \in Regs
    BY <1>4, <1>6, <2>1
  <2>3. CASE task[cur[s]] = "lost"
    BY <1>1, <1>3, <2>1, <2>2, <2>3 DEF TypeOK, ServerInv, InTime, Holding, Slack
  <2>4. CASE task[cur[s]] # "lost"
    BY <1>1, <1>3, <2>1, <2>2, <2>4 DEF TypeOK, ServerInv, InTime, Slack
  <2> QED BY <2>3, <2>4
<1>8. Unread(s)'
  BY <1>1, <1>2, <1>3 DEF TypeOK, ServerInv, Unread, Relies, serverVars, migrationVars
<1>9. Current(s)'
  BY <1>1, <1>2, <1>3, <1>4, <1>6 DEF ServerInv, Current, serverVars, migrationVars
<1> QED BY <1>5, <1>7, <1>8, <1>9 DEF ServerInv

LEMMA TickServer ==
    ASSUME RegistrationInv, Tick, NEW s \in Servers PROVE ServerInv(s)'
<1> USE RegistrationAssumption
<1>1. TypeOK /\ ServerInv(s)
  BY DEF RegistrationInv
<1>2. /\ UNCHANGED <<task, phase, cur, trial, workers, started, late, clear, status>>
      /\ age'[s] = IF Stopping(s) \/ InWindow(s) THEN age[s] + 1 ELSE age[s]
      /\ ServerOnTime(s)
  BY <1>1 DEF Tick, TypeOK, migrationVars
<1>3. ASSUME NEW q \in Regs
      PROVE  /\ left'[q] \in Nat /\ left[q] <= left'[q] + 1
             /\ task[q] = "lost" /\ lostAge[q] < Lag => lostAge'[q] = lostAge[q] + 1
  BY <1>1 DEF Tick, TypeOK
<1>4. Slots(s)'
  BY <1>1, <1>2 DEF ServerInv, Slots, Stopping, InWindow, Trying
<1>5. InTime(s)'
  <2>1. SUFFICES ASSUME workers[s] = "on", ~late[s]
                 PROVE  /\ (phase[s] = "up" /\ task[cur[s]] = "lost") =>
                              Slack <= left'[cur[s]] + lostAge'[cur[s]] /\ lostAge'[cur[s]] <= Lag
                        /\ phase[s] \in {"stop", "halt"} => age'[s] <= StopBound + Lag
                        /\ (phase[s] \in {"stop", "halt"} /\ task[cur[s]] = "lost") =>
                              Slack <= left'[cur[s]] + age'[s] + Lag
    BY <1>2 DEF InTime, Slack
  <2>2. cur[s] \in Regs
    BY <1>1, <2>1 DEF ServerInv, Slots, TypeOK
  <2>3. CASE phase[s] = "up"
    BY <1>1, <1>2, <1>3, <2>1, <2>2, <2>3 DEF TypeOK, ServerInv, InTime, ServerOnTime, Slack
  <2>4. CASE phase[s] \in {"stop", "halt"}
    <3>1. Stopping(s)
      BY <2>1, <2>4 DEF Stopping
    <3>2. age'[s] = age[s] + 1 /\ age[s] < StopBound + Lag
      BY <1>2, <3>1 DEF ServerOnTime
    <3> QED BY <1>1, <1>3, <2>1, <2>2, <2>4, <3>2 DEF TypeOK, ServerInv, InTime, Slack
  <2> QED BY <2>3, <2>4
<1>6. Unread(s)' /\ Current(s)'
  BY <1>1, <1>2 DEF ServerInv, Unread, Relies, Current
<1> QED BY <1>4, <1>5, <1>6 DEF ServerInv

LEMMA MigrationStepServer ==
    ASSUME RegistrationInv, NEW m \in Migrations, MigrationStep(m), NEW s \in Servers PROVE ServerInv(s)'
<1> USE RegistrationAssumption
<1>1. TypeOK /\ Locking /\ ServerInv(s)
  BY DEF RegistrationInv
<1>2. UNCHANGED <<regVars, serverVars>>
  BY DEF MigrationStep, WaitForNoServers, TakeLock, ReadRow, NoServers, Migrate, EndRun
<1>3. Slots(s)' /\ InTime(s)'
  BY <1>1, <1>2 DEF ServerInv, Slots, InTime, Slack, regVars, clockVars, serverVars
<1>4. ASSUME NEW r \in Regs PROVE Relies(s, r)' <=> Relies(s, r)
  BY <1>2 DEF Relies, regVars, serverVars
<1>5. ASSUME NEW r \in clear' PROVE r \in clear \/ left[r] = 0
  BY <1>1, <1>5 DEF TypeOK, MigrationStep, WaitForNoServers, TakeLock, ReadRow, NoServers, Migrate, EndRun
<1>6. Unread(s)'
  <2>1. SUFFICES ASSUME NEW r \in clear', Relies(s, r) PROVE FALSE
    BY <1>4, TypeStep DEF Unread, TypeOK, Next
  <2>2. r \in Regs /\ OnTime(r)
    BY <2>1, TypeStep DEF RegistrationInv, TypeOK, Next
  <2>3. left[r] > 0
    BY <1>1, <2>1, <2>2, RowLives DEF ServerInv
  <2> QED BY <1>1, <1>5, <2>1, <2>3 DEF ServerInv, Unread
<1>7. Current(s)'
  <2>1. CASE status' = status
    BY <1>1, <1>2, <2>1 DEF ServerInv, Current, regVars, serverVars
  <2>2. CASE Migrate(m)
    <3>1. clear = Regs
      BY <1>1, <2>2 DEF Migrate, Locking
    <3>2. \A r \in Regs : ~Relies(s, r)
      BY <1>1, <3>1 DEF ServerInv, Unread
    <3>3. phase[s] \in {"open", "up"} => cur[s] \in Regs
      BY <1>1 DEF ServerInv, Slots, TypeOK
    <3>4. phase[s] = "up" => workers[s] = "on"
      BY <1>1 DEF ServerInv, Slots
    <3>5. ~((phase[s] = "open" /\ task[cur[s]] # "lost") \/ (phase[s] = "up" /\ ~late[s]))
      BY <3>2, <3>3, <3>4 DEF Relies
    <3> QED BY <1>2, <3>5 DEF Current, regVars, serverVars
  <2> QED BY <2>1, <2>2 DEF MigrationStep, WaitForNoServers, TakeLock, ReadRow, NoServers, EndRun
<1> QED BY <1>3, <1>6, <1>7 DEF ServerInv

-----------------------------------------------------------------------------
(* A server's own steps.  A server without workers that has not opened      *)
(* relies on nothing.                                                       *)
Idle == {"down", "insert", "lock", "retry", "halt"}

LEMMA OffStep ==
    ASSUME NEW s \in Servers, phase'[s] \in Idle, workers'[s] # "on"
    PROVE  InTime(s)' /\ Unread(s)' /\ Current(s)'
BY DEF Idle, InTime, Unread, Relies, Current

(* The registrations that end are none a server keeps.                      *)
LEMMA FinishKeeps ==
    ASSUME TypeOK, NEW R \in SUBSET Regs, NEW t, Finish(R, t), NEW r \in Regs \ R
    PROVE  left'[r] = left[r] /\ task'[r] = task[r] /\ lostAge'[r] = lostAge[r]
BY DEF Finish, TypeOK

LEMMA SendInsertServer ==
    ASSUME TypeOK, NEW s \in Servers, NEW r \in Regs, ServerInv(s), Start(s, r) \/ TryAgain(s, r)
    PROVE  ServerInv(s)'
<1> USE RegistrationAssumption
<1>1. phase[s] \in {"down", "retry"} /\ SendInsert(s, r)
  BY DEF Start, TryAgain
<1>2. /\ task' = [task EXCEPT ![r] = "asked"] /\ task[r] = "none" /\ Owner[r] = s
      /\ phase'[s] = "insert" /\ trial'[s] = r
      /\ UNCHANGED <<cur, workers, age>>
  BY <1>1 DEF SendInsert, TypeOK
<1>3. cur[s] # None => cur[s] \in Regs /\ Owner[cur[s]] = s /\ task[cur[s]] \in Holding
  BY DEF ServerInv, Slots, TypeOK
<1>4. workers[s] # "on"
  BY <1>1 DEF ServerInv, Slots
<1>5. Slots(s)'
  BY <1>2, <1>3, <1>4 DEF Slots, TypeOK, Holding, Renewing, Trying
<1> QED BY <1>2, <1>4, <1>5, OffStep DEF ServerInv, Idle

LEMMA RegisteredServer ==
    ASSUME TypeOK, NEW s \in Servers, ServerInv(s), Registered(s) PROVE ServerInv(s)'
<1> USE RegistrationAssumption
<1>1. trial[s] \in Regs /\ trial[s] # cur[s] /\ Owner[trial[s]] = s /\ workers[s] # "on"
  BY DEF Registered, ServerInv, Slots, TypeOK
<1>2. /\ task' = [task EXCEPT ![trial[s]] = "asleep"]
      /\ phase'[s] = "lock"
      /\ UNCHANGED <<cur, trial, workers, age>>
  BY DEF Registered, TypeOK
<1>3. cur[s] # None => cur[s] \in Regs /\ Owner[cur[s]] = s /\ task[cur[s]] \in Holding
  BY DEF ServerInv, Slots, TypeOK
<1>4. Slots(s)'
  BY <1>1, <1>2, <1>3 DEF Slots, TypeOK, Holding, Renewing, Trying
<1> QED BY <1>1, <1>2, <1>4, OffStep DEF ServerInv, Idle

(* The lock is free, so no migration has read anything.                     *)
LEMMA ReadLockServer ==
    ASSUME TypeOK, Locking, NEW s \in Servers, ServerInv(s), ReadLock(s) PROVE ServerInv(s)'
<1>1. /\ phase[s] = "lock" /\ phase'[s] = "status" /\ clear' = {}
      /\ UNCHANGED <<task, cur, trial, workers, age>>
  BY DEF ReadLock, TypeOK, Locking, regVars, migrationVars
<1>2. Slots(s)'
  BY <1>1 DEF ServerInv, Slots, Trying
<1>3. workers[s] # "on"
  BY <1>1 DEF ServerInv, Slots
<1>4. InTime(s)' /\ Unread(s)' /\ Current(s)'
  BY <1>1, <1>3 DEF InTime, Unread, Current
<1> QED BY <1>2, <1>4 DEF ServerInv

LEMMA ReadStatusServer ==
    ASSUME TypeOK, NEW s \in Servers, ServerInv(s), ReadStatus(s) PROVE ServerInv(s)'
<1> USE RegistrationAssumption
<1>1. trial[s] \in Regs /\ trial[s] # cur[s] /\ Owner[trial[s]] = s /\ workers[s] # "on"
      /\ task[trial[s]] \in Holding /\ phase[s] = "status"
  BY DEF ReadStatus, ServerInv, Slots, TypeOK
<1>2. /\ phase'[s] = "open" /\ cur'[s] = trial[s] /\ trial'[s] = None /\ age'[s] = 0
      /\ started'[s] = status /\ UNCHANGED <<workers, late, clear, status>>
  BY DEF ReadStatus, HoldTrial, TypeOK, migrationVars
<1>3. task'[trial[s]] = task[trial[s]]
  <2>1. Finish({cur[s]} \cap Regs, "dropped")
    BY DEF ReadStatus, HoldTrial
  <2> QED BY <1>1, <2>1, FinishKeeps
<1>4. Slots(s)'
  BY <1>1, <1>2, <1>3 DEF Slots, Trying
<1>5. InTime(s)' /\ Current(s)'
  BY <1>1, <1>2 DEF InTime, Current
<1>6. Unread(s)'
  BY <1>1, <1>2, <1>3 DEF ServerInv, Unread, Relies
<1> QED BY <1>4, <1>5, <1>6 DEF ServerInv

LEMMA OpenServer ==
    ASSUME TypeOK, NEW s \in Servers, ServerInv(s), Open(s) PROVE ServerInv(s)'
<1>1. /\ phase[s] = "open" /\ phase'[s] = "up" /\ workers'[s] = "on"
      /\ UNCHANGED <<regVars, cur, trial, age, started, clear, status>>
  BY DEF Open, TypeOK, migrationVars
<1>2. late'[s] <=> task[cur[s]] = "lost"
  BY Zenon DEF Open, TypeOK
<1>3. UNCHANGED <<left, task, lostAge>>
  BY <1>1 DEF regVars, clockVars
<1>4. Slots(s)'
  BY <1>1, <1>3 DEF ServerInv, Slots, Trying
<1>5. InTime(s)'
  BY <1>1, <1>2, <1>3 DEF InTime
<1>6. Unread(s)'
  BY <1>1, <1>2, <1>3 DEF ServerInv, Unread, Relies
<1>7. Current(s)'
  BY <1>1, <1>2, <1>3 DEF ServerInv, Current
<1> QED BY <1>4, <1>5, <1>6, <1>7 DEF ServerInv

LEMMA NoticeLossServer ==
    ASSUME TypeOK, NEW s \in Servers, ServerInv(s), NoticeLoss(s) PROVE ServerInv(s)'
<1> USE RegistrationAssumption
<1>1. /\ phase[s] = "up" /\ task[cur[s]] = "lost" /\ phase'[s] = "stop"
      /\ UNCHANGED <<regVars, cur, trial, workers, age, late, clear, status>>
  BY DEF NoticeLoss, TypeOK, migrationVars
<1>2. UNCHANGED <<left, task, lostAge>>
  BY <1>1 DEF regVars, clockVars
<1>3. Slots(s)'
  BY <1>1, <1>2 DEF ServerInv, Slots, Trying
<1>4. age[s] = 0 /\ cur[s] \in Regs
  BY <1>1 DEF ServerInv, Slots, TypeOK
<1>5. InTime(s)'
  BY <1>1, <1>2, <1>4 DEF TypeOK, ServerInv, InTime, Slack
<1>6. Unread(s)' /\ Current(s)'
  BY <1>1, <1>2 DEF ServerInv, Unread, Relies, Current
<1> QED BY <1>3, <1>5, <1>6 DEF ServerInv

LEMMA WorkersEndServer ==
    ASSUME TypeOK, NEW s \in Servers, ServerInv(s), WorkersEnd(s) \/ WorkersStuck(s) PROVE ServerInv(s)'
<1>1. /\ phase[s] \in {"stop", "halt"} /\ phase'[s] \in {"retry", "halt"} /\ workers'[s] # "on"
      /\ UNCHANGED <<task, cur, trial>>
  BY DEF WorkersEnd, WorkersStuck, TypeOK, regVars
<1>2. Slots(s)'
  BY <1>1 DEF ServerInv, Slots, Trying
<1> QED BY <1>1, <1>2, OffStep DEF ServerInv, Idle

LEMMA ShutdownServer ==
    ASSUME TypeOK, NEW s \in Servers, ServerInv(s), Shutdown(s) PROVE ServerInv(s)'
BY SameInv DEF Shutdown, SameServer, SameRegs, regVars, clockVars, migrationVars

(* What a server does once it gives the registration it tries to take up.   *)
LEMMA GiveUpServer ==
    ASSUME TypeOK, NEW s \in Servers, ServerInv(s),
           Unavailable(s) \/ Refused(s) \/ WindowOver(s) \/ CancelToken(s)
    PROVE  ServerInv(s)'
<1> USE RegistrationAssumption
<1>1. /\ phase[s] \in Trying \cup {"up", "retry"} /\ phase'[s] \in {"down", "retry", "halt"}
      /\ phase[s] = "up" => phase'[s] = "halt" /\ age'[s] = 0
      /\ trial'[s] = None /\ UNCHANGED <<cur, workers, late, clear, status>>
  BY DEF Unavailable, Refused, WindowOver, CancelToken, GiveUpTrial, TypeOK, migrationVars, Trying
<1>2. cur[s] # None => cur[s] \in Regs /\ cur[s] # trial[s]
  BY DEF ServerInv, Slots, TypeOK
<1>3. \E t \in Tasks : Finish({trial[s]} \cap Regs, t)
  BY DEF Unavailable, Refused, WindowOver, CancelToken, GiveUpTrial, Tasks
<1>4. cur[s] # None => /\ left'[cur[s]] = left[cur[s]] /\ task'[cur[s]] = task[cur[s]]
                       /\ lostAge'[cur[s]] = lostAge[cur[s]]
  <2>1. PICK t \in Tasks : Finish({trial[s]} \cap Regs, t)
    BY <1>3
  <2>2. cur[s] # None => cur[s] \in Regs \ ({trial[s]} \cap Regs)
    BY <1>2
  <2>3. {trial[s]} \cap Regs \in SUBSET Regs
    OBVIOUS
  <2> QED BY <2>1, <2>2, <2>3, FinishKeeps
<1>5. Slots(s)'
  BY <1>1, <1>4 DEF ServerInv, Slots, Trying
<1>6. CASE workers[s] # "on"
  BY <1>1, <1>5, <1>6, OffStep DEF ServerInv, Idle
<1>7. CASE workers[s] = "on"
  <2>1. phase[s] = "up" /\ cur[s] # None /\ cur[s] \in Regs
    BY <1>1, <1>2, <1>7 DEF ServerInv, Slots, Trying
  <2>2. InTime(s)'
    BY <1>1, <1>4, <1>7, <2>1 DEF TypeOK, ServerInv, InTime, Slack
  <2>3. Unread(s)' /\ Current(s)'
    BY <1>1, <1>4, <1>7, <2>1 DEF ServerInv, Unread, Relies, Current
  <2> QED BY <1>5, <2>2, <2>3 DEF ServerInv
<1> QED BY <1>6, <1>7

LEMMA GoneServer ==
    ASSUME TypeOK, NEW s \in Servers, Gone(s) PROVE ServerInv(s)'
<1>1. phase'[s] = "down" /\ cur'[s] = None /\ trial'[s] = None /\ workers'[s] = "off"
  BY DEF Gone, TypeOK
<1>2. Slots(s)'
  BY <1>1 DEF Slots, Trying
<1> QED BY <1>1, <1>2, OffStep DEF ServerInv, Idle

LEMMA ServerStepServer ==
    ASSUME RegistrationInv, NEW q \in Servers, ServerStep(q), NEW s \in Servers PROVE ServerInv(s)'
<1>1. TypeOK /\ Locking /\ ServerInv(s) /\ ServerInv(q) /\ Slots(q)
  BY DEF RegistrationInv, ServerInv
<1>2. CASE s # q
  BY <1>1, <1>2, ServerFrame, SameInv
<1>3. CASE s = q
  <2>1. Release(s) \/ Leave(s) \/ Kill(s) => Gone(s)
    BY DEF Release, Leave, Kill
  <2> QED BY <1>1, <1>3, <2>1, SendInsertServer, RegisteredServer, ReadLockServer, ReadStatusServer,
       OpenServer, NoticeLossServer, WorkersEndServer, ShutdownServer, GiveUpServer, GoneServer
       DEF ServerStep
<1> QED BY <1>2, <1>3

LEMMA ServerInvStep ==
    ASSUME RegistrationInv, [Next]_vars, NEW s \in Servers PROVE ServerInv(s)'
<1>1. TypeOK /\ ServerInv(s)
  BY DEF RegistrationInv
<1>2. CASE UNCHANGED vars
  BY <1>1, <1>2, SameInv DEF vars, regVars, clockVars, serverVars, migrationVars, SameServer, SameRegs
<1> QED BY <1>2, RegStepServer, TickServer, MigrationStepServer, ServerStepServer DEF Next

-----------------------------------------------------------------------------
LEMMA Inductive == Spec => []RegistrationInv
<1>1. ASSUME RegistrationInv, [Next]_vars PROVE RegistrationInv'
  BY <1>1, TypeStep, LockingStep, OnTimeStep, ServerInvStep DEF RegistrationInv
<1> QED BY InitInv, <1>1, PTL DEF Spec

(* The state of Registrations keeps its types: the ages and the bounds they *)
(* are compared with are natural numbers throughout, subtractions included. *)
THEOREM RegistrationsTyped == Spec => []TypeOK
<1>1. RegistrationInv => TypeOK
  BY DEF RegistrationInv
<1> QED BY Inductive, <1>1, PTL

(* For all servers, rows, migrations and durations that satisfy the         *)
(* assumption: while a migration works no server admits requests and no     *)
(* worker runs, but for the excepted late server (renew_with,               *)
(* supervise_within, register_again, wait_for_no_servers).                  *)
THEOREM MigrationsWorkAlone == Spec => []MigrationAlone
<1>1. RegistrationInv => MigrationAlone
  <2>1. SUFFICES ASSUME RegistrationInv, NEW m \in Migrations, stage[m] = "working",
                        NEW s \in Servers, ~late[s]
                 PROVE  ~Admits(s) /\ workers[s] # "on"
    BY DEF MigrationAlone
  <2>2. clear = Regs /\ Unread(s) /\ Slots(s)
    BY <2>1 DEF RegistrationInv, Locking, ServerInv
  <2>3. workers[s] = "on" => cur[s] \in Regs
    BY <2>1, <2>2 DEF RegistrationInv, TypeOK, Slots
  <2>4. workers[s] # "on"
    BY <2>1, <2>2, <2>3 DEF Unread, Relies
  <2> QED BY <2>2, <2>4 DEF Slots, Admits
<1> QED BY Inductive, <1>1, PTL

(* Under the same assumption: a server that admits requests serves the      *)
(* catalog's status that it started with (register_again).                  *)
THEOREM ServersServeTheirCatalog == Spec => []ServesItsCatalog
<1>1. RegistrationInv => ServesItsCatalog
  BY DEF RegistrationInv, ServerInv, Current, ServesItsCatalog, Admits
<1> QED BY Inductive, <1>1, PTL
=============================================================================
