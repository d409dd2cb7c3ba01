---------------------------- MODULE Registrations ----------------------------
(***************************************************************************)
(* A server's registration in extenddb_servers (crates/storage-cassandra,   *)
(* migrations/registrations.rs and registrar.rs), what the server does when *)
(* it is lost (crates/server, registration.rs and serve.rs), and the        *)
(* migration that waits until no server is registered.                      *)
(*                                                                         *)
(* Server and migration never meet: each writes (a row, the lock) and then  *)
(* reads what the other writes.  Instants are kept as ages, so there is no  *)
(* clock: a registration counts from the send of its last successful write, *)
(* and its row has `left' to live.  A timer fires up to Lag late; a request *)
(* is answered at any time before its bound, or not at all.  The lock       *)
(* itself is module MigrationLock: here its holder runs its statements      *)
(* under it, and may lose it at any time and then runs none.                *)
(***************************************************************************)
EXTENDS Integers

CONSTANTS
    Servers,         \* places where extenddb serve runs, one process at a time
    Regs, Owner,     \* the rows there may be at one time, and the server of each
    Migrations,      \* runs of migrate --yes
    Ttl, RenewEvery, RetryEvery, LostAfter,     \* RegistrationTimes
    RequestTimeout,  \* REQUEST_TIMEOUT: the bound on the INSERT that registers
    StopBound,       \* DRAIN_TIMEOUT + ABORT_TIMEOUT: the bound on a stop of the workers
    Window,          \* WINDOW: how long the server tries to register again
    Lag,             \* how late a timer may fire
    MaxStatus,       \* bound: the changes migrations make to the catalog
    None

ASSUME RegistrationAssumption ==
    /\ Owner \in [Regs -> Servers]
    /\ Ttl \in Nat /\ RenewEvery \in Nat /\ RetryEvery \in Nat /\ LostAfter \in Nat
    /\ RequestTimeout \in Nat /\ StopBound \in Nat /\ Window \in Nat /\ Lag \in Nat
    /\ MaxStatus \in Nat
    /\ RenewEvery <= LostAfter /\ RequestTimeout <= LostAfter
    /\ LostAfter + RenewEvery + StopBound + 4 * Lag < Ttl
    /\ None \notin Regs /\ None \notin Migrations

VARIABLES
    left,            \* how long the row of a registration lives yet; 0: no row
    task,            \* where a registration and its renewal task are
    okAge,           \* how long ago its last successful write was sent
    nextAt, sentAt,  \* at which okAge it renews next; sent the renewal in flight
    landed,          \* the INSERT in flight has reached the row
    lostAge,         \* how long ago its loss was reported
    ghosts,          \* registrations with an INSERT in flight that nobody waits for
    phase,           \* where a server is
    cur, trial,      \* the registration it holds, and the one it tries to take
    again,           \* it has served: it registers again, and does not start
    age,             \* how long its stop of the workers, or its window, lasts
    workers, draining,
    started,         \* the catalog's status it serves
    late,            \* it went up with a registration that was lost by then (history)
    lock, stage, clear,  \* the lock, the runs, and the rows its holder found gone
    status           \* the catalog's status

clockVars == <<okAge, nextAt, sentAt, landed, lostAge>>
regVars == <<left, task, clockVars, ghosts>>
serverVars == <<phase, cur, trial, again, age, workers, draining, started, late>>
migrationVars == <<lock, stage, clear, status>>
vars == <<regVars, serverVars, migrationVars>>

Tasks == {"none", "asked", "asleep", "renewing", "lost", "dropped"}
Phases == {"down", "insert", "lock", "status", "open", "up", "stop", "retry", "halt"}

TypeOK ==
    /\ left \in [Regs -> Nat] /\ task \in [Regs -> Tasks]
    /\ okAge \in [Regs -> Nat] /\ nextAt \in [Regs -> Nat] /\ sentAt \in [Regs -> Nat]
    /\ landed \in [Regs -> BOOLEAN] /\ lostAge \in [Regs -> Nat] /\ ghosts \subseteq Regs
    /\ phase \in [Servers -> Phases]
    /\ cur \in [Servers -> Regs \cup {None}] /\ trial \in [Servers -> Regs \cup {None}]
    /\ again \in [Servers -> BOOLEAN] /\ age \in [Servers -> Nat]
    /\ workers \in [Servers -> {"off", "on", "stuck"}] /\ draining \in [Servers -> BOOLEAN]
    /\ started \in [Servers -> Nat] /\ late \in [Servers -> BOOLEAN]
    /\ lock \in Migrations \cup {None}
    /\ stage \in [Migrations -> {"idle", "waiting", "working"}]
    /\ clear \subseteq Regs /\ status \in Nat

Init ==
    /\ left = [r \in Regs |-> 0] /\ task = [r \in Regs |-> "none"]
    /\ okAge = [r \in Regs |-> 0] /\ nextAt = [r \in Regs |-> 0] /\ sentAt = [r \in Regs |-> 0]
    /\ landed = [r \in Regs |-> FALSE] /\ lostAge = [r \in Regs |-> 0] /\ ghosts = {}
    /\ phase = [s \in Servers |-> "down"]
    /\ cur = [s \in Servers |-> None] /\ trial = [s \in Servers |-> None]
    /\ again = [s \in Servers |-> FALSE] /\ age = [s \in Servers |-> 0]
    /\ workers = [s \in Servers |-> "off"] /\ draining = [s \in Servers |-> FALSE]
    /\ started = [s \in Servers |-> 0] /\ late = [s \in Servers |-> FALSE]
    /\ lock = None /\ stage = [m \in Migrations |-> "idle"] /\ clear = {} /\ status = 0

Requesting == {"asked", "renewing"}

(* The registrations of R end, with a DELETE of the row to come or without; *)
(* an INSERT of one that is in flight may still reach the row.              *)
Finish(R, t) ==
    /\ task' = [r \in Regs |-> IF r \in R THEN t ELSE task[r]]
    /\ ghosts' = ghosts \cup {r \in R : task[r] \in Requesting /\ ~landed[r]}
    /\ okAge' = [r \in Regs |-> IF r \in R THEN 0 ELSE okAge[r]]
    /\ nextAt' = [r \in Regs |-> IF r \in R THEN 0 ELSE nextAt[r]]
    /\ sentAt' = [r \in Regs |-> IF r \in R THEN 0 ELSE sentAt[r]]
    /\ landed' = [r \in Regs |-> r \notin R /\ landed[r]]
    /\ lostAge' = [r \in Regs |-> IF r \in R THEN 0 ELSE lostAge[r]]
    /\ UNCHANGED left

-----------------------------------------------------------------------------
(* The renewal task, renew_with: it renews when it is due, at the latest    *)
(* LostAfter after the last write that succeeded.                           *)
Due(r) == IF nextAt[r] < LostAfter THEN nextAt[r] ELSE LostAfter

(* Before the deadline an attempt is bounded by the time left to it.        *)
AttemptEnd(r) ==
    IF sentAt[r] < LostAfter /\ LostAfter < sentAt[r] + RenewEvery
    THEN LostAfter ELSE sentAt[r] + RenewEvery

SendRenewal(r) ==
    /\ task[r] = "asleep" /\ okAge[r] >= Due(r)
    /\ task' = [task EXCEPT ![r] = "renewing"]
    /\ sentAt' = [sentAt EXCEPT ![r] = okAge[r]]
    /\ nextAt' = [nextAt EXCEPT ![r] = 0]
    /\ landed' = [landed EXCEPT ![r] = FALSE]
    /\ UNCHANGED <<left, okAge, lostAge, ghosts, serverVars, migrationVars>>

(* The INSERT in flight reaches the row.                                    *)
InsertLands(r) ==
    /\ task[r] \in Requesting /\ ~landed[r]
    /\ landed' = [landed EXCEPT ![r] = TRUE]
    /\ left' = [left EXCEPT ![r] = Ttl]
    /\ UNCHANGED <<task, okAge, nextAt, sentAt, lostAge, ghosts, serverVars, migrationVars>>

(* One that was given up does, and may bring a deleted row back.            *)
GhostLands(r) ==
    /\ r \in ghosts
    /\ ghosts' = ghosts \ {r}
    /\ left' = [left EXCEPT ![r] = Ttl]
    /\ UNCHANGED <<task, clockVars, serverVars, migrationVars>>

(* A deadline that counts from the answer.                                  *)
RenewedAtAnswer(r) ==
    /\ task[r] = "renewing" /\ landed[r]
    /\ task' = [task EXCEPT ![r] = "asleep"]
    /\ okAge' = [okAge EXCEPT ![r] = 0]
    /\ nextAt' = [nextAt EXCEPT ![r] = RenewEvery]
    /\ sentAt' = [sentAt EXCEPT ![r] = 0]
    /\ landed' = [landed EXCEPT ![r] = FALSE]
    /\ UNCHANGED <<left, lostAge, ghosts, serverVars, migrationVars>>

(* The times of the renewal and of its answer, the wrong way round.         *)
RenewedSwapped(r) ==
    /\ task[r] = "renewing" /\ landed[r]
    /\ task' = [task EXCEPT ![r] = "asleep"]
    /\ okAge' = [okAge EXCEPT ![r] = sentAt[r] - @]
    /\ nextAt' = [nextAt EXCEPT ![r] = RenewEvery]
    /\ sentAt' = [sentAt EXCEPT ![r] = 0]
    /\ landed' = [landed EXCEPT ![r] = FALSE]
    /\ UNCHANGED <<left, lostAge, ghosts, serverVars, migrationVars>>

(* The deadline counts from when the renewal was sent.                      *)
Renewed(r) ==
    /\ task[r] = "renewing" /\ landed[r]
    /\ task' = [task EXCEPT ![r] = "asleep"]
    /\ okAge' = [okAge EXCEPT ![r] = @ - sentAt[r]]
    /\ nextAt' = [nextAt EXCEPT ![r] = RenewEvery]
    /\ sentAt' = [sentAt EXCEPT ![r] = 0]
    /\ landed' = [landed EXCEPT ![r] = FALSE]
    /\ UNCHANGED <<left, lostAge, ghosts, serverVars, migrationVars>>

(* An error, or no answer within the bound.                                 *)
GiveUpRenewal(r) ==
    /\ task[r] = "renewing"
    /\ sentAt' = [sentAt EXCEPT ![r] = 0]
    /\ landed' = [landed EXCEPT ![r] = FALSE]
    /\ ghosts' = IF landed[r] THEN ghosts ELSE ghosts \cup {r}
    /\ UNCHANGED <<left, serverVars, migrationVars>>

(* The task tries again soon ..                                             *)
RenewFails(r) ==
    /\ GiveUpRenewal(r) /\ sentAt[r] < LostAfter
    /\ task' = [task EXCEPT ![r] = "asleep"]
    /\ nextAt' = [nextAt EXCEPT ![r] = okAge[r] + RetryEvery]
    /\ UNCHANGED <<okAge, lostAge>>

(* .. and after the attempt at the deadline reports the registration lost.  *)
ReportLoss(r) ==
    /\ GiveUpRenewal(r) /\ sentAt[r] >= LostAfter
    /\ task' = [task EXCEPT ![r] = "lost"]
    /\ okAge' = [okAge EXCEPT ![r] = 0]
    /\ UNCHANGED <<nextAt, lostAge>>

(* delete_row of a registration that was released or dropped; it may fail.  *)
DeleteRow(r) ==
    /\ task[r] = "dropped"
    /\ task' = [task EXCEPT ![r] = "none"]
    /\ left' \in {left, [left EXCEPT ![r] = 0]}
    /\ UNCHANGED <<clockVars, ghosts, serverVars, migrationVars>>

RegStep(r) ==
    \/ SendRenewal(r) \/ InsertLands(r) \/ GhostLands(r) \/ Renewed(r) \/ RenewFails(r)
    \/ ReportLoss(r) \/ DeleteRow(r)

-----------------------------------------------------------------------------
(* register_timed sends the INSERT of a new row.                            *)
SendInsert(s, r) ==
    /\ Owner[r] = s /\ task[r] = "none" /\ left[r] = 0 /\ r \notin ghosts
    /\ task' = [task EXCEPT ![r] = "asked"]
    /\ trial' = [trial EXCEPT ![s] = r]
    /\ phase' = [phase EXCEPT ![s] = "insert"]
    /\ UNCHANGED <<left, clockVars, ghosts, cur, again, age, workers, draining, started, late,
                   migrationVars>>

(* register_server, before anything else is opened ..                       *)
Start(s, r) == phase[s] = "down" /\ SendInsert(s, r)

(* .. and register_again, until the window has passed.                      *)
TryAgain(s, r) == phase[s] = "retry" /\ age[s] < Window /\ SendInsert(s, r)

(* The INSERT is answered: the first deadline counts from its send.         *)
Registered(s) ==
    /\ phase[s] = "insert" /\ landed[trial[s]]
    /\ phase' = [phase EXCEPT ![s] = "lock"]
    /\ task' = [task EXCEPT ![trial[s]] = "asleep"]
    /\ nextAt' = [nextAt EXCEPT ![trial[s]] = RenewEvery]
    /\ landed' = [landed EXCEPT ![trial[s]] = FALSE]
    /\ UNCHANGED <<left, okAge, sentAt, lostAge, ghosts, cur, trial, again, age, workers,
                   draining, started, late, migrationVars>>

(* lock_holder finds no migration; the catalog's status is read after it.   *)
ReadLock(s) ==
    /\ phase[s] = "lock" /\ lock = None
    /\ phase' = [phase EXCEPT ![s] = "status"]
    /\ UNCHANGED <<regVars, cur, trial, again, age, workers, draining, started, late,
                   migrationVars>>

(* The registration taken is the one held from now on; the one before it is *)
(* dropped.                                                                 *)
HoldTrial(s) ==
    /\ phase' = [phase EXCEPT ![s] = "open"]
    /\ cur' = [cur EXCEPT ![s] = trial[s]] /\ trial' = [trial EXCEPT ![s] = None]
    /\ age' = [age EXCEPT ![s] = 0]
    /\ Finish({cur[s]} \cap Regs, "dropped")
    /\ UNCHANGED <<again, workers, draining, late, migrationVars>>

(* A server that registers again whichever status it finds.                 *)
ReadAnyStatus(s) ==
    /\ phase[s] = "status"
    /\ started' = IF again[s] THEN started ELSE [started EXCEPT ![s] = status]
    /\ HoldTrial(s)

(* The status is one this server may serve: the one it started with, when   *)
(* it registers again.                                                      *)
ReadStatus(s) ==
    /\ phase[s] = "status" /\ (again[s] => status = started[s])
    /\ started' = [started EXCEPT ![s] = status]
    /\ HoldTrial(s)

(* The workers start, then requests are admitted; nobody asks whether the   *)
(* registration was lost meanwhile.                                         *)
Open(s) ==
    /\ phase[s] = "open"
    /\ phase' = [phase EXCEPT ![s] = "up"]
    /\ workers' = [workers EXCEPT ![s] = "on"]
    /\ again' = [again EXCEPT ![s] = TRUE]
    /\ late' = [late EXCEPT ![s] = task[cur[s]] = "lost"]
    /\ UNCHANGED <<regVars, cur, trial, age, draining, started, migrationVars>>

(* The registration being taken is given up: without its INSERT's answer    *)
(* there is nothing to release.                                             *)
GiveUpTrial(s) ==
    /\ trial' = [trial EXCEPT ![s] = None]
    /\ Finish({trial[s]} \cap Regs, IF phase[s] = "insert" THEN "none" ELSE "dropped")

Trying == {"insert", "lock", "status"}

(* A window that starts again with every attempt.                           *)
UnavailableRestarting(s) ==
    /\ phase[s] \in Trying
    /\ GiveUpTrial(s)
    /\ phase' = [phase EXCEPT ![s] = IF again[s] THEN "retry" ELSE "down"]
    /\ age' = [age EXCEPT ![s] = 0]
    /\ UNCHANGED <<cur, again, workers, draining, started, late, migrationVars>>

(* A request failed, or a starting server may not serve this status: it     *)
(* exits, a running one tries again.                                        *)
Unavailable(s) ==
    /\ phase[s] \in Trying
    /\ GiveUpTrial(s)
    /\ phase' = [phase EXCEPT ![s] = IF again[s] THEN "retry" ELSE "down"]
    /\ UNCHANGED <<cur, again, age, workers, draining, started, late, migrationVars>>

(* A migration holds the lock, or the status changed: the server stops.     *)
Refused(s) ==
    /\ \/ phase[s] = "lock" /\ lock # None
       \/ phase[s] = "status" /\ again[s] /\ status # started[s]
    /\ GiveUpTrial(s)
    /\ phase' = [phase EXCEPT ![s] = IF again[s] THEN "halt" ELSE "down"]
    /\ age' = [age EXCEPT ![s] = 0]
    /\ UNCHANGED <<cur, again, workers, draining, started, late, migrationVars>>

(* No registration within the window: the server stops.                     *)
WindowOver(s) ==
    /\ again[s] /\ phase[s] \in Trying \cup {"retry"}
    /\ age[s] >= Window
    /\ GiveUpTrial(s)
    /\ phase' = [phase EXCEPT ![s] = "halt"]
    /\ age' = [age EXCEPT ![s] = 0]
    /\ UNCHANGED <<cur, again, workers, draining, started, late, migrationVars>>

-----------------------------------------------------------------------------
(* supervise_within: the loss is seen, requests are refused and the workers *)
(* are told to stop.                                                        *)
NoticeLoss(s) ==
    /\ phase[s] = "up" /\ task[cur[s]] = "lost"
    /\ phase' = [phase EXCEPT ![s] = "stop"]
    /\ UNCHANGED <<regVars, cur, trial, again, age, workers, draining, started, late,
                   migrationVars>>

(* Every worker has ended.                                                  *)
WorkersEnd(s) ==
    /\ phase[s] \in {"stop", "halt"} /\ workers[s] = "on"
    /\ workers' = [workers EXCEPT ![s] = "off"]
    /\ phase' = [phase EXCEPT ![s] = IF @ = "stop" THEN "retry" ELSE "halt"]
    /\ age' = [age EXCEPT ![s] = 0]
    /\ UNCHANGED <<regVars, cur, trial, again, draining, started, late, migrationVars>>

(* A worker outlives its abort: the server does not register again.         *)
WorkersStuck(s) ==
    /\ phase[s] \in {"stop", "halt"} /\ workers[s] = "on"
    /\ age[s] >= StopBound
    /\ workers' = [workers EXCEPT ![s] = "stuck"]
    /\ phase' = [phase EXCEPT ![s] = "halt"]
    /\ age' = [age EXCEPT ![s] = 0]
    /\ UNCHANGED <<regVars, cur, trial, again, draining, started, late, migrationVars>>

(* A signal: the listener drains, and the backup jobs are awaited ..        *)
Shutdown(s) ==
    /\ again[s] /\ phase[s] \notin {"halt", "down"} /\ ~draining[s]
    /\ draining' = [draining EXCEPT ![s] = TRUE]
    /\ UNCHANGED <<regVars, phase, cur, trial, again, age, workers, started, late,
                   migrationVars>>

(* .. then the token ends the supervisor and the workers are told to stop.  *)
CancelToken(s) ==
    /\ draining[s] /\ again[s] /\ phase[s] \in Trying \cup {"up", "retry"}
    /\ GiveUpTrial(s)
    /\ phase' = [phase EXCEPT ![s] = "halt"]
    /\ age' = [age EXCEPT ![s] = 0]
    /\ UNCHANGED <<cur, again, workers, draining, started, late, migrationVars>>

(* The process is gone.                                                     *)
Gone(s) ==
    /\ phase' = [phase EXCEPT ![s] = "down"]
    /\ cur' = [cur EXCEPT ![s] = None] /\ trial' = [trial EXCEPT ![s] = None]
    /\ again' = [again EXCEPT ![s] = FALSE] /\ age' = [age EXCEPT ![s] = 0]
    /\ workers' = [workers EXCEPT ![s] = "off"] /\ draining' = [draining EXCEPT ![s] = FALSE]
    /\ started' = [started EXCEPT ![s] = 0] /\ late' = [late EXCEPT ![s] = FALSE]
    /\ UNCHANGED migrationVars

(* A release that leaves the renewal task running.                          *)
ReleaseRenewing(s) ==
    /\ phase[s] = "halt" /\ workers[s] = "off"
    /\ Gone(s)
    /\ UNCHANGED regVars

(* stop_then_release ends the renewal and deletes the row, once every       *)
(* worker has ended.                                                        *)
Release(s) ==
    /\ phase[s] = "halt" /\ workers[s] = "off"
    /\ Gone(s)
    /\ Finish({cur[s]} \cap Regs, "dropped")

(* A worker or a backup job is left: the process ends without the release,  *)
(* and the row stays until it expires.                                      *)
Leave(s) ==
    /\ phase[s] = "halt" /\ workers[s] # "on"
    /\ Gone(s)
    /\ Finish({cur[s]} \cap Regs, "none")

(* The process is killed.                                                   *)
Kill(s) ==
    /\ phase[s] # "down"
    /\ Gone(s)
    /\ Finish({cur[s], trial[s]} \cap Regs, "none")

ServerStep(s) ==
    \/ \E r \in Regs : Start(s, r) \/ TryAgain(s, r)
    \/ Registered(s) \/ ReadLock(s) \/ ReadStatus(s) \/ Open(s)
    \/ Unavailable(s) \/ Refused(s) \/ WindowOver(s)
    \/ NoticeLoss(s) \/ WorkersEnd(s) \/ WorkersStuck(s)
    \/ Shutdown(s) \/ CancelToken(s) \/ Release(s) \/ Leave(s) \/ Kill(s)

-----------------------------------------------------------------------------
(* The migration has the lock (module MigrationLock) ..                     *)
TakeLock(m) ==
    /\ stage[m] = "idle" /\ lock = None
    /\ lock' = m /\ stage' = [stage EXCEPT ![m] = "waiting"] /\ clear' = {}
    /\ UNCHANGED <<regVars, serverVars, status>>

(* .. reads the rows at ALL, one after the other, and again while it finds  *)
(* one ..                                                                   *)
ReadRow(m, r) ==
    /\ stage[m] = "waiting" /\ lock = m
    /\ clear' = IF left[r] > 0 THEN {} ELSE clear \cup {r}
    /\ UNCHANGED <<regVars, serverVars, lock, stage, status>>

(* .. and goes on when a whole read found none.                             *)
NoServers(m) ==
    /\ stage[m] = "waiting" /\ lock = m /\ clear = Regs
    /\ stage' = [stage EXCEPT ![m] = "working"]
    /\ UNCHANGED <<regVars, serverVars, lock, clear, status>>

(* A migration's body is run and its ledger row written.                    *)
Migrate(m) ==
    /\ stage[m] = "working" /\ lock = m /\ status < MaxStatus
    /\ status' = status + 1
    /\ UNCHANGED <<regVars, serverVars, lock, stage, clear>>

(* It releases the lock, at its end or at its timeout, or loses it.         *)
EndRun(m) ==
    /\ lock = m
    /\ lock' = None /\ stage' = [stage EXCEPT ![m] = "idle"] /\ clear' = {}
    /\ UNCHANGED <<regVars, serverVars, status>>

WaitForNoServers(m) == NoServers(m) \/ \E r \in Regs : ReadRow(m, r)

MigrationStep(m) == TakeLock(m) \/ WaitForNoServers(m) \/ Migrate(m) \/ EndRun(m)

-----------------------------------------------------------------------------
Stopping(s) == phase[s] \in {"stop", "halt"} /\ workers[s] = "on"
InWindow(s) == phase[s] \in Trying \cup {"retry"} /\ again[s]
Counting(r) == task[r] \in {"asked", "asleep", "renewing"}

(* No timer fires more than Lag late.                                       *)
TaskOnTime(r) ==
    /\ task[r] = "asked" => okAge[r] < RequestTimeout + Lag
    /\ task[r] = "asleep" => okAge[r] < Due(r) + Lag
    /\ task[r] = "renewing" => okAge[r] < AttemptEnd(r) + Lag

ServerOnTime(s) ==
    /\ phase[s] = "up" /\ task[cur[s]] = "lost" => lostAge[cur[s]] < Lag
    /\ Stopping(s) => age[s] < StopBound + Lag
    /\ InWindow(s) => age[s] < Window + Lag

(* Time passes: the rows expire.                                            *)
Tick ==
    /\ \A r \in Regs : TaskOnTime(r)
    /\ \A s \in Servers : ServerOnTime(s)
    /\ left' = [r \in Regs |-> IF left[r] > 0 THEN left[r] - 1 ELSE 0]
    /\ okAge' = [r \in Regs |-> IF Counting(r) THEN okAge[r] + 1 ELSE okAge[r]]
    /\ lostAge' = [r \in Regs |-> IF task[r] = "lost" /\ lostAge[r] < Lag
                                  THEN lostAge[r] + 1 ELSE lostAge[r]]
    /\ age' = [s \in Servers |-> IF Stopping(s) \/ InWindow(s) THEN age[s] + 1 ELSE age[s]]
    /\ UNCHANGED <<task, nextAt, sentAt, landed, ghosts, phase, cur, trial, again, workers,
                   draining, started, late, migrationVars>>

Next ==
    \/ Tick
    \/ \E r \in Regs : RegStep(r)
    \/ \E s \in Servers : ServerStep(s)
    \/ \E m \in Migrations : MigrationStep(m)

Spec == Init /\ [][Next]_vars

(* What goes on by itself: timers fire, a request is answered or given up,  *)
(* the supervisor and a waiting migration take their next step.  Nothing    *)
(* makes a server start, stop or die, or a migration run.                   *)
Supervisor(s) ==
    \/ Registered(s) \/ ReadLock(s) \/ ReadStatus(s) \/ Open(s)
    \/ Unavailable(s) \/ Refused(s) \/ WindowOver(s)
    \/ NoticeLoss(s) \/ WorkersEnd(s) \/ WorkersStuck(s) \/ Release(s) \/ Leave(s)

Fairness ==
    /\ WF_vars(Tick)
    /\ \A r \in Regs : WF_vars(RegStep(r))
    /\ \A s \in Servers : WF_vars(Supervisor(s))
    /\ \A m \in Migrations : WF_vars(WaitForNoServers(m))

FairSpec == Spec /\ Fairness

-----------------------------------------------------------------------------
Admits(s) == phase[s] = "up" /\ ~draining[s]

(* A migration works alone: while it runs its statements no server admits   *)
(* requests and no background worker runs, however late the renewals, their *)
(* answers and the timers are.  Excepted are a worker that outlives its     *)
(* abort, and a server whose registration was lost while it still opened:   *)
(* it stops as soon as it looks (wait_for_no_servers, renew_with,           *)
(* register_again, supervise_within, stop_then_release).                    *)
MigrationAlone ==
    \A m \in Migrations : stage[m] = "working" =>
        \A s \in Servers : late[s] \/ (~Admits(s) /\ workers[s] # "on")

(* A server serves the catalog it started with: no status change goes       *)
(* unseen between the loss of a registration and the next one, nor while    *)
(* one is held (ServerRegistration::register_again).                        *)
ServesItsCatalog == \A s \in Servers : Admits(s) => late[s] \/ started[s] = status

(* A server that lost its registration does not stay in between: it serves  *)
(* again, or is down (register_again, WINDOW).                              *)
LossResolved == \A s \in Servers : phase[s] = "stop" ~> phase[s] \in {"up", "down"}

(* A migration does not wait for servers that are gone, killed ones and the *)
(* writes they left in flight included (Drop, delete_row, the row's TTL).   *)
MigrationProceeds ==
    <>[](\A s \in Servers : phase[s] = "down")
        => \A m \in Migrations : stage[m] = "waiting" ~> stage[m] # "waiting"
=============================================================================
