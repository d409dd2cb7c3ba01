---------------------------- MODULE MigrationLock ----------------------------
(***************************************************************************)
(* The lease on the migration_lock row of the catalog                       *)
(* (crates/storage-cassandra, migrations/locks.rs), with the statements a   *)
(* migration sends under it (migrations/backend.rs, connect.rs).            *)
(*                                                                         *)
(* The row carries a token and expires Ttl after the last write to it.  The *)
(* holder keeps a deadline Margin before that, checks it before it sends a  *)
(* statement, and a task of its own renews the row.  A lock is one          *)
(* MigrationLock value, its token.  Any task may be late, but a request is  *)
(* answered, or given up and over, within its timeout.  With a unit of 5 s  *)
(* every duration of the code is a whole number.                            *)
(***************************************************************************)
EXTENDS Integers

CONSTANTS
    Locks,           \* calls of MigrationLock::acquire, each with its token
    Ttl, RenewEvery, Margin, Stall,     \* LeaseTimes
    RequestTimeout,  \* REQUEST_TIMEOUT: the bound on an LWT on the row
    DdlTimeout,      \* LOCKED_DDL_TIMEOUT: the bound on a statement
    MaxTime,         \* bound: the clock stops here
    None

ASSUME LockAssumption ==
    /\ Ttl \in Nat /\ RenewEvery \in Nat /\ Margin \in Nat /\ Stall \in Nat
    /\ RequestTimeout \in Nat /\ DdlTimeout \in Nat /\ MaxTime \in Nat
    /\ DdlTimeout < Margin /\ Margin <= Ttl
    /\ None \notin Locks

VARIABLES
    now,
    holder, expiry,  \* the row: its token, and when it expires
    stage,           \* where the run of a lock is
    sent,            \* when the INSERT in flight was sent
    found,           \* locks whose INSERT found the row of an earlier one (history)
    deadline, progress,         \* Lease
    renewal,         \* the renewal task: asleep, or how far its UPDATE is
    next, renewSent, \* when it renews next; when the UPDATE in flight was sent
    stmt             \* when the statement in flight was sent

runVars == <<stage, sent, found>>
leaseVars == <<deadline, progress>>
renewVars == <<renewal, next, renewSent>>
rowVars == <<holder, expiry>>
vars == <<now, holder, expiry, stage, sent, found, deadline, progress, renewal, next, renewSent,
          stmt>>

NoStmt == -1
Taking == {"taking", "granted", "refused"}      \* INSERT in flight, or its answer
Stages == Taking \cup {"idle", "holding", "releasing", "out"}
Asking == {"asked", "renewed", "refused"}       \* UPDATE in flight, or its answer
RenewalStates == Asking \cup {"sleeping", "off"}

TypeOK ==
    /\ now \in Nat /\ holder \in Locks \cup {None} /\ expiry \in Nat
    /\ stage \in [Locks -> Stages] /\ sent \in [Locks -> Nat]
    /\ found \subseteq Locks
    /\ deadline \in [Locks -> Nat] /\ progress \in [Locks -> Nat]
    /\ renewal \in [Locks -> RenewalStates]
    /\ next \in [Locks -> Nat] /\ renewSent \in [Locks -> Nat]
    /\ stmt \in [Locks -> Nat \cup {NoStmt}]

Init ==
    /\ now = 0 /\ holder = None /\ expiry = 0
    /\ stage = [p \in Locks |-> "idle"] /\ sent = [p \in Locks |-> 0]
    /\ found = {}
    /\ deadline = [p \in Locks |-> 0] /\ progress = [p \in Locks |-> 0]
    /\ renewal = [p \in Locks |-> "off"] /\ next = [p \in Locks |-> 0]
    /\ renewSent = [p \in Locks |-> 0]
    /\ stmt = [p \in Locks |-> NoStmt]

(* The token a lightweight transaction on the row finds.                    *)
Held == IF now < expiry THEN holder ELSE None

DeadlineAfter(t) == t + (Ttl - Margin)

WriteRow(p) == holder' = p /\ expiry' = now + Ttl

(* The run of p is over, and nobody reads its lease or its timer any more.  *)
EndRun(p) ==
    /\ stage' = [stage EXCEPT ![p] = "out"] /\ sent' = [sent EXCEPT ![p] = 0]
    /\ deadline' = [deadline EXCEPT ![p] = 0] /\ progress' = [progress EXCEPT ![p] = 0]
    /\ next' = [next EXCEPT ![p] = 0]
    /\ UNCHANGED found

-----------------------------------------------------------------------------
(* acquire sends INSERT .. IF NOT EXISTS USING TTL.                         *)
Take(p) ==
    /\ stage[p] = "idle"
    /\ stage' = [stage EXCEPT ![p] = "taking"] /\ sent' = [sent EXCEPT ![p] = now]
    /\ UNCHANGED <<now, found, rowVars, leaseVars, renewVars, stmt>>

(* It lands.  A row that holds this lock's own token already is left as it  *)
(* is, and is as good as a new one.                                         *)
TakeLands(p) ==
    /\ stage[p] = "taking"
    /\ stage' = [stage EXCEPT ![p] = IF Held \in {None, p} THEN "granted" ELSE "refused"]
    /\ found' = IF Held = p THEN found \cup {p} ELSE found \ {p}
    /\ IF Held = None THEN WriteRow(p) ELSE UNCHANGED rowVars
    /\ UNCHANGED <<now, sent, leaseVars, renewVars, stmt>>

(* start: the lease dates from the INSERT that was answered, and the        *)
(* renewal task runs from here on.                                          *)
Start(p) ==
    /\ stage[p] = "granted"
    /\ stage' = [stage EXCEPT ![p] = "holding"] /\ sent' = [sent EXCEPT ![p] = 0]
    /\ deadline' = [deadline EXCEPT ![p] = DeadlineAfter(sent[p])]
    /\ progress' = [progress EXCEPT ![p] = now]
    /\ renewal' = [renewal EXCEPT ![p] = "sleeping"]
    /\ next' = [next EXCEPT ![p] = now + RenewEvery]
    /\ UNCHANGED <<now, found, rowVars, renewSent, stmt>>

(* Another token, or an error: try again, or give up after the timeout.     *)
(* The answer that is lost may be that of an INSERT that landed.            *)
TakeFails(p) ==
    /\ stage[p] \in Taking
    /\ \E s \in {"idle", "out"} : stage' = [stage EXCEPT ![p] = s]
    /\ sent' = [sent EXCEPT ![p] = 0] /\ found' = found \ {p}
    /\ UNCHANGED <<now, rowVars, leaseVars, renewVars, stmt>>

-----------------------------------------------------------------------------
(* run_file checks the deadline, then sends a statement.                    *)
SendStatement(p) ==
    /\ stage[p] = "holding" /\ stmt[p] = NoStmt
    /\ now < deadline[p]
    /\ stmt' = [stmt EXCEPT ![p] = now]
    /\ UNCHANGED <<now, rowVars, runVars, leaseVars, renewVars>>

EndStatement(p) ==
    /\ stmt[p] # NoStmt
    /\ stmt' = [stmt EXCEPT ![p] = NoStmt]
    /\ progress' = [progress EXCEPT ![p] = IF stage[p] = "holding" THEN now ELSE @]
    /\ UNCHANGED <<now, rowVars, runVars, deadline, renewVars>>

(* A round of wait_for_agreement_with, or a poll of Progressing.            *)
Progress(p) ==
    /\ stage[p] = "holding"
    /\ progress' = [progress EXCEPT ![p] = now]
    /\ UNCHANGED <<now, rowVars, runVars, deadline, renewVars, stmt>>

(* guard, or the check before a statement, finds the lease lapsed.  What is *)
(* in flight goes on; release after that does nothing.                      *)
Lapse(p) ==
    /\ stage[p] = "holding" /\ now >= deadline[p]
    /\ EndRun(p)
    /\ UNCHANGED <<now, rowVars, renewal, renewSent, stmt>>

(* release: the renewal is aborted and the lease ends, before the wait for  *)
(* schema agreement ..                                                      *)
Release(p) ==
    /\ stage[p] = "holding" /\ stmt[p] = NoStmt
    /\ now < deadline[p]
    /\ stage' = [stage EXCEPT ![p] = "releasing"]
    /\ deadline' = [deadline EXCEPT ![p] = now]
    /\ UNCHANGED <<now, rowVars, sent, found, progress, renewVars, stmt>>

(* .. and DELETE .. IF value = token after it.                              *)
DeleteRow(p) ==
    /\ stage[p] = "releasing"
    /\ EndRun(p)
    /\ holder' = IF Held = p THEN None ELSE holder
    /\ UNCHANGED <<now, expiry, renewal, renewSent, stmt>>

(* The process dies, a request fails, or the lock is dropped.               *)
Abandon(p) ==
    /\ stage[p] # "out"
    /\ EndRun(p)
    /\ UNCHANGED <<now, rowVars, renewal, renewSent, stmt>>

-----------------------------------------------------------------------------
(* A renewal that goes on whatever the run does.                            *)
RenewAlways(p) ==
    /\ stage[p] = "holding" /\ renewal[p] = "sleeping"
    /\ next[p] <= now /\ now < deadline[p]
    /\ renewal' = [renewal EXCEPT ![p] = "asked"]
    /\ renewSent' = [renewSent EXCEPT ![p] = now]
    /\ UNCHANGED <<now, rowVars, runVars, leaseVars, next, stmt>>

(* renew sends UPDATE .. IF value = token, while the run makes progress.    *)
Renew(p) ==
    /\ stage[p] = "holding" /\ renewal[p] = "sleeping"
    /\ next[p] <= now /\ now < deadline[p]
    /\ now - progress[p] < Stall
    /\ renewal' = [renewal EXCEPT ![p] = "asked"]
    /\ renewSent' = [renewSent EXCEPT ![p] = now]
    /\ UNCHANGED <<now, rowVars, runVars, leaseVars, next, stmt>>

(* No progress: the task sleeps until the deadline.                         *)
RenewStalled(p) ==
    /\ stage[p] = "holding" /\ renewal[p] = "sleeping"
    /\ next[p] <= now /\ now < deadline[p]
    /\ now - progress[p] >= Stall
    /\ next' = [next EXCEPT ![p] = deadline[p]]
    /\ UNCHANGED <<now, rowVars, runVars, leaseVars, renewal, renewSent, stmt>>

(* The UPDATE lands, also after the task was aborted.                       *)
RenewLands(p) ==
    /\ renewal[p] = "asked"
    /\ renewal' = [renewal EXCEPT ![p] = IF Held = p THEN "renewed" ELSE "refused"]
    /\ IF Held = p THEN WriteRow(p) ELSE UNCHANGED rowVars
    /\ UNCHANGED <<now, runVars, leaseVars, next, renewSent, stmt>>

(* A lease that counts from the answer of the renewal.                      *)
RenewedFromAnswer(p) ==
    /\ stage[p] = "holding" /\ renewal[p] = "renewed"
    /\ deadline' = [deadline EXCEPT ![p] = DeadlineAfter(now)]
    /\ next' = [next EXCEPT ![p] = renewSent[p] + RenewEvery]
    /\ renewal' = [renewal EXCEPT ![p] = "sleeping"]
    /\ renewSent' = [renewSent EXCEPT ![p] = 0]
    /\ UNCHANGED <<now, rowVars, runVars, progress, stmt>>

(* The lease counts from when the renewal was sent.                         *)
Renewed(p) ==
    /\ stage[p] = "holding" /\ renewal[p] = "renewed"
    /\ deadline' = [deadline EXCEPT ![p] = DeadlineAfter(renewSent[p])]
    /\ next' = [next EXCEPT ![p] = renewSent[p] + RenewEvery]
    /\ renewal' = [renewal EXCEPT ![p] = "sleeping"]
    /\ renewSent' = [renewSent EXCEPT ![p] = 0]
    /\ UNCHANGED <<now, rowVars, runVars, progress, stmt>>

(* The row has another token, or none: the lease is over.                   *)
RenewRefused(p) ==
    /\ stage[p] = "holding" /\ renewal[p] = "refused"
    /\ deadline' = [deadline EXCEPT ![p] = now]
    /\ renewal' = [renewal EXCEPT ![p] = "off"]
    /\ renewSent' = [renewSent EXCEPT ![p] = 0]
    /\ UNCHANGED <<now, rowVars, runVars, progress, next, stmt>>

(* Unknown result: try again soon.                                          *)
RenewFails(p) ==
    /\ renewal[p] \in Asking
    /\ renewal' = [renewal EXCEPT ![p] = "sleeping"]
    /\ next' = [next EXCEPT ![p] = IF stage[p] = "holding" THEN now + (RenewEvery \div 3) ELSE @]
    /\ renewSent' = [renewSent EXCEPT ![p] = 0]
    /\ UNCHANGED <<now, rowVars, runVars, leaseVars, stmt>>

(* The task wakes at the deadline and reports the lease lost.               *)
RenewExpired(p) ==
    /\ stage[p] = "holding" /\ renewal[p] = "sleeping"
    /\ now >= deadline[p]
    /\ renewal' = [renewal EXCEPT ![p] = "off"]
    /\ UNCHANGED <<now, rowVars, runVars, leaseVars, next, renewSent, stmt>>

-----------------------------------------------------------------------------
(* Time passes, but for no request beyond its timeout.                      *)
Tick ==
    /\ now < MaxTime
    /\ \A p \in Locks :
          /\ stage[p] \in Taking => now < sent[p] + RequestTimeout
          /\ renewal[p] \in Asking => now < renewSent[p] + RequestTimeout
          /\ stmt[p] # NoStmt => now < stmt[p] + DdlTimeout
    /\ now' = now + 1
    /\ UNCHANGED <<rowVars, runVars, leaseVars, renewVars, stmt>>

LockStep(p) ==
    \/ Take(p) \/ TakeLands(p) \/ Start(p) \/ TakeFails(p)
    \/ SendStatement(p) \/ EndStatement(p) \/ Progress(p) \/ Lapse(p)
    \/ Release(p) \/ DeleteRow(p) \/ Abandon(p)
    \/ Renew(p) \/ RenewStalled(p) \/ RenewLands(p) \/ Renewed(p) \/ RenewRefused(p)
    \/ RenewFails(p) \/ RenewExpired(p)

Next == Tick \/ \E p \in Locks : LockStep(p)

Spec == Init /\ [][Next]_vars

-----------------------------------------------------------------------------
UnderLock(p) == stmt[p] # NoStmt => Held = p

(* A statement runs under the lock: from the moment it is sent until it is  *)
(* over, the row holds its migration's token, however late the holder, its  *)
(* renewals and their answers are; so no two migrations ever change the     *)
(* schema at once (MigrationLock::check, LeaseTimes::deadline_after).       *)
StatementUnderLock == \A p \in Locks : UnderLock(p)

(* The same of the locks that wrote their row themselves, and did not find  *)
(* it written by an INSERT of their own whose answer had been lost (acquire,*)
(* renew, release).                                                         *)
WriterUnderLock == \A p \in Locks \ found : UnderLock(p)

(* A hung holder loses the lock: one that has made no progress for the      *)
(* stall, a renewal's time and a TTL holds no row (renew).                  *)
HungHolderLoses ==
    \A p \in Locks : (stage[p] = "holding" /\ Held = p)
                         => now < progress[p] + Stall + RequestTimeout + Ttl
=============================================================================
