------------------------- MODULE MigrationLockProofs -------------------------
(***************************************************************************)
(* The lease of MigrationLock for every number of locks and every choice of *)
(* durations with DdlTimeout < Margin <= Ttl, when the lock wrote the row   *)
(* itself.                                                                  *)
(*                                                                         *)
(* The argument: a lock that believes in its lease owns the row for Margin  *)
(* longer than it believes (Believes), because the lease dates from before  *)
(* the write that set the row's expiry (Granted, InFlight), a renewal only  *)
(* moves the expiry forward (RowBound), and nobody else can write a row     *)
(* that has not expired.  A statement sent in time is therefore over before *)
(* the row expires (Covered), and the row is not deleted while it runs      *)
(* (NotReleased).                                                           *)
(***************************************************************************)
EXTENDS MigrationLock, TLAPS

(* A write to the row sets its expiry Ttl ahead of the clock.               *)
RowBound == expiry <= now + Ttl

(* The INSERT wrote the row, after it was sent.                             *)
Granted(p) ==
    /\ stage[p] \in Taking => sent[p] <= now
    /\ (stage[p] = "granted" /\ p \notin found /\ now < sent[p] + Ttl) =>
          holder = p /\ sent[p] + Ttl <= expiry

(* A renewal landed, after it was sent.                                     *)
InFlight(p) ==
    /\ renewal[p] \in Asking => renewSent[p] <= now
    /\ (stage[p] = "holding" /\ renewal[p] = "renewed" /\ now < renewSent[p] + Ttl) =>
          holder = p /\ renewSent[p] + Ttl <= expiry

Believes(p) ==
    (stage[p] = "holding" /\ p \notin found /\ now < deadline[p]) =>
        holder = p /\ deadline[p] + Margin <= expiry

Covered(p) ==
    (stmt[p] # NoStmt /\ p \notin found) => /\ now <= stmt[p] + DdlTimeout
                                       /\ holder = p /\ stmt[p] + Margin < expiry

NotReleased(p) == stmt[p] # NoStmt => stage[p] \in {"holding", "out"}

LeaseInv(p) ==
    /\ Granted(p) /\ InFlight(p)
    /\ Believes(p) /\ Covered(p) /\ NotReleased(p)

LockInv == TypeOK /\ RowBound /\ \A p \in Locks : LeaseInv(p)

-----------------------------------------------------------------------------
(* Every step of a lock keeps the state well typed.                         *)
LEMMA TypeStep == ASSUME TypeOK, [Next]_vars PROVE TypeOK'
<1> USE LockAssumption
<1>1. CASE Tick
  BY <1>1 DEF TypeOK, Tick, rowVars, runVars, leaseVars, renewVars
<1>2. ASSUME NEW p \in Locks, LockStep(p) PROVE TypeOK'
  <2>1. CASE Take(p) \/ TakeLands(p) \/ Start(p) \/ TakeFails(p)
    BY <2>1 DEF TypeOK, Take, TakeLands, Start, TakeFails, WriteRow, DeadlineAfter, Held,
       Stages, Taking, RenewalStates, rowVars, runVars, leaseVars, renewVars
  <2>2. CASE SendStatement(p) \/ EndStatement(p) \/ Progress(p) \/ Lapse(p) \/ Release(p)
             \/ DeleteRow(p) \/ Abandon(p)
    BY <2>2 DEF TypeOK, SendStatement, EndStatement, Progress, Lapse, Release, DeleteRow,
       Abandon, EndRun, Held, NoStmt, Stages, rowVars, runVars, leaseVars, renewVars
  <2>3. CASE Renew(p) \/ RenewStalled(p) \/ RenewLands(p) \/ Renewed(p) \/ RenewRefused(p)
             \/ RenewFails(p) \/ RenewExpired(p)
    BY <2>3 DEF TypeOK, Renew, RenewStalled, RenewLands, Renewed, RenewRefused, RenewFails,
       RenewExpired, WriteRow, DeadlineAfter, Held, Asking, RenewalStates, rowVars, runVars,
       leaseVars, renewVars
  <2> QED BY <1>2, <2>1, <2>2, <2>3 DEF LockStep
<1>3. CASE UNCHANGED vars
  BY <1>3 DEF TypeOK, vars
<1> QED BY <1>1, <1>2, <1>3 DEF Next

(* What a step of p may do to the row.                                      *)
RowStep(p) ==
    \/ UNCHANGED <<holder, expiry>>
    \/ Held \in {None, p} /\ holder' = p /\ expiry' = now + Ttl
    \/ Held = p /\ stage[p] = "releasing" /\ holder' = None /\ expiry' = expiry

LEMMA RowSteps == ASSUME NEW p \in Locks, LockStep(p) PROVE RowStep(p)
BY DEF LockStep, RowStep, Take, TakeLands, Start, TakeFails, SendStatement, EndStatement,
   Progress, Lapse, Release, DeleteRow, Abandon, Renew, RenewStalled, RenewLands, Renewed,
   RenewRefused, RenewFails, RenewExpired, WriteRow, rowVars

LEMMA BoundStep == ASSUME TypeOK, TypeOK', RowBound, [Next]_vars PROVE RowBound'
<1> USE LockAssumption
<1>1. CASE Tick
  BY <1>1 DEF Tick, TypeOK, RowBound, rowVars
<1>2. ASSUME NEW p \in Locks, LockStep(p) PROVE RowBound'
  <2>1. now' = now
    BY <1>2 DEF LockStep, Take, TakeLands, Start, TakeFails, SendStatement, EndStatement,
       Progress, Lapse, Release, DeleteRow, Abandon, Renew, RenewStalled, RenewLands, Renewed,
       RenewRefused, RenewFails, RenewExpired
  <2> QED BY <1>2, <2>1, RowSteps DEF RowStep, RowBound, TypeOK
<1>3. CASE UNCHANGED vars
  BY <1>3 DEF RowBound, vars
<1> QED BY <1>1, <1>2, <1>3 DEF Next

(* A step of p leaves everything of another lock alone but the row, and the *)
(* row as well while the other lock owns it.                                *)
LEMMA Frame ==
    ASSUME TypeOK, NEW p \in Locks, LockStep(p), NEW q \in Locks, q # p
    PROVE  /\ stage'[q] = stage[q] /\ sent'[q] = sent[q] /\ (q \in found' <=> q \in found)
           /\ deadline'[q] = deadline[q]
           /\ progress'[q] = progress[q] /\ renewal'[q] = renewal[q]
           /\ renewSent'[q] = renewSent[q] /\ stmt'[q] = stmt[q]
           /\ now' = now
<1>1. CASE Take(p) \/ TakeLands(p) \/ Start(p) \/ TakeFails(p)
  BY <1>1 DEF TypeOK, Take, TakeLands, Start, TakeFails, runVars, leaseVars, renewVars
<1>2. CASE SendStatement(p) \/ EndStatement(p) \/ Progress(p) \/ Lapse(p) \/ Release(p)
           \/ DeleteRow(p) \/ Abandon(p)
  BY <1>2 DEF TypeOK, SendStatement, EndStatement, Progress, Lapse, Release, DeleteRow,
     Abandon, EndRun, runVars, leaseVars, renewVars
<1>3. CASE Renew(p) \/ RenewStalled(p) \/ RenewLands(p) \/ Renewed(p) \/ RenewRefused(p)
           \/ RenewFails(p) \/ RenewExpired(p)
  BY <1>3 DEF TypeOK, Renew, RenewStalled, RenewLands, Renewed, RenewRefused, RenewFails,
     RenewExpired, runVars, leaseVars, renewVars
<1> QED BY <1>1, <1>2, <1>3 DEF LockStep

LEMMA OthersKept ==
    ASSUME LockInv, NEW p \in Locks, LockStep(p), NEW q \in Locks, q # p
    PROVE  LeaseInv(q)'
<1> USE LockAssumption
<1>1. TypeOK /\ RowBound /\ LeaseInv(q)
  BY DEF LockInv
<1>2. RowStep(p)
  BY RowSteps
<1>3. /\ stage'[q] = stage[q] /\ sent'[q] = sent[q] /\ (q \in found' <=> q \in found)
      /\ deadline'[q] = deadline[q]
      /\ renewal'[q] = renewal[q] /\ renewSent'[q] = renewSent[q] /\ stmt'[q] = stmt[q]
      /\ now' = now
  BY <1>1, Frame
<1>5. (holder = q /\ now < expiry) => holder' = holder /\ expiry' = expiry
  BY <1>2 DEF RowStep, Held
<1>8. Granted(q)'
  BY <1>1, <1>3, <1>5 DEF LeaseInv, Granted, TypeOK, Taking
<1>9. InFlight(q)'
  BY <1>1, <1>3, <1>5 DEF LeaseInv, InFlight, TypeOK, Asking
<1>10. Believes(q)'
  BY <1>1, <1>3, <1>5 DEF LeaseInv, Believes, TypeOK
<1>11. Covered(q)'
  BY <1>1, <1>3, <1>5 DEF LeaseInv, Covered, TypeOK
<1>12. NotReleased(q)'
  BY <1>1, <1>3 DEF LeaseInv, NotReleased
<1> QED BY <1>8, <1>9, <1>10, <1>11, <1>12 DEF LeaseInv

-----------------------------------------------------------------------------
(* The steps of a lock keep its own part of the invariant.                  *)
LEMMA TakeKeeps ==
    ASSUME LockInv, NEW p \in Locks,
           Take(p) \/ TakeLands(p) \/ Start(p) \/ TakeFails(p)
    PROVE  LeaseInv(p)'
<1> USE LockAssumption DEF TypeOK, LeaseInv, Taking, Asking
<1>0. TypeOK /\ RowBound /\ LeaseInv(p)
  BY DEF LockInv
<1>1. CASE Take(p)
  BY <1>0, <1>1 DEF Take, Granted, InFlight, Believes, Covered, NotReleased,
     rowVars, leaseVars, renewVars
<1>2. CASE TakeLands(p)
  <2>1. stmt[p] = NoStmt
    BY <1>0, <1>2 DEF TakeLands, NotReleased
  <2>2. p \in found' <=> Held = p
    BY <1>0, <1>2 DEF TakeLands
  <2> QED
    BY <1>0, <1>2, <2>1, <2>2 DEF TakeLands, WriteRow, RowBound, Granted, InFlight,
       Believes, Covered, NotReleased, rowVars, leaseVars, renewVars
<1>3. CASE Start(p)
  <2>1. stmt[p] = NoStmt
    BY <1>0, <1>3 DEF Start, NotReleased
  <2> QED
    BY <1>0, <1>3, <2>1 DEF Start, DeadlineAfter, Granted, InFlight, Believes,
       Covered, NotReleased, rowVars
<1>4. CASE TakeFails(p)
  BY <1>0, <1>4 DEF TakeFails, Granted, InFlight, Believes, Covered, NotReleased,
     rowVars, leaseVars, renewVars
<1> QED BY <1>1, <1>2, <1>3, <1>4

LEMMA RunKeeps ==
    ASSUME LockInv, NEW p \in Locks,
           SendStatement(p) \/ EndStatement(p) \/ Progress(p) \/ Lapse(p) \/ Release(p)
               \/ DeleteRow(p) \/ Abandon(p)
    PROVE  LeaseInv(p)'
<1> USE LockAssumption DEF TypeOK, LeaseInv, Taking, Asking
<1>0. TypeOK /\ RowBound /\ LeaseInv(p)
  BY DEF LockInv
<1>1. CASE SendStatement(p)
  BY <1>0, <1>1 DEF SendStatement, NoStmt, Granted, InFlight, Believes, Covered,
     NotReleased, rowVars, runVars, leaseVars, renewVars
<1>2. CASE EndStatement(p) \/ Progress(p)
  BY <1>0, <1>2 DEF EndStatement, Progress, Granted, InFlight, Believes, Covered,
     NotReleased, rowVars, runVars, leaseVars, renewVars
<1>3. CASE Lapse(p) \/ Abandon(p)
  BY <1>0, <1>3 DEF Lapse, Abandon, EndRun, Granted, InFlight, Believes, Covered,
     NotReleased, rowVars
<1>4. CASE Release(p)
  BY <1>0, <1>4 DEF Release, Granted, InFlight, Believes, Covered, NotReleased,
     rowVars, renewVars
<1>5. CASE DeleteRow(p)
  <2>1. stmt[p] = NoStmt
    BY <1>0, <1>5 DEF DeleteRow, NotReleased
  <2> QED
    BY <1>0, <1>5, <2>1 DEF DeleteRow, EndRun, Granted, InFlight, Believes, Covered,
       NotReleased
<1> QED BY <1>1, <1>2, <1>3, <1>4, <1>5

LEMMA RenewKeeps ==
    ASSUME LockInv, NEW p \in Locks,
           Renew(p) \/ RenewStalled(p) \/ RenewLands(p) \/ Renewed(p) \/ RenewRefused(p)
               \/ RenewFails(p) \/ RenewExpired(p)
    PROVE  LeaseInv(p)'
<1> USE LockAssumption DEF TypeOK, LeaseInv, Taking, Asking
<1>0. TypeOK /\ RowBound /\ LeaseInv(p)
  BY DEF LockInv
<1>1. CASE Renew(p) \/ RenewStalled(p) \/ RenewFails(p) \/ RenewExpired(p)
  BY <1>0, <1>1 DEF Renew, RenewStalled, RenewFails, RenewExpired, Granted, InFlight,
     Believes, Covered, NotReleased, rowVars, runVars, leaseVars
<1>2. CASE RenewLands(p)
  <2>1. CASE Held = p
    <3>1. holder = p /\ expiry <= now + Ttl /\ holder' = p /\ expiry' = now + Ttl
      BY <1>0, <1>2, <2>1 DEF RenewLands, WriteRow, Held, RowBound
    <3> QED
      BY <1>0, <1>2, <2>1, <3>1 DEF RenewLands, Granted, InFlight, Believes, Covered,
         NotReleased, runVars, leaseVars
  <2>2. CASE Held # p
    BY <1>0, <1>2, <2>2 DEF RenewLands, Granted, InFlight, Believes, Covered,
       NotReleased, rowVars, runVars, leaseVars
  <2> QED BY <2>1, <2>2
<1>3. CASE Renewed(p)
  BY <1>0, <1>3 DEF Renewed, DeadlineAfter, Granted, InFlight, Believes, Covered,
     NotReleased, rowVars, runVars
<1>4. CASE RenewRefused(p)
  BY <1>0, <1>4 DEF RenewRefused, Granted, InFlight, Believes, Covered, NotReleased,
     rowVars, runVars
<1> QED BY <1>1, <1>2, <1>3, <1>4

(* Time passes for no statement beyond its bound.                           *)
LEMMA TickKeeps == ASSUME LockInv, Tick, NEW p \in Locks PROVE LeaseInv(p)'
<1> USE LockAssumption
<1>1. TypeOK /\ LeaseInv(p)
  BY DEF LockInv
<1> QED
  BY <1>1 DEF TypeOK, LeaseInv, Tick, Granted, InFlight, Believes, Covered,
     NotReleased, NoStmt, Taking, Asking, rowVars, runVars, leaseVars, renewVars

(* No statement of a migration ever runs after its row expired, was deleted *)
(* or went to another migration, for every choice of durations in which the *)
(* margin covers the bound on a statement (LeaseTimes::DEFAULT,             *)
(* LOCKED_DDL_TIMEOUT), and for every lock that wrote its row itself.       *)
THEOREM LockWriterUnderLock == Spec => []WriterUnderLock
<1>1. Init => LockInv
  BY LockAssumption DEF Init, LockInv, TypeOK, RowBound, LeaseInv, Granted, InFlight,
     Believes, Covered, NotReleased, Stages, RenewalStates, Taking, Asking, NoStmt
<1>2. LockInv /\ [Next]_vars => LockInv'
  <2> SUFFICES ASSUME LockInv, [Next]_vars PROVE LockInv'
    OBVIOUS
  <2>1. TypeOK' /\ RowBound'
    BY TypeStep, BoundStep DEF LockInv
  <2>2. ASSUME NEW q \in Locks PROVE LeaseInv(q)'
    <3>1. CASE Tick
      BY <3>1, TickKeeps
    <3>2. ASSUME NEW p \in Locks, LockStep(p) PROVE LeaseInv(q)'
      <4>1. CASE q # p
        BY <3>2, <4>1, OthersKept
      <4>2. CASE q = p
        BY <3>2, <4>2, TakeKeeps, RunKeeps, RenewKeeps DEF LockStep
      <4> QED BY <4>1, <4>2
    <3>3. CASE UNCHANGED vars
      BY <3>3 DEF LockInv, LeaseInv, Granted, InFlight, Believes, Covered,
         NotReleased, vars
    <3> QED BY <3>1, <3>2, <3>3 DEF Next
  <2> QED BY <2>1, <2>2 DEF LockInv
<1>3. LockInv => WriterUnderLock
  BY LockAssumption DEF LockInv, LeaseInv, Covered, TypeOK, WriterUnderLock, UnderLock, Held, NoStmt
<1> QED BY <1>1, <1>2, <1>3, PTL DEF Spec

-----------------------------------------------------------------------------
(* A renewal was sent while the run made progress, and lands in time.       *)
Hung(p) ==
    stage[p] = "holding" =>
        /\ progress[p] <= now
        /\ holder = p => expiry <= progress[p] + Stall + RequestTimeout + Ttl
        /\ renewal[p] = "asked" => /\ renewSent[p] < progress[p] + Stall
                                   /\ now <= renewSent[p] + RequestTimeout

HungInv == TypeOK /\ RowBound /\ \A p \in Locks : Hung(p)

LEMMA HungStep == ASSUME HungInv, NEW p \in Locks, LockStep(p) PROVE Hung(p)'
<1> USE LockAssumption DEF TypeOK, Hung
<1>0. TypeOK /\ RowBound /\ Hung(p)
  BY DEF HungInv
<1>1. CASE Take(p) \/ TakeLands(p) \/ TakeFails(p)
  BY <1>0, <1>1 DEF Take, TakeLands, TakeFails
<1>2. CASE Start(p)
  BY <1>0, <1>2 DEF Start, RowBound, rowVars
<1>3. CASE SendStatement(p) \/ EndStatement(p) \/ Progress(p)
  BY <1>0, <1>3 DEF SendStatement, EndStatement, Progress, rowVars, runVars, leaseVars,
     renewVars
<1>4. CASE Lapse(p) \/ Release(p) \/ DeleteRow(p) \/ Abandon(p)
  BY <1>0, <1>4 DEF Lapse, Release, DeleteRow, Abandon, EndRun
<1>5. CASE Renew(p)
  BY <1>0, <1>5 DEF Renew, rowVars, runVars, leaseVars
<1>6. CASE RenewLands(p)
  BY <1>0, <1>6 DEF RenewLands, WriteRow, Held, rowVars, runVars, leaseVars
<1>7. CASE RenewStalled(p) \/ Renewed(p) \/ RenewRefused(p) \/ RenewFails(p) \/ RenewExpired(p)
  BY <1>0, <1>7 DEF RenewStalled, Renewed, RenewRefused, RenewFails, RenewExpired, rowVars,
     runVars, leaseVars
<1> QED BY <1>1, <1>2, <1>3, <1>4, <1>5, <1>6, <1>7 DEF LockStep

(* A holder that makes no progress has lost the row after the stall, the    *)
(* time of one renewal and a TTL, whatever happens to the INSERTs (renew).  *)
THEOREM LockHungHolderLoses == Spec => []HungHolderLoses
<1>1. Init => HungInv
  BY LockAssumption DEF Init, HungInv, TypeOK, RowBound, Hung, Stages, RenewalStates, NoStmt
<1>2. HungInv /\ [Next]_vars => HungInv'
  <2> SUFFICES ASSUME HungInv, [Next]_vars PROVE HungInv'
    OBVIOUS
  <2>1. TypeOK' /\ RowBound'
    BY TypeStep, BoundStep DEF HungInv
  <2>2. ASSUME NEW q \in Locks PROVE Hung(q)'
    <3>0. TypeOK /\ Hung(q)
      BY DEF HungInv
    <3>1. CASE Tick
      BY <3>0, <3>1, LockAssumption DEF Tick, Hung, TypeOK, Asking, rowVars, runVars,
         leaseVars, renewVars
    <3>2. ASSUME NEW p \in Locks, LockStep(p) PROVE Hung(q)'
      <4>1. CASE q = p
        BY <3>2, <4>1, HungStep
      <4>2. CASE q # p
        <5>1. holder' # q \/ (holder' = holder /\ expiry' = expiry)
          BY <3>2, <4>2, RowSteps, LockAssumption DEF RowStep
        <5> QED BY <3>0, <3>2, <4>2, <5>1, Frame DEF Hung
      <4> QED BY <4>1, <4>2
    <3>3. CASE UNCHANGED vars
      BY <3>0, <3>3 DEF Hung, vars
    <3> QED BY <3>1, <3>2, <3>3 DEF Next
  <2> QED BY <2>1, <2>2 DEF HungInv
<1>3. HungInv => HungHolderLoses
  BY LockAssumption DEF HungInv, Hung, TypeOK, HungHolderLoses, Held
<1> QED BY <1>1, <1>2, <1>3, PTL DEF Spec
=============================================================================
