---------------------------- MODULE CassTxnProofs ----------------------------
(* Proofs about CassTxn, for every set of keys, transactions, requests,     *)
(* recovery workers and single-item writes.                                 *)
EXTENDS CassTxn, WellFoundedInduction, TLAPS

(* What the proof needs of the types: one row per key.                      *)
RowsTyped ==
    /\ live \in [Keys -> BOOLEAN] /\ ctp \in [Keys -> BOOLEAN]
    /\ item = [k \in Keys |-> item[k]] /\ prep = [k \in Keys |-> prep[k]]
    /\ committed = [k \in Keys |-> committed[k]]

(* DataIntact is inductive with one more fact: a row that does not exist    *)
(* holds neither an item nor a mark.                                        *)
AbsentRowsEmpty ==
    \A k \in Keys : ~live[k] => item[k] = NoItem /\ prep[k] = None /\ ~ctp[k]

RowInv == RowsTyped /\ AbsentRowsEmpty /\ DataIntact

(* The rows and what is known of them.                                      *)
dataVars == <<live, item, prep, ctp, committed>>

USE DEF RowsTyped, AbsentRowsEmpty, DataIntact

-----------------------------------------------------------------------------
(* What a step does to the rows, one lemma each.                            *)

(* A step that touches no row keeps the invariant.                          *)
LEMMA NoRowTouched == RowInv /\ UNCHANGED dataVars => RowInv'
  BY DEF RowInv, dataVars

(* The marker LWT of PREPARE.                                               *)
LEMMA MarkKeepsRows ==
  ASSUME NEW t \in Txns, NEW k, NEW o, RowInv, MarkRow(t, k, o), UNCHANGED committed
  PROVE  RowInv'
  <1>0. t # None
    BY TxnAssumption
  <1>1. CASE PlantsRow(o, seen[t])
    BY <1>0, <1>1 DEF RowInv, MarkRow
  <1>2. CASE ~PlantsRow(o, seen[t])
    BY <1>0, <1>2 DEF RowInv, MarkRow
  <1> QED BY <1>1, <1>2

(* A commit of an item on a row the transaction holds.                      *)
LEMMA CommitKeepsRows ==
  ASSUME NEW t, t # None, NEW i, NEW k, NEW x, NEW stamp, RowInv, prep[k] = t,
         CommitRow(k, x, stamp), TakeEffect(t, i, k, x)
  PROVE  RowInv'
  BY DEF RowInv, CommitRow, TakeEffect

(* A commit of a Delete.                                                    *)
LEMMA DeleteKeepsRows ==
  ASSUME NEW t, NEW i, NEW k, RowInv, DeleteRow(k), TakeEffect(t, i, k, NoItem)
  PROVE  RowInv'
  BY DEF RowInv, DeleteRow, TakeEffect

(* The removal of a planted row: nothing committed is lost.                 *)
LEMMA DropPlantedKeepsRows ==
  ASSUME NEW k, RowInv, ctp[k], DeleteRow(k), UNCHANGED committed
  PROVE  RowInv'
  BY DEF RowInv, DeleteRow

(* Rollback of one row, by the coordinator or by recovery.                  *)
LEMMA UnmarkKeepsRows ==
  ASSUME NEW t, NEW k, RowInv, Unmark(t, k), UNCHANGED committed
  PROVE  RowInv'
  <1>1. CASE prep[k] # t
    BY <1>1, NoRowTouched DEF Unmark, rowVars, dataVars
  <1>2. CASE prep[k] = t /\ ctp[k]
    BY <1>2, DropPlantedKeepsRows DEF Unmark
  <1>3. CASE prep[k] = t /\ ~ctp[k]
    BY <1>3 DEF Unmark, ClearMarker, RowInv
  <1> QED BY <1>1, <1>2, <1>3

(* A single-item write that passed its fence.                               *)
LEMMA SingleKeepsRows ==
  ASSUME NEW s \in Singles, RowInv, SingleWrite(s)
  PROVE  RowInv'
  <1> DEFINE k == single[s].op.key
             x == PostImage(single[s].op, single[s].item, s)
  <1>1. prep[k] = None
    BY DEF SingleWrite, Fence
  <1>2. CASE single[s].op.kind = "delete"
    <2>1. x = NoItem
      BY <1>2 DEF PostImage
    <2>2. DeleteRow(k) /\ committed' = [committed EXCEPT ![k] = NoItem]
      BY <1>2, <2>1 DEF SingleWrite
    <2> QED BY <2>2 DEF RowInv, DeleteRow
  <1>3. CASE single[s].op.kind # "delete"
    <2>1. /\ item' = [item EXCEPT ![k] = x] /\ live' = [live EXCEPT ![k] = TRUE]
          /\ UNCHANGED <<prep, ctp>> /\ committed' = [committed EXCEPT ![k] = x]
      BY <1>3 DEF SingleWrite
    <2> HIDE DEF k, x
    <2> QED BY <1>1, <2>1 DEF RowInv
  <1> QED BY <1>2, <1>3

-----------------------------------------------------------------------------
LEMMA RowInvInit == Init => RowInv
  BY DEF Init, RowInv

(* Every step of a coordinator.                                             *)
LEMMA CoordinatorKeepsRows ==
  ASSUME NEW t \in Txns, RowInv, CoordinatorStep(t)
  PROVE  RowInv'
  <1>0. t # None
    BY TxnAssumption
  <1>1. CASE PrepareRead(t) \/ PrepareFails(t) \/ PrepareFloor(t) \/ PrepareLost(t) \/ PrepareWait(t)
    BY <1>1, NoRowTouched
    DEF PrepareRead, PrepareFails, PrepareFloor, PrepareLost, PrepareWait, rowVars, historyVars,
        dataVars
  <1>2. CASE PrepareMark(t)
    BY <1>2, MarkKeepsRows DEF PrepareMark, historyVars
  <1>3. CASE SaveImages(t) \/ StartCommit(t) \/ CommitDone(t) \/ StartRollback(t) \/ RollbackDone(t)
    BY <1>3, NoRowTouched
    DEF SaveImages, StartCommit, CommitDone, StartRollback, RollbackDone, rowVars, historyVars,
        dataVars
  <1>4. CASE CommitWrite(t)
    <2> DEFINE k == req[t][pos[t]].key
               x == PostImage(req[t][pos[t]], item[k], t)
    <2>1. CASE prep[k] = t
      <3>1. CommitRow(k, x, ts[t]) /\ TakeEffect(t, pos[t], k, x)
        BY <1>4, <2>1 DEF CommitWrite
      <3> QED BY <1>0, <2>1, <3>1, CommitKeepsRows
    <2>2. CASE prep[k] # t
      BY <1>4, <2>2, NoRowTouched DEF CommitWrite, rowVars, historyVars, dataVars
    <2> QED BY <2>1, <2>2
  <1>5. CASE CommitDelete(t)
    <2> DEFINE k == req[t][pos[t]].key
    <2>1. CASE prep[k] = t
      BY <1>5, <2>1, DeleteKeepsRows DEF CommitDelete
    <2>2. CASE prep[k] # t
      BY <1>5, <2>2, NoRowTouched DEF CommitDelete, rowVars, historyVars, dataVars
    <2> QED BY <2>1, <2>2
  <1>6. CASE CommitCheck(t)
    <2> DEFINE k == req[t][pos[t]].key
    <2>1. CASE prep[k] = t /\ ctp[k]
      BY <1>6, <2>1, DropPlantedKeepsRows DEF CommitCheck, historyVars
    <2>2. CASE ~(prep[k] = t /\ ctp[k])
      BY <1>6, <2>2, NoRowTouched DEF CommitCheck, rowVars, historyVars, dataVars
    <2> QED BY <2>1, <2>2
  <1>7. CASE RollbackOp(t)
    <2> DEFINE k == req[t][pos[t]].key
    <2>1. CASE item[k] = NoItem
      BY <1>7, <2>1, NoRowTouched DEF RollbackOp, rowVars, historyVars, dataVars
    <2>2. CASE item[k] # NoItem
      BY <1>7, <2>2, UnmarkKeepsRows DEF RollbackOp, historyVars
    <2> QED BY <2>1, <2>2
  <1> QED BY <1>1, <1>2, <1>3, <1>4, <1>5, <1>6, <1>7 DEF CoordinatorStep

(* Every step of a recovery worker.                                         *)
LEMMA RecoveryKeepsRows ==
  ASSUME NEW r \in Recoverers, RowInv, RecoveryStep(r)
  PROVE  RowInv'
  <1> DEFINE t == rec[r].txn
             k == RecOp(r).key
             x == image[t][rec[r].pos]
  <1>1. CASE \E u \in Txns : StartRecovery(r, u)
    BY <1>1, NoRowTouched DEF StartRecovery, rowVars, historyVars, dataVars
  <1>2. CASE RecoverWrite(r)
    <2>1. CASE prep[k] = t
      <3>1. t # None /\ CommitRow(k, x, ts[t]) /\ TakeEffect(t, rec[r].pos, k, x)
        BY <1>2, <2>1 DEF RecoverWrite
      <3> QED BY <2>1, <3>1, CommitKeepsRows
    <2>2. CASE prep[k] # t
      BY <1>2, <2>2, NoRowTouched DEF RecoverWrite, rowVars, historyVars, dataVars
    <2> QED BY <2>1, <2>2
  <1>3. CASE RecoverDelete(r)
    <2>1. CASE prep[k] = t
      BY <1>3, <2>1, DeleteKeepsRows DEF RecoverDelete
    <2>2. CASE prep[k] # t
      BY <1>3, <2>2, NoRowTouched DEF RecoverDelete, rowVars, historyVars, dataVars
    <2> QED BY <2>1, <2>2
  <1>4. CASE RecoverCheck(r)
    <2>1. CASE prep[k] = t /\ ctp[k]
      BY <1>4, <2>1, DropPlantedKeepsRows DEF RecoverCheck, historyVars
    <2>2. CASE ~(prep[k] = t /\ ctp[k])
      BY <1>4, <2>2, NoRowTouched DEF RecoverCheck, rowVars, historyVars, dataVars
    <2> QED BY <2>1, <2>2
  <1>5. CASE RecoverRollback(r)
    BY <1>5, UnmarkKeepsRows DEF RecoverRollback, historyVars
  <1>6. CASE RecoverDone(r)
    BY <1>6, NoRowTouched DEF RecoverDone, rowVars, historyVars, dataVars
  <1> QED BY <1>1, <1>2, <1>3, <1>4, <1>5, <1>6 DEF RecoveryStep

LEMMA RowInvNext == RowInv /\ [Next]_vars => RowInv'
  <1> SUFFICES ASSUME RowInv, [Next]_vars
               PROVE  RowInv'
    OBVIOUS
  <1>1. ASSUME NEW t \in Txns, NEW q \in Requests, Begin(t, q)
        PROVE  RowInv'
    BY <1>1, NoRowTouched DEF Begin, rowVars, historyVars, dataVars
  <1>2. ASSUME NEW t \in Txns, CoordinatorStep(t)
        PROVE  RowInv'
    BY <1>2, CoordinatorKeepsRows
  <1>3. ASSUME NEW t \in Txns, Abandon(t)
        PROVE  RowInv'
    BY <1>3, NoRowTouched DEF Abandon, rowVars, historyVars, dataVars
  <1>4. ASSUME NEW r \in Recoverers, RecoveryStep(r)
        PROVE  RowInv'
    BY <1>4, RecoveryKeepsRows
  <1>5. ASSUME NEW r \in Recoverers, RecoverFails(r)
        PROVE  RowInv'
    BY <1>5, NoRowTouched DEF RecoverFails, rowVars, historyVars, dataVars
  <1>6. ASSUME NEW s \in Singles, NEW o \in SingleOps, SingleRead(s, o)
        PROVE  RowInv'
    BY <1>6, NoRowTouched DEF SingleRead, rowVars, historyVars, dataVars
  <1>7. ASSUME NEW s \in Singles, SingleStep(s)
        PROVE  RowInv'
    <2>1. CASE SingleWrite(s)
      BY <2>1, SingleKeepsRows
    <2>2. CASE SingleRetry(s)
      BY <2>2, NoRowTouched DEF SingleRetry, rowVars, historyVars, dataVars
    <2> QED BY <1>7, <2>1, <2>2 DEF SingleStep
  <1>8. CASE UNCHANGED vars
    BY <1>8, NoRowTouched DEF vars, dataVars
  <1> QED BY <1>1, <1>2, <1>3, <1>4, <1>5, <1>6, <1>7, <1>8 DEF Next

(* Committed data survives: whatever transactions are cancelled, committed, *)
(* cut off or recovered, and even when recovery takes a transaction that is *)
(* still running for a dead one, a row holds the item of the last write     *)
(* that took effect, and a row PREPARE planted is held by its transaction   *)
(* (commit_put_or_update, commit_condition_check,                           *)
(* rollback_single_operation, recover_rollback_op).                         *)
THEOREM TxnDataIntact == Spec => []DataIntact
  <1>1. RowInv => DataIntact
    BY DEF RowInv
  <1> QED BY <1>1, RowInvInit, RowInvNext, PTL DEF Spec

-----------------------------------------------------------------------------
(* AnswerIsOutcome.                                                         *)

Preparing == {"idle", "prepare", "floor", "mark", "wait", "saved"}

(* The transaction has not reached COMMITTING, or never will.               *)
Undecided(t) == pc[t] \in Preparing \/ failed[t]

AnswerTyped ==
    /\ pc \in [Txns -> Pcs] /\ failed \in [Txns -> BOOLEAN]
    /\ ledger \in [Txns -> LedgerStates] /\ answer \in [Txns -> Answers]
    /\ pos \in [Txns -> Nat \ {0}] /\ req \in [Txns -> Requests \cup {<<>>}]
    /\ applied = [t \in Txns |-> applied[t]] /\ image = [t \in Txns |-> image[t]]
    /\ rec \in [Recoverers -> RecState]

(* Nobody, and no recovery worker, commits an undecided transaction.        *)
UndecidedInert(t) ==
    Undecided(t) => /\ applied[t] = {} /\ ledger[t] # "committing"
                    /\ \A r \in Recoverers : rec[r].txn = t => rec[r].mode = "rollback"

(* Where a coordinator stands, and what it has decided and answered.        *)
Decision(t) ==
    /\ pc[t] \in Preparing => pos[t] = 1 /\ answer[t] = "none"
    /\ pc[t] = "rollback" => failed[t]
    /\ pc[t] \in {"saved", "commit"} => ~failed[t]
    /\ answer[t] = "cancelled" => failed[t]

(* The commit loop leaves no effect behind it that has not been applied.    *)
CommitProgress(t) ==
    /\ applied[t] \subseteq Effects(t)
    /\ pc[t] = "commit" => \A i \in Effects(t) : i < pos[t] => i \in applied[t]
    /\ answer[t] = "committed" => Effects(t) \subseteq applied[t]

TxnInv(t) == UndecidedInert(t) /\ Decision(t) /\ CommitProgress(t)
AnswerInv == AnswerTyped /\ \A t \in Txns : TxnInv(t)

(* The state of a transaction that TxnInv reads.                            *)
View(t) == <<pc[t], failed[t], ledger[t], answer[t], applied[t], pos[t], req[t], image[t]>>
answerVars == <<pc, failed, ledger, answer, applied, pos, req, image, rec>>

(* No recovery worker turns to t, or changes what it does with it.          *)
RecoveryOf(t) ==
    \A r \in Recoverers : rec'[r].txn = t => rec[r].txn = t /\ rec'[r].mode = rec[r].mode

(* A step that leaves a transaction alone keeps what is known of it.        *)
LEMMA Frame ==
  ASSUME NEW t \in Txns, TxnInv(t), View(t)' = View(t), RecoveryOf(t)
  PROVE  TxnInv(t)'
  <1>1. /\ pc'[t] = pc[t] /\ failed'[t] = failed[t] /\ ledger'[t] = ledger[t]
        /\ answer'[t] = answer[t] /\ applied'[t] = applied[t] /\ pos'[t] = pos[t]
        /\ req'[t] = req[t] /\ image'[t] = image[t]
    BY DEF View
  <1>2. Effects(t)' = Effects(t)
    BY <1>1 DEF Effects
  <1>3. UndecidedInert(t)'
    BY <1>1 DEF TxnInv, UndecidedInert, Undecided, RecoveryOf
  <1>4. Decision(t)'
    BY <1>1 DEF TxnInv, Decision
  <1>5. CommitProgress(t)'
    BY <1>1, <1>2 DEF TxnInv, CommitProgress
  <1> QED BY <1>3, <1>4, <1>5 DEF TxnInv

LEMMA NothingDecided == AnswerInv /\ UNCHANGED answerVars => AnswerInv'
  <1> SUFFICES ASSUME AnswerInv, UNCHANGED answerVars
               PROVE  AnswerInv'
    OBVIOUS
  <1>1. AnswerTyped'
    BY DEF AnswerInv, AnswerTyped, answerVars
  <1>2. ASSUME NEW t \in Txns
        PROVE  TxnInv(t)'
    BY Frame DEF AnswerInv, View, RecoveryOf, answerVars
  <1> QED BY <1>1, <1>2 DEF AnswerInv

(* A step of t alone.                                                       *)
LEMMA OwnStep ==
  ASSUME NEW t \in Txns, AnswerInv, AnswerTyped', TxnInv(t)', rec' = rec,
         \A u \in Txns \ {t} : View(u)' = View(u)
  PROVE  AnswerInv'
  <1>1. ASSUME NEW u \in Txns \ {t}
        PROVE  TxnInv(u)'
    BY <1>1, Frame DEF AnswerInv, RecoveryOf
  <1> QED BY <1>1 DEF AnswerInv

LEMMA BeginAnswers ==
  ASSUME NEW t \in Txns, NEW q \in Requests, AnswerInv, Begin(t, q)
  PROVE  AnswerInv'
  <1>0. pc[t] = "idle" /\ UNCHANGED <<failed, answer, applied, pos, rec>>
    BY DEF Begin, recVars, historyVars
  <1>1. AnswerTyped'
    BY <1>0 DEF AnswerInv, AnswerTyped, Begin, Pcs, Running, LedgerStates
  <1>2. \A u \in Txns \ {t} : View(u)' = View(u)
    BY <1>0 DEF AnswerInv, AnswerTyped, Begin, View
  <1>3. TxnInv(t) /\ pc'[t] = "prepare" /\ ledger'[t] = "preparing"
    BY DEF AnswerInv, AnswerTyped, Begin
  <1>4. UndecidedInert(t)'
    BY <1>0, <1>3 DEF TxnInv, UndecidedInert, Undecided, Preparing
  <1>5. Decision(t)'
    BY <1>0, <1>3 DEF TxnInv, Decision, Preparing
  <1>6. CommitProgress(t)'
    BY <1>0, <1>3 DEF TxnInv, UndecidedInert, Undecided, Preparing, Decision, CommitProgress
  <1> QED BY <1>0, <1>1, <1>2, <1>4, <1>5, <1>6, OwnStep DEF TxnInv

(* An operation of PREPARE is read, marked, waited for, failed or finished. *)
PrepareEffect(t) ==
    /\ pc[t] \in {"prepare", "floor", "mark", "wait"}
    /\ \/ FailOp(t)
       \/ \E x : FinishOp(t, x)
       \/ \E target \in {"floor", "mark", "wait"} : EnterOp(t, target)
    /\ UNCHANGED <<ledger, req, pos, answer, rec, applied>>

LEMMA PrepareEffects ==
  ASSUME NEW t \in Txns,
         \/ PrepareRead(t) \/ PrepareFails(t) \/ PrepareFloor(t)
         \/ PrepareMark(t) \/ PrepareLost(t) \/ PrepareWait(t)
  PROVE  PrepareEffect(t)
  <1> USE DEF PrepareEffect, ledgerVars, recVars, historyVars
  <1>1. CASE PrepareRead(t)
    BY <1>1 DEF PrepareRead
  <1>2. CASE PrepareFails(t)
    BY <1>2 DEF PrepareFails
  <1>3. CASE PrepareFloor(t)
    BY <1>3 DEF PrepareFloor
  <1>4. CASE PrepareMark(t)
    BY <1>4 DEF PrepareMark
  <1>5. CASE PrepareLost(t)
    BY <1>5 DEF PrepareLost
  <1>6. CASE PrepareWait(t)
    BY <1>6 DEF PrepareWait
  <1> QED BY <1>1, <1>2, <1>3, <1>4, <1>5, <1>6

LEMMA PrepareAnswers ==
  ASSUME NEW t \in Txns, AnswerInv, PrepareEffect(t)
  PROVE  AnswerInv'
  <1>0. /\ pc' \in [Txns -> Pcs] /\ pc'[t] \in Preparing \ {"saved"}
        /\ \A u \in Txns \ {t} : pc'[u] = pc[u]
    BY DEF AnswerInv, AnswerTyped, PrepareEffect, FailOp, FinishOp, EnterOp, Pcs, Running, Preparing
  <1>1. /\ failed' \in [Txns -> BOOLEAN]
        /\ \A u \in Txns \ {t} : failed'[u] = failed[u]
    BY DEF AnswerInv, AnswerTyped, PrepareEffect, FailOp, FinishOp, EnterOp
  <1>2. /\ image' = [u \in Txns |-> image'[u]]
        /\ \A u \in Txns \ {t} : image'[u] = image[u]
    BY DEF AnswerInv, AnswerTyped, PrepareEffect, FailOp, FinishOp, EnterOp
  <1>3. AnswerTyped'
    BY <1>0, <1>1, <1>2 DEF AnswerInv, AnswerTyped, PrepareEffect
  <1>4. \A u \in Txns \ {t} : View(u)' = View(u)
    BY <1>0, <1>1, <1>2 DEF View, PrepareEffect
  <1>5. TxnInv(t) /\ pc[t] \in Preparing
    BY DEF AnswerInv, PrepareEffect, Preparing
  <1>6. UndecidedInert(t)'
    BY <1>5 DEF TxnInv, UndecidedInert, Undecided, PrepareEffect
  <1>7. Decision(t)'
    BY <1>0, <1>5 DEF TxnInv, Decision, PrepareEffect, Preparing
  <1>8. CommitProgress(t)'
    BY <1>0, <1>5 DEF TxnInv, UndecidedInert, Undecided, Decision, CommitProgress, PrepareEffect, Preparing
  <1> QED BY <1>3, <1>4, <1>6, <1>7, <1>8, OwnStep DEF TxnInv, PrepareEffect

LEMMA ReqDomain ==
  ASSUME NEW t \in Txns, AnswerTyped
  PROVE  DOMAIN req[t] = 1 .. Len(req[t]) /\ Len(req[t]) \in Nat
  <1>1. \A q \in Requests : q \in Seq(Op)
    BY Zenon, TxnAssumption
  <1>2. <<>> \in Seq(Op)
    OBVIOUS
  <1>3. req[t] \in Requests \/ req[t] = <<>>
    BY DEF AnswerTyped
  <1>4. req[t] \in Seq(Op)
    BY <1>1, <1>2, <1>3
  <1> QED BY <1>4

(* One operation of the commit loop: it takes effect, or it has none, or    *)
(* the loop stops.                                                          *)
CommitEffect(t) ==
    /\ pc[t] = "commit"
    /\ \/ Stop(t) /\ UNCHANGED applied
       \/ /\ Advance(t) /\ pos[t] \in Effects(t)
          /\ applied' = [applied EXCEPT ![t] = @ \cup {pos[t]}]
       \/ Advance(t) /\ pos[t] \notin Effects(t) /\ UNCHANGED applied
    /\ UNCHANGED <<failed, ledger, req, image, answer, rec>>

LEMMA CommitEffects ==
  ASSUME NEW t \in Txns, AnswerInv, CommitWrite(t) \/ CommitDelete(t) \/ CommitCheck(t)
  PROVE  CommitEffect(t)
  <1>0. ~Done(t) => pos[t] \in DOMAIN req[t]
    BY ReqDomain DEF AnswerInv, AnswerTyped, Done
  <1> USE DEF CommitEffect, ledgerVars, recVars, historyVars, prepareVars
  <1>1. CASE CommitWrite(t)
    <2>1. pos[t] \in Effects(t)
      BY <1>0, <1>1 DEF CommitWrite, Effects
    <2> QED BY <1>1, <2>1 DEF CommitWrite, TakeEffect
  <1>2. CASE CommitDelete(t)
    <2>1. pos[t] \in Effects(t)
      BY <1>0, <1>2 DEF CommitDelete, Effects
    <2> QED BY <1>2, <2>1 DEF CommitDelete, TakeEffect
  <1>3. CASE CommitCheck(t)
    <2>1. pos[t] \notin Effects(t)
      BY <1>3 DEF CommitCheck, Effects
    <2> QED BY <1>3, <2>1 DEF CommitCheck
  <1> QED BY <1>1, <1>2, <1>3

LEMMA CommitAnswers ==
  ASSUME NEW t \in Txns, AnswerInv, CommitEffect(t)
  PROVE  AnswerInv'
  <1>a. Stop(t) \/ Advance(t)
    BY DEF CommitEffect
  <1>b. /\ pos' \in [Txns -> Nat \ {0}]
        /\ \A u \in Txns \ {t} : pos'[u] = pos[u]
    <2>1. CASE Stop(t)
      BY <2>1 DEF AnswerInv, AnswerTyped, Stop
    <2>2. CASE Advance(t)
      <3>1. pos[t] + 1 \in Nat \ {0}
        BY DEF AnswerInv, AnswerTyped
      <3> QED BY <2>2, <3>1 DEF AnswerInv, AnswerTyped, Advance
    <2> QED BY <1>a, <2>1, <2>2
  <1>c. /\ pc' \in [Txns -> Pcs] /\ pc'[t] \in {"commit", "stopped"}
        /\ \A u \in Txns \ {t} : pc'[u] = pc[u]
    BY <1>a DEF AnswerInv, AnswerTyped, CommitEffect, Stop, Advance, Pcs, Running
  <1>0. /\ pc' \in [Txns -> Pcs] /\ pc'[t] \in {"commit", "stopped"}
        /\ pos' \in [Txns -> Nat \ {0}]
        /\ \A u \in Txns \ {t} : pc'[u] = pc[u] /\ pos'[u] = pos[u]
    BY <1>b, <1>c
  <1>1. /\ applied' = [u \in Txns |-> applied'[u]]
        /\ \A u \in Txns \ {t} : applied'[u] = applied[u]
    BY DEF AnswerInv, AnswerTyped, CommitEffect
  <1>2. AnswerTyped'
    BY <1>0, <1>1 DEF AnswerInv, AnswerTyped, CommitEffect
  <1>3. \A u \in Txns \ {t} : View(u)' = View(u)
    BY <1>0, <1>1 DEF View, CommitEffect
  <1>4. TxnInv(t) /\ ~failed'[t] /\ pc'[t] \notin Preparing
    BY <1>0 DEF AnswerInv, TxnInv, Decision, CommitEffect, Preparing
  <1>5. Effects(t)' = Effects(t)
    BY DEF Effects, CommitEffect
  <1>6. UndecidedInert(t)'
    BY <1>4 DEF UndecidedInert, Undecided
  <1>7. Decision(t)'
    BY <1>0, <1>4 DEF TxnInv, Decision, CommitEffect
  <1>8. CommitProgress(t)'
    <2>1. applied[t] \subseteq applied'[t] /\ applied'[t] \subseteq Effects(t)
      BY <1>4 DEF AnswerInv, AnswerTyped, TxnInv, CommitProgress, CommitEffect
    <2>2. ASSUME pc'[t] = "commit", NEW i \in Effects(t), i < pos'[t]
          PROVE  i \in applied'[t]
      <3>1. Advance(t) /\ pos'[t] = pos[t] + 1
        BY <1>0, <2>2 DEF AnswerInv, AnswerTyped, CommitEffect, Stop, Advance
      <3>2. i \in Nat /\ pos[t] \in Nat
        BY ReqDomain DEF AnswerInv, AnswerTyped, Effects
      <3>3. CASE i < pos[t]
        BY <1>4, <2>1, <2>2, <3>3 DEF TxnInv, CommitProgress, CommitEffect
      <3>4. CASE i = pos[t]
        BY <1>0, <2>2, <3>4 DEF AnswerInv, AnswerTyped, CommitEffect, Stop
      <3> QED BY <2>2, <3>1, <3>2, <3>3, <3>4
    <2>3. answer'[t] = "committed" => Effects(t) \subseteq applied'[t]
      BY <1>4, <2>1 DEF TxnInv, CommitProgress, CommitEffect
    <2> QED BY <1>5, <2>1, <2>2, <2>3 DEF CommitProgress
  <1> QED BY <1>2, <1>3, <1>6, <1>7, <1>8, OwnStep DEF TxnInv, CommitEffect

(* The steps between the phases, the rollback and the end of a coordinator: *)
(* no operation takes effect.                                               *)
Moves(t, from, to) == pc[t] = from /\ pc' = [pc EXCEPT ![t] = to]

PhaseEffect(t) ==
    /\ \/ Moves(t, "prepare", "saved") /\ ~failed[t] /\ UNCHANGED <<ledger, answer, pos>>
       \/ /\ Moves(t, "saved", "commit") /\ ledger' = [ledger EXCEPT ![t] = "committing"]
          /\ UNCHANGED <<answer, pos>>
       \/ /\ Moves(t, "commit", "done") /\ Done(t) /\ ledger' = [ledger EXCEPT ![t] = "none"]
          /\ answer' = [answer EXCEPT ![t] = "committed"] /\ UNCHANGED pos
       \/ /\ Moves(t, "prepare", "rollback") /\ failed[t]
          /\ ledger' = [ledger EXCEPT ![t] = "cancelling"] /\ UNCHANGED <<answer, pos>>
       \/ pc[t] = "rollback" /\ Advance(t) /\ UNCHANGED <<ledger, answer>>
       \/ /\ Moves(t, "rollback", "done") /\ ledger' = [ledger EXCEPT ![t] = "none"]
          /\ answer' = [answer EXCEPT ![t] = "cancelled"] /\ UNCHANGED pos
       \/ /\ pc[t] \in Running /\ pc' = [pc EXCEPT ![t] = "stopped"]
          /\ \/ UNCHANGED answer
             \/ /\ pc[t] = "rollback" \/ failed[t]
                /\ answer' = [answer EXCEPT ![t] = "cancelled"]
          /\ UNCHANGED <<ledger, pos>>
    /\ UNCHANGED <<failed, applied, req, image, rec>>

LEMMA PhaseEffects ==
  ASSUME NEW t \in Txns,
         \/ SaveImages(t) \/ StartCommit(t) \/ CommitDone(t) \/ StartRollback(t)
         \/ RollbackOp(t) \/ RollbackDone(t) \/ Abandon(t)
  PROVE  PhaseEffect(t)
  <1> USE DEF PhaseEffect, Moves, SetLedger, DeleteLedger, ledgerVars, recVars, historyVars,
              prepareVars
  <1>1. CASE SaveImages(t)
    BY <1>1 DEF SaveImages
  <1>2. CASE StartCommit(t)
    BY <1>2 DEF StartCommit
  <1>3. CASE CommitDone(t)
    BY <1>3 DEF CommitDone
  <1>4. CASE StartRollback(t)
    BY <1>4 DEF StartRollback
  <1>5. CASE RollbackOp(t)
    BY <1>5 DEF RollbackOp
  <1>6. CASE RollbackDone(t)
    BY <1>6 DEF RollbackDone
  <1>7. CASE Abandon(t)
    BY <1>7 DEF Abandon
  <1> QED BY <1>1, <1>2, <1>3, <1>4, <1>5, <1>6, <1>7

LEMMA PhaseAnswers ==
  ASSUME NEW t \in Txns, AnswerInv, PhaseEffect(t)
  PROVE  AnswerInv'
  <1>1. AnswerTyped'
    <2>1. pc' \in [Txns -> Pcs]
      BY DEF AnswerInv, AnswerTyped, PhaseEffect, Moves, Advance, Pcs, Running
    <2>2. ledger' \in [Txns -> LedgerStates] /\ answer' \in [Txns -> Answers]
      BY DEF AnswerInv, AnswerTyped, PhaseEffect, LedgerStates, Answers
    <2>3. pos' \in [Txns -> Nat \ {0}]
      BY DEF AnswerInv, AnswerTyped, PhaseEffect, Advance
    <2> QED BY <2>1, <2>2, <2>3 DEF AnswerInv, AnswerTyped, PhaseEffect
  <1>2. \A u \in Txns \ {t} : View(u)' = View(u)
    BY DEF AnswerInv, AnswerTyped, PhaseEffect, View, Moves, Advance
  <1>3. TxnInv(t)
    BY DEF AnswerInv
  <1>4. UndecidedInert(t)'
    BY <1>3 DEF AnswerInv, AnswerTyped, TxnInv, UndecidedInert, Undecided, Decision, Preparing,
                PhaseEffect, Moves, Advance
  <1>5. Decision(t)'
    BY <1>3 DEF AnswerInv, AnswerTyped, TxnInv, Decision, Preparing, PhaseEffect, Moves, Advance
  <1>6. CommitProgress(t)'
    <2>1. Effects(t)' = Effects(t)
      BY DEF Effects, PhaseEffect
    <2>2. applied'[t] \subseteq Effects(t)
      BY <1>3 DEF TxnInv, CommitProgress, PhaseEffect
    <2>3. \A i \in Effects(t) : i \in Nat \ {0} /\ (Done(t) => i < pos[t])
      BY ReqDomain DEF AnswerInv, AnswerTyped, Effects, Done
    <2>4. pc'[t] = "commit" => pos'[t] = 1
      BY <1>3 DEF AnswerInv, AnswerTyped, PhaseEffect, Moves, Advance, TxnInv, Decision, Preparing
    <2>5. pc'[t] = "commit" => \A i \in Effects(t) : i < pos'[t] => i \in applied'[t]
      BY <2>3, <2>4
    <2>6. answer'[t] = "committed" => Effects(t) \subseteq applied'[t]
      BY <1>3, <2>3 DEF AnswerInv, AnswerTyped, PhaseEffect, Moves, TxnInv, CommitProgress
    <2> QED BY <2>1, <2>2, <2>5, <2>6 DEF CommitProgress
  <1> QED BY <1>1, <1>2, <1>4, <1>5, <1>6, OwnStep DEF TxnInv, PhaseEffect

-----------------------------------------------------------------------------
(* Recovery.                                                                *)

LEMMA StartRecoveryAnswers ==
  ASSUME NEW r \in Recoverers, NEW t \in Txns, AnswerInv, StartRecovery(r, t)
  PROVE  AnswerInv'
  <1>0. /\ rec' = [rec EXCEPT ![r] = [txn |-> t, mode |-> RecoveryMode(t), pos |-> 1]]
        /\ UNCHANGED <<pc, failed, ledger, answer, applied, pos, req, image>>
    BY DEF StartRecovery, ledgerVars, prepareVars, historyVars
  <1>1. AnswerTyped'
    <2>1. [txn |-> t, mode |-> RecoveryMode(t), pos |-> 1] \in RecState
      BY DEF RecState, RecoveryMode
    <2> QED BY <1>0, <2>1 DEF AnswerInv, AnswerTyped
  <1>2. ASSUME NEW u \in Txns
        PROVE  TxnInv(u)'
    <2>1. TxnInv(u) /\ UNCHANGED View(u)
      BY <1>0 DEF AnswerInv, View
    <2>2. CASE u # t
      <3>1. RecoveryOf(u)
        BY <1>0, <2>2 DEF AnswerInv, AnswerTyped, RecoveryOf
      <3> QED BY <2>1, <3>1, Frame
    <2>3. CASE u = t
      <3>1. Effects(u)' = Effects(u)
        BY <1>0 DEF Effects
      <3>2. Decision(u)' /\ CommitProgress(u)'
        BY <1>0, <2>1, <3>1 DEF TxnInv, Decision, CommitProgress
      <3>3. UndecidedInert(u)'
        <4>1. ledger[t] # "committing" => RecoveryMode(t) = "rollback"
          BY DEF RecoveryMode
        <4> QED BY <1>0, <2>1, <2>3, <4>1
            DEF AnswerInv, AnswerTyped, TxnInv, UndecidedInert, Undecided
      <3> QED BY <3>2, <3>3 DEF TxnInv
    <2> QED BY <2>2, <2>3
  <1> QED BY <1>1, <1>2 DEF AnswerInv

(* One operation of a recovery pass; it may take effect only in a pass that *)
(* found the transaction COMMITTING.                                        *)
RecoverEffect(r) ==
    LET t == rec[r].txn IN
    /\ RecAdvance(r)
    /\ \/ UNCHANGED applied
       \/ /\ t \in Txns /\ rec[r].mode = "commit" /\ rec[r].pos \in Effects(t)
          /\ applied' = [applied EXCEPT ![t] = @ \cup {rec[r].pos}]
    /\ UNCHANGED <<pc, failed, ledger, answer, pos, req, image>>

LEMMA RecoverEffects ==
  ASSUME NEW r \in Recoverers, AnswerInv,
         RecoverWrite(r) \/ RecoverDelete(r) \/ RecoverCheck(r) \/ RecoverRollback(r)
  PROVE  RecoverEffect(r)
  <1>0. /\ rec[r].txn # None => rec[r].txn \in Txns
        /\ rec[r].pos \in Nat \ {0}
    BY DEF AnswerInv, AnswerTyped, RecState
  <1>1. (rec[r].txn # None /\ ~RecDone(r)) => rec[r].pos \in DOMAIN req[rec[r].txn]
    BY <1>0, ReqDomain DEF AnswerInv, RecDone
  <1> USE DEF RecoverEffect, ledgerVars, recVars, historyVars, prepareVars
  <1>2. CASE RecoverWrite(r)
    <2>1. rec[r].pos \in Effects(rec[r].txn)
      BY <1>1, <1>2 DEF RecoverWrite, Effects
    <2> QED BY <1>0, <1>2, <2>1 DEF RecoverWrite, TakeEffect
  <1>3. CASE RecoverDelete(r)
    <2>1. rec[r].pos \in Effects(rec[r].txn)
      BY <1>1, <1>3 DEF RecoverDelete, Effects, RecOp
    <2> QED BY <1>0, <1>3, <2>1 DEF RecoverDelete, TakeEffect
  <1>4. CASE RecoverCheck(r)
    BY <1>4 DEF RecoverCheck
  <1>5. CASE RecoverRollback(r)
    BY <1>5 DEF RecoverRollback
  <1> QED BY <1>2, <1>3, <1>4, <1>5

LEMMA RecPosUpdate ==
  ASSUME NEW x \in RecState, NEW p \in Nat \ {0}
  PROVE  LET y == [x EXCEPT !.pos = p] IN y \in RecState /\ y.txn = x.txn /\ y.mode = x.mode
  BY DEF RecState

LEMMA RecoverAnswers ==
  ASSUME NEW r \in Recoverers, AnswerInv, RecoverEffect(r)
  PROVE  AnswerInv'
  <1> DEFINE t == rec[r].txn
  <1>0. /\ rec' \in [Recoverers -> RecState]
        /\ \A v \in Recoverers : rec'[v].txn = rec[v].txn /\ rec'[v].mode = rec[v].mode
    <2> DEFINE next == [rec[r] EXCEPT !.pos = rec[r].pos + 1]
    <2>1. rec[r] \in RecState /\ rec[r].pos + 1 \in Nat \ {0}
      BY DEF AnswerInv, AnswerTyped, RecState
    <2>2. next \in RecState /\ next.txn = rec[r].txn /\ next.mode = rec[r].mode
      BY <2>1, RecPosUpdate
    <2>3. rec' = [rec EXCEPT ![r] = next]
      BY DEF RecoverEffect, RecAdvance
    <2> HIDE DEF next
    <2> QED BY <2>2, <2>3 DEF AnswerInv, AnswerTyped
  <1>1. AnswerTyped'
    BY <1>0 DEF AnswerInv, AnswerTyped, RecoverEffect
  <1>2. ASSUME NEW u \in Txns
        PROVE  TxnInv(u)'
    <2>0. TxnInv(u) /\ RecoveryOf(u)
      BY <1>0 DEF AnswerInv, RecoveryOf
    <2>1. CASE applied'[u] = applied[u]
      BY <2>0, <2>1, Frame DEF RecoverEffect, View
    <2>2. CASE applied'[u] # applied[u]
      <3>1. /\ u = t /\ rec[r].mode = "commit" /\ rec[r].pos \in Effects(u)
            /\ applied'[u] = applied[u] \cup {rec[r].pos}
        BY <2>2 DEF AnswerInv, AnswerTyped, RecoverEffect
      <3>2. ~Undecided(u) /\ ~Undecided(u)'
        BY <2>0, <3>1 DEF TxnInv, UndecidedInert, Undecided, RecoverEffect
      <3>3. Effects(u)' = Effects(u)
        BY DEF Effects, RecoverEffect
      <3>4. UndecidedInert(u)'
        BY <3>2 DEF UndecidedInert
      <3>5. Decision(u)'
        BY <2>0 DEF TxnInv, Decision, RecoverEffect
      <3>6. CommitProgress(u)'
        BY <2>0, <3>1, <3>3 DEF TxnInv, CommitProgress, RecoverEffect
      <3> QED BY <3>4, <3>5, <3>6 DEF TxnInv
    <2> QED BY <2>1, <2>2
  <1> QED BY <1>1, <1>2 DEF AnswerInv

(* A recovery pass ends; its ledger entry is gone, or stays for the next.   *)
LEMMA RecoveryEnds ==
  ASSUME NEW r \in Recoverers, AnswerInv, RecoverDone(r) \/ RecoverFails(r)
  PROVE  AnswerInv'
  <1>0. /\ rec' = [rec EXCEPT ![r] = IdleRec]
        /\ ledger' = ledger \/ ledger' = [ledger EXCEPT ![rec[r].txn] = "none"]
        /\ UNCHANGED <<pc, failed, answer, applied, pos, req, image>>
    BY DEF RecoverDone, RecoverFails, DeleteLedger, ledgerVars, prepareVars, historyVars
  <1>1. AnswerTyped'
    <2>1. IdleRec \in RecState
      BY DEF IdleRec, RecState
    <2> QED BY <1>0, <2>1 DEF AnswerInv, AnswerTyped, LedgerStates
  <1>2. ASSUME NEW u \in Txns
        PROVE  TxnInv(u)'
    <2>1. TxnInv(u) /\ (ledger'[u] = ledger[u] \/ ledger'[u] = "none")
      BY <1>0 DEF AnswerInv, AnswerTyped
    <2>2. IdleRec.txn # u
      BY TxnAssumption DEF IdleRec
    <2>3. RecoveryOf(u)
      BY <1>0, <2>2 DEF AnswerInv, AnswerTyped, RecoveryOf
    <2>4. Effects(u)' = Effects(u)
      BY <1>0 DEF Effects
    <2>5. UndecidedInert(u)'
      BY <1>0, <2>1, <2>3 DEF TxnInv, UndecidedInert, Undecided, RecoveryOf
    <2>6. Decision(u)' /\ CommitProgress(u)'
      BY <1>0, <2>1, <2>4 DEF TxnInv, Decision, CommitProgress
    <2> QED BY <2>5, <2>6 DEF TxnInv
  <1> QED BY <1>1, <1>2 DEF AnswerInv

-----------------------------------------------------------------------------
LEMMA AnswerInvInit == Init => AnswerInv
  <1> SUFFICES ASSUME Init
               PROVE  AnswerInv
    OBVIOUS
  <1>1. IdleRec \in RecState /\ IdleRec.mode = "rollback"
    BY DEF IdleRec, RecState
  <1>2. AnswerTyped
    BY <1>1 DEF Init, AnswerTyped, Pcs, Running, LedgerStates, Answers
  <1>3. ASSUME NEW t \in Txns
        PROVE  TxnInv(t)
    BY <1>1, <1>3
    DEF Init, TxnInv, UndecidedInert, Undecided, Decision, CommitProgress, Preparing
  <1> QED BY <1>2, <1>3 DEF AnswerInv

LEMMA AnswerInvNext == AnswerInv /\ [Next]_vars => AnswerInv'
  <1> SUFFICES ASSUME AnswerInv, [Next]_vars
               PROVE  AnswerInv'
    OBVIOUS
  <1>1. ASSUME NEW t \in Txns, NEW q \in Requests, Begin(t, q)
        PROVE  AnswerInv'
    BY <1>1, BeginAnswers
  <1>2. ASSUME NEW t \in Txns, CoordinatorStep(t) \/ Abandon(t)
        PROVE  AnswerInv'
    <2>1. CASE \/ PrepareRead(t) \/ PrepareFails(t) \/ PrepareFloor(t)
               \/ PrepareMark(t) \/ PrepareLost(t) \/ PrepareWait(t)
      BY <2>1, PrepareEffects, PrepareAnswers
    <2>2. CASE CommitWrite(t) \/ CommitDelete(t) \/ CommitCheck(t)
      BY <2>2, CommitEffects, CommitAnswers
    <2>3. CASE \/ SaveImages(t) \/ StartCommit(t) \/ CommitDone(t) \/ StartRollback(t)
               \/ RollbackOp(t) \/ RollbackDone(t) \/ Abandon(t)
      BY <2>3, PhaseEffects, PhaseAnswers
    <2> QED BY <1>2, <2>1, <2>2, <2>3 DEF CoordinatorStep
  <1>3. ASSUME NEW r \in Recoverers, RecoveryStep(r) \/ RecoverFails(r)
        PROVE  AnswerInv'
    <2>1. CASE RecoverWrite(r) \/ RecoverDelete(r) \/ RecoverCheck(r) \/ RecoverRollback(r)
      BY <2>1, RecoverEffects, RecoverAnswers
    <2>2. CASE RecoverDone(r) \/ RecoverFails(r)
      BY <2>2, RecoveryEnds
    <2>3. CASE \E t \in Txns : StartRecovery(r, t)
      BY <2>3, StartRecoveryAnswers
    <2> QED BY <1>3, <2>1, <2>2, <2>3 DEF RecoveryStep
  <1>4. ASSUME NEW s \in Singles, (\E o \in SingleOps : SingleRead(s, o)) \/ SingleStep(s)
        PROVE  AnswerInv'
    <2>1. UNCHANGED answerVars
      BY <1>4 DEF SingleRead, SingleStep, SingleWrite, SingleRetry, answerVars, ledgerVars,
                  prepareVars, recVars, historyVars
    <2> QED BY <2>1, NothingDecided
  <1>5. CASE UNCHANGED vars
    BY <1>5, NothingDecided DEF vars, answerVars
  <1> QED BY <1>1, <1>2, <1>3, <1>4, <1>5 DEF Next

(* The client is told the truth, whatever crashes and however recovery and  *)
(* the coordinator interleave: a call that answered success has every       *)
(* operation in effect, and a call that answered TransactionCanceled has    *)
(* none and never will (execute_commit_phase, execute_rollback_phase,       *)
(* recover_transaction).                                                    *)
THEOREM TxnAnswerIsOutcome == Spec => []AnswerIsOutcome
  <1>1. AnswerInv => AnswerIsOutcome
    BY DEF AnswerInv, TxnInv, UndecidedInert, Undecided, Decision, CommitProgress, AnswerIsOutcome
  <1> QED BY <1>1, AnswerInvInit, AnswerInvNext, PTL DEF Spec

HIDE DEF RowsTyped, AbsentRowsEmpty, DataIntact

-----------------------------------------------------------------------------
(* Types.  TypeOK is inductive with what PREPARE's loop and the single-item *)
(* writes know of the operation at hand.                                    *)

RowTypes ==
    /\ live \in [Keys -> BOOLEAN] /\ ctp \in [Keys -> BOOLEAN]
    /\ item \in [Keys -> Items] /\ committed \in [Keys -> Items]
    /\ prep \in [Keys -> Txns \cup {None}]
    /\ last \in [Keys -> Nat] /\ ver \in [Keys -> Nat]
    /\ pmax \in [Partitions -> Nat] /\ clock \in Nat

LedgerTypes ==
    /\ ledger \in [Txns -> LedgerStates] /\ started \in [Txns -> BOOLEAN]
    /\ pc \in [Txns -> Pcs] /\ ts \in [Txns -> Nat] /\ pos \in [Txns -> Nat \ {0}]
    /\ failed \in [Txns -> BOOLEAN] /\ seen \in [Txns -> Items]
    /\ answer \in [Txns -> Answers]

RequestTypes ==
    /\ req \in [Txns -> Requests \cup {<<>>}]
    /\ todo = [t \in Txns |-> todo[t]] /\ applied = [t \in Txns |-> applied[t]]
    /\ image = [t \in Txns |-> image[t]]
    /\ \A t \in Txns : /\ todo[t] \subseteq DOMAIN req[t]
                       /\ applied[t] \subseteq DOMAIN req[t]
                       /\ image[t] \in [DOMAIN req[t] -> Items]

WorkerTypes ==
    /\ rec \in [Recoverers -> RecState] /\ recErrors \in 0 .. MaxRecoveryErrors
    /\ single \in [Singles -> SingleState]
    /\ \A s \in Singles : single[s].pc # "idle" => single[s].op \in Op

(* An operation that is being prepared has not been processed.              *)
OpUnderway == \A t \in Txns : pc[t] \in {"floor", "mark", "wait"} => todo[t] # {}

TypeInv == RowTypes /\ LedgerTypes /\ RequestTypes /\ WorkerTypes /\ OpUnderway

rowTypeVars == <<live, ctp, item, committed, prep, last, ver, pmax, clock>>
ledgerTypeVars == <<ledger, started, pc, ts, pos, failed, seen, answer>>
requestTypeVars == <<req, todo, applied, image>>
workerTypeVars == <<rec, recErrors, single>>

LEMMA RowTypesFrame == RowTypes /\ UNCHANGED rowTypeVars => RowTypes'
  BY DEF RowTypes, rowTypeVars
LEMMA LedgerTypesFrame == LedgerTypes /\ UNCHANGED ledgerTypeVars => LedgerTypes'
  BY DEF LedgerTypes, ledgerTypeVars
LEMMA RequestTypesFrame == RequestTypes /\ UNCHANGED requestTypeVars => RequestTypes'
  BY DEF RequestTypes, requestTypeVars
LEMMA WorkerTypesFrame == WorkerTypes /\ UNCHANGED workerTypeVars => WorkerTypes'
  BY DEF WorkerTypes, workerTypeVars

LEMMA UnderwayFrame == OpUnderway /\ UNCHANGED <<pc, todo>> => OpUnderway'
  BY DEF OpUnderway

(* A coordinator outside those states.                                      *)
LEMMA UnderwayMove ==
  ASSUME NEW t \in Txns, OpUnderway, LedgerTypes, RequestTypes, NEW p,
         p \notin {"floor", "mark", "wait"},
         pc' = [pc EXCEPT ![t] = p], \A u \in Txns \ {t} : todo'[u] = todo[u]
  PROVE  OpUnderway'
  BY DEF OpUnderway, LedgerTypes, RequestTypes

LEMMA NoItemTyped == NoItem \in Items
  BY DEF Items

LEMMA PostImageTyped ==
  ASSUME NEW o, NEW x \in Items, NEW w \in Writers
  PROVE  PostImage(o, x, w) \in Items
  <1>1. {w} \in Items
    BY DEF Items
  <1>2. Updated(x, w) \in Items
    BY DEF Items, Updated
  <1> QED BY <1>1, <1>2, NoItemTyped DEF PostImage

LEMMA MarkTypes ==
  ASSUME NEW t \in Txns, NEW k, NEW o, RowTypes, MarkRow(t, k, o), UNCHANGED <<committed, pmax, clock>>
  PROVE  RowTypes'
  <1>1. {t} \in Items /\ {} \in Items
    BY DEF Items, Writers
  <1>2. live' \in [Keys -> BOOLEAN] /\ ctp' \in [Keys -> BOOLEAN]
    BY DEF RowTypes, MarkRow
  <1>3. item' \in [Keys -> Items] /\ prep' \in [Keys -> Txns \cup {None}]
    BY <1>1 DEF RowTypes, MarkRow
  <1> QED BY <1>2, <1>3 DEF RowTypes, MarkRow

LEMMA DeleteTypes ==
  ASSUME NEW k, RowTypes, DeleteRow(k), committed' \in [Keys -> Items],
         pmax' \in [Partitions -> Nat], clock' \in Nat
  PROVE  RowTypes'
  BY NoItemTyped DEF RowTypes, DeleteRow

LEMMA ClearTypes ==
  ASSUME NEW k, RowTypes, ClearMarker(k), UNCHANGED <<committed, pmax, clock>>
  PROVE  RowTypes'
  BY DEF RowTypes, ClearMarker

LEMMA UnmarkTypes ==
  ASSUME NEW t, NEW k, RowTypes, Unmark(t, k), UNCHANGED <<committed, pmax, clock>>
  PROVE  RowTypes'
  <1>1. CASE UNCHANGED rowVars
    BY <1>1, RowTypesFrame DEF rowVars, rowTypeVars
  <1>2. CASE DeleteRow(k)
    BY <1>2, DeleteTypes DEF RowTypes
  <1>3. CASE ClearMarker(k)
    BY <1>3, ClearTypes
  <1> QED BY <1>1, <1>2, <1>3 DEF Unmark

LEMMA CommitTypes ==
  ASSUME NEW k, NEW x \in Items, NEW stamp \in Nat, RowTypes, CommitRow(k, x, stamp),
         committed' = [committed EXCEPT ![k] = x], UNCHANGED pmax
  PROVE  RowTypes'
  <1>1. clock + 1 \in Nat
    BY DEF RowTypes
  <1>2. last' \in [Keys -> Nat] /\ ver' \in [Keys -> Nat] /\ clock' \in Nat
    BY <1>1 DEF RowTypes, CommitRow
  <1>3. item' \in [Keys -> Items] /\ committed' \in [Keys -> Items] /\ prep' \in [Keys -> Txns \cup {None}]
    BY DEF RowTypes, CommitRow
  <1>4. live' \in [Keys -> BOOLEAN] /\ ctp' \in [Keys -> BOOLEAN]
    BY DEF RowTypes, CommitRow
  <1> QED BY <1>2, <1>3, <1>4 DEF RowTypes, CommitRow

LEMMA FloorTyped ==
  ASSUME NEW k, NEW stamp \in Nat, RowTypes, RaiseFloor(k, stamp)
  PROVE  pmax' \in [Partitions -> Nat]
  BY DEF RowTypes, RaiseFloor

LEMMA ReqTyped ==
  ASSUME NEW t \in Txns, req \in [Txns -> Requests \cup {<<>>}]
  PROVE  /\ req[t] \in Seq(Op) /\ Len(req[t]) \in Nat /\ DOMAIN req[t] = 1 .. Len(req[t])
         /\ \A i \in DOMAIN req[t] : req[t][i] \in Op /\ req[t][i].key \in Keys
         /\ \A i, j \in DOMAIN req[t] : req[t][i].key = req[t][j].key => i = j
  <1>1. \A q \in Requests : q \in Seq(Op) /\ \A i, j \in DOMAIN q : q[i].key = q[j].key => i = j
    BY Zenon, TxnAssumption
  <1>2. <<>> \in Seq(Op) /\ DOMAIN <<>> = {}
    OBVIOUS
  <1>3. req[t] \in Requests \/ req[t] = <<>>
    OBVIOUS
  <1>4. req[t] \in Seq(Op)
    BY <1>1, <1>2, <1>3
  <1>5. \A i, j \in DOMAIN req[t] : req[t][i].key = req[t][j].key => i = j
    BY <1>1, <1>2, <1>3
  <1>6. Len(req[t]) \in Nat /\ DOMAIN req[t] = 1 .. Len(req[t])
    BY <1>4
  <1>7. \A i \in DOMAIN req[t] : req[t][i] \in Op
    BY <1>4, <1>6
  <1>8. \A i \in DOMAIN req[t] : req[t][i].key \in Keys
    BY <1>7 DEF Op
  <1> QED BY <1>4, <1>5, <1>6, <1>7, <1>8

(* Every set of keys has a first one.                                       *)
LEMMA FirstKey ==
  ASSUME NEW K, K \subseteq Nat, K # {}
  PROVE  \E m \in K : \A k \in K : m <= k
  <1> DEFINE R == OpToRel(<, Nat)
  <1>1. IsWellFoundedOn(R, Nat)
    BY NatLessThanWellFounded
  <1>2. R = {p \in Nat \X Nat : p[1] < p[2]}
    BY DEF OpToRel
  <1> HIDE DEF R
  <1>3. PICK m \in K : \A k \in K : ~ (<<k, m>> \in R)
    BY <1>1, WFMin, Zenon
  <1>4. ASSUME NEW k \in K
        PROVE  m <= k
    <2>1. <<k, m>> \in Nat \X Nat /\ <<k, m>>[1] = k /\ <<k, m>>[2] = m
      OBVIOUS
    <2>2. ~(k < m)
      BY <1>2, <1>3, <2>1
    <2> QED BY <2>2
  <1> QED BY <1>3, <1>4

(* The operation PREPARE turns to is one it has not processed.              *)
LEMMA CurInTodo ==
  ASSUME NEW t \in Txns, RequestTypes, todo[t] # {}
  PROVE  /\ Cur(t) \in todo[t] /\ Cur(t) \in DOMAIN req[t]
         /\ CurOp(t) \in Op /\ CurOp(t).key \in Keys
  <1>1. /\ \A i \in DOMAIN req[t] : req[t][i] \in Op /\ req[t][i].key \in Keys
        /\ todo[t] \subseteq DOMAIN req[t]
    BY ReqTyped DEF RequestTypes
  <1> DEFINE K == {req[t][i].key : i \in todo[t]}
  <1>2. K \subseteq Nat /\ K # {}
    BY <1>1, TxnAssumption
  <1>3. PICK m \in K : \A k \in K : m <= k
    BY <1>2, FirstKey
  <1>4. PICK i \in todo[t] : req[t][i].key = m
    BY <1>3
  <1>5. \A j \in todo[t] : req[t][i].key <= req[t][j].key
    BY <1>3, <1>4
  <1>6. Cur(t) \in todo[t]
    BY <1>5 DEF Cur
  <1> QED BY <1>1, <1>6 DEF CurOp

(* What PREPARE does to the coordinator's own state.                        *)
LEMMA OpTypes ==
  ASSUME NEW t \in Txns, RequestTypes, LedgerTypes,
         \/ FailOp(t) \/ (\E x \in Items : FinishOp(t, x))
         \/ \E target \in {"floor", "mark", "wait"} : EnterOp(t, target),
         seen' \in [Txns -> Items], UNCHANGED <<ledgerVars, req, ts, pos, answer, applied>>
  PROVE  RequestTypes' /\ LedgerTypes'
  <1>1. pc' \in [Txns -> Pcs]
    BY DEF LedgerTypes, FailOp, FinishOp, EnterOp, Pcs, Running
  <1>2. failed' \in [Txns -> BOOLEAN]
    BY DEF LedgerTypes, FailOp, FinishOp, EnterOp
  <1>3. LedgerTypes'
    BY <1>1, <1>2 DEF LedgerTypes, ledgerVars
  <1>4. todo' = [u \in Txns |-> todo'[u]] /\ \A u \in Txns : todo'[u] \subseteq todo[u]
    BY DEF RequestTypes, FailOp, FinishOp, EnterOp
  <1>5. image' = [u \in Txns |-> image'[u]] /\ \A u \in Txns : image'[u] \in [DOMAIN req[u] -> Items]
    <2>1. CASE UNCHANGED image
      BY <2>1 DEF RequestTypes
    <2>2. ASSUME NEW x \in Items, FinishOp(t, x)
          PROVE  /\ image' = [u \in Txns |-> image'[u]]
                 /\ \A u \in Txns : image'[u] \in [DOMAIN req[u] -> Items]
      <3> DEFINE y == PostImage(CurOp(t), x, t)
                 c == Cur(t)
      <3>1. y \in Items
        BY PostImageTyped DEF Writers
      <3>2. image' = [image EXCEPT ![t] = [image[t] EXCEPT ![c] = y]]
        BY <2>2 DEF FinishOp
      <3> HIDE DEF y, c
      <3>3. [image[t] EXCEPT ![c] = y] \in [DOMAIN req[t] -> Items]
        BY <3>1 DEF RequestTypes
      <3> QED BY <3>2, <3>3 DEF RequestTypes
    <2> QED BY <2>1, <2>2 DEF FailOp, EnterOp
  <1> QED BY <1>3, <1>4, <1>5 DEF RequestTypes

LEMMA PrepareTypes ==
  ASSUME NEW t \in Txns, TypeInv,
         \/ PrepareRead(t) \/ PrepareFails(t) \/ PrepareFloor(t)
         \/ PrepareMark(t) \/ PrepareLost(t) \/ PrepareWait(t)
  PROVE  TypeInv'
  <1> USE DEF TypeInv
  <1>1. UNCHANGED <<ledgerVars, req, ts, pos, answer, applied>> /\ WorkerTypes'
    BY WorkerTypesFrame
    DEF PrepareRead, PrepareFails, PrepareFloor, PrepareMark, PrepareLost, PrepareWait,
        recVars, historyVars, ledgerVars, workerTypeVars
  <1>2. RowTypes'
    <2>1. CASE PrepareMark(t)
      BY <2>1, MarkTypes DEF PrepareMark, historyVars
    <2>2. CASE ~PrepareMark(t)
      BY <2>2, RowTypesFrame
      DEF PrepareRead, PrepareFails, PrepareFloor, PrepareLost, PrepareWait, rowVars, rowTypeVars,
          historyVars
    <2> QED BY <2>1, <2>2
  <1>3. todo[t] # {}
    BY DEF PrepareRead, PrepareFails, PrepareFloor, PrepareMark, PrepareLost, PrepareWait, OpUnderway
  <1>4. seen[t] \in Items
    BY DEF LedgerTypes
  <1>5. item[CurOp(t).key] \in Items
    BY <1>3, CurInTodo DEF RowTypes, RequestTypes
  <1>6. seen' \in [Txns -> Items]
    BY <1>5 DEF PrepareRead, PrepareFails, PrepareFloor, PrepareMark, PrepareLost, PrepareWait,
                LedgerTypes
  <1>7. \/ FailOp(t) \/ (\E x \in Items : FinishOp(t, x))
        \/ \E target \in {"floor", "mark", "wait"} : EnterOp(t, target)
    <2>1. CASE PrepareRead(t)
      BY <1>5, <2>1 DEF PrepareRead
    <2>2. CASE PrepareWait(t)
      BY <1>5, <2>2 DEF PrepareWait
    <2>3. CASE PrepareFails(t) \/ PrepareFloor(t) \/ PrepareLost(t)
      BY <2>3 DEF PrepareFails, PrepareFloor, PrepareLost
    <2>4. CASE PrepareMark(t)
      BY <1>4, <2>4 DEF PrepareMark
    <2> QED BY <2>1, <2>2, <2>3, <2>4
  <1>8. OpUnderway'
    <2>1. CASE FailOp(t) \/ \E x \in Items : FinishOp(t, x)
      BY <2>1, UnderwayMove DEF FailOp, FinishOp, RequestTypes
    <2>2. CASE \E target \in {"floor", "mark", "wait"} : EnterOp(t, target)
      BY <1>3, <2>2 DEF EnterOp, OpUnderway, LedgerTypes
    <2> QED BY <1>7, <2>1, <2>2
  <1> QED BY <1>1, <1>2, <1>6, <1>7, <1>8, OpTypes

LEMMA BeginTypes ==
  ASSUME NEW t \in Txns, NEW q \in Requests, TypeInv, applied[t] = {}, Begin(t, q)
  PROVE  TypeInv'
  <1> USE DEF TypeInv
  <1>1. RowTypes' /\ WorkerTypes'
    BY RowTypesFrame, WorkerTypesFrame
    DEF Begin, rowVars, recVars, historyVars, rowTypeVars, workerTypeVars
  <1>2. LedgerTypes'
    <2>1. clock \in Nat
      BY DEF RowTypes
    <2>2. started' \in [Txns -> BOOLEAN]
      BY DEF LedgerTypes, Begin
    <2> QED BY <2>1, <2>2 DEF LedgerTypes, Begin, LedgerStates, Pcs, Running
  <1>3. RequestTypes'
    <2>1. [i \in DOMAIN q |-> NoItem] \in [DOMAIN q -> Items]
      BY NoItemTyped
    <2>2. req' \in [Txns -> Requests \cup {<<>>}]
      BY DEF RequestTypes, Begin
    <2>3. /\ todo' = [todo EXCEPT ![t] = DOMAIN q] /\ req' = [req EXCEPT ![t] = q]
          /\ image' = [image EXCEPT ![t] = [i \in DOMAIN q |-> NoItem]]
          /\ applied' = applied
      BY DEF Begin, historyVars
    <2> QED BY <2>1, <2>2, <2>3 DEF RequestTypes
  <1>4. OpUnderway'
    <2>1. pc' = [pc EXCEPT ![t] = "prepare"] /\ \A u \in Txns \ {t} : todo'[u] = todo[u]
      BY DEF Begin, RequestTypes
    <2> QED BY <2>1, UnderwayMove, Zenon
  <1> QED BY <1>1, <1>2, <1>3, <1>4

(* The steps between the phases, and the end of a coordinator.              *)
LEMMA PhaseTypes ==
  ASSUME NEW t \in Txns, TypeInv,
         \/ SaveImages(t) \/ StartCommit(t) \/ CommitDone(t) \/ StartRollback(t)
         \/ RollbackDone(t) \/ Abandon(t)
  PROVE  TypeInv'
  <1> USE DEF TypeInv
  <1>1. RowTypes' /\ WorkerTypes' /\ RequestTypes'
    BY RowTypesFrame, WorkerTypesFrame, RequestTypesFrame
    DEF SaveImages, StartCommit, CommitDone, StartRollback, RollbackDone, Abandon, rowVars, recVars,
        prepareVars, historyVars, rowTypeVars, workerTypeVars, requestTypeVars
  <1>2. \E p \in {"saved", "commit", "done", "rollback", "stopped"} : pc' = [pc EXCEPT ![t] = p]
    BY DEF SaveImages, StartCommit, CommitDone, StartRollback, RollbackDone, Abandon
  <1>3. OpUnderway' /\ pc' \in [Txns -> Pcs]
    <2>1. UNCHANGED todo
      BY DEF SaveImages, StartCommit, CommitDone, StartRollback, RollbackDone, Abandon, prepareVars
    <2> QED BY <1>2, <2>1, UnderwayMove DEF LedgerTypes, Pcs, Running
  <1>4. ledger' \in [Txns -> LedgerStates] /\ answer' \in [Txns -> Answers]
    BY DEF SaveImages, StartCommit, CommitDone, StartRollback, RollbackDone, Abandon, SetLedger,
           DeleteLedger, ledgerVars, LedgerTypes, LedgerStates, Answers
  <1>5. started' \in [Txns -> BOOLEAN]
    BY DEF SaveImages, StartCommit, CommitDone, StartRollback, RollbackDone, Abandon, SetLedger,
           DeleteLedger, ledgerVars, LedgerTypes
  <1>6. UNCHANGED <<ts, pos, failed, seen>>
    BY DEF SaveImages, StartCommit, CommitDone, StartRollback, RollbackDone, Abandon, prepareVars
  <1> QED BY <1>1, <1>3, <1>4, <1>5, <1>6 DEF LedgerTypes

(* The loops of COMMIT and ROLLBACK.                                        *)
LEMMA LoopTypes ==
  ASSUME NEW t \in Txns, TypeInv,
         CommitWrite(t) \/ CommitDelete(t) \/ CommitCheck(t) \/ RollbackOp(t)
  PROVE  TypeInv'
  <1> USE DEF TypeInv
  <1> DEFINE o == req[t][pos[t]]
             x == PostImage(o, item[o.key], t)
  <1>1. WorkerTypes'
    BY WorkerTypesFrame
    DEF CommitWrite, CommitDelete, CommitCheck, RollbackOp, recVars, workerTypeVars
  <1>2. Stop(t) \/ Advance(t)
    BY DEF CommitWrite, CommitDelete, CommitCheck, RollbackOp
  <1>3. UNCHANGED <<ledgerVars, prepareVars, answer>>
    BY DEF CommitWrite, CommitDelete, CommitCheck, RollbackOp
  <1>4. pc' \in [Txns -> Pcs] /\ OpUnderway'
    <2>1. CASE Stop(t)
      BY <1>3, <2>1, UnderwayMove DEF Stop, LedgerTypes, Pcs, prepareVars
    <2>2. CASE Advance(t)
      BY <1>3, <2>2, UnderwayFrame DEF Advance, LedgerTypes, prepareVars
    <2> QED BY <1>2, <2>1, <2>2
  <1>5. pos' \in [Txns -> Nat \ {0}]
    <2>1. pos[t] + 1 \in Nat \ {0}
      BY DEF LedgerTypes
    <2> QED BY <1>2, <2>1 DEF Stop, Advance, LedgerTypes
  <1>6. LedgerTypes'
    BY <1>3, <1>4, <1>5 DEF LedgerTypes, ledgerVars, prepareVars
  <1>7. pos[t] \in DOMAIN req[t] /\ o.key \in Keys /\ item[o.key] \in Items
    <2>1. ~Done(t)
      BY DEF CommitWrite, CommitDelete, CommitCheck, RollbackOp
    <2>2. pos[t] \in DOMAIN req[t]
      BY <2>1, ReqTyped DEF Done, LedgerTypes, RequestTypes
    <2> QED BY <2>2, ReqTyped DEF RequestTypes, RowTypes
  <1>8. RequestTypes'
    <2>1. UNCHANGED applied \/ applied' = [applied EXCEPT ![t] = @ \cup {pos[t]}]
      BY DEF CommitWrite, CommitDelete, CommitCheck, RollbackOp, TakeEffect, historyVars
    <2> QED BY <1>3, <1>7, <2>1 DEF RequestTypes, prepareVars
  <1>9. ts[t] \in Nat /\ x \in Items
    BY <1>7, PostImageTyped DEF LedgerTypes, Writers
  <1> HIDE DEF x
  <1>10. CASE CommitWrite(t)
    <2>1. CASE CommitRow(o.key, x, ts[t]) /\ TakeEffect(t, pos[t], o.key, x) /\ UNCHANGED pmax
      BY <1>9, <2>1, CommitTypes, <1>1, <1>4, <1>6, <1>8 DEF TakeEffect
    <2>2. CASE UNCHANGED <<rowVars, clock, historyVars, pmax>>
      BY <2>2, RowTypesFrame, <1>1, <1>4, <1>6, <1>8 DEF rowVars, historyVars, rowTypeVars
    <2> QED BY <1>10, <2>1, <2>2 DEF CommitWrite, x
  <1>11. CASE CommitDelete(t)
    <2>1. pmax' \in [Partitions -> Nat] /\ clock' \in Nat
      BY <1>9, <1>11, FloorTyped DEF CommitDelete, RowTypes
    <2>2. CASE DeleteRow(o.key) /\ TakeEffect(t, pos[t], o.key, NoItem)
      <3>1. committed' \in [Keys -> Items]
        BY <2>2, NoItemTyped DEF TakeEffect, RowTypes
      <3>2. RowTypes'
        BY <2>1, <2>2, <3>1, DeleteTypes
      <3> QED BY <3>2, <1>1, <1>4, <1>6, <1>8
    <2>3. CASE UNCHANGED <<rowVars, historyVars>>
      <3>1. RowTypes'
        BY <2>1, <2>3 DEF rowVars, historyVars, RowTypes
      <3> QED BY <3>1, <1>1, <1>4, <1>6, <1>8
    <2> QED BY <1>11, <2>2, <2>3 DEF CommitDelete
  <1>12. CASE CommitCheck(t)
    <2>1. UNCHANGED <<committed, pmax, clock>> /\ (DeleteRow(o.key) \/ UNCHANGED rowVars)
      BY <1>12 DEF CommitCheck, historyVars
    <2>2. RowTypes'
      <3>1. CASE DeleteRow(o.key)
        BY <2>1, <3>1, DeleteTypes DEF RowTypes
      <3>2. CASE UNCHANGED rowVars
        BY <2>1, <3>2, RowTypesFrame DEF rowVars, rowTypeVars
      <3> QED BY <2>1, <3>1, <3>2
    <2> QED BY <2>2, <1>1, <1>4, <1>6, <1>8
  <1>13. CASE RollbackOp(t)
    <2>1. UNCHANGED <<committed, pmax, clock>> /\ (Unmark(t, o.key) \/ UNCHANGED rowVars)
      BY <1>13 DEF RollbackOp, historyVars
    <2>2. RowTypes'
      <3>1. CASE Unmark(t, o.key)
        BY <2>1, <3>1, UnmarkTypes
      <3>2. CASE UNCHANGED rowVars
        BY <2>1, <3>2, RowTypesFrame DEF rowVars, rowTypeVars
      <3> QED BY <2>1, <3>1, <3>2
    <2> QED BY <2>2, <1>1, <1>4, <1>6, <1>8
  <1> QED BY <1>10, <1>11, <1>12, <1>13

(* The steps of recovery.                                                   *)
LEMMA RecoveryTypes ==
  ASSUME NEW r \in Recoverers, TypeInv, RecoveryStep(r) \/ RecoverFails(r)
  PROVE  TypeInv'
  <1> USE DEF TypeInv
  <1> DEFINE t == rec[r].txn
             k == RecOp(r).key
             x == image[t][rec[r].pos]
  <1>1. rec[r] \in RecState /\ (t # None => t \in Txns) /\ rec[r].pos \in Nat \ {0}
    BY DEF WorkerTypes, RecState
  <1>2. OpUnderway'
    BY UnderwayFrame
    DEF RecoveryStep, StartRecovery, RecoverWrite, RecoverDelete, RecoverCheck, RecoverRollback,
        RecoverDone, RecoverFails, prepareVars
  <1>3. LedgerTypes'
    <2>1. UNCHANGED <<pc, pos, answer, ts, failed, seen>>
      BY DEF RecoveryStep, StartRecovery, RecoverWrite, RecoverDelete, RecoverCheck, RecoverRollback,
             RecoverDone, RecoverFails, prepareVars
    <2>2. UNCHANGED ledgerVars \/ \E u : DeleteLedger(u)
      BY DEF RecoveryStep, StartRecovery, RecoverWrite, RecoverDelete, RecoverCheck, RecoverRollback,
             RecoverDone, RecoverFails
    <2>3. ledger' \in [Txns -> LedgerStates]
      BY <2>2 DEF ledgerVars, DeleteLedger, LedgerTypes, LedgerStates
    <2>4. started' \in [Txns -> BOOLEAN]
      BY <2>2 DEF ledgerVars, DeleteLedger, LedgerTypes
    <2> QED BY <2>1, <2>3, <2>4 DEF LedgerTypes
  <1>4. WorkerTypes'
    <2>1. [rec[r] EXCEPT !.pos = rec[r].pos + 1] \in RecState
      BY <1>1, RecPosUpdate
    <2>2. IdleRec \in RecState
      BY DEF IdleRec, RecState
    <2>3. \A u \in Txns : [txn |-> u, mode |-> RecoveryMode(u), pos |-> 1] \in RecState
      BY DEF RecState, RecoveryMode
    <2>4. rec' \in [Recoverers -> RecState]
      <3>1. CASE \E u \in Txns : StartRecovery(r, u)
        BY <2>3, <3>1 DEF StartRecovery, WorkerTypes
      <3>2. CASE RecAdvance(r)
        BY <2>1, <3>2 DEF RecAdvance, WorkerTypes
      <3>3. CASE RecoverDone(r) \/ RecoverFails(r)
        BY <2>2, <3>3 DEF RecoverDone, RecoverFails, WorkerTypes
      <3> QED BY <3>1, <3>2, <3>3
          DEF RecoveryStep, RecoverWrite, RecoverDelete, RecoverCheck, RecoverRollback
    <2>5. recErrors' \in 0 .. MaxRecoveryErrors
      BY TxnAssumption
      DEF RecoveryStep, StartRecovery, RecoverWrite, RecoverDelete, RecoverCheck, RecoverRollback,
          RecoverDone, RecoverFails, WorkerTypes
    <2>6. UNCHANGED single
      BY DEF RecoveryStep, StartRecovery, RecoverWrite, RecoverDelete, RecoverCheck, RecoverRollback,
             RecoverDone, RecoverFails
    <2> QED BY <2>4, <2>5, <2>6 DEF WorkerTypes
  <1>5. (t # None /\ ~RecDone(r)) => rec[r].pos \in DOMAIN req[t]
    BY <1>1, ReqTyped DEF RecDone, RequestTypes
  <1>6. CASE RecoverWrite(r)
    <2>1. x \in Items /\ ts[t] \in Nat
      BY <1>1, <1>5, <1>6 DEF RecoverWrite, RequestTypes, LedgerTypes
    <2>2. RowTypes' /\ RequestTypes'
      <3>1. CASE prep[k] = t
        <4>1. /\ CommitRow(k, x, ts[t]) /\ TakeEffect(t, rec[r].pos, k, x)
              /\ UNCHANGED <<pmax, req, todo, image>>
          BY <1>6, <3>1 DEF RecoverWrite, prepareVars
        <4> HIDE DEF x, k
        <4>2. RowTypes'
          BY <2>1, <4>1, CommitTypes DEF TakeEffect
        <4>3. RequestTypes'
          BY <1>1, <1>5, <1>6, <4>1 DEF RecoverWrite, TakeEffect, RequestTypes
        <4> QED BY <4>2, <4>3
      <3>2. CASE prep[k] # t
        BY <1>6, <3>2, RowTypesFrame, RequestTypesFrame
        DEF RecoverWrite, rowVars, historyVars, prepareVars, rowTypeVars, requestTypeVars
      <3> QED BY <3>1, <3>2
    <2> QED BY <1>2, <1>3, <1>4, <2>2
  <1>7. CASE RecoverDelete(r)
    <2>1. ts[t] \in Nat
      BY <1>1, <1>7 DEF RecoverDelete, LedgerTypes
    <2>2. pmax' \in [Partitions -> Nat] /\ clock' \in Nat
      BY <1>7, <2>1, FloorTyped DEF RecoverDelete, RowTypes
    <2>3. RowTypes' /\ RequestTypes'
      <3>1. CASE prep[k] = t
        <4>1. /\ DeleteRow(k) /\ TakeEffect(t, rec[r].pos, k, NoItem)
              /\ UNCHANGED <<req, todo, image>>
          BY <1>7, <3>1 DEF RecoverDelete, prepareVars
        <4> HIDE DEF x, k
        <4>2. committed' \in [Keys -> Items]
          BY <4>1, NoItemTyped DEF TakeEffect, RowTypes
        <4>3. RowTypes'
          BY <2>2, <4>1, <4>2, DeleteTypes
        <4>4. RequestTypes'
          BY <1>1, <1>5, <1>7, <4>1 DEF RecoverDelete, TakeEffect, RequestTypes
        <4> QED BY <4>3, <4>4
      <3>2. CASE prep[k] # t
        <4>1. UNCHANGED <<rowVars, historyVars, prepareVars>>
          BY <1>7, <3>2 DEF RecoverDelete
        <4>2. RowTypes'
          BY <2>2, <4>1 DEF rowVars, historyVars, RowTypes
        <4>3. RequestTypes'
          BY <4>1, RequestTypesFrame DEF historyVars, prepareVars, requestTypeVars
        <4> QED BY <4>2, <4>3
      <3> QED BY <3>1, <3>2
    <2> QED BY <1>2, <1>3, <1>4, <2>3
  <1>8. CASE ~RecoverWrite(r) /\ ~RecoverDelete(r)
    <2>1. UNCHANGED <<pmax, clock, historyVars, prepareVars>>
      BY <1>8
      DEF RecoveryStep, StartRecovery, RecoverCheck, RecoverRollback, RecoverDone, RecoverFails
    <2>2. RequestTypes'
      BY <2>1, RequestTypesFrame DEF historyVars, prepareVars, requestTypeVars
    <2>3. UNCHANGED rowVars \/ DeleteRow(k) \/ Unmark(t, k)
      BY <1>8
      DEF RecoveryStep, StartRecovery, RecoverCheck, RecoverRollback, RecoverDone, RecoverFails
    <2>4. RowTypes'
      <3>1. CASE UNCHANGED rowVars
        BY <2>1, <3>1, RowTypesFrame DEF rowVars, historyVars, rowTypeVars
      <3>2. CASE DeleteRow(k)
        BY <2>1, <3>2, DeleteTypes DEF RowTypes, historyVars
      <3>3. CASE Unmark(t, k)
        BY <2>1, <3>3, UnmarkTypes DEF historyVars
      <3> QED BY <2>3, <3>1, <3>2, <3>3
    <2> QED BY <1>2, <1>3, <1>4, <2>2, <2>4
  <1> QED BY <1>6, <1>7, <1>8

LEMMA SinglePcUpdate ==
  ASSUME NEW y \in SingleState, NEW p \in {"idle", "read", "write", "done"}
  PROVE  LET z == [y EXCEPT !.pc = p] IN z \in SingleState /\ z.op = y.op
  BY DEF SingleState

(* The steps of single-item writes.                                         *)
LEMMA SingleTypes ==
  ASSUME NEW s \in Singles, TypeInv,
         (\E o \in SingleOps : SingleRead(s, o)) \/ SingleStep(s)
  PROVE  TypeInv'
  <1> USE DEF TypeInv
  <1>0. single[s] \in SingleState /\ single[s].item \in Items
    BY DEF WorkerTypes, SingleState
  <1>1. LedgerTypes' /\ RequestTypes' /\ OpUnderway'
    BY LedgerTypesFrame, RequestTypesFrame, UnderwayFrame
    DEF SingleRead, SingleStep, SingleWrite, SingleRetry, ledgerVars, prepareVars, historyVars,
        ledgerTypeVars, requestTypeVars
  <1>2. ASSUME NEW o \in SingleOps, SingleRead(s, o)
        PROVE  TypeInv'
    <2>1. RowTypes'
      BY <1>2, RowTypesFrame DEF SingleRead, rowVars, historyVars, rowTypeVars
    <2>2. o \in Op /\ o.key \in Keys
      BY TxnAssumption DEF Op
    <2>3. item[o.key] \in Items /\ ver[o.key] \in Nat
      BY <2>2 DEF RowTypes
    <2> DEFINE p == IF /\ prep[o.key] = None /\ Holds(o.cond, item[o.key])
                       /\ o.kind = "delete" => item[o.key] # NoItem
                    THEN "write" ELSE "done"
               y == [pc |-> p, op |-> o, item |-> item[o.key], ver |-> ver[o.key]]
    <2>4. p \in {"idle", "read", "write", "done"}
      OBVIOUS
    <2>5. single' = [single EXCEPT ![s] = y] /\ UNCHANGED <<rec, recErrors>>
      BY <1>2 DEF SingleRead, recVars
    <2> HIDE DEF p
    <2>6. y \in SingleState /\ y.op = o
      BY <2>2, <2>3, <2>4 DEF SingleState
    <2> HIDE DEF y
    <2>7. WorkerTypes'
      BY <2>2, <2>5, <2>6 DEF WorkerTypes
    <2> QED BY <1>1, <2>1, <2>7
  <1>3. ASSUME NEW p \in {"read", "done"}, single[s].pc = "write", UNCHANGED <<rec, recErrors>>,
               single' = [single EXCEPT ![s] = [single[s] EXCEPT !.pc = p]]
        PROVE  WorkerTypes'
    <2> DEFINE y == [single[s] EXCEPT !.pc = p]
    <2>1. y \in SingleState /\ y.op = single[s].op
      BY <1>0, SinglePcUpdate
    <2>2. single[s].op \in Op /\ single' = [single EXCEPT ![s] = y]
      BY <1>3 DEF WorkerTypes
    <2> HIDE DEF y
    <2> QED BY <1>3, <2>1, <2>2 DEF WorkerTypes
  <1>4. CASE SingleWrite(s)
    <2> DEFINE k == single[s].op.key
               x == PostImage(single[s].op, single[s].item, s)
    <2>1. x \in Items /\ clock + 1 \in Nat /\ clock \in Nat
      BY <1>0, PostImageTyped DEF Writers, RowTypes
    <2>2. WorkerTypes'
      BY <1>3, <1>4 DEF SingleWrite, recVars
    <2>3. clock' = clock + 1 /\ committed' = [committed EXCEPT ![k] = x]
      BY <1>4 DEF SingleWrite
    <2>4. committed' \in [Keys -> Items] /\ clock' \in Nat
      BY <2>1, <2>3 DEF RowTypes
    <2>5. CASE single[s].op.kind = "delete"
      <3>1. DeleteRow(k) /\ RaiseFloor(k, clock)
        BY <1>4, <2>5 DEF SingleWrite
      <3>2. RowTypes'
        BY <2>1, <2>4, <3>1, FloorTyped, DeleteTypes
      <3> QED BY <1>1, <2>2, <3>2
    <2>6. CASE single[s].op.kind # "delete"
      <3>1. /\ item' = [item EXCEPT ![k] = x] /\ live' = [live EXCEPT ![k] = TRUE]
            /\ ver' = [ver EXCEPT ![k] = clock + 1] /\ UNCHANGED <<prep, ctp, last, pmax>>
        BY <1>4, <2>6 DEF SingleWrite
      <3> HIDE DEF x, k
      <3>2. live' \in [Keys -> BOOLEAN]
        BY <3>1 DEF RowTypes
      <3>3. RowTypes'
        BY <2>1, <2>4, <3>1, <3>2 DEF RowTypes
      <3> QED BY <1>1, <2>2, <3>3
    <2> QED BY <2>5, <2>6
  <1>5. CASE SingleRetry(s)
    <2>1. WorkerTypes'
      BY <1>3, <1>5 DEF SingleRetry, recVars
    <2>2. UNCHANGED pmax \/ RaiseFloor(single[s].op.key, clock)
      BY <1>5 DEF SingleRetry
    <2>3. pmax' \in [Partitions -> Nat]
      BY <2>2, FloorTyped DEF RowTypes
    <2>4. RowTypes'
      BY <1>5, <2>3 DEF SingleRetry, rowVars, historyVars, RowTypes
    <2> QED BY <1>1, <2>1, <2>4
  <1> QED BY <1>2, <1>4, <1>5 DEF SingleStep

LEMMA TypeInvInit == Init => TypeInv
  <1> SUFFICES ASSUME Init
               PROVE  TypeInv
    OBVIOUS
  <1>1. {} \in Items /\ NoItem \in Items
    BY DEF Items
  <1>2. item \in [Keys -> Items]
    BY <1>1 DEF Init
  <1>3. RowTypes
    BY <1>2 DEF Init, RowTypes
  <1>4. LedgerTypes
    BY <1>1 DEF Init, LedgerTypes, LedgerStates, Pcs, Answers
  <1>5. RequestTypes /\ OpUnderway
    BY DEF Init, RequestTypes, OpUnderway
  <1>6. IdleRec \in RecState
    BY DEF IdleRec, RecState
  <1>7. [pc |-> "idle", op |-> None, item |-> NoItem, ver |-> 0] \in SingleState
    BY <1>1 DEF SingleState
  <1>8. WorkerTypes
    BY <1>6, <1>7, TxnAssumption DEF Init, WorkerTypes
  <1> QED BY <1>3, <1>4, <1>5, <1>8 DEF TypeInv

LEMMA TypeInvNext == TypeInv /\ AnswerInv /\ [Next]_vars => TypeInv'
  <1> SUFFICES ASSUME TypeInv, AnswerInv, [Next]_vars
               PROVE  TypeInv'
    OBVIOUS
  <1>1. ASSUME NEW t \in Txns, NEW q \in Requests, Begin(t, q)
        PROVE  TypeInv'
    <2>1. applied[t] = {}
      BY <1>1 DEF Begin, AnswerInv, TxnInv, UndecidedInert, Undecided, Preparing
    <2> QED BY <1>1, <2>1, BeginTypes
  <1>2. ASSUME NEW t \in Txns, CoordinatorStep(t) \/ Abandon(t)
        PROVE  TypeInv'
    BY <1>2, PrepareTypes, PhaseTypes, LoopTypes DEF CoordinatorStep
  <1>3. ASSUME NEW r \in Recoverers, RecoveryStep(r) \/ RecoverFails(r)
        PROVE  TypeInv'
    BY <1>3, RecoveryTypes
  <1>4. ASSUME NEW s \in Singles, (\E o \in SingleOps : SingleRead(s, o)) \/ SingleStep(s)
        PROVE  TypeInv'
    BY <1>4, SingleTypes
  <1>5. CASE UNCHANGED vars
    BY <1>5, RowTypesFrame, LedgerTypesFrame, RequestTypesFrame, WorkerTypesFrame, UnderwayFrame
    DEF TypeInv, vars, rowTypeVars, ledgerTypeVars, requestTypeVars, workerTypeVars
  <1> QED BY <1>1, <1>2, <1>3, <1>4, <1>5 DEF Next

(* The operations that were outrun are operations of the request.           *)
OutrunTypes ==
    /\ outrun = [t \in Txns |-> outrun[t]]
    /\ \A t \in Txns : outrun[t] \subseteq DOMAIN req[t] /\ (pc[t] = "idle" => outrun[t] = {})

(* A coordinator's steps other than the marker's leave them alone.          *)
LEMMA CoordinatorKeepsRequest ==
  ASSUME NEW t \in Txns, TypeInv, CoordinatorStep(t) \/ Abandon(t), ~PrepareMark(t)
  PROVE  UNCHANGED <<single, req, outrun>> /\ \A u \in Txns : pc'[u] = "idle" => pc[u] = "idle"
  <1>1. UNCHANGED <<single, req>>
    BY DEF CoordinatorStep, PrepareRead, PrepareFails, PrepareFloor, PrepareLost,
       PrepareWait, SaveImages, StartCommit, CommitDone, StartRollback, RollbackDone, CommitWrite,
       CommitDelete, CommitCheck, RollbackOp, Abandon, prepareVars
  <1>2. UNCHANGED outrun
    BY DEF CoordinatorStep, PrepareRead, PrepareFails, PrepareFloor, PrepareLost,
       PrepareWait, SaveImages, StartCommit, CommitDone, StartRollback, RollbackDone, CommitWrite,
       CommitDelete, CommitCheck, RollbackOp, Abandon, historyVars, TakeEffect
  <1>3. \A u \in Txns : pc'[u] = "idle" => pc[u] = "idle"
    BY DEF CoordinatorStep, PrepareRead, PrepareFails, PrepareFloor, PrepareLost,
       PrepareWait, SaveImages, StartCommit, CommitDone, StartRollback, RollbackDone, CommitWrite,
       CommitDelete, CommitCheck, RollbackOp, Abandon, FailOp, FinishOp, EnterOp, Stop, Advance,
       TypeInv, LedgerTypes
  <1> QED BY <1>1, <1>2, <1>3

LEMMA OutrunNext == TypeInv /\ OutrunTypes /\ [Next]_vars => OutrunTypes'
  <1> SUFFICES ASSUME TypeInv, OutrunTypes, [Next]_vars
               PROVE  OutrunTypes'
    OBVIOUS
  <1>1. ASSUME UNCHANGED <<req, outrun>>, \A u \in Txns : pc'[u] = "idle" => pc[u] = "idle"
        PROVE  OutrunTypes'
    BY <1>1 DEF OutrunTypes
  <1>2. ASSUME NEW t \in Txns, NEW q \in Requests, Begin(t, q)
        PROVE  OutrunTypes'
    <2>1. UNCHANGED outrun /\ outrun[t] = {}
      BY <1>2 DEF Begin, historyVars, OutrunTypes
    <2>2. \A u \in Txns \ {t} : req'[u] = req[u] /\ pc'[u] = pc[u]
      BY <1>2 DEF Begin, TypeInv, RequestTypes, LedgerTypes
    <2> QED BY <2>1, <2>2 DEF OutrunTypes
  <1>3. ASSUME NEW t \in Txns, CoordinatorStep(t) \/ Abandon(t), ~PrepareMark(t)
        PROVE  OutrunTypes'
    BY <1>1, <1>3, CoordinatorKeepsRequest
  <1>4. ASSUME NEW t \in Txns, PrepareMark(t)
        PROVE  OutrunTypes'
    <2>1. Cur(t) \in DOMAIN req[t]
      BY <1>4, CurInTodo DEF PrepareMark, TypeInv, OpUnderway
    <2>2. /\ UNCHANGED req /\ outrun' \in {outrun, [outrun EXCEPT ![t] = @ \cup {Cur(t)}]}
          /\ pc'[t] = "prepare" /\ \A u \in Txns \ {t} : pc'[u] = pc[u]
      BY <1>4 DEF PrepareMark, FinishOp, FailOp, TypeInv, LedgerTypes
    <2> QED BY <2>1, <2>2 DEF OutrunTypes
  <1>5. ASSUME NEW r \in Recoverers, RecoveryStep(r) \/ RecoverFails(r)
        PROVE  UNCHANGED <<req, pc, outrun>>
    BY <1>5 DEF RecoveryStep, StartRecovery, RecoverWrite, RecoverDelete, RecoverCheck,
       RecoverRollback, RecoverDone, RecoverFails, prepareVars, historyVars, TakeEffect
  <1>6. ASSUME NEW s \in Singles, (\E o \in SingleOps : SingleRead(s, o)) \/ SingleStep(s)
        PROVE  UNCHANGED <<req, pc, outrun>>
    BY <1>6 DEF SingleRead, SingleStep, SingleWrite, SingleRetry, prepareVars, historyVars
  <1>7. CASE UNCHANGED vars
    BY <1>1, <1>7 DEF vars
  <1> QED BY <1>1, <1>2, <1>3, <1>4, <1>5, <1>6, <1>7 DEF Next

(* Every state is well typed: in particular, whatever recovery and the      *)
(* coordinator of a transaction do, an operation is marked, imaged and      *)
(* applied only if the request has it (transact_write_items_impl,           *)
(* recover_transaction).                                                    *)
THEOREM TxnTypeCorrect == Spec => []TypeOK
  <1>1. TypeInv /\ OutrunTypes => TypeOK
    BY DEF TypeInv, RowTypes, LedgerTypes, RequestTypes, WorkerTypes, OutrunTypes, TypeOK
  <1>2. Init => OutrunTypes
    BY DEF Init, OutrunTypes
  <1> QED BY <1>1, <1>2, TypeInvInit, TypeInvNext, AnswerInvInit, AnswerInvNext, OutrunNext, PTL DEF Spec

-----------------------------------------------------------------------------
(* ItemMarkerInLedger.                                                      *)

(* A Delete whose marker is never left out: DynamoDB's plain Delete and the *)
(* one that requires the item.                                              *)
Plain(o) == o.kind = "delete" => o.cond \in {"none", "exists"}

KeyOf(t, i) == req[t][i].key

(* Where a coordinator stands and what the ledger says.                     *)
Stage(t) ==
    /\ pc[t] = "idle" => req[t] = <<>> /\ ledger[t] = "none"
    /\ pc[t] \in {"prepare", "floor", "mark", "wait", "saved"} => ledger[t] = "preparing"
    /\ pc[t] = "commit" => ledger[t] = "committing"
    /\ pc[t] = "rollback" => ledger[t] = "cancelling"
    /\ pc[t] = "done" => ledger[t] = "none"
    /\ (pc[t] \in {"saved", "commit", "rollback"} \/ ledger[t] = "committing") => todo[t] = {}
    /\ pc[t] \in Running => answer[t] = "none"

(* What PREPARE has read of the row it is about to mark.                    *)
SeenRight(t) ==
    pc[t] \in {"floor", "mark", "wait"} =>
        /\ CurOp(t).kind = "check" => seen[t] = NoItem
        /\ (CurOp(t).kind = "delete" /\ Plain(CurOp(t)))
               => pc[t] # "wait" /\ ~PlantsRow(CurOp(t), seen[t])

(* Recovery works on the dead only, and all of its passes over a            *)
(* transaction agree.                                                       *)
Passes(t) ==
    /\ \A r \in Recoverers : rec[r].txn = t =>
           pc[t] = "stopped" /\ (ledger[t] # "none" => rec[r].mode = RecoveryMode(t))
    /\ \A r, v \in Recoverers : (rec[r].txn = t /\ rec[v].txn = t) => rec[r].mode = rec[v].mode

(* A transaction marks the rows of operations it has processed.             *)
MarkPlace(t) ==
    \A k \in Keys : prep[k] = t => \E i \in (DOMAIN req[t]) \ todo[t] : KeyOf(t, i) = k

(* A mark that is still there is ahead of every loop that is to clear it.   *)
(* Only a rollback passes by a mark, on a row without an item; and COMMIT   *)
(* clears the mark of a check because the check planted its row.            *)
MarkAhead(t) ==
    \A i \in DOMAIN req[t] : prep[KeyOf(t, i)] = t =>
        /\ pc[t] = "commit" => i >= pos[t]
        /\ (pc[t] = "rollback" /\ item[KeyOf(t, i)] # NoItem) => i >= pos[t]
        /\ ledger[t] = "none" => item[KeyOf(t, i)] = NoItem
        /\ \A r \in Recoverers : rec[r].txn = t => i >= rec[r].pos
        /\ (~failed[t] /\ req[t][i].kind \in {"check", "trim"} /\ image[t][i] = NoItem)
               => ctp[KeyOf(t, i)]

MarkTxn(t) == Stage(t) /\ SeenRight(t) /\ Passes(t) /\ MarkPlace(t) /\ MarkAhead(t)
MarkInv == \A t \in Txns : MarkTxn(t)

(* Everything the proof rests on.                                           *)
Known == TypeInv /\ RowInv /\ AnswerInv /\ MarkInv

(* A step changes no row that is held by another transaction than t.        *)
OnlyRowsOf(t) ==
    \A k \in Keys :
        /\ prep[k] \notin {t, None} => prep'[k] = prep[k] /\ item'[k] = item[k] /\ ctp'[k] = ctp[k]
        /\ prep'[k] \notin {t, None} => prep'[k] = prep[k]

(* What MarkTxn reads of a transaction.                                     *)
MarkView(t) == <<pc[t], failed[t], ledger[t], answer[t], pos[t], req[t], image[t], todo[t], seen[t]>>

LEMMA MarkFrame ==
  ASSUME NEW u \in Txns, NEW t, u # t, TypeInv, MarkTxn(u), OnlyRowsOf(t),
         MarkView(u)' = MarkView(u),
         \A r \in Recoverers : rec'[r].txn = u => rec'[r] = rec[r]
  PROVE  MarkTxn(u)'
  <1>0. u # None
    BY TxnAssumption
  <1>1. /\ pc'[u] = pc[u] /\ failed'[u] = failed[u] /\ ledger'[u] = ledger[u]
        /\ answer'[u] = answer[u] /\ pos'[u] = pos[u] /\ req'[u] = req[u]
        /\ image'[u] = image[u] /\ todo'[u] = todo[u] /\ seen'[u] = seen[u]
    BY DEF MarkView
  <1>2. \A i \in DOMAIN req[u] : KeyOf(u, i) \in Keys /\ KeyOf(u, i)' = KeyOf(u, i)
    BY <1>1, ReqTyped DEF TypeInv, RequestTypes, KeyOf
  <1>3. \A k \in Keys : prep'[k] = u => prep[k] = u /\ item'[k] = item[k] /\ ctp'[k] = ctp[k]
    BY <1>0 DEF OnlyRowsOf
  <1>4. Stage(u)'
    BY <1>1 DEF MarkTxn, Stage
  <1>5. SeenRight(u)'
    <2>1. CurOp(u)' = CurOp(u)
      BY <1>1 DEF CurOp, Cur
    <2> QED BY <1>1, <2>1 DEF MarkTxn, SeenRight, PlantsRow, Plain
  <1>6. Passes(u)'
    BY <1>1 DEF MarkTxn, Passes, RecoveryMode
  <1>7. MarkPlace(u)'
    <2>1. ASSUME NEW k \in Keys, prep'[k] = u
          PROVE  \E i \in (DOMAIN req'[u]) \ todo'[u] : KeyOf(u, i)' = k
      <3>1. PICK i \in (DOMAIN req[u]) \ todo[u] : KeyOf(u, i) = k
        BY <1>3, <2>1 DEF MarkTxn, MarkPlace
      <3> QED BY <1>1, <1>2, <3>1
    <2> QED BY <2>1 DEF MarkPlace
  <1>8. MarkAhead(u)'
    <2>1. ASSUME NEW i \in DOMAIN req[u], prep'[KeyOf(u, i)] = u
          PROVE  /\ pc[u] = "commit" => i >= pos[u]
                 /\ (pc[u] = "rollback" /\ item'[KeyOf(u, i)] # NoItem) => i >= pos[u]
                 /\ ledger[u] = "none" => item'[KeyOf(u, i)] = NoItem
                 /\ \A r \in Recoverers : rec'[r].txn = u => i >= rec'[r].pos
                 /\ (~failed[u] /\ req[u][i].kind \in {"check", "trim"} /\ image[u][i] = NoItem)
                        => ctp'[KeyOf(u, i)]
      <3>1. prep[KeyOf(u, i)] = u /\ item'[KeyOf(u, i)] = item[KeyOf(u, i)]
            /\ ctp'[KeyOf(u, i)] = ctp[KeyOf(u, i)]
        BY <1>2, <1>3, <2>1
      <3> QED BY <3>1 DEF MarkTxn, MarkAhead
    <2> QED BY <1>1, <1>2, <2>1 DEF MarkAhead
  <1> QED BY <1>4, <1>5, <1>6, <1>7, <1>8 DEF MarkTxn

(* The operations of a request and their keys.                              *)
LEMMA OpKeys ==
  ASSUME NEW t \in Txns, TypeInv
  PROVE  /\ Len(req[t]) \in Nat
         /\ \A i \in DOMAIN req[t] : KeyOf(t, i) \in Keys /\ i \in Nat \ {0} /\ i <= Len(req[t])
         /\ \A i, j \in DOMAIN req[t] : KeyOf(t, i) = KeyOf(t, j) => i = j
  <1>1. /\ Len(req[t]) \in Nat /\ DOMAIN req[t] = 1 .. Len(req[t])
        /\ \A i \in DOMAIN req[t] : req[t][i].key \in Keys
        /\ \A i, j \in DOMAIN req[t] : req[t][i].key = req[t][j].key => i = j
    BY ReqTyped DEF TypeInv, RequestTypes
  <1>2. \A i \in DOMAIN req[t] : i \in Nat \ {0} /\ i <= Len(req[t])
    BY <1>1
  <1> QED BY <1>1, <1>2 DEF KeyOf

(* A step of t's coordinator.                                               *)
LEMMA MarkOwnStep ==
  ASSUME NEW t \in Txns, Known, rec' = rec, OnlyRowsOf(t), MarkTxn(t)',
         \A u \in Txns \ {t} : MarkView(u)' = MarkView(u)
  PROVE  MarkInv'
  <1>1. ASSUME NEW u \in Txns \ {t}
        PROVE  MarkTxn(u)'
    BY <1>1, MarkFrame DEF Known, MarkInv
  <1> QED BY <1>1 DEF MarkInv

(* While its coordinator runs no pass of recovery works on a transaction.   *)
LEMMA NoPass ==
  ASSUME NEW t \in Txns, MarkInv, pc[t] # "stopped"
  PROVE  \A r \in Recoverers : rec[r].txn # t
  BY DEF MarkInv, MarkTxn, Passes

(* An operation that has not been processed holds no row.                   *)
LEMMA TodoUnmarked ==
  ASSUME NEW t \in Txns, TypeInv, MarkInv, NEW i \in todo[t]
  PROVE  prep[KeyOf(t, i)] # t
  <1>1. i \in DOMAIN req[t] /\ KeyOf(t, i) \in Keys
    BY ReqTyped DEF TypeInv, RequestTypes, KeyOf
  <1>2. \A j \in DOMAIN req[t] : KeyOf(t, j) = KeyOf(t, i) => j = i
    BY <1>1, ReqTyped DEF TypeInv, RequestTypes, KeyOf
  <1> QED BY <1>1, <1>2 DEF MarkInv, MarkTxn, MarkPlace

-----------------------------------------------------------------------------
(* Rows.                                                                    *)

Elsewhere(k) ==
    \A j \in Keys \ {k} : prep'[j] = prep[j] /\ item'[j] = item[j] /\ ctp'[j] = ctp[j]

LEMMA OneRow ==
  ASSUME NEW t, NEW k, Elsewhere(k), prep[k] \in {t, None}, prep'[k] \in {t, None}
  PROVE  OnlyRowsOf(t)
  BY DEF Elsewhere, OnlyRowsOf

LEMMA SameRows ==
  ASSUME NEW t, UNCHANGED rowVars
  PROVE  OnlyRowsOf(t)
  BY DEF rowVars, OnlyRowsOf

LEMMA MarkEffect ==
  ASSUME NEW t \in Txns, NEW k \in Keys, NEW o, TypeInv, RowInv, MarkRow(t, k, o)
  PROVE  /\ Elsewhere(k) /\ prep[k] = None /\ prep'[k] = t /\ OnlyRowsOf(t)
         /\ PlantsRow(o, seen[t]) => ctp'[k]
  <1>1. Elsewhere(k)
    BY DEF Elsewhere, MarkRow, TypeInv, RowTypes
  <1>2. prep[k] = None
    BY DEF MarkRow, RowInv, AbsentRowsEmpty
  <1>3. prep'[k] = t
    BY DEF MarkRow, TypeInv, RowTypes
  <1>4. PlantsRow(o, seen[t]) => ctp'[k]
    BY DEF MarkRow, TypeInv, RowTypes
  <1> QED BY <1>1, <1>2, <1>3, <1>4, OneRow

LEMMA DeleteEffect ==
  ASSUME NEW k \in Keys, TypeInv, DeleteRow(k)
  PROVE  Elsewhere(k) /\ prep'[k] = None /\ item'[k] = NoItem
  BY DEF Elsewhere, DeleteRow, TypeInv, RowTypes

LEMMA CommitRowEffect ==
  ASSUME NEW k \in Keys, NEW x, NEW stamp, TypeInv, CommitRow(k, x, stamp)
  PROVE  Elsewhere(k) /\ prep'[k] = None
  BY DEF Elsewhere, CommitRow, TypeInv, RowTypes

LEMMA UnmarkEffect ==
  ASSUME NEW t \in Txns, NEW k \in Keys, TypeInv, Unmark(t, k)
  PROVE  /\ Elsewhere(k) /\ OnlyRowsOf(t) /\ prep'[k] # t
         /\ prep[k] # t => UNCHANGED rowVars
  <1>0. t # None
    BY TxnAssumption
  <1>1. CASE prep[k] # t
    BY <1>1, SameRows DEF Unmark, rowVars, Elsewhere
  <1>2. CASE prep[k] = t
    <2>1. Elsewhere(k) /\ prep'[k] = None
      <3>1. CASE DeleteRow(k)
        BY <3>1, DeleteEffect
      <3>2. CASE ClearMarker(k)
        BY <3>2 DEF ClearMarker, Elsewhere, TypeInv, RowTypes
      <3> QED BY <1>2, <3>1, <3>2 DEF Unmark
    <2> QED BY <1>0, <1>2, <2>1, OneRow
  <1> QED BY <1>1, <1>2

-----------------------------------------------------------------------------
(* Begin and PREPARE.                                                       *)

LEMMA BeginMarks ==
  ASSUME NEW t \in Txns, NEW q \in Requests, Known, Begin(t, q)
  PROVE  MarkInv'
  <1>0. MarkTxn(t) /\ pc[t] = "idle" /\ req[t] = <<>>
    BY DEF Known, MarkInv, MarkTxn, Stage, Begin
  <1>1. UNCHANGED rowVars /\ rec' = rec /\ UNCHANGED <<failed, seen, pos, answer>>
    BY DEF Begin, recVars
  <1>2. /\ pc'[t] = "prepare" /\ ledger'[t] = "preparing"
        /\ \A u \in Txns \ {t} : MarkView(u)' = MarkView(u)
    BY <1>1 DEF Begin, MarkView, Known, TypeInv, LedgerTypes, RequestTypes
  <1>3. \A k \in Keys : prep[k] # t /\ prep'[k] # t
    <2>1. DOMAIN req[t] = {}
      BY <1>0
    <2> QED BY <1>0, <1>1, <2>1 DEF MarkTxn, MarkPlace, rowVars
  <1>4. Stage(t)'
    <2>1. answer[t] = "none"
      BY <1>0 DEF Known, AnswerInv, TxnInv, Decision, Preparing
    <2> QED BY <1>1, <1>2, <2>1 DEF Stage
  <1>5. SeenRight(t)'
    BY <1>2 DEF SeenRight
  <1>6. Passes(t)'
    BY <1>0, <1>1, NoPass DEF Known, Passes
  <1>7. MarkPlace(t)'
    BY <1>3 DEF MarkPlace
  <1>8. \A i \in DOMAIN req'[t] : KeyOf(t, i)' \in Keys
    <2>1. req' \in [Txns -> Requests \cup {<<>>}]
      BY DEF Begin, Known, TypeInv, RequestTypes
    <2>2. req'[t] = q
      BY DEF Begin, Known, TypeInv, RequestTypes
    <2>3. q \in Seq(Op)
      BY Zenon, TxnAssumption
    <2>4. \A i \in DOMAIN q : q[i] \in Op
      BY <2>3
    <2>5. \A i \in DOMAIN q : q[i].key \in Keys
      BY <2>4 DEF Op
    <2> QED BY <2>2, <2>5 DEF KeyOf
  <1>9. MarkAhead(t)'
    BY <1>3, <1>8 DEF MarkAhead
  <1> QED BY <1>1, <1>2, <1>4, <1>5, <1>6, <1>7, <1>9, MarkOwnStep, SameRows DEF MarkTxn

(* What the steps of PREPARE have in common.                                *)
LEMMA PrepareOwn ==
  ASSUME NEW t \in Txns, Known,
         \/ PrepareRead(t) \/ PrepareFails(t) \/ PrepareFloor(t)
         \/ PrepareMark(t) \/ PrepareLost(t) \/ PrepareWait(t)
  PROVE  /\ pc[t] \in {"prepare", "floor", "mark", "wait"} /\ todo[t] # {}
         /\ pc'[t] \in {"prepare", "floor", "mark", "wait"}
         /\ ledger'[t] = "preparing" /\ answer'[t] = "none"
         /\ UNCHANGED <<rec, req>>
         /\ \A u \in Txns \ {t} : MarkView(u)' = MarkView(u)
         /\ \/ FailOp(t) \/ (\E x \in Items : FinishOp(t, x))
            \/ \E target \in {"floor", "mark", "wait"} : EnterOp(t, target)
  <1>1. pc[t] \in {"prepare", "floor", "mark", "wait"} /\ UNCHANGED <<rec, req, ledger, answer, pos>>
    BY DEF PrepareRead, PrepareFails, PrepareFloor, PrepareMark, PrepareLost, PrepareWait, recVars,
           ledgerVars
  <1>2. todo[t] # {}
    BY DEF PrepareRead, PrepareFails, PrepareFloor, PrepareMark, PrepareLost, PrepareWait,
           Known, TypeInv, OpUnderway
  <1>3. ledger[t] = "preparing" /\ answer[t] = "none"
    BY <1>1 DEF Known, MarkInv, MarkTxn, Stage, Running
  <1>4. item[CurOp(t).key] \in Items /\ seen[t] \in Items
    BY <1>2, CurInTodo DEF Known, TypeInv, RowTypes, LedgerTypes
  <1>5. \/ FailOp(t) \/ (\E x \in Items : FinishOp(t, x))
        \/ \E target \in {"floor", "mark", "wait"} : EnterOp(t, target)
    <2>1. CASE PrepareRead(t)
      BY <1>4, <2>1 DEF PrepareRead
    <2>2. CASE PrepareWait(t)
      BY <1>4, <2>2 DEF PrepareWait
    <2>3. CASE PrepareFails(t) \/ PrepareFloor(t) \/ PrepareLost(t)
      BY <2>3 DEF PrepareFails, PrepareFloor, PrepareLost
    <2>4. CASE PrepareMark(t)
      BY <1>4, <2>4 DEF PrepareMark
    <2> QED BY <2>1, <2>2, <2>3, <2>4
  <1>6. \A u \in Txns \ {t} : seen'[u] = seen[u]
    BY DEF PrepareRead, PrepareFails, PrepareFloor, PrepareMark, PrepareLost, PrepareWait,
           Known, TypeInv, LedgerTypes
  <1>7. /\ pc'[t] \in {"prepare", "floor", "mark", "wait"}
        /\ \A u \in Txns \ {t} : /\ pc'[u] = pc[u] /\ failed'[u] = failed[u]
                                 /\ image'[u] = image[u] /\ todo'[u] = todo[u]
    BY <1>5 DEF FailOp, FinishOp, EnterOp, Known, TypeInv, LedgerTypes, RequestTypes
  <1>8. \A u \in Txns \ {t} : MarkView(u)' = MarkView(u)
    BY <1>1, <1>6, <1>7 DEF MarkView
  <1> QED BY <1>1, <1>2, <1>3, <1>5, <1>7, <1>8

LEMMA PrepareSees ==
  ASSUME NEW t \in Txns, Known,
         \/ PrepareRead(t) \/ PrepareFails(t) \/ PrepareFloor(t)
         \/ PrepareMark(t) \/ PrepareLost(t) \/ PrepareWait(t)
  PROVE  SeenRight(t)'
  <1>0. SeenRight(t)
    BY DEF Known, MarkInv, MarkTxn
  <1>1. CASE FailOp(t) \/ \E x \in Items : FinishOp(t, x)
    <2>1. pc'[t] = "prepare"
      BY <1>1 DEF FailOp, FinishOp, Known, TypeInv, LedgerTypes
    <2> QED BY <2>1 DEF SeenRight
  <1>2. ASSUME NEW target \in {"floor", "mark", "wait"}, EnterOp(t, target),
               ~FailOp(t), ~\E x \in Items : FinishOp(t, x)
        PROVE  SeenRight(t)'
    <2> DEFINE o == CurOp(t)
    <2>1. CurOp(t)' = o /\ pc'[t] = target /\ UNCHANGED todo
      BY <1>2, PrepareOwn DEF EnterOp, CurOp, Cur, Known, TypeInv, LedgerTypes
    <2>2. o \in Op /\ o.key \in Keys /\ item[o.key] \in Items
      BY PrepareOwn, CurInTodo DEF Known, TypeInv, RowTypes
    <2>3. ~live[o.key] => item[o.key] = NoItem
      BY <2>2 DEF Known, RowInv, AbsentRowsEmpty
    <2>4. CASE PrepareRead(t)
      <3>1. Holds(o.cond, item[o.key]) /\ TakesMarker(o, item[o.key]) /\ seen'[t] = item[o.key]
            /\ target # "wait"
        BY <1>2, <2>1, <2>2, <2>4 DEF PrepareRead, Known, TypeInv, LedgerTypes, EnterOp
      <3>2. o.kind = "check" => item[o.key] = NoItem
        BY <3>1 DEF TakesMarker
      <3>3. (o.kind = "delete" /\ Plain(o)) => ~PlantsRow(o, item[o.key])
        BY <3>1 DEF Plain, PlantsRow, Holds
      <3> QED BY <2>1, <3>1, <3>2, <3>3 DEF SeenRight, Plain, PlantsRow
    <2>5. CASE PrepareFloor(t)
      <3>1. pc[t] = "floor" /\ seen' = seen /\ target # "wait"
        BY <1>2, <2>1, <2>5 DEF PrepareFloor, Known, TypeInv, LedgerTypes, EnterOp
      <3> QED BY <1>0, <2>1, <3>1 DEF SeenRight, Plain, PlantsRow
    <2>6. CASE PrepareLost(t)
      <3>1. pc[t] = "mark" /\ seen' = seen /\ ~(o.kind = "delete" /\ ~PlantsRow(o, seen[t]))
        BY <1>2, <2>6 DEF PrepareLost
      <3> QED BY <1>0, <2>1, <3>1 DEF SeenRight, Plain, PlantsRow
    <2>7. CASE PrepareWait(t)
      <3>1. pc[t] = "wait" /\ seen'[t] = item[o.key] /\ target # "wait"
            /\ ~(live[o.key] /\ o.kind \in {"delete", "check"})
        BY <1>2, <2>1, <2>2, <2>7 DEF PrepareWait, Known, TypeInv, LedgerTypes, EnterOp
      <3> QED BY <1>0, <2>1, <2>3, <3>1 DEF SeenRight, Plain, PlantsRow
    <2>8. ~PrepareFails(t) /\ ~PrepareMark(t)
      BY <1>2 DEF PrepareFails, PrepareMark, Known, TypeInv, LedgerTypes
    <2> QED BY <2>4, <2>5, <2>6, <2>7, <2>8
  <1> QED BY <1>1, <1>2, PrepareOwn

LEMMA PrepareMarks ==
  ASSUME NEW t \in Txns, Known,
         \/ PrepareRead(t) \/ PrepareFails(t) \/ PrepareFloor(t)
         \/ PrepareMark(t) \/ PrepareLost(t) \/ PrepareWait(t)
  PROVE  MarkInv'
  <1> DEFINE c == Cur(t)
             k == CurOp(t).key
  <1>0. /\ pc[t] \in {"prepare", "floor", "mark", "wait"} /\ todo[t] # {}
        /\ pc'[t] \in {"prepare", "floor", "mark", "wait"}
        /\ ledger'[t] = "preparing" /\ answer'[t] = "none" /\ UNCHANGED <<rec, req>>
        /\ \A u \in Txns \ {t} : MarkView(u)' = MarkView(u)
    BY PrepareOwn
  <1>1. \/ FailOp(t) \/ (\E x \in Items : FinishOp(t, x))
        \/ \E target \in {"floor", "mark", "wait"} : EnterOp(t, target)
    BY PrepareOwn
  <1>2. /\ c \in todo[t] /\ c \in DOMAIN req[t] /\ k \in Keys /\ KeyOf(t, c) = k
        /\ prep[k] # t /\ c = Cur(t)
    <2>1. c \in todo[t] /\ c \in DOMAIN req[t] /\ k \in Keys /\ KeyOf(t, c) = k
      BY <1>0, CurInTodo DEF Known, TypeInv, KeyOf, CurOp
    <2> QED BY <2>1, TodoUnmarked DEF Known
  <1> HIDE DEF c, k
  <1>3. /\ \A i \in DOMAIN req[t] : KeyOf(t, i) \in Keys /\ KeyOf(t, i)' = KeyOf(t, i)
        /\ \A i \in DOMAIN req[t] : KeyOf(t, i) = k => i = c
    BY <1>0, <1>2, ReqTyped DEF Known, TypeInv, RequestTypes, KeyOf
  <1>4. /\ todo'[t] \subseteq todo[t]
        /\ \A i \in DOMAIN req[t] : i # c => image'[t][i] = image[t][i]
        /\ failed[t] => failed'[t]
    <2>1. CASE FailOp(t) \/ \E target \in {"floor", "mark", "wait"} : EnterOp(t, target)
      BY <2>1 DEF FailOp, EnterOp, Known, TypeInv, RequestTypes, LedgerTypes
    <2>2. CASE \E x \in Items : FinishOp(t, x)
      BY <1>2, <2>2 DEF FinishOp, Known, TypeInv, RequestTypes, LedgerTypes
    <2> QED BY <1>1, <2>1, <2>2
  <1>5. \A r \in Recoverers : rec'[r].txn # t
    BY <1>0, NoPass DEF Known
  <1>6. Stage(t)' /\ Passes(t)' /\ SeenRight(t)'
    BY <1>0, <1>5, PrepareSees DEF Stage, Passes
  <1>7. CASE UNCHANGED rowVars
    <2>1. MarkPlace(t)'
      BY <1>0, <1>3, <1>4, <1>7 DEF Known, MarkInv, MarkTxn, MarkPlace, rowVars
    <2>2. ASSUME NEW i \in DOMAIN req[t], prep[KeyOf(t, i)] = t, ~failed'[t],
                 req[t][i].kind \in {"check", "trim"}, image'[t][i] = NoItem
          PROVE  ctp[KeyOf(t, i)]
      <3>1. i # c
        BY <1>2, <2>2
      <3>2. ~failed[t] /\ image[t][i] = NoItem
        BY <1>4, <2>2, <3>1
      <3> QED BY <2>2, <3>2 DEF Known, MarkInv, MarkTxn, MarkAhead
    <2>3. MarkAhead(t)'
      BY <1>0, <1>3, <1>5, <1>7, <2>2 DEF MarkAhead, rowVars
    <2> QED BY <1>0, <1>6, <1>7, <2>1, <2>3, SameRows, MarkOwnStep DEF MarkTxn
  <1>8. CASE PrepareMark(t)
    <2> DEFINE o == CurOp(t)
    <2>1. MarkRow(t, k, o) /\ pc[t] = "mark" /\ (FinishOp(t, seen[t]) \/ FailOp(t))
      BY <1>8 DEF PrepareMark, k
    <2>2. /\ Elsewhere(k) /\ prep'[k] = t /\ OnlyRowsOf(t)
          /\ PlantsRow(o, seen[t]) => ctp'[k]
      BY <1>2, <2>1, MarkEffect DEF Known
    <2>3. c \notin todo'[t]
      BY <1>2, <2>1 DEF FinishOp, FailOp, Known, TypeInv, RequestTypes
    <2>4. MarkPlace(t)'
      <3>1. ASSUME NEW j \in Keys, prep'[j] = t
            PROVE  \E i \in (DOMAIN req[t]) \ todo'[t] : KeyOf(t, i) = j
        <4>1. CASE j = k
          BY <1>2, <2>3, <4>1
        <4>2. CASE j # k
          <5>1. prep[j] = t
            BY <2>2, <3>1, <4>2 DEF Elsewhere
          <5> QED BY <1>4, <5>1 DEF Known, MarkInv, MarkTxn, MarkPlace
        <4> QED BY <4>1, <4>2
      <3> QED BY <1>0, <1>3, <3>1 DEF MarkPlace
    <2>5. ASSUME NEW i \in DOMAIN req[t], prep'[KeyOf(t, i)] = t, ~failed'[t],
                 req[t][i].kind \in {"check", "trim"}, image'[t][i] = NoItem
          PROVE  ctp'[KeyOf(t, i)]
      <3>1. CASE i # c
        <4>1. KeyOf(t, i) \in Keys \ {k}
          BY <1>3, <3>1
        <4>2. prep[KeyOf(t, i)] = t /\ ctp'[KeyOf(t, i)] = ctp[KeyOf(t, i)]
          BY <2>2, <2>5, <4>1 DEF Elsewhere
        <4>3. ~failed[t] /\ image[t][i] = NoItem
          BY <1>4, <2>5, <3>1
        <4> QED BY <2>5, <4>2, <4>3 DEF Known, MarkInv, MarkTxn, MarkAhead
      <3>2. CASE i = c
        <4>1. FinishOp(t, seen[t]) /\ o.kind \in {"check", "trim"}
          BY <1>2, <2>1, <2>5, <3>2 DEF FailOp, CurOp, Known, TypeInv, LedgerTypes
        <4>2. image'[t][c] = PostImage(o, seen[t], t)
          BY <1>2, <4>1 DEF FinishOp, Known, TypeInv, RequestTypes
        <4>3. o.kind = "check" => seen[t] = NoItem
          BY <2>1 DEF Known, MarkInv, MarkTxn, SeenRight
        <4>4. Updated(seen[t], t) # NoItem
          <5>1. seen[t] = NoItem \/ seen[t] \in SUBSET Writers
            BY DEF Known, TypeInv, LedgerTypes, Items
          <5>2. Updated(seen[t], t) \in SUBSET Writers
            BY <5>1 DEF Updated, Writers
          <5> QED BY <5>2, TxnAssumption DEF Writers
        <4>5. seen[t] = NoItem
          BY <2>5, <3>2, <4>1, <4>2, <4>3, <4>4 DEF PostImage
        <4>6. PlantsRow(o, seen[t])
          BY <4>1, <4>5 DEF PlantsRow
        <4> QED BY <1>2, <2>2, <3>2, <4>6
      <3> QED BY <3>1, <3>2
    <2>6. MarkAhead(t)'
      BY <1>0, <1>3, <1>5, <2>5 DEF MarkAhead
    <2> QED BY <1>0, <1>6, <2>2, <2>4, <2>6, MarkOwnStep DEF MarkTxn
  <1> QED BY <1>7, <1>8
      DEF PrepareRead, PrepareFails, PrepareFloor, PrepareLost, PrepareWait

-----------------------------------------------------------------------------
(* The phases and their loops.                                              *)

LEMMA PhaseMarks ==
  ASSUME NEW t \in Txns, Known,
         \/ SaveImages(t) \/ StartCommit(t) \/ CommitDone(t) \/ StartRollback(t)
         \/ RollbackDone(t) \/ Abandon(t)
  PROVE  MarkInv'
  <1>0. UNCHANGED <<rowVars, req, todo, failed, seen, image, pos, rec>>
    BY DEF SaveImages, StartCommit, CommitDone, StartRollback, RollbackDone, Abandon, prepareVars,
           recVars
  <1>1. pc[t] \in Running /\ MarkTxn(t) /\ TxnInv(t)
    BY DEF SaveImages, StartCommit, CommitDone, StartRollback, RollbackDone, Abandon, Running,
           Known, MarkInv, AnswerInv
  <1>2. \A u \in Txns \ {t} : MarkView(u)' = MarkView(u)
    <2>1. \A u \in Txns \ {t} : pc'[u] = pc[u] /\ ledger'[u] = ledger[u] /\ answer'[u] = answer[u]
      BY DEF SaveImages, StartCommit, CommitDone, StartRollback, RollbackDone, Abandon, SetLedger,
             DeleteLedger, ledgerVars, Known, TypeInv, LedgerTypes
    <2> QED BY <1>0, <2>1 DEF MarkView
  <1>3. \A r \in Recoverers : rec'[r].txn # t
    BY <1>0, <1>1, NoPass DEF Known, Running
  <1>4. Passes(t)' /\ MarkPlace(t)'
    BY <1>0, <1>1, <1>3 DEF Passes, MarkTxn, MarkPlace, KeyOf, rowVars
  <1>5. Stage(t)' /\ SeenRight(t)'
    BY <1>0, <1>1
    DEF SaveImages, StartCommit, CommitDone, StartRollback, RollbackDone, Abandon, SetLedger,
        DeleteLedger, ledgerVars, Known, TypeInv, LedgerTypes, MarkTxn, Stage, Running, SeenRight,
        Pcs
  <1>6. MarkAhead(t)'
    <2>1. ASSUME NEW i \in DOMAIN req[t], prep[KeyOf(t, i)] = t
          PROVE  /\ pc'[t] = "commit" => i >= pos[t]
                 /\ (pc'[t] = "rollback" /\ item[KeyOf(t, i)] # NoItem) => i >= pos[t]
                 /\ ledger'[t] = "none" => item[KeyOf(t, i)] = NoItem
                 /\ (~failed[t] /\ req[t][i].kind \in {"check", "trim"} /\ image[t][i] = NoItem)
                        => ctp[KeyOf(t, i)]
      <3>1. i \in Nat \ {0} /\ Len(req[t]) \in Nat /\ i <= Len(req[t]) /\ pos[t] \in Nat
        BY ReqTyped DEF Known, TypeInv, RequestTypes, LedgerTypes
      <3>2. pc[t] \in {"prepare", "saved"} => pos[t] = 1
        BY <1>1 DEF TxnInv, Decision, Preparing
      <3>3. /\ pc[t] = "commit" => i >= pos[t]
            /\ (pc[t] = "rollback" /\ item[KeyOf(t, i)] # NoItem) => i >= pos[t]
            /\ (~failed[t] /\ req[t][i].kind \in {"check", "trim"} /\ image[t][i] = NoItem)
                        => ctp[KeyOf(t, i)]
        BY <1>1, <2>1 DEF MarkTxn, MarkAhead
      <3>4. pc'[t] \in {"commit", "rollback"} => pos[t] = 1
        BY <3>2 DEF SaveImages, StartCommit, CommitDone, StartRollback, RollbackDone, Abandon,
                    Known, TypeInv, LedgerTypes
      <3>5. ledger'[t] = "none" => Done(t) /\ pc[t] \in {"commit", "rollback"}
        BY <1>1 DEF SaveImages, StartCommit, CommitDone, StartRollback, RollbackDone, Abandon, SetLedger,
             DeleteLedger, ledgerVars, Known, TypeInv, LedgerTypes, MarkTxn, Stage, Running
      <3> QED BY <3>1, <3>3, <3>4, <3>5 DEF Done
    <2> QED BY <1>0, <1>3, <2>1 DEF MarkAhead, KeyOf, rowVars
  <1> QED BY <1>0, <1>2, <1>4, <1>5, <1>6, SameRows, MarkOwnStep DEF MarkTxn

(* One operation of the commit or of the rollback loop.                     *)
LoopStep(t, p) ==
    LET k == KeyOf(t, p) IN
    /\ p \in DOMAIN req[t]
    /\ Elsewhere(k) /\ OnlyRowsOf(t)
    /\ prep'[k] = t => prep[k] = t /\ item'[k] = item[k] /\ ctp'[k] = ctp[k]

LEMMA LoopMarks ==
  ASSUME NEW t \in Txns, Known,
         CommitWrite(t) \/ CommitDelete(t) \/ CommitCheck(t) \/ RollbackOp(t)
  PROVE  /\ MarkInv' /\ LoopStep(t, pos[t])
         /\ pc[t] = "commit" => prep'[KeyOf(t, pos[t])] # t
  <1> DEFINE p == pos[t]
             k == KeyOf(t, p)
  <1>0. UNCHANGED <<ledger, answer, req, todo, failed, seen, image, rec>>
    BY DEF CommitWrite, CommitDelete, CommitCheck, RollbackOp, prepareVars, recVars, ledgerVars
  <1>1. /\ pc[t] \in {"commit", "rollback"} /\ MarkTxn(t) /\ TxnInv(t)
        /\ Stop(t) \/ Advance(t)
    BY DEF CommitWrite, CommitDelete, CommitCheck, RollbackOp, Known, MarkInv, AnswerInv
  <1>2. p \in DOMAIN req[t] /\ k \in Keys
    <2>1. ~Done(t)
      BY DEF CommitWrite, CommitDelete, CommitCheck, RollbackOp
    <2>2. p \in DOMAIN req[t]
      BY <2>1, ReqTyped DEF Done, Known, TypeInv, LedgerTypes, RequestTypes
    <2> QED BY <2>2, ReqTyped DEF Known, TypeInv, RequestTypes, KeyOf
  <1>3. t # None
    BY TxnAssumption
  <1>4. /\ Elsewhere(k) /\ OnlyRowsOf(t)
        /\ pc[t] = "commit" => prep'[k] # t
        /\ pc[t] = "rollback" => (prep'[k] # t \/ (UNCHANGED rowVars /\ item[k] = NoItem))
    <2>1. CASE prep[k] # t /\ UNCHANGED rowVars
      BY <2>1, SameRows DEF rowVars, Elsewhere
    <2>2. CASE prep[k] = t /\ Elsewhere(k) /\ prep'[k] = None
      BY <1>3, <2>2, OneRow
    <2>3. CASE CommitWrite(t)
      <3>1. CASE prep[k] = t
        <4>1. Elsewhere(k) /\ prep'[k] = None
          BY <1>2, <2>3, <3>1, CommitRowEffect DEF CommitWrite, KeyOf, Known
        <4> QED BY <2>2, <3>1, <4>1
      <3>2. CASE prep[k] # t
        BY <2>1, <2>3, <3>2 DEF CommitWrite, KeyOf
      <3> QED BY <3>1, <3>2
    <2>4. CASE CommitDelete(t)
      <3>1. CASE prep[k] = t
        <4>1. Elsewhere(k) /\ prep'[k] = None
          BY <1>2, <2>4, <3>1, DeleteEffect DEF CommitDelete, KeyOf, Known
        <4> QED BY <2>2, <3>1, <4>1
      <3>2. CASE prep[k] # t
        BY <2>1, <2>4, <3>2 DEF CommitDelete, KeyOf
      <3> QED BY <3>1, <3>2
    <2>5. CASE CommitCheck(t)
      <3>1. CASE prep[k] = t
        <4>1. ctp[k]
          <5>1. ~failed[t] /\ req[t][p].kind \in {"check", "trim"} /\ image[t][p] = NoItem
            BY <1>1, <2>5 DEF CommitCheck, TxnInv, Decision
          <5> QED BY <1>1, <1>2, <3>1, <5>1 DEF MarkTxn, MarkAhead
        <4>2. Elsewhere(k) /\ prep'[k] = None
          BY <1>2, <2>5, <3>1, <4>1, DeleteEffect DEF CommitCheck, KeyOf, Known
        <4> QED BY <2>2, <3>1, <4>2
      <3>2. CASE prep[k] # t
        BY <2>1, <2>5, <3>2 DEF CommitCheck, KeyOf
      <3> QED BY <3>1, <3>2
    <2>6. CASE RollbackOp(t)
      <3>1. CASE item[k] = NoItem
        <4>1. UNCHANGED rowVars /\ pc[t] = "rollback"
          BY <2>6, <3>1 DEF RollbackOp, KeyOf
        <4>2. Elsewhere(k)
          BY <4>1 DEF Elsewhere, rowVars
        <4> QED BY <3>1, <4>1, <4>2, SameRows
      <3>2. CASE item[k] # NoItem
        <4>1. Unmark(t, k)
          BY <2>6, <3>2 DEF RollbackOp, KeyOf
        <4> QED BY <1>2, <4>1, UnmarkEffect DEF Known
      <3> QED BY <3>1, <3>2
    <2> QED BY <2>3, <2>4, <2>5, <2>6
  <1>5. /\ \A i \in DOMAIN req[t] : KeyOf(t, i) \in Keys /\ KeyOf(t, i)' = KeyOf(t, i)
        /\ \A i \in DOMAIN req[t] : KeyOf(t, i) = k => i = p
        /\ p \in Nat /\ \A i \in DOMAIN req[t] : i \in Nat
    <2>1. \A i \in DOMAIN req[t] : KeyOf(t, i)' = KeyOf(t, i)
      BY <1>0 DEF KeyOf
    <2> QED BY <1>2, <2>1, OpKeys DEF Known
  <1>6. \A u \in Txns \ {t} : MarkView(u)' = MarkView(u)
    BY <1>0, <1>1 DEF Stop, Advance, MarkView, Known, TypeInv, LedgerTypes
  <1>7. \A r \in Recoverers : rec'[r].txn # t
    BY <1>0, <1>1, NoPass DEF Known
  <1>8. \/ pc'[t] = "stopped" /\ pos'[t] = p
        \/ pc'[t] = pc[t] /\ pos'[t] = p + 1
    BY <1>1 DEF Stop, Advance, Known, TypeInv, LedgerTypes
  <1>9. Stage(t)' /\ SeenRight(t)' /\ Passes(t)'
    BY <1>0, <1>1, <1>7, <1>8 DEF MarkTxn, Stage, SeenRight, Passes, Running
  <1> HIDE DEF k, p
  <1>10. \A j \in Keys : prep'[j] = t => prep[j] = t /\ item'[j] = item[j] /\ ctp'[j] = ctp[j]
    BY <1>1, <1>2, <1>4 DEF Elsewhere, rowVars
  <1>11. MarkPlace(t)'
    BY <1>0, <1>1, <1>5, <1>10 DEF MarkTxn, MarkPlace
  <1>12. MarkAhead(t)'
    <2>1. ASSUME NEW i \in DOMAIN req[t], prep'[KeyOf(t, i)] = t
          PROVE  /\ pc'[t] = "commit" => i >= pos'[t]
                 /\ (pc'[t] = "rollback" /\ item'[KeyOf(t, i)] # NoItem) => i >= pos'[t]
                 /\ ledger[t] = "none" => item'[KeyOf(t, i)] = NoItem
                 /\ (~failed[t] /\ req[t][i].kind \in {"check", "trim"} /\ image[t][i] = NoItem)
                        => ctp'[KeyOf(t, i)]
      <3>1. KeyOf(t, i) \in Keys /\ i \in Nat /\ p \in Nat
        BY <1>5
      <3>2. prep[KeyOf(t, i)] = t /\ item'[KeyOf(t, i)] = item[KeyOf(t, i)]
            /\ ctp'[KeyOf(t, i)] = ctp[KeyOf(t, i)]
        BY <1>10, <2>1, <3>1
      <3>3. /\ pc[t] = "commit" => i >= p
            /\ (pc[t] = "rollback" /\ item[KeyOf(t, i)] # NoItem) => i >= p
            /\ ledger[t] # "none"
            /\ (~failed[t] /\ req[t][i].kind \in {"check", "trim"} /\ image[t][i] = NoItem)
                        => ctp[KeyOf(t, i)]
        BY <1>1, <3>2 DEF MarkTxn, MarkAhead, Stage, p
      <3>4. (pc[t] = "commit" \/ item[KeyOf(t, i)] # NoItem) => i # p
        <4>1. ASSUME i = p
              PROVE  KeyOf(t, i) = k
          BY <4>1 DEF k
        <4> QED BY <1>1, <1>4, <2>1, <4>1
      <3> QED BY <1>1, <1>8, <3>1, <3>2, <3>3, <3>4
    <2> QED BY <1>0, <1>5, <1>7, <2>1 DEF MarkAhead
  <1>13. MarkInv'
    BY <1>0, <1>4, <1>6, <1>9, <1>11, <1>12, MarkOwnStep DEF MarkTxn
  <1>14. LoopStep(t, p)
    BY <1>2, <1>4, <1>10 DEF LoopStep, k
  <1> QED BY <1>4, <1>13, <1>14 DEF k, p

-----------------------------------------------------------------------------
(* Recovery.                                                                *)

LEMMA StartRecoveryMarks ==
  ASSUME NEW r \in Recoverers, NEW t \in Txns, Known, ~EarlyRecovery, StartRecovery(r, t)
  PROVE  MarkInv'
  <1> DEFINE y == [txn |-> t, mode |-> RecoveryMode(t), pos |-> 1]
  <1>0. /\ rec' = [rec EXCEPT ![r] = y] /\ y.txn = t /\ y.mode = RecoveryMode(t) /\ y.pos = 1
        /\ UNCHANGED <<rowVars, pc, failed, ledger, answer, pos, req, image, todo, seen>>
        /\ ledger[t] # "none" /\ pc[t] = "stopped"
    BY DEF StartRecovery, ledgerVars, prepareVars
  <1> HIDE DEF y
  <1>1. \A v \in Recoverers : rec'[v] = IF v = r THEN y ELSE rec[v]
    BY <1>0 DEF Known, TypeInv, WorkerTypes
  <1>2. ASSUME NEW u \in Txns \ {t}
        PROVE  MarkTxn(u)'
    <2>1. \A v \in Recoverers : rec'[v].txn = u => rec'[v] = rec[v]
      BY <1>0, <1>1, <1>2
    <2>2. MarkView(u)' = MarkView(u)
      BY <1>0 DEF MarkView
    <2>3. MarkTxn(u) /\ TypeInv
      BY DEF Known, MarkInv
    <2> QED BY <1>0, <2>1, <2>2, <2>3, SameRows, MarkFrame
  <1>3. MarkTxn(t)'
    <2>0. MarkTxn(t)
      BY DEF Known, MarkInv
    <2>1. Stage(t)' /\ MarkPlace(t)'
      BY <1>0, <2>0 DEF MarkTxn, Stage, MarkPlace, KeyOf, rowVars
    <2>2. SeenRight(t)'
      BY <1>0 DEF SeenRight
    <2>3. Passes(t)'
      <3>1. \A v \in Recoverers : rec'[v].txn = t => rec'[v].mode = RecoveryMode(t)
        BY <1>0, <1>1, <2>0 DEF MarkTxn, Passes
      <3> QED BY <1>0, <3>1 DEF Passes, RecoveryMode
    <2>4. MarkAhead(t)'
      <3>1. ASSUME NEW i \in DOMAIN req[t], prep[KeyOf(t, i)] = t, NEW v \in Recoverers,
                   rec'[v].txn = t
            PROVE  i >= rec'[v].pos
        <4>1. i \in Nat \ {0}
          BY OpKeys DEF Known
        <4> QED BY <1>0, <1>1, <2>0, <3>1, <4>1 DEF MarkTxn, MarkAhead
      <3> QED BY <1>0, <2>0, <3>1 DEF MarkTxn, MarkAhead, KeyOf, rowVars
    <2> QED BY <2>1, <2>2, <2>3, <2>4 DEF MarkTxn
  <1> QED BY <1>2, <1>3 DEF MarkInv

(* One operation of a pass.                                                 *)
LEMMA RecoverMarks ==
  ASSUME NEW r \in Recoverers, Known,
         RecoverWrite(r) \/ RecoverDelete(r) \/ RecoverCheck(r) \/ RecoverRollback(r)
  PROVE  /\ MarkInv' /\ rec[r].txn \in Txns /\ LoopStep(rec[r].txn, rec[r].pos)
         /\ prep'[KeyOf(rec[r].txn, rec[r].pos)] # rec[r].txn
  <1> PICK t \in Txns : t = rec[r].txn
    BY DEF RecoverWrite, RecoverDelete, RecoverCheck, RecoverRollback, Known, TypeInv, WorkerTypes,
           RecState
  <1> DEFINE p == rec[r].pos
             k == KeyOf(t, p)
  <1>0. UNCHANGED <<pc, failed, ledger, answer, pos, req, image, todo, seen>> /\ RecAdvance(r)
    BY DEF RecoverWrite, RecoverDelete, RecoverCheck, RecoverRollback, ledgerVars, prepareVars
  <1>1. t \in Txns /\ t # None /\ p \in Nat \ {0} /\ ~RecDone(r)
    BY TxnAssumption DEF RecoverWrite, RecoverDelete, RecoverCheck, RecoverRollback, Known, TypeInv,
       WorkerTypes, RecState
  <1>2. p \in DOMAIN req[t] /\ k \in Keys /\ RecOp(r).key = k
    <2>1. p \in DOMAIN req[t]
      BY <1>1, ReqTyped DEF RecDone, Known, TypeInv, RequestTypes
    <2> QED BY <1>1, <2>1, OpKeys DEF Known, RecOp, KeyOf
  <1>3. MarkTxn(t) /\ TxnInv(t) /\ pc[t] = "stopped"
    BY <1>1 DEF Known, MarkInv, AnswerInv, MarkTxn, Passes
  <1>4. Elsewhere(k) /\ OnlyRowsOf(t) /\ prep'[k] # t
    <2>1. CASE prep[k] # t /\ UNCHANGED rowVars
      BY <2>1, SameRows DEF rowVars, Elsewhere
    <2>2. CASE prep[k] = t /\ Elsewhere(k) /\ prep'[k] = None
      BY <1>1, <2>2, OneRow
    <2>3. CASE RecoverWrite(r)
      <3>1. CASE prep[k] = t
        <4>1. Elsewhere(k) /\ prep'[k] = None
          BY <1>2, <2>3, <3>1, CommitRowEffect DEF RecoverWrite, Known
        <4> QED BY <2>2, <3>1, <4>1
      <3>2. CASE prep[k] # t
        BY <1>2, <2>1, <2>3, <3>2 DEF RecoverWrite
      <3> QED BY <3>1, <3>2
    <2>4. CASE RecoverDelete(r)
      <3>1. CASE prep[k] = t
        <4>1. Elsewhere(k) /\ prep'[k] = None
          BY <1>2, <2>4, <3>1, DeleteEffect DEF RecoverDelete, Known
        <4> QED BY <2>2, <3>1, <4>1
      <3>2. CASE prep[k] # t
        BY <1>2, <2>1, <2>4, <3>2 DEF RecoverDelete
      <3> QED BY <3>1, <3>2
    <2>5. CASE RecoverCheck(r)
      <3>1. CASE prep[k] = t
        <4>1. ctp[k]
          <5>1. ~failed[t]
            BY <1>3, <2>5 DEF RecoverCheck, TxnInv, UndecidedInert, Undecided
          <5>2. req[t][p].kind \in {"check", "trim"} /\ image[t][p] = NoItem
            BY <2>5 DEF RecoverCheck, RecOp
          <5> QED BY <1>2, <1>3, <3>1, <5>1, <5>2 DEF MarkTxn, MarkAhead
        <4>2. Elsewhere(k) /\ prep'[k] = None
          BY <1>2, <2>5, <3>1, <4>1, DeleteEffect DEF RecoverCheck, Known
        <4> QED BY <2>2, <3>1, <4>2
      <3>2. CASE prep[k] # t
        BY <1>2, <2>1, <2>5, <3>2 DEF RecoverCheck
      <3> QED BY <3>1, <3>2
    <2>6. CASE RecoverRollback(r)
      <3>1. Unmark(t, k)
        BY <1>2, <2>6 DEF RecoverRollback
      <3> QED BY <1>1, <1>2, <3>1, UnmarkEffect DEF Known
    <2> QED BY <2>3, <2>4, <2>5, <2>6
  <1>5. \A v \in Recoverers : /\ rec'[v].txn = rec[v].txn /\ rec'[v].mode = rec[v].mode
                              /\ rec'[v].pos = IF v = r THEN p + 1 ELSE rec[v].pos
                              /\ v # r => rec'[v] = rec[v]
    <2> DEFINE y == [rec[r] EXCEPT !.pos = p + 1]
    <2>1. rec[r] \in RecState /\ rec \in [Recoverers -> RecState]
      BY DEF Known, TypeInv, WorkerTypes
    <2>2. y.txn = t /\ y.mode = rec[r].mode /\ y.pos = p + 1
      BY <2>1 DEF RecState
    <2>3. rec' = [rec EXCEPT ![r] = y]
      BY <1>0 DEF RecAdvance
    <2> HIDE DEF y
    <2> QED BY <2>1, <2>2, <2>3
  <1> HIDE DEF k, p
  <1>6. ASSUME NEW u \in Txns \ {t}
        PROVE  MarkTxn(u)'
    <2>1. \A v \in Recoverers : rec'[v].txn = u => rec'[v] = rec[v]
      BY <1>5, <1>6
    <2>2. MarkView(u)' = MarkView(u)
      BY <1>0 DEF MarkView
    <2>3. MarkTxn(u) /\ TypeInv
      BY DEF Known, MarkInv
    <2> QED BY <1>4, <2>1, <2>2, <2>3, MarkFrame
  <1>7. MarkTxn(t)'
    <2>1. \A j \in Keys : prep'[j] = t => prep[j] = t /\ item'[j] = item[j] /\ ctp'[j] = ctp[j]
      BY <1>2, <1>4 DEF Elsewhere
    <2>2. /\ \A i \in DOMAIN req[t] : KeyOf(t, i) \in Keys /\ i \in Nat
          /\ \A i : KeyOf(t, i)' = KeyOf(t, i)
      BY <1>0, <1>1, OpKeys DEF Known, KeyOf
    <2>3. Stage(t)' /\ SeenRight(t)'
      BY <1>0, <1>3 DEF MarkTxn, Stage, SeenRight
    <2>4. Passes(t)'
      BY <1>0, <1>3, <1>5 DEF MarkTxn, Passes, RecoveryMode
    <2>5. MarkPlace(t)'
      BY <1>0, <1>3, <2>1, <2>2 DEF MarkTxn, MarkPlace
    <2>6. ASSUME NEW i \in DOMAIN req[t], prep'[KeyOf(t, i)] = t
          PROVE  /\ ledger[t] = "none" => item'[KeyOf(t, i)] = NoItem
                 /\ \A v \in Recoverers : rec'[v].txn = t => i >= rec'[v].pos
                 /\ (~failed[t] /\ req[t][i].kind \in {"check", "trim"} /\ image[t][i] = NoItem)
                        => ctp'[KeyOf(t, i)]
      <3>1. KeyOf(t, i) \in Keys /\ i \in Nat /\ p \in Nat
        BY <1>1, <2>2
      <3>2. prep[KeyOf(t, i)] = t /\ item'[KeyOf(t, i)] = item[KeyOf(t, i)]
            /\ ctp'[KeyOf(t, i)] = ctp[KeyOf(t, i)]
        BY <2>1, <2>6, <3>1
      <3>3. i # p
        BY <1>4, <2>6 DEF k
      <3>4. \A v \in Recoverers : rec[v].txn = t => i >= rec[v].pos
        BY <1>3, <3>2 DEF MarkTxn, MarkAhead
      <3>5. i >= p
        BY <3>4 DEF p
      <3>6. \A v \in Recoverers : rec'[v].txn = t => i >= rec'[v].pos
        BY <1>5, <3>1, <3>3, <3>4, <3>5
      <3> QED BY <1>3, <3>2, <3>6 DEF MarkTxn, MarkAhead
    <2>7. MarkAhead(t)'
      BY <1>0, <1>3, <2>2, <2>6 DEF MarkAhead
    <2> QED BY <2>3, <2>4, <2>5, <2>7 DEF MarkTxn
  <1>8. LoopStep(t, p)
    BY <1>2, <1>4 DEF LoopStep, k
  <1> QED BY <1>1, <1>4, <1>6, <1>7, <1>8 DEF MarkInv, k, p

(* A pass ends.                                                             *)
LEMMA PassEndMarks ==
  ASSUME NEW r \in Recoverers, Known, RecoverDone(r) \/ RecoverFails(r)
  PROVE  MarkInv'
  <1> PICK t \in Txns : t = rec[r].txn
    BY DEF RecoverDone, RecoverFails, Known, TypeInv, WorkerTypes, RecState
  <1>0. /\ rec' = [rec EXCEPT ![r] = IdleRec]
        /\ UNCHANGED <<rowVars, pc, failed, answer, pos, req, image, todo, seen>>
        /\ ledger' = ledger \/ (RecDone(r) /\ ledger' = [ledger EXCEPT ![t] = "none"])
    BY DEF RecoverDone, RecoverFails, DeleteLedger, ledgerVars, prepareVars
  <1>1. t \in Txns
    OBVIOUS
  <1>2. \A u \in Txns, v \in Recoverers : rec'[v].txn = u => rec'[v] = rec[v]
    BY <1>0, TxnAssumption DEF Known, TypeInv, WorkerTypes, IdleRec
  <1>3. ASSUME NEW u \in Txns, ledger'[u] = ledger[u]
        PROVE  MarkTxn(u)'
    <2>1. MarkView(u)' = MarkView(u) /\ MarkTxn(u) /\ TypeInv /\ u # None
      BY <1>0, <1>3, TxnAssumption DEF MarkView, Known, MarkInv
    <2> QED BY <1>0, <1>2, <2>1, SameRows, MarkFrame
  <1>4. \A u \in Txns \ {t} : ledger'[u] = ledger[u]
    BY <1>0 DEF Known, TypeInv, LedgerTypes
  <1>5. ASSUME ledger'[t] # ledger[t]
        PROVE  MarkTxn(t)'
    <2>0. MarkTxn(t) /\ pc[t] = "stopped" /\ RecDone(r) /\ ledger'[t] = "none"
      BY <1>0, <1>1, <1>5 DEF Known, MarkInv, MarkTxn, Passes, TypeInv, LedgerTypes
    <2>1. Stage(t)' /\ SeenRight(t)' /\ MarkPlace(t)'
      BY <1>0, <2>0 DEF MarkTxn, Stage, SeenRight, MarkPlace, KeyOf, rowVars
    <2>2. Passes(t)'
      <3>1. \A v \in Recoverers : rec'[v].txn = t => rec'[v] = rec[v]
        BY <1>1, <1>2
      <3> QED BY <1>0, <2>0, <3>1 DEF MarkTxn, Passes
    <2>3. ASSUME NEW i \in DOMAIN req[t], prep[KeyOf(t, i)] = t
          PROVE  FALSE
      <3>1. i >= rec[r].pos
        BY <2>0, <2>3 DEF MarkTxn, MarkAhead
      <3>2. i \in Nat /\ i <= Len(req[t]) /\ Len(req[t]) \in Nat
        BY <1>1, <2>3, OpKeys DEF Known
      <3>3. rec[r].pos > Len(req[t]) /\ rec[r].pos \in Nat
        BY <2>0 DEF RecDone, Known, TypeInv, WorkerTypes, RecState
      <3> QED BY <3>1, <3>2, <3>3
    <2>4. MarkAhead(t)'
      BY <1>0, <2>3 DEF MarkAhead, KeyOf, rowVars
    <2> QED BY <2>1, <2>2, <2>4 DEF MarkTxn
  <1> QED BY <1>1, <1>3, <1>4, <1>5 DEF MarkInv

(* Single-item writes touch no row that is held.                            *)
LEMMA SingleRows ==
  ASSUME NEW s \in Singles, Known, (\E o \in SingleOps : SingleRead(s, o)) \/ SingleStep(s)
  PROVE  OnlyRowsOf(None)
  <1>1. CASE SingleWrite(s)
    <2> DEFINE k == single[s].op.key
    <2>1. prep[k] = None
      BY <1>1 DEF SingleWrite, Fence
    <2>2. CASE DeleteRow(k)
      BY <2>1, <2>2 DEF DeleteRow, OnlyRowsOf, Known, TypeInv, RowTypes
    <2>3. ASSUME NEW x, item' = [item EXCEPT ![k] = x], UNCHANGED <<prep, ctp>>
          PROVE  OnlyRowsOf(None)
      <3> HIDE DEF k
      <3> QED BY <2>1, <2>3 DEF OnlyRowsOf, Known, TypeInv, RowTypes
    <2> QED BY <1>1, <2>2, <2>3 DEF SingleWrite
  <1>2. CASE UNCHANGED rowVars
    BY <1>2, SameRows
  <1> QED BY <1>1, <1>2 DEF SingleRead, SingleStep, SingleRetry

LEMMA SingleMarks ==
  ASSUME NEW s \in Singles, Known, (\E o \in SingleOps : SingleRead(s, o)) \/ SingleStep(s)
  PROVE  MarkInv'
  <1>1. UNCHANGED <<pc, failed, ledger, answer, pos, req, image, todo, seen, rec>>
    BY DEF SingleRead, SingleStep, SingleWrite, SingleRetry, ledgerVars, prepareVars, recVars
  <1>2. OnlyRowsOf(None)
    BY SingleRows
  <1>3. ASSUME NEW u \in Txns
        PROVE  MarkTxn(u)'
    <2>1. MarkView(u)' = MarkView(u) /\ MarkTxn(u) /\ TypeInv /\ u # None
      BY <1>1, TxnAssumption DEF MarkView, Known, MarkInv
    <2> QED BY <1>1, <1>2, <2>1, MarkFrame
  <1> QED BY <1>3 DEF MarkInv

LEMMA MarkInvInit == Init => MarkInv
  <1> SUFFICES ASSUME Init, NEW t \in Txns
               PROVE  MarkTxn(t)
    BY DEF MarkInv
  <1>1. Stage(t) /\ SeenRight(t)
    BY DEF Init, Stage, SeenRight, Running
  <1>2. Passes(t)
    BY TxnAssumption DEF Init, Passes, IdleRec
  <1>3. MarkPlace(t) /\ MarkAhead(t)
    BY TxnAssumption DEF Init, MarkPlace, MarkAhead
  <1> QED BY <1>1, <1>2, <1>3 DEF MarkTxn

LEMMA MarkInvNext ==
  ASSUME ~EarlyRecovery, Known, [Next]_vars
  PROVE  MarkInv'
  <1>1. ASSUME NEW t \in Txns, NEW q \in Requests, Begin(t, q)
        PROVE  MarkInv'
    BY <1>1, BeginMarks
  <1>2. ASSUME NEW t \in Txns, CoordinatorStep(t) \/ Abandon(t)
        PROVE  MarkInv'
    BY <1>2, PrepareMarks, PhaseMarks, LoopMarks DEF CoordinatorStep
  <1>3. ASSUME NEW r \in Recoverers, RecoveryStep(r) \/ RecoverFails(r)
        PROVE  MarkInv'
    BY <1>3, StartRecoveryMarks, RecoverMarks, PassEndMarks DEF RecoveryStep
  <1>4. ASSUME NEW s \in Singles, (\E o \in SingleOps : SingleRead(s, o)) \/ SingleStep(s)
        PROVE  MarkInv'
    BY <1>4, SingleMarks
  <1>5. CASE UNCHANGED vars
    <2>1. ASSUME NEW u \in Txns
          PROVE  MarkTxn(u)'
      <3>1. MarkView(u)' = MarkView(u) /\ MarkTxn(u) /\ TypeInv /\ u # None /\ rec' = rec
        BY <1>5, TxnAssumption DEF MarkView, Known, MarkInv, vars
      <3>2. OnlyRowsOf(None)
        BY <1>5, SameRows DEF vars, rowVars
      <3> QED BY <3>1, <3>2, MarkFrame
    <2> QED BY <2>1 DEF MarkInv
  <1> QED BY <1>1, <1>2, <1>3, <1>4, <1>5 DEF Next

LEMMA KnownInit == Init => Known
  BY TypeInvInit, RowInvInit, AnswerInvInit, MarkInvInit DEF Known

LEMMA KnownNext ==
  ASSUME ~EarlyRecovery, Known, [Next]_vars
  PROVE  Known'
  BY TypeInvNext, RowInvNext, AnswerInvNext, MarkInvNext DEF Known

(* A marked item is never orphaned: as long as recovery takes no running    *)
(* transaction for a dead one, the ledger entry outlives every marker on a  *)
(* row that holds an item, through crashes, lost answers, failed passes and *)
(* passes of several servers over the same transaction                      *)
(* (rollback_single_operation, commit_condition_check, recover_transaction, *)
(* delete_ledger_entry).                                                    *)
THEOREM TxnItemMarkerInLedger ==
  ASSUME ~EarlyRecovery
  PROVE  Spec => []ItemMarkerInLedger
  <1>1. Known => ItemMarkerInLedger
    <2> SUFFICES ASSUME Known, NEW k \in Keys, prep[k] # None, item[k] # NoItem
                 PROVE  ledger[prep[k]] # "none"
      BY DEF ItemMarkerInLedger
    <2>1. PICK t \in Txns : prep[k] = t
      BY DEF Known, TypeInv, RowTypes
    <2>2. MarkTxn(t)
      BY DEF Known, MarkInv
    <2>3. PICK i \in (DOMAIN req[t]) \ todo[t] : KeyOf(t, i) = k
      BY <2>1, <2>2 DEF MarkTxn, MarkPlace
    <2> QED BY <2>1, <2>2, <2>3 DEF MarkTxn, MarkAhead
  <1>2. Known /\ [Next]_vars => Known'
    BY KnownNext
  <1> QED BY <1>1, <1>2, KnownInit, PTL DEF Spec

-----------------------------------------------------------------------------
(* AllOrNothing.                                                            *)

(* No request has a Delete that may go on without a marker.                 *)
PlainRequests == \A q \in Requests : \A i \in DOMAIN q : Plain(q[i])

(* Until the transaction is over it holds the row of every operation that   *)
(* is to take effect and has not.                                           *)
Held(t) ==
    (~failed[t] /\ (pc[t] \in Preparing \cup {"commit"} \/ ledger[t] = "committing")) =>
        \A i \in Effects(t) \ todo[t] : i \in applied[t] \/ prep[KeyOf(t, i)] = t

(* An operation that took effect has given its row up.                      *)
Once(t) == \A i \in applied[t] : prep[KeyOf(t, i)] # t

(* A commit-mode pass leaves no effect behind it that has not been applied, *)
(* and where the ledger says that a transaction was not decided, or says    *)
(* nothing, nothing or everything has been.                                 *)
Finished(t) ==
    /\ ledger[t] \in {"preparing", "cancelling"} => applied[t] = {}
    /\ \A r \in Recoverers : (rec[r].txn = t /\ rec[r].mode = "commit") =>
           /\ \A i \in Effects(t) : i < rec[r].pos => i \in applied[t]
           /\ ledger[t] = "none" => applied[t] = Effects(t)
    /\ \A r \in Recoverers : (rec[r].txn = t /\ rec[r].mode = "rollback") => applied[t] = {}
    /\ (pc[t] \in {"stopped", "done"} /\ ledger[t] = "none") => applied[t] \in {{}, Effects(t)}

EffectTxn(t) == Held(t) /\ Once(t) /\ Finished(t)
EffectInv == \A t \in Txns : EffectTxn(t)

EffectView(t) == <<MarkView(t), applied[t]>>

LEMMA EffectFrame ==
  ASSUME NEW u \in Txns, NEW t, u # t, TypeInv, EffectTxn(u), OnlyRowsOf(t),
         EffectView(u)' = EffectView(u),
         \A r \in Recoverers : rec'[r].txn = u => rec'[r] = rec[r]
  PROVE  EffectTxn(u)'
  <1>0. u # None
    BY TxnAssumption
  <1>1. /\ pc'[u] = pc[u] /\ failed'[u] = failed[u] /\ ledger'[u] = ledger[u]
        /\ req'[u] = req[u] /\ image'[u] = image[u] /\ todo'[u] = todo[u]
        /\ applied'[u] = applied[u]
    BY DEF MarkView, EffectView
  <1>2. /\ \A i \in DOMAIN req[u] : KeyOf(u, i) \in Keys /\ KeyOf(u, i)' = KeyOf(u, i)
        /\ Effects(u)' = Effects(u) /\ Effects(u) \subseteq DOMAIN req[u]
        /\ applied[u] \subseteq DOMAIN req[u]
    BY <1>1, OpKeys DEF KeyOf, Effects, TypeInv, RequestTypes
  <1>3. \A k \in Keys : prep'[k] = u <=> prep[k] = u
    BY <1>0 DEF OnlyRowsOf
  <1>4. Held(u)'
    BY <1>1, <1>2, <1>3 DEF EffectTxn, Held
  <1>5. Once(u)'
    BY <1>1, <1>2, <1>3 DEF EffectTxn, Once
  <1>6. Finished(u)'
    BY <1>1, <1>2 DEF EffectTxn, Finished
  <1> QED BY <1>4, <1>5, <1>6 DEF EffectTxn

LEMMA EffectOwnStep ==
  ASSUME NEW t \in Txns, TypeInv, EffectInv, rec' = rec, OnlyRowsOf(t), EffectTxn(t)',
         \A u \in Txns \ {t} : EffectView(u)' = EffectView(u)
  PROVE  EffectInv'
  <1>1. ASSUME NEW u \in Txns \ {t}
        PROVE  EffectTxn(u)'
    BY <1>1, EffectFrame DEF EffectInv
  <1> QED BY <1>1 DEF EffectInv

LEMMA BeginEffects ==
  ASSUME NEW t \in Txns, NEW q \in Requests, Known, EffectInv, Begin(t, q)
  PROVE  EffectInv'
  <1>0. pc[t] = "idle" /\ UNCHANGED <<rowVars, failed, seen, pos, answer, rec, applied>>
    BY DEF Begin, recVars, historyVars
  <1>1. applied[t] = {}
    BY <1>0 DEF Known, AnswerInv, TxnInv, UndecidedInert, Undecided, Preparing
  <1>2. /\ pc'[t] = "prepare" /\ ledger'[t] = "preparing" /\ todo'[t] = DOMAIN req'[t]
        /\ \A u \in Txns \ {t} : EffectView(u)' = EffectView(u)
    BY <1>0 DEF Begin, EffectView, MarkView, Known, TypeInv, LedgerTypes, RequestTypes
  <1>3. Held(t)'
    BY <1>2 DEF Held, Effects
  <1>4. Once(t)'
    BY <1>0, <1>1 DEF Once
  <1>5. Finished(t)'
    BY <1>0, <1>1, <1>2, NoPass DEF Finished, Known
  <1> QED BY <1>0, <1>2, <1>3, <1>4, <1>5, SameRows, EffectOwnStep DEF EffectTxn, Known

LEMMA PrepareEffectsHeld ==
  ASSUME NEW t \in Txns, PlainRequests, Known, EffectInv,
         \/ PrepareRead(t) \/ PrepareFails(t) \/ PrepareFloor(t)
         \/ PrepareMark(t) \/ PrepareLost(t) \/ PrepareWait(t)
  PROVE  EffectInv'
  <1> DEFINE c == Cur(t)
             o == CurOp(t)
  <1>0. /\ pc[t] \in {"prepare", "floor", "mark", "wait"} /\ todo[t] # {}
        /\ pc'[t] \in {"prepare", "floor", "mark", "wait"}
        /\ ledger'[t] = "preparing" /\ UNCHANGED <<rec, req>>
        /\ \A u \in Txns \ {t} : MarkView(u)' = MarkView(u)
    BY PrepareOwn
  <1>1. \/ FailOp(t) \/ (\E x \in Items : FinishOp(t, x))
        \/ \E target \in {"floor", "mark", "wait"} : EnterOp(t, target)
    BY PrepareOwn
  <1>2. UNCHANGED applied /\ applied[t] = {}
    BY <1>0 DEF PrepareRead, PrepareFails, PrepareFloor, PrepareMark, PrepareLost, PrepareWait,
           historyVars, Known, AnswerInv, TxnInv, UndecidedInert, Undecided, Preparing
  <1>3. c \in todo[t] /\ c \in DOMAIN req[t] /\ o.key \in Keys /\ KeyOf(t, c) = o.key /\ o = req[t][c]
    BY <1>0, CurInTodo DEF Known, TypeInv, KeyOf, CurOp
  <1>4. Plain(o)
    <2>1. req[t] \in Requests \/ req[t] = <<>>
      BY DEF Known, TypeInv, RequestTypes
    <2>2. req[t] \in Requests
      BY <1>3, <2>1
    <2> QED BY <1>3, <2>2 DEF PlainRequests
  <1>5. OnlyRowsOf(t) /\ Elsewhere(o.key)
    <2>1. CASE PrepareMark(t)
      BY <1>3, <2>1, MarkEffect DEF PrepareMark, Known
    <2>2. CASE UNCHANGED rowVars
      BY <2>2, SameRows DEF Elsewhere, rowVars
    <2> QED BY <2>1, <2>2 DEF PrepareRead, PrepareFails, PrepareFloor, PrepareLost, PrepareWait
  <1>6. /\ \A i \in todo[t] : i # c => i \in todo'[t]
        /\ \A i \in DOMAIN req[t] : i # c => image'[t][i] = image[t][i]
        /\ failed[t] => failed'[t]
    <2>1. CASE FailOp(t) \/ \E target \in {"floor", "mark", "wait"} : EnterOp(t, target)
      BY <2>1 DEF FailOp, EnterOp, Known, TypeInv, RequestTypes, LedgerTypes
    <2>2. CASE \E x \in Items : FinishOp(t, x)
      BY <1>3, <2>2 DEF FinishOp, Known, TypeInv, RequestTypes, LedgerTypes
    <2> QED BY <1>1, <2>1, <2>2
  <1>7. ASSUME ~failed'[t], c \in Effects(t)', c \notin todo'[t]
        PROVE  prep'[KeyOf(t, c)] = t
    <2>1. \E x \in Items : FinishOp(t, x)
      BY <1>1, <1>3, <1>7 DEF FailOp, EnterOp, Known, TypeInv, LedgerTypes
    <2>2. ~FailOp(t) /\ ~\E target \in {"floor", "mark", "wait"} : EnterOp(t, target)
      BY <1>3, <1>7 DEF FailOp, EnterOp, Known, TypeInv, LedgerTypes
    <2>3. \A x \in Items : FinishOp(t, x) => image'[t][c] = PostImage(o, x, t)
      BY <1>3 DEF FinishOp, Known, TypeInv, RequestTypes
    <2>4. o.kind # "check"
      BY <1>0, <1>3, <1>7, <2>1, <2>3 DEF Effects, PostImage
    <2>5. ~PrepareRead(t)
      BY <2>2, <2>4 DEF PrepareRead, TakesMarker
    <2>6. ~PrepareWait(t)
      <3>1. o.kind = "delete" => pc[t] # "wait"
        BY <1>4 DEF Known, MarkInv, MarkTxn, SeenRight
      <3> QED BY <2>2, <2>4, <3>1 DEF PrepareWait
    <2>7. PrepareMark(t)
      BY <2>2, <2>5, <2>6 DEF PrepareFails, PrepareFloor, PrepareLost
    <2> QED BY <1>3, <2>7, MarkEffect DEF PrepareMark, Known
  <1> HIDE DEF c, o
  <1>8. Held(t)'
    <2>1. ASSUME NEW i \in Effects(t)', i \notin todo'[t], ~failed'[t]
          PROVE  prep'[KeyOf(t, i)'] = t
      <3>1. i \in DOMAIN req[t] /\ KeyOf(t, i)' = KeyOf(t, i)
        BY <1>0, <2>1 DEF Effects, KeyOf
      <3>2. CASE i = c
        BY <1>7, <2>1, <3>1, <3>2
      <3>3. CASE i # c
        <4>1. i \in Effects(t) \ todo[t] /\ ~failed[t]
          BY <1>0, <1>6, <2>1, <3>1, <3>3 DEF Effects
        <4>2. prep[KeyOf(t, i)] = t
          BY <1>0, <1>2, <4>1 DEF EffectInv, EffectTxn, Held, Preparing
        <4>3. KeyOf(t, i) \in Keys \ {o.key}
          BY <1>3, <3>1, <3>3, OpKeys DEF Known
        <4> QED BY <1>5, <3>1, <4>2, <4>3 DEF Elsewhere
      <3> QED BY <3>2, <3>3
    <2> QED BY <2>1 DEF Held
  <1>9. Once(t)' /\ Finished(t)'
    BY <1>0, <1>2, NoPass DEF Once, Finished, Known
  <1>10. \A u \in Txns \ {t} : EffectView(u)' = EffectView(u)
    BY <1>0, <1>2 DEF EffectView
  <1> QED BY <1>0, <1>5, <1>8, <1>9, <1>10, EffectOwnStep DEF EffectTxn, Known

LEMMA PhaseEffectsHeld ==
  ASSUME NEW t \in Txns, Known, AnswerInv', EffectInv,
         \/ SaveImages(t) \/ StartCommit(t) \/ CommitDone(t) \/ StartRollback(t)
         \/ RollbackDone(t) \/ Abandon(t)
  PROVE  EffectInv'
  <1>0. UNCHANGED <<rowVars, req, todo, failed, seen, image, pos, rec, applied>>
    BY DEF SaveImages, StartCommit, CommitDone, StartRollback, RollbackDone, Abandon, prepareVars,
           recVars, historyVars
  <1>1. pc[t] \in Running /\ MarkTxn(t) /\ TxnInv(t) /\ EffectTxn(t) /\ TxnInv(t)'
    BY DEF SaveImages, StartCommit, CommitDone, StartRollback, RollbackDone, Abandon, Running,
           Known, MarkInv, AnswerInv, EffectInv
  <1>2. \A u \in Txns \ {t} : EffectView(u)' = EffectView(u)
    <2>1. \A u \in Txns \ {t} : pc'[u] = pc[u] /\ ledger'[u] = ledger[u] /\ answer'[u] = answer[u]
      BY DEF SaveImages, StartCommit, CommitDone, StartRollback, RollbackDone, Abandon, SetLedger,
             DeleteLedger, ledgerVars, Known, TypeInv, LedgerTypes
    <2> QED BY <1>0, <2>1 DEF EffectView, MarkView
  <1>3. \A r \in Recoverers : rec'[r].txn # t
    BY <1>0, <1>1, NoPass DEF Known, Running
  <1>4. Effects(t)' = Effects(t) /\ \A i : KeyOf(t, i)' = KeyOf(t, i)
    BY <1>0 DEF Effects, KeyOf
  <1>5. /\ pc'[t] \in Preparing \cup {"commit"} => pc[t] \in Preparing
        /\ ledger'[t] = "committing" => ledger[t] = "committing" \/ pc[t] = "saved"
    BY DEF SaveImages, StartCommit, CommitDone, StartRollback, RollbackDone, Abandon, SetLedger,
           DeleteLedger, ledgerVars, Known, TypeInv, LedgerTypes, Preparing
  <1>6. Held(t)'
    BY <1>0, <1>1, <1>4, <1>5 DEF EffectTxn, Held, rowVars, Preparing
  <1>7. Once(t)'
    BY <1>0, <1>1, <1>4 DEF EffectTxn, Once, rowVars
  <1>8. Finished(t)'
    <2>1. CASE CommitDone(t)
      <3>1. answer'[t] = "committed" /\ ledger'[t] = "none"
        BY <2>1 DEF CommitDone, DeleteLedger, Known, TypeInv, LedgerTypes
      <3>2. applied'[t] = Effects(t)'
        BY <1>1, <3>1 DEF TxnInv, CommitProgress
      <3> QED BY <1>3, <3>1, <3>2 DEF Finished
    <2>2. CASE RollbackDone(t) \/ StartRollback(t)
      <3>1. failed[t]
        BY <1>1, <2>2 DEF RollbackDone, StartRollback, TxnInv, Decision
      <3>2. applied[t] = {}
        BY <1>1, <3>1 DEF TxnInv, UndecidedInert, Undecided
      <3> QED BY <1>0, <1>3, <3>2 DEF Finished
    <2>3. CASE SaveImages(t) \/ StartCommit(t) \/ Abandon(t)
      <3>1. ledger'[t] = ledger[t] \/ ledger'[t] = "committing"
        BY <2>3 DEF SaveImages, StartCommit, Abandon, SetLedger, ledgerVars, Known, TypeInv, LedgerTypes
      <3>2. ledger[t] # "none"
        BY <1>1 DEF MarkTxn, Stage, Running
      <3> QED BY <1>0, <1>1, <1>3, <3>1, <3>2 DEF EffectTxn, Finished
    <2> QED BY <2>1, <2>2, <2>3
  <1> QED BY <1>0, <1>2, <1>6, <1>7, <1>8, SameRows, EffectOwnStep DEF EffectTxn, Known

(* The loops clear only the row of the operation at hand.                   *)
LEMMA LoopStepMarks ==
  ASSUME NEW t \in Txns, NEW p, TypeInv, LoopStep(t, p), UNCHANGED req
  PROVE  /\ \A i \in DOMAIN req[t] : prep'[KeyOf(t, i)] = t => prep[KeyOf(t, i)] = t
         /\ \A i \in DOMAIN req[t] : i # p => (prep'[KeyOf(t, i)] = t <=> prep[KeyOf(t, i)] = t)
         /\ \A i : KeyOf(t, i)' = KeyOf(t, i)
  <1>1. p \in DOMAIN req[t] /\ \A i \in DOMAIN req[t] : KeyOf(t, i) \in Keys
    BY OpKeys DEF LoopStep
  <1>2. \A i \in DOMAIN req[t] : i # p => KeyOf(t, i) # KeyOf(t, p)
    BY <1>1, OpKeys
  <1>3. \A i : KeyOf(t, i)' = KeyOf(t, i)
    BY DEF KeyOf
  <1> QED BY <1>1, <1>2, <1>3 DEF LoopStep, Elsewhere

LEMMA LoopEffectsHeld ==
  ASSUME NEW t \in Txns, Known, EffectInv,
         CommitWrite(t) \/ CommitDelete(t) \/ CommitCheck(t) \/ RollbackOp(t)
  PROVE  EffectInv'
  <1> DEFINE p == pos[t]
  <1>0. /\ UNCHANGED <<ledger, answer, req, todo, failed, seen, image, rec>>
        /\ Stop(t) \/ Advance(t)
    BY DEF CommitWrite, CommitDelete, CommitCheck, RollbackOp, prepareVars, recVars, ledgerVars
  <1>1. pc[t] \in {"commit", "rollback"} /\ MarkTxn(t) /\ TxnInv(t) /\ EffectTxn(t) /\ TypeInv
    BY DEF CommitWrite, CommitDelete, CommitCheck, RollbackOp, Known, MarkInv, AnswerInv, EffectInv
  <1>2. /\ LoopStep(t, p) /\ p \in DOMAIN req[t] /\ OnlyRowsOf(t)
        /\ pc[t] = "commit" => prep'[KeyOf(t, p)] # t
    BY LoopMarks DEF LoopStep
  <1>3. /\ \A i \in DOMAIN req[t] : prep'[KeyOf(t, i)] = t => prep[KeyOf(t, i)] = t
        /\ \A i \in DOMAIN req[t] : i # p => (prep'[KeyOf(t, i)] = t <=> prep[KeyOf(t, i)] = t)
        /\ \A i : KeyOf(t, i)' = KeyOf(t, i)
    BY <1>0, <1>1, <1>2, LoopStepMarks
  <1>4. Effects(t)' = Effects(t) /\ Effects(t) \subseteq DOMAIN req[t] /\ applied[t] \subseteq DOMAIN req[t]
    BY <1>0, <1>1 DEF Effects, TypeInv, RequestTypes
  <1>5. \A r \in Recoverers : rec'[r].txn # t
    BY <1>0, <1>1, NoPass DEF Known
  <1>6. CASE pc[t] = "rollback"
    <2>1. failed[t] /\ applied[t] = {} /\ UNCHANGED applied /\ pc'[t] = "rollback"
      BY <1>1, <1>6 DEF TxnInv, Decision, UndecidedInert, Undecided, RollbackOp, CommitWrite,
         CommitDelete, CommitCheck, historyVars, Advance
    <2>2. EffectTxn(t)'
      BY <1>0, <1>5, <2>1 DEF EffectTxn, Held, Once, Finished
    <2>3. \A u \in Txns \ {t} : EffectView(u)' = EffectView(u)
      BY <1>0, <2>1 DEF Stop, Advance, EffectView, MarkView, TypeInv, Known, LedgerTypes
    <2> QED BY <1>0, <1>1, <1>2, <2>2, <2>3, EffectOwnStep
  <1>7. CASE pc[t] = "commit"
    <2>0. CommitEffect(t) /\ ledger[t] = "committing" /\ ~failed[t]
      BY <1>1, <1>7, CommitEffects DEF RollbackOp, Known, MarkTxn, Stage, TxnInv, Decision
    <2>1. applied[t] \subseteq applied'[t] /\ applied'[t] \subseteq applied[t] \cup {p}
      BY <2>0 DEF CommitEffect, Known, TypeInv, RequestTypes
    <2>2. p \in Effects(t) => p \in applied'[t] \/ UNCHANGED rowVars
      <3>1. CASE CommitWrite(t)
        BY <3>1 DEF CommitWrite, TakeEffect, Known, TypeInv, RequestTypes
      <3>2. CASE CommitDelete(t)
        BY <3>2 DEF CommitDelete, TakeEffect, Known, TypeInv, RequestTypes
      <3>3. CASE CommitCheck(t)
        BY <3>3 DEF CommitCheck, Effects
      <3> QED BY <1>7, <3>1, <3>2, <3>3 DEF RollbackOp
    <2>3. Held(t)'
      <3>1. ASSUME NEW i \in Effects(t) \ todo[t]
            PROVE  i \in applied'[t] \/ prep'[KeyOf(t, i)] = t
        <4>1. i \in applied[t] \/ prep[KeyOf(t, i)] = t
          BY <1>1, <1>7, <2>0, <3>1 DEF EffectTxn, Held
        <4> QED BY <1>3, <1>4, <2>1, <2>2, <3>1, <4>1 DEF rowVars
      <3> QED BY <1>0, <1>3, <1>4, <3>1 DEF Held
    <2>4. Once(t)'
      BY <1>1, <1>2, <1>3, <1>4, <1>7, <2>1 DEF EffectTxn, Once
    <2>5. Finished(t)'
      BY <1>0, <1>5, <2>0 DEF Finished
    <2>6. \A u \in Txns \ {t} : EffectView(u)' = EffectView(u)
      BY <1>0, <2>0 DEF Stop, Advance, EffectView, MarkView, CommitEffect, TypeInv, Known, LedgerTypes,
         RequestTypes
    <2> QED BY <1>0, <1>1, <1>2, <2>3, <2>4, <2>5, <2>6, EffectOwnStep DEF EffectTxn
  <1> QED BY <1>1, <1>6, <1>7

-----------------------------------------------------------------------------
LEMMA StartRecoveryEffects ==
  ASSUME NEW r \in Recoverers, NEW t \in Txns, Known, EffectInv, StartRecovery(r, t)
  PROVE  EffectInv'
  <1> DEFINE y == [txn |-> t, mode |-> RecoveryMode(t), pos |-> 1]
  <1>0. /\ rec' = [rec EXCEPT ![r] = y] /\ y.txn = t /\ y.mode = RecoveryMode(t) /\ y.pos = 1
        /\ UNCHANGED <<rowVars, pc, failed, ledger, answer, pos, req, image, todo, seen, applied>>
        /\ ledger[t] # "none"
    BY DEF StartRecovery, ledgerVars, prepareVars, historyVars
  <1> HIDE DEF y
  <1>1. \A v \in Recoverers : rec'[v] = IF v = r THEN y ELSE rec[v]
    BY <1>0 DEF Known, TypeInv, WorkerTypes
  <1>2. ASSUME NEW u \in Txns \ {t}
        PROVE  EffectTxn(u)'
    <2>1. \A v \in Recoverers : rec'[v].txn = u => rec'[v] = rec[v]
      BY <1>0, <1>1, <1>2
    <2>2. EffectView(u)' = EffectView(u) /\ EffectTxn(u) /\ TypeInv
      BY <1>0 DEF EffectView, MarkView, Known, EffectInv
    <2> QED BY <1>0, <2>1, <2>2, SameRows, EffectFrame
  <1>3. EffectTxn(t)'
    <2>0. EffectTxn(t)
      BY DEF EffectInv
    <2>1. Effects(t)' = Effects(t) /\ \A i : KeyOf(t, i)' = KeyOf(t, i)
      BY <1>0 DEF Effects, KeyOf
    <2>2. Held(t)' /\ Once(t)'
      BY <1>0, <2>0, <2>1 DEF EffectTxn, Held, Once, rowVars
    <2>3. \A i \in Effects(t) : i \in Nat \ {0}
      BY OpKeys DEF Effects, Known
    <2>4. y.mode = "rollback" => applied[t] = {}
      <3>1. ledger[t] \in LedgerStates
        BY DEF Known, TypeInv, LedgerTypes
      <3> QED BY <1>0, <2>0, <3>1 DEF RecoveryMode, EffectTxn, Finished, LedgerStates
    <2>5. \A i \in Effects(t) : ~(i < y.pos)
      BY <1>0, <2>3
    <2>6. Finished(t)'
      BY <1>0, <1>1, <2>0, <2>1, <2>4, <2>5 DEF EffectTxn, Finished
    <2> QED BY <2>2, <2>6 DEF EffectTxn
  <1> QED BY <1>2, <1>3 DEF EffectInv

LEMMA RecoverEffectsHeld ==
  ASSUME NEW r \in Recoverers, Known, EffectInv,
         RecoverWrite(r) \/ RecoverDelete(r) \/ RecoverCheck(r) \/ RecoverRollback(r)
  PROVE  EffectInv'
  <1> PICK t \in Txns : t = rec[r].txn
    BY RecoverMarks
  <1> DEFINE p == rec[r].pos
             k == KeyOf(t, p)
  <1>0. UNCHANGED <<pc, failed, ledger, answer, pos, req, image, todo, seen>> /\ RecAdvance(r)
    BY DEF RecoverWrite, RecoverDelete, RecoverCheck, RecoverRollback, ledgerVars, prepareVars
  <1>1. MarkTxn(t) /\ TxnInv(t) /\ EffectTxn(t) /\ TypeInv /\ pc[t] = "stopped"
    BY DEF Known, MarkInv, AnswerInv, EffectInv, MarkTxn, Passes
  <1>2. LoopStep(t, p) /\ p \in DOMAIN req[t] /\ OnlyRowsOf(t) /\ prep'[k] # t
    BY RecoverMarks DEF LoopStep
  <1>3. /\ \A i \in DOMAIN req[t] : prep'[KeyOf(t, i)] = t => prep[KeyOf(t, i)] = t
        /\ \A i \in DOMAIN req[t] : i # p => (prep'[KeyOf(t, i)] = t <=> prep[KeyOf(t, i)] = t)
        /\ \A i : KeyOf(t, i)' = KeyOf(t, i)
    BY <1>0, <1>1, <1>2, LoopStepMarks
  <1>4. /\ Effects(t)' = Effects(t) /\ Effects(t) \subseteq DOMAIN req[t]
        /\ applied[t] \subseteq Effects(t) /\ \A i \in DOMAIN req[t] : i \in Nat
    BY <1>0, <1>1, OpKeys DEF Effects, TxnInv, CommitProgress
  <1>5. /\ p \in Nat
        /\ \A v \in Recoverers : /\ rec'[v].txn = rec[v].txn /\ rec'[v].mode = rec[v].mode
                                 /\ rec'[v].pos = IF v = r THEN p + 1 ELSE rec[v].pos
                                 /\ v # r => rec'[v] = rec[v]
    <2> DEFINE y == [rec[r] EXCEPT !.pos = p + 1]
    <2>1. rec[r] \in RecState /\ rec \in [Recoverers -> RecState]
      BY DEF Known, TypeInv, WorkerTypes
    <2>2. y.txn = t /\ y.mode = rec[r].mode /\ y.pos = p + 1 /\ p \in Nat
      BY <2>1 DEF RecState
    <2>3. rec' = [rec EXCEPT ![r] = y]
      BY <1>0 DEF RecAdvance
    <2> HIDE DEF y
    <2> QED BY <2>1, <2>2, <2>3
  <1>6. /\ RecoverEffect(r)
        /\ \A u \in Txns \ {t} : applied'[u] = applied[u]
        /\ applied[t] \subseteq applied'[t] /\ applied'[t] \subseteq applied[t] \cup {p}
        /\ applied'[t] # applied[t] => rec[r].mode = "commit" /\ p \in Effects(t)
    <2>1. RecoverEffect(r)
      BY RecoverEffects DEF Known
    <2> QED BY <2>1 DEF RecoverEffect, Known, TypeInv, RequestTypes
  <1>7. rec[r].mode \in {"commit", "rollback"}
    BY DEF Known, TypeInv, WorkerTypes, RecState
  <1>8. ASSUME NEW u \in Txns \ {t}
        PROVE  EffectTxn(u)'
    <2>1. \A v \in Recoverers : rec'[v].txn = u => rec'[v] = rec[v]
      BY <1>5, <1>8
    <2>2. EffectView(u)' = EffectView(u) /\ EffectTxn(u)
      BY <1>0, <1>6 DEF EffectView, MarkView, EffectInv
    <2> QED BY <1>1, <1>2, <2>1, <2>2, EffectFrame
  <1>9. CASE rec[r].mode = "rollback"
    <2>1. applied'[t] = applied[t] /\ applied[t] = {} /\ ledger[t] # "committing"
      BY <1>1, <1>6, <1>9 DEF EffectTxn, Finished, MarkTxn, Passes, RecoveryMode
    <2>2. \A v \in Recoverers : rec[v].txn = t => rec[v].mode = "rollback"
      BY <1>1, <1>9 DEF MarkTxn, Passes
    <2>3. EffectTxn(t)'
      BY <1>0, <1>1, <1>5, <2>1, <2>2 DEF EffectTxn, Held, Once, Finished, Preparing
    <2> QED BY <1>8, <2>3 DEF EffectInv
  <1>10. CASE rec[r].mode = "commit"
    <2>0. ~failed[t] /\ (ledger[t] # "none" => ledger[t] = "committing" /\ todo[t] = {})
      BY <1>1, <1>10 DEF TxnInv, UndecidedInert, Undecided, MarkTxn, Passes, RecoveryMode, Stage
    <2>1. p \in Effects(t) => p \in applied'[t]
      <3>1. p \in Effects(t) /\ prep[k] = t => p \in applied'[t]
        <4>1. CASE RecoverWrite(r)
          BY <4>1 DEF RecoverWrite, TakeEffect, RecOp, KeyOf, Known, TypeInv, RequestTypes
        <4>2. CASE RecoverDelete(r)
          BY <4>2 DEF RecoverDelete, TakeEffect, RecOp, KeyOf, Known, TypeInv, RequestTypes
        <4>3. CASE RecoverCheck(r)
          BY <4>3 DEF RecoverCheck, Effects, RecOp
        <4>4. CASE RecoverRollback(r)
          BY <1>10, <4>4 DEF RecoverRollback
        <4> QED BY <4>1, <4>2, <4>3, <4>4
      <3>2. p \in Effects(t) /\ prep[k] # t => p \in applied[t]
        BY <1>1, <1>10, <2>0 DEF EffectTxn, Held, Finished
      <3> QED BY <1>6, <3>1, <3>2
    <2>2. Held(t)'
      <3>1. ASSUME NEW i \in Effects(t) \ todo[t], ledger[t] = "committing"
            PROVE  i \in applied'[t] \/ prep'[KeyOf(t, i)] = t
        <4>1. i \in applied[t] \/ prep[KeyOf(t, i)] = t
          BY <1>1, <2>0, <3>1 DEF EffectTxn, Held
        <4> QED BY <1>3, <1>4, <1>6, <2>1, <4>1
      <3> QED BY <1>0, <1>1, <1>3, <1>4, <3>1 DEF Held, Preparing
    <2>3. Once(t)'
      BY <1>1, <1>2, <1>3, <1>4, <1>6 DEF EffectTxn, Once
    <2>4. applied'[t] \subseteq Effects(t) /\ (ledger[t] = "none" => applied[t] = Effects(t))
      BY <1>1, <1>4, <1>6, <1>10 DEF EffectTxn, Finished
    <2>5. \A v \in Recoverers : rec[v].txn = t => rec[v].mode = "commit"
      BY <1>1, <1>10 DEF MarkTxn, Passes
    <2>6. ASSUME NEW v \in Recoverers, rec[v].txn = t, NEW i \in Effects(t), i < rec'[v].pos
          PROVE  i \in applied'[t]
      <3>1. i < rec[v].pos => i \in applied[t]
        BY <1>1, <2>5, <2>6 DEF EffectTxn, Finished
      <3> QED BY <1>4, <1>5, <1>6, <2>1, <2>6, <3>1
    <2>7. Finished(t)'
      <3>1. ledger'[t] = ledger[t] /\ ledger[t] \notin {"preparing", "cancelling"}
        BY <1>0, <2>0
      <3>2. ledger[t] = "none" => applied'[t] = Effects(t)
        BY <1>6, <2>4
      <3>3. \A v \in Recoverers : rec'[v].txn = t => rec'[v].mode = "commit" /\ rec[v].txn = t
        BY <1>5, <2>5
      <3> QED BY <1>4, <2>6, <3>1, <3>2, <3>3 DEF Finished
    <2> QED BY <1>8, <2>2, <2>3, <2>7 DEF EffectTxn, EffectInv
  <1> QED BY <1>7, <1>9, <1>10

LEMMA PassEndEffects ==
  ASSUME NEW r \in Recoverers, Known, EffectInv, RecoverDone(r) \/ RecoverFails(r)
  PROVE  EffectInv'
  <1> PICK t \in Txns : t = rec[r].txn
    BY DEF RecoverDone, RecoverFails, Known, TypeInv, WorkerTypes, RecState
  <1>0. /\ rec' = [rec EXCEPT ![r] = IdleRec]
        /\ UNCHANGED <<rowVars, pc, failed, answer, pos, req, image, todo, seen, applied>>
        /\ ledger' = ledger \/ (RecDone(r) /\ ledger' = [ledger EXCEPT ![t] = "none"])
    BY DEF RecoverDone, RecoverFails, DeleteLedger, ledgerVars, prepareVars, historyVars
  <1>1. \A u \in Txns, v \in Recoverers : rec'[v].txn = u => rec'[v] = rec[v]
    BY <1>0, TxnAssumption DEF Known, TypeInv, WorkerTypes, IdleRec
  <1>2. ASSUME NEW u \in Txns, ledger'[u] = ledger[u]
        PROVE  EffectTxn(u)'
    <2>1. EffectView(u)' = EffectView(u) /\ EffectTxn(u) /\ TypeInv /\ u # None
      BY <1>0, <1>2, TxnAssumption DEF EffectView, MarkView, Known, EffectInv
    <2> QED BY <1>0, <1>1, <2>1, SameRows, EffectFrame
  <1>3. \A u \in Txns \ {t} : ledger'[u] = ledger[u]
    BY <1>0 DEF Known, TypeInv, LedgerTypes
  <1>4. ASSUME ledger'[t] # ledger[t]
        PROVE  EffectTxn(t)'
    <2>0. /\ MarkTxn(t) /\ TxnInv(t) /\ EffectTxn(t) /\ pc[t] = "stopped" /\ RecDone(r)
          /\ ledger'[t] = "none"
      BY <1>0, <1>4 DEF Known, MarkInv, AnswerInv, EffectInv, MarkTxn, Passes, TypeInv, LedgerTypes
    <2>1. Effects(t)' = Effects(t) /\ \A i : KeyOf(t, i)' = KeyOf(t, i)
      BY <1>0 DEF Effects, KeyOf
    <2>2. Held(t)' /\ Once(t)'
      BY <1>0, <2>0, <2>1 DEF EffectTxn, Held, Once, rowVars, Preparing
    <2>3. rec[r].mode = "commit" => applied[t] = Effects(t)
      <3>1. \A i \in Effects(t) : i < rec[r].pos
        <4>1. \A i \in DOMAIN req[t] : i \in Nat /\ i <= Len(req[t]) /\ Len(req[t]) \in Nat
          BY OpKeys DEF Known
        <4>2. rec[r].pos > Len(req[t]) /\ rec[r].pos \in Nat
          BY <2>0 DEF RecDone, Known, TypeInv, WorkerTypes, RecState
        <4> QED BY <4>1, <4>2 DEF Effects
      <3> QED BY <2>0, <3>1 DEF EffectTxn, Finished, TxnInv, CommitProgress
    <2>4. rec[r].mode = "rollback" => applied[t] = {}
      BY <2>0 DEF EffectTxn, Finished
    <2>5. rec[r].mode \in {"commit", "rollback"}
      BY DEF Known, TypeInv, WorkerTypes, RecState
    <2>6. \A v \in Recoverers : rec'[v].txn = t => rec'[v] = rec[v] /\ rec[v].mode = rec[r].mode
      BY <1>1, <2>0 DEF MarkTxn, Passes
    <2>7. Finished(t)'
      BY <1>0, <2>0, <2>1, <2>3, <2>4, <2>5, <2>6 DEF EffectTxn, Finished
    <2> QED BY <2>2, <2>7 DEF EffectTxn
  <1> QED BY <1>2, <1>3, <1>4 DEF EffectInv

LEMMA IdleEffects ==
  ASSUME Known, EffectInv, OnlyRowsOf(None),
         UNCHANGED <<pc, failed, ledger, answer, pos, req, image, todo, seen, rec, applied>>
  PROVE  EffectInv'
  <1>1. ASSUME NEW u \in Txns
        PROVE  EffectTxn(u)'
    <2>1. EffectView(u)' = EffectView(u) /\ EffectTxn(u) /\ TypeInv /\ u # None
      BY TxnAssumption DEF EffectView, MarkView, Known, EffectInv
    <2> QED BY <2>1, EffectFrame
  <1> QED BY <1>1 DEF EffectInv

LEMMA EffectInvInit == Init => EffectInv
  <1> SUFFICES ASSUME Init, NEW t \in Txns
               PROVE  EffectTxn(t)
    BY DEF EffectInv
  <1>1. Held(t) /\ Once(t)
    BY DEF Init, Held, Once, Effects
  <1>2. Finished(t)
    BY TxnAssumption DEF Init, Finished, IdleRec
  <1> QED BY <1>1, <1>2 DEF EffectTxn

LEMMA EffectInvNext ==
  ASSUME PlainRequests, ~EarlyRecovery, Known, EffectInv, [Next]_vars
  PROVE  EffectInv'
  <1>1. ASSUME NEW t \in Txns, NEW q \in Requests, Begin(t, q)
        PROVE  EffectInv'
    BY <1>1, BeginEffects
  <1>2. ASSUME NEW t \in Txns, CoordinatorStep(t) \/ Abandon(t)
        PROVE  EffectInv'
    <2>1. AnswerInv'
      BY AnswerInvNext DEF Known
    <2> QED BY <1>2, <2>1, PrepareEffectsHeld, PhaseEffectsHeld, LoopEffectsHeld DEF CoordinatorStep
  <1>3. ASSUME NEW r \in Recoverers, RecoveryStep(r) \/ RecoverFails(r)
        PROVE  EffectInv'
    BY <1>3, StartRecoveryEffects, RecoverEffectsHeld, PassEndEffects DEF RecoveryStep
  <1>4. ASSUME NEW s \in Singles, (\E o \in SingleOps : SingleRead(s, o)) \/ SingleStep(s)
        PROVE  EffectInv'
    <2>1. UNCHANGED <<pc, failed, ledger, answer, pos, req, image, todo, seen, rec, applied>>
      BY <1>4 DEF SingleRead, SingleStep, SingleWrite, SingleRetry, ledgerVars, prepareVars, recVars,
                  historyVars
    <2> QED BY <1>4, <2>1, SingleRows, IdleEffects
  <1>5. CASE UNCHANGED vars
    <2>1. OnlyRowsOf(None)
      BY <1>5, SameRows DEF vars, rowVars
    <2> QED BY <1>5, <2>1, IdleEffects DEF vars
  <1> QED BY <1>1, <1>2, <1>3, <1>4, <1>5 DEF Next

(* TransactWriteItems is atomic: once its ledger entry is gone a transaction*)
(* has taken effect as a whole or not at all, whether the coordinator ended *)
(* it, recovery did, or both had a part in it, and however often passes     *)
(* failed and several servers recovered it at once (execute_commit_phase,   *)
(* execute_rollback_phase, recover_transaction).  PlainRequests leaves out  *)
(* the Delete with a condition that an absent item may satisfy, for which   *)
(* prepare_item may go on without a marker.                                 *)
THEOREM TxnAllOrNothing ==
  ASSUME PlainRequests, ~EarlyRecovery
  PROVE  Spec => []AllOrNothing
  <1>1. EffectInv => AllOrNothing
    BY DEF EffectInv, EffectTxn, Finished, AllOrNothing
  <1>2. Known /\ EffectInv /\ [Next]_vars => Known' /\ EffectInv'
    BY KnownNext, EffectInvNext
  <1> QED BY <1>1, <1>2, KnownInit, EffectInvInit, PTL DEF Spec

-----------------------------------------------------------------------------
(* The refinement of TxnPromise.                                            *)

(* A request of condition checks, or of Updates that only remove, may have  *)
(* no effect that tells what was decided once its ledger entry is gone.     *)
WritingRequests ==
    \A q \in Requests : \E i \in DOMAIN q : q[i].kind \in {"put", "update", "delete"}

(* A request that passed PREPARE has an image of everything it writes.      *)
Imaged(t) ==
    /\ pc[t] # "idle" => req[t] \in Requests
    /\ ~failed[t] => \A i \in (DOMAIN req[t]) \ todo[t] :
           req[t][i].kind \in {"put", "update"} => image[t][i] # NoItem
ImageInv == \A t \in Txns : Imaged(t)

LEMMA ImageFrame ==
  ASSUME NEW u \in Txns, Imaged(u), failed'[u] = failed[u], req'[u] = req[u],
         image'[u] = image[u], todo'[u] = todo[u], pc[u] = "idle" => pc'[u] = "idle"
  PROVE  Imaged(u)'
  BY DEF Imaged

LEMMA WrittenImage ==
  ASSUME NEW o, o.kind \in {"put", "update"}, NEW x \in Items, NEW w \in Writers
  PROVE  PostImage(o, x, w) # NoItem
  <1>1. {w} \in SUBSET Writers /\ Updated(x, w) \in SUBSET Writers
    BY DEF Items, Updated
  <1>2. PostImage(o, x, w) \in SUBSET Writers
    BY <1>1 DEF PostImage
  <1> QED BY <1>2, TxnAssumption DEF Writers

LEMMA ImageInvNext ==
  ASSUME Known, ImageInv, [Next]_vars
  PROVE  ImageInv'
  <1>1. ASSUME NEW t \in Txns, NEW q \in Requests, Begin(t, q)
        PROVE  ImageInv'
    <2>1. Imaged(t)'
      BY <1>1 DEF Begin, Imaged, Known, TypeInv, RequestTypes
    <2>2. ASSUME NEW u \in Txns \ {t}
          PROVE  Imaged(u)'
      BY <1>1, <2>2, ImageFrame DEF Begin, ImageInv, Known, TypeInv, RequestTypes, LedgerTypes
    <2> QED BY <2>1, <2>2 DEF ImageInv
  <1>2. ASSUME NEW t \in Txns,
               \/ PrepareRead(t) \/ PrepareFails(t) \/ PrepareFloor(t)
               \/ PrepareMark(t) \/ PrepareLost(t) \/ PrepareWait(t)
        PROVE  ImageInv'
    <2> DEFINE c == Cur(t)
    <2>0. /\ UNCHANGED req /\ todo[t] # {} /\ pc[t] # "idle"
          /\ \A u \in Txns \ {t} : MarkView(u)' = MarkView(u)
          /\ \/ FailOp(t) \/ (\E x \in Items : FinishOp(t, x))
             \/ \E target \in {"floor", "mark", "wait"} : EnterOp(t, target)
      BY <1>2, PrepareOwn
    <2>1. ASSUME NEW u \in Txns \ {t}
          PROVE  Imaged(u)'
      BY <2>0, <2>1, ImageFrame DEF ImageInv, MarkView
    <2>2. c \in todo[t] /\ c \in DOMAIN req[t] /\ CurOp(t) = req[t][c]
      BY <2>0, CurInTodo DEF Known, TypeInv, CurOp
    <2>3. CASE FailOp(t)
      BY <2>0, <2>3 DEF FailOp, Imaged, ImageInv, Known, TypeInv, LedgerTypes
    <2>4. CASE \E target \in {"floor", "mark", "wait"} : EnterOp(t, target)
      BY <2>0, <2>4 DEF EnterOp, Imaged, ImageInv
    <2>5. ASSUME NEW x \in Items, FinishOp(t, x)
          PROVE  Imaged(t)'
      <3>1. /\ image'[t] = [image[t] EXCEPT ![c] = PostImage(CurOp(t), x, t)]
            /\ todo'[t] = todo[t] \ {c} /\ UNCHANGED failed
        BY <2>5 DEF FinishOp, Known, TypeInv, RequestTypes
      <3>2. req[t][c].kind \in {"put", "update"} => PostImage(CurOp(t), x, t) # NoItem
        BY <2>2, WrittenImage DEF Writers
      <3>3. image[t] \in [DOMAIN req[t] -> Items] /\ Imaged(t)
        BY DEF Known, TypeInv, RequestTypes, ImageInv
      <3> HIDE DEF c
      <3>4. ASSUME NEW i \in (DOMAIN req[t]) \ todo'[t], ~failed[t],
                   req[t][i].kind \in {"put", "update"}
            PROVE  image'[t][i] # NoItem
        BY <2>2, <3>1, <3>2, <3>3, <3>4 DEF Imaged
      <3> QED BY <2>0, <3>1, <3>3, <3>4 DEF Imaged
    <2>6. Imaged(t)'
      <3>1. CASE FailOp(t) \/ \E target \in {"floor", "mark", "wait"} : EnterOp(t, target)
        <4>1. Imaged(t)
          BY DEF ImageInv
        <4> QED BY <2>0, <2>3, <2>4, <3>1, <4>1 DEF ImageInv, Imaged, FailOp, EnterOp, Known, TypeInv,
                LedgerTypes, RequestTypes
      <3> QED BY <2>0, <2>5, <3>1
    <2> QED BY <2>1, <2>6 DEF ImageInv
  <1>3. ASSUME UNCHANGED <<req, todo, failed, image>>,
               \A u \in Txns : pc[u] = "idle" => pc'[u] = "idle"
        PROVE  ImageInv'
    BY <1>3, ImageFrame DEF ImageInv
  <1>4. ASSUME NEW t \in Txns,
               \/ SaveImages(t) \/ StartCommit(t) \/ CommitDone(t) \/ StartRollback(t)
               \/ RollbackDone(t) \/ Abandon(t)
               \/ CommitWrite(t) \/ CommitDelete(t) \/ CommitCheck(t) \/ RollbackOp(t)
        PROVE  ImageInv'
    <2>1. UNCHANGED <<req, todo, failed, image>>
      BY <1>4 DEF SaveImages, StartCommit, CommitDone, StartRollback, RollbackDone, Abandon,
                  CommitWrite, CommitDelete, CommitCheck, RollbackOp, prepareVars
    <2>2. pc[t] \in Running /\ (pc' = pc \/ \E x : pc' = [pc EXCEPT ![t] = x])
      BY <1>4 DEF SaveImages, StartCommit, CommitDone, StartRollback, RollbackDone, Abandon,
                  CommitWrite, CommitDelete, CommitCheck, RollbackOp, Stop, Advance, Running
    <2>3. \A u \in Txns : pc[u] = "idle" => pc'[u] = "idle"
      BY <2>2 DEF Known, TypeInv, LedgerTypes, Running
    <2> QED BY <1>3, <2>1, <2>3
  <1>5. ASSUME NEW r \in Recoverers, RecoveryStep(r) \/ RecoverFails(r)
        PROVE  ImageInv'
    BY <1>3, <1>5 DEF RecoveryStep, StartRecovery, RecoverWrite, RecoverDelete, RecoverCheck,
                      RecoverRollback, RecoverDone, RecoverFails, prepareVars
  <1>6. ASSUME NEW s \in Singles, (\E o \in SingleOps : SingleRead(s, o)) \/ SingleStep(s)
        PROVE  ImageInv'
    BY <1>3, <1>6 DEF SingleRead, SingleStep, SingleWrite, SingleRetry, prepareVars
  <1>7. CASE UNCHANGED vars
    BY <1>3, <1>7 DEF vars
  <1> QED BY <1>1, <1>2, <1>4, <1>5, <1>6, <1>7 DEF Next, CoordinatorStep

LEMMA ImageInvInit == Init => ImageInv
  BY DEF Init, ImageInv, Imaged

-----------------------------------------------------------------------------
(* The abstract state.                                                      *)
Due == [t \in Txns |-> IF Outcome[t] = "committed" THEN KeysOf(t, Effects(t)) ELSE {}]
DoneKeys == [t \in Txns |-> KeysOf(t, applied[t])]
Fate(t) == <<Outcome[t], Due[t], DoneKeys[t], answer[t]>>

(* What a step does to one transaction and to the items, and that the       *)
(* others keep their fate.                                                  *)
Decides(t, o, d) ==
    /\ Outcome[t] = "open" /\ Outcome'[t] = o /\ Due'[t] = d
    /\ DoneKeys'[t] = DoneKeys[t] /\ committed' = committed

Applies(t, k) ==
    /\ Outcome[t] = "committed" /\ Outcome'[t] = "committed" /\ Due'[t] = Due[t]
    /\ k \in Due[t] \ DoneKeys[t] /\ k \in Keys /\ DoneKeys'[t] = DoneKeys[t] \cup {k}
    /\ answer'[t] = answer[t] /\ \E x \in Items : committed' = [committed EXCEPT ![k] = x]

Tells(t) ==
    /\ answer[t] = "none" /\ answer'[t] = Outcome[t]
    /\ Outcome[t] = "cancelled" \/ (Outcome[t] = "committed" /\ DoneKeys[t] = Due[t])
    /\ Outcome'[t] = Outcome[t] /\ Due'[t] = Due[t] /\ DoneKeys'[t] = DoneKeys[t]
    /\ committed' = committed

LEMMA StoreIsCommitted ==
  ASSUME RowTypes, RowInv
  PROVE  Store = committed
  BY DEF RowTypes, RowInv, DataIntact, Store

LEMMA StoreIsCommittedNext ==
  ASSUME RowTypes', RowInv'
  PROVE  Store' = committed'
  BY DEF RowTypes, RowInv, DataIntact, Store

LEMMA OutcomeTyped ==
  Outcome = [u \in Txns |-> Outcome[u]] /\ Outcome' = [u \in Txns |-> Outcome'[u]]
  BY DEF Outcome

LEMMA Pointwise ==
  ASSUME NEW t \in Txns, LedgerTypes, LedgerTypes', \A u \in Txns \ {t} : Fate(u)' = Fate(u)
  PROVE  /\ Outcome' = [Outcome EXCEPT ![t] = Outcome'[t]]
         /\ Due' = [Due EXCEPT ![t] = Due'[t]]
         /\ DoneKeys' = [DoneKeys EXCEPT ![t] = DoneKeys'[t]]
         /\ answer' = [answer EXCEPT ![t] = answer'[t]]
  <1>1. \A u \in Txns \ {t} : /\ Outcome'[u] = Outcome[u] /\ Due'[u] = Due[u]
                              /\ DoneKeys'[u] = DoneKeys[u] /\ answer'[u] = answer[u]
    BY DEF Fate
  <1>2. Outcome' = [Outcome EXCEPT ![t] = Outcome'[t]]
    BY <1>1, OutcomeTyped
  <1>3. Due' = [Due EXCEPT ![t] = Due'[t]]
    BY <1>1 DEF Due
  <1>4. DoneKeys' = [DoneKeys EXCEPT ![t] = DoneKeys'[t]]
    BY <1>1 DEF DoneKeys
  <1>5. answer' = [answer EXCEPT ![t] = answer'[t]]
    BY <1>1 DEF LedgerTypes
  <1> QED BY <1>2, <1>3, <1>4, <1>5

(* A step that does one of these to t, or nothing, is a step of TxnPromise. *)
LEMMA PromiseStep ==
  ASSUME NEW t \in Txns, Known, Known', \A u \in Txns \ {t} : Fate(u)' = Fate(u),
         \/ Fate(t)' = Fate(t) /\ committed' = committed
         \/ \E ks \in SUBSET Keys : Decides(t, "committed", ks) /\ answer'[t] = answer[t]
         \/ Decides(t, "cancelled", Due[t]) /\ answer'[t] \in {answer[t], "cancelled"}
         \/ \E k \in Keys : Applies(t, k)
         \/ Tells(t)
  PROVE  [Promise!Next]_(Promise!vars)
  <1>0. /\ Store = committed /\ Store' = committed'
        /\ LedgerTypes /\ LedgerTypes'
    BY StoreIsCommitted, StoreIsCommittedNext DEF Known, TypeInv
  <1>1. /\ Outcome' = [Outcome EXCEPT ![t] = Outcome'[t]]
        /\ Due' = [Due EXCEPT ![t] = Due'[t]]
        /\ DoneKeys' = [DoneKeys EXCEPT ![t] = DoneKeys'[t]]
        /\ answer' = [answer EXCEPT ![t] = answer'[t]]
    BY <1>0, Pointwise
  <1>2. /\ Outcome = [Outcome EXCEPT ![t] = Outcome[t]]
        /\ Due = [Due EXCEPT ![t] = Due[t]]
        /\ DoneKeys = [DoneKeys EXCEPT ![t] = DoneKeys[t]]
        /\ answer = [answer EXCEPT ![t] = answer[t]]
    BY <1>0, OutcomeTyped DEF Due, DoneKeys, LedgerTypes
  <1>3. CASE Fate(t)' = Fate(t) /\ committed' = committed
    <2>1. /\ Outcome'[t] = Outcome[t] /\ Due'[t] = Due[t] /\ DoneKeys'[t] = DoneKeys[t]
          /\ answer'[t] = answer[t]
      BY <1>3 DEF Fate
    <2>2. Store' = Store /\ Outcome' = Outcome /\ Due' = Due /\ DoneKeys' = DoneKeys /\ answer' = answer
      BY <1>0, <1>1, <1>2, <1>3, <2>1
    <2> QED BY <2>2 DEF Promise!vars, Due, DoneKeys
  <1>4. CASE \E ks \in SUBSET Keys : Decides(t, "committed", ks) /\ answer'[t] = answer[t]
    <2>1. PICK ks \in SUBSET Keys : Decides(t, "committed", ks) /\ answer'[t] = answer[t]
      BY <1>4
    <2>2. /\ Outcome[t] = "open" /\ Outcome' = [Outcome EXCEPT ![t] = "committed"]
          /\ Due' = [Due EXCEPT ![t] = ks] /\ DoneKeys' = DoneKeys /\ answer' = answer
          /\ Store' = Store
      BY <1>0, <1>1, <1>2, <2>1 DEF Decides
    <2>3. Promise!Commit(t)
      BY <2>2 DEF Promise!Commit, Due, DoneKeys
    <2> QED BY <2>3 DEF Promise!Next
  <1>5. CASE Decides(t, "cancelled", Due[t]) /\ answer'[t] \in {answer[t], "cancelled"}
    <2>1. /\ Outcome[t] = "open" /\ Outcome' = [Outcome EXCEPT ![t] = "cancelled"]
          /\ Due' = Due /\ DoneKeys' = DoneKeys /\ Store' = Store
          /\ answer' \in {answer, [answer EXCEPT ![t] = "cancelled"]}
      BY <1>0, <1>1, <1>2, <1>5 DEF Decides
    <2>2. Promise!Cancel(t)
      BY <2>1 DEF Promise!Cancel, Due, DoneKeys
    <2> QED BY <2>2 DEF Promise!Next
  <1>6. CASE \E k \in Keys : Applies(t, k)
    <2>1. PICK k \in Keys : Applies(t, k)
      BY <1>6
    <2>2. PICK x \in Items : committed' = [committed EXCEPT ![k] = x]
      BY <2>1 DEF Applies
    <2>3. /\ Outcome[t] = "committed" /\ Outcome' = Outcome /\ Due' = Due /\ answer' = answer
          /\ k \in Due[t] \ DoneKeys[t] /\ DoneKeys' = [DoneKeys EXCEPT ![t] = @ \cup {k}]
          /\ Store' = [Store EXCEPT ![k] = x]
      BY <1>0, <1>1, <1>2, <2>1, <2>2 DEF Applies
    <2>4. Promise!Apply(t)
      BY <2>3 DEF Promise!Apply, Promise!Change, Due, DoneKeys
    <2> QED BY <2>4 DEF Promise!Next
  <1>7. CASE Tells(t)
    <2>1. /\ answer[t] = "none" /\ answer' = [answer EXCEPT ![t] = Outcome[t]]
          /\ Outcome[t] = "cancelled" \/ (Outcome[t] = "committed" /\ DoneKeys[t] = Due[t])
          /\ Outcome' = Outcome /\ Due' = Due /\ DoneKeys' = DoneKeys /\ Store' = Store
      BY <1>0, <1>1, <1>2, <1>7 DEF Tells
    <2>2. Promise!Tell(t)
      BY <2>1 DEF Promise!Tell, Due, DoneKeys
    <2> QED BY <2>2 DEF Promise!Next
  <1> QED BY <1>3, <1>4, <1>5, <1>6, <1>7

(* What the abstract state reads of a transaction.                          *)
LEMMA FateFrame ==
  ASSUME NEW u \in Txns, pc'[u] = pc[u], ledger'[u] = ledger[u], answer'[u] = answer[u],
         applied'[u] = applied[u], req'[u] = req[u], image'[u] = image[u]
  PROVE  Fate(u)' = Fate(u)
  <1>1. Effects(u)' = Effects(u)
    BY DEF Effects
  <1>2. Outcome'[u] = Outcome[u]
    BY DEF Outcome
  <1>3. Due'[u] = Due[u]
    BY <1>1, <1>2 DEF Due, KeysOf
  <1>4. DoneKeys'[u] = DoneKeys[u]
    BY DEF DoneKeys, KeysOf
  <1> QED BY <1>2, <1>3, <1>4 DEF Fate

(* The fate of a transaction that is undecided, decided either way.         *)
LEMMA FateOpen ==
  ASSUME NEW t \in Txns
  PROVE  /\ (ledger[t] # "committing" /\ answer[t] # "committed" /\ applied[t] = {}
             /\ pc[t] \in Preparing)
            => Outcome[t] = "open" /\ Due[t] = {} /\ DoneKeys[t] = {}
         /\ (ledger'[t] # "committing" /\ answer'[t] # "committed" /\ applied'[t] = {}
             /\ pc'[t] \in Preparing)
            => Outcome'[t] = "open" /\ Due'[t] = {} /\ DoneKeys'[t] = {}
  BY DEF Outcome, Due, DoneKeys, KeysOf, Preparing

LEMMA FateCancelled ==
  ASSUME NEW t \in Txns
  PROVE  /\ (ledger[t] # "committing" /\ answer[t] # "committed" /\ applied[t] = {}
             /\ pc[t] \notin Preparing)
            => Outcome[t] = "cancelled" /\ Due[t] = {} /\ DoneKeys[t] = {}
         /\ (ledger'[t] # "committing" /\ answer'[t] # "committed" /\ applied'[t] = {}
             /\ pc'[t] \notin Preparing)
            => Outcome'[t] = "cancelled" /\ Due'[t] = {} /\ DoneKeys'[t] = {}
  BY DEF Outcome, Due, DoneKeys, KeysOf, Preparing

LEMMA FateCommitted ==
  ASSUME NEW t \in Txns
  PROVE  /\ (ledger[t] = "committing" \/ answer[t] = "committed" \/ applied[t] # {})
            => Outcome[t] = "committed" /\ Due[t] = KeysOf(t, Effects(t))
         /\ (ledger'[t] = "committing" \/ answer'[t] = "committed" \/ applied'[t] # {})
            => Outcome'[t] = "committed" /\ Due'[t] = KeysOf(t, Effects(t))'
         /\ DoneKeys[t] = KeysOf(t, applied[t]) /\ DoneKeys'[t] = KeysOf(t, applied[t])'
  <1>1. /\ (ledger[t] = "committing" \/ answer[t] = "committed" \/ applied[t] # {})
           => Outcome[t] = "committed"
        /\ (ledger'[t] = "committing" \/ answer'[t] = "committed" \/ applied'[t] # {})
           => Outcome'[t] = "committed"
    BY DEF Outcome
  <1>2. /\ Outcome[t] = "committed" => Due[t] = KeysOf(t, Effects(t))
        /\ Outcome'[t] = "committed" => Due'[t] = KeysOf(t, Effects(t))'
        /\ DoneKeys[t] = KeysOf(t, applied[t]) /\ DoneKeys'[t] = KeysOf(t, applied[t])'
    BY Zenon DEF Due, DoneKeys
  <1> QED BY <1>1, <1>2

(* Operation p of a committed transaction takes effect.                     *)
LEMMA EffectApplies ==
  ASSUME NEW t \in Txns, NEW p \in Effects(t), TypeInv, Once(t), prep[KeyOf(t, p)] = t,
         ledger[t] = "committing", ledger'[t] = "committing", answer'[t] = answer[t],
         req' = req, image' = image, applied'[t] = applied[t] \cup {p},
         NEW x \in Items, committed' = [committed EXCEPT ![KeyOf(t, p)] = x]
  PROVE  \E k \in Keys : Applies(t, k)
  <1>1. /\ Outcome[t] = "committed" /\ Due[t] = KeysOf(t, Effects(t))
        /\ Outcome'[t] = "committed" /\ Due'[t] = KeysOf(t, Effects(t))'
        /\ DoneKeys[t] = KeysOf(t, applied[t]) /\ DoneKeys'[t] = KeysOf(t, applied[t])'
    BY FateCommitted
  <1>2. Effects(t)' = Effects(t) /\ p \in DOMAIN req[t] /\ applied[t] \subseteq DOMAIN req[t]
    BY DEF Effects, TypeInv, RequestTypes
  <1>3. KeysOf(t, Effects(t))' = KeysOf(t, Effects(t))
    BY <1>2 DEF KeysOf
  <1>4. KeysOf(t, applied[t])' = KeysOf(t, applied[t]) \cup {KeyOf(t, p)}
    BY DEF KeysOf, KeyOf
  <1>5. KeyOf(t, p) \in KeysOf(t, Effects(t)) /\ KeyOf(t, p) \in Keys
    BY <1>2, OpKeys DEF KeysOf, KeyOf
  <1>6. p \notin applied[t]
    BY DEF Once
  <1>7. \A i \in applied[t] : KeyOf(t, i) # KeyOf(t, p)
    BY <1>2, <1>6, OpKeys
  <1>8. KeyOf(t, p) \notin KeysOf(t, applied[t])
    BY <1>7 DEF KeysOf, KeyOf
  <1>9. Applies(t, KeyOf(t, p))
    BY <1>1, <1>3, <1>4, <1>5, <1>8 DEF Applies
  <1> QED BY <1>5, <1>9

-----------------------------------------------------------------------------
(* PREPARE decides nothing.                                                 *)
LEMMA PreparePromise ==
  ASSUME NEW t \in Txns, Known, Known',
         \/ \E q \in Requests : Begin(t, q)
         \/ PrepareRead(t) \/ PrepareFails(t) \/ PrepareFloor(t)
         \/ PrepareMark(t) \/ PrepareLost(t) \/ PrepareWait(t) \/ SaveImages(t)
  PROVE  [Promise!Next]_(Promise!vars)
  <1>1. /\ pc[t] \in Preparing /\ pc'[t] \in Preparing
        /\ UNCHANGED <<answer, applied, committed>>
        /\ \A u \in Txns \ {t} : Fate(u)' = Fate(u)
    <2>1. CASE \E q \in Requests : Begin(t, q)
      <3>1. /\ \A u \in Txns \ {t} : /\ pc'[u] = pc[u] /\ ledger'[u] = ledger[u]
                                     /\ req'[u] = req[u] /\ image'[u] = image[u]
            /\ UNCHANGED <<answer, applied, committed>>
        BY <2>1 DEF Begin, historyVars, Known, TypeInv, LedgerTypes, RequestTypes
      <3> QED BY <2>1, <3>1, FateFrame DEF Begin, Known, TypeInv, LedgerTypes, Preparing
    <2>2. CASE SaveImages(t)
      <3>1. /\ \A u \in Txns \ {t} : pc'[u] = pc[u]
            /\ UNCHANGED <<answer, applied, committed, ledger, req, image>>
        BY <2>2 DEF SaveImages, historyVars, ledgerVars, prepareVars, Known, TypeInv, LedgerTypes
      <3> QED BY <2>2, <3>1, FateFrame DEF SaveImages, Known, TypeInv, LedgerTypes, Preparing
    <2>3. CASE \/ PrepareRead(t) \/ PrepareFails(t) \/ PrepareFloor(t)
               \/ PrepareMark(t) \/ PrepareLost(t) \/ PrepareWait(t)
      <3>1. /\ pc[t] \in Preparing /\ pc'[t] \in Preparing
            /\ \A u \in Txns \ {t} : MarkView(u)' = MarkView(u)
        BY <2>3, PrepareOwn DEF Preparing
      <3>2. UNCHANGED <<answer, applied, committed>>
        BY <2>3 DEF PrepareRead, PrepareFails, PrepareFloor, PrepareMark, PrepareLost, PrepareWait,
           historyVars
      <3> QED BY <3>1, <3>2, FateFrame DEF MarkView
    <2> QED BY <2>1, <2>2, <2>3
  <1>2. /\ ledger[t] # "committing" /\ ledger'[t] # "committing"
        /\ answer[t] # "committed" /\ applied[t] = {}
    BY <1>1 DEF Known, MarkInv, MarkTxn, Stage, AnswerInv, TxnInv, UndecidedInert, Undecided, Decision,
                Preparing, Running
  <1>3. Fate(t)' = Fate(t)
    BY <1>1, <1>2, FateOpen DEF Fate
  <1> QED BY <1>1, <1>3, PromiseStep

(* The steps between the phases decide and answer.                          *)
LEMMA PhasePromise ==
  ASSUME NEW t \in Txns, Known, Known',
         \/ StartCommit(t) \/ CommitDone(t) \/ StartRollback(t) \/ RollbackDone(t) \/ Abandon(t)
  PROVE  [Promise!Next]_(Promise!vars)
  <1>0. UNCHANGED <<req, image, applied, committed>>
    BY DEF StartCommit, CommitDone, StartRollback, RollbackDone, Abandon, prepareVars, historyVars
  <1>1. \A u \in Txns \ {t} : Fate(u)' = Fate(u)
    <2>1. \A u \in Txns \ {t} : pc'[u] = pc[u] /\ ledger'[u] = ledger[u] /\ answer'[u] = answer[u]
      BY DEF StartCommit, CommitDone, StartRollback, RollbackDone, Abandon, SetLedger,
             DeleteLedger, ledgerVars, Known, TypeInv, LedgerTypes
    <2> QED BY <1>0, <2>1, FateFrame
  <1>2. Stage(t) /\ TxnInv(t) /\ TxnInv(t)' /\ LedgerTypes /\ LedgerTypes'
    BY DEF Known, MarkInv, MarkTxn, AnswerInv, TypeInv
  <1>3. /\ Effects(t)' = Effects(t) /\ KeysOf(t, Effects(t))' = KeysOf(t, Effects(t))
        /\ KeysOf(t, applied[t])' = KeysOf(t, applied[t])
    BY <1>0 DEF Effects, KeysOf
  <1>4. answer[t] = "none"
    BY <1>2 DEF StartCommit, CommitDone, StartRollback, RollbackDone, Abandon, Stage, Running
  <1>5. CASE StartCommit(t)
    <2>1. /\ ledger[t] = "preparing" /\ ledger'[t] = "committing" /\ applied[t] = {}
          /\ pc[t] \in Preparing /\ answer'[t] = answer[t]
      BY <1>2, <1>5 DEF StartCommit, SetLedger, Stage, TxnInv, UndecidedInert, Undecided, Preparing,
         LedgerTypes
    <2>2. Outcome[t] = "open" /\ Outcome'[t] = "committed" /\ Due'[t] = KeysOf(t, Effects(t))'
      BY <1>4, <2>1, FateOpen, FateCommitted
    <2>3. DoneKeys'[t] = DoneKeys[t]
      BY <1>3, FateCommitted
    <2>4. KeysOf(t, Effects(t)) \in SUBSET Keys
      BY OpKeys DEF KeysOf, KeyOf, Effects, Known
    <2>5. Decides(t, "committed", KeysOf(t, Effects(t)))
      BY <1>0, <1>3, <2>2, <2>3 DEF Decides
    <2> QED BY <1>1, <2>1, <2>4, <2>5, PromiseStep
  <1>6. CASE CommitDone(t)
    <2>1. /\ ledger[t] = "committing" /\ answer'[t] = "committed"
      BY <1>2, <1>6 DEF CommitDone, Stage, LedgerTypes
    <2>2. applied[t] = Effects(t)
      BY <1>0, <1>2, <1>3, <2>1 DEF TxnInv, CommitProgress
    <2>3. /\ Outcome[t] = "committed" /\ Outcome'[t] = "committed"
          /\ Due[t] = KeysOf(t, Effects(t)) /\ Due'[t] = Due[t]
          /\ DoneKeys'[t] = DoneKeys[t] /\ DoneKeys[t] = Due[t]
      BY <1>3, <2>1, <2>2, FateCommitted
    <2>4. Tells(t)
      BY <1>0, <1>4, <2>1, <2>3 DEF Tells
    <2> QED BY <1>1, <2>4, PromiseStep
  <1>7. CASE StartRollback(t)
    <2>1. /\ ledger[t] # "committing" /\ ledger'[t] # "committing" /\ applied[t] = {}
          /\ pc[t] \in Preparing /\ pc'[t] \notin Preparing /\ answer'[t] = answer[t]
      BY <1>2, <1>7 DEF StartRollback, SetLedger, Stage, TxnInv, UndecidedInert, Undecided, Preparing,
         LedgerTypes
    <2>2. Decides(t, "cancelled", Due[t])
      BY <1>0, <1>4, <2>1, FateOpen, FateCancelled DEF Decides
    <2> QED BY <1>1, <2>1, <2>2, PromiseStep
  <1>8. CASE RollbackDone(t)
    <2>1. /\ ledger[t] # "committing" /\ ledger'[t] # "committing" /\ applied[t] = {}
          /\ pc[t] \notin Preparing /\ pc'[t] \notin Preparing
          /\ answer'[t] = "cancelled"
      BY <1>2, <1>8 DEF RollbackDone, DeleteLedger, Stage, TxnInv, UndecidedInert, Undecided, Decision,
         Preparing, LedgerTypes
    <2>2. Tells(t)
      BY <1>0, <1>4, <2>1, FateCancelled DEF Tells
    <2> QED BY <1>1, <2>2, PromiseStep
  <1>9. CASE Abandon(t)
    <2>0. pc[t] \in Running /\ pc'[t] = "stopped" /\ ledger'[t] = ledger[t]
          /\ (answer'[t] = answer[t] \/ (pc[t] # "commit" /\ answer'[t] = "cancelled"))
      BY <1>2, <1>9 DEF Abandon, ledgerVars, LedgerTypes
    <2>1. CASE pc[t] = "commit"
      <3>1. ledger[t] = "committing" /\ answer'[t] = answer[t]
        BY <1>2, <2>0, <2>1 DEF Stage
      <3>2. Fate(t)' = Fate(t)
        BY <1>3, <2>0, <3>1, FateCommitted DEF Fate
      <3> QED BY <1>0, <1>1, <3>2, PromiseStep
    <2>2. CASE pc[t] \in Preparing
      <3>1. ledger[t] # "committing" /\ applied[t] = {} /\ answer'[t] \in {answer[t], "cancelled"}
        BY <1>2, <2>0, <2>2 DEF Stage, Preparing, TxnInv, UndecidedInert, Undecided
      <3>2. Decides(t, "cancelled", Due[t])
        <4>1. pc'[t] \notin Preparing
          BY <2>0 DEF Preparing
        <4> QED BY <1>0, <1>4, <2>0, <2>2, <3>1, <4>1, FateOpen, FateCancelled DEF Decides
      <3> QED BY <1>1, <3>1, <3>2, PromiseStep
    <2>3. CASE pc[t] = "rollback"
      <3>1. /\ ledger[t] # "committing" /\ applied[t] = {}
            /\ pc[t] \notin Preparing /\ pc'[t] \notin Preparing
            /\ answer'[t] \in {answer[t], "cancelled"}
        BY <1>2, <2>0, <2>3 DEF Stage, Preparing, TxnInv, UndecidedInert, Undecided, Decision
      <3>2. CASE answer'[t] = answer[t]
        <4>1. Fate(t)' = Fate(t)
          BY <1>0, <1>4, <2>0, <3>1, <3>2, FateCancelled DEF Fate
        <4> QED BY <1>0, <1>1, <4>1, PromiseStep
      <3>3. CASE answer'[t] = "cancelled"
        <4>1. Tells(t)
          BY <1>0, <1>4, <2>0, <3>1, <3>3, FateCancelled DEF Tells
        <4> QED BY <1>1, <4>1, PromiseStep
      <3> QED BY <3>1, <3>2, <3>3
    <2> QED BY <2>0, <2>1, <2>2, <2>3 DEF Running, Preparing
  <1> QED BY <1>5, <1>6, <1>7, <1>8, <1>9

(* The commit and rollback loops of a coordinator.                          *)
LEMMA LoopPromise ==
  ASSUME NEW t \in Txns, Known, Known', EffectInv,
         CommitWrite(t) \/ CommitDelete(t) \/ CommitCheck(t) \/ RollbackOp(t)
  PROVE  [Promise!Next]_(Promise!vars)
  <1> DEFINE p == pos[t]
  <1>0. UNCHANGED <<ledger, answer, req, image>> /\ (Stop(t) \/ Advance(t))
    BY DEF CommitWrite, CommitDelete, CommitCheck, RollbackOp, ledgerVars, prepareVars
  <1>1. Stage(t) /\ TxnInv(t) /\ Once(t) /\ TypeInv /\ TypeInv'
    BY DEF Known, MarkInv, MarkTxn, AnswerInv, EffectInv, EffectTxn
  <1>2. \A u \in Txns \ {t} : pc'[u] = pc[u]
    BY <1>0, <1>1 DEF Stop, Advance, TypeInv, LedgerTypes
  <1>3. CASE UNCHANGED <<applied, committed>>
    <2>1. \A u \in Txns \ {t} : Fate(u)' = Fate(u)
      BY <1>0, <1>2, <1>3, FateFrame
    <2>2. CASE pc'[t] = pc[t]
      <3>1. Fate(t)' = Fate(t)
        BY <1>0, <1>3, <2>2, FateFrame
      <3> QED BY <1>3, <2>1, <3>1, PromiseStep
    <2>3. CASE pc'[t] # pc[t]
      <3>1. pc[t] = "commit"
        BY <2>3 DEF CommitWrite, CommitDelete, CommitCheck, RollbackOp, Advance
      <3>2. ledger[t] = "committing" /\ ledger'[t] = "committing"
        BY <1>0, <1>1, <3>1 DEF Stage
      <3>3. /\ Effects(t)' = Effects(t) /\ KeysOf(t, Effects(t))' = KeysOf(t, Effects(t))
            /\ KeysOf(t, applied[t])' = KeysOf(t, applied[t])
        BY <1>0, <1>3 DEF Effects, KeysOf
      <3>4. Fate(t)' = Fate(t)
        BY <1>0, <3>2, <3>3, FateCommitted DEF Fate
      <3> QED BY <1>3, <2>1, <3>4, PromiseStep
    <2> QED BY <2>2, <2>3
  <1>4. ASSUME NEW x, prep[KeyOf(t, p)] = t, TakeEffect(t, p, KeyOf(t, p), x),
               CommitWrite(t) \/ CommitDelete(t)
        PROVE  [Promise!Next]_(Promise!vars)
    <2>1. p \in Effects(t) /\ ledger[t] = "committing"
      <3>1. p \in DOMAIN req[t]
        BY <1>4, LoopMarks DEF LoopStep
      <3> QED BY <1>1, <1>4, <3>1 DEF CommitWrite, CommitDelete, Effects, Stage
    <2>2. /\ applied'[t] = applied[t] \cup {p} /\ \A u \in Txns \ {t} : applied'[u] = applied[u]
          /\ committed' = [committed EXCEPT ![KeyOf(t, p)] = x]
      BY <1>1, <1>4 DEF TakeEffect, TypeInv, RequestTypes
    <2>3. x \in Items
      <3>1. KeyOf(t, p) \in Keys
        BY <1>1, <2>1, OpKeys DEF Effects
      <3> QED BY <1>1, <2>2, <3>1 DEF TypeInv, RowTypes
    <2>4. \E k \in Keys : Applies(t, k)
      BY <1>0, <1>1, <1>4, <2>1, <2>2, <2>3, EffectApplies
    <2>5. \A u \in Txns \ {t} : Fate(u)' = Fate(u)
      BY <1>0, <1>2, <2>2, FateFrame
    <2> QED BY <2>4, <2>5, PromiseStep
  <1>5. CASE CommitWrite(t)
    BY <1>3, <1>4, <1>5 DEF CommitWrite, KeyOf, historyVars
  <1>6. CASE CommitDelete(t)
    BY <1>3, <1>4, <1>6 DEF CommitDelete, KeyOf, historyVars
  <1>7. CASE CommitCheck(t) \/ RollbackOp(t)
    BY <1>3, <1>7 DEF CommitCheck, RollbackOp, historyVars
  <1> QED BY <1>5, <1>6, <1>7

(* A step that neither decides, applies nor answers.                        *)
LEMMA IdlePromise ==
  ASSUME Known, Known', UNCHANGED <<pc, ledger, answer, applied, req, image, committed>>
  PROVE  [Promise!Next]_(Promise!vars)
  <1>0. \A u \in Txns : Fate(u)' = Fate(u)
    BY FateFrame
  <1>1. CASE Txns = {}
    <2>1. Store' = Store
      BY StoreIsCommitted, StoreIsCommittedNext DEF Known, TypeInv
    <2>2. Outcome' = Outcome /\ Due' = Due /\ DoneKeys' = DoneKeys
      BY <1>1 DEF Outcome, Due, DoneKeys
    <2> QED BY <2>1, <2>2 DEF Promise!vars, Due, DoneKeys
  <1>2. CASE Txns # {}
    <2>1. PICK t \in Txns : TRUE
      BY <1>2
    <2> QED BY <1>0, <2>1, PromiseStep
  <1> QED BY <1>1, <1>2

(* An operation of a recovery pass.                                         *)
LEMMA RecoverPromise ==
  ASSUME NEW r \in Recoverers, Known, Known', EffectInv,
         RecoverWrite(r) \/ RecoverDelete(r) \/ RecoverCheck(r) \/ RecoverRollback(r)
  PROVE  [Promise!Next]_(Promise!vars)
  <1> PICK t \in Txns : t = rec[r].txn
    BY DEF RecoverWrite, RecoverDelete, RecoverCheck, RecoverRollback, Known, TypeInv, WorkerTypes,
           RecState
  <1> DEFINE p == rec[r].pos
  <1>0. UNCHANGED <<pc, ledger, answer, req, image>>
    BY DEF RecoverWrite, RecoverDelete, RecoverCheck, RecoverRollback, ledgerVars, prepareVars
  <1>1. /\ MarkTxn(t) /\ TxnInv(t) /\ Once(t) /\ Finished(t) /\ TypeInv /\ TypeInv'
    BY DEF Known, MarkInv, AnswerInv, EffectInv, EffectTxn
  <1>2. CASE UNCHANGED <<applied, committed>>
    BY <1>0, <1>2, IdlePromise
  <1>3. ASSUME NEW x, prep[KeyOf(t, p)] = t, TakeEffect(t, p, KeyOf(t, p), x),
               RecoverWrite(r) \/ RecoverDelete(r)
        PROVE  [Promise!Next]_(Promise!vars)
    <2>0. p \in Effects(t) /\ rec[r].mode = "commit"
      <3>1. p \in DOMAIN req[t]
        BY <1>3, RecoverMarks DEF LoopStep
      <3> QED BY <1>3, <3>1 DEF RecoverWrite, RecoverDelete, Effects, RecOp
    <2>1. ledger[t] = "committing"
      <3>1. p \notin applied[t]
        BY <1>1, <1>3 DEF Once
      <3>2. ledger[t] # "none"
        BY <1>1, <2>0, <3>1 DEF Finished
      <3> QED BY <1>1, <2>0, <3>2 DEF MarkTxn, Passes, RecoveryMode
    <2>2. /\ applied'[t] = applied[t] \cup {p} /\ \A u \in Txns \ {t} : applied'[u] = applied[u]
          /\ committed' = [committed EXCEPT ![KeyOf(t, p)] = x]
      BY <1>1, <1>3 DEF TakeEffect, TypeInv, RequestTypes
    <2>3. x \in Items
      <3>1. KeyOf(t, p) \in Keys
        BY <1>1, <2>0, OpKeys DEF Effects
      <3> QED BY <1>1, <2>2, <3>1 DEF TypeInv, RowTypes
    <2>4. \E k \in Keys : Applies(t, k)
      BY <1>0, <1>1, <1>3, <2>0, <2>1, <2>2, <2>3, EffectApplies
    <2>5. \A u \in Txns \ {t} : Fate(u)' = Fate(u)
      BY <1>0, <2>2, FateFrame
    <2> QED BY <2>4, <2>5, PromiseStep
  <1>4. CASE RecoverWrite(r)
    BY <1>2, <1>3, <1>4 DEF RecoverWrite, RecOp, KeyOf, historyVars
  <1>5. CASE RecoverDelete(r)
    BY <1>2, <1>3, <1>5 DEF RecoverDelete, RecOp, KeyOf, historyVars
  <1>6. CASE RecoverCheck(r) \/ RecoverRollback(r)
    BY <1>2, <1>6 DEF RecoverCheck, RecoverRollback, historyVars
  <1> QED BY <1>4, <1>5, <1>6

(* The end of a pass takes the ledger entry, and what was decided still     *)
(* shows: a committed transaction has an effect.                            *)
LEMMA PassEndPromise ==
  ASSUME NEW r \in Recoverers, WritingRequests, Known, Known', EffectInv, ImageInv, RecoverDone(r)
  PROVE  [Promise!Next]_(Promise!vars)
  <1> PICK t \in Txns : t = rec[r].txn
    BY DEF RecoverDone, Known, TypeInv, WorkerTypes, RecState
  <1>0. /\ UNCHANGED <<pc, answer, applied, req, image, committed>>
        /\ ledger'[t] = "none" /\ \A u \in Txns \ {t} : ledger'[u] = ledger[u]
    BY DEF RecoverDone, DeleteLedger, prepareVars, historyVars, Known, TypeInv, LedgerTypes
  <1>1. /\ MarkTxn(t) /\ TxnInv(t) /\ Finished(t) /\ Imaged(t) /\ pc[t] = "stopped"
    BY DEF Known, MarkInv, AnswerInv, EffectInv, EffectTxn, ImageInv, MarkTxn, Passes
  <1>2. \A u \in Txns \ {t} : Fate(u)' = Fate(u)
    BY <1>0, FateFrame
  <1>3. CASE ledger[t] = "none"
    BY <1>0, <1>2, <1>3, FateFrame, PromiseStep
  <1>4. CASE ledger[t] \notin {"none", "committing"}
    <2>1. (applied[t] = {} /\ answer[t] # "committed") \/ answer[t] = "committed"
      BY <1>1, <1>4 DEF Finished, Known, TypeInv, LedgerTypes, LedgerStates
    <2>2. /\ Effects(t)' = Effects(t) /\ KeysOf(t, Effects(t))' = KeysOf(t, Effects(t))
          /\ KeysOf(t, applied[t])' = KeysOf(t, applied[t])
      BY <1>0 DEF Effects, KeysOf
    <2>3. Fate(t)' = Fate(t)
      <3>1. CASE answer[t] = "committed"
        BY <1>0, <2>2, <3>1, FateCommitted DEF Fate
      <3>2. CASE applied[t] = {} /\ answer[t] # "committed"
        BY <1>0, <1>1, <1>4, <3>2, FateCancelled DEF Fate, Preparing
      <3> QED BY <2>1, <3>1, <3>2
    <2> QED BY <1>0, <1>2, <2>3, PromiseStep
  <1>5. CASE ledger[t] = "committing"
    <2>1. rec[r].mode = "commit" /\ ~failed[t] /\ todo[t] = {}
      BY <1>1, <1>5 DEF MarkTxn, Passes, RecoveryMode, Stage, TxnInv, UndecidedInert, Undecided
    <2>2. Effects(t) # {}
      <3>1. req[t] \in Requests
        BY <1>1 DEF Imaged
      <3>2. PICK i \in DOMAIN req[t] : req[t][i].kind \in {"put", "update", "delete"}
        BY <3>1 DEF WritingRequests
      <3>3. req[t][i].kind \in {"put", "update"} => image[t][i] # NoItem
        BY <1>1, <2>1 DEF Imaged
      <3> QED BY <3>2, <3>3 DEF Effects
    <2>3. Effects(t) \subseteq applied[t]
      <3>1. \A i \in Effects(t) : i < rec[r].pos
        <4>1. \A i \in DOMAIN req[t] : i \in Nat /\ i <= Len(req[t]) /\ Len(req[t]) \in Nat
          BY OpKeys DEF Known
        <4>2. rec[r].pos > Len(req[t]) /\ rec[r].pos \in Nat
          BY DEF RecoverDone, RecDone, Known, TypeInv, WorkerTypes, RecState
        <4> QED BY <4>1, <4>2 DEF Effects
      <3> QED BY <1>1, <2>1, <3>1 DEF Finished
    <2>4. applied[t] # {} /\ applied'[t] # {}
      BY <1>0, <2>2, <2>3
    <2>5. /\ Effects(t)' = Effects(t) /\ KeysOf(t, Effects(t))' = KeysOf(t, Effects(t))
          /\ KeysOf(t, applied[t])' = KeysOf(t, applied[t])
      BY <1>0 DEF Effects, KeysOf
    <2>6. Fate(t)' = Fate(t)
      BY <1>0, <2>4, <2>5, FateCommitted DEF Fate
    <2> QED BY <1>0, <1>2, <2>6, PromiseStep
  <1> QED BY <1>3, <1>4, <1>5

(* A single-item write.                                                     *)
LEMMA SinglePromise ==
  ASSUME NEW s \in Singles, Known, Known', SingleWrite(s)
  PROVE  [Promise!Next]_(Promise!vars)
  <1> DEFINE k == single[s].op.key
             x == PostImage(single[s].op, single[s].item, s)
  <1>0. /\ UNCHANGED <<pc, ledger, answer, applied, req, image>>
        /\ committed' = [committed EXCEPT ![k] = x]
    BY DEF SingleWrite, ledgerVars, prepareVars
  <1>1. k \in Keys /\ x \in Items
    <2>1. single[s].op \in Op /\ single[s].item \in Items /\ s \in Writers
      BY DEF SingleWrite, Known, TypeInv, WorkerTypes, SingleState, Writers
    <2> QED BY <2>1, PostImageTyped DEF Op
  <1> HIDE DEF k, x
  <1>2. Store' = [Store EXCEPT ![k] = x]
    BY <1>0, StoreIsCommitted, StoreIsCommittedNext DEF Known, TypeInv
  <1>3. \A u \in Txns : Fate(u)' = Fate(u)
    BY <1>0, FateFrame
  <1>4. Outcome' = Outcome /\ Due' = Due /\ DoneKeys' = DoneKeys
    BY <1>3, OutcomeTyped DEF Fate, Due, DoneKeys
  <1>5. Promise!SingleWrite
    BY <1>0, <1>1, <1>2, <1>4 DEF Promise!SingleWrite, Promise!Change, Due, DoneKeys
  <1> QED BY <1>5 DEF Promise!Next

LEMMA PromiseInit == Init => Promise!Init
  <1> SUFFICES ASSUME Init
               PROVE  Promise!Init
    OBVIOUS
  <1>1. Store \in [Keys -> Items]
    <2>1. Store = committed /\ committed \in [Keys -> Items]
      BY StoreIsCommitted, TypeInvInit, RowInvInit DEF TypeInv, RowTypes
    <2> QED BY <2>1
  <1>2. \A t \in Txns : Outcome[t] = "open" /\ Due[t] = {} /\ DoneKeys[t] = {}
    BY FateOpen DEF Init, Preparing
  <1>3. /\ Outcome = [t \in Txns |-> "open"] /\ Due = [t \in Txns |-> {}]
        /\ DoneKeys = [t \in Txns |-> {}]
    BY <1>2, OutcomeTyped DEF Due, DoneKeys
  <1>4. answer = [t \in Txns |-> "none"]
    BY DEF Init
  <1> QED BY <1>1, <1>3, <1>4 DEF Promise!Init, Due, DoneKeys

LEMMA PromiseNext ==
  ASSUME WritingRequests, Known, Known', EffectInv, ImageInv, [Next]_vars
  PROVE  [Promise!Next]_(Promise!vars)
  <1>1. ASSUME NEW t \in Txns, (\E q \in Requests : Begin(t, q)) \/ CoordinatorStep(t) \/ Abandon(t)
        PROVE  [Promise!Next]_(Promise!vars)
    BY <1>1, PreparePromise, PhasePromise, LoopPromise DEF CoordinatorStep
  <1>2. ASSUME NEW r \in Recoverers, RecoveryStep(r) \/ RecoverFails(r)
        PROVE  [Promise!Next]_(Promise!vars)
    <2>1. CASE (\E t \in Txns : StartRecovery(r, t)) \/ RecoverFails(r)
      BY <2>1, IdlePromise DEF StartRecovery, RecoverFails, ledgerVars, prepareVars, historyVars
    <2> QED BY <1>2, <2>1, RecoverPromise, PassEndPromise DEF RecoveryStep
  <1>3. ASSUME NEW s \in Singles, (\E o \in SingleOps : SingleRead(s, o)) \/ SingleStep(s)
        PROVE  [Promise!Next]_(Promise!vars)
    <2>1. CASE (\E o \in SingleOps : SingleRead(s, o)) \/ SingleRetry(s)
      BY <2>1, IdlePromise DEF SingleRead, SingleRetry, ledgerVars, prepareVars, historyVars
    <2> QED BY <1>3, <2>1, SinglePromise DEF SingleStep
  <1>4. CASE UNCHANGED vars
    BY <1>4, IdlePromise DEF vars
  <1> QED BY <1>1, <1>2, <1>3, <1>4 DEF Next

(* The whole protocol, with its markers, ledger, crashes and recovery       *)
(* passes, implements what TransactWriteItems promises: a call is decided   *)
(* once, a committed call changes each of its items once, nothing else but a*)
(* single-item write changes an item, and the answer is the decision        *)
(* (transact_write_items_impl, recover_transaction).  WritingRequests leaves*)
(* out the requests that may turn out to write nothing.                     *)
THEOREM TxnPromiseKept ==
  ASSUME PlainRequests, WritingRequests, ~EarlyRecovery
  PROVE  Spec => PromiseKept
  <1>1. Init => Known /\ EffectInv /\ ImageInv
    BY KnownInit, EffectInvInit, ImageInvInit
  <1>2. Known /\ EffectInv /\ ImageInv /\ [Next]_vars => Known' /\ EffectInv' /\ ImageInv'
    BY KnownNext, EffectInvNext, ImageInvNext
  <1>3. Known /\ Known' /\ EffectInv /\ ImageInv /\ [Next]_vars => [Promise!Next]_(Promise!vars)
    BY PromiseNext
  <1> QED BY <1>1, <1>2, <1>3, PromiseInit, PTL DEF Spec, PromiseKept, Promise!Spec

-----------------------------------------------------------------------------
(* NoLostUpdate.                                                            *)

(* A version is used once: a row that has the version a single-item write   *)
(* read still holds the item it read.                                       *)
Versions ==
    \A k \in Keys : /\ ver[k] <= clock
                    /\ ~live[k] => ver[k] = 0
                    /\ (item[k] # NoItem /\ ~ctp[k]) => ver[k] >= 1
ReadStands(s) ==
    LET k == single[s].op.key IN
    single[s].pc = "write" =>
        /\ single[s].ver <= clock
        /\ single[s].item # NoItem =>
              single[s].ver >= 1 /\ (ver[k] = single[s].ver => item[k] = single[s].item)

(* A planted row is what its operation starts from.                         *)
Planted(t) ==
    /\ pc[t] = "idle" => \A k \in Keys : prep[k] # t
    /\ \A i \in DOMAIN req[t] : (prep[KeyOf(t, i)] = t /\ ctp[KeyOf(t, i)])
           => item[KeyOf(t, i)] = IF req[t][i].kind = "put" THEN {t} ELSE {}

UpdateInv ==
    /\ TypeInv /\ RowInv /\ AnswerInv /\ Versions
    /\ \A s \in Singles : ReadStands(s)
    /\ \A t \in Txns : Planted(t)

(* What a step may do to a row: mark or release it, empty or plant it, or   *)
(* write it with a new version.                                             *)
RowMoves ==
    \A k \in Keys :
        \/ ver'[k] = ver[k] /\ item'[k] = item[k] /\ ctp'[k] = ctp[k] /\ (live[k] => live'[k])
        \/ ver'[k] = 0 /\ (item'[k] = NoItem \/ ctp'[k])
        \/ ver'[k] = clock' /\ clock' = clock + 1 /\ live'[k]
NoneMarked ==
    \A k \in Keys : /\ prep'[k] \in {prep[k], None}
                    /\ (prep'[k] # None /\ ctp'[k]) => ctp[k] /\ item'[k] = item[k]
Ticks == clock' \in {clock, clock + 1}

LEMMA StillMoves ==
  ASSUME UNCHANGED <<rowVars, clock>>
  PROVE  RowMoves /\ NoneMarked /\ Ticks
  BY DEF rowVars, RowMoves, NoneMarked, Ticks

LEMMA DeleteMoves ==
  ASSUME NEW k, TypeInv, DeleteRow(k), Ticks
  PROVE  RowMoves /\ NoneMarked
  BY DEF DeleteRow, RowMoves, NoneMarked, TypeInv, RowTypes

LEMMA CommitMoves ==
  ASSUME NEW k, NEW x, NEW stamp, TypeInv, RowInv, prep[k] # None, CommitRow(k, x, stamp)
  PROVE  RowMoves /\ NoneMarked /\ Ticks
  BY DEF CommitRow, RowMoves, NoneMarked, Ticks, TypeInv, RowTypes, RowInv, AbsentRowsEmpty

LEMMA UnmarkMoves ==
  ASSUME NEW t, NEW k, TypeInv, Unmark(t, k), UNCHANGED clock
  PROVE  RowMoves /\ NoneMarked /\ Ticks
  <1>1. Ticks
    BY DEF Ticks
  <1>2. CASE UNCHANGED rowVars
    BY <1>2, StillMoves
  <1>3. CASE DeleteRow(k)
    BY <1>1, <1>3, DeleteMoves
  <1>4. CASE ClearMarker(k)
    BY <1>1, <1>4 DEF ClearMarker, RowMoves, NoneMarked, TypeInv, RowTypes
  <1> QED BY <1>2, <1>3, <1>4 DEF Unmark

LEMMA MarkMoves ==
  ASSUME NEW t, NEW k, NEW o, TypeInv, Versions, MarkRow(t, k, o)
  PROVE  RowMoves
  <1>1. CASE PlantsRow(o, seen[t])
    BY <1>1 DEF MarkRow, RowMoves, Versions, TypeInv, RowTypes
  <1>2. CASE ~PlantsRow(o, seen[t])
    BY <1>2 DEF MarkRow, RowMoves, TypeInv, RowTypes
  <1> QED BY <1>1, <1>2

(* The steps of coordinators.                                               *)
LEMMA CoordinatorMoves ==
  ASSUME NEW t \in Txns, TypeInv, RowInv, CoordinatorStep(t), ~PrepareMark(t)
  PROVE  RowMoves /\ NoneMarked /\ Ticks
  <1> DEFINE k == req[t][pos[t]].key
  <1>0. t # None
    BY TxnAssumption
  <1>1. CASE \/ PrepareRead(t) \/ PrepareFails(t) \/ PrepareFloor(t) \/ PrepareLost(t)
             \/ PrepareWait(t) \/ SaveImages(t) \/ StartCommit(t) \/ CommitDone(t)
             \/ StartRollback(t) \/ RollbackDone(t)
    BY <1>1, StillMoves
    DEF PrepareRead, PrepareFails, PrepareFloor, PrepareLost, PrepareWait, SaveImages, StartCommit,
        CommitDone, StartRollback, RollbackDone
  <1>2. CASE CommitWrite(t)
    <2>1. CASE prep[k] = t
      <3>1. \E x : CommitRow(k, x, ts[t])
        BY <1>2, <2>1 DEF CommitWrite
      <3> QED BY <1>0, <2>1, <3>1, CommitMoves
    <2>2. CASE prep[k] # t
      BY <1>2, <2>2, StillMoves DEF CommitWrite
    <2> QED BY <2>1, <2>2
  <1>3. CASE CommitDelete(t)
    <2>1. CASE prep[k] = t
      BY <1>3, <2>1, DeleteMoves DEF CommitDelete, Ticks
    <2>2. CASE prep[k] # t
      BY <1>3, <2>2, StillMoves DEF CommitDelete
    <2> QED BY <2>1, <2>2
  <1>4. CASE CommitCheck(t)
    <2>1. CASE DeleteRow(k)
      BY <1>4, <2>1, DeleteMoves DEF CommitCheck, Ticks
    <2>2. CASE UNCHANGED rowVars
      BY <1>4, <2>2, StillMoves DEF CommitCheck
    <2> QED BY <1>4, <2>1, <2>2 DEF CommitCheck
  <1>5. CASE RollbackOp(t)
    <2>1. CASE Unmark(t, k)
      BY <1>5, <2>1, UnmarkMoves DEF RollbackOp
    <2>2. CASE UNCHANGED rowVars
      BY <1>5, <2>2, StillMoves DEF RollbackOp
    <2> QED BY <1>5, <2>1, <2>2 DEF RollbackOp
  <1> QED BY <1>1, <1>2, <1>3, <1>4, <1>5 DEF CoordinatorStep

(* The steps of recovery.                                                   *)
LEMMA RecoveryMoves ==
  ASSUME NEW r \in Recoverers, TypeInv, RowInv, RecoveryStep(r) \/ RecoverFails(r)
  PROVE  RowMoves /\ NoneMarked /\ Ticks
  <1> DEFINE k == RecOp(r).key
  <1>1. CASE (\E t \in Txns : StartRecovery(r, t)) \/ RecoverDone(r) \/ RecoverFails(r)
    BY <1>1, StillMoves DEF StartRecovery, RecoverDone, RecoverFails
  <1>2. CASE RecoverWrite(r)
    <2>1. CASE prep[k] = rec[r].txn
      <3>1. rec[r].txn # None /\ \E x : CommitRow(k, x, ts[rec[r].txn])
        BY <1>2, <2>1 DEF RecoverWrite
      <3> QED BY <2>1, <3>1, CommitMoves
    <2>2. CASE prep[k] # rec[r].txn
      BY <1>2, <2>2, StillMoves DEF RecoverWrite
    <2> QED BY <2>1, <2>2
  <1>3. CASE RecoverDelete(r)
    <2>1. CASE prep[k] = rec[r].txn
      BY <1>3, <2>1, DeleteMoves DEF RecoverDelete, Ticks
    <2>2. CASE prep[k] # rec[r].txn
      BY <1>3, <2>2, StillMoves DEF RecoverDelete
    <2> QED BY <2>1, <2>2
  <1>4. CASE RecoverCheck(r)
    <2>1. CASE DeleteRow(k)
      BY <1>4, <2>1, DeleteMoves DEF RecoverCheck, Ticks
    <2>2. CASE UNCHANGED rowVars
      BY <1>4, <2>2, StillMoves DEF RecoverCheck
    <2> QED BY <1>4, <2>1, <2>2 DEF RecoverCheck
  <1>5. CASE RecoverRollback(r)
    BY <1>5, UnmarkMoves DEF RecoverRollback
  <1> QED BY <1>1, <1>2, <1>3, <1>4, <1>5 DEF RecoveryStep

(* The steps of single-item writes.                                         *)
LEMMA SingleMoves ==
  ASSUME NEW s \in Singles, TypeInv, RowInv,
         (\E o \in SingleOps : SingleRead(s, o)) \/ SingleStep(s)
  PROVE  RowMoves /\ NoneMarked /\ Ticks
  <1> DEFINE k == single[s].op.key
             x == PostImage(single[s].op, single[s].item, s)
  <1>1. CASE SingleWrite(s)
    <2>1. prep[k] = None /\ clock' = clock + 1 /\ Ticks
      BY <1>1 DEF SingleWrite, Fence, Ticks
    <2>2. CASE single[s].op.kind = "delete"
      BY <1>1, <2>1, <2>2, DeleteMoves DEF SingleWrite
    <2>3. CASE single[s].op.kind # "delete"
      <3>1. /\ item' = [item EXCEPT ![k] = x] /\ live' = [live EXCEPT ![k] = TRUE]
            /\ ver' = [ver EXCEPT ![k] = clock + 1] /\ UNCHANGED <<prep, ctp>>
        BY <1>1, <2>3 DEF SingleWrite
      <3> HIDE DEF k, x
      <3> QED BY <2>1, <3>1 DEF RowMoves, NoneMarked, TypeInv, RowTypes
    <2> QED BY <2>2, <2>3
  <1>2. CASE UNCHANGED <<rowVars, clock>>
    BY <1>2, StillMoves
  <1> QED BY <1>1, <1>2 DEF SingleRead, SingleStep, SingleRetry

-----------------------------------------------------------------------------
(* The versions after a step.                                               *)
LEMMA VersionsNext ==
  ASSUME TypeInv, Versions, RowMoves, Ticks
  PROVE  Versions'
  <1>1. clock \in Nat /\ \A k \in Keys : ver[k] \in Nat
    BY DEF TypeInv, RowTypes
  <1> QED BY <1>1 DEF Versions, RowMoves, Ticks

LEMMA ReadStandsNext ==
  ASSUME NEW s \in Singles, TypeInv, RowMoves, Ticks, ReadStands(s), single'[s] = single[s]
  PROVE  ReadStands(s)'
  <1> SUFFICES ASSUME single[s].pc = "write"
               PROVE  ReadStands(s)'
    BY DEF ReadStands
  <1> DEFINE k == single[s].op.key
  <1>1. clock \in Nat /\ single[s].ver \in Nat /\ k \in Keys
    BY DEF TypeInv, RowTypes, WorkerTypes, SingleState, Op
  <1>2. /\ single[s].ver <= clock'
        /\ single[s].item # NoItem => single[s].ver >= 1
    BY <1>1 DEF ReadStands, Ticks
  <1>3. ASSUME single[s].item # NoItem, ver'[k] = single[s].ver
        PROVE  item'[k] = single[s].item
    <2>1. single[s].ver >= 1 /\ single[s].ver <= clock
      BY <1>3 DEF ReadStands
    <2>2. ver'[k] # 0 /\ ~(ver'[k] = clock' /\ clock' = clock + 1)
      BY <1>1, <1>3, <2>1
    <2>3. ver'[k] = ver[k] /\ item'[k] = item[k]
      BY <1>1, <2>2 DEF RowMoves
    <2> QED BY <1>3, <2>3 DEF ReadStands
  <1> QED BY <1>2, <1>3 DEF ReadStands

LEMMA PlantedNext ==
  ASSUME NEW t \in Txns, TypeInv, NoneMarked, Planted(t), req'[t] = req[t],
         pc'[t] = "idle" => pc[t] = "idle"
  PROVE  Planted(t)'
  <1>1. t # None
    BY TxnAssumption
  <1>2. \A i \in DOMAIN req[t] : KeyOf(t, i) \in Keys /\ KeyOf(t, i)' = KeyOf(t, i)
    BY OpKeys DEF KeyOf
  <1>3. \A k \in Keys : prep'[k] = t => prep[k] = t /\ (ctp'[k] => ctp[k] /\ item'[k] = item[k])
    BY <1>1 DEF NoneMarked
  <1> QED BY <1>2, <1>3 DEF Planted

(* The marker LWT.                                                          *)
LEMMA MarkPlants ==
  ASSUME NEW t \in Txns, TypeInv, RowInv, \A u \in Txns : Planted(u), PrepareMark(t)
  PROVE  \A u \in Txns : Planted(u)'
  <1> DEFINE o == CurOp(t)
             k == o.key
             c == Cur(t)
  <1>0. /\ c \in DOMAIN req[t] /\ k \in Keys /\ KeyOf(t, c) = k /\ req[t][c] = o /\ t # None
        /\ pc[t] = "mark" /\ pc'[t] # "idle" /\ MarkRow(t, k, o) /\ UNCHANGED req
        /\ \A u \in Txns \ {t} : pc'[u] = pc[u]
    <2>1. todo[t] # {}
      BY DEF PrepareMark, TypeInv, OpUnderway
    <2>2. c \in DOMAIN req[t] /\ k \in Keys
      BY <2>1, CurInTodo DEF TypeInv
    <2> QED BY <2>2, TxnAssumption DEF PrepareMark, FinishOp, FailOp, CurOp, KeyOf, TypeInv, LedgerTypes
  <1>1. /\ Elsewhere(k) /\ prep[k] = None /\ prep'[k] = t
        /\ \A u \in Txns : \A i \in DOMAIN req[u] : KeyOf(u, i) \in Keys /\ KeyOf(u, i)' = KeyOf(u, i)
        /\ \A i \in DOMAIN req[t] : KeyOf(t, i) = k => i = c
    BY <1>0, MarkEffect, OpKeys DEF KeyOf
  <1>2. ctp'[k] => item'[k] = IF o.kind = "put" THEN {t} ELSE {}
    <2>1. ~ctp[k]
      BY <1>0, <1>1 DEF RowInv, DataIntact
    <2>2. CASE PlantsRow(o, seen[t])
      BY <1>0, <2>2 DEF MarkRow, TypeInv, RowTypes
    <2>3. CASE ~PlantsRow(o, seen[t])
      BY <1>0, <2>1, <2>3 DEF MarkRow
    <2> QED BY <2>2, <2>3
  <1> HIDE DEF o, k, c
  <1>3. ASSUME NEW u \in Txns \ {t}
        PROVE  Planted(u)'
    BY <1>0, <1>1, <1>3 DEF Planted, Elsewhere
  <1>4. Planted(t)'
    <2>1. ASSUME NEW i \in DOMAIN req[t], prep'[KeyOf(t, i)] = t, ctp'[KeyOf(t, i)]
          PROVE  item'[KeyOf(t, i)] = IF req[t][i].kind = "put" THEN {t} ELSE {}
      <3>1. CASE i = c
        BY <1>0, <1>2, <2>1, <3>1
      <3>2. CASE i # c
        <4>1. KeyOf(t, i) \in Keys \ {k}
          BY <1>1, <3>2
        <4> QED BY <2>1, <4>1, <1>1 DEF Planted, Elsewhere
      <3> QED BY <3>1, <3>2
    <2>2. req'[t] = req[t] /\ \A i \in DOMAIN req[t] : KeyOf(t, i)' = KeyOf(t, i)
      BY <1>0, <1>1
    <2> QED BY <1>0, <2>1, <2>2 DEF Planted
  <1> QED BY <1>3, <1>4

LEMMA BeginPlants ==
  ASSUME NEW t \in Txns, NEW q \in Requests, TypeInv, \A u \in Txns : Planted(u), Begin(t, q),
         TypeInv'
  PROVE  \A u \in Txns : Planted(u)'
  <1>1. /\ UNCHANGED <<prep, ctp, item>> /\ pc[t] = "idle" /\ pc'[t] # "idle"
        /\ \A u \in Txns \ {t} : req'[u] = req[u] /\ pc'[u] = pc[u]
    BY DEF Begin, rowVars, TypeInv, LedgerTypes, RequestTypes
  <1>2. ASSUME NEW u \in Txns \ {t}
        PROVE  Planted(u)'
    <2>1. NoneMarked
      BY <1>1 DEF NoneMarked
    <2> QED BY <1>1, <1>2, <2>1, PlantedNext
  <1>3. Planted(t)'
    <2>0. req'[t] = q /\ q \in Seq(Op)
      BY TxnAssumption DEF Begin, TypeInv, RequestTypes
    <2>1. \A i \in DOMAIN req'[t] : req'[t][i].key \in Keys
      <3>1. \A i \in DOMAIN q : q[i] \in Op
        BY <2>0
      <3> QED BY <2>0, <3>1 DEF Op
    <2>2. \A i \in DOMAIN req'[t] : KeyOf(t, i)' \in Keys
      BY <2>1 DEF KeyOf
    <2>3. \A k \in Keys : prep'[k] # t
      BY <1>1 DEF Planted
    <2> QED BY <1>1, <2>2, <2>3 DEF Planted
  <1> QED BY <1>2, <1>3

(* What a single-item write reads.                                          *)
LEMMA SingleReadsRow ==
  ASSUME NEW s \in Singles, NEW o \in SingleOps, TypeInv, RowInv, Versions, SingleRead(s, o)
  PROVE  ReadStands(s)'
  <1> DEFINE k == o.key
  <1>1. k \in Keys /\ clock' = clock /\ ver' = ver /\ item' = item
    BY TxnAssumption DEF SingleRead, rowVars, Op
  <1>2. /\ single'[s].op = o /\ single'[s].item = item[k] /\ single'[s].ver = ver[k]
        /\ single'[s].pc = "write" => prep[k] = None
    BY DEF SingleRead, TypeInv, WorkerTypes
  <1>3. prep[k] = None => ~ctp[k]
    BY <1>1 DEF RowInv, DataIntact
  <1> QED BY <1>1, <1>2, <1>3 DEF ReadStands, Versions

LEMMA UpdateInvInit == Init => UpdateInv
  <1> SUFFICES ASSUME Init
               PROVE  UpdateInv
    OBVIOUS
  <1>1. Versions
    BY DEF Init, Versions
  <1>2. \A s \in Singles : ReadStands(s)
    BY DEF Init, ReadStands
  <1>3. \A t \in Txns : Planted(t)
    BY TxnAssumption DEF Init, Planted
  <1> QED BY <1>1, <1>2, <1>3, TypeInvInit, RowInvInit, AnswerInvInit DEF UpdateInv

LEMMA UpdateInvNext == UpdateInv /\ [Next]_vars => UpdateInv'
  <1> SUFFICES ASSUME UpdateInv, [Next]_vars
               PROVE  UpdateInv'
    OBVIOUS
  <1>0. /\ TypeInv /\ RowInv /\ AnswerInv /\ Versions
        /\ TypeInv' /\ RowInv' /\ AnswerInv'
        /\ \A s \in Singles : ReadStands(s)
        /\ \A t \in Txns : Planted(t)
    BY TypeInvNext, RowInvNext, AnswerInvNext DEF UpdateInv
  <1>1. ASSUME RowMoves, Ticks, \A s \in Singles : single'[s] = single[s]
        PROVE  Versions' /\ \A s \in Singles : ReadStands(s)'
    BY <1>0, <1>1, VersionsNext, ReadStandsNext
  <1>2. ASSUME NoneMarked, UNCHANGED req, \A t \in Txns : pc'[t] = "idle" => pc[t] = "idle"
        PROVE  \A t \in Txns : Planted(t)'
    BY <1>0, <1>2, PlantedNext
  <1>3. ASSUME NEW t \in Txns, NEW q \in Requests, Begin(t, q)
        PROVE  UpdateInv'
    <2>1. RowMoves /\ Ticks /\ UNCHANGED single
      BY <1>3, StillMoves DEF Begin
    <2> QED BY <1>0, <1>1, <1>3, <2>1, BeginPlants DEF UpdateInv
  <1>4. ASSUME NEW t \in Txns, CoordinatorStep(t) \/ Abandon(t), ~PrepareMark(t)
        PROVE  UpdateInv'
    <2>1. RowMoves /\ NoneMarked /\ Ticks
      BY <1>0, <1>4, CoordinatorMoves, StillMoves DEF Abandon
    <2>2. UNCHANGED <<single, req>> /\ \A u \in Txns : pc'[u] = "idle" => pc[u] = "idle"
      BY <1>0, <1>4, CoordinatorKeepsRequest
    <2> QED BY <1>0, <1>1, <1>2, <2>1, <2>2 DEF UpdateInv
  <1>5. ASSUME NEW t \in Txns, PrepareMark(t)
        PROVE  UpdateInv'
    <2>1. RowMoves /\ Ticks /\ UNCHANGED single
      BY <1>0, <1>5, MarkMoves DEF PrepareMark, Ticks
    <2> QED BY <1>0, <1>1, <1>5, <2>1, MarkPlants DEF UpdateInv
  <1>6. ASSUME NEW r \in Recoverers, RecoveryStep(r) \/ RecoverFails(r)
        PROVE  UpdateInv'
    <2>1. RowMoves /\ NoneMarked /\ Ticks
      BY <1>0, <1>6, RecoveryMoves
    <2>2. UNCHANGED <<single, req, pc>>
      BY <1>6 DEF RecoveryStep, StartRecovery, RecoverWrite, RecoverDelete, RecoverCheck,
         RecoverRollback, RecoverDone, RecoverFails, prepareVars
    <2> QED BY <1>0, <1>1, <1>2, <2>1, <2>2 DEF UpdateInv
  <1>7. ASSUME NEW s \in Singles, (\E o \in SingleOps : SingleRead(s, o)) \/ SingleStep(s)
        PROVE  UpdateInv'
    <2>1. RowMoves /\ NoneMarked /\ Ticks
      BY <1>0, <1>7, SingleMoves
    <2>2. UNCHANGED <<req, pc>> /\ \A v \in Singles \ {s} : single'[v] = single[v]
      BY <1>0, <1>7 DEF SingleRead, SingleStep, SingleWrite, SingleRetry, prepareVars, TypeInv,
         WorkerTypes
    <2>3. ReadStands(s)'
      <3>1. CASE \E o \in SingleOps : SingleRead(s, o)
        BY <1>0, <3>1, SingleReadsRow
      <3>2. CASE SingleStep(s)
        <4>1. single'[s].pc # "write"
          BY <1>0, <3>2 DEF SingleStep, SingleWrite, SingleRetry, TypeInv, WorkerTypes, SingleState
        <4> QED BY <4>1 DEF ReadStands
      <3> QED BY <1>7, <3>1, <3>2
    <2>4. \A v \in Singles : ReadStands(v)'
      BY <1>0, <2>1, <2>2, <2>3, ReadStandsNext
    <2> QED BY <1>0, <1>2, <2>1, <2>2, <2>4, VersionsNext DEF UpdateInv
  <1>8. CASE UNCHANGED vars
    <2>1. RowMoves /\ NoneMarked /\ Ticks /\ UNCHANGED <<single, req, pc>>
      BY <1>8, StillMoves DEF vars, rowVars
    <2> QED BY <1>0, <1>1, <1>2, <2>1 DEF UpdateInv
  <1> QED BY <1>3, <1>4, <1>5, <1>6, <1>7, <1>8 DEF Next

(* An update of a coordinator is applied to the item as it stands.          *)
LEMMA CommitUpdates ==
  ASSUME UpdateInv, NEW t \in Txns, CommitWrite(t), NEW i \in applied'[t] \ applied[t],
         req[t][i].kind = "update"
  PROVE  committed'[KeyOf(t, i)] = Updated(committed[KeyOf(t, i)], t)
  <1> DEFINE p == pos[t]
             o == req[t][p]
             k == o.key
  <1>0. p \in DOMAIN req[t] /\ k \in Keys /\ KeyOf(t, p) = k
    <2>1. p \in DOMAIN req[t]
      BY ReqDomain DEF CommitWrite, Done, UpdateInv, AnswerInv, AnswerTyped
    <2> QED BY <2>1, OpKeys DEF UpdateInv, KeyOf
  <1>1. prep[k] = t /\ TakeEffect(t, p, k, PostImage(o, item[k], t))
    BY DEF CommitWrite, historyVars
  <1>2. i = p
    BY <1>1 DEF TakeEffect, UpdateInv, TypeInv, RequestTypes
  <1>3. committed'[k] = Updated(item[k], t)
    BY <1>0, <1>1, <1>2 DEF TakeEffect, PostImage, UpdateInv, TypeInv, RowTypes
  <1>4. CASE ctp[k]
    <2>1. committed[k] = NoItem
      BY <1>0, <1>4 DEF UpdateInv, RowInv, DataIntact
    <2>2. item[k] = {}
      BY <1>0, <1>1, <1>2, <1>4 DEF UpdateInv, Planted, KeyOf
    <2>3. Updated({}, t) = Updated(NoItem, t)
      BY DEF Updated
    <2> QED BY <1>0, <1>2, <1>3, <2>1, <2>2, <2>3
  <1>5. CASE ~ctp[k]
    BY <1>0, <1>2, <1>3, <1>5 DEF UpdateInv, RowInv, DataIntact
  <1> QED BY <1>4, <1>5

(* An update of a single-item write is applied to the item as it stands.    *)
LEMMA SingleUpdates ==
  ASSUME UpdateInv, NEW s \in Singles, SingleWrite(s), single[s].op.kind = "update"
  PROVE  committed'[single[s].op.key] = Updated(committed[single[s].op.key], s)
  <1> DEFINE k == single[s].op.key
  <1>0. k \in Keys
    BY DEF SingleWrite, UpdateInv, TypeInv, WorkerTypes, Op
  <1>1. committed'[k] = Updated(single[s].item, s)
    BY <1>0 DEF SingleWrite, PostImage, UpdateInv, TypeInv, RowTypes
  <1>2. prep[k] = None /\ item[k] = committed[k]
    BY <1>0 DEF SingleWrite, Fence, UpdateInv, RowInv, DataIntact
  <1>3. item[k] = single[s].item
    BY DEF SingleWrite, Fence, UpdateInv, ReadStands
  <1> QED BY <1>1, <1>2, <1>3

-----------------------------------------------------------------------------
(* What recovery writes.                                                    *)

(* The image that PREPARE computed for an update is the update of the item  *)
(* as it stands, for as long as the transaction holds the row, unless the   *)
(* row changed between PREPARE's read and its marker.                       *)
Prepared(t) ==
    \A i \in DOMAIN req[t] :
        /\ i \in todo[t] => prep[KeyOf(t, i)] # t /\ image[t][i] = NoItem
        /\ (/\ prep[KeyOf(t, i)] = t /\ req[t][i].kind = "update"
            /\ image[t][i] # NoItem /\ i \notin outrun[t])
           => image[t][i] = Updated(committed[KeyOf(t, i)], t)
PreparedInv == OutrunTypes /\ \A t \in Txns : Prepared(t)

(* A write takes effect only on a row that it releases.                     *)
EffectsRelease == \A k \in Keys : committed'[k] = committed[k] \/ prep'[k] = None

LEMMA EffectReleases ==
  ASSUME TypeInv, NEW k, NEW x, committed' = [committed EXCEPT ![k] = x],
         k \in Keys => prep'[k] = None
  PROVE  EffectsRelease
  BY DEF EffectsRelease, TypeInv, RowTypes

LEMMA CoordinatorReleases ==
  ASSUME NEW t \in Txns, TypeInv, CoordinatorStep(t) \/ Abandon(t)
  PROVE  EffectsRelease
  <1>1. CASE CommitWrite(t) /\ prep[req[t][pos[t]].key] = t
    <2> DEFINE k == req[t][pos[t]].key
    <2>1. PICK x : CommitRow(k, x, ts[t]) /\ committed' = [committed EXCEPT ![k] = x]
      BY <1>1 DEF CommitWrite, TakeEffect
    <2>2. k \in Keys => prep'[k] = None
      BY <2>1 DEF CommitRow, TypeInv, RowTypes
    <2> QED BY <2>1, <2>2, EffectReleases
  <1>2. CASE CommitDelete(t) /\ prep[req[t][pos[t]].key] = t
    <2> DEFINE k == req[t][pos[t]].key
    <2>1. DeleteRow(k) /\ committed' = [committed EXCEPT ![k] = NoItem]
      BY <1>2 DEF CommitDelete, TakeEffect
    <2>2. k \in Keys => prep'[k] = None
      BY <2>1 DEF DeleteRow, TypeInv, RowTypes
    <2> QED BY <2>1, <2>2, EffectReleases
  <1>3. CASE UNCHANGED committed
    BY <1>3 DEF EffectsRelease
  <1>4. \/ UNCHANGED committed
        \/ CommitWrite(t) /\ prep[req[t][pos[t]].key] = t
        \/ CommitDelete(t) /\ prep[req[t][pos[t]].key] = t
    BY DEF CoordinatorStep, PrepareRead, PrepareFails, PrepareFloor, PrepareMark, PrepareLost,
       PrepareWait, SaveImages, StartCommit, CommitDone, StartRollback, RollbackDone, CommitWrite,
       CommitDelete, CommitCheck, RollbackOp, Abandon, historyVars
  <1> QED BY <1>1, <1>2, <1>3, <1>4

LEMMA RecoveryReleases ==
  ASSUME NEW r \in Recoverers, TypeInv, RecoveryStep(r) \/ RecoverFails(r)
  PROVE  EffectsRelease
  <1> DEFINE k == RecOp(r).key
             u == rec[r].txn
  <1>1. CASE RecoverWrite(r) /\ prep[k] = u
    <2>1. PICK x : CommitRow(k, x, ts[u]) /\ committed' = [committed EXCEPT ![k] = x]
      BY <1>1 DEF RecoverWrite, TakeEffect
    <2>2. k \in Keys => prep'[k] = None
      BY <2>1 DEF CommitRow, TypeInv, RowTypes
    <2> QED BY <2>1, <2>2, EffectReleases
  <1>2. CASE RecoverDelete(r) /\ prep[k] = u
    <2>1. DeleteRow(k) /\ committed' = [committed EXCEPT ![k] = NoItem]
      BY <1>2 DEF RecoverDelete, TakeEffect
    <2>2. k \in Keys => prep'[k] = None
      BY <2>1 DEF DeleteRow, TypeInv, RowTypes
    <2> QED BY <2>1, <2>2, EffectReleases
  <1>3. CASE UNCHANGED committed
    BY <1>3 DEF EffectsRelease
  <1>4. \/ UNCHANGED committed
        \/ RecoverWrite(r) /\ prep[k] = u
        \/ RecoverDelete(r) /\ prep[k] = u
    BY DEF RecoveryStep, StartRecovery, RecoverWrite, RecoverDelete, RecoverCheck,
       RecoverRollback, RecoverDone, RecoverFails, historyVars
  <1> QED BY <1>1, <1>2, <1>3, <1>4

LEMMA SingleReleases ==
  ASSUME NEW s \in Singles, TypeInv, (\E o \in SingleOps : SingleRead(s, o)) \/ SingleStep(s)
  PROVE  EffectsRelease
  <1>1. CASE SingleWrite(s)
    <2> DEFINE k == single[s].op.key
    <2>1. PICK x : committed' = [committed EXCEPT ![k] = x]
      BY <1>1 DEF SingleWrite
    <2>2. prep[k] = None /\ (DeleteRow(k) \/ UNCHANGED prep)
      BY <1>1 DEF SingleWrite, Fence
    <2>3. k \in Keys => prep'[k] = None
      BY <2>2 DEF DeleteRow, TypeInv, RowTypes
    <2> QED BY <2>1, <2>3, EffectReleases
  <1>2. CASE UNCHANGED committed
    BY <1>2 DEF EffectsRelease
  <1> QED BY <1>1, <1>2 DEF SingleRead, SingleStep, SingleRetry, historyVars

(* A step that neither marks a row for t nor images one it holds.           *)
LEMMA PreparedKept ==
  ASSUME NEW t \in Txns, TypeInv, Prepared(t), req'[t] = req[t], todo'[t] \subseteq todo[t],
         outrun[t] \subseteq outrun'[t],
         \A k \in Keys : prep'[k] = t => prep[k] = t /\ committed'[k] = committed[k],
         \A i \in DOMAIN req[t] : \/ image'[t][i] = image[t][i]
                                  \/ i \notin todo'[t] /\ prep'[KeyOf(t, i)] # t
  PROVE  Prepared(t)'
  <1>1. \A i \in DOMAIN req[t] : KeyOf(t, i) \in Keys /\ KeyOf(t, i)' = KeyOf(t, i)
    BY OpKeys DEF KeyOf
  <1> SUFFICES ASSUME NEW i \in DOMAIN req[t]
               PROVE  /\ i \in todo'[t] => prep'[KeyOf(t, i)] # t /\ image'[t][i] = NoItem
                      /\ (/\ prep'[KeyOf(t, i)] = t /\ req[t][i].kind = "update"
                          /\ image'[t][i] # NoItem /\ i \notin outrun'[t])
                         => image'[t][i] = Updated(committed'[KeyOf(t, i)], t)
    BY <1>1 DEF Prepared
  <1>2. KeyOf(t, i) \in Keys
    BY <1>1
  <1> QED BY <1>2 DEF Prepared

(* A step that touches no coordinator's images.                             *)
LEMMA PreparedStays ==
  ASSUME TypeInv, \A t \in Txns : Prepared(t), NoneMarked, EffectsRelease,
         UNCHANGED <<req, todo, image, outrun>>
  PROVE  \A t \in Txns : Prepared(t)'
  <1> SUFFICES ASSUME NEW t \in Txns
               PROVE  Prepared(t)'
    OBVIOUS
  <1>1. \A k \in Keys : prep'[k] = t => prep[k] = t /\ committed'[k] = committed[k]
    BY TxnAssumption DEF NoneMarked, EffectsRelease
  <1> QED BY <1>1, PreparedKept

LEMMA BeginPrepared ==
  ASSUME NEW t \in Txns, NEW q \in Requests, Begin(t, q), TypeInv, TypeInv', Planted(t),
         \A u \in Txns : Prepared(u)
  PROVE  \A u \in Txns : Prepared(u)'
  <1>1. /\ UNCHANGED <<prep, committed, outrun>> /\ req'[t] = q
        /\ \A i \in DOMAIN q : image'[t][i] = NoItem
        /\ \A k \in Keys : prep'[k] # t
        /\ \A u \in Txns \ {t} : req'[u] = req[u] /\ todo'[u] = todo[u] /\ image'[u] = image[u]
    BY DEF Begin, rowVars, historyVars, TypeInv, RequestTypes, Planted
  <1>2. ASSUME NEW u \in Txns \ {t}
        PROVE  Prepared(u)'
    BY <1>1, <1>2, PreparedKept
  <1>3. Prepared(t)'
    <2>1. \A i \in DOMAIN req'[t] : req'[t][i].key \in Keys
      <3>1. q \in Seq(Op)
        BY TxnAssumption
      <3>2. \A i \in DOMAIN q : q[i] \in Op
        BY <3>1
      <3> QED BY <1>1, <3>2 DEF Op
    <2>2. \A i \in DOMAIN req'[t] : KeyOf(t, i)' \in Keys
      BY <2>1 DEF KeyOf
    <2> QED BY <1>1, <2>2 DEF Prepared
  <1> QED BY <1>2, <1>3

(* An operation of PREPARE that ends or goes on without a marker.           *)
LEMMA ReadPrepared ==
  ASSUME NEW t \in Txns, TypeInv, \A u \in Txns : Prepared(u),
         PrepareRead(t) \/ PrepareFails(t) \/ PrepareFloor(t) \/ PrepareLost(t) \/ PrepareWait(t)
  PROVE  \A u \in Txns : Prepared(u)'
  <1> DEFINE c == Cur(t)
  <1>0. todo[t] # {}
    BY DEF PrepareRead, PrepareFails, PrepareFloor, PrepareLost, PrepareWait, TypeInv, OpUnderway
  <1>1. c \in todo[t] /\ c \in DOMAIN req[t]
    BY <1>0, CurInTodo DEF TypeInv
  <1>2. UNCHANGED <<prep, committed, req, outrun>>
    BY DEF PrepareRead, PrepareFails, PrepareFloor, PrepareLost, PrepareWait, rowVars, historyVars
  <1>3. (\E p : EnterOp(t, p)) \/ FailOp(t) \/ \E x : FinishOp(t, x)
    BY DEF PrepareRead, PrepareFails, PrepareFloor, PrepareLost, PrepareWait
  <1>4. /\ \A u \in Txns \ {t} : todo'[u] = todo[u] /\ image'[u] = image[u]
        /\ todo'[t] \subseteq todo[t]
    BY <1>3 DEF EnterOp, FailOp, FinishOp, TypeInv, RequestTypes
  <1>5. image'[t] = image[t] \/ (c \notin todo'[t] /\ \A i \in DOMAIN req[t] \ {c} : image'[t][i] = image[t][i])
    <2>1. CASE UNCHANGED image
      BY <2>1
    <2>2. ASSUME NEW x, FinishOp(t, x)
          PROVE  c \notin todo'[t] /\ \A i \in DOMAIN req[t] \ {c} : image'[t][i] = image[t][i]
      <3> DEFINE y == PostImage(CurOp(t), x, t)
      <3>1. image' = [image EXCEPT ![t] = [image[t] EXCEPT ![c] = y]] /\ c \notin todo'[t]
        BY <2>2 DEF FinishOp, TypeInv, RequestTypes
      <3> HIDE DEF y
      <3> QED BY <3>1 DEF TypeInv, RequestTypes
    <2> QED BY <1>3, <2>1, <2>2 DEF EnterOp, FailOp
  <1>6. prep'[KeyOf(t, c)] # t
    BY <1>1, <1>2 DEF Prepared
  <1> HIDE DEF c
  <1>7. Prepared(t)'
    BY <1>2, <1>4, <1>5, <1>6, PreparedKept
  <1>8. ASSUME NEW u \in Txns \ {t}
        PROVE  Prepared(u)'
    BY <1>2, <1>4, <1>8, PreparedKept
  <1> QED BY <1>7, <1>8

(* The marker LWT: the image stands on the row it marks.                    *)
LEMMA MarkPrepared ==
  ASSUME NEW t \in Txns, TypeInv, RowInv, OutrunTypes, \A u \in Txns : Prepared(u), PrepareMark(t)
  PROVE  \A u \in Txns : Prepared(u)'
  <1> DEFINE o == CurOp(t)
             k == o.key
             c == Cur(t)
  <1>0. /\ c \in todo[t] /\ c \in DOMAIN req[t] /\ k \in Keys /\ KeyOf(t, c) = k /\ req[t][c] = o
        /\ MarkRow(t, k, o) /\ UNCHANGED <<req, committed>>
    <2>1. todo[t] # {}
      BY DEF PrepareMark, TypeInv, OpUnderway
    <2>2. c \in todo[t] /\ c \in DOMAIN req[t] /\ k \in Keys
      BY <2>1, CurInTodo DEF TypeInv
    <2> QED BY <2>2 DEF PrepareMark, CurOp, KeyOf
  <1>1. /\ Elsewhere(k) /\ prep[k] = None /\ prep'[k] = t
        /\ \A u \in Txns : \A i \in DOMAIN req[u] : KeyOf(u, i) \in Keys /\ KeyOf(u, i)' = KeyOf(u, i)
        /\ \A i \in DOMAIN req[t] : KeyOf(t, i) = k => i = c
    BY <1>0, MarkEffect, OpKeys DEF KeyOf
  <1>2. committed'[k] = item[k]
    BY <1>0, <1>1 DEF RowInv, DataIntact
  <1>3. /\ \A u \in Txns \ {t} : todo'[u] = todo[u] /\ image'[u] = image[u] /\ outrun'[u] = outrun[u]
        /\ todo'[t] = todo[t] \ {c} /\ outrun[t] \subseteq outrun'[t]
        /\ item[k] # seen[t] => c \in outrun'[t]
    BY DEF PrepareMark, FinishOp, FailOp, TypeInv, RequestTypes, OutrunTypes
  <1>4. /\ \A i \in DOMAIN req[t] \ {c} : image'[t][i] = image[t][i]
        /\ image'[t][c] \in {image[t][c], PostImage(o, seen[t], t)}
    <2>1. CASE FailOp(t)
      BY <2>1 DEF FailOp
    <2>2. CASE FinishOp(t, seen[t])
      <3> DEFINE y == PostImage(o, seen[t], t)
      <3>1. image' = [image EXCEPT ![t] = [image[t] EXCEPT ![c] = y]]
        BY <2>2 DEF FinishOp
      <3> HIDE DEF y
      <3>2. /\ \A i \in DOMAIN req[t] \ {c} : image'[t][i] = image[t][i]
            /\ image'[t][c] = y
        BY <1>0, <3>1 DEF TypeInv, RequestTypes
      <3> QED BY <3>2 DEF y
    <2> QED BY <2>1, <2>2 DEF PrepareMark
  <1>5. ASSUME o.kind = "update", image'[t][c] # NoItem, c \notin outrun'[t]
        PROVE  image'[t][c] = Updated(committed'[k], t)
    <2>1. image[t][c] = NoItem
      BY <1>0 DEF Prepared
    <2>2. image'[t][c] = Updated(seen[t], t)
      BY <1>4, <1>5, <2>1 DEF PostImage
    <2> QED BY <1>2, <1>3, <1>5, <2>2
  <1> HIDE DEF o, k, c
  <1>6. ASSUME NEW u \in Txns \ {t}
        PROVE  Prepared(u)'
    <2>1. \A j \in Keys : prep'[j] = u => prep[j] = u /\ committed'[j] = committed[j]
      BY <1>0, <1>1, <1>6 DEF Elsewhere
    <2> QED BY <1>0, <1>3, <1>6, <2>1, PreparedKept
  <1>7. Prepared(t)'
    <2> SUFFICES ASSUME NEW i \in DOMAIN req[t]
                 PROVE  /\ i \in todo'[t] => prep'[KeyOf(t, i)] # t /\ image'[t][i] = NoItem
                        /\ (/\ prep'[KeyOf(t, i)] = t /\ req[t][i].kind = "update"
                            /\ image'[t][i] # NoItem /\ i \notin outrun'[t])
                           => image'[t][i] = Updated(committed'[KeyOf(t, i)], t)
      BY <1>0, <1>1 DEF Prepared
    <2>1. CASE i = c
      BY <1>0, <1>3, <1>5, <2>1
    <2>2. CASE i # c
      <3>1. KeyOf(t, i) \in Keys \ {k}
        BY <1>1, <2>2
      <3>2. prep'[KeyOf(t, i)] = prep[KeyOf(t, i)] /\ committed' = committed
        BY <1>0, <1>1, <3>1 DEF Elsewhere
      <3> QED BY <1>3, <1>4, <2>2, <3>2 DEF Prepared
    <2> QED BY <2>1, <2>2
  <1> QED BY <1>6, <1>7

LEMMA PreparedInit == Init => PreparedInv
  <1> SUFFICES ASSUME Init
               PROVE  PreparedInv
    OBVIOUS
  <1>1. OutrunTypes
    BY DEF Init, OutrunTypes
  <1>2. \A t \in Txns : DOMAIN req[t] = {}
    BY DEF Init
  <1> QED BY <1>1, <1>2 DEF PreparedInv, Prepared

LEMMA PreparedNext == UpdateInv /\ PreparedInv /\ [Next]_vars => PreparedInv'
  <1> SUFFICES ASSUME UpdateInv, PreparedInv, [Next]_vars
               PROVE  PreparedInv'
    OBVIOUS
  <1>0. /\ TypeInv /\ RowInv /\ AnswerInv /\ TypeInv' /\ OutrunTypes /\ OutrunTypes'
        /\ \A t \in Txns : Prepared(t) /\ Planted(t)
    BY TypeInvNext, OutrunNext DEF UpdateInv, PreparedInv
  <1> SUFFICES \A t \in Txns : Prepared(t)'
    BY <1>0 DEF PreparedInv
  <1>1. ASSUME NEW t \in Txns, NEW q \in Requests, Begin(t, q)
        PROVE  \A u \in Txns : Prepared(u)'
    BY <1>0, <1>1, BeginPrepared
  <1>2. ASSUME NEW t \in Txns,
               PrepareRead(t) \/ PrepareFails(t) \/ PrepareFloor(t) \/ PrepareLost(t) \/ PrepareWait(t)
        PROVE  \A u \in Txns : Prepared(u)'
    BY <1>0, <1>2, ReadPrepared
  <1>3. ASSUME NEW t \in Txns, PrepareMark(t)
        PROVE  \A u \in Txns : Prepared(u)'
    BY <1>0, <1>3, MarkPrepared
  <1>4. ASSUME NEW t \in Txns, CoordinatorStep(t) \/ Abandon(t), UNCHANGED <<todo, image>>, ~PrepareMark(t)
        PROVE  \A u \in Txns : Prepared(u)'
    <2>1. NoneMarked
      BY <1>0, <1>4, CoordinatorMoves, StillMoves DEF Abandon
    <2> QED BY <1>0, <1>4, <2>1, CoordinatorKeepsRequest, CoordinatorReleases, PreparedStays
  <1>5. ASSUME NEW t \in Txns, CoordinatorStep(t) \/ Abandon(t)
        PROVE  \A u \in Txns : Prepared(u)'
    <2>1. \/ PrepareRead(t) \/ PrepareFails(t) \/ PrepareFloor(t) \/ PrepareLost(t) \/ PrepareWait(t)
          \/ PrepareMark(t) \/ UNCHANGED <<todo, image>>
      BY <1>5 DEF CoordinatorStep, SaveImages, StartCommit, CommitDone, StartRollback, RollbackDone,
         CommitWrite, CommitDelete, CommitCheck, RollbackOp, Abandon, prepareVars
    <2> QED BY <1>2, <1>3, <1>4, <1>5, <2>1
  <1>6. ASSUME NEW r \in Recoverers, RecoveryStep(r) \/ RecoverFails(r)
        PROVE  \A u \in Txns : Prepared(u)'
    <2>1. UNCHANGED <<req, todo, image, outrun>>
      BY <1>6 DEF RecoveryStep, StartRecovery, RecoverWrite, RecoverDelete, RecoverCheck,
         RecoverRollback, RecoverDone, RecoverFails, prepareVars, historyVars, TakeEffect
    <2> QED BY <1>0, <1>6, <2>1, RecoveryMoves, RecoveryReleases, PreparedStays
  <1>7. ASSUME NEW s \in Singles, (\E o \in SingleOps : SingleRead(s, o)) \/ SingleStep(s)
        PROVE  \A u \in Txns : Prepared(u)'
    <2>1. UNCHANGED <<req, todo, image, outrun>>
      BY <1>7 DEF SingleRead, SingleStep, SingleWrite, SingleRetry, prepareVars, historyVars
    <2> QED BY <1>0, <1>7, <2>1, SingleMoves, SingleReleases, PreparedStays
  <1>8. CASE UNCHANGED vars
    <2>1. NoneMarked /\ EffectsRelease /\ UNCHANGED <<req, todo, image, outrun>>
      BY <1>8 DEF vars, NoneMarked, EffectsRelease
    <2> QED BY <1>0, <2>1, PreparedStays
  <1> QED BY <1>1, <1>5, <1>6, <1>7, <1>8 DEF Next

(* An update that recovery applies.                                         *)
LEMMA RecoverUpdates ==
  ASSUME UpdateInv, PreparedInv, NEW r \in Recoverers, RecoverWrite(r), NEW t \in Txns,
         t = rec[r].txn, NEW i \in applied'[t] \ applied[t], req[t][i].kind = "update",
         i \notin outrun[t]
  PROVE  committed'[KeyOf(t, i)] = Updated(committed[KeyOf(t, i)], t)
  <1> DEFINE p == rec[r].pos
             k == RecOp(r).key
             x == image[t][p]
  <1>1. p \in DOMAIN req[t] /\ k \in Keys /\ KeyOf(t, p) = k
    <2>1. p \in DOMAIN req[t]
      BY ReqDomain DEF RecoverWrite, RecDone, UpdateInv, AnswerInv, AnswerTyped, RecState
    <2> QED BY <2>1, OpKeys DEF UpdateInv, KeyOf, RecOp
  <1>2. prep[k] = t /\ x # NoItem /\ TakeEffect(t, p, k, x)
    BY DEF RecoverWrite, historyVars
  <1>3. i = p
    BY <1>2 DEF TakeEffect, UpdateInv, TypeInv, RequestTypes
  <1>4. committed'[k] = x
    BY <1>1, <1>2 DEF TakeEffect, UpdateInv, TypeInv, RowTypes
  <1>5. x = Updated(committed[k], t)
    BY <1>1, <1>2, <1>3 DEF PreparedInv, Prepared
  <1> QED BY <1>1, <1>3, <1>4, <1>5

(* Who makes operations of a transaction take effect.                       *)
LEMMA AppliedBy ==
  ASSUME TypeInv, AnswerInv, [Next]_vars, NEW t \in Txns, NEW i \in applied'[t] \ applied[t]
  PROVE  /\ i \in DOMAIN req[t]
         /\ \/ CommitWrite(t) \/ req[t][i].kind # "update"
            \/ \E r \in Recoverers : RecoverWrite(r) /\ t = rec[r].txn
  <1>0. applied' # applied
    OBVIOUS
  <1>1. ASSUME NEW u \in Txns, CommitWrite(u) \/ CommitDelete(u) \/ CommitCheck(u)
        PROVE  i \in DOMAIN req[t] /\ (CommitWrite(t) \/ req[t][i].kind # "update")
    <2>1. CommitEffect(u)
      BY <1>1, CommitEffects
    <2>2. u = t /\ i = pos[t] /\ i \in Effects(t)
      BY <2>1 DEF CommitEffect, TypeInv, RequestTypes
    <2>3. CommitCheck(u) => UNCHANGED applied
      BY DEF CommitCheck, historyVars
    <2> QED BY <1>1, <2>2, <2>3 DEF Effects, CommitDelete
  <1>2. ASSUME NEW r \in Recoverers,
               RecoverWrite(r) \/ RecoverDelete(r) \/ RecoverCheck(r) \/ RecoverRollback(r)
        PROVE  /\ i \in DOMAIN req[t]
               /\ req[t][i].kind # "update" \/ (RecoverWrite(r) /\ t = rec[r].txn)
    <2>1. RecoverEffect(r)
      BY <1>2, RecoverEffects
    <2>2. PICK u \in Txns : /\ u = rec[r].txn /\ rec[r].pos \in Effects(u)
                            /\ applied' = [applied EXCEPT ![u] = @ \cup {rec[r].pos}]
      BY <1>0, <2>1 DEF RecoverEffect
    <2>3. i \in Effects(t) /\ u = t /\ i = rec[r].pos
      BY <2>2 DEF TypeInv, RequestTypes
    <2>4. ~RecoverCheck(r) /\ ~RecoverRollback(r)
      BY <1>0 DEF RecoverCheck, RecoverRollback, historyVars
    <2> QED BY <1>2, <2>2, <2>3, <2>4 DEF Effects, RecoverDelete, RecOp
  <1>3. ASSUME NEW u \in Txns, CoordinatorStep(u) \/ Abandon(u)
        PROVE  CommitWrite(u) \/ CommitDelete(u) \/ CommitCheck(u)
    BY <1>0, <1>3 DEF CoordinatorStep, PrepareRead, PrepareFails, PrepareFloor, PrepareMark,
       PrepareLost, PrepareWait, SaveImages, StartCommit, CommitDone, StartRollback, RollbackDone,
       RollbackOp, Abandon, historyVars
  <1>4. ASSUME NEW r \in Recoverers, RecoveryStep(r) \/ RecoverFails(r)
        PROVE  RecoverWrite(r) \/ RecoverDelete(r) \/ RecoverCheck(r) \/ RecoverRollback(r)
    BY <1>0, <1>4 DEF RecoveryStep, StartRecovery, RecoverDone, RecoverFails, historyVars
  <1>5. ~UNCHANGED vars /\ (\A u \in Txns, q \in Requests : ~Begin(u, q))
        /\ \A s \in Singles : ~SingleStep(s) /\ \A o \in SingleOps : ~SingleRead(s, o)
    BY <1>0 DEF vars, Begin, SingleStep, SingleWrite, SingleRetry, SingleRead, historyVars
  <1> QED BY <1>1, <1>2, <1>3, <1>4, <1>5 DEF Next

(* No update is lost: an Update of a transaction or of a single-item write  *)
(* adds to the item as it stands when it takes effect, whatever fell        *)
(* between its read and its write (occ_write fences on the version,         *)
(* commit_single_operation applies the update again to the row it holds).   *)
(* That includes what recovery writes from the ledger (recover_commit_op),  *)
(* beside any number of coordinators, recovery workers and single-item      *)
(* writes, but for the operations whose row another write changed between   *)
(* PREPARE's read and its marker.                                           *)
THEOREM TxnNoLostUpdate == Spec => NoLostUpdate
  <1> DEFINE Txn == \A t \in Txns : \A i \in applied'[t] \ applied[t] :
                       LET o == req[t][i] IN
                       (o.kind = "update" /\ (pos'[t] # pos[t] \/ i \notin outrun[t])) =>
                           committed'[o.key] = Updated(committed[o.key], t)
  <1>1. ASSUME UpdateInv, PreparedInv, [Next]_vars
        PROVE  Txn
    <2> SUFFICES ASSUME NEW t \in Txns, NEW i \in applied'[t] \ applied[t], req[t][i].kind = "update",
                        pos'[t] # pos[t] \/ i \notin outrun[t]
                 PROVE  committed'[req[t][i].key] = Updated(committed[req[t][i].key], t)
      OBVIOUS
    <2>1. CommitWrite(t) \/ \E r \in Recoverers : RecoverWrite(r) /\ t = rec[r].txn
      BY <1>1, AppliedBy DEF UpdateInv
    <2>2. CASE CommitWrite(t)
      BY <1>1, <2>2, CommitUpdates DEF KeyOf
    <2>3. ASSUME NEW r \in Recoverers, RecoverWrite(r), t = rec[r].txn
          PROVE  committed'[req[t][i].key] = Updated(committed[req[t][i].key], t)
      <3>1. i \notin outrun[t]
        BY <2>3 DEF RecoverWrite
      <3> QED BY <1>1, <2>3, <3>1, RecoverUpdates DEF KeyOf
    <2> QED BY <2>1, <2>2, <2>3
  <1>2. ASSUME UpdateInv, [Next]_vars
        PROVE  SingleUpdateKept
    <2> SUFFICES ASSUME NEW s \in Singles, single[s].op.kind = "update", committed' # committed,
                        single'[s] # single[s]
                 PROVE  SingleWrite(s)
      BY <1>2, SingleUpdates DEF SingleUpdateKept
    <2>1. \A r \in Recoverers : ~(RecoveryStep(r) \/ RecoverFails(r))
      BY DEF RecoveryStep, StartRecovery, RecoverWrite, RecoverDelete, RecoverCheck,
         RecoverRollback, RecoverDone, RecoverFails
    <2>2. \A t \in Txns : ~(CoordinatorStep(t) \/ Abandon(t)) /\ \A q \in Requests : ~Begin(t, q)
      BY DEF CoordinatorStep, PrepareRead, PrepareFails, PrepareFloor, PrepareMark, PrepareLost,
         PrepareWait, SaveImages, StartCommit, CommitDone, StartRollback, RollbackDone, CommitWrite,
         CommitDelete, CommitCheck, RollbackOp, Abandon, Begin
    <2>3. PICK v \in Singles : (\E o \in SingleOps : SingleRead(v, o)) \/ SingleStep(v)
      BY <1>2, <2>1, <2>2 DEF Next, vars
    <2>4. SingleWrite(v)
      BY <2>3 DEF SingleRead, SingleStep, SingleRetry, historyVars
    <2>5. v = s
      BY <1>2, <2>4 DEF SingleWrite, UpdateInv, TypeInv, WorkerTypes
    <2> QED BY <2>4, <2>5
  <1>3. UpdateInv /\ PreparedInv /\ [Next]_vars => [Txn /\ SingleUpdateKept]_vars
    BY <1>1, <1>2
  <1> QED BY <1>3, UpdateInvInit, UpdateInvNext, PreparedInit, PreparedNext, PTL DEF Spec, NoLostUpdate

-----------------------------------------------------------------------------
(* ConditionsHold.                                                          *)

(* Nobody deletes: requests do not, and single-item writes write an item.   *)
(* A check of an item leaves no marker, and an item that PREPARE found may  *)
(* be deleted before its marker (MCCassTxnSkew).                            *)
NoDeletes ==
    /\ \A q \in Requests : \A i \in DOMAIN q : q[i].kind # "delete"
    /\ \A o \in SingleOps : o.kind \in {"put", "update"}

(* Then a row that is there has an item, a planted one too.                 *)
RowsFull == \A k \in Keys : live[k] => item[k] # NoItem
SinglesWrite == \A s \in Singles : single[s].pc # "idle" => single[s].op.kind \in {"put", "update"}

(* What PREPARE has seen of the row at hand is still so, if it was an item, *)
(* and an item that is to be absent was.                                    *)
SeenStands(t) ==
    pc[t] \in {"floor", "mark", "wait"} =>
        /\ (seen[t] # NoItem \/ CurOp(t).cond = "exists") => committed[CurOp(t).key] # NoItem
        /\ CurOp(t).cond = "absent" => seen[t] = NoItem

(* The condition of an operation PREPARE is done with still holds: items    *)
(* stay, and an absent one is behind a row the transaction planted.         *)
Secured(t, i) ==
    /\ req[t][i].cond = "exists" => committed[KeyOf(t, i)] # NoItem
    /\ req[t][i].cond = "absent" => prep[KeyOf(t, i)] = t /\ ctp[KeyOf(t, i)]
PrepareSecured(t) ==
    (pc[t] \in {"prepare", "floor", "mark", "wait", "saved"} /\ ~failed[t])
        => \A i \in (DOMAIN req[t]) \ todo[t] : Secured(t, i)

CondTxn(t) == SeenStands(t) /\ PrepareSecured(t)
CondInv == RowsFull /\ SinglesWrite /\ \A t \in Txns : CondTxn(t)

(* Items stay.                                                              *)
ItemsStay == \A k \in Keys : committed[k] # NoItem => committed'[k] # NoItem
Stays == RowsFull' /\ ItemsStay

LEMMA CondFrame ==
  ASSUME NEW u \in Txns, NEW t, u # t, TypeInv, CondTxn(u), OnlyRowsOf(t), ItemsStay,
         UNCHANGED <<pc[u], failed[u], req[u], todo[u], seen[u]>>
  PROVE  CondTxn(u)'
  <1>0. u # None
    BY TxnAssumption
  <1>1. /\ pc'[u] = pc[u] /\ failed'[u] = failed[u] /\ req'[u] = req[u] /\ todo'[u] = todo[u]
        /\ seen'[u] = seen[u]
    OBVIOUS
  <1>2. \A i \in DOMAIN req[u] : KeyOf(u, i) \in Keys /\ KeyOf(u, i)' = KeyOf(u, i)
    BY <1>1, OpKeys DEF KeyOf
  <1>3. CurOp(u)' = CurOp(u)
    BY <1>1 DEF CurOp, Cur
  <1>4. pc[u] \in {"floor", "mark", "wait"} => CurOp(u).key \in Keys
    BY CurInTodo DEF TypeInv, OpUnderway
  <1>5. SeenStands(u)'
    BY <1>1, <1>3, <1>4 DEF CondTxn, SeenStands, ItemsStay
  <1>6. \A i \in DOMAIN req[u] : Secured(u, i) => Secured(u, i)'
    BY <1>0, <1>1, <1>2 DEF Secured, ItemsStay, OnlyRowsOf
  <1>7. PrepareSecured(u)'
    BY <1>1, <1>6 DEF CondTxn, PrepareSecured
  <1> QED BY <1>5, <1>7 DEF CondTxn

(* A coordinator that is not preparing.                                     *)
LEMMA CondOver ==
  ASSUME NEW t \in Txns, pc'[t] \notin {"prepare", "floor", "mark", "wait", "saved"}
  PROVE  CondTxn(t)'
  BY DEF CondTxn, SeenStands, PrepareSecured

-----------------------------------------------------------------------------
(* Rows.                                                                    *)

LEMMA StillStays ==
  ASSUME RowsFull, UNCHANGED <<rowVars, committed>>
  PROVE  Stays
  BY DEF rowVars, RowsFull, Stays, ItemsStay

LEMMA CommitStays ==
  ASSUME NEW t, NEW i, NEW k, NEW x, NEW stamp, TypeInv, RowsFull, x # NoItem,
         CommitRow(k, x, stamp), TakeEffect(t, i, k, x)
  PROVE  Stays
  BY DEF CommitRow, TakeEffect, RowsFull, Stays, ItemsStay, TypeInv, RowTypes

LEMMA DropStays ==
  ASSUME NEW k, TypeInv, RowsFull, DeleteRow(k), UNCHANGED committed
  PROVE  Stays
  BY DEF DeleteRow, RowsFull, Stays, ItemsStay, TypeInv, RowTypes

LEMMA UnmarkStays ==
  ASSUME NEW t, NEW k, TypeInv, RowsFull, Unmark(t, k), UNCHANGED committed
  PROVE  Stays
  <1>1. CASE UNCHANGED rowVars
    BY <1>1, StillStays
  <1>2. CASE DeleteRow(k)
    BY <1>2, DropStays
  <1>3. CASE ClearMarker(k)
    BY <1>3 DEF ClearMarker, RowsFull, Stays, ItemsStay
  <1> QED BY <1>1, <1>2, <1>3 DEF Unmark

(* An item is written: it is an item.                                       *)
LEMMA WritesItem ==
  ASSUME NEW o, NEW x \in Items, NEW w \in Writers,
         o.kind \in {"put", "update"} \/ (o.kind = "trim" /\ x # NoItem)
  PROVE  PostImage(o, x, w) # NoItem
  <1>1. {w} \in SUBSET Writers
    OBVIOUS
  <1>2. Updated(x, w) \in SUBSET Writers
    BY DEF Updated, Items
  <1>3. \A y \in SUBSET Writers : y # NoItem
    BY TxnAssumption DEF Writers
  <1>4. PostImage(o, x, w) \in SUBSET Writers
    BY <1>1, <1>2 DEF PostImage
  <1> QED BY <1>3, <1>4

(* The operations of requests.                                              *)
LEMMA NoDeleteOps ==
  ASSUME NEW t \in Txns, TypeInv, NoDeletes
  PROVE  \A i \in DOMAIN req[t] : req[t][i].kind \in {"put", "update", "trim", "check"}
  <1>1. req[t] \in Requests \/ req[t] = <<>>
    BY DEF TypeInv, RequestTypes
  <1>2. \A i \in DOMAIN req[t] : req[t][i] \in Op
    BY ReqTyped DEF TypeInv, RequestTypes
  <1>3. \A i \in DOMAIN req[t] : req[t][i].kind # "delete"
    BY <1>1 DEF NoDeletes
  <1> QED BY <1>2, <1>3 DEF Op, Kinds

LEMMA CoordinatorStays ==
  ASSUME NEW t \in Txns, Known, RowsFull, NoDeletes,
         CommitWrite(t) \/ CommitDelete(t) \/ CommitCheck(t) \/ RollbackOp(t)
  PROVE  Stays
  <1> DEFINE p == pos[t]
             o == req[t][p]
             k == o.key
  <1>0. p \in DOMAIN req[t] /\ k \in Keys /\ o.kind \in {"put", "update", "trim", "check"} /\ t # None
    <2>1. p \in DOMAIN req[t]
      BY LoopMarks DEF LoopStep
    <2> QED BY <2>1, OpKeys, NoDeleteOps, TxnAssumption DEF Known, KeyOf
  <1>1. CASE CommitWrite(t)
    <2>1. CASE prep[k] = t
      <3>1. item[k] # NoItem /\ item[k] \in Items
        BY <1>0, <2>1 DEF Known, RowInv, AbsentRowsEmpty, RowsFull, TypeInv, RowTypes
      <3>2. PostImage(o, item[k], t) # NoItem
        BY <1>1, <3>1, WritesItem DEF CommitWrite, Writers
      <3>3. CommitRow(k, PostImage(o, item[k], t), ts[t]) /\ TakeEffect(t, p, k, PostImage(o, item[k], t))
        BY <1>1, <2>1 DEF CommitWrite
      <3> QED BY <3>2, <3>3, CommitStays DEF Known
    <2>2. CASE prep[k] # t
      BY <1>1, <2>2, StillStays DEF CommitWrite, historyVars
    <2> QED BY <2>1, <2>2
  <1>2. ~CommitDelete(t)
    BY <1>0 DEF CommitDelete
  <1>3. CASE CommitCheck(t)
    <2>1. CASE DeleteRow(k)
      BY <1>3, <2>1, DropStays DEF CommitCheck, historyVars, Known
    <2>2. CASE UNCHANGED rowVars
      BY <1>3, <2>2, StillStays DEF CommitCheck, historyVars
    <2> QED BY <1>3, <2>1, <2>2 DEF CommitCheck
  <1>4. CASE RollbackOp(t)
    <2>1. CASE Unmark(t, k)
      BY <1>4, <2>1, UnmarkStays DEF RollbackOp, historyVars, Known
    <2>2. CASE UNCHANGED rowVars
      BY <1>4, <2>2, StillStays DEF RollbackOp, historyVars
    <2> QED BY <1>4, <2>1, <2>2 DEF RollbackOp
  <1> QED BY <1>1, <1>2, <1>3, <1>4

LEMMA RecoveryStays ==
  ASSUME NEW r \in Recoverers, Known, RowsFull, NoDeletes,
         RecoverWrite(r) \/ RecoverDelete(r) \/ RecoverCheck(r) \/ RecoverRollback(r)
  PROVE  Stays
  <1> DEFINE t == rec[r].txn
             p == rec[r].pos
             k == RecOp(r).key
             x == image[t][p]
  <1>0. t \in Txns /\ p \in DOMAIN req[t] /\ RecOp(r).kind \in {"put", "update", "trim", "check"}
    <2>1. t \in Txns /\ p \in DOMAIN req[t]
      BY RecoverMarks DEF LoopStep
    <2> QED BY <2>1, NoDeleteOps DEF Known, RecOp
  <1>1. CASE RecoverWrite(r)
    <2>1. CASE prep[k] = t
      <3>1. x # NoItem /\ CommitRow(k, x, ts[t]) /\ TakeEffect(t, p, k, x)
        BY <1>1, <2>1 DEF RecoverWrite
      <3> QED BY <3>1, CommitStays DEF Known
    <2>2. CASE prep[k] # t
      BY <1>1, <2>2, StillStays DEF RecoverWrite, historyVars
    <2> QED BY <2>1, <2>2
  <1>2. ~RecoverDelete(r)
    BY <1>0 DEF RecoverDelete
  <1>3. CASE RecoverCheck(r)
    <2>1. CASE DeleteRow(k)
      BY <1>3, <2>1, DropStays DEF RecoverCheck, historyVars, Known
    <2>2. CASE UNCHANGED rowVars
      BY <1>3, <2>2, StillStays DEF RecoverCheck, historyVars
    <2> QED BY <1>3, <2>1, <2>2 DEF RecoverCheck
  <1>4. CASE RecoverRollback(r)
    BY <1>4, UnmarkStays DEF RecoverRollback, historyVars, Known
  <1> QED BY <1>1, <1>2, <1>3, <1>4

LEMMA SingleStays ==
  ASSUME NEW s \in Singles, Known, RowsFull, SinglesWrite, NoDeletes,
         (\E o \in SingleOps : SingleRead(s, o)) \/ SingleStep(s)
  PROVE  Stays /\ SinglesWrite'
  <1> DEFINE o == single[s].op
             k == o.key
             x == PostImage(o, single[s].item, s)
  <1>1. ASSUME SingleWrite(s) PROVE Stays
    <2>1. o.kind \in {"put", "update"} /\ single[s].item \in Items
      BY <1>1 DEF SingleWrite, SinglesWrite, Known, TypeInv, WorkerTypes, SingleState
    <2>2. x # NoItem
      BY <2>1, WritesItem DEF Writers
    <2>3. /\ item' = [item EXCEPT ![k] = x] /\ live' = [live EXCEPT ![k] = TRUE]
          /\ committed' = [committed EXCEPT ![k] = x]
      BY <1>1, <2>1 DEF SingleWrite
    <2> HIDE DEF k, x
    <2> QED BY <2>2, <2>3 DEF RowsFull, Stays, ItemsStay, Known, TypeInv, RowTypes
  <1>2. ASSUME UNCHANGED <<rowVars, committed>> PROVE Stays
    BY <1>2, StillStays
  <1>3. SinglesWrite'
    <2>1. \A v \in Singles \ {s} : single'[v] = single[v]
      BY DEF SingleRead, SingleStep, SingleWrite, SingleRetry, Known, TypeInv, WorkerTypes
    <2>2. single'[s].op.kind \in {"put", "update"}
      <3>1. CASE \E q \in SingleOps : SingleRead(s, q)
        BY <3>1 DEF SingleRead, NoDeletes, Known, TypeInv, WorkerTypes
      <3>2. CASE SingleStep(s)
        <4>1. single[s].pc = "write" /\ single[s] \in SingleState
          BY <3>2 DEF SingleStep, SingleWrite, SingleRetry, Known, TypeInv, WorkerTypes
        <4>2. \E q \in {"idle", "read", "write", "done"} : single'[s] = [single[s] EXCEPT !.pc = q]
          BY <3>2 DEF SingleStep, SingleWrite, SingleRetry, Known, TypeInv, WorkerTypes
        <4>3. single'[s].op = single[s].op
          BY <4>1, <4>2, SinglePcUpdate
        <4> QED BY <4>1, <4>3 DEF SinglesWrite
      <3> QED BY <3>1, <3>2
    <2> QED BY <2>1, <2>2 DEF SinglesWrite
  <1> QED BY <1>1, <1>2, <1>3 DEF SingleRead, SingleStep, SingleRetry, historyVars

-----------------------------------------------------------------------------
(* PREPARE.                                                                 *)

(* What PREPARE makes of a row nobody holds.                                *)
LEMMA FreeRow ==
  ASSUME NEW k \in Keys, RowInv, prep[k] = None
  PROVE  ~ctp[k] /\ item[k] = committed[k]
  BY DEF RowInv, DataIntact

LEMMA MarkStays ==
  ASSUME NEW t \in Txns, Known, CondInv, NoDeletes, PrepareMark(t)
  PROVE  Stays
  <1> DEFINE o == CurOp(t)
             k == o.key
  <1>1. k \in Keys /\ o.kind # "delete" /\ pc[t] = "mark" /\ UNCHANGED committed /\ MarkRow(t, k, o)
    <2>1. pc[t] = "mark" /\ UNCHANGED committed /\ MarkRow(t, k, o)
      BY DEF PrepareMark, historyVars
    <2>2. todo[t] # {}
      BY <2>1 DEF Known, TypeInv, OpUnderway
    <2>3. Cur(t) \in DOMAIN req[t] /\ k \in Keys
      BY <2>2, CurInTodo DEF Known, TypeInv
    <2> QED BY <2>1, <2>3, NoDeleteOps DEF CurOp, Known
  <1>2. PlantsRow(o, seen[t]) <=> seen[t] = NoItem
    BY <1>1 DEF PlantsRow
  <1>3. CASE seen[t] = NoItem
    <2>1. PICK x \in {{t}, {}} : item' = [item EXCEPT ![k] = x]
      BY <1>1, <1>2, <1>3 DEF MarkRow
    <2>2. x # NoItem
      <3>1. {t} \in SUBSET (Txns \cup Singles) /\ {} \in SUBSET (Txns \cup Singles)
        OBVIOUS
      <3> QED BY <3>1, TxnAssumption
    <2>3. live' = [live EXCEPT ![k] = TRUE]
      BY <1>1 DEF MarkRow
    <2> HIDE DEF k, o
    <2> QED BY <1>1, <2>1, <2>2, <2>3 DEF Stays, RowsFull, ItemsStay, CondInv, Known, TypeInv, RowTypes
  <1>4. CASE seen[t] # NoItem
    <2>1. committed[k] # NoItem
      BY <1>1, <1>4 DEF CondInv, CondTxn, SeenStands
    <2>2. prep[k] = None /\ UNCHANGED item /\ live' = [live EXCEPT ![k] = TRUE]
      BY <1>1, <1>2, <1>4 DEF MarkRow
    <2>3. item[k] # NoItem
      BY <1>1, <2>1, <2>2, FreeRow DEF Known
    <2> HIDE DEF k, o
    <2> QED BY <1>1, <2>2, <2>3 DEF Stays, RowsFull, ItemsStay, CondInv, Known, TypeInv, RowTypes
  <1> QED BY <1>3, <1>4

LEMMA PrepareCond ==
  ASSUME NEW t \in Txns, Known, CondInv, NoDeletes,
         \/ PrepareRead(t) \/ PrepareFails(t) \/ PrepareFloor(t)
         \/ PrepareMark(t) \/ PrepareLost(t) \/ PrepareWait(t)
  PROVE  CondTxn(t)' /\ Stays /\ OnlyRowsOf(t)
  <1> DEFINE o == CurOp(t)
             k == o.key
  <1>0. /\ pc[t] \in {"prepare", "floor", "mark", "wait"} /\ todo[t] # {}
        /\ UNCHANGED <<req, committed>>
        /\ pc'[t] \in {"prepare", "floor", "mark", "wait"}
    <2>1. UNCHANGED committed
      BY DEF PrepareRead, PrepareFails, PrepareFloor, PrepareMark, PrepareLost, PrepareWait,
             historyVars
    <2> QED BY <2>1, PrepareOwn
  <1> PICK c : c = Cur(t)
    OBVIOUS
  <1>1. /\ c \in todo[t] /\ c \in DOMAIN req[t] /\ k \in Keys /\ o = req[t][c] /\ KeyOf(t, c) = k
        /\ o.kind # "delete"
    <2>1. c \in todo[t] /\ c \in DOMAIN req[t] /\ k \in Keys
      BY <1>0, CurInTodo DEF Known, TypeInv
    <2> QED BY <2>1, NoDeleteOps DEF CurOp, Known, KeyOf
  <1>2. CondTxn(t) /\ RowsFull /\ RowInv
    BY DEF CondInv, Known
  <1>3. UNCHANGED rowVars \/ PrepareMark(t)
    BY DEF PrepareRead, PrepareFails, PrepareFloor, PrepareLost, PrepareWait
  <1>4. Stays
    BY <1>0, <1>2, <1>3, StillStays, MarkStays
  <1>5. OnlyRowsOf(t)
    <2>1. CASE UNCHANGED rowVars
      BY <2>1, SameRows
    <2>2. CASE PrepareMark(t)
      BY <1>1, <2>2, MarkEffect DEF PrepareMark, Known
    <2> QED BY <1>3, <2>1, <2>2
  <1>6. \A i \in DOMAIN req[t] : Secured(t, i) => Secured(t, i)'
    <2>1. \A i \in DOMAIN req[t] : KeyOf(t, i) \in Keys /\ KeyOf(t, i)' = KeyOf(t, i)
      BY <1>0, OpKeys DEF KeyOf, Known
    <2>2. \A j \in Keys : (prep[j] = t /\ ctp[j]) => (prep'[j] = t /\ ctp'[j])
      <3>1. CASE UNCHANGED rowVars
        BY <3>1 DEF rowVars
      <3>2. CASE PrepareMark(t)
        <4>1. Elsewhere(k) /\ prep[k] = None
          BY <1>1, <3>2, MarkEffect DEF PrepareMark, Known
        <4> QED BY <4>1, TxnAssumption DEF Elsewhere
      <3> QED BY <1>3, <3>1, <3>2
    <2> QED BY <1>0, <2>1, <2>2 DEF Secured
  <1>7. CASE FailOp(t)
    <2>1. pc'[t] = "prepare" /\ failed'[t]
      BY <1>7 DEF FailOp, Known, TypeInv, LedgerTypes
    <2>2. CondTxn(t)'
      BY <2>1 DEF CondTxn, SeenStands, PrepareSecured
    <2> QED BY <1>4, <1>5, <2>2
  <1>8. ASSUME NEW x, FinishOp(t, x), ~FailOp(t)
        PROVE  CondTxn(t)'
    <2>1. pc'[t] = "prepare" /\ failed'[t] = failed[t] /\ todo'[t] = todo[t] \ {c}
      BY <1>8 DEF FinishOp, Known, TypeInv, LedgerTypes, RequestTypes
    <2>2. Secured(t, c)'
      <3> DEFINE S == /\ o.cond = "exists" => committed[k] # NoItem
                      /\ o.cond = "absent" => prep'[k] = t /\ ctp'[k]
      <3>0. SUFFICES S
        <4>1. req'[t][c].cond = o.cond /\ KeyOf(t, c)' = k /\ committed' = committed
          BY <1>0, <1>1 DEF KeyOf
        <4> QED BY <4>1 DEF Secured
      <3>1. CASE PrepareMark(t)
        <4>1. pc[t] = "mark" /\ MarkRow(t, k, o)
          BY <3>1 DEF PrepareMark
        <4>2. o.cond = "exists" => committed[k] # NoItem
          BY <1>2, <4>1 DEF CondTxn, SeenStands
        <4>3. o.cond = "absent" => PlantsRow(o, seen[t])
          BY <1>1, <1>2, <4>1 DEF CondTxn, SeenStands, PlantsRow
        <4> QED BY <1>1, <4>1, <4>2, <4>3, MarkEffect DEF Known
      <3>2. CASE PrepareRead(t)
        <4>1. prep[k] = None /\ Holds(o.cond, item[k]) /\ item[k] # NoItem
          BY <1>8, <2>1, <3>2 DEF PrepareRead, EnterOp, TakesMarker, Known, TypeInv, LedgerTypes
        <4> QED BY <1>1, <1>2, <4>1, FreeRow DEF Holds
      <3>3. CASE PrepareWait(t)
        <4>1. live[k] /\ prep[k] = None /\ Holds(o.cond, item[k])
          BY <1>8, <2>1, <3>3 DEF PrepareWait, EnterOp, Known, TypeInv, LedgerTypes
        <4>2. item[k] # NoItem
          BY <1>1, <1>2, <4>1 DEF RowsFull
        <4> QED BY <1>1, <1>2, <4>1, <4>2, FreeRow DEF Holds
      <3>4. ~PrepareFails(t) /\ ~PrepareFloor(t) /\ ~PrepareLost(t)
        BY <1>8, <2>1 DEF PrepareFails, PrepareFloor, PrepareLost, EnterOp, Known, TypeInv, LedgerTypes
      <3> QED BY <3>1, <3>2, <3>3, <3>4
    <2>3. PrepareSecured(t)'
      BY <1>0, <1>2, <1>6, <2>1, <2>2 DEF CondTxn, PrepareSecured
    <2> QED BY <2>1, <2>3 DEF CondTxn, SeenStands
  <1>9. ASSUME NEW target \in {"floor", "mark", "wait"}, EnterOp(t, target), ~FailOp(t)
        PROVE  CondTxn(t)'
    <2>1. pc'[t] = target /\ failed'[t] = failed[t] /\ todo'[t] = todo[t]
      BY <1>9 DEF EnterOp, Known, TypeInv, LedgerTypes, RequestTypes
    <2>2. PrepareSecured(t)'
      BY <1>0, <1>2, <1>6, <2>1 DEF CondTxn, PrepareSecured
    <2>3. CurOp(t)' = o
      BY <1>0, <1>9 DEF CurOp, Cur, EnterOp
    <2>4. /\ (seen'[t] # NoItem \/ o.cond = "exists") => committed[k] # NoItem
          /\ o.cond = "absent" => seen'[t] = NoItem
      <3>1. CASE PrepareRead(t)
        <4>1. prep[k] = None /\ Holds(o.cond, item[k]) /\ seen'[t] = item[k]
          BY <1>9, <3>1 DEF PrepareRead, Known, TypeInv, LedgerTypes
        <4> QED BY <1>1, <1>2, <4>1, FreeRow DEF Holds
      <3>2. CASE PrepareWait(t)
        <4>0. seen'[t] = item[k] /\ pc[t] = "wait"
          BY <3>2 DEF PrepareWait, Known, TypeInv, LedgerTypes
        <4>1. CASE live[k]
          <5>1. prep[k] = None /\ Holds(o.cond, item[k])
            BY <1>9, <3>2, <4>1 DEF PrepareWait
          <5> QED BY <1>1, <1>2, <4>0, <5>1, FreeRow DEF Holds
        <4>2. CASE ~live[k]
          <5>1. item[k] = NoItem /\ prep[k] = None
            BY <1>1, <1>2, <4>2 DEF RowInv, AbsentRowsEmpty
          <5>2. o.cond = "exists" => committed[k] # NoItem
            BY <1>2, <4>0 DEF CondTxn, SeenStands
          <5> QED BY <1>1, <1>2, <4>0, <5>1, <5>2, FreeRow
        <4> QED BY <4>1, <4>2
      <3>3. CASE PrepareFloor(t) \/ PrepareLost(t)
        <4>1. pc[t] \in {"floor", "mark"} /\ seen' = seen
          BY <3>3 DEF PrepareFloor, PrepareLost
        <4> QED BY <1>2, <4>1 DEF CondTxn, SeenStands
      <3>4. ~PrepareFails(t) /\ ~PrepareMark(t)
        BY <1>9, <2>1 DEF PrepareFails, PrepareMark, FinishOp, Known, TypeInv, LedgerTypes
      <3> QED BY <3>1, <3>2, <3>3, <3>4
    <2>5. SeenStands(t)'
      BY <1>0, <2>3, <2>4 DEF SeenStands
    <2> QED BY <2>2, <2>5 DEF CondTxn
  <1> QED BY <1>4, <1>5, <1>7, <1>8, <1>9, PrepareOwn

-----------------------------------------------------------------------------
(* The invariant.                                                           *)

(* A step of t's coordinator, or of the recovery of t.                      *)
LEMMA CondOwnStep ==
  ASSUME NEW t, Known, CondInv, Stays, OnlyRowsOf(t), UNCHANGED single,
         t \in Txns => CondTxn(t)',
         \A u \in Txns \ {t} : UNCHANGED <<pc[u], failed[u], req[u], todo[u], seen[u]>>
  PROVE  CondInv'
  <1>1. ASSUME NEW u \in Txns, u # t
        PROVE  CondTxn(u)'
    BY <1>1, CondFrame DEF Known, CondInv, Stays
  <1>2. SinglesWrite'
    BY DEF CondInv, SinglesWrite
  <1> QED BY <1>1, <1>2 DEF CondInv, Stays

LEMMA CondInvInit == ASSUME NoDeletes PROVE Init => CondInv
  <1> SUFFICES ASSUME Init PROVE CondInv
    OBVIOUS
  <1>1. RowsFull
    <2>1. {} # NoItem
      BY TxnAssumption
    <2> QED BY <2>1 DEF Init, RowsFull
  <1>2. SinglesWrite
    BY DEF Init, SinglesWrite
  <1>3. \A t \in Txns : CondTxn(t)
    BY DEF Init, CondTxn, SeenStands, PrepareSecured
  <1> QED BY <1>1, <1>2, <1>3 DEF CondInv

LEMMA CondInvNext ==
  ASSUME NoDeletes, Known, CondInv, [Next]_vars
  PROVE  CondInv'
  <1>0. RowsFull /\ SinglesWrite
    BY DEF CondInv
  <1>1. ASSUME NEW t \in Txns, NEW q \in Requests, Begin(t, q)
        PROVE  CondInv'
    <2>1. UNCHANGED <<rowVars, single, committed>>
      BY <1>1 DEF Begin, historyVars
    <2>2. \A u \in Txns \ {t} : UNCHANGED <<pc[u], failed[u], req[u], todo[u], seen[u]>>
      BY <1>1 DEF Begin, Known, TypeInv, LedgerTypes, RequestTypes
    <2>3. pc'[t] = "prepare" /\ todo'[t] = DOMAIN req'[t]
      BY <1>1 DEF Begin, Known, TypeInv, LedgerTypes, RequestTypes
    <2>4. CondTxn(t)'
      BY <2>3 DEF CondTxn, SeenStands, PrepareSecured
    <2> QED BY <1>0, <2>1, <2>2, <2>4, StillStays, SameRows, CondOwnStep
  <1>2. ASSUME NEW t \in Txns,
               \/ PrepareRead(t) \/ PrepareFails(t) \/ PrepareFloor(t)
               \/ PrepareMark(t) \/ PrepareLost(t) \/ PrepareWait(t)
        PROVE  CondInv'
    <2>1. UNCHANGED single
      BY <1>2 DEF PrepareRead, PrepareFails, PrepareFloor, PrepareMark, PrepareLost, PrepareWait
    <2>2. \A u \in Txns \ {t} : UNCHANGED <<pc[u], failed[u], req[u], todo[u], seen[u]>>
      BY <1>2, PrepareOwn DEF MarkView
    <2> QED BY <1>2, <2>1, <2>2, PrepareCond, CondOwnStep
  <1>3. ASSUME NEW t \in Txns,
               \/ SaveImages(t) \/ StartCommit(t) \/ CommitDone(t) \/ StartRollback(t)
               \/ RollbackDone(t) \/ Abandon(t)
        PROVE  CondInv'
    <2>1. UNCHANGED <<rowVars, single, committed, req, todo, failed, seen>>
      BY <1>3 DEF SaveImages, StartCommit, CommitDone, StartRollback, RollbackDone, Abandon,
                  prepareVars, historyVars
    <2>2. \A u \in Txns \ {t} : pc'[u] = pc[u]
      BY <1>3 DEF SaveImages, StartCommit, CommitDone, StartRollback, RollbackDone, Abandon, Known,
                  TypeInv, LedgerTypes
    <2>3. CASE SaveImages(t)
      <3>1. pc[t] = "prepare" /\ pc'[t] = "saved"
        BY <2>3 DEF SaveImages, Known, TypeInv, LedgerTypes
      <3>2. \A i \in DOMAIN req[t] : Secured(t, i) => Secured(t, i)'
        BY <2>1 DEF Secured, KeyOf, rowVars
      <3>3. PrepareSecured(t)
        BY DEF CondInv, CondTxn
      <3>4. CondTxn(t)'
        BY <2>1, <3>1, <3>2, <3>3 DEF CondTxn, SeenStands, PrepareSecured
      <3> QED BY <1>0, <2>1, <2>2, <3>4, StillStays, SameRows, CondOwnStep
    <2>4. CASE ~SaveImages(t)
      <3>1. pc'[t] \notin {"prepare", "floor", "mark", "wait", "saved"}
        BY <1>3, <2>4 DEF StartCommit, CommitDone, StartRollback, RollbackDone, Abandon, Known,
                          TypeInv, LedgerTypes
      <3> QED BY <1>0, <2>1, <2>2, <3>1, CondOver, StillStays, SameRows, CondOwnStep
    <2> QED BY <2>3, <2>4
  <1>4. ASSUME NEW t \in Txns,
               CommitWrite(t) \/ CommitDelete(t) \/ CommitCheck(t) \/ RollbackOp(t)
        PROVE  CondInv'
    <2>1. UNCHANGED <<single, req, todo, failed, seen>> /\ (Stop(t) \/ Advance(t))
          /\ pc[t] \in {"commit", "rollback"}
      BY <1>4 DEF CommitWrite, CommitDelete, CommitCheck, RollbackOp, prepareVars
    <2>2. /\ \A u \in Txns \ {t} : pc'[u] = pc[u]
          /\ pc'[t] \notin {"prepare", "floor", "mark", "wait", "saved"}
      BY <2>1 DEF Stop, Advance, Known, TypeInv, LedgerTypes
    <2>3. Stays /\ OnlyRowsOf(t)
      BY <1>0, <1>4, CoordinatorStays, LoopMarks DEF LoopStep
    <2> QED BY <2>1, <2>2, <2>3, CondOver, CondOwnStep
  <1>5. ASSUME NEW r \in Recoverers, RecoveryStep(r) \/ RecoverFails(r)
        PROVE  CondInv'
    <2>1. UNCHANGED <<single, pc, req, todo, failed, seen>>
      BY <1>5 DEF RecoveryStep, RecoverFails, StartRecovery, RecoverWrite, RecoverDelete,
                  RecoverCheck, RecoverRollback, RecoverDone, prepareVars
    <2>2. CASE UNCHANGED <<rowVars, committed>>
      <3>1. None \notin Txns
        BY TxnAssumption
      <3>2. Stays /\ OnlyRowsOf(None)
        BY <1>0, <2>2, StillStays, SameRows
      <3> QED BY <2>1, <3>1, <3>2, CondOwnStep
    <2>3. CASE RecoverWrite(r) \/ RecoverDelete(r) \/ RecoverCheck(r) \/ RecoverRollback(r)
      <3> PICK t : t = rec[r].txn
        OBVIOUS
      <3>1. t \in Txns /\ OnlyRowsOf(t) /\ Stays
        BY <1>0, <2>3, RecoverMarks, RecoveryStays DEF LoopStep
      <3>2. pc[t] = "stopped"
        BY <3>1 DEF Known, MarkInv, MarkTxn, Passes
      <3>3. CondTxn(t)'
        BY <2>1, <3>1, <3>2, CondOver
      <3> QED BY <2>1, <3>1, <3>3, CondOwnStep
    <2> QED BY <1>5, <2>2, <2>3 DEF RecoveryStep, RecoverFails, StartRecovery, RecoverDone, historyVars
  <1>6. ASSUME NEW s \in Singles, (\E o \in SingleOps : SingleRead(s, o)) \/ SingleStep(s)
        PROVE  CondInv'
    <2>1. UNCHANGED <<pc, req, todo, failed, seen>>
      BY <1>6 DEF SingleRead, SingleStep, SingleWrite, SingleRetry, prepareVars
    <2>2. Stays /\ SinglesWrite' /\ OnlyRowsOf(None)
      BY <1>0, <1>6, SingleStays, SingleRows
    <2>3. ASSUME NEW u \in Txns
          PROVE  CondTxn(u)'
      <3>1. u # None /\ CondTxn(u) /\ TypeInv
        BY TxnAssumption DEF CondInv, Known
      <3> QED BY <2>1, <2>2, <3>1, CondFrame DEF Stays
    <2> QED BY <2>2, <2>3 DEF CondInv, Stays
  <1>7. CASE UNCHANGED vars
    <2>1. UNCHANGED <<rowVars, single, committed, pc, req, todo, failed, seen>> /\ None \notin Txns
      BY <1>7, TxnAssumption DEF vars, rowVars
    <2>2. Stays /\ OnlyRowsOf(None)
      BY <1>0, <2>1, StillStays, SameRows
    <2> QED BY <2>1, <2>2, CondOwnStep
  <1> QED BY <1>1, <1>2, <1>3, <1>4, <1>5, <1>6, <1>7 DEF Next, CoordinatorStep

(* Transactions are serializable at the moment they decide: whatever        *)
(* single-item writes, other transactions, crashes and recovery passes come *)
(* between the reads of PREPARE and the COMMITTING entry, every condition   *)
(* holds on the committed items at that moment, if nobody deletes           *)
(* (prepare_single_operation, execute_commit_phase).  The deletes have to   *)
(* be left out: a check of an item leaves no marker, and MCCassTxnSkew      *)
(* shows the item deleted before the decision.                              *)
THEOREM TxnConditionsHold ==
  ASSUME ~EarlyRecovery, NoDeletes
  PROVE  Spec => ConditionsHold
  <1> DEFINE Inv == Known /\ CondInv
             Step == \A t \in Txns : (pc[t] = "saved" /\ pc'[t] = "commit") =>
                        \A i \in DOMAIN req[t] : Holds(req[t][i].cond, committed[req[t][i].key])
  <1>1. Init => Inv
    BY KnownInit, CondInvInit
  <1>2. Inv /\ [Next]_vars => Inv'
    BY KnownNext, CondInvNext
  <1>3. Inv => Step
    <2> SUFFICES ASSUME Inv, NEW t \in Txns, pc[t] = "saved", NEW i \in DOMAIN req[t]
                 PROVE  Holds(req[t][i].cond, committed[req[t][i].key])
      OBVIOUS
    <2>1. todo[t] = {} /\ ~failed[t]
      BY DEF Known, MarkInv, MarkTxn, Stage, AnswerInv, TxnInv, Decision
    <2>2. Secured(t, i)
      BY <2>1 DEF CondInv, CondTxn, PrepareSecured
    <2>3. KeyOf(t, i) \in Keys
      BY OpKeys DEF Known
    <2>4. req[t][i].cond = "absent" => committed[KeyOf(t, i)] = NoItem
      BY <2>2, <2>3 DEF Secured, Known, RowInv, DataIntact
    <2> QED BY <2>2, <2>4 DEF Secured, Holds, KeyOf
  <1>4. Inv /\ [Next]_vars => [Step]_vars
    BY <1>3
  <1> QED BY <1>1, <1>2, <1>4, PTL DEF Spec, ConditionsHold
=============================================================================
