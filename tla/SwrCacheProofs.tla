--------------------------- MODULE SwrCacheProofs ---------------------------
(***************************************************************************)
(* Type correctness, bounded staleness and the single flight of refreshes,  *)
(* for any number of keys, callers, writers and refresh tasks and any TTLs  *)
(* that SwrCacheConfig::validate accepts.                                   *)
(***************************************************************************)
EXTENDS SwrCache, TLAPS

(* A load that has read the store: what it read was current when it was     *)
(* read, and that is at most MaxLoad ago.                                   *)
LoadTimely(l) ==
    /\ l.ver <= db[l.key]
    /\ l.readAt <= now /\ now <= l.readAt + MaxLoad
    /\ l.ver < db[l.key] => l.readAt <= writtenAt[l.key][l.ver + 1]

EntryTimely(k) ==
    /\ slot[k].ver <= db[k]
    /\ slot[k].fetchedAt <= now
    /\ slot[k].ver < db[k] => slot[k].fetchedAt <= writtenAt[k][slot[k].ver + 1] + MaxLoad

Carrying == {"loaded", "guarded", "owned"}

SlotsTimely == \A k \in Keys : slot[k] # NoEntry => EntryTimely(k)
ReadersTimely == \A r \in Readers : reader[r].pc = "loaded" => LoadTimely(reader[r])
RefreshesTimely == \A t \in Refreshers : refresh[t].pc \in Carrying => LoadTimely(refresh[t])

Timely == SlotsTimely /\ ReadersTimely /\ RefreshesTimely

(* The inductive invariant.                                                 *)
IInv == TypeOK /\ Timely

LEMMA SomeKeyType == SomeKey \in Keys
  BY BoundsAssumption DEF SomeKey

LEMMA IdleTypes ==
    /\ IdleReader \in ReaderState /\ IdleRefresh \in RefreshState
    /\ IdleWriter \in WriterState
  <1>1. 0 \in Versions /\ 0 \in Times /\ 0 \in Epochs
    BY BoundsAssumption DEF Versions, Times, Epochs
  <1> QED BY <1>1, SomeKeyType DEF IdleReader, IdleRefresh, IdleWriter,
        ReaderState, RefreshState, WriterState, ReaderPc, RefreshPc

(* An idle caller or task carries no load.                                  *)
LEMMA IdlePc ==
    /\ IdleReader.pc = "idle" /\ IdleRefresh.pc = "idle"
    /\ \A v, f : Served(v, f) \in ReaderState /\ Served(v, f).pc = "idle"
  BY IdleTypes DEF IdleReader, IdleRefresh, Served, ReaderState

LEMMA InitIInv == Init => IInv
  <1> SUFFICES ASSUME Init PROVE IInv
    OBVIOUS
  <1>0. 0 \in Versions /\ 0 \in Times /\ 0 \in Epochs
    BY BoundsAssumption DEF Versions, Times, Epochs
  <1>1. TypeOK
    BY <1>0, IdleTypes DEF Init, TypeOK
  <1>2. Timely
    BY IdlePc DEF Init, Timely, SlotsTimely, ReadersTimely, RefreshesTimely, Carrying
  <1> QED BY <1>1, <1>2 DEF IInv

LEMMA ZeroTypes == 0 \in Versions /\ 0 \in Times /\ 0 \in Epochs
  BY BoundsAssumption DEF Versions, Times, Epochs

LEMMA FreshIdType == CanAllocate => FreshId \in Ids
  BY DEF CanAllocate, FreshId

(* moka returns an entry of the map or nothing.                             *)
LEMMA MokaGetType ==
    ASSUME TypeOK, NEW k \in Keys PROVE MokaGet(k) \in Entry \cup {NoEntry}
  BY DEF TypeOK, MokaGet

(* A write in the store keeps its history well typed.                       *)
LEMMA StoreWriteType ==
    ASSUME TypeOK, NEW k \in Keys, StoreWrite(k)
    PROVE  /\ db' \in [Keys -> Versions] /\ writtenAt' \in [Keys -> [Versions -> Times]]
           /\ db[k] + 1 \in Versions
  <1>1. db[k] + 1 \in Versions
    BY BoundsAssumption DEF TypeOK, StoreWrite, Versions
  <1>2. db' \in [Keys -> Versions]
    BY <1>1 DEF TypeOK, StoreWrite
  <1>3. writtenAt' \in [Keys -> [Versions -> Times]]
    BY <1>1 DEF TypeOK, StoreWrite
  <1> QED BY <1>1, <1>2, <1>3

(* The field updates of the actions stay inside the state records.          *)
LEMMA ReaderUpdate ==
    ASSUME NEW x \in ReaderState, NEW p \in ReaderPc, NEW v \in Versions,
           NEW n \in Times, NEW e \in Epochs
    PROVE  /\ [x EXCEPT !.pc = p] \in ReaderState
           /\ [x EXCEPT !.pc = p, !.ver = v] \in ReaderState
           /\ [x EXCEPT !.pc = p, !.epoch = e] \in ReaderState
           /\ [x EXCEPT !.pc = p, !.readAt = n, !.ver = v] \in ReaderState
           /\ [x EXCEPT !.pc = p, !.ver = v, !.readAt = n] \in ReaderState
  BY DEF ReaderState

LEMMA RefreshUpdate ==
    ASSUME NEW x \in RefreshState, NEW p \in RefreshPc, NEW v \in Versions, NEW n \in Times
    PROVE  /\ [x EXCEPT !.pc = p] \in RefreshState
           /\ [x EXCEPT !.pc = p, !.readAt = n, !.ver = v] \in RefreshState
  BY DEF RefreshState

LEMMA PcTypes ==
    /\ \A p \in {"capture", "join", "check", "waiting", "loading", "loaded"} : p \in ReaderPc
    /\ \A p \in {"loaded", "guarded", "owned"} : p \in RefreshPc
  BY DEF ReaderPc, RefreshPc

(* The fields of a caller and of a refresh task.                            *)
LEMMA ReaderFields ==
    ASSUME NEW x \in ReaderState
    PROVE  x.key \in Keys /\ x.ver \in Versions /\ x.readAt \in Times
  BY DEF ReaderState

LEMMA RefreshFields ==
    ASSUME NEW x \in RefreshState
    PROVE  x.key \in Keys /\ x.ver \in Versions /\ x.readAt \in Times
  BY DEF RefreshState

LEMMA TypeStep == TypeOK /\ [Next]_vars => TypeOK'
  <1> SUFFICES ASSUME TypeOK, [Next]_vars PROVE TypeOK'
    OBVIOUS
  <1>1. ASSUME NEW r \in Readers, NEW k \in Keys, GetHit(r, k) PROVE TypeOK'
    <2>1. reader' \in [Readers -> ReaderState]
      BY <1>1, IdlePc DEF GetHit, TypeOK
    <2> QED BY <1>1, <2>1 DEF GetHit, TypeOK
  <1>2. ASSUME NEW r \in Readers, NEW k \in Keys, GetStale(r, k) PROVE TypeOK'
    <2>1. reader' \in [Readers -> ReaderState]
      BY <1>2, IdleTypes, MokaGetType DEF GetStale, TypeOK, Usable, ReaderState, ReaderPc, Entry
    <2> QED BY <1>2, <2>1 DEF GetStale, TypeOK
  <1>3. ASSUME NEW r \in Readers, NEW k \in Keys, GetMiss(r, k) PROVE TypeOK'
    <2>1. reader' \in [Readers -> ReaderState]
      BY <1>3, IdleTypes DEF GetMiss, TypeOK, ReaderState, ReaderPc
    <2> QED BY <1>3, <2>1 DEF GetMiss, TypeOK
  <1>4. ASSUME NEW r \in Readers, NEW t \in Refreshers, SpawnRefresh(r, t) PROVE TypeOK'
    <2>1. reader' \in [Readers -> ReaderState]
      BY <1>4, IdlePc DEF SpawnRefresh, TypeOK, Return
    <2>2. refresh' \in [Refreshers -> RefreshState]
      BY <1>4, IdleTypes DEF SpawnRefresh, TypeOK, ReaderState, RefreshState, RefreshPc, Epochs
    <2>3. inFlight' \subseteq Ids \cup {NoEntry}
      BY <1>4 DEF SpawnRefresh, TypeOK, ReaderState
    <2> QED BY <1>4, <2>1, <2>2, <2>3 DEF SpawnRefresh, TypeOK
  <1>5. ASSUME NEW r \in Readers, SkipRefresh(r) PROVE TypeOK'
    <2>1. reader' \in [Readers -> ReaderState]
      BY <1>5, IdlePc DEF SkipRefresh, TypeOK, Return
    <2> QED BY <1>5, <2>1 DEF SkipRefresh, TypeOK
  <1>6. ASSUME NEW r \in Readers, DropExpired(r) PROVE TypeOK'
    <2>1. reader' \in [Readers -> ReaderState]
      BY <1>6, ReaderUpdate, PcTypes, ReaderFields, ZeroTypes DEF DropExpired, TypeOK
    <2>2. slot' \in [Keys -> Entry \cup {NoEntry}]
      BY <1>6 DEF DropExpired, TypeOK, ReaderState
    <2> QED BY <1>6, <2>1, <2>2 DEF DropExpired, TypeOK
  <1>7. ASSUME NEW r \in Readers, CaptureEpoch(r) PROVE TypeOK'
    <2>1. reader' \in [Readers -> ReaderState]
      BY <1>7, ReaderUpdate, PcTypes, ReaderFields, ZeroTypes DEF CaptureEpoch, TypeOK
    <2> QED BY <1>7, <2>1 DEF CaptureEpoch, TypeOK
  <1>8. ASSUME NEW r \in Readers, TryGetWith(r) PROVE TypeOK'
    <2>1. reader' \in [Readers -> ReaderState]
      <3> DEFINE e == MokaGet(reader[r].key)
      <3>1. reader[r] \in ReaderState /\ reader[r].key \in Keys
        BY ReaderFields DEF TypeOK
      <3>2. e # NoEntry => e.ver \in Versions
        BY <3>1, MokaGetType DEF Entry
      <3>3. /\ [reader[r] EXCEPT !.pc = "waiting"] \in ReaderState
            /\ [reader[r] EXCEPT !.pc = "loading"] \in ReaderState
            /\ e # NoEntry => [reader[r] EXCEPT !.pc = "check", !.ver = e.ver] \in ReaderState
        BY <3>1, <3>2, ReaderUpdate, PcTypes, ZeroTypes
      <3> QED BY <1>8, <3>3 DEF TryGetWith, TypeOK
    <2>2. flight' \in [Keys -> Readers \cup {NoReader}]
      BY <1>8 DEF TryGetWith, TypeOK, ReaderState
    <2> QED BY <1>8, <2>1, <2>2 DEF TryGetWith, TypeOK
  <1>9. ASSUME NEW r \in Readers, LoaderRead(r) PROVE TypeOK'
    <2>1. reader' \in [Readers -> ReaderState]
      <3>1. reader[r] \in ReaderState /\ db[reader[r].key] \in Versions /\ now \in Times
        BY ReaderFields DEF TypeOK
      <3>2. [reader[r] EXCEPT !.pc = "loaded", !.readAt = now, !.ver = db[reader[r].key]]
                \in ReaderState
        BY <3>1, ReaderUpdate, PcTypes, ZeroTypes
      <3> QED BY <1>9, <3>2 DEF LoaderRead, TypeOK
    <2> QED BY <1>9, <2>1 DEF LoaderRead, TypeOK
  <1>10. ASSUME NEW r \in Readers, LoaderInsert(r) PROVE TypeOK'
    <2>1. reader' \in [Readers -> ReaderState]
      BY <1>10, ZeroTypes, ReaderUpdate, PcTypes, ReaderFields DEF LoaderInsert, TypeOK
    <2>2. slot' \in [Keys -> Entry \cup {NoEntry}]
      BY <1>10, FreshIdType DEF LoaderInsert, TypeOK, ReaderState, NewEntry, Entry
    <2>3. flight' \in [Keys -> Readers \cup {NoReader}]
      BY <1>10 DEF LoaderInsert, TypeOK, ReaderState
    <2> QED BY <1>10, <2>1, <2>2, <2>3 DEF LoaderInsert, TypeOK
  <1>11. ASSUME NEW r \in Readers, CheckEpoch(r) PROVE TypeOK'
    <2>1. reader' \in [Readers -> ReaderState]
      BY <1>11, IdlePc DEF CheckEpoch, TypeOK, Return
    <2>2. slot' \in [Keys -> Entry \cup {NoEntry}]
      BY <1>11 DEF CheckEpoch, TypeOK, ReaderState
    <2> QED BY <1>11, <2>1, <2>2 DEF CheckEpoch, TypeOK
  <1>12. ASSUME NEW r \in Readers, LoaderFail(r) PROVE TypeOK'
    <2>1. reader' \in [Readers -> ReaderState]
      BY <1>12, IdleTypes DEF LoaderFail, TypeOK
    <2>2. flight' \in [Keys -> Readers \cup {NoReader}]
      BY <1>12 DEF LoaderFail, TypeOK, ReaderState
    <2> QED BY <1>12, <2>1, <2>2 DEF LoaderFail, TypeOK
  <1>13. ASSUME NEW r \in Readers, DropCaller(r) PROVE TypeOK'
    <2>1. reader' \in [Readers -> ReaderState]
      BY <1>13, IdleTypes DEF DropCaller, TypeOK, ReaderState, ReaderPc
    <2>2. flight' \in [Keys -> Readers \cup {NoReader}]
      BY <1>13 DEF DropCaller, TypeOK, ReaderState
    <2> QED BY <1>13, <2>1, <2>2 DEF DropCaller, TypeOK
  <1>14. ASSUME NEW t \in Refreshers, RefreshRead(t) PROVE TypeOK'
    <2>1. refresh' \in [Refreshers -> RefreshState]
      BY <1>14, RefreshUpdate, PcTypes, RefreshFields DEF RefreshRead, TypeOK
    <2> QED BY <1>14, <2>1 DEF RefreshRead, TypeOK
  <1>15. ASSUME NEW t \in Refreshers, RefreshGuardEpoch(t) PROVE TypeOK'
    <2>1. refresh' \in [Refreshers -> RefreshState]
      <3>1. refresh[t] \in RefreshState
        BY DEF TypeOK
      <3>2. [refresh[t] EXCEPT !.pc = "guarded"] \in RefreshState
        BY <3>1, RefreshUpdate, PcTypes, ZeroTypes
      <3> QED BY <1>15, <3>2, IdleTypes DEF RefreshGuardEpoch, EndRefresh, TypeOK
    <2>2. inFlight' \subseteq Ids \cup {NoEntry}
      BY <1>15 DEF RefreshGuardEpoch, TypeOK, EndRefresh
    <2> QED BY <1>15, <2>1, <2>2 DEF RefreshGuardEpoch, TypeOK
  <1>16. ASSUME NEW t \in Refreshers, RefreshGuardSlot(t) PROVE TypeOK'
    <2>1. refresh' \in [Refreshers -> RefreshState]
      <3>1. refresh[t] \in RefreshState
        BY DEF TypeOK
      <3>2. [refresh[t] EXCEPT !.pc = "owned"] \in RefreshState
        BY <3>1, RefreshUpdate, PcTypes, ZeroTypes
      <3> QED BY <1>16, <3>2, IdleTypes DEF RefreshGuardSlot, EndRefresh, TypeOK
    <2>2. inFlight' \subseteq Ids \cup {NoEntry}
      BY <1>16 DEF RefreshGuardSlot, TypeOK, EndRefresh
    <2> QED BY <1>16, <2>1, <2>2 DEF RefreshGuardSlot, TypeOK
  <1>17. ASSUME NEW t \in Refreshers, RefreshInsert(t) PROVE TypeOK'
    <2>1. refresh' \in [Refreshers -> RefreshState]
      BY <1>17, IdleTypes DEF RefreshInsert, TypeOK, EndRefresh
    <2>2. inFlight' \subseteq Ids \cup {NoEntry}
      BY <1>17 DEF RefreshInsert, TypeOK, EndRefresh
    <2>3. slot' \in [Keys -> Entry \cup {NoEntry}]
      BY <1>17, FreshIdType DEF RefreshInsert, TypeOK, RefreshState, NewEntry, Entry
    <2> QED BY <1>17, <2>1, <2>2, <2>3 DEF RefreshInsert, TypeOK
  <1>18. ASSUME NEW t \in Refreshers, RefreshFail(t) PROVE TypeOK'
    <2>1. refresh' \in [Refreshers -> RefreshState]
      BY <1>18, IdleTypes DEF RefreshFail, TypeOK, EndRefresh
    <2>2. inFlight' \subseteq Ids \cup {NoEntry}
      BY <1>18 DEF RefreshFail, TypeOK, EndRefresh
    <2> QED BY <1>18, <2>1, <2>2 DEF RefreshFail, TypeOK
  <1>19. ASSUME NEW w \in Writers, NEW k \in Keys, NEW ks \in {{k}, Keys}, Write(w, k, ks) PROVE TypeOK'
    <2>1. db' \in [Keys -> Versions]
      BY <1>19, StoreWriteType DEF Write, TypeOK
    <2>2. writtenAt' \in [Keys -> [Versions -> Times]]
      BY <1>19, StoreWriteType DEF Write, TypeOK
    <2>3. writer' \in [Writers -> WriterState]
      BY <1>19, StoreWriteType DEF Write, TypeOK, WriterState
    <2> QED BY <1>19, <2>1, <2>2, <2>3 DEF Write, TypeOK
  <1>20. ASSUME NEW w \in Writers, BumpEpoch(w) PROVE TypeOK'
    <2>1. epoch' \in Epochs
      BY <1>20 DEF BumpEpoch, TypeOK, Epochs
    <2>2. writer' \in [Writers -> WriterState]
      BY <1>20 DEF BumpEpoch, TypeOK, WriterState
    <2> QED BY <1>20, <2>1, <2>2 DEF BumpEpoch, TypeOK
  <1>21. ASSUME NEW w \in Writers, InvalidateSlots(w) PROVE TypeOK'
    <2>1. slot' \in [Keys -> Entry \cup {NoEntry}]
      BY <1>21 DEF InvalidateSlots, TypeOK
    <2>2. invalidated' \in [Keys -> Versions]
      BY <1>21 DEF InvalidateSlots, TypeOK, WriterState
    <2>3. writer' \in [Writers -> WriterState]
      BY <1>21, IdleTypes DEF InvalidateSlots, TypeOK
    <2> QED BY <1>21, <2>1, <2>2, <2>3 DEF InvalidateSlots, TypeOK
  <1>22. ASSUME NEW k \in Keys, RemoteWrite(k) PROVE TypeOK'
    <2>1. db' \in [Keys -> Versions]
      BY <1>22, StoreWriteType DEF RemoteWrite, TypeOK
    <2>2. writtenAt' \in [Keys -> [Versions -> Times]]
      BY <1>22, StoreWriteType DEF RemoteWrite, TypeOK
    <2> QED BY <1>22, <2>1, <2>2 DEF RemoteWrite, TypeOK
  <1>23. ASSUME NEW k \in Keys, Evict(k) PROVE TypeOK'
    <2>1. slot' \in [Keys -> Entry \cup {NoEntry}]
      BY <1>23 DEF Evict, TypeOK
    <2> QED BY <1>23, <2>1 DEF Evict, TypeOK
  <1>24. CASE Tick
    BY <1>24, BoundsAssumption DEF Tick, TypeOK, Times
  <1>25. CASE UNCHANGED vars
    BY <1>25 DEF vars, TypeOK
  <1> QED
    BY <1>1, <1>2, <1>3, <1>4, <1>5, <1>6, <1>7, <1>8, <1>9, <1>10, <1>11, <1>12, <1>13, <1>14, <1>15, <1>16, <1>17, <1>18, <1>19, <1>20, <1>21, <1>22, <1>23, <1>24, <1>25
       DEF Next, ReaderStep, RefreshStep, WriterStep

(* A step that neither moves the clock nor writes in the store keeps the    *)
(* entries it keeps, and the loads it keeps, timely.                        *)
Quiet == UNCHANGED <<now, db, writtenAt>>

LEMMA SlotsKept ==
    ASSUME SlotsTimely, Quiet, \A k \in Keys : slot'[k] = slot[k] \/ slot'[k] = NoEntry
    PROVE  SlotsTimely'
  BY DEF SlotsTimely, EntryTimely, Quiet

LEMMA ReadersKept ==
    ASSUME ReadersTimely, Quiet,
           \A r \in Readers : reader'[r] = reader[r] \/ reader'[r].pc # "loaded"
    PROVE  ReadersTimely'
  BY DEF ReadersTimely, LoadTimely, Quiet

LEMMA RefreshesKept ==
    ASSUME RefreshesTimely, Quiet,
           \A t \in Refreshers :
               \/ refresh'[t].pc \notin Carrying
               \/ /\ refresh[t].pc \in Carrying
                  /\ refresh'[t].key = refresh[t].key /\ refresh'[t].ver = refresh[t].ver
                  /\ refresh'[t].readAt = refresh[t].readAt
    PROVE  RefreshesTimely'
  BY DEF RefreshesTimely, LoadTimely, Quiet

(* The version after an overwritten one has a time in the history.         *)
LEMMA HistoryType ==
    ASSUME NEW D \in [Keys -> Versions], NEW W \in [Keys -> [Versions -> Times]],
           NEW k \in Keys, NEW v \in Versions, v < D[k]
    PROVE  v + 1 \in Versions /\ W[k][v + 1] \in Nat
  <1>1. v + 1 \in Versions
    <2>1. D[k] \in Versions
      OBVIOUS
    <2> QED BY <2>1, BoundsAssumption DEF Versions
  <1>2. W[k][v + 1] \in Times
    BY <1>1
  <1> QED BY <1>1, <1>2 DEF Times

(* What a timely load inserts is timely.                                    *)
LEMMA InsertTimely ==
    ASSUME TypeOK, SlotsTimely, Quiet, NEW k \in Keys, NEW v \in Versions, NEW n \in Times,
           slot' = [slot EXCEPT ![k] = NewEntry(v)],
           v <= db[k], n <= now, now <= n + MaxLoad, v < db[k] => n <= writtenAt[k][v + 1]
    PROVE  SlotsTimely'
  <1>1. ASSUME NEW j \in Keys, slot'[j] # NoEntry PROVE EntryTimely(j)'
    <2>1. CASE j # k
      BY <1>1, <2>1 DEF TypeOK, SlotsTimely, EntryTimely, Quiet
    <2>2. CASE j = k
      <3>1. slot'[j].ver = v /\ slot'[j].fetchedAt = now
        BY <2>2 DEF TypeOK, NewEntry
      <3>2. v < db[k] => v + 1 \in Versions /\ writtenAt[k][v + 1] \in Nat
        BY HistoryType DEF TypeOK
      <3>3. now \in Nat /\ n \in Nat /\ MaxLoad \in Nat /\ v \in Nat
        BY BoundsAssumption DEF TypeOK, Times, Versions
      <3> HIDE DEF NewEntry
      <3> QED BY <2>2, <3>1, <3>2, <3>3 DEF EntryTimely, Quiet
    <2> QED BY <2>1, <2>2
  <1> QED BY <1>1 DEF SlotsTimely

(* A write in the store is later than every read of an older version.       *)
LEMMA StoreWriteTimely ==
    ASSUME TypeOK, NEW k \in Keys, StoreWrite(k), now' = now, NEW j \in Keys,
           NEW v \in Versions, NEW n \in Nat, NEW d \in Nat,
           v <= db[j], n <= now + d, v < db[j] => n <= writtenAt[j][v + 1] + d
    PROVE  v <= db'[j] /\ (v < db'[j] => n <= writtenAt'[j][v + 1] + d)
  <1>1. db[k] \in Nat /\ db[k] + 1 \in Versions /\ now \in Nat /\ v \in Nat
    <2>1. db[k] \in Versions /\ now \in Times
      BY DEF TypeOK
    <2>2. db[k] + 1 \in Versions
      BY StoreWriteType
    <2> QED BY <2>1, <2>2 DEF Versions, Times
  <1>2. CASE j # k
    <2>1. db'[j] = db[j] /\ writtenAt'[j] = writtenAt[j]
      BY <1>2 DEF TypeOK, StoreWrite
    <2> QED BY <2>1
  <1>3. CASE j = k
    <2>1. db'[j] = db[j] + 1
      BY <1>3 DEF TypeOK, StoreWrite
    <2>2. CASE v = db[j]
      <3>1. writtenAt'[j][v + 1] = now
        BY <1>1, <1>3, <2>2 DEF TypeOK, StoreWrite
      <3> QED BY <3>1, <2>1, <2>2, <1>1, <1>3
    <2>3. CASE v < db[j]
      <3>1. v + 1 # db[k] + 1 /\ v + 1 \in Versions
        BY <1>1, <1>3, <2>3, BoundsAssumption DEF Versions
      <3>2. writtenAt'[j][v + 1] = writtenAt[j][v + 1]
        BY <1>1, <1>3, <3>1 DEF TypeOK, StoreWrite
      <3> QED BY <3>2, <2>1, <2>3, <1>1, <1>3
    <2> QED BY <2>2, <2>3, <1>1, <1>3
  <1> QED BY <1>2, <1>3

LEMMA WriteTimely ==
    ASSUME TypeOK, Timely, NEW k \in Keys, StoreWrite(k), UNCHANGED <<now, slot, reader, refresh>>
    PROVE  Timely'
  <1>0. MaxLoad \in Nat /\ 0 \in Nat
    BY BoundsAssumption
  <1>1. ASSUME NEW j \in Keys, slot[j] # NoEntry, EntryTimely(j) PROVE EntryTimely(j)'
    <2>1. slot[j].ver \in Versions /\ slot[j].fetchedAt \in Nat /\ now \in Nat
      BY <1>1 DEF TypeOK, Entry, Times
    <2>2. slot[j].fetchedAt <= now + MaxLoad
      BY <1>0, <1>1, <2>1 DEF EntryTimely
    <2> QED BY <1>0, <1>1, <2>1, <2>2, StoreWriteTimely DEF EntryTimely
  <1>2. ASSUME NEW l, l.key \in Keys, l.ver \in Versions, l.readAt \in Nat, LoadTimely(l)
        PROVE  LoadTimely(l)'
    <2>1. now \in Nat /\ l.readAt <= now + 0
      BY <1>2 DEF TypeOK, Times, LoadTimely
    <2>2. l.ver < db[l.key] => l.readAt <= writtenAt[l.key][l.ver + 1] + 0
      <3>1. l.ver < db[l.key] => writtenAt[l.key][l.ver + 1] \in Nat
        BY <1>2, HistoryType DEF TypeOK
      <3> QED BY <1>2, <3>1 DEF LoadTimely
    <2>3. /\ l.ver <= db'[l.key]
          /\ l.ver < db'[l.key] => l.readAt <= writtenAt'[l.key][l.ver + 1] + 0
      BY <1>0, <1>2, <2>1, <2>2, StoreWriteTimely DEF LoadTimely
    <2>4. l.ver < db'[l.key] => writtenAt'[l.key][l.ver + 1] \in Nat
      BY <1>2, StoreWriteType, HistoryType
    <2> QED BY <1>2, <2>3, <2>4 DEF LoadTimely
  <1>3. SlotsTimely'
    BY <1>1 DEF Timely, SlotsTimely
  <1>4. ReadersTimely'
    BY <1>2, ReaderFields DEF Timely, ReadersTimely, TypeOK, Times
  <1>5. RefreshesTimely'
    BY <1>2, RefreshFields DEF Timely, RefreshesTimely, TypeOK, Times
  <1> QED BY <1>3, <1>4, <1>5 DEF Timely

(* The clock moves only while every load is younger than MaxLoad.           *)
LEMMA TickTimely ==
    ASSUME TypeOK, Timely, Tick PROVE Timely'
  <1>0. now \in Nat /\ now' = now + 1 /\ MaxLoad \in Nat
    BY BoundsAssumption DEF TypeOK, Times, Tick
  <1>1. SlotsTimely'
    <2>1. ASSUME NEW k \in Keys, slot[k] # NoEntry PROVE slot[k].fetchedAt \in Nat
      BY <2>1 DEF TypeOK, Entry, Times
    <2> QED BY <1>0, <2>1 DEF Timely, SlotsTimely, EntryTimely, Tick
  <1>2. ASSUME NEW l, l.readAt \in Nat, LoadTimely(l), now - l.readAt < MaxLoad
        PROVE  LoadTimely(l)'
    BY <1>0, <1>2 DEF LoadTimely, Tick
  <1>3. ReadersTimely'
    BY <1>2, ReaderFields DEF Timely, ReadersTimely, TypeOK, Times, Tick, LoadsInTime
  <1>4. RefreshesTimely'
    BY <1>2, RefreshFields DEF Timely, RefreshesTimely, TypeOK, Times, Tick, LoadsInTime, Carrying
  <1> QED BY <1>1, <1>3, <1>4 DEF Timely

LEMMA TimelyStep == IInv /\ [Next]_vars => Timely'
  <1> SUFFICES ASSUME TypeOK, Timely, [Next]_vars PROVE Timely'
    BY DEF IInv
  <1>types. /\ \A r \in Readers : reader[r] \in ReaderState
            /\ \A t \in Refreshers : refresh[t] \in RefreshState
    BY DEF TypeOK
  <1> USE DEF Timely
  <1>1. ASSUME NEW r \in Readers, NEW k \in Keys, GetHit(r, k) PROVE Timely'
    <2>1. SlotsTimely'
      BY <1>1, SlotsKept DEF GetHit, TypeOK, Quiet
    <2>2. ReadersTimely'
      BY <1>1, ReadersKept, <1>types, IdlePc DEF GetHit, TypeOK, Quiet, ReaderState
    <2>3. RefreshesTimely'
      BY <1>1 DEF GetHit, RefreshesTimely, LoadTimely
    <2> QED BY <2>1, <2>2, <2>3
  <1>2. ASSUME NEW r \in Readers, NEW k \in Keys, GetStale(r, k) PROVE Timely'
    <2>1. SlotsTimely'
      BY <1>2, SlotsKept DEF GetStale, TypeOK, Quiet
    <2>2. ReadersTimely'
      BY <1>2, ReadersKept, <1>types, IdleTypes DEF GetStale, TypeOK, Quiet, ReaderState
    <2>3. RefreshesTimely'
      BY <1>2 DEF GetStale, RefreshesTimely, LoadTimely
    <2> QED BY <2>1, <2>2, <2>3
  <1>3. ASSUME NEW r \in Readers, NEW k \in Keys, GetMiss(r, k) PROVE Timely'
    <2>1. SlotsTimely'
      BY <1>3, SlotsKept DEF GetMiss, TypeOK, Quiet
    <2>2. ReadersTimely'
      BY <1>3, ReadersKept, <1>types, IdleTypes DEF GetMiss, TypeOK, Quiet, ReaderState
    <2>3. RefreshesTimely'
      BY <1>3 DEF GetMiss, RefreshesTimely, LoadTimely
    <2> QED BY <2>1, <2>2, <2>3
  <1>4. ASSUME NEW r \in Readers, NEW t \in Refreshers, SpawnRefresh(r, t) PROVE Timely'
    <2>1. SlotsTimely'
      BY <1>4, SlotsKept DEF SpawnRefresh, TypeOK, Quiet
    <2>2. ReadersTimely'
      BY <1>4, ReadersKept, <1>types, IdlePc DEF SpawnRefresh, TypeOK, Quiet, Return, ReaderState
    <2>3. RefreshesTimely'
      BY <1>4, RefreshesKept, <1>types, IdleTypes DEF SpawnRefresh, TypeOK, Quiet, RefreshState, Carrying
    <2> QED BY <2>1, <2>2, <2>3
  <1>5. ASSUME NEW r \in Readers, SkipRefresh(r) PROVE Timely'
    <2>1. SlotsTimely'
      BY <1>5, SlotsKept DEF SkipRefresh, TypeOK, Quiet
    <2>2. ReadersTimely'
      BY <1>5, ReadersKept, <1>types, IdlePc DEF SkipRefresh, TypeOK, Quiet, Return, ReaderState
    <2>3. RefreshesTimely'
      BY <1>5 DEF SkipRefresh, RefreshesTimely, LoadTimely
    <2> QED BY <2>1, <2>2, <2>3
  <1>6. ASSUME NEW r \in Readers, DropExpired(r) PROVE Timely'
    <2>1. SlotsTimely'
      BY <1>6, SlotsKept, ReaderFields DEF DropExpired, TypeOK, Quiet
    <2>2. ReadersTimely'
      BY <1>6, ReadersKept, <1>types DEF DropExpired, TypeOK, Quiet, ReaderState
    <2>3. RefreshesTimely'
      BY <1>6 DEF DropExpired, RefreshesTimely, LoadTimely
    <2> QED BY <2>1, <2>2, <2>3
  <1>7. ASSUME NEW r \in Readers, CaptureEpoch(r) PROVE Timely'
    <2>1. SlotsTimely'
      BY <1>7, SlotsKept DEF CaptureEpoch, TypeOK, Quiet
    <2>2. ReadersTimely'
      BY <1>7, ReadersKept, <1>types DEF CaptureEpoch, TypeOK, Quiet, ReaderState
    <2>3. RefreshesTimely'
      BY <1>7 DEF CaptureEpoch, RefreshesTimely, LoadTimely
    <2> QED BY <2>1, <2>2, <2>3
  <1>8. ASSUME NEW r \in Readers, TryGetWith(r) PROVE Timely'
    <2>1. SlotsTimely'
      BY <1>8, SlotsKept DEF TryGetWith, TypeOK, Quiet
    <2>2. ReadersTimely'
      <3>1. /\ [reader[r] EXCEPT !.pc = "waiting"].pc = "waiting"
            /\ [reader[r] EXCEPT !.pc = "loading"].pc = "loading"
            /\ \A v : [reader[r] EXCEPT !.pc = "check", !.ver = v].pc = "check"
        BY <1>types DEF ReaderState
      <3>a. \/ reader' = [reader EXCEPT ![r] = [reader[r] EXCEPT !.pc = "waiting"]]
            \/ reader' = [reader EXCEPT ![r] = [reader[r] EXCEPT !.pc = "loading"]]
            \/ \E v : reader' = [reader EXCEPT ![r] = [reader[r] EXCEPT !.pc = "check", !.ver = v]]
        BY <1>8 DEF TryGetWith
      <3>2. \A q \in Readers : reader'[q] = reader[q] \/ reader'[q].pc # "loaded"
        BY <3>1, <3>a DEF TypeOK
      <3> QED BY <1>8, <3>2, ReadersKept DEF TryGetWith, Quiet
    <2>3. RefreshesTimely'
      BY <1>8 DEF TryGetWith, RefreshesTimely, LoadTimely
    <2> QED BY <2>1, <2>2, <2>3
  <1>9. ASSUME NEW r \in Readers, LoaderRead(r) PROVE Timely'
    <2>1. SlotsTimely'
      BY <1>9, SlotsKept DEF LoaderRead, TypeOK, Quiet
    <2>2. ReadersTimely'
      <3>1. reader[r].key \in Keys /\ now \in Nat /\ db[reader[r].key] \in Nat /\ MaxLoad \in Nat
        BY <1>types, ReaderFields, BoundsAssumption DEF TypeOK, Versions, Times
      <3>2. /\ reader'[r].key = reader[r].key /\ reader'[r].ver = db[reader[r].key]
            /\ reader'[r].readAt = now
        BY <1>9, <1>types DEF LoaderRead, TypeOK, ReaderState
      <3>3. LoadTimely(reader[r])'
        BY <1>9, <3>1, <3>2 DEF LoaderRead, LoadTimely
      <3>4. \A q \in Readers : q # r => reader'[q] = reader[q]
        BY <1>9 DEF LoaderRead, TypeOK
      <3> QED BY <1>9, <3>3, <3>4 DEF LoaderRead, ReadersTimely, LoadTimely
    <2>3. RefreshesTimely'
      BY <1>9 DEF LoaderRead, RefreshesTimely, LoadTimely
    <2> QED BY <2>1, <2>2, <2>3
  <1>10. ASSUME NEW r \in Readers, LoaderInsert(r) PROVE Timely'
    <2>1. SlotsTimely'
      <3>1. reader[r].key \in Keys /\ reader[r].ver \in Versions /\ reader[r].readAt \in Times
        BY <1>types, ReaderFields
      <3>2. LoadTimely(reader[r])
        BY <1>10 DEF LoaderInsert, ReadersTimely
      <3> QED BY <1>10, <3>1, <3>2, InsertTimely DEF LoaderInsert, LoadTimely, Quiet
    <2>2. ReadersTimely'
      BY <1>10, ReadersKept, <1>types DEF LoaderInsert, TypeOK, Quiet, ReaderState
    <2>3. RefreshesTimely'
      BY <1>10 DEF LoaderInsert, RefreshesTimely, LoadTimely
    <2> QED BY <2>1, <2>2, <2>3
  <1>11. ASSUME NEW r \in Readers, CheckEpoch(r) PROVE Timely'
    <2>1. SlotsTimely'
      BY <1>11, SlotsKept, ReaderFields DEF CheckEpoch, TypeOK, Quiet
    <2>2. ReadersTimely'
      BY <1>11, ReadersKept, <1>types, IdlePc DEF CheckEpoch, TypeOK, Quiet, Return, ReaderState
    <2>3. RefreshesTimely'
      BY <1>11 DEF CheckEpoch, RefreshesTimely, LoadTimely
    <2> QED BY <2>1, <2>2, <2>3
  <1>12. ASSUME NEW r \in Readers, LoaderFail(r) PROVE Timely'
    <2>1. SlotsTimely'
      BY <1>12, SlotsKept DEF LoaderFail, TypeOK, Quiet
    <2>2. ReadersTimely'
      BY <1>12, ReadersKept, <1>types, IdlePc DEF LoaderFail, TypeOK, Quiet, ReaderState
    <2>3. RefreshesTimely'
      BY <1>12 DEF LoaderFail, RefreshesTimely, LoadTimely
    <2> QED BY <2>1, <2>2, <2>3
  <1>13. ASSUME NEW r \in Readers, DropCaller(r) PROVE Timely'
    <2>1. SlotsTimely'
      BY <1>13, SlotsKept DEF DropCaller, TypeOK, Quiet
    <2>2. ReadersTimely'
      BY <1>13, ReadersKept, <1>types, IdlePc DEF DropCaller, TypeOK, Quiet, ReaderState
    <2>3. RefreshesTimely'
      BY <1>13 DEF DropCaller, RefreshesTimely, LoadTimely
    <2> QED BY <2>1, <2>2, <2>3
  <1>14. ASSUME NEW t \in Refreshers, RefreshRead(t) PROVE Timely'
    <2>1. SlotsTimely'
      BY <1>14, SlotsKept DEF RefreshRead, TypeOK, Quiet
    <2>2. ReadersTimely'
      BY <1>14, ReadersKept DEF RefreshRead, Quiet
    <2>3. RefreshesTimely'
      <3>1. refresh[t].key \in Keys /\ now \in Nat /\ db[refresh[t].key] \in Nat /\ MaxLoad \in Nat
        BY <1>types, RefreshFields, BoundsAssumption DEF TypeOK, Versions, Times
      <3>2. /\ refresh'[t].key = refresh[t].key /\ refresh'[t].ver = db[refresh[t].key]
            /\ refresh'[t].readAt = now
        BY <1>14, <1>types DEF RefreshRead, TypeOK, RefreshState
      <3>3. LoadTimely(refresh[t])'
        BY <1>14, <3>1, <3>2 DEF RefreshRead, LoadTimely
      <3>4. \A q \in Refreshers : q # t => refresh'[q] = refresh[q]
        BY <1>14 DEF RefreshRead, TypeOK
      <3> QED BY <1>14, <3>3, <3>4 DEF RefreshRead, RefreshesTimely, LoadTimely
    <2> QED BY <2>1, <2>2, <2>3
  <1>15. ASSUME NEW t \in Refreshers, RefreshGuardEpoch(t) PROVE Timely'
    <2>1. SlotsTimely'
      BY <1>15, SlotsKept DEF RefreshGuardEpoch, TypeOK, Quiet
    <2>2. ReadersTimely'
      BY <1>15, ReadersKept DEF RefreshGuardEpoch, Quiet
    <2>3. RefreshesTimely'
      BY <1>15, RefreshesKept, <1>types, IdlePc DEF RefreshGuardEpoch, TypeOK, Quiet, EndRefresh, RefreshState, Carrying
    <2> QED BY <2>1, <2>2, <2>3
  <1>16. ASSUME NEW t \in Refreshers, RefreshGuardSlot(t) PROVE Timely'
    <2>1. SlotsTimely'
      BY <1>16, SlotsKept DEF RefreshGuardSlot, TypeOK, Quiet
    <2>2. ReadersTimely'
      BY <1>16, ReadersKept DEF RefreshGuardSlot, Quiet
    <2>3. RefreshesTimely'
      <3>1. refresh[t].pc \in Carrying
        BY <1>16 DEF RefreshGuardSlot, Carrying
      <3>2. LET x == [refresh[t] EXCEPT !.pc = "owned"] IN
              x.key = refresh[t].key /\ x.ver = refresh[t].ver /\ x.readAt = refresh[t].readAt
        BY <1>types DEF RefreshState
      <3>3. IdleRefresh.pc \notin Carrying
        BY IdlePc DEF Carrying
      <3>4. refresh' = [refresh EXCEPT ![t] = IdleRefresh]
              \/ refresh' = [refresh EXCEPT ![t] = [refresh[t] EXCEPT !.pc = "owned"]]
        BY <1>16 DEF RefreshGuardSlot, EndRefresh
      <3>5. \A q \in Refreshers : q # t => refresh'[q] = refresh[q]
        BY <3>4 DEF TypeOK
      <3>6. \/ refresh'[t].pc \notin Carrying
            \/ /\ refresh'[t].key = refresh[t].key /\ refresh'[t].ver = refresh[t].ver
               /\ refresh'[t].readAt = refresh[t].readAt
        BY <3>2, <3>3, <3>4 DEF TypeOK
      <3> QED BY <1>16, <3>1, <3>5, <3>6, RefreshesKept DEF RefreshGuardSlot, Quiet
    <2> QED BY <2>1, <2>2, <2>3
  <1>17. ASSUME NEW t \in Refreshers, RefreshInsert(t) PROVE Timely'
    <2>1. SlotsTimely'
      <3>1. refresh[t].key \in Keys /\ refresh[t].ver \in Versions /\ refresh[t].readAt \in Times
        BY <1>types, RefreshFields
      <3>2. LoadTimely(refresh[t])
        BY <1>17 DEF RefreshInsert, RefreshesTimely, Carrying
      <3> QED BY <1>17, <3>1, <3>2, InsertTimely DEF RefreshInsert, LoadTimely, Quiet
    <2>2. ReadersTimely'
      BY <1>17, ReadersKept DEF RefreshInsert, Quiet
    <2>3. RefreshesTimely'
      BY <1>17, RefreshesKept, <1>types, IdlePc DEF RefreshInsert, TypeOK, Quiet, EndRefresh, RefreshState, Carrying
    <2> QED BY <2>1, <2>2, <2>3
  <1>18. ASSUME NEW t \in Refreshers, RefreshFail(t) PROVE Timely'
    <2>1. SlotsTimely'
      BY <1>18, SlotsKept DEF RefreshFail, TypeOK, Quiet
    <2>2. ReadersTimely'
      BY <1>18, ReadersKept DEF RefreshFail, Quiet
    <2>3. RefreshesTimely'
      BY <1>18, RefreshesKept, <1>types, IdlePc DEF RefreshFail, TypeOK, Quiet, EndRefresh, RefreshState, Carrying
    <2> QED BY <2>1, <2>2, <2>3
  <1>19. ASSUME NEW w \in Writers, NEW k \in Keys, NEW ks \in {{k}, Keys}, Write(w, k, ks) PROVE Timely'
    BY <1>19, WriteTimely DEF Write
  <1>20. ASSUME NEW w \in Writers, BumpEpoch(w) PROVE Timely'
    <2>1. SlotsTimely'
      BY <1>20, SlotsKept DEF BumpEpoch, TypeOK, Quiet
    <2>2. ReadersTimely'
      BY <1>20, ReadersKept DEF BumpEpoch, Quiet
    <2>3. RefreshesTimely'
      BY <1>20 DEF BumpEpoch, RefreshesTimely, LoadTimely
    <2> QED BY <2>1, <2>2, <2>3
  <1>21. ASSUME NEW w \in Writers, InvalidateSlots(w) PROVE Timely'
    <2>1. SlotsTimely'
      BY <1>21, SlotsKept DEF InvalidateSlots, TypeOK, Quiet
    <2>2. ReadersTimely'
      BY <1>21, ReadersKept DEF InvalidateSlots, Quiet
    <2>3. RefreshesTimely'
      BY <1>21 DEF InvalidateSlots, RefreshesTimely, LoadTimely
    <2> QED BY <2>1, <2>2, <2>3
  <1>22. ASSUME NEW k \in Keys, RemoteWrite(k) PROVE Timely'
    BY <1>22, WriteTimely DEF RemoteWrite
  <1>23. ASSUME NEW k \in Keys, Evict(k) PROVE Timely'
    <2>1. SlotsTimely'
      BY <1>23, SlotsKept DEF Evict, TypeOK, Quiet
    <2>2. ReadersTimely'
      BY <1>23, ReadersKept DEF Evict, Quiet
    <2>3. RefreshesTimely'
      BY <1>23 DEF Evict, RefreshesTimely, LoadTimely
    <2> QED BY <2>1, <2>2, <2>3
  <1>24. CASE Tick
    BY <1>24, TickTimely
  <1>25. CASE UNCHANGED vars
    BY <1>25 DEF vars, SlotsTimely, ReadersTimely, RefreshesTimely, EntryTimely, LoadTimely
  <1> QED
    BY <1>1, <1>2, <1>3, <1>4, <1>5, <1>6, <1>7, <1>8, <1>9, <1>10, <1>11, <1>12, <1>13, <1>14, <1>15, <1>16, <1>17, <1>18, <1>19, <1>20, <1>21, <1>22, <1>23, <1>24, <1>25
       DEF Next, ReaderStep, RefreshStep, WriterStep

(* Every reachable state has the declared types.                            *)
THEOREM SwrTypeCorrect == Spec => []TypeOK
  <1>1. Init => TypeOK
    BY InitIInv DEF IInv
  <1> QED BY <1>1, TypeStep, PTL DEF Spec

(* Whatever the interleaving, an entry the cache would still serve is at    *)
(* most Ttl + MaxLoad behind the store (SwrCache::get, maybe_spawn_refresh).*)
THEOREM SwrStaleBounded == Spec => []StaleBounded
  <1>1. IInv /\ [Next]_vars => IInv'
    BY TypeStep, TimelyStep DEF IInv
  <1>2. IInv => StaleBounded
    <2> SUFFICES ASSUME IInv, NEW k \in Keys, Usable(slot[k]), slot[k].ver < db[k]
                 PROVE  now < writtenAt[k][slot[k].ver + 1] + Ttl + MaxLoad
      BY DEF StaleBounded
    <2>1. slot[k] # NoEntry /\ slot[k] \in Entry
      BY DEF Usable, IInv, TypeOK
    <2>2. slot[k].ver \in Versions /\ slot[k].fetchedAt \in Nat /\ now \in Nat
      BY <2>1 DEF Entry, IInv, TypeOK, Times
    <2>3. writtenAt[k][slot[k].ver + 1] \in Nat
      BY <2>2, HistoryType DEF IInv, TypeOK
    <2>4. EntryTtl(slot[k]) \in Nat /\ EntryTtl(slot[k]) <= Ttl /\ Ttl \in Nat /\ MaxLoad \in Nat
      BY ConfigAssumption, BoundsAssumption DEF EntryTtl
    <2>5. EntryTimely(k)
      BY <2>1 DEF IInv, Timely, SlotsTimely
    <2> HIDE DEF EntryTtl
    <2> QED BY <2>2, <2>3, <2>4, <2>5 DEF EntryTimely, Usable, Age
  <1> QED BY InitIInv, <1>1, <1>2, PTL DEF Spec

-----------------------------------------------------------------------------
(* The flag of an entry and the task that refreshes it.  The property is    *)
(* inductive with its converse: a task that runs has set the flag.          *)
Running(t) == refresh[t].pc # "idle"
FlagInv == RefreshSingleFlight /\ \A t \in Refreshers : Running(t) => refresh[t].id \in inFlight

LEMMA FlagKept == FlagInv /\ UNCHANGED <<refresh, inFlight>> => FlagInv'
  BY DEF FlagInv, RefreshSingleFlight, Running

(* A task that goes on keeps its entry.                                     *)
LEMMA TaskGoesOn ==
  ASSUME FlagInv, NEW t \in Refreshers, Running(t), refresh \in [Refreshers -> RefreshState],
         NEW x, refresh' = [refresh EXCEPT ![t] = x], x.id = refresh[t].id, x.pc # "idle",
         UNCHANGED inFlight
  PROVE  FlagInv'
  <1>1. \A u \in Refreshers : refresh'[u].id = refresh[u].id /\ (Running(u)' <=> Running(u))
    BY DEF Running
  <1> QED BY <1>1 DEF FlagInv, RefreshSingleFlight, Running

(* ClearRefreshFlag: the flag goes with the task.                           *)
LEMMA TaskEnds ==
  ASSUME FlagInv, NEW t \in Refreshers, Running(t), refresh \in [Refreshers -> RefreshState],
         EndRefresh(t)
  PROVE  FlagInv'
  <1>1. \A u \in Refreshers \ {t} : refresh'[u] = refresh[u]
    BY DEF EndRefresh
  <1>2. ~Running(t)'
    BY IdlePc DEF EndRefresh, Running
  <1>3. \A u \in Refreshers \ {t} : Running(u) => refresh[u].id # refresh[t].id
    BY DEF FlagInv, RefreshSingleFlight, Running
  <1>4. \A u \in Refreshers : Running(u)' => refresh'[u].id \in inFlight'
    BY <1>1, <1>2, <1>3 DEF FlagInv, EndRefresh, Running
  <1>5. ASSUME NEW i \in inFlight'
        PROVE  \E u \in Refreshers : refresh'[u].pc # "idle" /\ refresh'[u].id = i
    <2>1. i \in inFlight /\ i # refresh[t].id
      BY <1>5 DEF EndRefresh
    <2>2. PICK u \in Refreshers : refresh[u].pc # "idle" /\ refresh[u].id = i
      BY <2>1 DEF FlagInv, RefreshSingleFlight
    <2> QED BY <1>1, <2>1, <2>2
  <1>6. \A u, v \in Refreshers : (refresh'[u].pc # "idle" /\ refresh'[v].pc # "idle"
                                   /\ refresh'[u].id = refresh'[v].id) => u = v
    BY <1>1, <1>2 DEF FlagInv, RefreshSingleFlight, Running
  <1> QED BY <1>4, <1>5, <1>6 DEF FlagInv, RefreshSingleFlight

(* maybe_spawn_refresh.                                                     *)
LEMMA TaskStarts ==
  ASSUME FlagInv, TypeOK, NEW r \in Readers, NEW t \in Refreshers, SpawnRefresh(r, t)
  PROVE  FlagInv'
  <1> DEFINE i == reader[r].id
  <1>1. /\ refresh'[t].pc = "loading" /\ refresh'[t].id = i
        /\ \A u \in Refreshers \ {t} : refresh'[u] = refresh[u]
    BY DEF SpawnRefresh, TypeOK, IdleRefresh
  <1>2. inFlight' = inFlight \cup {i} /\ i \notin inFlight /\ ~Running(t)
    BY DEF SpawnRefresh, Running
  <1>3. \A u \in Refreshers \ {t} : Running(u) => refresh[u].id # i
    BY <1>2 DEF FlagInv
  <1> HIDE DEF i
  <1>4. \A u \in Refreshers : Running(u)' => refresh'[u].id \in inFlight'
    BY <1>1, <1>2 DEF FlagInv, Running
  <1>5. ASSUME NEW j \in inFlight'
        PROVE  \E u \in Refreshers : refresh'[u].pc # "idle" /\ refresh'[u].id = j
    <2>1. CASE j = i
      BY <1>1, <2>1
    <2>2. CASE j # i
      <3>1. PICK u \in Refreshers : refresh[u].pc # "idle" /\ refresh[u].id = j
        BY <1>2, <1>5, <2>2 DEF FlagInv, RefreshSingleFlight
      <3> QED BY <1>1, <1>2, <3>1 DEF Running
    <2> QED BY <2>1, <2>2
  <1>6. \A u, v \in Refreshers : (refresh'[u].pc # "idle" /\ refresh'[v].pc # "idle"
                                   /\ refresh'[u].id = refresh'[v].id) => u = v
    BY <1>1, <1>3 DEF FlagInv, RefreshSingleFlight, Running
  <1> QED BY <1>4, <1>5, <1>6 DEF FlagInv, RefreshSingleFlight

LEMMA FlagStep == TypeOK /\ FlagInv /\ [Next]_vars => FlagInv'
  <1> SUFFICES ASSUME TypeOK, FlagInv, [Next]_vars PROVE FlagInv'
    OBVIOUS
  <1>0. refresh \in [Refreshers -> RefreshState]
    BY DEF TypeOK
  <1>1. ASSUME NEW r \in Readers, NEW k \in Keys, GetHit(r, k) \/ GetStale(r, k) \/ GetMiss(r, k)
        PROVE  FlagInv'
    BY <1>1, FlagKept DEF GetHit, GetStale, GetMiss
  <1>2. ASSUME NEW r \in Readers, ReaderStep(r) \/ LoaderFail(r) \/ DropCaller(r)
        PROVE  FlagInv'
    <2>1. CASE \E t \in Refreshers : SpawnRefresh(r, t)
      BY <2>1, TaskStarts
    <2>2. CASE \/ SkipRefresh(r) \/ DropExpired(r) \/ CaptureEpoch(r) \/ TryGetWith(r)
               \/ LoaderRead(r) \/ LoaderInsert(r) \/ CheckEpoch(r) \/ LoaderFail(r) \/ DropCaller(r)
      BY <2>2, FlagKept DEF SkipRefresh, DropExpired, CaptureEpoch, TryGetWith, LoaderRead,
         LoaderInsert, CheckEpoch, LoaderFail, DropCaller
    <2> QED BY <1>2, <2>1, <2>2 DEF ReaderStep
  <1>3. ASSUME NEW t \in Refreshers, RefreshStep(t) \/ RefreshFail(t)
        PROVE  FlagInv'
    <2>1. Running(t)
      BY <1>3 DEF RefreshStep, RefreshFail, RefreshRead, RefreshGuardEpoch, RefreshGuardSlot,
                  RefreshInsert, Running
    <2>2. CASE EndRefresh(t)
      BY <1>0, <2>1, <2>2, TaskEnds
    <2>3. ASSUME UNCHANGED inFlight, NEW p \in {"guarded", "owned"},
                 refresh' = [refresh EXCEPT ![t] = [refresh[t] EXCEPT !.pc = p]]
          PROVE  FlagInv'
      <3> DEFINE x == [refresh[t] EXCEPT !.pc = p]
      <3>1. x.id = refresh[t].id /\ x.pc # "idle"
        BY <1>0 DEF RefreshState
      <3> HIDE DEF x
      <3>2. refresh' = [refresh EXCEPT ![t] = x]
        BY <2>3 DEF x
      <3> QED BY <1>0, <2>1, <2>3, <3>1, <3>2, TaskGoesOn
    <2>4. CASE RefreshRead(t)
      <3> DEFINE x == [refresh[t] EXCEPT !.pc = "loaded", !.readAt = now, !.ver = db[refresh[t].key]]
      <3>1. x.id = refresh[t].id /\ x.pc # "idle"
        BY <1>0 DEF RefreshState
      <3>2. refresh' = [refresh EXCEPT ![t] = x] /\ UNCHANGED inFlight
        BY <2>4 DEF RefreshRead
      <3> HIDE DEF x
      <3> QED BY <1>0, <2>1, <3>1, <3>2, TaskGoesOn
    <2>5. CASE RefreshGuardEpoch(t)
      BY <2>2, <2>3, <2>5 DEF RefreshGuardEpoch
    <2>6. CASE RefreshGuardSlot(t)
      BY <2>2, <2>3, <2>6 DEF RefreshGuardSlot
    <2>7. CASE RefreshInsert(t) \/ RefreshFail(t)
      BY <2>2, <2>7 DEF RefreshInsert, RefreshFail
    <2> QED BY <1>3, <2>4, <2>5, <2>6, <2>7 DEF RefreshStep
  <1>4. CASE \/ \E w \in Writers, k \in Keys : \E ks \in {{k}, Keys} : Write(w, k, ks)
             \/ \E w \in Writers : WriterStep(w)
             \/ \E k \in Keys : RemoteWrite(k) \/ Evict(k)
             \/ Tick \/ UNCHANGED vars
    BY <1>4, FlagKept DEF Write, WriterStep, BumpEpoch, InvalidateSlots, RemoteWrite, Evict, Tick, vars
  <1> QED BY <1>1, <1>2, <1>3, <1>4 DEF Next

(* refresh_in_flight is set exactly while one task refreshes the entry, on  *)
(* every exit of the task and for any number of callers that race for the   *)
(* compare_exchange: an entry is neither refreshed twice at once nor left   *)
(* with a flag that nobody will clear (maybe_spawn_refresh,                 *)
(* ClearRefreshFlag::drop).                                                 *)
THEOREM SwrRefreshSingleFlight == Spec => []RefreshSingleFlight
  <1>1. Init => TypeOK /\ FlagInv
    <2>1. Init => FlagInv
      BY IdlePc DEF Init, FlagInv, RefreshSingleFlight, Running
    <2> QED BY <2>1, InitIInv DEF IInv
  <1>2. FlagInv => RefreshSingleFlight
    BY DEF FlagInv
  <1> QED BY <1>1, <1>2, TypeStep, FlagStep, PTL DEF Spec
=============================================================================
