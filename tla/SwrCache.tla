------------------------------ MODULE SwrCache ------------------------------
(***************************************************************************)
(* The stale-while-revalidate cache of crates/cache (swr.rs, entry.rs) that *)
(* sits in front of the credential, policy, tag and table-metadata stores.  *)
(* Callers look a key up, load it through moka's single flight on a hard    *)
(* miss, and spawn a background refresh on a soft expiry; writers change    *)
(* the upstream store and then invalidate.  Every await point is a step.    *)
(*                                                                         *)
(* The upstream value of a key is abstracted to a version number: version v *)
(* is the value after the v-th write.  A version in NegativeVersions is a   *)
(* key that does not exist upstream, so that the loader returns Ok(None).   *)
(***************************************************************************)
EXTENDS Integers, FiniteSets

CONSTANTS
    Keys,              \* cache keys
    Readers,           \* callers of SwrCache::get
    Writers,           \* writers that change the store and then invalidate
    Refreshers,        \* bound: background refresh tasks running at once
    Ids,               \* identities of Arc<Entry> (what Arc::ptr_eq compares)
    Ttl, SoftTtl, NegativeTtl,   \* SwrCacheConfig
    MaxLoad,           \* assumed duration of a load, from read to insert
    MaxTime,           \* bound on the clock
    MaxWrites,         \* bound on the writes to one key
    NegativeVersions,  \* versions at which the key is absent upstream
    NoEntry, NoReader

\* SwrCacheConfig::validate, and what the abstraction needs of the bounds.
ASSUME ConfigAssumption ==
    /\ Ttl \in Nat \ {0} /\ SoftTtl \in 0 .. Ttl /\ NegativeTtl \in 0 .. Ttl
ASSUME BoundsAssumption ==
    /\ MaxLoad \in Nat /\ MaxTime \in Nat /\ MaxWrites \in Nat
    /\ NegativeVersions \subseteq Nat
    /\ Keys # {} /\ NoReader \notin Readers

VARIABLES
    now,         \* the clock (Instant::now)
    db,          \* db[k]: current version of k in the store behind the loader
    writtenAt,   \* writtenAt[k][v]: time version v of k was stored (history)
    invalidated, \* invalidated[k]: newest version whose invalidation has returned (history)
    slot,        \* moka's map: the entry of a key, or NoEntry
    inFlight,    \* ids of the entries whose refresh_in_flight flag is set
    epoch,       \* SwrCache::epoch
    flight,      \* moka's single flight: the reader running the loader of a key
    reader,      \* the callers inside get
    refresh,     \* the background refresh tasks
    writer       \* the writers

vars == <<now, db, writtenAt, invalidated, slot, inFlight, epoch, flight,
          reader, refresh, writer>>

Versions == 0 .. MaxWrites
Times == 0 .. MaxTime
Epochs == Nat

(* entry.rs: Entry { value, fetched_at, refresh_in_flight }; the flag is in *)
(* inFlight because the Arc outlives its place in the map.                  *)
Entry == [id : Ids, ver : Versions, fetchedAt : Times]

ReaderPc == {"idle", "stale", "miss", "capture", "join", "waiting", "loading",
             "loaded", "check"}
ReaderState == [pc : ReaderPc, key : Keys, id : Ids \cup {NoEntry},
                ver : Versions, epoch : Epochs, readAt : Times,
                floor : Versions,     \* invalidated[key] when the call began (history)
                answer : {"ok", "outdated"}]   \* the last call returned less than its floor (history)
RefreshPc == {"idle", "loading", "loaded", "guarded", "owned"}
RefreshState == [pc : RefreshPc, key : Keys, id : Ids \cup {NoEntry},
                 ver : Versions, epoch : Epochs, readAt : Times]
WriterState == [pc : {"idle", "bump", "drop"}, keys : SUBSET Keys,
                key : Keys, ver : Versions]

TypeOK ==
    /\ now \in Times
    /\ db \in [Keys -> Versions]
    /\ writtenAt \in [Keys -> [Versions -> Times]]
    /\ invalidated \in [Keys -> Versions]
    /\ slot \in [Keys -> Entry \cup {NoEntry}]
    /\ inFlight \subseteq Ids \cup {NoEntry}
    /\ epoch \in Epochs
    /\ flight \in [Keys -> Readers \cup {NoReader}]
    /\ reader \in [Readers -> ReaderState]
    /\ refresh \in [Refreshers -> RefreshState]
    /\ writer \in [Writers -> WriterState]

SomeKey == CHOOSE k \in Keys : TRUE

IdleReader == [pc |-> "idle", key |-> SomeKey, id |-> NoEntry, ver |-> 0,
               epoch |-> 0, readAt |-> 0, floor |-> 0, answer |-> "ok"]
IdleRefresh == [pc |-> "idle", key |-> SomeKey, id |-> NoEntry, ver |-> 0,
                epoch |-> 0, readAt |-> 0]
IdleWriter == [pc |-> "idle", keys |-> {}, key |-> SomeKey, ver |-> 0]

Init ==
    /\ now = 0
    /\ db = [k \in Keys |-> 0]
    /\ writtenAt = [k \in Keys |-> [v \in Versions |-> 0]]
    /\ invalidated = [k \in Keys |-> 0]
    /\ slot = [k \in Keys |-> NoEntry]
    /\ inFlight = {}
    /\ epoch = 0
    /\ flight = [k \in Keys |-> NoReader]
    /\ reader = [r \in Readers |-> IdleReader]
    /\ refresh = [t \in Refreshers |-> IdleRefresh]
    /\ writer = [w \in Writers |-> IdleWriter]

-----------------------------------------------------------------------------
(* moka: time_to_live(ttl) hides an entry that has outlived the hard TTL.   *)
Age(e) == now - e.fetchedAt
MokaGet(k) == IF slot[k] # NoEntry /\ Age(slot[k]) < Ttl THEN slot[k] ELSE NoEntry

(* An Arc is alive while the map, a caller or a task holds it.              *)
LiveIds ==
    {slot[k].id : k \in {k \in Keys : slot[k] # NoEntry}}
        \cup {reader[r].id : r \in Readers} \cup {refresh[t].id : t \in Refreshers}

(* The allocator hands out memory that no live Arc occupies.                *)
FreshId == CHOOSE i \in Ids : i \notin LiveIds
CanAllocate == \E i \in Ids : i \notin LiveIds

(* An entry stamped with the time it expires at, not with its fetched_at.   *)
NewEntryStampsExpiry(v) == [id |-> FreshId, ver |-> v, fetchedAt |-> now + Ttl]

(* Entry::new: a fresh allocation, stamped when the load has returned.      *)
NewEntry(v) == [id |-> FreshId, ver |-> v, fetchedAt |-> now]

IsNegative(e) == e.ver \in NegativeVersions
EntryTtl(e) == IF IsNegative(e) THEN NegativeTtl ELSE Ttl
Usable(e) == e # NoEntry /\ Age(e) < EntryTtl(e)

-----------------------------------------------------------------------------
(* get returns version v to a caller that began when f was the floor.       *)
Served(v, f) == [IdleReader EXCEPT !.answer = IF v < f THEN "outdated" ELSE "ok"]
Return(r) == Served(reader[r].ver, reader[r].floor)

(* SwrCache::get, fast path: a usable entry that is negative or younger     *)
(* than soft_ttl is returned at once.                                       *)
GetHit(r, k) ==
    LET e == MokaGet(k) IN
    /\ reader[r].pc = "idle"
    /\ Usable(e)
    /\ IsNegative(e) \/ Age(e) < SoftTtl
    /\ reader' = [reader EXCEPT ![r] = Served(e.ver, invalidated[k])]
    /\ UNCHANGED <<now, db, writtenAt, invalidated, slot, inFlight, epoch, flight,
                   refresh, writer>>

(* get, stale hit: the entry is held until maybe_spawn_refresh has run.     *)
GetStale(r, k) ==
    LET e == MokaGet(k) IN
    /\ reader[r].pc = "idle"
    /\ Usable(e)
    /\ ~IsNegative(e) /\ Age(e) >= SoftTtl
    /\ reader' = [reader EXCEPT ![r] = [IdleReader EXCEPT !.pc = "stale", !.key = k,
                                            !.id = e.id, !.ver = e.ver,
                                            !.floor = invalidated[k]]]
    /\ UNCHANGED <<now, db, writtenAt, invalidated, slot, inFlight, epoch, flight,
                   refresh, writer>>

(* A refresh that ignores the compare_exchange on refresh_in_flight.        *)
SpawnWithoutCas(r, t) ==
    /\ reader[r].pc = "stale"
    /\ refresh[t].pc = "idle"
    /\ inFlight' = inFlight \cup {reader[r].id}
    /\ refresh' = [refresh EXCEPT ![t] = [IdleRefresh EXCEPT !.pc = "loading",
                      !.key = reader[r].key, !.id = reader[r].id, !.epoch = epoch]]
    /\ reader' = [reader EXCEPT ![r] = Return(r)]
    /\ UNCHANGED <<now, db, writtenAt, invalidated, slot, epoch, flight, writer>>

(* maybe_spawn_refresh: the compare_exchange wins, the epoch is captured    *)
(* and the task is spawned.                                                 *)
SpawnRefresh(r, t) ==
    /\ reader[r].pc = "stale"
    /\ reader[r].id \notin inFlight
    /\ refresh[t].pc = "idle"
    /\ inFlight' = inFlight \cup {reader[r].id}
    /\ refresh' = [refresh EXCEPT ![t] = [IdleRefresh EXCEPT !.pc = "loading",
                      !.key = reader[r].key, !.id = reader[r].id, !.epoch = epoch]]
    /\ reader' = [reader EXCEPT ![r] = Return(r)]
    /\ UNCHANGED <<now, db, writtenAt, invalidated, slot, epoch, flight, writer>>

(* maybe_spawn_refresh: another task already refreshes this entry.          *)
SkipRefresh(r) ==
    /\ reader[r].pc = "stale"
    /\ reader[r].id \in inFlight
    /\ reader' = [reader EXCEPT ![r] = Return(r)]
    /\ UNCHANGED <<now, db, writtenAt, invalidated, slot, inFlight, epoch, flight,
                   refresh, writer>>

(* get: no usable entry.                                                    *)
GetMiss(r, k) ==
    /\ reader[r].pc = "idle"
    /\ ~Usable(MokaGet(k))
    /\ reader' = [reader EXCEPT ![r] = [IdleReader EXCEPT !.pc = "miss", !.key = k,
                                            !.floor = invalidated[k]]]
    /\ UNCHANGED <<now, db, writtenAt, invalidated, slot, inFlight, epoch, flight,
                   refresh, writer>>

(* load_single_flight: inner.invalidate(&key) drops the expired entry ...   *)
DropExpired(r) ==
    /\ reader[r].pc = "miss"
    /\ slot' = [slot EXCEPT ![reader[r].key] = NoEntry]
    /\ reader' = [reader EXCEPT ![r] = [@ EXCEPT !.pc = "capture"]]
    /\ UNCHANGED <<now, db, writtenAt, invalidated, inFlight, epoch, flight,
                   refresh, writer>>

(* ... then epoch_before is read ...                                        *)
CaptureEpoch(r) ==
    /\ reader[r].pc = "capture"
    /\ reader' = [reader EXCEPT ![r] = [@ EXCEPT !.pc = "join", !.epoch = epoch]]
    /\ UNCHANGED <<now, db, writtenAt, invalidated, slot, inFlight, epoch, flight,
                   refresh, writer>>

(* ... then try_get_with: an entry is already there, or the load of another *)
(* caller is joined, or this caller runs the loader.                        *)
TryGetWith(r) ==
    LET k == reader[r].key
        e == MokaGet(k)
    IN
    /\ reader[r].pc = "join"
    /\ \/ /\ e # NoEntry
          /\ reader' = [reader EXCEPT ![r] = [@ EXCEPT !.pc = "check", !.ver = e.ver]]
          /\ UNCHANGED flight
       \/ /\ e = NoEntry /\ flight[k] # NoReader
          /\ reader' = [reader EXCEPT ![r] = [@ EXCEPT !.pc = "waiting"]]
          /\ UNCHANGED flight
       \/ /\ e = NoEntry /\ flight[k] = NoReader
          /\ reader' = [reader EXCEPT ![r] = [@ EXCEPT !.pc = "loading"]]
          /\ flight' = [flight EXCEPT ![k] = r]
    /\ UNCHANGED <<now, db, writtenAt, invalidated, slot, inFlight, epoch,
                   refresh, writer>>

(* The loader reads the store.                                              *)
LoaderRead(r) ==
    /\ reader[r].pc = "loading"
    /\ reader' = [reader EXCEPT ![r] = [@ EXCEPT !.pc = "loaded", !.readAt = now, !.ver = db[reader[r].key]]]
    /\ UNCHANGED <<now, db, writtenAt, invalidated, slot, inFlight, epoch, flight,
                   refresh, writer>>

Waiting(k) == {r \in Readers : reader[r].pc = "waiting" /\ reader[r].key = k}

(* The loader fails: the error is shared with every waiter and not cached.  *)
LoaderFail(r) ==
    LET k == reader[r].key IN
    /\ reader[r].pc = "loading"
    /\ flight' = [flight EXCEPT ![k] = NoReader]
    /\ reader' = [q \in Readers |->
                    IF q = r \/ q \in Waiting(k) THEN IdleReader ELSE reader[q]]
    /\ UNCHANGED <<now, db, writtenAt, invalidated, slot, inFlight, epoch,
                   refresh, writer>>

(* The loaded entry is inserted by moka and handed to every waiter.         *)
LoaderInsert(r) ==
    LET k == reader[r].key IN
    /\ reader[r].pc = "loaded"
    /\ CanAllocate
    /\ slot' = [slot EXCEPT ![k] = NewEntry(reader[r].ver)]
    /\ flight' = [flight EXCEPT ![k] = NoReader]
    /\ reader' = [q \in Readers |->
                    IF q = r \/ q \in Waiting(k)
                    THEN [reader[q] EXCEPT !.pc = "check", !.ver = reader[r].ver, !.readAt = 0]
                    ELSE reader[q]]
    /\ UNCHANGED <<now, db, writtenAt, invalidated, inFlight, epoch, refresh, writer>>

(* load_single_flight: the epoch guard, then the caller gets the value.     *)
CheckEpoch(r) ==
    LET k == reader[r].key IN
    /\ reader[r].pc = "check"
    /\ slot' = IF epoch # reader[r].epoch THEN [slot EXCEPT ![k] = NoEntry] ELSE slot
    /\ reader' = [reader EXCEPT ![r] = Return(r)]
    /\ UNCHANGED <<now, db, writtenAt, invalidated, inFlight, epoch, flight,
                   refresh, writer>>

(* The caller's future is dropped (its client went away).  When it ran the  *)
(* loader, moka lets one of the waiters start over.                         *)
DropCaller(r) ==
    LET k == reader[r].key IN
    /\ reader[r].pc # "idle"
    /\ flight' = [flight EXCEPT ![k] = IF flight[k] = r THEN NoReader ELSE flight[k]]
    /\ reader' = [q \in Readers |->
                    IF q = r THEN IdleReader
                    ELSE IF flight[k] = r /\ q \in Waiting(k)
                         THEN [reader[q] EXCEPT !.pc = "join"]
                         ELSE reader[q]]
    /\ UNCHANGED <<now, db, writtenAt, invalidated, slot, inFlight, epoch, refresh, writer>>

-----------------------------------------------------------------------------
(* The spawned refresh task: the loader reads the store.                    *)
RefreshRead(t) ==
    /\ refresh[t].pc = "loading"
    /\ refresh' = [refresh EXCEPT ![t] = [@ EXCEPT !.pc = "loaded", !.readAt = now, !.ver = db[refresh[t].key]]]
    /\ UNCHANGED <<now, db, writtenAt, invalidated, slot, inFlight, epoch, flight,
                   reader, writer>>

(* The task ends without its guard, and the flag stays set.                 *)
EndRefreshLeakingFlag(t) ==
    /\ refresh' = [refresh EXCEPT ![t] = IdleRefresh]
    /\ UNCHANGED inFlight

(* ClearRefreshFlag::drop: every exit of the task clears the flag.          *)
EndRefresh(t) ==
    /\ refresh' = [refresh EXCEPT ![t] = IdleRefresh]
    /\ inFlight' = inFlight \ {refresh[t].id}

(* A failed refresh that stores the stale value again, as if it were new.   *)
RefreshFailRestamps(t) ==
    LET k == refresh[t].key IN
    /\ refresh[t].pc = "loading"
    /\ EndRefresh(t)
    /\ slot' = IF slot[k] = NoEntry THEN slot ELSE [slot EXCEPT ![k].fetchedAt = now]
    /\ UNCHANGED <<now, db, writtenAt, invalidated, epoch, flight, reader, writer>>

(* The loader fails or panics: the stale entry stays.                       *)
RefreshFail(t) ==
    /\ refresh[t].pc = "loading"
    /\ EndRefresh(t)
    /\ UNCHANGED <<now, db, writtenAt, invalidated, slot, epoch, flight, reader, writer>>

(* Epoch guard of the task.                                                 *)
RefreshGuardEpoch(t) ==
    /\ refresh[t].pc = "loaded"
    /\ \/ /\ epoch # refresh[t].epoch
          /\ EndRefresh(t)
       \/ /\ epoch = refresh[t].epoch
          /\ refresh' = [refresh EXCEPT ![t] = [@ EXCEPT !.pc = "guarded"]]
          /\ UNCHANGED inFlight
    /\ UNCHANGED <<now, db, writtenAt, invalidated, slot, epoch, flight, reader, writer>>

(* Identity guard of the task: cache.get(&key) must return the entry the    *)
(* refresh started from (Arc::ptr_eq).                                      *)
RefreshGuardSlot(t) ==
    LET e == MokaGet(refresh[t].key) IN
    /\ refresh[t].pc = "guarded"
    /\ \/ /\ e = NoEntry \/ (e # NoEntry /\ e.id # refresh[t].id)
          /\ EndRefresh(t)
       \/ /\ e # NoEntry /\ e.id = refresh[t].id
          /\ refresh' = [refresh EXCEPT ![t] = [@ EXCEPT !.pc = "owned"]]
          /\ UNCHANGED inFlight
    /\ UNCHANGED <<now, db, writtenAt, invalidated, slot, epoch, flight, reader, writer>>

(* cache.insert: a separate await, after both guards.                       *)
RefreshInsert(t) ==
    /\ refresh[t].pc = "owned"
    /\ CanAllocate
    /\ slot' = [slot EXCEPT ![refresh[t].key] = NewEntry(refresh[t].ver)]
    /\ EndRefresh(t)
    /\ UNCHANGED <<now, db, writtenAt, invalidated, epoch, flight, reader, writer>>

-----------------------------------------------------------------------------
(* A management write commits in the store ...                              *)
StoreWrite(k) ==
    /\ db[k] < MaxWrites
    /\ db' = [db EXCEPT ![k] = @ + 1]
    /\ writtenAt' = [writtenAt EXCEPT ![k][db[k] + 1] = now]

(* ... in this process, which then invalidates the key (invalidate) or a    *)
(* set of keys that holds it (invalidate_if, invalidate_all) ...            *)
Write(w, k, ks) ==
    /\ writer[w].pc = "idle"
    /\ k \in ks
    /\ StoreWrite(k)
    /\ writer' = [writer EXCEPT ![w] = [pc |-> "bump", keys |-> ks, key |-> k,
                                        ver |-> db[k] + 1]]
    /\ UNCHANGED <<now, invalidated, slot, inFlight, epoch, flight, reader, refresh>>

(* ... or in another process, whose invalidation never reaches this cache.  *)
RemoteWrite(k) ==
    /\ StoreWrite(k)
    /\ UNCHANGED <<now, invalidated, slot, inFlight, epoch, flight, reader, refresh,
                   writer>>

(* invalidate*: the epoch is bumped first ...                               *)
BumpEpoch(w) ==
    /\ writer[w].pc = "bump"
    /\ epoch' = epoch + 1
    /\ writer' = [writer EXCEPT ![w] = [@ EXCEPT !.pc = "drop"]]
    /\ UNCHANGED <<now, db, writtenAt, invalidated, slot, inFlight, flight, reader,
                   refresh>>

(* ... then moka drops the entries.                                         *)
InvalidateSlots(w) ==
    LET ks == writer[w].keys
        k == writer[w].key
    IN
    /\ writer[w].pc = "drop"
    /\ slot' = [j \in Keys |-> IF j \in ks THEN NoEntry ELSE slot[j]]
    /\ invalidated' = [invalidated EXCEPT ![k] = IF writer[w].ver > @ THEN writer[w].ver ELSE @]
    /\ writer' = [writer EXCEPT ![w] = IdleWriter]
    /\ UNCHANGED <<now, db, writtenAt, inFlight, epoch, flight, reader, refresh>>

(* moka evicts at max_capacity.                                             *)
Evict(k) ==
    /\ slot[k] # NoEntry
    /\ slot' = [slot EXCEPT ![k] = NoEntry]
    /\ UNCHANGED <<now, db, writtenAt, invalidated, inFlight, epoch, flight, reader,
                   refresh, writer>>

(* A load that has read the store inserts within MaxLoad.                   *)
LoadsInTime ==
    /\ \A r \in Readers : reader[r].pc = "loaded" => now - reader[r].readAt < MaxLoad
    /\ \A t \in Refreshers :
          refresh[t].pc \in {"loaded", "guarded", "owned"} => now - refresh[t].readAt < MaxLoad

Tick ==
    /\ now < MaxTime
    /\ LoadsInTime
    /\ now' = now + 1
    /\ UNCHANGED <<db, writtenAt, invalidated, slot, inFlight, epoch, flight, reader,
                   refresh, writer>>

ReaderStep(r) ==
    \/ \E t \in Refreshers : SpawnRefresh(r, t)
    \/ SkipRefresh(r) \/ DropExpired(r) \/ CaptureEpoch(r) \/ TryGetWith(r)
    \/ LoaderRead(r) \/ LoaderInsert(r) \/ CheckEpoch(r)

RefreshStep(t) ==
    \/ RefreshRead(t) \/ RefreshGuardEpoch(t) \/ RefreshGuardSlot(t) \/ RefreshInsert(t)

WriterStep(w) == BumpEpoch(w) \/ InvalidateSlots(w)

Next ==
    \/ \E r \in Readers, k \in Keys : GetHit(r, k) \/ GetStale(r, k) \/ GetMiss(r, k)
    \/ \E r \in Readers : ReaderStep(r) \/ LoaderFail(r) \/ DropCaller(r)
    \/ \E t \in Refreshers : RefreshStep(t) \/ RefreshFail(t)
    \/ \E w \in Writers, k \in Keys : \E ks \in {{k}, Keys} : Write(w, k, ks)
    \/ \E w \in Writers : WriterStep(w)
    \/ \E k \in Keys : RemoteWrite(k) \/ Evict(k)
    \/ Tick

Spec == Init /\ [][Next]_vars

-----------------------------------------------------------------------------
(* Properties.                                                              *)

(* Staleness is bounded: an entry the cache would still serve holds a value *)
(* that was current at most ttl (plus the duration of one load) ago, however*)
(* loads, refreshes, failed refreshes, invalidations, cancelled callers and *)
(* writes of other processes interleave (swr.rs get, maybe_spawn_refresh).  *)
StaleBounded ==
    \A k \in Keys :
        LET e == slot[k] IN
        (Usable(e) /\ e.ver < db[k]) => now < writtenAt[k][e.ver + 1] + Ttl + MaxLoad

(* refresh_in_flight is set on an entry exactly while one task refreshes    *)
(* it: the flag is never leaked (no refresh would run again until the hard  *)
(* TTL) and two tasks never refresh the same entry.                         *)
RefreshSingleFlight ==
    /\ \A i \in inFlight : \E t \in Refreshers : refresh[t].pc # "idle" /\ refresh[t].id = i
    /\ \A t, u \in Refreshers :
          (refresh[t].pc # "idle" /\ refresh[u].pc # "idle" /\ refresh[t].id = refresh[u].id)
              => t = u

(* invalidate's contract, "Forget the cached value for `key`. The next call *)
(* will re-fetch.": a get that starts after an invalidation has returned    *)
(* does not return a value older than the write that was invalidated.       *)
NextCallRefetches ==
    \A r \in Readers : reader[r].answer = "ok"
=============================================================================
