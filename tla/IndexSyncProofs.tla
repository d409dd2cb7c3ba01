-------------------------- MODULE IndexSyncProofs ---------------------------
(***************************************************************************)
(* IndexSync for every number of writes, backfill passes, index keys and    *)
(* rows of the table, every placement of them on partitions and every page  *)
(* size.                                                                    *)
(*                                                                         *)
(* The argument: the version of the item is the largest stamp of all the    *)
(* statements there are (Ordered), because a write reads its clock after    *)
(* the versions it competes with were committed, by the time an LWT takes   *)
(* (Fresh, Reads).  What an earlier image of the item left in the index is  *)
(* therefore beaten by the tombstone of the write that moved it, which is   *)
(* there or on its way (Buried), and the statement of the item as it stands *)
(* beats everything else (Shown).  When nothing is on its way any more, the *)
(* rows are all there is, and they are the ones of the item.                *)
(*                                                                         *)
(* Reads may show an earlier image; it is no newer than the item and, of    *)
(* the same version, is the item (Lagging), so a write that read it loses   *)
(* its fence.  A backfill has no fence: once its scan has passed the item   *)
(* (Passed), the row is there only if a page held the image of the item,    *)
(* which is what skip denies.                                               *)
(***************************************************************************)
EXTENDS IndexSync, FiniteSetTheorems, TLAPS

-----------------------------------------------------------------------------
(* Statements.                                                              *)

Row(k) == [ik |-> k, ts |-> rows[k].ts, val |-> rows[k].val]

(* The places a statement can be in.                                        *)
InRows(o) == \E k \in IndexKeys : rows[k].val # None /\ o = Row(k)
InQueue(o) == \E e \in queue : o \in e
InBatch(o) == \E x \in Writers : o \in w[x].ops
InPage(o) == \E c \in Builders : o \in b[c].page
InWorker(o) == \E e \in applying : o \in e

LEMMA IssuedPlaces ==
    \A o : o \in Issued <=>
        InRows(o) \/ o \in flight \/ InQueue(o) \/ InBatch(o) \/ InPage(o)
<1> DEFINE A == {[ik |-> k, ts |-> rows[k].ts, val |-> rows[k].val] :
                    k \in {j \in IndexKeys : rows[j].val # None}}
           W == UNION {w[x].ops : x \in Writers}
           P == UNION {b[c].page : c \in Builders}
<1>1. \A o : o \in A <=> InRows(o)
  BY DEF InRows, Row
<1>2. \A o : o \in UNION queue <=> InQueue(o)
  BY DEF InQueue
<1>3. \A o : o \in W <=> InBatch(o)
  BY DEF InBatch
<1>4. \A o : o \in P <=> InPage(o)
  BY DEF InPage
<1>5. Issued = A \cup flight \cup (UNION queue) \cup W \cup P
  BY DEF Issued
<1> HIDE DEF A, W, P
<1> QED
  BY <1>1, <1>2, <1>3, <1>4, <1>5

LEMMA IssuedPlacesNext ==
    \A o : o \in Issued' <=>
        InRows(o)' \/ o \in flight' \/ InQueue(o)' \/ InBatch(o)' \/ InPage(o)'
<1> DEFINE A == {[ik |-> k, ts |-> rows'[k].ts, val |-> rows'[k].val] :
                    k \in {j \in IndexKeys : rows'[j].val # None}}
           W == UNION {w'[x].ops : x \in Writers}
           P == UNION {b'[c].page : c \in Builders}
<1>1. \A o : o \in A <=> InRows(o)'
  BY DEF InRows, Row
<1>2. \A o : o \in UNION queue' <=> InQueue(o)'
  BY DEF InQueue
<1>3. \A o : o \in W <=> InBatch(o)'
  BY DEF InBatch
<1>4. \A o : o \in P <=> InPage(o)'
  BY DEF InPage
<1>5. Issued' = A \cup flight' \cup (UNION queue') \cup W \cup P
  BY DEF Issued
<1> HIDE DEF A, W, P
<1> QED
  BY <1>1, <1>2, <1>3, <1>4, <1>5

LEMMA ComingPlaces == \A o : o \in Coming <=> o \in Issued \/ InWorker(o)
BY DEF Coming, InWorker

LEMMA ComingPlacesNext == \A o : o \in Coming' <=> o \in Issued' \/ InWorker(o)'
BY DEF Coming, InWorker

(* What sync_indexes_at deletes and what it writes.                         *)
LEMMA SyncMembers ==
    ASSUME NEW old, NEW new, NEW stamp, NEW o
    PROVE  o \in SyncIndexes(old, new, stamp) <=>
             \/ /\ old # Absent /\ old.ik # NoKey /\ (new # Absent => new.ik # old.ik)
                /\ o = [ik |-> old.ik, ts |-> stamp, val |-> Tomb]
             \/ /\ new # Absent /\ new.ik # NoKey
                /\ o = [ik |-> new.ik, ts |-> stamp, val |-> new.by]
BY DEF SyncIndexes

LEMMA SyncTyped ==
    ASSUME NEW old \in Items \cup {Absent}, NEW new \in Items \cup {Absent}, NEW stamp \in Nat
    PROVE  /\ SyncIndexes(old, new, stamp) \in SUBSET Ops
           /\ Apart(SyncIndexes(old, new, stamp))
<1>1. ASSUME NEW o \in SyncIndexes(old, new, stamp) PROVE o \in Ops
  BY <1>1, SyncMembers DEF Items, Ops, Keys, Authors
<1>2. Apart(SyncIndexes(old, new, stamp))
  BY SyncMembers DEF Apart
<1> QED
  BY <1>1, <1>2

LEMMA RowsTyped == TypeOK => \A k \in IndexKeys : rows[k].val # None => Row(k) \in Ops
BY DEF TypeOK, Row, Cells, Ops

LEMMA ComingTyped == TypeOK => Coming \subseteq Ops
<1> SUFFICES ASSUME TypeOK, NEW o \in Coming PROVE o \in Ops
  OBVIOUS
<1>1. CASE InRows(o)
  BY <1>1, RowsTyped DEF InRows
<1>2. CASE o \in flight \/ InQueue(o) \/ InWorker(o)
  BY <1>2 DEF TypeOK, InQueue, InWorker
<1>3. CASE InBatch(o)
  BY <1>3 DEF TypeOK, InBatch, WriteState
<1>4. CASE InPage(o)
  BY <1>4 DEF TypeOK, InPage, BackfillState
<1> QED
  BY <1>1, <1>2, <1>3, <1>4, IssuedPlaces, ComingPlaces

-----------------------------------------------------------------------------
(* Types, and what holds after a gap too.                                   *)

LEMMA IdleTyped == /\ Idle \in WriteState /\ Done \in WriteState
                   /\ Unused \in BackfillState
                   /\ EmptyTable \in [IndexKeys -> Cells]
BY DEF Idle, Done, Unused, WriteState, BackfillState, Kinds, Keys, EmptyTable, Cells

LEMMA InitShape == Init => TypeOK /\ Shape
<1> SUFFICES ASSUME Init PROVE TypeOK /\ Shape
  OBVIOUS
<1> USE IndexAssumption
<1>1. /\ base \in Items \cup {Absent} /\ (base # Absent => base.ver = 1 /\ base.by = First)
      /\ prior \in Items \cup {Absent}
  BY DEF Init, Items, Keys, Authors
<1>2. rows \in [IndexKeys -> Cells]
  BY IdleTyped DEF Init, Cells, Authors
<1>3. w \in [Writers -> WriteState] /\ b \in [Builders -> BackfillState]
  BY IdleTyped DEF Init
<1>8. flight \subseteq Ops /\ queue \subseteq SUBSET Ops /\ applying \subseteq SUBSET Ops
  BY DEF Init
<1>9. clock \in Nat /\ status \in {"none", "ACTIVE"} /\ creation \in {"none", "over"}
  BY DEF Init
<1>11. /\ hold \in BOOLEAN /\ table \in BOOLEAN /\ delayed \in BOOLEAN
       /\ gap \in BOOLEAN /\ skip \in BOOLEAN
  BY Zenon DEF Init
<1>10. TypeOK
  BY <1>1, <1>2, <1>3, <1>8, <1>9, <1>11, Zenon DEF TypeOK
<1>4. \A k \in IndexKeys : rows[k].val = None => rows[k].ts = 0
  BY DEF Init, EmptyTable
<1>5. \A x \in Writers : WriteShape(x)
  BY DEF Init, WriteShape, Apart, Idle
<1>6. \A c \in Builders : BackfillShape(c)
  BY DEF Init, BackfillShape, Unused
<1>7. Shape
  BY <1>1, <1>4, <1>5, <1>6 DEF Init, Shape
<1> QED
  BY <1>7, <1>10

-----------------------------------------------------------------------------
(* Every step keeps the types.                                              *)

Flags ==
    /\ hold \in BOOLEAN /\ table \in BOOLEAN /\ delayed \in BOOLEAN
    /\ gap \in BOOLEAN /\ skip \in BOOLEAN

Things ==
    /\ clock \in Nat
    /\ base \in Items \cup {Absent} /\ prior \in Items \cup {Absent}
    /\ status \in {"none", "CREATING", "ACTIVE"}
    /\ rows \in [IndexKeys -> Cells]
    /\ flight \subseteq Ops
    /\ queue \subseteq SUBSET Ops /\ applying \subseteq SUBSET Ops
    /\ creation \in {"none", "held", "listed", "over"}
    /\ w \in [Writers -> WriteState]
    /\ b \in [Builders -> BackfillState]

LEMMA TypeParts == TypeOK <=> Flags /\ Things
BY DEF TypeOK, Flags, Things

LEMMA TypePartsNext == Flags' /\ Things' => TypeOK'
BY Zenon DEF TypeOK, Flags, Things

LEMMA FetchTyped ==
    ASSUME NEW pc \in {"stamp", "read"}, NEW kind \in Kinds, NEW ik \in Keys, NEW sees \in BOOLEAN
    PROVE  [Idle EXCEPT !.pc = pc, !.kind = kind, !.ik = ik, !.sees = sees] \in WriteState
BY IdleTyped DEF WriteState

(* What a write that commits stores and sends.                              *)
LEMMA ImageTyped ==
    ASSUME Things, Shape, NEW x \in Writers, w[x].pc = "lwt"
    PROVE  /\ Version(x) \in Nat
           /\ w[x].kind # "delete" => Version(x) >= w[x].at
           /\ NewImage(x) \in Items \cup {Absent}
           /\ SyncIndexes(w[x].old, NewImage(x), Version(x)) \in SUBSET Ops
           /\ Apart(SyncIndexes(w[x].old, NewImage(x), Version(x)))
<1>1. /\ w[x].at \in Nat /\ w[x].ik \in Keys /\ w[x].old \in Items \cup {Absent}
      /\ w[x].old # Absent => w[x].old.ver \in Nat
  BY DEF Things, WriteState, Items
<1>2. w[x].kind = "delete" => w[x].old # Absent
  BY DEF Shape, WriteShape
<1>3. Version(x) \in Nat /\ (w[x].kind # "delete" => Version(x) >= w[x].at)
  BY <1>1, <1>2 DEF Version, DeleteStamp, NextVersion
<1>4. NewImage(x) \in Items \cup {Absent}
  BY <1>1, <1>3 DEF NewImage, Items, Authors
<1> QED
  BY <1>1, <1>3, <1>4, SyncTyped

LEMMA WriteTypes ==
    ASSUME Things, Shape, NEW x \in Writers, WriteStep(x)
    PROVE  Things'
<1> DEFINE Becomes(r) == w' = [w EXCEPT ![x] = r]
<1>0. w[x] \in WriteState
  BY DEF Things
<1>1. CASE Fetch(x)
  <2>1. PICK kind \in Kinds, ik \in Keys, sees \in BOOLEAN :
          Becomes([Idle EXCEPT !.pc = IF kind = "create" THEN "stamp" ELSE "read",
                               !.kind = kind, !.ik = ik, !.sees = sees])
    BY <1>1, Zenon DEF Fetch
  <2>2. w'[x] \in WriteState
    BY <2>1, FetchTyped DEF Things
  <2> QED
    BY <1>1, <2>1, <2>2 DEF Fetch, Things, indexVars, rowVars
<1>2. CASE Read(x)
  <2>1. w'[x] \in WriteState
    <3>1. PICK img \in {base, prior} : Becomes(
            IF w[x].kind # "delete" THEN [w[x] EXCEPT !.pc = "stamp", !.old = img]
            ELSE IF img = Absent THEN Done
            ELSE [w[x] EXCEPT !.pc = "lwt", !.old = img])
      BY <1>2 DEF Read
    <3>2. img \in Items \cup {Absent}
      BY DEF Things
    <3>3. \A r \in WriteState : /\ [r EXCEPT !.pc = "stamp", !.old = img] \in WriteState
                                /\ [r EXCEPT !.pc = "lwt", !.old = img] \in WriteState
      BY <3>2 DEF WriteState
    <3> QED
      BY <1>0, <3>1, <3>3, IdleTyped DEF Things
  <2> QED
    BY <1>2, <2>1 DEF Read, Things, indexVars, rowVars
<1>3. CASE Stamp(x)
  <2>1. w'[x] \in WriteState
    BY <1>0, <1>3 DEF Things, Stamp, WriteState
  <2> QED
    BY <1>3, <2>1 DEF Stamp, Things, indexVars, rowVars
<1>4. CASE Commit(x)
  <2> DEFINE ops == SyncIndexes(w[x].old, NewImage(x), Version(x))
  <2>1. NewImage(x) \in Items \cup {Absent} /\ ops \in SUBSET Ops
    BY <1>4, ImageTyped DEF Commit
  <2> HIDE DEF ops
  <2>2. [Idle EXCEPT !.pc = "batch", !.ops = ops] \in WriteState
    BY <2>1, IdleTyped DEF WriteState
  <2>3. \A y \in Writers : MarkLate(x)[y] \in WriteState
    <3>1. \A r \in WriteState : [r EXCEPT !.late = TRUE] \in WriteState
      BY DEF WriteState
    <3> QED
      BY <3>1 DEF MarkLate, Things
  <2>4. \A y \in Writers : w'[y] \in WriteState
    BY <1>4, <2>2, <2>3, IdleTyped DEF Commit, MarkLate, ops
  <2>5. w' \in [Writers -> WriteState]
    BY <1>4, <2>4 DEF Commit, MarkLate
  <2> QED
    BY <1>4, <2>1, <2>5 DEF Commit, Things, indexVars, rowVars
<1>5. CASE Lost(x)
  <2>1. w'[x] \in WriteState
    BY <1>0, <1>5, IdleTyped DEF Things, Lost, WriteState
  <2> QED
    BY <1>5, <2>1 DEF Lost, Things, indexVars, rowVars
<1>6. CASE SendBatch(x)
  BY <1>6, IdleTyped DEF SendBatch, Things, WriteState, indexVars
<1>7. CASE LoseBatch(x)
  BY <1>7, IdleTyped DEF LoseBatch, Things, indexVars, rowVars
<1> QED
  BY <1>1, <1>2, <1>3, <1>4, <1>5, <1>6, <1>7 DEF WriteStep

(* What a page is, whichever rows it has.                                   *)
LEMMA ReadPageTyped ==
    ASSUME Things, NEW c \in Builders, ReadPage(c)
    PROVE  /\ b'[c] \in BackfillState
           /\ \E img \in {base, prior} :
                 b'[c].page = {} \/ (img # Absent /\ b'[c].page = SyncIndexes(Absent, img, img.ver))
           /\ b'[c].pc \in {"write", "activate"}
           /\ b'[c].pc = "activate" => b'[c].page = {} /\ b'[c].last = 0
<1>1. PICK page \in SUBSET (Others \cup {Self}), img \in {base, prior} :
        /\ IsPage(page, b[c].last, img)
        /\ \/ b' = [b EXCEPT ![c] = [Unused EXCEPT !.pc = "activate"]]
           \/ \E end \in page : b' = [b EXCEPT ![c] = AfterPage(page, img, img.ver, end)]
  BY DEF ReadPage
<1>2. CASE b' = [b EXCEPT ![c] = [Unused EXCEPT !.pc = "activate"]]
  BY <1>2 DEF Things, BackfillState, Unused
<1>3. ASSUME NEW end \in page, b' = [b EXCEPT ![c] = AfterPage(page, img, img.ver, end)]
      PROVE  /\ b'[c] \in BackfillState
             /\ b'[c].page = {} \/ (img # Absent /\ b'[c].page = SyncIndexes(Absent, img, img.ver))
             /\ b'[c].pc = "write"
  <2>1. b'[c] = [pc |-> "write",
                 page |-> IF Self \in page THEN SyncIndexes(Absent, img, img.ver) ELSE {},
                 last |-> Token[end], more |-> Cardinality(page) = PageSize]
    BY <1>3 DEF Things, AfterPage
  <2>2. Token[end] \in Nat
    BY IndexAssumption
  <2>3. Self \in page => img # Absent /\ SyncIndexes(Absent, img, img.ver) \in SUBSET Ops
    <3>1. Self \in page => img # Absent
      BY <1>1 DEF IsPage
    <3>2. img # Absent => img \in Items /\ img.ver \in Nat
      BY DEF Things, Items
    <3> QED
      BY <3>1, <3>2, SyncTyped
  <2>4. (Cardinality(page) = PageSize) \in BOOLEAN
    OBVIOUS
  <2>5. b'[c] \in BackfillState
    BY <2>1, <2>2, <2>3, <2>4 DEF BackfillState
  <2> QED
    BY <2>1, <2>3, <2>5
<1> QED
  BY <1>1, <1>2, <1>3

LEMMA BackfillTypes ==
    ASSUME Things, NEW c \in Builders, BackfillStep(c)
    PROVE  Things'
<1> USE DEF Things, BackfillState
<1>1. CASE Scan(c)
  BY <1>1 DEF Scan, rowVars
<1>2. CASE Drop(c)
  BY <1>2, IdleTyped DEF Drop
<1>3. CASE Recreate(c)
  BY <1>3 DEF Recreate, rowVars
<1>4. CASE Retake(c)
  BY <1>4 DEF Retake, rowVars
<1>5. CASE ReadPage(c)
  <2>1. b'[c] \in BackfillState
    BY <1>5, ReadPageTyped
  <2>2. b' = [b EXCEPT ![c] = b'[c]]
    BY <1>5 DEF ReadPage
  <2> QED
    BY <1>5, <2>1, <2>2 DEF ReadPage, rowVars
<1>6. CASE WritePage(c)
  BY <1>6, IdleTyped DEF WritePage
<1>11. CASE AdvanceCursor(c)
  BY <1>11, IdleTyped DEF AdvanceCursor, rowVars
<1>7. CASE Activate(c)
  BY <1>7 DEF Activate, rowVars
<1>8. CASE Release(c)
  BY <1>8, IdleTyped DEF Release, rowVars
<1>9. CASE BackfillFails(c)
  BY <1>9, IdleTyped DEF BackfillFails
<1>10. CASE Stop(c)
  BY <1>10, IdleTyped DEF Stop
<1> QED
  BY <1>1, <1>2, <1>3, <1>4, <1>5, <1>6, <1>7, <1>8, <1>9, <1>10, <1>11 DEF BackfillStep

LEMMA OtherTypes ==
    ASSUME Things,
           \/ Tick \/ TakeHold \/ CreationFails \/ ListIndex \/ CreateTable
           \/ \E o \in flight : Land(o)
           \/ \E e \in queue \cup applying : TakeEntry(e) \/ ApplyEntry(e) \/ ApplyFails(e)
    PROVE  Things'
<1> USE DEF Things
<1>1. CASE Tick
  BY <1>1, IndexAssumption DEF Tick, indexVars, rowVars
<1>2. CASE TakeHold \/ CreationFails \/ ListIndex \/ CreateTable
  BY <1>2 DEF TakeHold, CreationFails, ListIndex, CreateTable, rowVars
<1>3. ASSUME NEW o \in flight, Land(o) PROVE Things'
  <2>1. o \in Ops /\ rows[o.ik] \in Cells
    BY DEF Ops
  <2>2. Newest(rows[o.ik], o) \in Cells
    BY <2>1 DEF Newest, Cells, Ops
  <2> QED
    BY <1>3, <2>1, <2>2 DEF Land, indexVars
<1>4. ASSUME NEW e \in queue \cup applying, TakeEntry(e) \/ ApplyEntry(e) \/ ApplyFails(e)
      PROVE  Things'
  BY <1>4 DEF TakeEntry, ApplyEntry, ApplyFails, indexVars
<1> QED
  BY <1>1, <1>2, <1>3, <1>4

LEMMA NextFlags == Flags /\ Next => Flags'
<1> SUFFICES ASSUME Flags, Next PROVE Flags'
  OBVIOUS
<1> USE DEF Flags
<1>1. CASE Tick
  BY <1>1, Zenon DEF Tick, indexVars, rowVars
<1>2. ASSUME NEW x \in Writers, WriteStep(x) PROVE Flags'
  BY <1>2, Zenon DEF WriteStep, Fetch, Read, Stamp, Commit, Lost, SendBatch, LoseBatch,
                     indexVars, rowVars
<1>3. ASSUME NEW o \in flight, Land(o) PROVE Flags'
  BY <1>3, Zenon DEF Land, indexVars
<1>4. ASSUME NEW e, TakeEntry(e) \/ ApplyEntry(e) \/ ApplyFails(e) PROVE Flags'
  BY <1>4, Zenon DEF TakeEntry, ApplyEntry, ApplyFails, indexVars
<1>5. CASE TakeHold \/ CreationFails \/ ListIndex \/ CreateTable
  BY <1>5, Zenon DEF TakeHold, CreationFails, ListIndex, CreateTable
<1>6. ASSUME NEW c \in Builders, BackfillStep(c) PROVE Flags'
  BY <1>6, Zenon DEF BackfillStep, Scan, Drop, Recreate, Retake, ReadPage, WritePage, AdvanceCursor,
           Activate, Release, BackfillFails, Stop
<1> QED
  BY <1>1, <1>2, <1>3, <1>4, <1>5, <1>6 DEF Next

LEMMA NextTypes == TypeOK /\ Shape /\ [Next]_vars => TypeOK'
<1> SUFFICES ASSUME TypeOK, Shape, [Next]_vars PROVE TypeOK'
  OBVIOUS
<1>1. CASE Next
  <2>1. Flags'
    BY <1>1, TypeParts, NextFlags
  <2>2. Things'
    BY <1>1, TypeParts, WriteTypes, BackfillTypes, OtherTypes DEF Next
  <2> QED
    BY <2>1, <2>2, TypePartsNext
<1>2. CASE UNCHANGED vars
  BY <1>2, Zenon DEF vars, TypeOK
<1> QED
  BY <1>1, <1>2

-----------------------------------------------------------------------------
(* Every step keeps the shape.                                              *)

LEMMA OneWrite ==
    ASSUME Things, Shape, NEW x \in Writers, NEW r, w' = [w EXCEPT ![x] = r],
           status' = status, WriteShape(x)'
    PROVE  \A y \in Writers : WriteShape(y)'
<1>1. ASSUME NEW y \in Writers, y # x PROVE WriteShape(y)'
  <2>1. w'[y] = w[y]
    BY <1>1 DEF Things
  <2>2. WriteShape(y)
    BY DEF Shape
  <2> QED
    BY <2>1, <2>2 DEF WriteShape
<1> QED
  BY <1>1

(* The parts of the shape other than those of the writes and backfills.     *)
TableShape ==
    /\ clock > 0 /\ (base # Absent => base.ver > 0)
    /\ ~table => rows = EmptyTable /\ flight = {}
    /\ \A k \in IndexKeys : rows[k].val = None => rows[k].ts = 0
    /\ \A e \in queue \cup applying : Apart(e)
    /\ status = "none" => ~table /\ queue = {} /\ applying = {}
    /\ creation \in {"none", "held"} => status = "none"
    /\ creation = "listed" => status # "none"

LEMMA ShapeParts ==
    ASSUME TableShape', \A x \in Writers : WriteShape(x)', \A c \in Builders : BackfillShape(c)'
    PROVE  Shape'
BY DEF Shape, TableShape

LEMMA WriteShapes ==
    ASSUME Things, Shape, NEW x \in Writers, WriteStep(x)
    PROVE  Shape'
<1>0. /\ w[x] \in WriteState /\ DOMAIN w = Writers /\ WriteShape(x)
  BY DEF Things, Shape
<1>b. \A c \in Builders : BackfillShape(c)'
  <2>1. b' = b /\ status' = status
    BY DEF WriteStep, Fetch, Read, Stamp, Commit, Lost, SendBatch, LoseBatch, indexVars
  <2> QED
    BY <2>1 DEF Shape, BackfillShape
<1>1. CASE Fetch(x)
  <2>1. TableShape'
    BY <1>1 DEF Fetch, indexVars, rowVars, Shape, TableShape
  <2>2. PICK kind \in Kinds, ik \in Keys :
          w' = [w EXCEPT ![x] = [Idle EXCEPT
                     !.pc = IF kind = "create" THEN "stamp" ELSE "read",
                     !.kind = kind, !.ik = ik, !.sees = status # "none"]]
    BY <1>1 DEF Fetch
  <2>3. WriteShape(x)'
    BY <1>0, <1>1, <2>2 DEF Fetch, WriteShape, Idle, Apart, indexVars
  <2> QED
    BY <1>1, <1>b, <2>1, <2>2, <2>3, OneWrite, ShapeParts DEF Fetch, indexVars
<1>2. CASE Read(x)
  <2>1. TableShape'
    BY <1>2 DEF Read, indexVars, rowVars, Shape, TableShape
  <2>2. WriteShape(x)'
    <3>1. PICK img \in {base, prior} : w'[x] =
            IF w[x].kind # "delete" THEN [w[x] EXCEPT !.pc = "stamp", !.old = img]
            ELSE IF img = Absent THEN Done ELSE [w[x] EXCEPT !.pc = "lwt", !.old = img]
      BY <1>0, <1>2 DEF Read
    <3> QED
      BY <1>0, <1>2, <3>1 DEF Read, WriteShape, WriteState, Done, Idle, Apart, indexVars
  <2> QED
    BY <1>2, <1>b, <2>1, <2>2, OneWrite, ShapeParts, Zenon DEF Read, indexVars
<1>3. CASE Stamp(x)
  <2>1. TableShape'
    BY <1>3 DEF Stamp, indexVars, rowVars, Shape, TableShape
  <2>2. WriteShape(x)'
    BY <1>0, <1>3 DEF Stamp, WriteShape, WriteState, Apart, indexVars, Shape
  <2> QED
    BY <1>3, <1>b, <2>1, <2>2, OneWrite, ShapeParts DEF Stamp, indexVars
<1>4. CASE Commit(x)
  <2> DEFINE ops == SyncIndexes(w[x].old, NewImage(x), Version(x))
  <2>1. /\ w[x].kind # "delete" => Version(x) > 0
        /\ Apart(ops)
    BY <1>0, <1>4, ImageTyped DEF Commit, WriteShape, WriteState
  <2> HIDE DEF ops
  <2>2. TableShape'
    BY <1>4, <2>1 DEF Commit, NewImage, indexVars, rowVars, Shape, TableShape
  <2>3. WriteShape(x)'
    BY <1>0, <1>4, <2>1 DEF Commit, MarkLate, WriteShape, Done, Idle, Apart, indexVars, ops
  <2>4. ASSUME NEW y \in Writers, y # x PROVE WriteShape(y)'
    <3>1. w'[y] = w[y] \/ w'[y] = [w[y] EXCEPT !.late = TRUE]
      BY <1>4, <2>4 DEF Commit, MarkLate
    <3>2. w[y] \in WriteState /\ WriteShape(y) /\ status' = status
      BY <1>4 DEF Things, Shape, Commit, indexVars
    <3> QED
      BY <3>1, <3>2 DEF WriteShape, WriteState
  <2> QED
    BY <1>b, <2>2, <2>3, <2>4, ShapeParts
<1>5. CASE Lost(x)
  <2>1. TableShape'
    BY <1>5 DEF Lost, indexVars, rowVars, Shape, TableShape
  <2>2. WriteShape(x)'
    BY <1>0, <1>5 DEF Lost, WriteShape, WriteState, Done, Idle, Apart, indexVars
  <2> QED
    BY <1>5, <1>b, <2>1, <2>2, OneWrite, ShapeParts DEF Lost, indexVars
<1>6. CASE SendBatch(x)
  <2>1. TableShape'
    BY <1>0, <1>6 DEF SendBatch, indexVars, Shape, TableShape, WriteShape
  <2>2. WriteShape(x)'
    BY <1>0, <1>6 DEF SendBatch, WriteShape, Done, Idle, Apart, indexVars
  <2> QED
    BY <1>6, <1>b, <2>1, <2>2, OneWrite, ShapeParts DEF SendBatch, indexVars
<1>7. CASE LoseBatch(x)
  <2>1. TableShape'
    BY <1>7 DEF LoseBatch, indexVars, rowVars, Shape, TableShape
  <2>2. WriteShape(x)'
    BY <1>0, <1>7 DEF LoseBatch, WriteShape, Done, Idle, Apart, indexVars
  <2> QED
    BY <1>7, <1>b, <2>1, <2>2, OneWrite, ShapeParts DEF LoseBatch, indexVars
<1> QED
  BY <1>1, <1>2, <1>3, <1>4, <1>5, <1>6, <1>7 DEF WriteStep

LEMMA BackfillShapes ==
    ASSUME Things, Shape, NEW c \in Builders, BackfillStep(c)
    PROVE  Shape'
<1>0. b[c] \in BackfillState /\ DOMAIN b = Builders /\ BackfillShape(c)
  BY DEF Things, Shape
<1>1. \A x \in Writers : WriteShape(x)'
  <2>1. w' = w /\ (status' = "none" => status = "none")
    BY DEF BackfillStep, Scan, Drop, Recreate, Retake, ReadPage, WritePage, AdvanceCursor,
           Activate, Release, BackfillFails, Stop
  <2> QED
    BY <2>1 DEF Shape, WriteShape
<1>2. status # "none" /\ creation \notin {"none", "held"} /\ status' # "none"
      /\ creation' = creation
  BY <1>0 DEF BackfillStep, Scan, Drop, Recreate, Retake, ReadPage, WritePage, AdvanceCursor,
           Activate, Release, BackfillFails, Stop, BackfillShape, Shape
<1>3. TableShape'
  <2>1. CASE Drop(c)
    BY <1>2, <2>1 DEF Drop, Shape, TableShape, EmptyTable
  <2>2. CASE WritePage(c) \/ BackfillFails(c) \/ Stop(c)
    BY <1>2, <2>2 DEF WritePage, BackfillFails, Stop, Shape, TableShape
  <2>3. CASE \/ Scan(c) \/ Recreate(c) \/ Retake(c) \/ ReadPage(c) \/ AdvanceCursor(c)
             \/ Activate(c) \/ Release(c)
    BY <1>2, <2>3 DEF Scan, Recreate, Retake, ReadPage, AdvanceCursor, Activate, Release, rowVars,
                      Shape, TableShape
  <2> QED
    BY <2>1, <2>2, <2>3 DEF BackfillStep
<1>4. BackfillShape(c)'
  <2>1. CASE ReadPage(c)
    <3>1. ASSUME NEW img \in {base, prior}, img # Absent,
                 NEW o \in SyncIndexes(Absent, img, img.ver)
          PROVE  o.val # Tomb
      BY <3>1, SyncMembers, IndexAssumption DEF Things, Items, Authors
    <3>2. \A o \in b'[c].page : o.val # Tomb
      BY <2>1, <3>1, ReadPageTyped
    <3>3. b'[c].page # {} => b'[c].pc = "write"
      BY <2>1, ReadPageTyped
    <3>4. b'[c].pc \notin {"scan", "write", "token"} => b'[c].last = 0
      BY <2>1, ReadPageTyped
    <3> QED
      BY <1>2, <3>2, <3>3, <3>4 DEF BackfillShape
  <2>2. CASE AdvanceCursor(c)
    BY <1>0, <1>2, <2>2 DEF AdvanceCursor, BackfillShape, BackfillState, Unused
  <2>3. CASE WritePage(c)
    BY <1>0, <1>2, <2>3 DEF WritePage, BackfillShape, BackfillState, Unused
  <2>4. CASE Drop(c) \/ Recreate(c) \/ Retake(c) \/ Activate(c) \/ Scan(c)
    BY <1>0, <1>2, <2>4 DEF Drop, Recreate, Retake, Activate, Scan, BackfillShape, BackfillState
  <2>5. CASE Release(c) \/ BackfillFails(c) \/ Stop(c)
    BY <1>0, <1>2, <2>5 DEF Release, BackfillFails, Stop, BackfillShape, Unused
  <2> QED
    BY <2>1, <2>2, <2>3, <2>4, <2>5 DEF BackfillStep
<1>5. ASSUME NEW d \in Builders, d # c PROVE BackfillShape(d)'
  <2>1. b'[d] = b[d]
    BY <1>5 DEF Things, BackfillStep, Scan, Drop, Recreate, Retake, ReadPage, WritePage,
                AdvanceCursor, Activate, Release, BackfillFails, Stop
  <2> QED
    BY <1>2, <2>1 DEF Shape, BackfillShape
<1> QED
  BY <1>1, <1>3, <1>4, <1>5, ShapeParts

LEMMA OtherShapes ==
    ASSUME Things, Shape,
           \/ Tick \/ TakeHold \/ CreationFails \/ ListIndex \/ CreateTable
           \/ \E o \in flight : Land(o)
           \/ \E e \in queue \cup applying : TakeEntry(e) \/ ApplyEntry(e) \/ ApplyFails(e)
    PROVE  Shape'
<1>1. w' = w /\ b' = b /\ (status' = "none" => status = "none")
  BY DEF Tick, TakeHold, CreationFails, ListIndex, CreateTable, Land, TakeEntry, ApplyEntry,
         ApplyFails, indexVars
<1>2. /\ \A x \in Writers : WriteShape(x)'
      /\ \A c \in Builders : BackfillShape(c)'
  BY <1>1 DEF Shape, WriteShape, BackfillShape
<1>3. TableShape'
  <2>1. CASE Tick
    BY <2>1, IndexAssumption DEF Tick, indexVars, rowVars, Shape, TableShape, Things
  <2>2. CASE TakeHold \/ CreationFails \/ ListIndex \/ CreateTable
    BY <2>2 DEF TakeHold, CreationFails, ListIndex, CreateTable, rowVars, Shape, TableShape
  <2>3. ASSUME NEW o \in flight, Land(o) PROVE TableShape'
    <3>1. o.ik \in IndexKeys /\ o.val # None
      BY IndexAssumption DEF Things, Ops, Authors
    <3>2. \A k \in IndexKeys : rows'[k].val = None => rows'[k].ts = 0
      BY <2>3, <3>1 DEF Land, Newest, Things, Shape
    <3>3. table
      BY DEF Shape
    <3> QED
      BY <2>3, <3>2, <3>3 DEF Land, indexVars, Shape, TableShape
  <2>4. ASSUME NEW e \in queue \cup applying, TakeEntry(e) \/ ApplyEntry(e) \/ ApplyFails(e)
        PROVE  TableShape'
    BY <2>4 DEF TakeEntry, ApplyEntry, ApplyFails, indexVars, Shape, TableShape
  <2> QED
    BY <2>1, <2>2, <2>3, <2>4
<1> QED
  BY <1>2, <1>3, ShapeParts

LEMMA NextShape == TypeOK /\ Shape /\ [Next]_vars => Shape'
<1> SUFFICES ASSUME TypeOK, Shape, [Next]_vars PROVE Shape'
  OBVIOUS
<1>1. CASE Next
  BY <1>1, TypeParts, WriteShapes, BackfillShapes, OtherShapes DEF Next
<1>2. CASE UNCHANGED vars
  BY <1>2 DEF vars, Shape, WriteShape, BackfillShape
<1> QED
  BY <1>1, <1>2

(* Type correctness: whatever the calls, the workers and the backfills do,  *)
(* and after a gap too, the rows, the queue and the statements on their way *)
(* are of their types; a delete never takes its stamp from an absent row.   *)
THEOREM IndexTypeCorrect == Spec => []TypeOK
<1>1. Init => TypeOK /\ Shape
  BY InitShape
<1>2. (TypeOK /\ Shape) /\ [Next]_vars => (TypeOK /\ Shape)'
  BY NextTypes, NextShape
<1> QED
  BY <1>1, <1>2, PTL DEF Spec

-----------------------------------------------------------------------------
(* What keeps the order of the stamps and the tombstones.                   *)

LEMMA InitCore == Init => Core
<1> SUFFICES ASSUME Init PROVE Core
  OBVIOUS
<1>0. TypeOK /\ Shape
  BY InitShape
<1>1. ASSUME NEW o \in Coming
      PROVE  base # Absent /\ o = [ik |-> base.ik, ts |-> base.ver, val |-> base.by]
  <2>1. ~InWorker(o) /\ o \notin flight /\ ~InQueue(o) /\ ~InBatch(o) /\ ~InPage(o)
    BY DEF Init, InWorker, InQueue, InBatch, InPage, Idle, Unused
  <2>2. InRows(o)
    BY <2>1, IssuedPlaces, ComingPlaces
  <2> QED
    BY <2>2 DEF InRows, Row, Init, EmptyTable
<1>2. base # Absent => base.ver = 1
  BY DEF Init
<1>3. (status = "ACTIVE" /\ base # Absent /\ base.ik # NoKey) =>
        [ik |-> base.ik, ts |-> base.ver, val |-> base.by] \in Issued
  <2> SUFFICES ASSUME status = "ACTIVE", base # Absent, base.ik # NoKey
               PROVE  InRows([ik |-> base.ik, ts |-> base.ver, val |-> base.by])
    BY IssuedPlaces
  <2>1. base.ik \in IndexKeys /\ base.by = First /\ base.ver = 1
    BY DEF Init, Keys
  <2>2. rows[base.ik] = [ts |-> 1, val |-> First]
    BY <2>1 DEF Init
  <2> QED
    BY <2>1, <2>2, IndexAssumption DEF InRows, Row
<1>4. \A x \in Writers : w[x] = Idle
  BY DEF Init
<1>5. \A c \in Builders : b[c] = Unused
  BY DEF Init
<1>6. Ordered /\ Buried
  BY <1>1, <1>2 DEF Ordered, Buried, Current
<1>7. Shown
  BY <1>3, <1>5 DEF Shown, Passed, Unused
<1>8. Fresh
  BY <1>1, <1>2, <1>4, IndexAssumption DEF Fresh, Creating, Idle, Init
<1>9. Reads
  BY <1>4 DEF Reads, Idle
<1>10. Building
  BY <1>5 DEF Building, Underway, Unused, Init
<1>11. Lagging
  BY <1>2, <1>4, IndexAssumption DEF Lagging, Creating, Idle, Init
<1> QED
  BY <1>6, <1>7, <1>8, <1>9, <1>10, <1>11 DEF Core

(* No statement is new, and no tombstone goes.                              *)
LEMMA KeepsOrder ==
    ASSUME Ordered, Buried, base' = base, skip' = skip, Coming' \subseteq Coming,
           \A t \in Issued : t.val = Tomb => t \in Issued'
    PROVE  Ordered' /\ Buried'
<1>1. Ordered'
  BY DEF Ordered, Current
<1>2. Buried'
  <2> SUFFICES ASSUME ~skip', NEW o \in Coming', o.val # Tomb, ~Current(o.ik)'
               PROVE  \E t \in Issued' : t.ik = o.ik /\ t.val = Tomb /\ t.ts >= o.ts
    BY DEF Buried
  <2>1. PICK t \in Issued : t.ik = o.ik /\ t.val = Tomb /\ t.ts >= o.ts
    BY DEF Buried, Current
  <2> QED
    BY <2>1
<1> QED
  BY <1>1, <1>2

LEMMA KeepsFresh ==
    ASSUME Fresh, Reads, Lagging, base' = base, prior' = prior, clock' = clock, w' = w,
           Coming' \subseteq Coming
    PROVE  Fresh' /\ Reads' /\ Lagging'
BY DEF Fresh, Reads, Lagging, Creating

(* A backfill that stays where it is has passed what it had passed.         *)
LEMMA SamePassed ==
    ASSUME b' = b
    PROVE  \A c \in Builders : Passed(c)' = Passed(c)
BY DEF Passed

LEMMA SamePlaces ==
    ASSUME rows' = rows, flight' = flight, queue' = queue, applying' = applying,
           \A x \in Writers : w'[x].ops = w[x].ops,
           \A c \in Builders : b'[c].page = b[c].page
    PROVE  Issued' = Issued /\ Coming' = Coming
<1>1. \A o : o \in Issued' <=> o \in Issued
  BY IssuedPlaces, IssuedPlacesNext DEF InRows, Row, InQueue, InBatch, InPage
<1>2. \A o : o \in Coming' <=> o \in Coming
  BY <1>1, ComingPlaces, ComingPlacesNext DEF InWorker
<1> QED
  BY <1>1, <1>2

-----------------------------------------------------------------------------
(* Writes that send and store nothing.                                      *)

(* Only the progress of x changes, and x creates nothing by it.             *)
LEMMA QuietWrite ==
    ASSUME TypeOK, Core, NEW x \in Writers, NEW r, w' = [w EXCEPT ![x] = r], r.ops = w[x].ops,
           r.at <= clock,
           Creating(x)' => r.at = clock,
           r.old # Absent =>
              /\ r.old \in Items
              /\ r.old = base \/ r.old = prior \/ r.old = w[x].old
              /\ r.pc = "lwt" /\ r.kind # "delete" => r.at = clock,
           UNCHANGED <<clock, base, prior, skip, indexVars, rowVars>>
    PROVE  Core'
<1>1. w'[x] = r /\ \A y \in Writers : y # x => w'[y] = w[y]
  BY DEF TypeOK
<1>2. Issued' = Issued /\ Coming' = Coming
  BY <1>1, SamePlaces DEF indexVars, rowVars
<1>3. Ordered' /\ Buried'
  BY <1>2, KeepsOrder DEF Core
<1>4. Shown' /\ Building'
  BY <1>2, SamePassed DEF Core, Shown, Building, Underway, indexVars
<1>5. /\ clock \in Nat /\ (base # Absent => base.ver \in Nat)
      /\ (prior # Absent => prior.ver \in Nat)
      /\ \A o \in Coming : o.ts \in Nat
      /\ \A y \in Writers : w[y].old # Absent => w[y].old.ver \in Nat
  BY ComingTyped DEF TypeOK, Items, Ops, WriteState
<1>6. \A y \in Writers : y # x => Creating(y)' = Creating(y)
  BY <1>1 DEF Creating
<1>7. Fresh'
  <2>1. Fresh
    BY DEF Core
  <2>2. Creating(x)' => /\ base # Absent => base.ver + 1 < w'[x].at
                        /\ \A o \in Coming : o.ts < w'[x].at
    BY <1>1, <1>5, <2>1, IndexAssumption DEF Fresh
  <2> QED
    BY <1>1, <1>2, <1>6, <2>1, <2>2 DEF Fresh
<1>8. Reads'
  <2> SUFFICES ASSUME NEW y \in Writers, w'[y].old # Absent
               PROVE  LET old == w'[y].old IN
                      /\ old.ver + LwtTime <= clock
                      /\ w'[y].pc = "lwt" /\ w'[y].kind # "delete" => old.ver + LwtTime <= w'[y].at
                      /\ base # Absent => old.ver <= base.ver
                      /\ base # Absent /\ old.ver = base.ver => old = base
                      /\ \A z \in Writers : Creating(z)' => old.ver < w'[z].at
    BY DEF Reads
  <2> DEFINE old == w'[y].old
  <2>1. \/ old = base /\ base # Absent
        \/ old = prior /\ prior # Absent
        \/ \E z \in Writers : w[z].old # Absent /\ old = w[z].old
    BY <1>1
  <2>2. /\ old.ver \in Nat /\ old.ver + LwtTime <= clock
        /\ base # Absent => old.ver <= base.ver
        /\ base # Absent /\ old.ver = base.ver => old = base
        /\ \A z \in Writers : Creating(z) => old.ver < w[z].at
    <3>1. CASE old = base /\ base # Absent
      BY <1>5, <3>1 DEF Core, Fresh, TypeOK, WriteState
    <3>2. CASE \E z \in Writers : w[z].old # Absent /\ old = w[z].old
      BY <1>5, <3>2 DEF Core, Reads
    <3>3. CASE old = prior /\ prior # Absent
      BY <1>5, <3>3 DEF Core, Lagging
    <3> QED
      BY <2>1, <3>1, <3>2, <3>3
  <2>3. w'[y].pc = "lwt" /\ w'[y].kind # "delete" => old.ver + LwtTime <= w'[y].at
    BY <1>1, <1>5, <2>2 DEF Core, Reads
  <2>4. \A z \in Writers : Creating(z)' => old.ver < w'[z].at
    BY <1>1, <1>5, <1>6, <2>2, IndexAssumption
  <2> QED
    BY <2>2, <2>3, <2>4
<1>9. Lagging'
  BY <1>1, <1>5, <1>6, IndexAssumption DEF Core, Lagging
<1> QED
  BY <1>3, <1>4, <1>7, <1>8, <1>9 DEF Core

LEMMA FetchCore ==
    ASSUME TypeOK, Shape, Core, NEW x \in Writers, Fetch(x)
    PROVE  Core'
<1>1. PICK kind \in Kinds, ik \in Keys :
        w' = [w EXCEPT ![x] = [Idle EXCEPT
                   !.pc = IF kind = "create" THEN "stamp" ELSE "read",
                   !.kind = kind, !.ik = ik, !.sees = status # "none"]]
  BY DEF Fetch
<1>2. w[x].ops = {} /\ clock \in Nat
  BY DEF Fetch, Shape, WriteShape, TypeOK
<1>3. w'[x].ops = {} /\ w'[x].at = 0 /\ w'[x].old = Absent /\ w'[x].pc # "lwt"
  BY <1>1 DEF TypeOK, Idle
<1>4. UNCHANGED <<clock, base, prior, skip, indexVars, rowVars>> /\ 0 <= clock
  BY <1>2 DEF Fetch
<1>5. w' = [w EXCEPT ![x] = w'[x]]
  BY <1>1 DEF TypeOK
<1> QED
  BY <1>2, <1>3, <1>4, <1>5, QuietWrite DEF Creating

LEMMA ReadCore ==
    ASSUME TypeOK, Shape, Core, NEW x \in Writers, Read(x)
    PROVE  Core'
<1>0. PICK img \in {base, prior} : w' = [w EXCEPT ![x] =
        IF w[x].kind # "delete" THEN [w[x] EXCEPT !.pc = "stamp", !.old = img]
        ELSE IF img = Absent THEN Done
        ELSE [w[x] EXCEPT !.pc = "lwt", !.old = img]]
  BY DEF Read
<1> DEFINE r == IF w[x].kind # "delete" THEN [w[x] EXCEPT !.pc = "stamp", !.old = img]
                ELSE IF img = Absent THEN Done
                ELSE [w[x] EXCEPT !.pc = "lwt", !.old = img]
<1>1. w' = [w EXCEPT ![x] = r] /\ w'[x] = r
  BY <1>0 DEF TypeOK
<1>2. w[x] \in WriteState /\ w[x].at <= clock /\ w[x].ops = {} /\ clock \in Nat
  BY DEF TypeOK, Core, Fresh, Read, Shape, WriteShape
<1>3. /\ r.ops = {} /\ r.at <= clock
      /\ r.old # Absent => r.old = base \/ r.old = prior \/ r.old = w[x].old
      /\ r.pc = "lwt" => r.old # Absent /\ r.kind = "delete"
  BY <1>2 DEF WriteState, Done, Idle
<1> HIDE DEF r
<1>4. UNCHANGED <<clock, base, prior, skip, indexVars, rowVars>>
      /\ (base # Absent => base \in Items) /\ (prior # Absent => prior \in Items)
      /\ (w[x].old # Absent => w[x].old \in Items)
  BY DEF Read, TypeOK, WriteState
<1> QED
  BY <1>1, <1>2, <1>3, <1>4, QuietWrite DEF Creating

LEMMA StampCore ==
    ASSUME TypeOK, Shape, Core, NEW x \in Writers, Stamp(x)
    PROVE  Core'
<1> DEFINE r == [w[x] EXCEPT !.pc = "lwt", !.at = clock, !.late = FALSE]
<1>1. w' = [w EXCEPT ![x] = r] /\ w'[x] = r
  BY DEF Stamp, TypeOK
<1>2. w[x] \in WriteState /\ clock \in Nat
  BY DEF TypeOK
<1>3. r.ops = w[x].ops /\ r.at = clock /\ r.old = w[x].old /\ (r.old # Absent => r.old \in Items)
  BY <1>2 DEF WriteState
<1> HIDE DEF r
<1>4. UNCHANGED <<clock, base, prior, skip, indexVars, rowVars>> /\ clock <= clock
  BY <1>2 DEF Stamp
<1> QED
  BY <1>1, <1>3, <1>4, QuietWrite

LEMMA LostCore ==
    ASSUME TypeOK, Shape, Core, NEW x \in Writers, Lost(x)
    PROVE  Core'
<1> DEFINE r == CASE w[x].kind = "update" -> [w[x] EXCEPT !.pc = "read", !.old = Absent, !.at = 0]
                  [] w[x].kind = "create" -> Done
                  [] OTHER -> Idle
<1>1. w' = [w EXCEPT ![x] = r] /\ w'[x] = r
  BY DEF Lost, TypeOK
<1>2. w[x] \in WriteState /\ w[x].ops = {} /\ clock \in Nat
  BY DEF TypeOK, Lost, Shape, WriteShape
<1>3. r.ops = {} /\ r.at = 0 /\ r.old = Absent /\ r.pc # "lwt"
  BY <1>2 DEF WriteState, Done, Idle
<1> HIDE DEF r
<1>4. UNCHANGED <<clock, base, prior, skip, indexVars, rowVars>> /\ 0 <= clock
  BY <1>2 DEF Lost
<1> QED
  BY <1>1, <1>2, <1>3, <1>4, QuietWrite DEF Creating

-----------------------------------------------------------------------------
(* Statements on their way.                                                 *)

LEMMA DoneFresh ==
    ASSUME TypeOK, Fresh, Reads, Lagging, NEW x \in Writers, w' = [w EXCEPT ![x] = Done],
           base' = base, prior' = prior, clock' = clock, Coming' \subseteq Coming
    PROVE  Fresh' /\ Reads' /\ Lagging'
<1>1. /\ w'[x].at = 0 /\ w'[x].old = Absent /\ w'[x].pc = "done"
      /\ \A y \in Writers : y # x => w'[y] = w[y]
  BY DEF TypeOK, Done, Idle
<1>2. ~Creating(x)' /\ \A y \in Writers : y # x => Creating(y)' = Creating(y)
  BY <1>1 DEF Creating
<1>3. 0 <= clock
  BY DEF TypeOK
<1>4. Fresh'
  BY <1>1, <1>2, <1>3 DEF Fresh
<1>5. Reads' /\ Lagging'
  BY <1>1, <1>2 DEF Reads, Lagging
<1> QED
  BY <1>4, <1>5

(* Without its table, an index has nothing in it and nothing to show.       *)
LEMMA NoTable ==
    ASSUME Shape, Building, ~table
    PROVE  /\ \A o : ~InRows(o) /\ o \notin flight
           /\ status # "ACTIVE"
           /\ \A c \in Builders : ~Passed(c)
<1>1. rows = EmptyTable /\ flight = {}
  BY DEF Shape
<1>2. \A o : ~InRows(o)
  BY <1>1 DEF InRows, EmptyTable
<1> QED
  BY <1>1, <1>2 DEF Building, Underway, Passed

LEMMA SendBatchCore ==
    ASSUME TypeOK, Shape, Core, NEW x \in Writers, SendBatch(x), ~gap'
    PROVE  Core'
<1>0. Ordered /\ Buried /\ Shown /\ Fresh /\ Reads /\ Lagging /\ Building
  BY DEF Core
<1>1. w' = [w EXCEPT ![x] = Done]
  BY DEF SendBatch
<1>2. w'[x].ops = {} /\ \A y \in Writers : y # x => w'[y] = w[y]
  BY <1>1 DEF TypeOK, Done, Idle
<1>3. UNCHANGED <<clock, base, prior, skip, indexVars, rows, applying>>
  BY DEF SendBatch
<1>4. \/ delayed /\ queue' = queue \cup {w[x].ops} /\ flight' = flight
      \/ ~delayed /\ table /\ flight' = flight \cup w[x].ops /\ queue' = queue
      \/ /\ ~delayed /\ ~table /\ flight' = flight /\ queue' = queue
         /\ ~((\E o \in w[x].ops : o.val = Tomb) /\ OthersOutstanding({x}, {}))
  BY DEF SendBatch
<1>5. Issued' \subseteq Issued /\ Coming' \subseteq Coming
  <2>1. ASSUME NEW o \in Issued' PROVE o \in Issued
    BY <1>2, <1>3, <1>4, IssuedPlaces, IssuedPlacesNext
       DEF InRows, Row, InQueue, InBatch, InPage, indexVars
  <2>2. ASSUME NEW o \in Coming' PROVE o \in Coming
    BY <1>3, <2>1, ComingPlaces, ComingPlacesNext DEF InWorker
  <2> QED
    BY <2>1, <2>2
<1>6. ASSUME NEW o \in Issued, o \notin w[x].ops PROVE o \in Issued'
  BY <1>2, <1>3, <1>4, <1>6, IssuedPlaces, IssuedPlacesNext
     DEF InRows, Row, InQueue, InBatch, InPage, indexVars
<1>7. Fresh' /\ Reads' /\ Lagging'
  BY <1>0, <1>1, <1>3, <1>5, DoneFresh
<1>8. Building'
  BY <1>0, <1>3 DEF Building, Underway, indexVars
<1>9. CASE delayed \/ table
  <2>1. ASSUME NEW o \in w[x].ops PROVE o \in Issued'
    BY <1>4, <1>9, IssuedPlacesNext DEF InQueue
  <2>2. Ordered' /\ Buried'
    BY <1>0, <1>3, <1>5, <1>6, <2>1, KeepsOrder
  <2>3. Shown'
    BY <1>0, <1>3, <1>6, <2>1, SamePassed DEF Shown, indexVars
  <2> QED
    BY <1>7, <1>8, <2>2, <2>3 DEF Core
<1>10. CASE ~delayed /\ ~table
  <2>1. Shown'
    BY <1>0, <1>3, <1>10, NoTable, SamePassed DEF Shown, indexVars
  <2>2. CASE \E o \in w[x].ops : o.val = Tomb
    <3>1. ~OthersOutstanding({x}, {})
      BY <1>4, <1>10, <2>2
    <3>2. /\ queue = {} /\ applying = {}
          /\ \A y \in Writers \ {x} : w[y].ops = {}
          /\ \A c \in Builders : b[c].page = {}
      BY <3>1 DEF OthersOutstanding, Sending, Shape, WriteShape, BackfillShape
    <3>3. queue' = {} /\ b' = b /\ flight' = flight
      BY <1>3, <1>4, <1>10, <3>2 DEF indexVars
    <3>4. \A o : o \notin Issued'
      <4> SUFFICES ASSUME NEW o, o \in Issued' PROVE FALSE
        OBVIOUS
      <4>1. ~InQueue(o)' /\ ~InPage(o)' /\ ~InBatch(o)'
        BY <1>2, <3>2, <3>3 DEF InQueue, InPage, InBatch
      <4>2. ~InRows(o)' /\ o \notin flight'
        BY <1>0, <1>3, <1>10, <3>3, NoTable DEF InRows, Row
      <4> QED
        BY <4>1, <4>2, IssuedPlacesNext
    <3>5. \A o : o \notin Coming'
      BY <1>3, <3>2, <3>4, ComingPlacesNext DEF InWorker
    <3> QED
      BY <1>7, <1>8, <2>1, <3>5 DEF Core, Ordered, Buried
  <2>3. CASE ~\E o \in w[x].ops : o.val = Tomb
    <3>1. Ordered' /\ Buried'
      BY <1>0, <1>3, <1>5, <1>6, <2>3, KeepsOrder
    <3> QED
      BY <1>7, <1>8, <2>1, <3>1 DEF Core
  <2> QED
    BY <2>2, <2>3
<1> QED
  BY <1>4, <1>9, <1>10

(* A statement that lands beats the row or is beaten by it.  The tombstone  *)
(* that goes by it is not needed: what beat it is a tombstone too, or is    *)
(* itself under a later one.                                                *)
LEMMA LandCore ==
    ASSUME TypeOK, Shape, Core, NEW o \in flight, Land(o)
    PROVE  Core'
<1>0. Ordered /\ Buried /\ Shown /\ Fresh /\ Reads /\ Lagging /\ Building
  BY DEF Core
<1> DEFINE k == o.ik
           n == Row(k)'
<1>1. /\ flight' = flight \ {o} /\ rows' = [rows EXCEPT ![k] = Newest(@, o)]
      /\ UNCHANGED <<clock, base, prior, skip, indexVars, queue, applying, w>>
  BY DEF Land
<1>2. /\ o \in Ops /\ k \in IndexKeys /\ o.ts \in Nat /\ o.val \in Authors \cup {Tomb}
      /\ rows[k] \in Cells /\ rows[k].ts \in Nat
      /\ o = [ik |-> k, ts |-> o.ts, val |-> o.val]
      /\ o.val # None
  BY IndexAssumption DEF TypeOK, Ops, Cells, Authors
<1>3. /\ rows'[k] = Newest(rows[k], o)
      /\ \A j \in IndexKeys : j # k => rows'[j] = rows[j]
  BY <1>1, <1>2 DEF TypeOK
<1>4. \/ n = o /\ (o.ts > rows[k].ts \/ (o.ts = rows[k].ts /\ o.val = Tomb))
      \/ n = Row(k) /\ ~(o.ts > rows[k].ts \/ (o.ts = rows[k].ts /\ o.val = Tomb))
  BY <1>2, <1>3 DEF Newest, Row
<1>5. o \in Issued /\ (rows[k].val # None => Row(k) \in Issued)
      /\ (n.val # None => n \in Issued')
  BY <1>2, IssuedPlaces, IssuedPlacesNext DEF InRows, Row
<1>6. ASSUME NEW t \in Issued' PROVE t \in Issued
  <2>1. CASE InRows(t)'
    <3>1. PICK j \in IndexKeys : rows'[j].val # None /\ t = Row(j)'
      BY <2>1 DEF InRows
    <3> QED
      BY <1>2, <1>3, <1>4, <1>5, <3>1, IssuedPlaces DEF InRows, Row
  <2>2. CASE ~InRows(t)'
    BY <1>1, <2>2, IssuedPlaces, IssuedPlacesNext DEF InQueue, InBatch, InPage, indexVars
  <2> QED
    BY <2>1, <2>2
<1>7. ASSUME NEW t \in Issued, t # o, t # Row(k) PROVE t \in Issued'
  <2>1. CASE InRows(t)
    <3>1. PICK j \in IndexKeys : rows[j].val # None /\ t = Row(j)
      BY <2>1 DEF InRows
    <3>2. InRows(t)'
      BY <1>3, <1>7, <3>1 DEF InRows, Row
    <3> QED
      BY <3>2, IssuedPlacesNext
  <2>2. CASE ~InRows(t)
    BY <1>1, <1>7, <2>2, IssuedPlaces, IssuedPlacesNext DEF InQueue, InBatch, InPage, indexVars
  <2> QED
    BY <2>1, <2>2
<1>8. Coming' \subseteq Coming
  <2>1. ASSUME NEW t \in Coming' PROVE t \in Coming
    BY <1>1, <1>6, ComingPlaces, ComingPlacesNext DEF InWorker
  <2> QED
    BY <2>1
<1>9. \A t \in Issued : t \in Coming /\ t \in Ops /\ t.ts \in Nat
  BY ComingPlaces, ComingTyped DEF Ops
<1>10. Row(k).ik = k /\ Row(k).ts = rows[k].ts /\ Row(k).val = rows[k].val
  BY DEF Row
<1>11. rows[k].val = None => rows[k].ts = 0
  BY <1>2 DEF Shape
<1> HIDE DEF n
<1>12. Ordered'
  BY <1>0, <1>1, <1>8 DEF Ordered, Current
<1>13. Buried'
  <2> SUFFICES ASSUME ~skip', NEW u \in Coming', u.val # Tomb, ~Current(u.ik)'
               PROVE  \E t \in Issued' : t.ik = u.ik /\ t.val = Tomb /\ t.ts >= u.ts
    BY DEF Buried
  <2>1. u \in Coming /\ u.ts \in Nat /\ ~Current(u.ik) /\ ~skip
    BY <1>1, <1>8, ComingTyped DEF Ops, Current
  <2>2. PICK t \in Issued : t.ik = u.ik /\ t.val = Tomb /\ t.ts >= u.ts
    BY <1>0, <2>1 DEF Buried
  <2>3. CASE t \in Issued'
    BY <2>2, <2>3
  <2>4. CASE t \notin Issued'
    <3>1. t = o \/ t = Row(k)
      BY <1>7, <2>4
    <3>2. /\ n \in Issued' /\ n \in Issued /\ n.ik = k /\ n.ts >= t.ts
          /\ n.val # Tomb => n.ts > t.ts
          /\ n = o \/ n = Row(k)
          /\ t = o => n = Row(k)
          /\ t = Row(k) => n = o
      <4>1. CASE t = o
        BY <1>2, <1>4, <1>5, <1>10, <1>11, <2>2, <2>4, <4>1
      <4>2. CASE t = Row(k)
        BY <1>2, <1>4, <1>5, <1>10, <1>11, <2>2, <2>4, <4>2, IndexAssumption
      <4> QED
        BY <3>1, <4>1, <4>2
    <3>3. CASE n.val = Tomb
      BY <1>2, <1>9, <2>1, <2>2, <3>1, <3>2, <3>3, <1>10
    <3>4. CASE n.val # Tomb
      <4>1. n.ik = u.ik
        BY <1>10, <2>2, <3>1, <3>2
      <4>2. PICK v \in Issued : v.ik = n.ik /\ v.val = Tomb /\ v.ts >= n.ts
        BY <1>0, <1>9, <2>1, <3>2, <3>4, <4>1 DEF Buried
      <4>3. v # t /\ v # n
        BY <1>9, <3>2, <3>4, <4>2
      <4>4. v \in Issued'
        BY <1>7, <3>1, <3>2, <4>3
      <4>5. v.ts >= u.ts
        BY <1>9, <2>1, <2>2, <3>2, <3>4, <4>2
      <4> QED
        BY <4>1, <4>2, <4>4, <4>5
    <3> QED
      BY <3>3, <3>4
  <2> QED
    BY <2>3, <2>4
<1>14. Shown'
  <2> DEFINE s == [ik |-> base.ik, ts |-> base.ver, val |-> base.by]
  <2> SUFFICES ASSUME s \in Issued, base # Absent PROVE s \in Issued'
    BY <1>0, <1>1, SamePassed DEF Shown, indexVars
  <2>1. base.ver \in Nat /\ base.ver > 0 /\ base.by # Tomb
    BY IndexAssumption DEF TypeOK, Items, Authors, Shape
  <2> SUFFICES ASSUME s = o \/ s = Row(k) PROVE s \in Issued'
    BY <1>7
  <2>2. base.ik = k
    BY <1>10
  <2>3. CASE s = o
    <3>1. CASE n = o
      BY <1>2, <1>5, <2>3, <3>1
    <3>2. CASE n = Row(k) /\ ~(o.ts > rows[k].ts \/ (o.ts = rows[k].ts /\ o.val = Tomb))
      <4>1. rows[k].ts >= base.ver /\ rows[k].val # None
        BY <1>2, <1>11, <2>1, <2>3, <3>2
      <4>2. Row(k) \in Coming
        BY <1>5, <1>9, <4>1
      <4>3. rows[k].ts = base.ver /\ rows[k].val = base.by
        BY <1>0, <1>2, <1>10, <2>1, <2>2, <4>1, <4>2 DEF Ordered, Current
      <4>4. n = s
        BY <2>2, <3>2, <4>3 DEF Row
      <4> QED
        BY <1>5, <1>10, <3>2, <4>1, <4>4
    <3> QED
      BY <1>4, <3>1, <3>2
  <2>4. CASE s = Row(k)
    <3>1. o.ts <= base.ver /\ (o.ts = base.ver => o.val = base.by)
      BY <1>0, <1>5, <1>9, <2>2 DEF Ordered, Current
    <3>2. rows[k].ts = base.ver /\ rows[k].val = base.by
      BY <1>10, <2>4
    <3>3. n = Row(k)
      BY <1>2, <1>4, <2>1, <3>1, <3>2
    <3>4. rows[k].val # None
      BY <3>2, IndexAssumption DEF TypeOK, Items, Authors
    <3> QED
      BY <1>5, <1>10, <2>4, <3>3, <3>4
  <2> QED
    BY <2>3, <2>4
<1>15. Fresh' /\ Reads' /\ Lagging'
  BY <1>0, <1>1, <1>8, KeepsFresh
<1>16. Building'
  BY <1>0, <1>1 DEF Building, Underway, indexVars
<1> QED
  BY <1>12, <1>13, <1>14, <1>15, <1>16 DEF Core

LEMMA EntryCore ==
    ASSUME TypeOK, Shape, Core, NEW e \in queue \cup applying, ~gap',
           TakeEntry(e) \/ ApplyEntry(e) \/ ApplyFails(e)
    PROVE  Core'
<1>0. Ordered /\ Buried /\ Shown /\ Fresh /\ Reads /\ Lagging /\ Building
  BY DEF Core
<1>1. UNCHANGED <<clock, base, prior, skip, indexVars, rows, w>>
  BY DEF TakeEntry, ApplyEntry, ApplyFails
<1>2. /\ flight' = flight \/ (e \in applying /\ flight' = flight \cup e)
      /\ queue' = queue \/ queue' = queue \ {e}
      /\ \A d \in applying' : d \in applying \/ d \in queue
  BY DEF TakeEntry, ApplyEntry, ApplyFails
<1>3. Coming' \subseteq Coming
  <2>1. ASSUME NEW o \in Issued' PROVE o \in Coming
    BY <1>1, <1>2, IssuedPlaces, IssuedPlacesNext, ComingPlaces
       DEF InRows, Row, InQueue, InBatch, InPage, InWorker, indexVars
  <2>2. ASSUME NEW o \in Coming' PROVE o \in Coming
    BY <1>2, <2>1, IssuedPlaces, ComingPlaces, ComingPlacesNext DEF InWorker, InQueue
  <2> QED
    BY <2>2
<1>4. Fresh' /\ Reads' /\ Lagging'
  BY <1>0, <1>1, <1>3, KeepsFresh
<1>5. Building'
  BY <1>0, <1>1 DEF Building, Underway, indexVars
<1>6. ASSUME NEW o \in Issued, o \notin e PROVE o \in Issued'
  BY <1>1, <1>2, <1>6, IssuedPlaces, IssuedPlacesNext
     DEF InRows, Row, InQueue, InBatch, InPage, indexVars
<1>7. CASE queue' = queue \/ flight' = flight \cup e
  <2>1. ASSUME NEW o \in Issued PROVE o \in Issued'
    BY <1>1, <1>2, <1>7, IssuedPlaces, IssuedPlacesNext
       DEF InRows, Row, InQueue, InBatch, InPage, indexVars
  <2>2. Ordered' /\ Buried'
    BY <1>0, <1>1, <1>3, <2>1, KeepsOrder
  <2>3. Shown'
    BY <1>0, <1>1, <2>1, SamePassed DEF Shown, indexVars
  <2> QED
    BY <1>4, <1>5, <2>2, <2>3 DEF Core
<1>8. CASE ApplyEntry(e) /\ ~table
  <2>1. Shown'
    BY <1>0, <1>1, <1>8, NoTable, SamePassed DEF Shown, indexVars
  <2>2. CASE ~\E o \in e : o.val = Tomb
    <3>1. Ordered' /\ Buried'
      BY <1>0, <1>1, <1>3, <1>6, <2>2, KeepsOrder
    <3> QED
      BY <1>4, <1>5, <2>1, <3>1 DEF Core
  <2>3. CASE \E o \in e : o.val = Tomb
    <3>1. ~OthersOutstanding({}, {e})
      BY <1>8, <2>3 DEF ApplyEntry
    <3>2. /\ queue \cup applying \subseteq {e}
          /\ \A y \in Writers : w[y].ops = {}
          /\ \A c \in Builders : b[c].page = {}
      BY <3>1 DEF OthersOutstanding, Sending, Shape, WriteShape, BackfillShape
    <3>3. ASSUME NEW o \in Coming PROVE o \in e
      BY <1>0, <1>8, <3>2, NoTable, IssuedPlaces, ComingPlaces
         DEF InQueue, InBatch, InPage, InWorker
    <3>4. Apart(e)
      BY DEF Shape
    <3>5. ASSUME ~skip, NEW o \in Coming, o.val # Tomb PROVE Current(o.ik)
      <4> SUFFICES ASSUME ~Current(o.ik) PROVE FALSE
        OBVIOUS
      <4>1. PICK t \in Issued : t.ik = o.ik /\ t.val = Tomb
        BY <1>0, <3>5 DEF Buried
      <4>2. t \in e /\ o \in e
        BY <3>3, ComingPlaces
      <4> QED
        BY <3>4, <3>5, <4>1, <4>2 DEF Apart
    <3>6. Ordered'
      BY <1>0, <1>1, <1>3 DEF Ordered, Current
    <3>7. Buried'
      BY <1>1, <1>3, <3>5 DEF Buried, Current
    <3> QED
      BY <1>4, <1>5, <2>1, <3>6, <3>7 DEF Core
  <2> QED
    BY <2>2, <2>3
<1> QED
  BY <1>7, <1>8 DEF TakeEntry, ApplyEntry, ApplyFails

-----------------------------------------------------------------------------
(* The index and its backfill.                                              *)

LEMMA CreationCore ==
    ASSUME TypeOK, Shape, Core, TakeHold \/ CreationFails \/ ListIndex \/ CreateTable
    PROVE  Core'
<1>0. Ordered /\ Buried /\ Shown /\ Fresh /\ Reads /\ Lagging /\ Building
  BY DEF Core
<1>1. UNCHANGED <<clock, base, prior, skip, b, rowVars, w>>
  BY DEF TakeHold, CreationFails, ListIndex, CreateTable
<1>2. Issued' = Issued /\ Coming' = Coming
  BY <1>1, SamePlaces DEF rowVars
<1>3. Ordered' /\ Buried' /\ Fresh' /\ Reads' /\ Lagging'
  BY <1>0, <1>1, <1>2, KeepsOrder, KeepsFresh
<1>4. /\ status' = status \/ (status = "none" /\ status' = "CREATING")
      /\ table' = table \/ table'
  BY DEF TakeHold, CreationFails, ListIndex, CreateTable, Shape
<1>5. status = "none" => \A c \in Builders : b[c].pc = "idle"
  BY DEF Shape, BackfillShape
<1>6. Shown'
  BY <1>0, <1>1, <1>2, <1>4, <1>5, SamePassed DEF Shown
<1>7. Building'
  BY <1>0, <1>1, <1>4, <1>5 DEF Building, Underway
<1> QED
  BY <1>3, <1>6, <1>7 DEF Core

LEMMA TickCore ==
    ASSUME TypeOK, Core, Tick
    PROVE  Core'
<1>0. Ordered /\ Buried /\ Shown /\ Fresh /\ Reads /\ Lagging /\ Building
  BY DEF Core
<1>1. UNCHANGED <<base, prior, skip, indexVars, rowVars, w>> /\ clock' = clock + Grain
  BY DEF Tick
<1>2. Issued' = Issued /\ Coming' = Coming
  BY <1>1, SamePlaces DEF indexVars, rowVars
<1>3. Ordered' /\ Buried'
  BY <1>0, <1>1, <1>2, KeepsOrder
<1>4. Shown' /\ Building'
  BY <1>0, <1>1, <1>2, SamePassed DEF Shown, Building, Underway, indexVars
<1>5. /\ clock \in Nat /\ clock' >= clock /\ clock' \in Nat /\ LwtTime \in Nat
      /\ (base # Absent => base.ver \in Nat) /\ (prior # Absent => prior.ver \in Nat)
      /\ \A o \in Coming : o.ts \in Nat
      /\ \A x \in Writers : w[x].at \in Nat /\ (w[x].old # Absent => w[x].old.ver \in Nat)
  BY <1>1, ComingTyped, IndexAssumption DEF TypeOK, Items, Ops, WriteState
<1>6. Fresh'
  BY <1>0, <1>1, <1>2, <1>5 DEF Fresh, Creating
<1>7. Reads' /\ Lagging'
  BY <1>0, <1>1, <1>5 DEF Reads, Lagging, Creating
<1> QED
  BY <1>3, <1>4, <1>6, <1>7 DEF Core

(* Steps of a backfill that only change its progress.                       *)
LEMMA BackfillMovesCore ==
    ASSUME TypeOK, Shape, Core, NEW c \in Builders,
           Scan(c) \/ Recreate(c) \/ Retake(c) \/ Activate(c) \/ Release(c)
    PROVE  Core'
<1>0. Ordered /\ Buried /\ Shown /\ Fresh /\ Reads /\ Lagging /\ Building
  BY DEF Core
<1>1. UNCHANGED <<clock, base, prior, skip, rowVars, w>>
  BY DEF Scan, Recreate, Retake, Activate, Release
<1>2. b[c] \in BackfillState /\ (b[c].page # {} => b[c].pc = "write")
  BY DEF TypeOK, Shape, BackfillShape
<1>3. \A d \in Builders \ {c} : b'[d] = b[d]
  BY DEF TypeOK, Scan, Recreate, Retake, Activate, Release
<1>4. b'[c].page = b[c].page
  <2>1. CASE Release(c)
    BY <1>2, <2>1 DEF TypeOK, Release, Unused
  <2>2. CASE Scan(c) \/ Recreate(c) \/ Retake(c) \/ Activate(c)
    <3>1. PICK p : b' = [b EXCEPT ![c].pc = p]
      BY <2>2 DEF Scan, Recreate, Retake, Activate
    <3> QED
      BY <1>2, <3>1 DEF TypeOK, BackfillState
  <2> QED
    BY <2>1, <2>2
<1>5. Issued' = Issued /\ Coming' = Coming
  BY <1>1, <1>3, <1>4, SamePlaces DEF rowVars
<1>6. Ordered' /\ Buried' /\ Fresh' /\ Reads' /\ Lagging'
  BY <1>0, <1>1, <1>5, KeepsOrder, KeepsFresh
<1>7. CASE Activate(c)
  <2>1. /\ b[c].pc = "activate" /\ b'[c].pc = "release" /\ status' = "ACTIVE" /\ table' = table
    BY <1>2, <1>7 DEF Activate, TypeOK, BackfillState
  <2>2. Underway(c) /\ table
    BY <1>0, <2>1 DEF Building, Underway
  <2>3. \A d \in Builders : ~Underway(d)'
    BY <1>0, <1>3, <2>1, <2>2 DEF Building, Underway
  <2>4. Building'
    BY <2>1, <2>2, <2>3 DEF Building
  <2>5. Shown'
    BY <1>0, <1>1, <1>5, <2>1 DEF Shown, Passed
  <2> QED
    BY <1>6, <2>4, <2>5 DEF Core
<1>8. CASE Scan(c) \/ Recreate(c) \/ Retake(c) \/ Release(c)
  <2>1. status' = status /\ (table' \/ table' = table)
    BY <1>8 DEF Scan, Recreate, Retake, Release
  <2>2. /\ b'[c].pc \in {"drop", "hold", "scan", "idle"}
        /\ Underway(c)' => Underway(c)
        /\ b'[c].pc = "hold" => table'
        /\ b'[c].pc = "scan" => b[c].pc = "hold" /\ b'[c].last = b[c].last
    BY <1>2, <1>8 DEF Scan, Recreate, Retake, Release, Underway, TypeOK, BackfillState, Unused
  <2>3. \A d \in Builders \ {c} : Underway(d)' = Underway(d)
    BY <1>3 DEF Underway
  <2>4. Building'
    <3>1. \A d \in Builders : Underway(d)' => Underway(d)
      BY <2>2, <2>3
    <3>2. ASSUME NEW d \in Builders, Underway(d)', b'[d].pc # "create" PROVE table'
      <4>1. CASE d = c
        BY <1>0, <2>1, <2>2, <3>2, <4>1 DEF Building, Underway
      <4>2. CASE d # c
        BY <1>0, <1>3, <2>1, <2>3, <3>2, <4>2 DEF Building
      <4> QED
        BY <4>1, <4>2
    <3> QED
      BY <1>0, <2>1, <3>1, <3>2 DEF Building
  <2>5. \A d \in Builders : Passed(d)' => Passed(d)
    <3>1. b[c].pc = "hold" => b[c].last = 0
      BY DEF Shape, BackfillShape
    <3>2. 0 < Token[Self] /\ Token[Self] \in Nat
      BY IndexAssumption
    <3>3. ~Passed(c)'
      BY <2>2, <3>1, <3>2 DEF Passed
    <3> QED
      BY <1>3, <3>3 DEF Passed
  <2>6. Shown'
    BY <1>0, <1>1, <1>5, <2>1, <2>5 DEF Shown
  <2> QED
    BY <1>6, <2>4, <2>6 DEF Core
<1> QED
  BY <1>7, <1>8

(* The page is written, or lost: it has no tombstones.                      *)
LEMMA BackfillPageCore ==
    ASSUME TypeOK, Shape, Core, NEW c \in Builders,
           WritePage(c) \/ BackfillFails(c) \/ Stop(c)
    PROVE  Core'
<1>0. Ordered /\ Buried /\ Shown /\ Fresh /\ Reads /\ Lagging /\ Building
  BY DEF Core
<1>1. UNCHANGED <<clock, base, prior, skip, status, table, rows, queue, applying, w>>
  BY DEF WritePage, BackfillFails, Stop
<1>2. /\ \A d \in Builders \ {c} : b'[d] = b[d]
      /\ b'[c].page = {}
      /\ \/ b'[c].pc = "idle" \/ b'[c].pc = "release"
         \/ WritePage(c) /\ b'[c].pc = "activate" /\ ~b[c].more
         \/ WritePage(c) /\ b'[c].pc = "token" /\ b'[c].last = b[c].last
  <2>1. CASE WritePage(c)
    BY <2>1 DEF TypeOK, BackfillState, WritePage, Unused
  <2>2. CASE BackfillFails(c) \/ Stop(c)
    BY <2>2 DEF TypeOK, BackfillFails, Stop, Unused
  <2> QED
    BY <2>1, <2>2
<1>3. /\ flight' = flight \/ flight' = flight \cup b[c].page
      /\ WritePage(c) => b[c].pc = "write" /\ flight' = flight \cup b[c].page
      /\ b[c].page # {} => b[c].pc = "write"
      /\ \A o \in b[c].page : o.val # Tomb
  BY DEF WritePage, BackfillFails, Stop, Shape, BackfillShape
<1>4. ASSUME NEW o \in Issued' PROVE o \in Issued
  BY <1>1, <1>2, <1>3, IssuedPlaces, IssuedPlacesNext DEF InRows, Row, InQueue, InBatch, InPage
<1>5. ASSUME NEW o \in Issued, o \notin b[c].page \/ WritePage(c) PROVE o \in Issued'
  BY <1>1, <1>2, <1>3, <1>5, IssuedPlaces, IssuedPlacesNext
     DEF InRows, Row, InQueue, InBatch, InPage
<1>6. Coming' \subseteq Coming
  <2>1. ASSUME NEW o \in Coming' PROVE o \in Coming
    BY <1>1, <1>4, ComingPlaces, ComingPlacesNext DEF InWorker
  <2> QED
    BY <2>1
<1>7. Ordered' /\ Buried' /\ Fresh' /\ Reads' /\ Lagging'
  BY <1>0, <1>1, <1>3, <1>5, <1>6, KeepsOrder, KeepsFresh
<1>8. /\ \A d \in Builders :
            Underway(d)' => Underway(d) /\ (b[d].pc = "create" => b'[d].pc = "create")
      /\ Underway(c)' => WritePage(c) /\ b[c].pc = "write"
  BY <1>2, <1>3 DEF Underway
<1>9. Building'
  BY <1>0, <1>1, <1>8 DEF Building
<1>10. /\ \A d \in Builders : Passed(d)' => Passed(d)
       /\ Passed(c)' => WritePage(c)
  BY <1>2, <1>3 DEF Passed
<1>11. Shown'
  <2> DEFINE s == [ik |-> base.ik, ts |-> base.ver, val |-> base.by]
  <2> SUFFICES ASSUME ~skip, base # Absent, base.ik # NoKey,
                      status = "ACTIVE" \/ \E d \in Builders : Passed(d)'
               PROVE  s \in Issued'
    BY <1>1 DEF Shown
  <2>1. s \in Issued
    BY <1>0, <1>10 DEF Shown
  <2>2. CASE WritePage(c)
    BY <1>5, <2>1, <2>2
  <2>3. CASE ~WritePage(c)
    <3>1. status = "ACTIVE" \/ \E d \in Builders \ {c} : Passed(d)
      BY <1>10, <2>3
    <3>2. b[c].pc # "write"
      BY <1>0, <3>1 DEF Building, Underway, Passed
    <3> QED
      BY <1>3, <1>5, <2>1, <3>2
  <2> QED
    BY <2>2, <2>3
<1> QED
  BY <1>7, <1>9, <1>11 DEF Core

(* The cursor moves on, or the scan ends: either before the item, which is  *)
(* a skip, or when the item was read.                                       *)
LEMMA AdvanceCursorCore ==
    ASSUME TypeOK, Shape, Core, NEW c \in Builders, AdvanceCursor(c)
    PROVE  Core'
<1>0. Ordered /\ Buried /\ Shown /\ Fresh /\ Reads /\ Lagging /\ Building
  BY DEF Core
<1>1. UNCHANGED <<clock, base, prior, status, table, rowVars, w>>
  BY DEF AdvanceCursor
<1>s. skip => skip'
  BY Zenon DEF AdvanceCursor
<1>2. /\ b[c].pc = "token" /\ b[c].page = {} /\ b[c].last \in Nat /\ Token[Self] \in Nat
      /\ b[c] \in BackfillState
  BY IndexAssumption DEF AdvanceCursor, Shape, BackfillShape, TypeOK, BackfillState
<1>3. /\ \A d \in Builders \ {c} : b'[d] = b[d]
      /\ b'[c].page = {}
      /\ \/ b'[c].pc = "scan" /\ b'[c].last = b[c].last
         \/ b'[c].pc = "activate" /\ (skip' \/ b[c].last >= Token[Self] \/ base = Absent)
  <2>1. CASE b' = [b EXCEPT ![c].pc = "scan"]
    BY <1>2, <2>1 DEF TypeOK, BackfillState
  <2>2. CASE /\ b' = [b EXCEPT ![c] = [Unused EXCEPT !.pc = "activate"]]
             /\ (b[c].last < Token[Self] /\ base # Absent) => skip'
    BY <1>2, <2>2 DEF TypeOK, Unused
  <2>3. \/ b' = [b EXCEPT ![c].pc = "scan"]
        \/ /\ b' = [b EXCEPT ![c] = [Unused EXCEPT !.pc = "activate"]]
           /\ (b[c].last < Token[Self] /\ base # Absent) => skip'
    BY Zenon DEF AdvanceCursor
  <2> QED
    BY <2>1, <2>2, <2>3
<1>4. Issued' = Issued /\ Coming' = Coming
  BY <1>1, <1>2, <1>3, SamePlaces DEF rowVars
<1>5. Ordered' /\ Buried' /\ Fresh' /\ Reads' /\ Lagging'
  BY <1>0, <1>1, <1>s, <1>4, KeepsFresh DEF Ordered, Buried, Current
<1>6. Building'
  <2>1. \A d \in Builders : /\ Underway(d)' = Underway(d)
                           /\ (b'[d].pc = "create") = (b[d].pc = "create")
    BY <1>2, <1>3 DEF Underway
  <2> QED
    BY <1>0, <1>1, <2>1 DEF Building
<1>7. Shown'
  <2> SUFFICES ASSUME ~skip', base # Absent, base.ik # NoKey,
                      status = "ACTIVE" \/ \E d \in Builders : Passed(d)'
               PROVE  [ik |-> base.ik, ts |-> base.ver, val |-> base.by] \in Issued
    BY <1>1, <1>4 DEF Shown
  <2>1. \A d \in Builders : Passed(d)' => Passed(d)
    BY <1>2, <1>3 DEF Passed
  <2> QED
    BY <1>0, <1>1, <1>s, <2>1 DEF Shown
<1> QED
  BY <1>5, <1>6, <1>7 DEF Core

(* A page is read.  An image that a replica still shows has a stamp below   *)
(* that of the item; the item as it stands is read, or the scan has not yet *)
(* come to it, or it is a skip.                                             *)
LEMMA ReadPageCore ==
    ASSUME TypeOK, Shape, Core, NEW c \in Builders, ReadPage(c)
    PROVE  Core'
<1>0. Ordered /\ Buried /\ Shown /\ Fresh /\ Reads /\ Lagging /\ Building
  BY DEF Core
<1>1. /\ UNCHANGED <<clock, base, prior, status, table, rowVars, w>>
      /\ b[c].pc = "scan" /\ b[c].page = {} /\ b[c].last \in Nat
      /\ Token[Self] \in Nat
  BY IndexAssumption DEF ReadPage, Shape, BackfillShape, TypeOK, BackfillState
<1>2. PICK page \in SUBSET (Others \cup {Self}), img \in {base, prior} :
        /\ IsPage(page, b[c].last, img)
        /\ \/ page = {} /\ b' = [b EXCEPT ![c] = [Unused EXCEPT !.pc = "activate"]]
           \/ \E end \in page :
                 /\ \A r \in page : Token[r] <= Token[end]
                 /\ b' = [b EXCEPT ![c] = AfterPage(page, img, img.ver, end)]
        /\ skip' = (skip \/ Skips(page, b[c].last, img))
  BY DEF ReadPage
<1> DEFINE s == [ik |-> img.ik, ts |-> img.ver, val |-> img.by]
           read == IF Self \in page THEN img ELSE Absent
<1>3. \A d \in Builders \ {c} : b'[d] = b[d]
  BY <1>2 DEF TypeOK
<1>4. /\ b'[c].pc \in {"write", "activate"}
      /\ \A o : o \in b'[c].page <=> read # Absent /\ img.ik # NoKey /\ o = s
      /\ Passed(c)' => (Cardinality(page) = PageSize => \E r \in page : Token[Self] <= Token[r])
  <2>0. Self \in page => img # Absent
    BY <1>2 DEF IsPage
  <2>1. CASE page = {} /\ b' = [b EXCEPT ![c] = [Unused EXCEPT !.pc = "activate"]]
    <3>1. Cardinality(page) # PageSize
      BY <2>1, FS_EmptySet, IndexAssumption
    <3>2. b'[c] = [Unused EXCEPT !.pc = "activate"]
      BY <2>1 DEF TypeOK
    <3> QED
      BY <2>1, <3>1, <3>2 DEF Unused
  <2>2. ASSUME NEW end \in page, b' = [b EXCEPT ![c] = AfterPage(page, img, img.ver, end)]
        PROVE  /\ b'[c].pc = "write"
               /\ \A o : o \in b'[c].page <=> read # Absent /\ img.ik # NoKey /\ o = s
               /\ Passed(c)' =>
                     (Cardinality(page) = PageSize => \E r \in page : Token[Self] <= Token[r])
    <3>1. b'[c] = AfterPage(page, img, img.ver, end)
      BY <2>2 DEF TypeOK
    <3>2. /\ b'[c].pc = "write" /\ b'[c].last = Token[end]
          /\ b'[c].more = (Cardinality(page) = PageSize)
          /\ b'[c].page = IF Self \in page THEN SyncIndexes(Absent, img, img.ver) ELSE {}
      BY <3>1 DEF AfterPage
    <3>3. \A o : o \in b'[c].page <=> read # Absent /\ img.ik # NoKey /\ o = s
      BY <2>0, <3>2, SyncMembers
    <3> QED
      BY <3>2, <3>3 DEF Passed
  <2> QED
    BY <1>2, <2>1, <2>2
<1>5. (~skip' /\ (Self \in page \/ (Passed(c)' /\ ~Passed(c)))) => base = read
  <2>1. Self \in page => b[c].last < Token[Self] /\ Token[Self] <= Token[Self]
    BY <1>1, <1>2 DEF IsPage
  <2>2. ~Passed(c) => b[c].last < Token[Self]
    BY <1>1 DEF Passed
  <2> QED
    BY <1>2, <1>4, <2>1, <2>2 DEF Skips
<1>6. skip => skip'
  BY <1>2
<1>7. /\ read # Absent => Self \in page /\ read = img
      /\ read = Absent \/ read = img
  OBVIOUS
<1>8. \A o : InPage(o)' <=> InPage(o) \/ o \in b'[c].page
  BY <1>1, <1>3 DEF InPage
<1>9. \A o : o \in Issued' <=> o \in Issued \/ o \in b'[c].page
  BY <1>1, <1>8, IssuedPlaces, IssuedPlacesNext DEF InRows, Row, InQueue, InBatch, rowVars
<1>10. \A o : o \in Coming' <=> o \in Coming \/ o \in b'[c].page
  BY <1>1, <1>9, ComingPlaces, ComingPlacesNext DEF InWorker, rowVars
<1>11. /\ clock \in Nat /\ LwtTime \in Nat /\ LwtTime >= 2
       /\ (base # Absent => base.ver \in Nat) /\ (img # Absent => img.ver \in Nat)
       /\ \A x \in Writers : w[x].at \in Nat
  BY IndexAssumption DEF TypeOK, Items, WriteState
<1>12. img # Absent =>
         /\ img.ver + LwtTime <= clock
         /\ base # Absent => img.ver <= base.ver /\ (img.ver = base.ver => img = base)
         /\ \A x \in Writers : Creating(x) => img.ver < w[x].at
  <2>1. CASE img = base
    BY <1>0, <1>11, <2>1 DEF Fresh
  <2>2. CASE img = prior
    BY <1>0, <2>2 DEF Lagging
  <2> QED
    BY <2>1, <2>2
<1> HIDE DEF read
<1>13. Ordered'
  BY <1>0, <1>1, <1>4, <1>7, <1>10, <1>12 DEF Ordered, Current
<1>14. Buried'
  <2> SUFFICES ASSUME ~skip', NEW o \in Coming', o.val # Tomb, ~Current(o.ik)'
               PROVE  \E t \in Issued' : t.ik = o.ik /\ t.val = Tomb /\ t.ts >= o.ts
    BY DEF Buried
  <2>1. o \in Coming /\ ~Current(o.ik)
    BY <1>1, <1>4, <1>5, <1>7, <1>10 DEF Current
  <2> QED
    BY <1>0, <1>6, <1>9, <2>1 DEF Buried
<1>15. Shown'
  <2> SUFFICES ASSUME ~skip', base # Absent, base.ik # NoKey,
                      status = "ACTIVE" \/ \E d \in Builders : Passed(d)'
               PROVE  [ik |-> base.ik, ts |-> base.ver, val |-> base.by] \in Issued'
    BY <1>1 DEF Shown
  <2>1. CASE status = "ACTIVE" \/ \E d \in Builders : Passed(d)
    BY <1>0, <1>6, <1>9, <2>1 DEF Shown
  <2>2. CASE Passed(c)' /\ ~Passed(c)
    BY <1>4, <1>5, <1>7, <1>9, <2>2
  <2> QED
    BY <1>3, <2>1, <2>2 DEF Passed
<1>16. Fresh'
  <2>1. img # Absent => s.ts < clock /\ \A x \in Writers : Creating(x) => s.ts < w[x].at
    BY <1>11, <1>12
  <2> QED
    BY <1>0, <1>1, <1>4, <1>7, <1>10, <2>1 DEF Fresh, Creating
<1>17. Reads' /\ Lagging'
  BY <1>0, <1>1 DEF Reads, Lagging, Creating
<1>18. Building'
  <2>1. \A d \in Builders : /\ Underway(d)' = Underway(d)
                           /\ (b'[d].pc = "create") = (b[d].pc = "create")
    BY <1>1, <1>3, <1>4 DEF Underway
  <2> QED
    BY <1>0, <1>1, <2>1 DEF Building
<1> QED
  BY <1>13, <1>14, <1>15, <1>16, <1>17, <1>18 DEF Core

(* The table is dropped while nothing is on its way, or with no tombstone.  *)
LEMMA DropCore ==
    ASSUME TypeOK, Shape, Core, NEW c \in Builders, Drop(c), ~gap'
    PROVE  Core'
<1>0. Ordered /\ Buried /\ Shown /\ Fresh /\ Reads /\ Lagging /\ Building
  BY DEF Core
<1>1. /\ UNCHANGED <<clock, base, prior, skip, status, queue, applying, w>>
      /\ rows' = EmptyTable /\ flight' = {} /\ b' = [b EXCEPT ![c].pc = "create"]
      /\ status = "CREATING" /\ ~(\E d \in Builders \ {c} : Underway(d))
      /\ ~(HasTombstone /\ Outstanding)
  BY DEF Drop
<1>2. /\ \A d \in Builders \ {c} : b'[d] = b[d]
      /\ b'[c].pc = "create" /\ b'[c].page = b[c].page
  BY <1>1 DEF TypeOK, BackfillState
<1>3. \A o : ~InRows(o)' /\ o \notin flight'
  BY <1>1 DEF InRows, EmptyTable
<1>4. \A o : InPage(o)' <=> InPage(o)
  BY <1>2 DEF InPage
<1>5. ASSUME NEW o \in Issued' PROVE o \in Issued
  BY <1>1, <1>3, <1>4, IssuedPlaces, IssuedPlacesNext DEF InQueue, InBatch
<1>6. Coming' \subseteq Coming
  <2>1. ASSUME NEW o \in Coming' PROVE o \in Coming
    BY <1>1, <1>5, ComingPlaces, ComingPlacesNext DEF InWorker
  <2> QED
    BY <2>1
<1>7. Fresh' /\ Reads' /\ Lagging'
  BY <1>0, <1>1, <1>6, KeepsFresh
<1>8. Shown'
  BY <1>1, <1>2 DEF Shown, Underway, Passed
<1>9. Building'
  BY <1>1, <1>2 DEF Building, Underway
<1>10. CASE ~HasTombstone
  <2>1. ASSUME NEW t \in Issued, t.val = Tomb PROVE t \in Issued'
    <3>1. ~InRows(t) /\ t \notin flight
      BY <1>10, <2>1 DEF HasTombstone, InRows, Row
    <3> QED
      BY <1>1, <1>4, <3>1, IssuedPlaces, IssuedPlacesNext DEF InQueue, InBatch
  <2>2. Ordered' /\ Buried'
    BY <1>0, <1>1, <1>6, <2>1, KeepsOrder
  <2> QED
    BY <1>7, <1>8, <1>9, <2>2 DEF Core
<1>11. CASE ~Outstanding
  <2>1. /\ queue = {} /\ applying = {}
        /\ \A x \in Writers : w[x].ops = {}
        /\ \A d \in Builders : b[d].page = {}
    BY <1>11 DEF Outstanding, OthersOutstanding, Sending, Shape, WriteShape, BackfillShape
  <2>2. ASSUME NEW o \in Coming' PROVE FALSE
    BY <1>1, <1>3, <1>4, <2>1, IssuedPlacesNext, ComingPlacesNext
       DEF InQueue, InBatch, InPage, InWorker
  <2>3. Ordered' /\ Buried'
    BY <2>2 DEF Ordered, Buried
  <2> QED
    BY <1>7, <1>8, <1>9, <2>3 DEF Core
<1> QED
  BY <1>1, <1>10, <1>11

-----------------------------------------------------------------------------
(* The commit of a write.                                                   *)

(* The fence passes only for the image that was read; a version is the      *)
(* clock reading it came with, later than every stamp given before.         *)
LEMMA CommitVersion ==
    ASSUME TypeOK, Shape, Core, NEW x \in Writers, Commit(x), ~w[x].late, w[x].kind # "delete"
    PROVE  /\ w[x].old = base
           /\ Version(x) = w[x].at /\ NewImage(x) = [ik |-> w[x].ik, by |-> x, ver |-> w[x].at]
           /\ base # Absent => base.ver < w[x].at
           /\ \A o \in Coming : o.ts < w[x].at
           /\ \A y \in Writers : w[y].old # Absent => w[y].old.ver < w[x].at
           /\ prior # Absent => prior.ver < w[x].at
           /\ w[x].at + LwtTime <= clock
<1>0. Ordered /\ Fresh /\ Reads /\ Lagging
  BY DEF Core
<1>1. w[x].pc = "lwt" /\ Fence(w[x].old) /\ w[x].at + LwtTime <= clock
  BY DEF Commit, TypeOK, WriteState
<1>2. /\ w[x].at \in Nat /\ clock \in Nat /\ LwtTime \in Nat /\ LwtTime >= 2
      /\ (base # Absent => base.ver \in Nat) /\ (prior # Absent => prior.ver \in Nat)
      /\ \A o \in Coming : o.ts \in Nat
      /\ \A y \in Writers : w[y].old # Absent => w[y].old.ver \in Nat
  BY ComingTyped, IndexAssumption DEF TypeOK, Items, Ops, WriteState
<1>3. CASE w[x].old = Absent
  <2>1. base = Absent /\ Creating(x)
    BY <1>1, <1>3 DEF Fence, Creating
  <2>2. Version(x) = w[x].at
    BY <1>3 DEF Version, NextVersion
  <2> QED
    BY <1>0, <1>1, <1>2, <1>3, <2>1, <2>2 DEF Fresh, Reads, Lagging, NewImage
<1>4. CASE w[x].old # Absent
  <2>1. base # Absent /\ w[x].old = base /\ base.ver + LwtTime <= w[x].at
    BY <1>0, <1>1, <1>4 DEF Fence, Reads
  <2>2. base.ver + 1 < w[x].at
    BY <1>2, <2>1
  <2>3. Version(x) = w[x].at
    BY <1>2, <2>1, <2>2 DEF Version, NextVersion
  <2>4. \A o \in Coming : o.ts < w[x].at
    BY <1>0, <1>2, <2>1, <2>2 DEF Ordered
  <2>5. \A y \in Writers : w[y].old # Absent => w[y].old.ver < w[x].at
    BY <1>0, <1>2, <2>1, <2>2 DEF Reads
  <2>6. prior # Absent => prior.ver < w[x].at
    BY <1>0, <1>2, <2>1, <2>2 DEF Lagging
  <2> QED
    BY <1>1, <1>2, <2>1, <2>2, <2>3, <2>4, <2>5, <2>6 DEF NewImage
<1> QED
  BY <1>3, <1>4

LEMMA NothingYet == ASSUME Shape, status = "none" PROVE \A o : o \notin Coming
<1>1. /\ rows = EmptyTable /\ flight = {} /\ queue = {} /\ applying = {}
      /\ \A x \in Writers : w[x].ops = {}
      /\ \A c \in Builders : b[c].page = {}
  BY DEF Shape, WriteShape, BackfillShape
<1> QED
  BY <1>1, IssuedPlaces, ComingPlaces
     DEF InRows, InQueue, InBatch, InPage, InWorker, EmptyTable

LEMMA CommitPlaces ==
    ASSUME TypeOK, Shape, NEW x \in Writers, Commit(x)
    PROVE  LET ops == IF w[x].sees THEN SyncIndexes(w[x].old, NewImage(x), Version(x)) ELSE {} IN
           /\ \A o : o \in Issued' <=> o \in Issued \/ o \in ops
           /\ \A o : o \in Coming' <=> o \in Coming \/ o \in ops
           /\ w'[x].pc # "lwt" /\ w'[x].at = 0 /\ w'[x].old = Absent
           /\ \A y \in Writers \ {x} :
                 /\ w'[y].pc = w[y].pc /\ w'[y].kind = w[y].kind
                 /\ w'[y].at = w[y].at /\ w'[y].old = w[y].old
                 /\ Creating(y)' => Creating(y) /\ w[x].kind = "delete"
<1> DEFINE sync == SyncIndexes(w[x].old, NewImage(x), Version(x))
           ops == IF w[x].sees THEN sync ELSE {}
<1> HIDE DEF sync
<1>1. /\ w' = [MarkLate(x) EXCEPT ![x] =
                 IF w[x].sees THEN [Idle EXCEPT !.pc = "batch", !.ops = sync] ELSE Done]
      /\ UNCHANGED <<b, rowVars>> /\ w[x].pc = "lwt"
  BY DEF Commit, sync, indexVars
<1>2. w'[x] = IF w[x].sees THEN [Idle EXCEPT !.pc = "batch", !.ops = sync] ELSE Done
  BY <1>1 DEF MarkLate
<1>3. w'[x].ops = ops /\ w'[x].pc # "lwt" /\ w'[x].at = 0 /\ w'[x].old = Absent
  BY <1>2 DEF Idle, Done
<1>4. ASSUME NEW y \in Writers \ {x}
      PROVE  /\ w'[y].pc = w[y].pc /\ w'[y].kind = w[y].kind /\ w'[y].ops = w[y].ops
             /\ w'[y].at = w[y].at /\ w'[y].old = w[y].old
             /\ Creating(y)' => Creating(y) /\ w[x].kind = "delete"
  <2>1. w'[y] = IF w[y].pc = "lwt" /\ w[y].old = Absent /\ w[x].kind # "delete"
                THEN [w[y] EXCEPT !.late = TRUE] ELSE w[y]
    BY <1>1, <1>4 DEF MarkLate
  <2>2. w[y] \in WriteState
    BY DEF TypeOK
  <2> QED
    BY <2>1, <2>2 DEF WriteState, Creating
<1>5. w[x].ops = {}
  BY <1>1 DEF Shape, WriteShape
<1> HIDE DEF ops
<1>6. \A o : InBatch(o)' <=> InBatch(o) \/ o \in ops
  BY <1>3, <1>4, <1>5 DEF InBatch
<1>7. \A o : o \in Issued' <=> o \in Issued \/ o \in ops
  BY <1>1, <1>6, IssuedPlaces, IssuedPlacesNext DEF InRows, Row, InQueue, InPage, rowVars
<1>8. \A o : o \in Coming' <=> o \in Coming \/ o \in ops
  BY <1>1, <1>7, ComingPlaces, ComingPlacesNext DEF InWorker, rowVars
<1> QED
  BY <1>3, <1>4, <1>7, <1>8 DEF ops, sync

LEMMA CommitCore ==
    ASSUME TypeOK, Shape, Core, NEW x \in Writers, Commit(x), ~gap'
    PROVE  Core'
<1>0. Ordered /\ Buried /\ Shown /\ Fresh /\ Reads /\ Lagging /\ Building
  BY DEF Core
<1> DEFINE sync == SyncIndexes(w[x].old, NewImage(x), Version(x))
           ops == IF w[x].sees THEN sync ELSE {}
<1>1. /\ base' = NewImage(x) /\ prior' \in {prior, base}
      /\ UNCHANGED <<clock, skip, status, table, b>>
      /\ ~w[x].late /\ (w[x].sees \/ status = "none")
      /\ w[x].pc = "lwt" /\ Fence(w[x].old)
  BY DEF Commit, indexVars
<1>2. /\ \A o : o \in Issued' <=> o \in Issued \/ o \in ops
      /\ \A o : o \in Coming' <=> o \in Coming \/ o \in ops
      /\ w'[x].pc # "lwt" /\ w'[x].at = 0 /\ w'[x].old = Absent
      /\ \A y \in Writers \ {x} :
            /\ w'[y].pc = w[y].pc /\ w'[y].kind = w[y].kind
            /\ w'[y].at = w[y].at /\ w'[y].old = w[y].old
            /\ Creating(y)' => Creating(y) /\ w[x].kind = "delete"
  BY CommitPlaces
<1>3. ~Creating(x)'
  BY <1>2 DEF Creating
<1>4. Building'
  BY <1>0, <1>1 DEF Building, Underway
<1>5. /\ clock \in Nat /\ LwtTime \in Nat /\ LwtTime >= 2
      /\ (base # Absent => base.ver \in Nat) /\ (prior # Absent => prior.ver \in Nat)
      /\ \A o \in Coming : o \in Ops /\ o.ik \in IndexKeys /\ o.ts \in Nat
      /\ \A y \in Writers : w[y].at \in Nat /\ (w[y].old # Absent => w[y].old.ver \in Nat)
  BY ComingTyped, IndexAssumption DEF TypeOK, Items, Ops, WriteState
<1>6. \A o : ~w[x].sees => o \notin Coming'
  BY <1>1, <1>2, NothingYet
<1>7. w[x].old = base /\ (w[x].kind = "delete" => base # Absent)
  BY <1>0, <1>1, CommitVersion DEF Fence, Reads, Shape, WriteShape
<1>8. \A o : o \in ops <=> w[x].sees /\
        \/ /\ base # Absent /\ base.ik # NoKey /\ (base' # Absent => base'.ik # base.ik)
           /\ o = [ik |-> base.ik, ts |-> Version(x), val |-> Tomb]
        \/ /\ base' # Absent /\ base'.ik # NoKey
           /\ o = [ik |-> base'.ik, ts |-> Version(x), val |-> base'.by]
  BY <1>1, <1>7, SyncMembers
<1> HIDE DEF ops
<1>9. Version(x) \in Nat /\ Version(x) < clock
      /\ \A o \in Coming : o.ts <= Version(x)
  <2>1. CASE w[x].kind = "delete"
    BY <1>0, <1>5, <1>7, <2>1 DEF Version, DeleteStamp, Fresh, Ordered
  <2>2. CASE w[x].kind # "delete"
    BY <1>1, <1>5, <2>2, CommitVersion
  <2> QED
    BY <2>1, <2>2
<1>10. Buried'
  <2> SUFFICES ASSUME ~skip', NEW o \in Coming', o.val # Tomb, ~Current(o.ik)'
               PROVE  \E t \in Issued' : t.ik = o.ik /\ t.val = Tomb /\ t.ts >= o.ts
    BY DEF Buried
  <2>1. w[x].sees
    BY <1>6
  <2>2. o \in Coming
    BY <1>2, <1>8 DEF Current
  <2>3. CASE ~Current(o.ik)
    BY <1>0, <1>1, <1>2, <2>2, <2>3 DEF Buried
  <2>4. CASE Current(o.ik)
    <3>1. /\ base # Absent /\ base.ik = o.ik /\ base.ik # NoKey
          /\ base' # Absent => base'.ik # base.ik
      BY <1>5, <2>2, <2>4, IndexAssumption DEF Current
    <3>2. [ik |-> base.ik, ts |-> Version(x), val |-> Tomb] \in Issued'
      BY <1>2, <1>8, <2>1, <3>1
    <3> QED
      BY <1>9, <2>2, <3>1, <3>2
  <2> QED
    BY <2>3, <2>4
<1>11. Shown'
  <2> SUFFICES ASSUME base' # Absent, base'.ik # NoKey, status # "none"
               PROVE  [ik |-> base'.ik, ts |-> base'.ver, val |-> base'.by] \in Issued'
    BY <1>1 DEF Shown, Passed, Shape, BackfillShape
  <2>1. base'.ver = Version(x)
    BY <1>1 DEF NewImage
  <2> QED
    BY <1>1, <1>2, <1>8, <2>1
<1>12. CASE w[x].kind = "delete"
  <2>1. base' = Absent /\ Version(x) = base.ver + 1
    BY <1>1, <1>7, <1>12 DEF NewImage, Version, DeleteStamp
  <2>2. Ordered'
    BY <2>1 DEF Ordered, Current
  <2>3. \A o \in ops : o.ts = base.ver + 1
    BY <1>8, <2>1
  <2>4. Fresh'
    <3>1. \A o \in Coming' : o.ts < clock
      BY <1>0, <1>2, <1>9, <2>1, <2>3 DEF Fresh
    <3>2. ASSUME NEW y \in Writers, Creating(y)', NEW o \in Coming' PROVE o.ts < w'[y].at
      <4>1. y # x /\ Creating(y) /\ w'[y].at = w[y].at
        BY <1>2, <1>3, <3>2
      <4> QED
        BY <1>0, <1>2, <1>7, <1>12, <2>3, <4>1 DEF Fresh
    <3>3. \A y \in Writers : w'[y].at <= clock
      BY <1>0, <1>2, <1>5 DEF Fresh
    <3> QED
      BY <1>1, <2>1, <3>1, <3>2, <3>3 DEF Fresh
  <2>5. Reads'
    <3> SUFFICES ASSUME NEW y \in Writers, w'[y].old # Absent
                 PROVE  /\ w'[y].old.ver + LwtTime <= clock
                        /\ w'[y].pc = "lwt" /\ w'[y].kind # "delete" =>
                              w'[y].old.ver + LwtTime <= w'[y].at
                        /\ \A z \in Writers : Creating(z)' => w'[y].old.ver < w'[z].at
      BY <1>1, <2>1 DEF Reads
    <3> QED
      BY <1>0, <1>2, <1>3 DEF Reads
  <2>6. Lagging'
    <3>1. prior' # Absent => prior'.ver + LwtTime <= clock
      BY <1>0, <1>1 DEF Fresh, Lagging
    <3>2. ASSUME NEW y \in Writers, Creating(y)', prior' # Absent PROVE prior'.ver < w'[y].at
      <4>1. y # x /\ Creating(y) /\ w'[y].at = w[y].at
        BY <1>2, <1>3, <3>2
      <4> QED
        BY <1>0, <1>1, <1>5, <3>2, <4>1 DEF Fresh, Lagging
    <3> QED
      BY <1>1, <2>1, <3>1, <3>2 DEF Lagging
  <2> QED
    BY <1>4, <1>10, <1>11, <2>2, <2>4, <2>5, <2>6 DEF Core
<1>13. CASE w[x].kind # "delete"
  <2>1. /\ base' = [ik |-> w[x].ik, by |-> x, ver |-> w[x].at] /\ Version(x) = w[x].at
        /\ base' # Absent
        /\ \A o \in Coming : o.ts < w[x].at
        /\ \A y \in Writers : w[y].old # Absent => w[y].old.ver < w[x].at
        /\ w[x].at + LwtTime <= clock
    <3>1. w[x].ik \in Keys /\ w[x].at \in Nat
      BY DEF TypeOK, WriteState
    <3>2. [ik |-> w[x].ik, by |-> x, ver |-> w[x].at] # Absent
      BY <3>1, IndexAssumption DEF Keys
    <3> QED
      BY <1>1, <1>13, <3>2, CommitVersion
  <2>2. base'.ver = w[x].at /\ base'.ik = w[x].ik /\ base'.by = x
    BY <2>1
  <2>3. Ordered'
    <3>1. ASSUME NEW o \in Coming PROVE o.ts < base'.ver
      BY <2>1, <2>2
    <3>2. ASSUME NEW o \in ops
          PROVE  o.ts = base'.ver /\ (o.ik = base'.ik => o.val = base'.by)
      BY <1>8, <2>1, <2>2
    <3> QED
      BY <1>2, <1>5, <2>2, <3>1, <3>2 DEF Ordered, Current
  <2>4. \A y \in Writers : ~Creating(y)'
    BY <1>2, <1>3, <1>13
  <2>5. Fresh'
    <3>1. \A o \in Coming' : o.ts < clock
      BY <1>0, <1>2, <1>8, <1>9 DEF Fresh
    <3>2. \A y \in Writers : w'[y].at <= clock
      BY <1>0, <1>2, <1>5 DEF Fresh
    <3> QED
      BY <1>1, <2>1, <2>2, <2>4, <3>1, <3>2 DEF Fresh
  <2>6. Reads'
    <3> SUFFICES ASSUME NEW y \in Writers, w'[y].old # Absent
                 PROVE  /\ w'[y].old.ver + LwtTime <= clock
                        /\ w'[y].pc = "lwt" /\ w'[y].kind # "delete" =>
                              w'[y].old.ver + LwtTime <= w'[y].at
                        /\ w'[y].old.ver < base'.ver
      BY <1>1, <1>2, <1>5, <2>2, <2>4 DEF Reads
    <3> QED
      BY <1>0, <1>2, <2>1, <2>2 DEF Reads
  <2>7. Lagging'
    <3>1. prior' # Absent => prior'.ver + LwtTime <= clock /\ prior'.ver \in Nat
      BY <1>0, <1>1, <1>5 DEF Fresh, Lagging
    <3>2. prior' # Absent => prior'.ver < base'.ver
      BY <1>1, <1>5, <1>13, <2>2, CommitVersion
    <3> QED
      BY <1>1, <1>5, <2>2, <2>4, <3>1, <3>2 DEF Lagging
  <2> QED
    BY <1>4, <1>10, <1>11, <2>3, <2>5, <2>6, <2>7 DEF Core
<1> QED
  BY <1>12, <1>13

-----------------------------------------------------------------------------
(* The theorems.                                                            *)

LEMMA NextCore == TypeOK /\ Shape /\ (~gap => Core) /\ [Next]_vars => (~gap' => Core')
<1> SUFFICES ASSUME TypeOK, Shape, ~gap => Core, [Next]_vars, ~gap' PROVE Core'
  OBVIOUS
<1>1. CASE Next
  <2>1. ~gap
    BY <1>1 DEF Next, WriteStep, BackfillStep, Tick, Fetch, Read, Stamp, Commit, Lost, SendBatch,
      LoseBatch, Land, TakeEntry, ApplyEntry, ApplyFails, TakeHold, CreationFails, ListIndex,
      CreateTable, Scan, Drop, Recreate, Retake, ReadPage, WritePage, AdvanceCursor,
           Activate, Release, BackfillFails, Stop
  <2>2. ASSUME NEW x \in Writers, WriteStep(x) PROVE Core'
    <3>1. ~LoseBatch(x)
      BY DEF LoseBatch
    <3> QED
      BY <2>1, <2>2, <3>1, FetchCore, ReadCore, StampCore, CommitCore, LostCore, SendBatchCore
         DEF WriteStep
  <2>3. ASSUME NEW c \in Builders, BackfillStep(c) PROVE Core'
    BY <2>1, <2>3, BackfillMovesCore, BackfillPageCore, AdvanceCursorCore, ReadPageCore, DropCore
       DEF BackfillStep
  <2> QED
    BY <1>1, <2>1, <2>2, <2>3, TickCore, LandCore, EntryCore, CreationCore DEF Next
<1>2. CASE UNCHANGED vars
  <2>1. Core
    BY <1>2 DEF vars
  <2>2. Issued' = Issued /\ Coming' = Coming
    BY <1>2, SamePlaces DEF vars
  <2>3. Ordered' /\ Buried' /\ Fresh' /\ Reads' /\ Lagging'
    BY <1>2, <2>1, <2>2, KeepsOrder, KeepsFresh DEF vars, Core
  <2> QED
    BY <1>2, <2>1, <2>2, <2>3, SamePassed DEF vars, Core, Shown, Building, Underway
<1> QED
  BY <1>1, <1>2

LEMMA IndexInvariant == Spec => []IndexInv
<1>1. Init => IndexInv
  BY InitShape, InitCore DEF IndexInv
<1>2. IndexInv /\ [Next]_vars => IndexInv'
  BY NextTypes, NextShape, NextCore DEF IndexInv
<1> QED
  BY <1>1, <1>2, PTL DEF Spec

(* With nothing on its way the rows are all there is: the row of the item   *)
(* is among them, and a row of an earlier image would be its own tombstone. *)
LEMMA SettledAgrees == IndexInv => IndexAgrees
<1> SUFFICES ASSUME IndexInv, status = "ACTIVE", Settled, ~gap, ~skip, NEW k \in IndexKeys
             PROVE  IF base # Absent /\ base.ik = k
                    THEN rows[k] = [ts |-> base.ver, val |-> base.by]
                    ELSE rows[k].val \in {Tomb, None}
  BY DEF IndexAgrees, Agrees
<1>0. TypeOK /\ Shape /\ Buried /\ Shown
  BY DEF IndexInv, Core
<1>1. /\ queue = {} /\ applying = {} /\ flight = {}
      /\ \A x \in Writers : w[x].ops = {}
      /\ \A c \in Builders : b[c].page = {}
  BY <1>0 DEF Settled, Outstanding, OthersOutstanding, Sending, Shape, WriteShape, BackfillShape
<1>2. ASSUME NEW o \in Coming PROVE \E j \in IndexKeys : rows[j].val # None /\ o = Row(j)
  BY <1>1, IssuedPlaces, ComingPlaces DEF InRows, InQueue, InBatch, InPage, InWorker
<1>3. rows[k] \in Cells
  BY <1>0 DEF TypeOK
<1>4. CASE base # Absent /\ base.ik = k
  <2>1. [ik |-> base.ik, ts |-> base.ver, val |-> base.by] \in Issued
    BY <1>0, <1>4, IndexAssumption DEF Shown
  <2>2. PICK j \in IndexKeys : [ik |-> base.ik, ts |-> base.ver, val |-> base.by] = Row(j)
    BY <1>2, <2>1, ComingPlaces
  <2>3. j = k /\ rows[k].ts = base.ver /\ rows[k].val = base.by
    BY <1>4, <2>2 DEF Row
  <2> QED
    BY <1>3, <1>4, <2>3 DEF Cells
<1>5. CASE ~(base # Absent /\ base.ik = k)
  <2> SUFFICES ASSUME rows[k].val # Tomb, rows[k].val # None PROVE FALSE
    BY <1>5
  <2>1. Row(k) \in Coming /\ Row(k).ik = k /\ Row(k).val # Tomb
    BY IssuedPlaces, ComingPlaces DEF InRows, Row
  <2>2. PICK t \in Issued : t.ik = k /\ t.val = Tomb
    BY <1>0, <1>5, <2>1 DEF Buried, Current
  <2>3. PICK j \in IndexKeys : t = Row(j)
    BY <1>2, ComingPlaces
  <2> QED
    BY <2>2, <2>3 DEF Row
<1> QED
  BY <1>4, <1>5

(* An active index that is settled has the row of the item as it stands and *)
(* no other, in whatever order batches, queue entries and pages of the      *)
(* backfill reached it, unless it has met a gap or the scan of backfill_gsi *)
(* has skipped the item (ReadPage, AdvanceCursor): sync_indexes_at,         *)
(* gsi_apply_index and backfill_gsi stamp every statement with the version  *)
(* of the base row.                                                         *)
THEOREM IndexAgreement == Spec => []IndexAgrees
BY IndexInvariant, SettledAgrees, PTL

(* next_row_version_at: the version that a put, update or create stores is  *)
(* larger than every stamp that an index statement of the item has.         *)
THEOREM IndexVersionsIncrease == Spec => VersionsIncrease
<1>1. IndexInv /\ [Next]_vars =>
        [(base' # base /\ base' # Absent /\ ~gap') => \A o \in Coming : o.ts < base'.ver]_vars
  <2> SUFFICES ASSUME IndexInv, Next, base' # base, base' # Absent, ~gap'
               PROVE  \A o \in Coming : o.ts < base'.ver
    BY DEF vars
  <2>1. PICK x \in Writers : Commit(x)
    BY DEF Next, WriteStep, BackfillStep, Tick, Fetch, Read, Stamp, Lost, SendBatch,
      LoseBatch, Land, TakeEntry, ApplyEntry, ApplyFails, TakeHold, CreationFails, ListIndex,
      CreateTable, Scan, Drop, Recreate, Retake, ReadPage, WritePage, AdvanceCursor,
           Activate, Release, BackfillFails, Stop
  <2>2. ~gap /\ ~w[x].late /\ base' = NewImage(x)
    BY <2>1 DEF Commit
  <2>3. w[x].kind # "delete"
    BY <2>2 DEF NewImage
  <2> QED
    BY <2>1, <2>2, <2>3, CommitVersion DEF IndexInv
<1> QED
  BY <1>1, IndexInvariant, PTL DEF Spec, VersionsIncrease

=============================================================================
