-------------------------- MODULE TtlWorkProofs --------------------------
(***************************************************************************)
(* TtlWork for every set of writers, sweepers, cleaners, works, images and  *)
(* expiration times.                                                        *)
(*                                                                         *)
(* The argument.  Work is claimed under a new id, and its queue row moves   *)
(* from CLAIMED either to ABORTING or to APPLYING and APPLIED (Phases), so   *)
(* a host that releases the base row of aborted work meets no effects of    *)
(* it.  The base row that work owns is out of reach of every batch in       *)
(* flight (Owned), and one that it has sealed stays its own until a host    *)
(* that saw the effects applied gives it up (Fence).  By then the effects   *)
(* have erased what is older than they are, and whatever writes the index   *)
(* later is newer (Erased): a second application changes nothing.           *)
(*                                                                         *)
(* That an item stays registered rests on what replaces its queue row when  *)
(* a step takes it away (Reg): the marker of the host that destroys it, the *)
(* outbox row of the batch that brought the item, or the batch itself while *)
(* a part of it is to come.  A batch too old to delete the item is too old  *)
(* for the row as well, or a newer one brings the row back (Safe).          *)
(***************************************************************************)
EXTENDS TtlWork, TLAPS

Claimed == {"CLAIMED", "ABORTING", "APPLYING", "APPLIED"}

(* Work is only made for an image whose time has come.                      *)
DueWork(k) == k # NoWork => Expiry(k.img) \in Due
DueInv ==
    /\ \A g \in Gens, e \in Expiries : DueWork(queue[g][e].work)
    /\ \A s \in Hosts : DueWork(row[s].work) /\ (row[s].pc = "read" => row[s].exp \in Due)

(* The batches in flight, and the order of their pins.                      *)
Sent == {w \in Writers : batch[w].pc = "sent"}
QueueRows == \A g \in Gens, e \in Expiries : queue[g][e].st \in Unclaimed => queue[g][e].work = NoWork
Pins(v, w) == v \in batch[w].beats
Order ==
    /\ \A w \in Writers : batch[w].pc = "idle" => \A v \in Sent : ~Pins(w, v)
    /\ \A w \in Sent : ~Pins(w, w)
    /\ \A v, w \in Sent : v # w => Pins(v, w) \/ Pins(w, v)
    /\ \A u, v, w \in Sent : Pins(u, v) /\ Pins(v, w) => Pins(u, w)
    /\ \A v, w \in Sent : Pins(v, w) => batch[v].beats \cap Works \subseteq batch[w].beats
Newer ==
    /\ \A w \in Sent : batch[w].gen \in Gens /\ batch[w].newer \subseteq Cells(batch[w])
    /\ \A w \in Sent : \A g \in Gens, e \in Expiries :
          Work(g, e) \in batch[w].newer => State(g, e) \in batch[w].newer
    /\ \A v, w \in Sent : Pins(v, w) => batch[w].newer \cap Cells(batch[v]) \subseteq batch[v].newer

(* The owner of the base row.                                               *)
Owned ==
    /\ sealed => owner \in Works
    /\ owner \in Works => \A w \in Sent : "base" \notin batch[w].landed => Owner \in batch[w].newer

(* Where a host is, by the state it knows of its row.                       *)
Place(r) ==
    /\ r.pc # "idle" => r.gen \in Gens /\ r.exp \in Expiries
    /\ r.pc \in {"idle", "read"} => r.work = NoWork
    /\ r.work # NoWork => IF r.pc = "claim" THEN r.st = "PENDING" ELSE r.st \in Claimed
    /\ r.pc = "read" => r.st = "PENDING"
    /\ r.st \in Claimed => r.work # NoWork
    /\ r.pc = "restore" => r.seen # None
    /\ r.pc \in {"check", "gate", "seal", "apply", "abort"} => r.st = "CLAIMED"
    /\ r.pc = "own" => r.st = "APPLIED" \/ (r.st = "CLAIMED" /\ ~r.drain)
    /\ r.pc \in {"owned", "effects", "mark"} => r.st = "APPLYING"
    /\ r.pc \in {"final", "delete", "survivor", "restore"} => r.st = "APPLIED"
    /\ r.pc = "release" => r.st \in {"ABORTING", "APPLIED"}
    /\ r.pc \in {"claim", "check", "own", "gate", "seal", "apply", "owned", "effects", "mark",
                 "final", "delete", "survivor", "restore", "abort", "release"} => r.work # NoWork
    /\ r.pc \in {"read", "claim", "check"} => ~r.drain
Places == \A s \in Hosts : Place(row[s])

(* Ids of work: the queue holds one once, and what a host is about to claim *)
(* with is its own.                                                         *)
Unused(k, s) ==
    /\ k # owner /\ k \notin replays
    /\ \A g \in Gens, e \in Expiries : queue[g][e].work.id # k
    /\ \A t \in Hosts \ {s} : row[t].work.id # k
Ids ==
    /\ \A g, h \in Gens, e, f \in Expiries :
          queue[g][e].work # NoWork /\ queue[g][e].work.id = queue[h][f].work.id => g = h /\ e = f
    /\ \A s \in Hosts : row[s].pc = "claim" => Unused(row[s].work.id, s)

(* The states a row passes after st.                                        *)
From(st) ==
    CASE st = "CLAIMED" -> Claimed
      [] st = "ABORTING" -> {"ABORTING"}
      [] st = "APPLYING" -> {"APPLYING", "APPLIED"}
      [] st = "APPLIED" -> {"APPLIED"}
      [] OTHER -> States
Phases ==
    /\ \A s \in Hosts, g \in Gens, e \in Expiries :
          row[s].work # NoWork /\ queue[g][e].work.id = row[s].work.id
            => queue[g][e].st \in From(row[s].st)
    /\ \A g \in Gens, e \in Expiries :
           queue[g][e].work.id \in replays => queue[g][e].st \in From("APPLYING")
    /\ \A s \in Hosts : row[s].st = "ABORTING" =>
          /\ row[s].work.id \notin replays
          /\ \A t \in Hosts : row[t].work = NoWork \/ row[t].work.id # row[s].work.id
                              \/ row[t].st \notin From("APPLYING")

Fence ==
    /\ Fenced
    /\ \A s \in Hosts : row[s].pc = "apply" =>
          \/ sealed /\ owner = row[s].work.id
          \/ \A g \in Gens, e \in Expiries :
                queue[g][e].work.id = row[s].work.id => queue[g][e].st # "CLAIMED"

(* The effects of k have been applied, or need not be any more.             *)
Swept(k) ==
    \A w \in Sent : "rest" \notin batch[w].landed /\ k \notin batch[w].beats => Index \in batch[w].newer
Done(k) == (idx = None \/ k \in idxNewer) /\ Swept(k)
Erased ==
    /\ \A k \in idxNewer : Swept(k)
    /\ \A s \in Hosts : row[s].st = "APPLIED" \/ row[s].pc = "mark" => Done(row[s].work.id)
    /\ \A g \in Gens, e \in Expiries :
          queue[g][e].st = "APPLIED" /\ queue[g][e].work # NoWork => Done(queue[g][e].work.id)
    /\ \A k \in Works : k \in replays \/ (\E s \in Hosts : row[s].st = "APPLYING" /\ row[s].work.id = k)
          => Done(k) \/ (sealed /\ owner = k)

TtlInv ==
    /\ TypeOK /\ DueInv /\ QueueRows /\ Order /\ Newer /\ Owned /\ Places /\ Ids /\ Phases /\ Fence
    /\ Erased

-----------------------------------------------------------------------------
(* Types.                                                                   *)

Host == [pc : SweepPcs, gen : 0 .. MaxGen, exp : Expiries \cup {None}, st : States, work : WorkData,
         drain : BOOLEAN, seen : Images0, after : {"idle", "reread", "insert"}]
AllCells == {Item, Owner, Index} \cup QueueCells
Batch == [pc : {"idle", "sent", "done"}, old : Images0, new : Images0, gen : 0 .. MaxGen,
          landed : SUBSET {"base", "rest"}, newer : SUBSET AllCells, beats : SUBSET (Writers \cup Works)]
Row == [st : States, work : WorkData]
Queue == [Gens -> [Expiries -> Row]]

LEMMA TypeParts ==
    ASSUME TypeOK
    PROVE  /\ row \in [Hosts -> Host] /\ batch \in [Writers -> Batch] /\ queue \in Queue
           /\ item \in Images0 /\ owner \in Writers \cup Works \cup {None} /\ sealed \in BOOLEAN
           /\ \A s \in Hosts : row[s] \in Host
           /\ \A w \in Writers : batch[w] \in Batch
           /\ \A g \in Gens, e \in Expiries : queue[g][e] \in Row
BY DEF TypeOK, Host, Batch, AllCells, Row, Queue

LEMMA HostNames == Sweepers \subseteq Hosts /\ Cleaners \subseteq Hosts
BY DEF Hosts

LEMMA ReplayWorks == ASSUME TypeOK PROVE replays \subseteq Works
BY DEF TypeOK

LEMMA Values ==
    /\ MaxGen \in Nat /\ MaxGen >= 1 /\ Gens \subseteq 0 .. MaxGen /\ 0 \in 0 .. MaxGen
    /\ \A g \in 0 .. MaxGen : g # 0 => g \in Gens
    /\ None \notin Writers /\ None \notin Works /\ None \notin Images /\ None \notin Expiries
    /\ Writers \cap Works = {}
    /\ \A i \in Images0 : Expiry(i) \in Expiries \cup {None}
    /\ \A i \in Images0 : Expiry(i) # None => i \in Images
BY TtlAssumption DEF Gens, Images0, Expiry

LEMMA WorkIds ==
    /\ NoWork \in WorkData /\ NoWork.id = None
    /\ \A k \in WorkData : k # NoWork => k.id \in Works /\ k.img \in Images /\ k.id # None
    /\ \A i \in Works, m \in Images :
           [id |-> i, img |-> m] \in WorkData /\ [id |-> i, img |-> m] # NoWork
BY Values DEF WorkData, NoWork

LEMMA NoRowType == NoRow \in Host
BY Values, WorkIds DEF NoRow, Host, SweepPcs, States, Images0

-----------------------------------------------------------------------------
(* What a step makes of the hosts: n is what becomes of host s.             *)

Still(r, n) == n.work = r.work /\ n.st = r.st
Same(r, n) == Still(r, n) /\ n.drain = r.drain /\ n.gen = r.gen /\ n.exp = r.exp
Loads(n) ==
    \E g \in Gens, e \in Expiries :
        /\ n.st = queue[g][e].st /\ n.work = queue[g][e].work /\ n.st # "none"
        /\ n.pc \notin {"claim", "apply", "mark"}
        /\ n.pc = "read" => e \in Due /\ n.exp = e
CalmTurn(s, r, n) ==
    \/ n = NoRow
    \/ Still(r, n) /\ n.pc \notin {"idle", "read", "claim", "apply", "mark"}
    \/ Still(r, n) /\ n.pc = "apply" /\ Seal(s) /\ owner = r.work.id /\ item = r.work.img
    \/ Still(r, n) /\ n.pc = "mark" /\ ApplyEffects(s)
    \/ Loads(n) /\ UNCHANGED <<base, index, queue, batch>>
    \/ /\ ReadItem(s) /\ n.pc = "claim" /\ n.st = r.st /\ Expiry(item) \in Due
       /\ \E k \in FreeWorks : n.work = [id |-> k, img |-> item] /\ idxNewer' = idxNewer \ {k}
                               /\ batch' = [w \in Writers |-> [batch[w] EXCEPT !.beats = @ \ {k}]]
BusyTurn(s, r, n) ==
    \/ ClaimWork(s) /\ n.work = r.work /\ n.pc = "check" /\ n.st = "CLAIMED" /\ Q(r).st = "PENDING"
    \/ AbortWork(s) /\ n.work = r.work /\ n.pc = "release" /\ n.st = "ABORTING" /\ Is(r, "CLAIMED")
    \/ MarkApplying(s) /\ n.work = r.work /\ n.pc = "owned" /\ n.st = "APPLYING" /\ Is(r, "CLAIMED")
    \/ MarkApplied(s) /\ n.work = r.work /\ n.pc = "final" /\ n.st = "APPLIED" /\ Is(r, "APPLYING")
Turn(s, r, n) == CalmTurn(s, r, n) \/ BusyTurn(s, r, n)
RowEffect ==
    \/ row' = row
    \/ \E s \in Hosts, n \in Host : row' = [row EXCEPT ![s] = n] /\ Place(n) /\ Turn(s, row[s], n)

LEMMA RowMove == ASSUME TypeOK, DueInv, QueueRows, Places, Next PROVE RowEffect
<1> DEFINE Ok == RowEffect
<1> SUFFICES Ok
  OBVIOUS
<1> HIDE DEF Ok
<1>t. row \in [Hosts -> Host] /\ \A s \in Hosts : row[s] \in Host /\ Place(row[s])
  BY TypeParts DEF Places
<1>u. row' = row => Ok
  BY DEF Ok, RowEffect
<1>r. \A s \in Hosts, n \in Host :
          row' = [row EXCEPT ![s] = n] /\ Place(n) /\ Turn(s, row[s], n) => Ok
  BY DEF Ok, RowEffect
<1>q. \A s \in Hosts : Quit(s) => Ok
  <2>1. Place(NoRow)
    BY DEF Place, NoRow, Claimed
  <2> QED
    BY <2>1, <1>r, NoRowType DEF Quit, Turn, CalmTurn
<1>g. \A s \in Hosts, p \in SweepPcs : Goto(s, p) =>
          \E n \in Host : row' = [row EXCEPT ![s] = n] /\ Same(row[s], n) /\ n.pc = p
  <2> SUFFICES ASSUME NEW s \in Hosts, NEW p \in SweepPcs, Goto(s, p)
               PROVE  \E n \in Host : row' = [row EXCEPT ![s] = n] /\ Same(row[s], n) /\ n.pc = p
    OBVIOUS
  <2>1. PICK n : n = [row[s] EXCEPT !.pc = p]
    OBVIOUS
  <2>2. n \in Host /\ Same(row[s], n) /\ n.pc = p
    BY <2>1, <1>t DEF Host, Same, Still
  <2>3. row' = [row EXCEPT ![s] = n]
    BY <2>1, <1>t DEF Goto
  <2> QED
    BY <2>2, <2>3
<1>v. \A s \in Hosts : Survive(s) =>
          \E n \in Host : /\ row' = [row EXCEPT ![s] = n] /\ Same(row[s], n)
                          /\ n.pc = "release" \/ (n.pc = "restore" /\ n.seen # None)
  <2> SUFFICES ASSUME NEW s \in Hosts, Survive(s)
               PROVE  \E n \in Host : /\ row' = [row EXCEPT ![s] = n] /\ Same(row[s], n)
                                      /\ n.pc = "release" \/ (n.pc = "restore" /\ n.seen # None)
    OBVIOUS
  <2>1. PICK p \in {"release", "restore"}, a \in {"idle", "insert"} :
             /\ row' = [row EXCEPT ![s].seen = item, ![s].pc = p, ![s].after = a]
             /\ p = "restore" => item # None
    BY DEF Survive
  <2>2. PICK n : n = [row[s] EXCEPT !.seen = item, !.pc = p, !.after = a]
    OBVIOUS
  <2>3. item \in Images0
    BY TypeParts
  <2>4. n \in Host /\ Same(row[s], n) /\ n.pc = p /\ n.seen = item
    BY <2>2, <2>3, <1>t DEF Host, SweepPcs, Same, Still
  <2>5. row' = [row EXCEPT ![s] = n]
    BY <2>1, <2>2, <1>t
  <2> QED
    BY <2>1, <2>4, <2>5
<1>1. ASSUME NEW w \in Writers, NEW img \in Images0, NEW g \in Gens, ClaimAndSend(w, img,
             g)
      PROVE  Ok
  BY <1>u, <1>1 DEF ClaimAndSend
<1>2. ASSUME NEW w \in Writers, NEW img \in Images, OccWrite(w, img) PROVE Ok
  BY <1>u, <1>2 DEF OccWrite
<1>3. ASSUME NEW w \in Writers, LandBase(w) \/ LandRest(w) \/ GiveUp(w) \/ Lose(w) PROVE Ok
  BY <1>u, <1>3 DEF LandBase, LandRest, GiveUp, Lose
<1>4. ASSUME NEW s \in Hosts, NEW e \in Expiries, Load(s, e) PROVE Ok
  <2>1. gen \in Gens /\ queue[gen][e] \in Row
    BY <1>4, TypeParts, Values DEF Load, TypeOK
  <2> DEFINE q == queue[gen][e]
             N(p) == [NoRow EXCEPT !.gen = gen, !.exp = e, !.st = q.st, !.work = q.work,
                                   !.pc = p]
  <2>a. q.st \in {"PENDING", "CLAIMED", "ABORTING", "APPLYING", "APPLIED"}
    BY <1>4, <2>1 DEF Load, Row, States, Unclaimed
  <2>b0. q.st = "PENDING" => row' = [row EXCEPT ![s] = N("read")]
    BY <1>4 DEF Load
  <2>b1. q.st = "CLAIMED" => row' = [row EXCEPT ![s] = N("check")]
    BY <1>4 DEF Load
  <2>b2. q.st = "ABORTING" => row' = [row EXCEPT ![s] = N("release")]
    BY <1>4 DEF Load
  <2>b3. q.st = "APPLYING" => row' = [row EXCEPT ![s] = N("owned")]
    BY <1>4 DEF Load
  <2>b4. q.st = "APPLIED" => row' = [row EXCEPT ![s] = N("final")]
    BY <1>4 DEF Load
  <2>d. e \in Due
    BY <1>4 DEF Load
  <2>2. PICK p : /\ row' = [row EXCEPT ![s] = N(p)]
                 /\ \/ p = "read" /\ q.st = "PENDING" /\ e \in Due
                    \/ (p = "check" /\ q.st = "CLAIMED") \/ (p = "release" /\ q.st = "ABORTING")
                    \/ (p = "owned" /\ q.st = "APPLYING") \/ (p = "final" /\ q.st = "APPLIED")
    <3> HIDE DEF q, N
    <3> QED
      BY <2>a, <2>b0, <2>b1, <2>b2, <2>b3, <2>b4, <2>d
  <2>3. PICK n : n = N(p)
    OBVIOUS
  <2>4. /\ n.pc = p /\ n.st = q.st /\ n.work = q.work /\ n.exp = e /\ n.drain = FALSE /\ n.gen = gen
        /\ n.seen = None /\ n.after = "idle" /\ n \in Host
    BY <2>1, <2>2, <2>3, Values DEF NoRow, Host, Row, Images0, SweepPcs
  <2>5. q.st = "PENDING" \/ q.work # NoWork
    BY <1>4 DEF Load
  <2>6. q.st = "PENDING" => q.work = NoWork
    BY <2>1 DEF QueueRows, Unclaimed
  <2>7. Place(n)
    BY <2>1, <2>2, <2>4, <2>5, <2>6 DEF Place, Claimed
  <2>8. Loads(n) /\ UNCHANGED <<base, index, queue, batch>>
    BY <1>4, <2>1, <2>2, <2>4 DEF Loads, Load, Local
  <2>9. Turn(s, row[s], n)
    BY <2>8 DEF Turn, CalmTurn, BusyTurn
  <2> QED
    BY <2>2, <2>3, <2>4, <2>7, <2>9, <1>r
<1>5. ASSUME NEW s \in Hosts, NEW e \in Expiries, DrainLoad(s, e) PROVE Ok
  <2>1. cleanup \in Gens /\ queue[cleanup][e] \in Row
    BY <1>5, TypeParts, Values DEF DrainLoad, TypeOK
  <2> DEFINE q == queue[cleanup][e]
             N(p) == [NoRow EXCEPT !.gen = cleanup, !.exp = e, !.st = q.st, !.work = q.work,
                                   !.pc = p, !.drain = TRUE]
  <2>a. q.st \in {"CLAIMED", "ABORTING", "APPLYING", "APPLIED"}
    BY <1>5, <2>1 DEF DrainLoad, Row, States, Unclaimed
  <2>b0. q.st = "CLAIMED" => row' = [row EXCEPT ![s] = N("abort")]
    BY <1>5 DEF DrainLoad
  <2>b1. q.st = "ABORTING" => row' = [row EXCEPT ![s] = N("release")]
    BY <1>5 DEF DrainLoad
  <2>b2. q.st = "APPLYING" => row' = [row EXCEPT ![s] = N("owned")]
    BY <1>5 DEF DrainLoad
  <2>b3. q.st = "APPLIED" => row' = [row EXCEPT ![s] = N("final")]
    BY <1>5 DEF DrainLoad
  <2>2. PICK p : /\ row' = [row EXCEPT ![s] = N(p)]
                 /\ \/ (p = "abort" /\ q.st = "CLAIMED") \/ (p = "release" /\ q.st = "ABORTING")
                    \/ (p = "owned" /\ q.st = "APPLYING") \/ (p = "final" /\ q.st = "APPLIED")
    <3> HIDE DEF q, N
    <3> QED
      BY <2>a, <2>b0, <2>b1, <2>b2, <2>b3
  <2>3. PICK n : n = N(p)
    OBVIOUS
  <2>4. /\ n.pc = p /\ n.st = q.st /\ n.work = q.work /\ n.exp = e /\ n.drain = TRUE /\ n.gen = cleanup
        /\ n.seen = None /\ n.after = "idle" /\ n \in Host
    BY <2>1, <2>2, <2>3, Values DEF NoRow, Host, Row, Images0, SweepPcs
  <2>5. q.st = "PENDING" \/ q.work # NoWork
    BY <1>5 DEF DrainLoad
  <2>6. q.st = "PENDING" => q.work = NoWork
    BY <2>1 DEF QueueRows, Unclaimed
  <2>7. Place(n)
    BY <2>1, <2>2, <2>4, <2>5, <2>6 DEF Place, Claimed
  <2>8. Loads(n) /\ UNCHANGED <<base, index, queue, batch>>
    BY <1>5, <2>1, <2>2, <2>4 DEF Loads, DrainLoad, Local
  <2>9. Turn(s, row[s], n)
    BY <2>8 DEF Turn, CalmTurn, BusyTurn
  <2> QED
    BY <2>2, <2>3, <2>4, <2>7, <2>9, <1>r
<1>6. ASSUME NEW s \in Hosts, ReadItem(s) PROVE Ok
  <2>i. item \in Images0 /\ FreeWorks \subseteq Works /\ row[s].pc = "read"
    BY <1>6, TypeParts DEF FreeWorks, ReadItem
  <2>1. CASE Expiry(item) # row[s].exp
    <3>1. PICK n :
              n = [row[s] EXCEPT !.pc = "record", !.after = IF item = None THEN "idle" ELSE "reread"]
      OBVIOUS
    <3>2. n \in Host /\ n.pc = "record" /\ Same(row[s], n)
      BY <3>1, <1>t DEF Host, SweepPcs, States, Images0, Same, Still
    <3>3. row' = [row EXCEPT ![s] = n]
      BY <1>6, <2>1, <3>1, <1>t DEF ReadItem, Goto
    <3>4. Place(n) /\ Turn(s, row[s], n)
      BY <1>6, <2>1, <3>2, <1>t DEF ReadItem, Place, Turn, CalmTurn, Same, Still
    <3> QED
      BY <3>2, <3>3, <3>4, <1>r, <1>q
  <2>2. CASE Expiry(item) = row[s].exp
    <3>1. PICK k \in FreeWorks :
             /\ row' = [row EXCEPT ![s].pc = "claim", ![s].work = [id |-> k, img |-> item]]
             /\ idxNewer' = idxNewer \ {k}
             /\ batch' = [w \in Writers |-> [batch[w] EXCEPT !.beats = @ \ {k}]]
      BY <1>6, <2>2 DEF ReadItem
    <3>2. row[s].exp \in Due /\ item \in Images
      BY <2>i, <2>2, Values, TtlAssumption DEF DueInv
    <3>a. PICK m : m = [id |-> k, img |-> item]
      OBVIOUS
    <3>3. PICK n : n = [row[s] EXCEPT !.pc = "claim", !.work = m]
      OBVIOUS
    <3>4. m \in WorkData /\ m # NoWork
      BY <2>i, <3>2, <3>a, WorkIds
    <3>5. n \in Host /\ n.pc = "claim" /\ n.st = row[s].st /\ n.work = m /\ n.drain = row[s].drain
          /\ n.gen = row[s].gen /\ n.exp = row[s].exp
      BY <3>3, <3>4, <1>t DEF Host, SweepPcs
    <3>6. row' = [row EXCEPT ![s] = n]
      BY <3>1, <3>3, <3>a, <1>t
    <3>7. Place(n)
      BY <2>i, <3>4, <3>5, <1>t DEF Place
    <3>w. \E j \in FreeWorks : /\ n.work = [id |-> j, img |-> item] /\ idxNewer' = idxNewer \ {j}
                               /\ batch' = [w \in Writers |-> [batch[w] EXCEPT !.beats = @ \ {j}]]
      BY <3>1, <3>5, <3>a
    <3>8. Turn(s, row[s], n)
      BY <1>6, <2>2, <3>w, <3>2, <3>5 DEF Turn, CalmTurn, BusyTurn
    <3> QED
      BY <3>5, <3>6, <3>7, <3>8, <1>r
  <2> QED
    BY <2>1, <2>2
<1>7. ASSUME NEW s \in Hosts, ClaimWork(s) PROVE Ok
  <2>d. ~row[s].drain
    BY <1>7, <1>t DEF ClaimWork, Place
  <2>1. CASE Q(row[s]).st = "PENDING"
    <3>1. PICK n : n = [row[s] EXCEPT !.pc = "check", !.st = "CLAIMED"]
      OBVIOUS
    <3>2. /\ n \in Host /\ n.pc = "check" /\ n.st = "CLAIMED" /\ n.work = row[s].work
          /\ n.drain = row[s].drain /\ n.gen = row[s].gen /\ n.exp = row[s].exp
      BY <3>1, <1>t DEF Host, SweepPcs, States
    <3>3. row' = [row EXCEPT ![s] = n]
      BY <1>7, <2>1, <3>1, <1>t DEF ClaimWork
    <3>4. Place(n)
      BY <1>7, <3>2, <1>t, <2>d DEF ClaimWork, Place, Claimed
    <3>5. Turn(s, row[s], n)
      BY <1>7, <2>1, <3>2 DEF Turn, CalmTurn, BusyTurn
    <3> QED
      BY <3>2, <3>3, <3>4, <3>5, <1>r
  <2>2. CASE ~(Q(row[s]).st = "PENDING")
    BY <1>7, <2>2, <1>q DEF ClaimWork
  <2> QED
    BY <2>1, <2>2
<1>8. ASSUME NEW s \in Hosts, CheckItem(s) PROVE Ok
  <2>1. CASE item = row[s].work.img
    <3>1. PICK n : n = [row[s] EXCEPT !.pc = "own"]
      OBVIOUS
    <3>2. n \in Host /\ n.pc = "own" /\ Same(row[s], n)
      BY <3>1, <1>t DEF Host, SweepPcs, States, Images0, Same, Still
    <3>3. row' = [row EXCEPT ![s] = n]
      BY <1>8, <2>1, <3>1, <1>t DEF CheckItem, Goto
    <3>4. Place(n) /\ Turn(s, row[s], n)
      BY <1>8, <2>1, <3>2, <1>t DEF CheckItem, Place, Turn, CalmTurn, Same, Still
    <3> QED
      BY <3>2, <3>3, <3>4, <1>r, <1>q
  <2>2. CASE item # row[s].work.img
    <3>0. PICK a \in {"idle", "insert"} : a = IF item = None THEN "idle" ELSE "insert"
      OBVIOUS
    <3>1. PICK n : n = [row[s] EXCEPT !.pc = "abort", !.seen = item, !.after = a]
      OBVIOUS
    <3>i. item \in Images0
      BY TypeParts
    <3>2. n \in Host /\ n.pc = "abort" /\ Same(row[s], n)
      BY <3>1, <3>i, <1>t DEF Host, SweepPcs, Same, Still
    <3>3. row' = [row EXCEPT ![s] = n]
      BY <1>8, <2>2, <3>0, <3>1, <1>t DEF CheckItem
    <3>4. Place(n) /\ Turn(s, row[s], n)
      BY <1>8, <3>2, <1>t DEF CheckItem, Place, Turn, CalmTurn, Same, Still
    <3> QED
      BY <3>2, <3>3, <3>4, <1>r
  <2> QED
    BY <2>1, <2>2
<1>9. ASSUME NEW s \in Hosts, AbortWork(s) PROVE Ok
  <2>1. CASE Is(row[s], "CLAIMED")
    <3>1. PICK n : n = [row[s] EXCEPT !.pc = "release", !.st = "ABORTING"]
      OBVIOUS
    <3>2. /\ n \in Host /\ n.pc = "release" /\ n.st = "ABORTING" /\ n.work = row[s].work
          /\ n.drain = row[s].drain /\ n.gen = row[s].gen /\ n.exp = row[s].exp
      BY <3>1, <1>t DEF Host, SweepPcs, States
    <3>3. row' = [row EXCEPT ![s] = n]
      BY <1>9, <2>1, <3>1, <1>t DEF AbortWork
    <3>4. Place(n)
      BY <1>9, <3>2, <1>t DEF AbortWork, Place, Claimed
    <3>5. Turn(s, row[s], n)
      BY <1>9, <2>1, <3>2 DEF Turn, CalmTurn, BusyTurn
    <3> QED
      BY <3>2, <3>3, <3>4, <3>5, <1>r
  <2>2. CASE ~(Is(row[s], "CLAIMED"))
    BY <1>9, <2>2, <1>q DEF AbortWork
  <2> QED
    BY <2>1, <2>2
<1>10. ASSUME NEW s \in Hosts, OwnBase(s) PROVE Ok
  <2>0. (Goto(s, "gate") /\ row[s].st = "CLAIMED")
          \/ (Goto(s, "delete") /\ row[s].st # "CLAIMED")
               \/ (Goto(s, "survivor") /\ row[s].drain) \/ Quit(s)
    BY <1>10 DEF OwnBase
  <2>1. CASE Goto(s, "gate") /\ row[s].st = "CLAIMED"
    <3>1. PICK n \in Host : row' = [row EXCEPT ![s] = n] /\ Same(row[s], n) /\ n.pc = "gate"
      BY <2>1, <1>g DEF SweepPcs
    <3>2. Place(n) /\ Turn(s, row[s], n)
      BY <1>10, <2>1, <3>1, <1>t DEF OwnBase, Place, Turn, CalmTurn, Same, Still
    <3> QED
      BY <3>1, <3>2, <1>r
  <2>2. CASE Goto(s, "delete") /\ row[s].st # "CLAIMED"
    <3>1. PICK n \in Host : row' = [row EXCEPT ![s] = n] /\ Same(row[s], n) /\ n.pc = "delete"
      BY <2>2, <1>g DEF SweepPcs
    <3>2. Place(n) /\ Turn(s, row[s], n)
      BY <1>10, <2>2, <3>1, <1>t DEF OwnBase, Place, Turn, CalmTurn, Same, Still
    <3> QED
      BY <3>1, <3>2, <1>r
  <2>3. CASE Goto(s, "survivor") /\ row[s].drain
    <3>1. PICK n \in Host : row' = [row EXCEPT ![s] = n] /\ Same(row[s], n) /\ n.pc = "survivor"
      BY <2>3, <1>g DEF SweepPcs
    <3>2. Place(n) /\ Turn(s, row[s], n)
      BY <1>10, <2>3, <3>1, <1>t DEF OwnBase, Place, Turn, CalmTurn, Same, Still
    <3> QED
      BY <3>1, <3>2, <1>r
  <2> QED
    BY <2>0, <1>q, <2>1, <2>2, <2>3
<1>11. ASSUME NEW s \in Hosts, Gate(s) PROVE Ok
  <2>0. Goto(s, "seal") \/ Quit(s)
    BY <1>11 DEF Gate
  <2>1. CASE Goto(s, "seal")
    <3>1. PICK n \in Host : row' = [row EXCEPT ![s] = n] /\ Same(row[s], n) /\ n.pc = "seal"
      BY <2>1, <1>g DEF SweepPcs
    <3>2. Place(n) /\ Turn(s, row[s], n)
      BY <1>11, <2>1, <3>1, <1>t DEF Gate, Place, Turn, CalmTurn, Same, Still
    <3> QED
      BY <3>1, <3>2, <1>r
  <2> QED
    BY <2>0, <1>q, <2>1
<1>12. ASSUME NEW s \in Hosts, Seal(s) PROVE Ok
  <2>0. (Goto(s, "apply") /\ owner = row[s].work.id /\ item = row[s].work.img) \/ Quit(s)
    BY <1>12 DEF Seal
  <2>1. CASE Goto(s, "apply") /\ owner = row[s].work.id /\ item = row[s].work.img
    <3>1. PICK n \in Host : row' = [row EXCEPT ![s] = n] /\ Same(row[s], n) /\ n.pc = "apply"
      BY <2>1, <1>g DEF SweepPcs
    <3>2. Place(n) /\ Turn(s, row[s], n)
      BY <1>12, <2>1, <3>1, <1>t DEF Seal, Place, Turn, CalmTurn, Same, Still
    <3> QED
      BY <3>1, <3>2, <1>r
  <2> QED
    BY <2>0, <1>q, <2>1
<1>13. ASSUME NEW s \in Hosts, MarkApplying(s) PROVE Ok
  <2>1. CASE Is(row[s], "CLAIMED")
    <3>1. PICK n : n = [row[s] EXCEPT !.pc = "owned", !.st = "APPLYING"]
      OBVIOUS
    <3>2. /\ n \in Host /\ n.pc = "owned" /\ n.st = "APPLYING" /\ n.work = row[s].work
          /\ n.drain = row[s].drain /\ n.gen = row[s].gen /\ n.exp = row[s].exp
      BY <3>1, <1>t DEF Host, SweepPcs, States
    <3>3. row' = [row EXCEPT ![s] = n]
      BY <1>13, <2>1, <3>1, <1>t DEF MarkApplying
    <3>4. Place(n)
      BY <1>13, <3>2, <1>t DEF MarkApplying, Place, Claimed
    <3>5. Turn(s, row[s], n)
      BY <1>13, <2>1, <3>2 DEF Turn, CalmTurn, BusyTurn
    <3> QED
      BY <3>2, <3>3, <3>4, <3>5, <1>r
  <2>2. CASE ~(Is(row[s], "CLAIMED"))
    BY <1>13, <2>2, <1>q DEF MarkApplying
  <2> QED
    BY <2>1, <2>2
<1>14. ASSUME NEW s \in Hosts, CheckOwner(s) PROVE Ok
  <2>0. Goto(s, "effects") \/ Quit(s)
    BY <1>14 DEF CheckOwner
  <2>1. CASE Goto(s, "effects")
    <3>1. PICK n \in Host : row' = [row EXCEPT ![s] = n] /\ Same(row[s], n) /\ n.pc = "effects"
      BY <2>1, <1>g DEF SweepPcs
    <3>2. Place(n) /\ Turn(s, row[s], n)
      BY <1>14, <2>1, <3>1, <1>t DEF CheckOwner, Place, Turn, CalmTurn, Same, Still
    <3> QED
      BY <3>1, <3>2, <1>r
  <2> QED
    BY <2>0, <1>q, <2>1
<1>15. ASSUME NEW s \in Hosts, ApplyEffects(s) PROVE Ok
  <2>0. Goto(s, "mark")
    BY <1>15 DEF ApplyEffects
  <2>1. CASE Goto(s, "mark")
    <3>1. PICK n \in Host : row' = [row EXCEPT ![s] = n] /\ Same(row[s], n) /\ n.pc = "mark"
      BY <2>1, <1>g DEF SweepPcs
    <3>2. Place(n) /\ Turn(s, row[s], n)
      BY <1>15, <2>1, <3>1, <1>t DEF ApplyEffects, Place, Turn, CalmTurn, Same, Still
    <3> QED
      BY <3>1, <3>2, <1>r
  <2> QED
    BY <2>0, <1>q, <2>1
<1>16. ASSUME NEW s \in Hosts, MarkApplied(s) PROVE Ok
  <2>1. CASE Is(row[s], "APPLYING")
    <3>1. PICK n : n = [row[s] EXCEPT !.pc = "final", !.st = "APPLIED"]
      OBVIOUS
    <3>2. /\ n \in Host /\ n.pc = "final" /\ n.st = "APPLIED" /\ n.work = row[s].work
          /\ n.drain = row[s].drain /\ n.gen = row[s].gen /\ n.exp = row[s].exp
      BY <3>1, <1>t DEF Host, SweepPcs, States
    <3>3. row' = [row EXCEPT ![s] = n]
      BY <1>16, <2>1, <3>1, <1>t DEF MarkApplied
    <3>4. Place(n)
      BY <1>16, <3>2, <1>t DEF MarkApplied, Place, Claimed
    <3>5. Turn(s, row[s], n)
      BY <1>16, <2>1, <3>2 DEF Turn, CalmTurn, BusyTurn
    <3> QED
      BY <3>2, <3>3, <3>4, <3>5, <1>r
  <2>2. CASE ~(Is(row[s], "APPLYING"))
    BY <1>16, <2>2, <1>q DEF MarkApplied
  <2> QED
    BY <2>1, <2>2
<1>17. ASSUME NEW s \in Hosts, FinalRead(s) PROVE Ok
  <2>0. Goto(s, "own") \/ Goto(s, "survivor") \/ Survive(s)
    BY <1>17 DEF FinalRead
  <2>1. CASE Goto(s, "own")
    <3>1. PICK n \in Host : row' = [row EXCEPT ![s] = n] /\ Same(row[s], n) /\ n.pc = "own"
      BY <2>1, <1>g DEF SweepPcs
    <3>2. Place(n) /\ Turn(s, row[s], n)
      BY <1>17, <2>1, <3>1, <1>t DEF FinalRead, Place, Turn, CalmTurn, Same, Still
    <3> QED
      BY <3>1, <3>2, <1>r
  <2>2. CASE Goto(s, "survivor")
    <3>1. PICK n \in Host : row' = [row EXCEPT ![s] = n] /\ Same(row[s], n) /\ n.pc = "survivor"
      BY <2>2, <1>g DEF SweepPcs
    <3>2. Place(n) /\ Turn(s, row[s], n)
      BY <1>17, <2>2, <3>1, <1>t DEF FinalRead, Place, Turn, CalmTurn, Same, Still
    <3> QED
      BY <3>1, <3>2, <1>r
  <2>3. CASE Survive(s)
    <3>1. PICK n \in Host : /\ row' = [row EXCEPT ![s] = n] /\ Same(row[s], n)
                            /\ n.pc = "release" \/ (n.pc = "restore" /\ n.seen # None)
      BY <2>3, <1>v
    <3>2. Place(n) /\ Turn(s, row[s], n)
      BY <1>17, <3>1, <1>t DEF FinalRead, Place, Turn, CalmTurn, Same, Still
    <3> QED
      BY <3>1, <3>2, <1>r
  <2> QED
    BY <2>0, <2>1, <2>2, <2>3
<1>18. ASSUME NEW s \in Hosts, DeleteBase(s) PROVE Ok
  <2>0. Goto(s, "destroy") \/ Goto(s, "record") \/ Goto(s, "survivor")
    BY <1>18 DEF DeleteBase
  <2>1. CASE Goto(s, "destroy")
    <3>1. PICK n \in Host : row' = [row EXCEPT ![s] = n] /\ Same(row[s], n) /\ n.pc = "destroy"
      BY <2>1, <1>g DEF SweepPcs
    <3>2. Place(n) /\ Turn(s, row[s], n)
      BY <1>18, <2>1, <3>1, <1>t DEF DeleteBase, Place, Turn, CalmTurn, Same, Still
    <3> QED
      BY <3>1, <3>2, <1>r
  <2>2. CASE Goto(s, "record")
    <3>1. PICK n \in Host : row' = [row EXCEPT ![s] = n] /\ Same(row[s], n) /\ n.pc = "record"
      BY <2>2, <1>g DEF SweepPcs
    <3>2. Place(n) /\ Turn(s, row[s], n)
      BY <1>18, <2>2, <3>1, <1>t DEF DeleteBase, Place, Turn, CalmTurn, Same, Still
    <3> QED
      BY <3>1, <3>2, <1>r
  <2>3. CASE Goto(s, "survivor")
    <3>1. PICK n \in Host : row' = [row EXCEPT ![s] = n] /\ Same(row[s], n) /\ n.pc = "survivor"
      BY <2>3, <1>g DEF SweepPcs
    <3>2. Place(n) /\ Turn(s, row[s], n)
      BY <1>18, <2>3, <3>1, <1>t DEF DeleteBase, Place, Turn, CalmTurn, Same, Still
    <3> QED
      BY <3>1, <3>2, <1>r
  <2> QED
    BY <2>0, <1>q, <2>1, <2>2, <2>3
<1>19. ASSUME NEW s \in Hosts, ReadSurvivor(s) PROVE Ok
  <2>0. Quit(s) \/ Survive(s)
    BY <1>19 DEF ReadSurvivor
  <2>1. CASE Survive(s)
    <3>1. PICK n \in Host : /\ row' = [row EXCEPT ![s] = n] /\ Same(row[s], n)
                            /\ n.pc = "release" \/ (n.pc = "restore" /\ n.seen # None)
      BY <2>1, <1>v
    <3>2. Place(n) /\ Turn(s, row[s], n)
      BY <1>19, <3>1, <1>t DEF ReadSurvivor, Place, Turn, CalmTurn, Same, Still
    <3> QED
      BY <3>1, <3>2, <1>r
  <2> QED
    BY <2>0, <2>1, <1>q
<1>20. ASSUME NEW s \in Hosts, RestoreIndex(s) PROVE Ok
  <2>0. Goto(s, "release")
    BY <1>20 DEF RestoreIndex
  <2>1. CASE Goto(s, "release")
    <3>1. PICK n \in Host : row' = [row EXCEPT ![s] = n] /\ Same(row[s], n) /\ n.pc = "release"
      BY <2>1, <1>g DEF SweepPcs
    <3>2. Place(n) /\ Turn(s, row[s], n)
      BY <1>20, <2>1, <3>1, <1>t DEF RestoreIndex, Place, Turn, CalmTurn, Same, Still
    <3> QED
      BY <3>1, <3>2, <1>r
  <2> QED
    BY <2>0, <1>q, <2>1
<1>21. ASSUME NEW s \in Hosts, ReleaseBase(s) PROVE Ok
  <2>0. Goto(s, "destroy") \/ Goto(s, "record")
    BY <1>21 DEF ReleaseBase
  <2>1. CASE Goto(s, "destroy")
    <3>1. PICK n \in Host : row' = [row EXCEPT ![s] = n] /\ Same(row[s], n) /\ n.pc = "destroy"
      BY <2>1, <1>g DEF SweepPcs
    <3>2. Place(n) /\ Turn(s, row[s], n)
      BY <1>21, <2>1, <3>1, <1>t DEF ReleaseBase, Place, Turn, CalmTurn, Same, Still
    <3> QED
      BY <3>1, <3>2, <1>r
  <2>2. CASE Goto(s, "record")
    <3>1. PICK n \in Host : row' = [row EXCEPT ![s] = n] /\ Same(row[s], n) /\ n.pc = "record"
      BY <2>2, <1>g DEF SweepPcs
    <3>2. Place(n) /\ Turn(s, row[s], n)
      BY <1>21, <2>2, <3>1, <1>t DEF ReleaseBase, Place, Turn, CalmTurn, Same, Still
    <3> QED
      BY <3>1, <3>2, <1>r
  <2> QED
    BY <2>0, <1>q, <2>1, <2>2
<1>22. ASSUME NEW s \in Hosts, RecordRepair(s) PROVE Ok
  <2>0. Goto(s, "destroy")
    BY <1>22 DEF RecordRepair
  <2>1. CASE Goto(s, "destroy")
    <3>1. PICK n \in Host : row' = [row EXCEPT ![s] = n] /\ Same(row[s], n) /\ n.pc = "destroy"
      BY <2>1, <1>g DEF SweepPcs
    <3>2. Place(n) /\ Turn(s, row[s], n)
      BY <1>22, <2>1, <3>1, <1>t DEF RecordRepair, Place, Turn, CalmTurn, Same, Still
    <3> QED
      BY <3>1, <3>2, <1>r
  <2> QED
    BY <2>0, <1>q, <2>1
<1>23. ASSUME NEW s \in Hosts, Destroy(s) PROVE Ok
  <2>1. PICK a : /\ a \in {row[s].after, "idle"}
                 /\ Quit(s) \/ row' = [row EXCEPT ![s].pc = "handoff", ![s].after = a]
    BY <1>23 DEF Destroy
  <2>2. PICK n : n = [row[s] EXCEPT !.pc = "handoff", !.after = a]
    OBVIOUS
  <2>3. n \in Host /\ n.pc = "handoff" /\ Same(row[s], n)
    BY <2>1, <2>2, <1>t DEF Host, SweepPcs, Same, Still
  <2>4. row' = [row EXCEPT ![s] = n] \/ Quit(s)
    BY <2>1, <2>2, <1>t
  <2>5. Place(n) /\ Turn(s, row[s], n)
    BY <1>23, <2>3, <1>t DEF Destroy, Place, Turn, CalmTurn, Same, Still
  <2> QED
    BY <2>3, <2>4, <2>5, <1>r, <1>q
<1>24. ASSUME NEW s \in Hosts, Handoff(s) PROVE Ok
  <2>0. Goto(s, "unmark")
    BY <1>24 DEF Handoff
  <2>1. CASE Goto(s, "unmark")
    <3>1. PICK n \in Host : row' = [row EXCEPT ![s] = n] /\ Same(row[s], n) /\ n.pc = "unmark"
      BY <2>1, <1>g DEF SweepPcs
    <3>2. Place(n) /\ Turn(s, row[s], n)
      BY <1>24, <2>1, <3>1, <1>t DEF Handoff, Place, Turn, CalmTurn, Same, Still
    <3> QED
      BY <3>1, <3>2, <1>r
  <2> QED
    BY <2>0, <1>q, <2>1
<1>25. ASSUME NEW s \in Hosts, Unmark(s) PROVE Ok
  <2>0. Goto(s, "reread") \/ Goto(s, "insert") \/ Quit(s)
    BY <1>25, <1>t DEF Unmark, Host
  <2>1. CASE Goto(s, "reread")
    <3>1. PICK n \in Host : row' = [row EXCEPT ![s] = n] /\ Same(row[s], n) /\ n.pc = "reread"
      BY <2>1, <1>g DEF SweepPcs
    <3>2. Place(n) /\ Turn(s, row[s], n)
      BY <1>25, <2>1, <3>1, <1>t DEF Unmark, Place, Turn, CalmTurn, Same, Still
    <3> QED
      BY <3>1, <3>2, <1>r
  <2>2. CASE Goto(s, "insert")
    <3>1. PICK n \in Host : row' = [row EXCEPT ![s] = n] /\ Same(row[s], n) /\ n.pc = "insert"
      BY <2>2, <1>g DEF SweepPcs
    <3>2. Place(n) /\ Turn(s, row[s], n)
      BY <1>25, <2>2, <3>1, <1>t DEF Unmark, Place, Turn, CalmTurn, Same, Still
    <3> QED
      BY <3>1, <3>2, <1>r
  <2> QED
    BY <2>0, <1>q, <2>1, <2>2
<1>26. ASSUME NEW s \in Hosts, Reread(s) PROVE Ok
  <2>1. PICK n : n = [row[s] EXCEPT !.pc = "insert", !.seen = item]
    OBVIOUS
  <2>2. n \in Host /\ n.pc = "insert" /\ Same(row[s], n)
    BY <2>1, <1>t, TypeParts DEF Host, SweepPcs, States, Images0, Same, Still
  <2>3. row' = [row EXCEPT ![s] = n] \/ Quit(s)
    BY <1>26, <2>1, <1>t DEF Reread, Goto
  <2>4. Place(n) /\ Turn(s, row[s], n)
    BY <1>26, <2>2, <1>t DEF Reread, Place, Turn, CalmTurn, Same, Still
  <2> QED
    BY <2>2, <2>3, <2>4, <1>r, <1>q
<1>27. ASSUME NEW s \in Hosts, InsertSeen(s) PROVE Ok
  BY <1>27, <1>q DEF InsertSeen
<1>28. ASSUME NEW s \in Hosts, Crash(s) PROVE Ok
  BY <1>28, <1>q DEF Crash
<1>29. ASSUME NEW s \in Hosts, EffectsUnknown(s) PROVE Ok
  BY <1>29, <1>q DEF EffectsUnknown
<1>30. ASSUME NEW s \in Hosts, DestroyUnknown(s) PROVE Ok
  BY <1>30, <1>q DEF DestroyUnknown
<1>31. ASSUME NEW k \in Works, Replay(k) PROVE Ok
  BY <1>u, <1>31 DEF Replay
<1>32. ASSUME NEW d \in ghosts, LateDestroy(d) PROVE Ok
  BY <1>u, <1>32 DEF LateDestroy
<1>33. ASSUME NEW e \in Expiries, ClearRow(e) PROVE Ok
  BY <1>u, <1>33 DEF ClearRow
<1>34. CASE ExpireClaim \/ TakeOutboxRow \/ TakeMarker \/ AuditItem \/ BackfillItem \/
           Discharge \/ RetireMarkers \/ AuditDone \/ BackfillDone \/ PassCrash \/ Enable \/
           Disable \/ FinishCleanup
  BY <1>u, <1>34 DEF ExpireClaim, TakeOutboxRow, TakeMarker, AuditItem, BackfillItem, Discharge,
     RetireMarkers, AuditDone, BackfillDone, PassCrash, Enable, Disable, FinishCleanup,
     ReadForPass, RegisterSeen
<1> QED
  BY HostNames, ReplayWorks, <1>1, <1>2, <1>3, <1>4, <1>5, <1>6, <1>7, <1>8, <1>9, <1>10, <1>11,
     <1>12, <1>13, <1>14, <1>15, <1>16, <1>17, <1>18, <1>19, <1>20, <1>21, <1>22, <1>23, <1>24,
     <1>25, <1>26, <1>27, <1>28, <1>29, <1>30, <1>31, <1>32, <1>33, <1>34 DEF Next, Write, Land,
     RowStep

-----------------------------------------------------------------------------
(* What a step makes of the batches in flight: writes to cells outdate what *)
(* the writers in ws have pinned, and the works in ks are pinned anew.      *)

LEMMA CellNames ==
    ASSUME NEW b
    PROVE  /\ Index \in Cells(b) <=> "rest" \notin b.landed
           /\ Owner \in Cells(b) <=> "base" \notin b.landed
           /\ \A g \in Gens, e \in Expiries : Work(g, e) \in Cells(b) => State(g, e) \in Cells(b)
           /\ \A g \in Gens, e \in Expiries : Work(g, e) \notin {Item, Owner, Index}
           /\ \A g, h \in Gens, e, f \in Expiries : Work(g, e) # State(h, f)
           /\ \A g, h \in Gens, e, f \in Expiries : Work(g, e) = Work(h, f) => g = h /\ e = f
<1>1. \A g, e : State(g, e) \notin {Item, Owner, Index} /\ Work(g, e) \notin {Item, Owner, Index}
  BY DEF State, Work, Item, Owner, Index
<1>2. \A g, e, h, f : Work(g, e) # State(h, f)
  BY DEF State, Work
<1>3. \A g, e, h, f : Work(g, e) = Work(h, f) => g = h /\ e = f
  BY DEF Work
<1>4. Item # Owner /\ Item # Index /\ Owner # Index
  BY DEF Item, Owner, Index
<1>5. Index \in Cells(b) <=> "rest" \notin b.landed
  BY <1>1, <1>4 DEF Cells
<1>6. Owner \in Cells(b) <=> "base" \notin b.landed
  BY <1>1, <1>4 DEF Cells
<1>7. ASSUME NEW g \in Gens, NEW e \in Expiries, Work(g, e) \in Cells(b)
      PROVE  State(g, e) \in Cells(b)
  <2>1. "rest" \notin b.landed
    BY <1>1, <1>7 DEF Cells
  <2>2. PICK f \in Deleted(b) \cup Inserted(b) : Work(g, e) = Work(b.gen, f)
    BY <1>1, <1>2, <1>7, <2>1 DEF Cells
  <2> QED
    BY <1>3, <2>1, <2>2 DEF Cells
<1> QED
  BY <1>1, <1>2, <1>3, <1>5, <1>6, <1>7

BatchStep(ws, cells, ks) ==
    /\ ws \subseteq Writers /\ ks \subseteq Works
    /\ \A v \in Writers : batch'[v].pc = "idle" => batch[v].pc = "idle"
    /\ \A v \in Sent' :
          /\ v \in Sent
          /\ batch'[v].beats = batch[v].beats \ ks /\ batch'[v].gen = batch[v].gen
          /\ batch[v].landed \subseteq batch'[v].landed
          /\ Cells(batch'[v]) \subseteq Cells(batch[v])
          /\ batch'[v].newer = (batch[v].newer \cup (IF v \in ws THEN cells ELSE {})) \cap Cells(batch'[v])
    /\ \A v, w \in Sent : w \in ws /\ Pins(v, w) => v \in ws
    /\ \A v \in Sent \cap ws : \A g \in Gens, e \in Expiries :
          Work(g, e) \in cells \cap Cells(batch[v]) => State(g, e) \in cells \cup batch[v].newer

LEMMA BatchSame ==
    ASSUME TypeOK, Newer, batch' = batch
    PROVE  BatchStep({}, {}, {})
BY DEF BatchStep, Newer, Sent

LEMMA OutdateValue ==
    ASSUME NEW ws, NEW cells, NEW v \in Writers
    PROVE  /\ v \in ws /\ batch[v].pc = "sent" =>
                 Outdate(ws, cells)[v] = [batch[v] EXCEPT !.newer = @ \cup (cells \cap Cells(batch[v]))]
           /\ ~(v \in ws /\ batch[v].pc = "sent") => Outdate(ws, cells)[v] = batch[v]
BY DEF Outdate

LEMMA SameCells ==
    ASSUME NEW b, NEW c, c.landed = b.landed, c.old = b.old, c.new = b.new, c.gen = b.gen
    PROVE  Cells(c) = Cells(b)
BY DEF Cells, Deleted, Inserted

LEMMA OutdateFields ==
    ASSUME TypeOK, Newer, NEW ws, NEW cells, NEW v \in Writers
    PROVE  LET c == Outdate(ws, cells)[v] IN
           /\ c.pc = batch[v].pc /\ c.beats = batch[v].beats /\ c.landed = batch[v].landed
           /\ c.gen = batch[v].gen /\ c.old = batch[v].old /\ c.new = batch[v].new
           /\ Cells(c) = Cells(batch[v])
           /\ v \in Sent => c.newer =
                 (batch[v].newer \cup (IF v \in ws THEN cells ELSE {})) \cap Cells(batch[v])
<1> DEFINE c == Outdate(ws, cells)[v]
<1>0. batch[v] \in Batch
  BY TypeParts
<1>1. CASE v \in ws /\ batch[v].pc = "sent"
  <2>1. PICK m : m = batch[v].newer \cup (cells \cap Cells(batch[v]))
    OBVIOUS
  <2>2. c = [batch[v] EXCEPT !.newer = m]
    BY <1>1, <2>1, OutdateValue
  <2>3. /\ c.pc = batch[v].pc /\ c.beats = batch[v].beats /\ c.landed = batch[v].landed
        /\ c.gen = batch[v].gen /\ c.old = batch[v].old /\ c.new = batch[v].new /\ c.newer = m
    <3> HIDE DEF c
    <3> QED
      BY <1>0, <2>2 DEF Batch
  <2>4. batch[v].newer \subseteq Cells(batch[v])
    BY <1>1 DEF Newer, Sent
  <2>5. Cells(c) = Cells(batch[v])
    <3> HIDE DEF c
    <3> QED
      BY <2>3, SameCells
  <2> HIDE DEF c
  <2>6. c.newer = (batch[v].newer \cup (IF v \in ws THEN cells ELSE {})) \cap Cells(batch[v])
    BY <1>1, <2>1, <2>3, <2>4
  <2> QED
    BY <2>3, <2>5, <2>6 DEF c
<1>2. CASE ~(v \in ws /\ batch[v].pc = "sent")
  <2>1. Outdate(ws, cells)[v] = batch[v]
    BY <1>2 DEF Outdate
  <2>2. v \in Sent => batch[v].newer \subseteq Cells(batch[v]) /\ v \notin ws
    BY <1>2 DEF Newer, Sent
  <2> QED
    BY <2>1, <2>2
<1> QED
  BY <1>1, <1>2

LEMMA BatchOutdate ==
    ASSUME TypeOK, Newer, NEW ws \in SUBSET Writers, NEW cells, batch' = Outdate(ws, cells),
           \A v, w \in Sent : w \in ws /\ Pins(v, w) => v \in ws,
           \A v \in Sent \cap ws : \A g \in Gens, e \in Expiries :
              Work(g, e) \in cells \cap Cells(batch[v]) => State(g, e) \in cells \cup batch[v].newer
    PROVE  BatchStep(ws, cells, {})
<1>1. ASSUME NEW v \in Writers
      PROVE  /\ batch'[v].pc = batch[v].pc /\ batch'[v].beats = batch[v].beats
             /\ batch'[v].landed = batch[v].landed /\ Cells(batch'[v]) = Cells(batch[v])
             /\ batch'[v].gen = batch[v].gen
             /\ v \in Sent => batch'[v].newer =
                   (batch[v].newer \cup (IF v \in ws THEN cells ELSE {})) \cap Cells(batch[v])
  BY <1>1, OutdateFields
<1> QED
  BY <1>1 DEF BatchStep, Sent

LEMMA BatchNow ==
    ASSUME TypeOK, Newer, NEW cells, Now(cells),
           \A g \in Gens, e \in Expiries : Work(g, e) \in cells => State(g, e) \in cells
    PROVE  BatchStep(Writers, cells, {})
<1>1. Sent \subseteq Writers
  BY DEF Sent
<1> QED
  BY <1>1, BatchOutdate DEF Now

(* One batch is over, or is a done write, besides what the step outdates.    *)
LEMMA BatchOver ==
    ASSUME TypeOK, Newer, NEW ws \in SUBSET Writers, NEW cells, NEW u \in Writers,
           batch' = [Outdate(ws, cells) EXCEPT ![u] = [Resting EXCEPT !.pc = "done"]],
           \A v, w \in Sent : w \in ws /\ Pins(v, w) => v \in ws,
           \A v \in Sent \cap ws : \A g \in Gens, e \in Expiries :
              Work(g, e) \in cells \cap Cells(batch[v]) => State(g, e) \in cells \cup batch[v].newer
    PROVE  BatchStep(ws, cells, {}) /\ batch'[u].pc = "done" /\ batch'[u].landed = {}
<1>0. DOMAIN Outdate(ws, cells) = Writers
  BY DEF Outdate
<1>1. batch'[u].pc = "done" /\ batch'[u].landed = {}
  BY <1>0 DEF Resting
<1>2. ASSUME NEW v \in Writers, v # u
      PROVE  /\ batch'[v].pc = batch[v].pc /\ batch'[v].beats = batch[v].beats
             /\ batch'[v].landed = batch[v].landed /\ Cells(batch'[v]) = Cells(batch[v])
             /\ batch'[v].gen = batch[v].gen
             /\ v \in Sent => batch'[v].newer =
                   (batch[v].newer \cup (IF v \in ws THEN cells ELSE {})) \cap Cells(batch[v])
  <2>1. batch'[v] = Outdate(ws, cells)[v]
    BY <1>0, <1>2
  <2>2. PICK c : c = batch'[v]
    OBVIOUS
  <2>3. /\ c.pc = batch[v].pc /\ c.beats = batch[v].beats
        /\ c.landed = batch[v].landed /\ Cells(c) = Cells(batch[v]) /\ c.gen = batch[v].gen
        /\ v \in Sent => c.newer =
              (batch[v].newer \cup (IF v \in ws THEN cells ELSE {})) \cap Cells(batch[v])
    <3>1. c = Outdate(ws, cells)[v]
      BY <2>1, <2>2
    <3> QED
      BY <3>1, OutdateFields
  <2> QED
    BY <2>2, <2>3
<1> QED
  BY <1>1, <1>2 DEF BatchStep, Sent

LEMMA BatchLands ==
    ASSUME TypeOK, Order, Newer, NEW u \in Sent, NEW part \in {"base", "rest"}, part \notin batch[u].landed,
           NEW cells, batch' = Landed(u, part, cells),
           \A v \in Sent : Pins(v, u) => \A g \in Gens, e \in Expiries :
              Work(g, e) \in cells \cap Cells(batch[v]) => State(g, e) \in cells \cup batch[v].newer
    PROVE  /\ BatchStep(batch[u].beats \cap Writers, cells, {})
           /\ batch'[u].pc = "sent" => part \in batch'[u].landed
           /\ ~NoBatchLands
<1> DEFINE b == batch[u]
           ws == b.beats \cap Writers
           rest == [b EXCEPT !.landed = @ \cup {part}]
           over == b.landed \cup {part} = {"base", "rest"}
           N == IF over THEN [Resting EXCEPT !.pc = "done"] ELSE [rest EXCEPT !.newer = @ \cap Cells(rest)]
<1>0. u \in Writers /\ b \in Batch /\ b.pc = "sent"
  BY TypeParts DEF Sent
<1>1. Outdate(b.beats, cells) = Outdate(ws, cells) /\ DOMAIN Outdate(ws, cells) = Writers
  BY DEF Outdate
<1>2. batch' = [Outdate(ws, cells) EXCEPT ![u] = N]
  BY <1>1 DEF Landed
<1>3. u \notin ws
  BY DEF Order, Pins
<1>4. \A v, w \in Sent : w \in ws /\ Pins(v, w) => v \in ws
  BY DEF Order, Pins, Sent
<1>5. ASSUME NEW v \in Writers, v # u
      PROVE  /\ batch'[v].pc = batch[v].pc /\ batch'[v].beats = batch[v].beats
             /\ batch'[v].landed = batch[v].landed /\ Cells(batch'[v]) = Cells(batch[v])
             /\ batch'[v].gen = batch[v].gen
             /\ v \in Sent => batch'[v].newer =
                   (batch[v].newer \cup (IF v \in ws THEN cells ELSE {})) \cap Cells(batch[v])
  <2>1. batch'[v] = Outdate(ws, cells)[v]
    BY <1>1, <1>2, <1>5
  <2>2. PICK c : c = batch'[v]
    OBVIOUS
  <2>3. /\ c.pc = batch[v].pc /\ c.beats = batch[v].beats
        /\ c.landed = batch[v].landed /\ Cells(c) = Cells(batch[v]) /\ c.gen = batch[v].gen
        /\ v \in Sent => c.newer =
              (batch[v].newer \cup (IF v \in ws THEN cells ELSE {})) \cap Cells(batch[v])
    <3>1. c = Outdate(ws, cells)[v]
      BY <2>1, <2>2
    <3> QED
      BY <3>1, OutdateFields
  <2> QED
    BY <2>2, <2>3
<1>6. batch'[u] = N
  BY <1>0, <1>1, <1>2
<1>7. batch'[u].pc # "idle" /\ (over => batch'[u].pc = "done")
  BY <1>0, <1>6 DEF Resting, Batch
<1>8. ~over => /\ batch'[u].pc = "sent" /\ batch'[u].beats = b.beats /\ batch'[u].gen = b.gen
               /\ batch'[u].landed = b.landed \cup {part}
               /\ Cells(batch'[u]) = Cells(rest) /\ batch'[u].newer = b.newer \cap Cells(rest)
  <2> SUFFICES ASSUME ~over
               PROVE  /\ batch'[u].pc = "sent" /\ batch'[u].beats = b.beats /\ batch'[u].gen = b.gen
                      /\ batch'[u].landed = b.landed \cup {part}
                      /\ Cells(batch'[u]) = Cells(rest) /\ batch'[u].newer = b.newer \cap Cells(rest)
    OBVIOUS
  <2>1. PICK r : r = rest
    OBVIOUS
  <2>2. r \in Batch /\ r.landed = b.landed \cup {part} /\ r.beats = b.beats /\ r.pc = "sent"
          /\ r.newer = b.newer
        /\ r.gen = b.gen
    BY <1>0, <2>1 DEF Batch
  <2>3. PICK m : m = b.newer \cap Cells(r)
    OBVIOUS
  <2>4. batch'[u] = [r EXCEPT !.newer = m]
    BY <1>6, <2>1, <2>2, <2>3
  <2>5. /\ batch'[u].pc = "sent" /\ batch'[u].beats = b.beats /\ batch'[u].landed = r.landed
        /\ batch'[u].newer = m
        /\ batch'[u].gen = r.gen /\ batch'[u].old = r.old /\ batch'[u].new = r.new
    BY <2>2, <2>4 DEF Batch
  <2>6. Cells(batch'[u]) = Cells(r)
    BY <2>5, SameCells
  <2> QED
    BY <2>1, <2>2, <2>3, <2>5, <2>6
<1>9. Cells(rest) \subseteq Cells(b)
  <2>1. PICK r : r = rest
    OBVIOUS
  <2>2. r.landed = b.landed \cup {part} /\ r.old = b.old /\ r.new = b.new /\ r.gen = b.gen
    BY <1>0, <2>1 DEF Batch
  <2> QED
    BY <2>1, <2>2 DEF Cells, Deleted, Inserted
<1> HIDE DEF b, ws, rest, over, N
<1>10. \A v \in Sent' : v # u => v \in Sent
  BY <1>5 DEF Sent
<1>11. u \in Sent' => ~over
  BY <1>7 DEF Sent
<1>12. BatchStep(ws, cells, {})
  <2>1. \A v \in Writers : batch'[v].pc = "idle" => batch[v].pc = "idle"
    BY <1>5, <1>7
  <2>2. ASSUME NEW v \in Sent'
        PROVE  /\ v \in Sent
               /\ batch'[v].beats = batch[v].beats \ {} /\ batch'[v].gen = batch[v].gen
               /\ batch[v].landed \subseteq batch'[v].landed
               /\ Cells(batch'[v]) \subseteq Cells(batch[v])
               /\ batch'[v].newer = (batch[v].newer \cup (IF v \in ws THEN cells ELSE {})) \cap Cells(batch'[v])
    <3>1. CASE v = u
      BY <1>3, <1>8, <1>9, <1>11, <2>2, <3>1 DEF b
    <3>2. CASE v # u
      BY <1>5, <1>10, <2>2, <3>2 DEF Sent
    <3> QED
      BY <3>1, <3>2
  <2>3. ws \subseteq Writers /\ \A v \in Sent \cap ws : Pins(v, u)
    BY DEF ws, b, Pins
  <2> QED
    BY <1>4, <2>1, <2>2, <2>3 DEF BatchStep
<1>13. ~NoBatchLands
  <2>1. ~over => batch'[u].landed # b.landed
    BY <1>8 DEF b
  <2>2. over => batch'[u].pc # b.pc
    BY <1>0, <1>7
  <2> QED
    BY <1>0, <2>1, <2>2 DEF NoBatchLands, b
<1> QED
  BY <1>7, <1>8, <1>12, <1>13 DEF ws, b, over

LEMMA OccWriteBatch ==
    ASSUME TypeOK, Newer, NEW w \in Writers, NEW img, OccWrite(w, img)
    PROVE  BatchStep(Writers, {Item, Index}, {})
<1>1. batch' = [Outdate(Writers, {Item, Index}) EXCEPT ![w] = [Resting EXCEPT !.pc = "done"]]
  BY DEF OccWrite
<1>2. \A g \in Gens, e \in Expiries : Work(g, e) \notin {Item, Index}
  BY CellNames
<1>3. Sent \subseteq Writers
  BY DEF Sent
<1> QED
  BY <1>1, <1>2, <1>3, BatchOver

LEMMA LoseBatch ==
    ASSUME TypeOK, Newer, NEW w \in Writers, Lose(w)
    PROVE  BatchStep({}, {}, {})
<1>1. Outdate({}, {}) = batch
  BY TypeParts DEF Outdate
<1>2. batch' = [Outdate({}, {}) EXCEPT ![w] = [Resting EXCEPT !.pc = "done"]]
  BY <1>1 DEF Lose
<1> QED
  BY <1>2, BatchOver

LEMMA LandBaseBatch ==
    ASSUME TypeOK, Order, Newer, NEW w \in Writers, LandBase(w)
    PROVE  /\ w \in Sent /\ ~NoBatchLands
           /\ BatchStep(batch[w].beats \cap Writers, {Item, Owner} \ batch[w].newer, {})
<1>1. w \in Sent /\ "base" \notin batch[w].landed
  BY DEF LandBase, Sent
<1>2. batch' = Landed(w, "base", {Item, Owner} \ batch[w].newer)
  BY DEF LandBase
<1>3. \A g \in Gens, e \in Expiries : Work(g, e) \notin {Item, Owner} \ batch[w].newer
  BY CellNames
<1> QED
  BY <1>1, <1>2, <1>3, BatchLands

RestCells(b) == Cells([b EXCEPT !.landed = {"base"}]) \ b.newer

LEMMA LandRestBatch ==
    ASSUME TypeOK, Order, Newer, NEW w \in Writers, LandRest(w)
    PROVE  /\ w \in Sent /\ ~NoBatchLands /\ "rest" \notin batch[w].landed
           /\ BatchStep(batch[w].beats \cap Writers, RestCells(batch[w]), {})
           /\ batch'[w].pc = "sent" => "rest" \in batch'[w].landed
           /\ Index \notin batch[w].newer => Index \in RestCells(batch[w])
<1>1. w \in Sent /\ "rest" \notin batch[w].landed /\ batch[w] \in Batch
  BY TypeParts DEF LandRest, Sent
<1>2. batch' = Landed(w, "rest", RestCells(batch[w]))
  BY DEF LandRest, RestCells
<1> DEFINE c == [batch[w] EXCEPT !.landed = {"base"}]
<1>3. c.landed = {"base"}
  BY <1>1 DEF Batch
<1>4. Index \in Cells(c)
  <2> HIDE DEF c
  <2> QED
    BY <1>3, CellNames
<1>5. ASSUME NEW v \in Sent, Pins(v, w), NEW g \in Gens, NEW e \in Expiries,
             Work(g, e) \in RestCells(batch[w]) \cap Cells(batch[v])
      PROVE  State(g, e) \in RestCells(batch[w]) \cup batch[v].newer
  <2>1. Work(g, e) \in Cells(c)
    BY <1>5 DEF RestCells
  <2>2. State(g, e) \in Cells(c) /\ State(g, e) \in Cells(batch[v])
    <3> HIDE DEF c
    <3> QED
      BY <1>5, <2>1, CellNames
  <2>3. CASE State(g, e) \in batch[w].newer
    BY <1>1, <1>5, <2>2, <2>3 DEF Newer
  <2>4. CASE State(g, e) \notin batch[w].newer
    BY <2>2, <2>4 DEF RestCells
  <2> QED
    BY <2>3, <2>4
<1>6. Index \notin batch[w].newer => Index \in RestCells(batch[w])
  BY <1>4 DEF RestCells
<1> HIDE DEF c
<1> QED
  BY <1>1, <1>2, <1>5, <1>6, BatchLands

LEMMA EffectsBatch ==
    ASSUME TypeOK, Order, Newer, NEW k \in Works, Effects(k), k \notin idxNewer
    PROVE  BatchStep({w \in Writers : k \notin batch[w].beats}, {Index}, {})
<1> DEFINE ws == {w \in Writers : k \notin batch[w].beats}
<1>1. batch' = Outdate(ws, {Index})
  BY DEF Effects
<1>2. \A v, w \in Sent : w \in ws /\ Pins(v, w) => v \in ws
  BY DEF Order, Sent
<1>3. \A g \in Gens, e \in Expiries : Work(g, e) \notin {Index}
  BY CellNames
<1>4. ws \in SUBSET Writers
  OBVIOUS
<1> HIDE DEF ws
<1>5. BatchStep(ws, {Index}, {})
  BY <1>1, <1>2, <1>3, <1>4, BatchOutdate
<1> QED
  BY <1>5 DEF ws

LEMMA PinAnew ==
    ASSUME TypeOK, Newer, NEW k \in Works,
           batch' = [w \in Writers |-> [batch[w] EXCEPT !.beats = @ \ {k}]]
    PROVE  BatchStep({}, {}, {k})
<1>1. ASSUME NEW v \in Writers
      PROVE  /\ batch'[v].pc = batch[v].pc /\ batch'[v].beats = batch[v].beats \ {k}
             /\ batch'[v].landed = batch[v].landed /\ Cells(batch'[v]) = Cells(batch[v])
             /\ batch'[v].newer = batch[v].newer /\ batch'[v].gen = batch[v].gen
  <2>1. batch[v] \in Batch
    BY TypeParts
  <2>2. PICK m : m = batch[v].beats \ {k}
    OBVIOUS
  <2>3. batch'[v] = [batch[v] EXCEPT !.beats = m]
    BY <2>2
  <2>4. /\ batch'[v].pc = batch[v].pc /\ batch'[v].beats = m /\ batch'[v].landed = batch[v].landed
        /\ batch'[v].newer = batch[v].newer /\ batch'[v].gen = batch[v].gen
        /\ batch'[v].old = batch[v].old /\ batch'[v].new = batch[v].new
    BY <2>1, <2>3 DEF Batch
  <2> QED
    BY <2>2, <2>4, SameCells
<1> QED
  BY <1>1 DEF BatchStep, Newer, Sent

LEMMA SetRowBatch ==
    ASSUME TypeOK, Newer, NEW r, NEW q, SetRow(r, q)
    PROVE  \E cells : BatchStep(Writers, cells, {})
<1> DEFINE cells == {State(r.gen, r.exp)} \cup IF q.work = Q(r).work THEN {} ELSE {Work(r.gen, r.exp)}
<1>1. Now(cells)
  BY DEF SetRow
<1>2. \A g \in Gens, e \in Expiries : Work(g, e) \in cells => State(g, e) \in cells
  <2>1. \A g \in Gens, e \in Expiries : Work(g, e) # State(r.gen, r.exp)
    BY DEF Work, State
  <2>2. \A g \in Gens, e \in Expiries : Work(g, e) = Work(r.gen, r.exp) => g = r.gen /\ e = r.exp
    BY DEF Work
  <2> QED
    BY <2>1, <2>2
<1> HIDE DEF cells
<1>3. BatchStep(Writers, cells, {})
  BY <1>1, <1>2, BatchNow
<1> QED
  BY <1>3

LEMMA BaseBatch ==
    ASSUME TypeOK, Newer, NEW cells \in SUBSET {Item, Owner, Index}, Now(cells)
    PROVE  BatchStep(Writers, cells, {})
<1>1. \A g \in Gens, e \in Expiries : Work(g, e) \notin cells
  BY CellNames
<1> QED
  BY <1>1, BatchNow

-----------------------------------------------------------------------------
(* The order of the pins, and what is newer than they are.                  *)

LEMMA OrderKept ==
    ASSUME TypeOK, Order, Newer, NEW ws, NEW cells, NEW ks, BatchStep(ws, cells, ks)
    PROVE  Order' /\ Newer'
<1>1. \A v \in Sent' : v \in Sent /\ batch'[v].beats = batch[v].beats \ ks
  BY DEF BatchStep
<1>2. ks \subseteq Works /\ Sent \subseteq Writers /\ Sent' \subseteq Writers /\ Writers \cap Works = {}
  BY Values DEF BatchStep, Sent
<1>3. \A v \in Writers, w \in Sent' : Pins(v, w)' <=> Pins(v, w)
  BY <1>1, <1>2 DEF Pins
<1>4. Order'
  <2>1. \A w \in Writers : batch'[w].pc = "idle" => \A v \in Sent' : ~Pins(w, v)'
    BY <1>1, <1>3 DEF Order, BatchStep
  <2>2. \A w \in Sent' : ~Pins(w, w)'
    BY <1>1, <1>2, <1>3 DEF Order
  <2>3. \A v, w \in Sent' : v # w => Pins(v, w)' \/ Pins(w, v)'
    BY <1>1, <1>2, <1>3 DEF Order
  <2>4. \A u, v, w \in Sent' : Pins(u, v)' /\ Pins(v, w)' => Pins(u, w)'
    BY <1>1, <1>2, <1>3 DEF Order
  <2>5. \A v, w \in Sent' : Pins(v, w)' => batch'[v].beats \cap Works \subseteq batch'[w].beats
    BY <1>1, <1>2, <1>3 DEF Order
  <2> QED
    BY <2>1, <2>2, <2>3, <2>4, <2>5 DEF Order
<1> DEFINE Add(v) == IF v \in ws THEN cells ELSE {}
<1>5. \A v \in Sent' : /\ batch'[v].newer = (batch[v].newer \cup Add(v)) \cap Cells(batch'[v])
                       /\ Cells(batch'[v]) \subseteq Cells(batch[v])
  BY DEF BatchStep
<1>6. ASSUME NEW w \in Sent', NEW g \in Gens, NEW e \in Expiries, Work(g, e) \in batch'[w].newer
      PROVE  State(g, e) \in batch'[w].newer
  <2>1. Work(g, e) \in Cells(batch'[w])
    BY <1>5, <1>6
  <2>2. State(g, e) \in Cells(batch'[w])
    BY <2>1, CellNames
  <2>3. CASE Work(g, e) \in batch[w].newer
    BY <1>1, <1>5, <2>2, <2>3 DEF Newer
  <2>4. CASE Work(g, e) \in Add(w)
    <3>1. w \in Sent \cap ws /\ Work(g, e) \in cells \cap Cells(batch[w])
      BY <1>1, <1>5, <2>1, <2>4
    <3>2. State(g, e) \in cells \cup batch[w].newer
      BY <3>1 DEF BatchStep
    <3> QED
      BY <1>5, <2>2, <3>1, <3>2
  <2> QED
    BY <1>5, <1>6, <2>3, <2>4
<1>7. ASSUME NEW v \in Sent', NEW w \in Sent', Pins(v, w)', NEW c \in batch'[w].newer \cap Cells(batch'[v])
      PROVE  c \in batch'[v].newer
  <2>1. v \in Sent /\ w \in Sent /\ Pins(v, w) /\ c \in Cells(batch[v])
    BY <1>1, <1>2, <1>3, <1>5, <1>7
  <2>2. CASE c \in batch[w].newer
    BY <1>5, <1>7, <2>1, <2>2 DEF Newer
  <2>3. CASE c \in Add(w)
    <3>1. v \in ws
      BY <2>1, <2>3 DEF BatchStep
    <3> QED
      BY <1>5, <1>7, <2>3, <3>1
  <2> QED
    BY <1>5, <1>7, <2>2, <2>3
<1>8. \A v \in Sent' : batch'[v].newer \subseteq Cells(batch'[v]) /\ batch'[v].gen \in Gens
  BY <1>5 DEF BatchStep, Newer
<1> QED
  BY <1>4, <1>6, <1>7, <1>8 DEF Newer

LEMMA SendFields ==
    ASSUME TypeOK, Newer, NEW u \in Writers, NEW img, NEW g \in Gens, ClaimAndSend(u, img, g)
    PROVE  /\ u \notin Sent /\ batch[u].pc = "idle" /\ Sent' = Sent \cup {u}
           /\ batch'[u].pc = "sent" /\ batch'[u].beats = Sent \cup Works
           /\ batch'[u].newer = {} /\ batch'[u].landed = {} /\ batch'[u].gen = g /\ g \in Gens
           /\ \A v \in Writers \ {u} :
                 /\ batch'[v].pc = batch[v].pc /\ batch'[v].beats = batch[v].beats
                 /\ batch'[v].landed = batch[v].landed /\ Cells(batch'[v]) = Cells(batch[v])
                 /\ batch'[v].gen = batch[v].gen
                 /\ v \in Sent => batch'[v].newer = batch[v].newer \cup ({Owner} \cap Cells(batch[v]))
<1> DEFINE N == [pc |-> "sent", old |-> item, new |-> img, gen |-> g, landed |-> {}, newer |-> {},
                 beats |-> Sent \cup Works]
<1>0. DOMAIN Outdate(Writers, {Owner}) = Writers
  BY DEF Outdate
<1>1. batch' = [Outdate(Writers, {Owner}) EXCEPT ![u] = N]
  BY DEF ClaimAndSend, Sent
<1>2. batch'[u] = N
  BY <1>0, <1>1
<1>3. /\ batch'[u].pc = "sent" /\ batch'[u].beats = Sent \cup Works
      /\ batch'[u].newer = {} /\ batch'[u].landed = {} /\ batch'[u].gen = g
  BY <1>2
<1>4. ASSUME NEW v \in Writers \ {u}
      PROVE  /\ batch'[v].pc = batch[v].pc /\ batch'[v].beats = batch[v].beats
             /\ batch'[v].landed = batch[v].landed /\ Cells(batch'[v]) = Cells(batch[v])
             /\ batch'[v].gen = batch[v].gen
             /\ v \in Sent => batch'[v].newer = batch[v].newer \cup ({Owner} \cap Cells(batch[v]))
  <2>1. batch'[v] = Outdate(Writers, {Owner})[v]
    BY <1>0, <1>1, <1>4
  <2>2. PICK c : c = batch'[v]
    OBVIOUS
  <2>3. /\ c.pc = batch[v].pc /\ c.beats = batch[v].beats
        /\ c.landed = batch[v].landed /\ Cells(c) = Cells(batch[v]) /\ c.gen = batch[v].gen
        /\ v \in Sent => c.newer = (batch[v].newer \cup {Owner}) \cap Cells(batch[v])
    <3>1. c = Outdate(Writers, {Owner})[v]
      BY <2>1, <2>2
    <3> QED
      BY <3>1, OutdateFields
  <2>4. v \in Sent => batch[v].newer \subseteq Cells(batch[v])
    BY DEF Newer
  <2> QED
    BY <2>2, <2>3, <2>4
<1>5. batch[u].pc = "idle" /\ u \notin Sent
  BY DEF ClaimAndSend, Sent
<1> HIDE DEF N
<1>6. Sent' = Sent \cup {u}
  BY <1>3, <1>4 DEF Sent
<1> QED
  BY <1>3, <1>4, <1>5, <1>6

LEMMA OrderSend ==
    ASSUME TypeOK, Order, Newer, NEW u \in Writers, NEW img, NEW g \in Gens, ClaimAndSend(u, img, g)
    PROVE  Order' /\ Newer'
<1>1. /\ u \notin Sent /\ batch[u].pc = "idle" /\ Sent' = Sent \cup {u}
      /\ batch'[u].pc = "sent" /\ batch'[u].beats = Sent \cup Works
      /\ batch'[u].newer = {} /\ batch'[u].gen \in Gens
      /\ \A v \in Writers \ {u} :
            /\ batch'[v].pc = batch[v].pc /\ batch'[v].beats = batch[v].beats
            /\ Cells(batch'[v]) = Cells(batch[v]) /\ batch'[v].gen = batch[v].gen
            /\ v \in Sent => batch'[v].newer = batch[v].newer \cup ({Owner} \cap Cells(batch[v]))
  BY SendFields
<1>2. Sent \subseteq Writers /\ Writers \cap Works = {}
  BY Values DEF Sent
<1>3. \A v \in Writers, w \in Sent : Pins(v, w)' <=> Pins(v, w)
  BY <1>1, <1>2 DEF Pins
<1>4. \A v \in Writers : Pins(v, u)' <=> v \in Sent
  BY <1>1, <1>2 DEF Pins
<1>5. \A w \in Sent : ~Pins(u, w)'
  BY <1>1, <1>2, <1>3 DEF Order
<1>6. Order'
  <2>1. \A w \in Writers : batch'[w].pc = "idle" => \A v \in Sent' : ~Pins(w, v)'
    <3>1. \A w \in Writers : batch'[w].pc = "idle" => w # u /\ batch[w].pc = "idle" /\ w \notin Sent
      BY <1>1 DEF Sent
    <3> QED
      BY <1>1, <1>3, <1>4, <3>1 DEF Order
  <2>2. \A w \in Sent' : ~Pins(w, w)'
    BY <1>1, <1>2, <1>3, <1>4 DEF Order
  <2>3. \A v, w \in Sent' : v # w => Pins(v, w)' \/ Pins(w, v)'
    BY <1>1, <1>2, <1>3, <1>4 DEF Order
  <2>4. \A x, v, w \in Sent' : Pins(x, v)' /\ Pins(v, w)' => Pins(x, w)'
    BY <1>1, <1>2, <1>3, <1>4, <1>5 DEF Order
  <2>5. \A v, w \in Sent' : Pins(v, w)' => batch'[v].beats \cap Works \subseteq batch'[w].beats
    BY <1>1, <1>2, <1>3, <1>4, <1>5 DEF Order
  <2> QED
    BY <2>1, <2>2, <2>3, <2>4, <2>5 DEF Order
<1>7. ASSUME NEW w \in Sent', NEW x \in Gens, NEW e \in Expiries, Work(x, e) \in batch'[w].newer
      PROVE  State(x, e) \in batch'[w].newer
  BY <1>1, <1>2, <1>7, CellNames DEF Newer
<1>8. ASSUME NEW v \in Sent', NEW w \in Sent', Pins(v, w)', NEW c \in batch'[w].newer \cap Cells(batch'[v])
      PROVE  c \in batch'[v].newer
  <2>1. w \in Sent /\ v \in Sent /\ Pins(v, w)
    BY <1>1, <1>2, <1>3, <1>5, <1>8
  <2> QED
    BY <1>1, <1>2, <1>8, <2>1 DEF Newer
<1>9. \A v \in Sent' : batch'[v].newer \subseteq Cells(batch'[v]) /\ batch'[v].gen \in Gens
  BY <1>1, <1>2 DEF Newer
<1> QED
  BY <1>6, <1>7, <1>8, <1>9 DEF Newer

-----------------------------------------------------------------------------
(* What a step makes of the batches, the queue and the owner of the base    *)
(* row.                                                                     *)

Sends == \E w \in Writers, img \in Images0, g \in Gens : ClaimAndSend(w, img, g)
BatchEffect ==
    \/ /\ idx' = idx /\ idxNewer' = idxNewer
       /\ Sends \/ \E ws, cells : BatchStep(ws, cells, {})
    \/ idxNewer' = Works /\ \E cells : Index \in cells /\ BatchStep(Writers, cells, {})
    \/ \E w \in Writers : /\ LandRest(w) /\ Index \notin batch[w].newer
                          /\ BatchStep(batch[w].beats \cap Writers, RestCells(batch[w]), {})
    \/ \E k \in FreeWorks : idx' = idx /\ idxNewer' = idxNewer \ {k} /\ BatchStep({}, {}, {k})
    \/ \E k \in Works : /\ idx' = None /\ idxNewer' = idxNewer
                        /\ BatchStep({w \in Writers : k \notin batch[w].beats}, {Index}, {})

LEMMA BatchMove == ASSUME TypeOK, Order, Newer, Places, Next PROVE BatchEffect
<1> DEFINE Ok == BatchEffect
<1> SUFFICES Ok
  OBVIOUS
<1> HIDE DEF Ok
<1>b. \A ws, cells : BatchStep(ws, cells, {}) /\ idx' = idx /\ idxNewer' = idxNewer => Ok
  BY DEF Ok, BatchEffect
<1>u. batch' = batch /\ UNCHANGED index => Ok
  BY <1>b, BatchSame DEF index
<1>s. \A r, q : SetRow(r, q) /\ UNCHANGED index => Ok
  <2> SUFFICES ASSUME NEW r, NEW q, SetRow(r, q), UNCHANGED index PROVE Ok
    OBVIOUS
  <2>1. PICK cells : BatchStep(Writers, cells, {})
    BY SetRowBatch
  <2> QED
    BY <2>1, <1>b DEF index
<1>n. \A cells \in SUBSET {Item, Owner, Index} : Now(cells) /\ UNCHANGED index => Ok
  <2> SUFFICES ASSUME NEW cells \in SUBSET {Item, Owner, Index}, Now(cells), UNCHANGED index
               PROVE  Ok
    OBVIOUS
  <2>1. BatchStep(Writers, cells, {})
    BY BaseBatch
  <2> QED
    BY <2>1, <1>b DEF index
<1>w. \A cells : Index \in cells /\ BatchStep(Writers, cells, {}) /\ idxNewer' = Works => Ok
  BY DEF Ok, BatchEffect
<1>e. \A k \in Works : Effects(k) /\ idxNewer' = idxNewer => Ok
  <2> SUFFICES ASSUME NEW k \in Works, Effects(k), idxNewer' = idxNewer PROVE Ok
    OBVIOUS
  <2>1. CASE k \in idxNewer
    BY <1>b, <2>1, BatchSame DEF Effects
  <2>2. CASE k \notin idxNewer
    <3>1. BatchStep({w \in Writers : k \notin batch[w].beats}, {Index}, {})
      BY <2>2, EffectsBatch
    <3>2. idx' = None
      BY <2>2 DEF Effects
    <3> QED
      BY <3>1, <3>2 DEF Ok, BatchEffect
  <2> QED
    BY <2>1, <2>2
<1>1. ASSUME NEW w \in Writers, NEW img \in Images0, NEW g \in Gens, ClaimAndSend(w, img,
             g)
      PROVE  Ok
  <2>1. Sends /\ idx' = idx /\ idxNewer' = idxNewer
    BY <1>1 DEF Sends, ClaimAndSend, index
  <2> QED
    BY <2>1 DEF Ok, BatchEffect
<1>2. ASSUME NEW w \in Writers, NEW img \in Images, OccWrite(w, img) PROVE Ok
  <2>1. BatchStep(Writers, {Item, Index}, {})
    BY <1>2, OccWriteBatch
  <2>2. idxNewer' = Works
    BY <1>2 DEF OccWrite
  <2> QED
    BY <1>w, <2>1, <2>2
<1>3. ASSUME NEW w \in Writers, LandBase(w) PROVE Ok
  <2>1. BatchStep(batch[w].beats \cap Writers, {Item, Owner} \ batch[w].newer, {})
    BY <1>3, LandBaseBatch
  <2>2. idx' = idx /\ idxNewer' = idxNewer
    BY <1>3 DEF LandBase, index
  <2> QED
    BY <1>b, <2>1, <2>2
<1>4. ASSUME NEW w \in Writers, LandRest(w) PROVE Ok
  <2>1. BatchStep(batch[w].beats \cap Writers, RestCells(batch[w]), {})
    BY <1>4, LandRestBatch
  <2>2. CASE Index \in batch[w].newer
    <3>1. idx' = idx /\ idxNewer' = idxNewer
      BY <1>4, <2>2 DEF LandRest
    <3> QED
      BY <1>b, <2>1, <3>1
  <2>3. CASE Index \notin batch[w].newer
    BY <1>4, <2>1, <2>3 DEF Ok, BatchEffect
  <2> QED
    BY <2>2, <2>3
<1>5. ASSUME NEW w \in Writers, GiveUp(w) PROVE Ok
  BY <1>5, <1>u, <1>n DEF GiveUp
<1>6. ASSUME NEW w \in Writers, Lose(w) PROVE Ok
  <2>1. BatchStep({}, {}, {})
    BY <1>6, LoseBatch
  <2>2. idx' = idx /\ idxNewer' = idxNewer
    BY <1>6 DEF Lose, index
  <2> QED
    BY <1>b, <2>1, <2>2
<1>7. ASSUME NEW s \in Hosts, NEW e \in Expiries, Load(s, e) PROVE Ok
  BY <1>u, <1>7 DEF Load, Local
<1>8. ASSUME NEW s \in Hosts, NEW e \in Expiries, DrainLoad(s, e) PROVE Ok
  BY <1>u, <1>8 DEF DrainLoad, Local
<1>9. ASSUME NEW s \in Hosts, CheckItem(s) \/ Gate(s) \/ CheckOwner(s) \/ FinalRead(s) \/
             ReadSurvivor(s) \/ RecordRepair(s) \/ Handoff(s) \/ Unmark(s) \/ Reread(s) \/
             Crash(s) \/ DestroyUnknown(s)
      PROVE  Ok
  BY <1>u, <1>9 DEF CheckItem, Gate, CheckOwner, FinalRead, ReadSurvivor, RecordRepair, Handoff,
     Unmark, Reread, Crash, DestroyUnknown, Local
<1>10. ASSUME NEW s \in Hosts, ReadItem(s) PROVE Ok
  <2>1. ASSUME UNCHANGED <<idx, idxNewer, batch>> PROVE Ok
    BY <1>b, <2>1, BatchSame
  <2>2. ASSUME NEW k \in FreeWorks, idx' = idx, idxNewer' = idxNewer \ {k},
               batch' = [w \in Writers |-> [batch[w] EXCEPT !.beats = @ \ {k}]]
        PROVE  Ok
    <3>1. k \in Works
      BY DEF FreeWorks
    <3>2. BatchStep({}, {}, {k})
      BY <2>2, <3>1, PinAnew
    <3> QED
      BY <2>2, <3>2 DEF Ok, BatchEffect
  <2> QED
    BY <1>10, <2>1, <2>2 DEF ReadItem
<1>11. ASSUME NEW s \in Hosts, ClaimWork(s) PROVE Ok
  BY <1>11, <1>u, <1>s DEF ClaimWork
<1>12. ASSUME NEW s \in Hosts, AbortWork(s) PROVE Ok
  BY <1>12, <1>u, <1>s DEF AbortWork
<1>13. ASSUME NEW s \in Hosts, OwnBase(s) PROVE Ok
  BY <1>13, <1>u, <1>n DEF OwnBase
<1>14. ASSUME NEW s \in Hosts, Seal(s) PROVE Ok
  BY <1>14, <1>u, <1>n DEF Seal
<1>15. ASSUME NEW s \in Hosts, MarkApplying(s) PROVE Ok
  BY <1>15, <1>u, <1>s DEF MarkApplying
<1>16. ASSUME NEW s \in Hosts, ApplyEffects(s) PROVE Ok
  <2>1. row[s].work.id \in Works
    BY <1>16, TypeParts, WorkIds DEF ApplyEffects, Places, Place, Host
  <2> QED
    BY <1>16, <1>e, <2>1 DEF ApplyEffects
<1>17. ASSUME NEW s \in Hosts, MarkApplied(s) PROVE Ok
  BY <1>17, <1>u, <1>s DEF MarkApplied
<1>18. ASSUME NEW s \in Hosts, DeleteBase(s) PROVE Ok
  BY <1>18, <1>u, <1>n DEF DeleteBase
<1>19. ASSUME NEW s \in Hosts, RestoreIndex(s) PROVE Ok
  <2>1. BatchStep(Writers, {Index}, {})
    BY <1>19, BaseBatch DEF RestoreIndex
  <2>2. idxNewer' = Works
    BY <1>19 DEF RestoreIndex
  <2> QED
    BY <1>w, <2>1, <2>2
<1>20. ASSUME NEW s \in Hosts, ReleaseBase(s) PROVE Ok
  BY <1>20, <1>u, <1>n DEF ReleaseBase
<1>21. ASSUME NEW s \in Hosts, Destroy(s) PROVE Ok
  BY <1>21, <1>u, <1>s DEF Destroy
<1>22. ASSUME NEW s \in Hosts, InsertSeen(s) PROVE Ok
  BY <1>22, <1>u, <1>s DEF InsertSeen, Insert
<1>23. ASSUME NEW s \in Hosts, EffectsUnknown(s) PROVE Ok
  <2>1. idx' = idx /\ idxNewer' = idxNewer /\ batch' = batch
    BY <1>23 DEF EffectsUnknown
  <2> QED
    BY <1>b, <2>1, BatchSame
<1>24. ASSUME NEW k \in Works, Replay(k) PROVE Ok
  BY <1>24, <1>e DEF Replay
<1>25. ASSUME NEW d \in ghosts, LateDestroy(d) PROVE Ok
  BY <1>25, <1>u, <1>s DEF LateDestroy
<1>26. ASSUME NEW e \in Expiries, ClearRow(e) PROVE Ok
  BY <1>26, <1>u, <1>s DEF ClearRow
<1>27. CASE ExpireClaim \/ TakeOutboxRow \/ TakeMarker \/ AuditItem \/ BackfillItem \/
           PassCrash \/ Enable \/ Disable \/ FinishCleanup
  BY <1>u, <1>27 DEF ExpireClaim, TakeOutboxRow, TakeMarker, AuditItem, BackfillItem, PassCrash,
     Enable, Disable, FinishCleanup, ReadForPass, Local
<1>28. CASE Discharge
  BY <1>28, <1>u, <1>s DEF Discharge, RegisterSeen, Insert
<1>29. CASE RetireMarkers
  BY <1>29, <1>u, <1>s DEF RetireMarkers, RegisterSeen, Insert
<1>30. CASE AuditDone
  BY <1>30, <1>u, <1>s DEF AuditDone, RegisterSeen, Insert
<1>31. CASE BackfillDone
  BY <1>31, <1>u, <1>s DEF BackfillDone, RegisterSeen, Insert
<1> QED
  BY HostNames, ReplayWorks, <1>1, <1>2, <1>3, <1>4, <1>5, <1>6, <1>7, <1>8, <1>9, <1>10, <1>11,
     <1>12, <1>13, <1>14, <1>15, <1>16, <1>17, <1>18, <1>19, <1>20, <1>21, <1>22, <1>23, <1>24,
     <1>25, <1>26, <1>27, <1>28, <1>29, <1>30, <1>31 DEF Next, Write, Land, RowStep

LEMMA AnyBatch ==
    ASSUME BatchEffect
    PROVE  Sends \/ \E ws, cells, ks : BatchStep(ws, cells, ks) /\ ks \subseteq FreeWorks
<1> DEFINE Steps == \E ws, cells, ks : BatchStep(ws, cells, ks) /\ ks \subseteq FreeWorks
<1>1. ASSUME NEW ws, NEW cells, BatchStep(ws, cells, {}) PROVE Steps
  <2>1. {} \subseteq FreeWorks
    OBVIOUS
  <2> QED
    BY <1>1, <2>1
<1>2. ASSUME NEW k \in FreeWorks, BatchStep({}, {}, {k}) PROVE Steps
  <2>1. {k} \subseteq FreeWorks
    OBVIOUS
  <2> QED
    BY <1>2, <2>1
<1> HIDE DEF Steps
<1>3. Sends \/ Steps
  BY <1>1, <1>2 DEF BatchEffect
<1> QED
  BY <1>3 DEF Steps

LEMMA PinsKept == ASSUME TypeOK, Order, Newer, Places, Next PROVE Order' /\ Newer'
<1>1. ASSUME NEW ws, NEW cells, NEW ks, BatchStep(ws, cells, ks) PROVE Order' /\ Newer'
  BY <1>1, OrderKept
<1>2. CASE Sends
  BY <1>2, OrderSend DEF Sends
<1> QED
  BY <1>1, <1>2, BatchMove, AnyBatch

Kept(g, e) == queue'[g][e] = queue[g][e] \/ queue'[g][e].work = NoWork
Sets(r, q) ==
    \A g \in Gens, e \in Expiries : queue'[g][e] = IF g = r.gen /\ e = r.exp THEN q ELSE queue[g][e]
Claiming(s) ==
    /\ row[s].pc = "claim" /\ Sets(row[s], [st |-> "CLAIMED", work |-> row[s].work])
    /\ UNCHANGED <<base, index>> /\ row' = [row EXCEPT ![s].pc = "check", ![s].st = "CLAIMED"]
Moving(s, new) ==
    \/ new = "ABORTING" /\ row[s].pc = "abort" /\ Is(row[s], "CLAIMED")
    \/ new = "APPLYING" /\ row[s].pc = "apply" /\ Is(row[s], "CLAIMED")
    \/ new = "APPLIED" /\ row[s].pc = "mark" /\ Is(row[s], "APPLYING")
Moves(s, new) ==
    /\ Moving(s, new) /\ Sets(row[s], [Q(row[s]) EXCEPT !.st = new]) /\ UNCHANGED <<base, index>>
    /\ \E p \in {"release", "owned", "final"} : row' = [row EXCEPT ![s].pc = p, ![s].st = new]
QueueEffect ==
    \/ \A g \in Gens, e \in Expiries : Kept(g, e)
    \/ \E s \in Hosts : Claiming(s)
    \/ \E s \in Hosts, new \in {"ABORTING", "APPLYING", "APPLIED"} : Moves(s, new)

LEMMA RowSet == ASSUME TypeOK, NEW r, NEW q, SetRow(r, q) PROVE Sets(r, q)
BY TypeParts DEF SetRow, Sets, Queue

LEMMA RowEmptied ==
    ASSUME TypeOK, NEW r, NEW q, SetRow(r, q), q.work = NoWork
    PROVE  \A g \in Gens, e \in Expiries : Kept(g, e)
BY RowSet DEF Sets, Kept

LEMMA QueueMove == ASSUME TypeOK, Newer, Next PROVE QueueEffect
<1> DEFINE Ok == QueueEffect
<1> SUFFICES Ok
  OBVIOUS
<1> HIDE DEF Ok
<1>u. queue' = queue => Ok
  BY DEF Ok, QueueEffect, Kept
<1>n. Empty.work = NoWork /\ [Empty EXCEPT !.st = "PENDING"].work = NoWork
  BY DEF Empty
<1>e. \A r, q : SetRow(r, q) /\ q.work = NoWork => Ok
  BY RowEmptied DEF Ok, QueueEffect
<1>1. ASSUME NEW w \in Writers, NEW img \in Images0, NEW g \in Gens, ClaimAndSend(w, img,
             g)
      PROVE  Ok
  BY <1>u, <1>1 DEF ClaimAndSend, Local
<1>2. ASSUME NEW w \in Writers, NEW img \in Images, OccWrite(w, img) PROVE Ok
  BY <1>u, <1>2 DEF OccWrite, Local
<1>3. ASSUME NEW w \in Writers, LandBase(w) \/ GiveUp(w) \/ Lose(w) PROVE Ok
  BY <1>u, <1>3 DEF LandBase, GiveUp, Lose, Local
<1>4. ASSUME NEW w \in Writers, LandRest(w) PROVE Ok
  <2>1. w \in Sent
    BY <1>4 DEF LandRest, Sent
  <2>2. ASSUME NEW g \in Gens, NEW e \in Expiries PROVE Kept(g, e)
    <3>1. CASE g = batch[w].gen /\ e \in Deleted(batch[w]) \cup Inserted(batch[w])
      <4>1. queue'[g][e] = Overwrite(batch[w], e, queue[g][e])
        BY <1>4, <3>1, TypeParts DEF LandRest, Queue
      <4>2. Work(g, e) \in batch[w].newer => State(g, e) \in batch[w].newer
        BY <2>1 DEF Newer
      <4>3. queue[g][e] \in Row
        BY TypeParts
      <4> QED
        BY <3>1, <4>1, <4>2, <4>3 DEF Overwrite, Kept, Row
    <3>2. CASE ~(g = batch[w].gen /\ e \in Deleted(batch[w]) \cup Inserted(batch[w]))
      BY <1>4, <3>2, TypeParts DEF LandRest, Queue, Kept
    <3> QED
      BY <3>1, <3>2
  <2> QED
    BY <2>2 DEF Ok, QueueEffect
<1>5. ASSUME NEW s \in Hosts, NEW e \in Expiries, Load(s, e) PROVE Ok
  BY <1>u, <1>5 DEF Load, Local
<1>6. ASSUME NEW s \in Hosts, NEW e \in Expiries, DrainLoad(s, e) PROVE Ok
  BY <1>u, <1>6 DEF DrainLoad, Local
<1>7. ASSUME NEW s \in Hosts, ReadItem(s) \/ CheckItem(s) \/ OwnBase(s) \/ Gate(s) \/
             Seal(s) \/ CheckOwner(s) \/ ApplyEffects(s) \/ FinalRead(s) \/ DeleteBase(s) \/
             ReadSurvivor(s) \/ RestoreIndex(s) \/ ReleaseBase(s) \/ RecordRepair(s) \/ Handoff(s)
             \/ Unmark(s) \/ Reread(s) \/ Crash(s) \/ EffectsUnknown(s) \/ DestroyUnknown(s)
      PROVE  Ok
  BY <1>u, <1>7 DEF ReadItem, CheckItem, OwnBase, Gate, Seal, CheckOwner, ApplyEffects, FinalRead,
     DeleteBase, ReadSurvivor, RestoreIndex, ReleaseBase, RecordRepair, Handoff, Unmark, Reread,
     Crash, EffectsUnknown, DestroyUnknown, Local
<1>8. ASSUME NEW s \in Hosts, ClaimWork(s) PROVE Ok
  <2>1. CASE Q(row[s]).st = "PENDING"
    <3>1. Sets(row[s], [st |-> "CLAIMED", work |-> row[s].work])
      BY <1>8, <2>1, RowSet DEF ClaimWork
    <3> QED
      BY <1>8, <2>1, <3>1 DEF ClaimWork, Ok, QueueEffect, Claiming
  <2>2. CASE Q(row[s]).st # "PENDING"
    BY <1>8, <1>u, <2>2 DEF ClaimWork
  <2> QED
    BY <2>1, <2>2
<1>9. ASSUME NEW s \in Hosts, AbortWork(s) PROVE Ok
  <2>1. CASE Is(row[s], "CLAIMED")
    <3>1. Sets(row[s], [Q(row[s]) EXCEPT !.st = "ABORTING"])
      BY <1>9, <2>1, RowSet DEF AbortWork
    <3>2. row' = [row EXCEPT ![s].pc = "release", ![s].st = "ABORTING"] /\ Moving(s, "ABORTING")
            /\ UNCHANGED <<base, index>>
      BY <1>9, <2>1 DEF AbortWork, Moving
    <3>4. Moves(s, "ABORTING")
      BY <3>1, <3>2 DEF Moves
    <3> QED
      BY <3>4 DEF Ok, QueueEffect
  <2>2. CASE ~Is(row[s], "CLAIMED")
    BY <1>9, <1>u, <2>2 DEF AbortWork
  <2> QED
    BY <2>1, <2>2
<1>10. ASSUME NEW s \in Hosts, MarkApplying(s) PROVE Ok
  <2>1. CASE Is(row[s], "CLAIMED")
    <3>1. Sets(row[s], [Q(row[s]) EXCEPT !.st = "APPLYING"])
      BY <1>10, <2>1, RowSet DEF MarkApplying
    <3>2. row' = [row EXCEPT ![s].pc = "owned", ![s].st = "APPLYING"] /\ Moving(s, "APPLYING")
            /\ UNCHANGED <<base, index>>
      BY <1>10, <2>1 DEF MarkApplying, Moving
    <3>4. Moves(s, "APPLYING")
      BY <3>1, <3>2 DEF Moves
    <3> QED
      BY <3>4 DEF Ok, QueueEffect
  <2>2. CASE ~Is(row[s], "CLAIMED")
    BY <1>10, <1>u, <2>2 DEF MarkApplying
  <2> QED
    BY <2>1, <2>2
<1>11. ASSUME NEW s \in Hosts, MarkApplied(s) PROVE Ok
  <2>1. CASE Is(row[s], "APPLYING")
    <3>1. Sets(row[s], [Q(row[s]) EXCEPT !.st = "APPLIED"])
      BY <1>11, <2>1, RowSet DEF MarkApplied
    <3>2. row' = [row EXCEPT ![s].pc = "final", ![s].st = "APPLIED"] /\ Moving(s, "APPLIED")
            /\ UNCHANGED <<base, index>>
      BY <1>11, <2>1 DEF MarkApplied, Moving
    <3>4. Moves(s, "APPLIED")
      BY <3>1, <3>2 DEF Moves
    <3> QED
      BY <3>4 DEF Ok, QueueEffect
  <2>2. CASE ~Is(row[s], "APPLYING")
    BY <1>11, <1>u, <2>2 DEF MarkApplied
  <2> QED
    BY <2>1, <2>2
<1>12. ASSUME NEW s \in Hosts, Destroy(s) PROVE Ok
  BY <1>12, <1>u, <1>e, <1>n DEF Destroy
<1>13. ASSUME NEW s \in Hosts, InsertSeen(s) PROVE Ok
  BY <1>13, <1>u, <1>e, <1>n DEF InsertSeen, Insert
<1>14. ASSUME NEW k \in Works, Replay(k) PROVE Ok
  BY <1>u, <1>14 DEF Replay, Local
<1>15. ASSUME NEW d \in ghosts, LateDestroy(d) PROVE Ok
  BY <1>15, <1>u, <1>e, <1>n DEF LateDestroy
<1>16. ASSUME NEW e \in Expiries, ClearRow(e) PROVE Ok
  BY <1>16, <1>u, <1>e, <1>n DEF ClearRow
<1>17. CASE ExpireClaim \/ TakeOutboxRow \/ TakeMarker \/ AuditItem \/ BackfillItem \/
           PassCrash \/ Enable \/ Disable \/ FinishCleanup
  BY <1>u, <1>17 DEF ExpireClaim, TakeOutboxRow, TakeMarker, AuditItem, BackfillItem, PassCrash,
     Enable, Disable, FinishCleanup, ReadForPass, Local
<1>18. CASE Discharge
  BY <1>18, <1>u, <1>e, <1>n DEF Discharge, RegisterSeen, Insert
<1>19. CASE RetireMarkers
  BY <1>19, <1>u, <1>e, <1>n DEF RetireMarkers, RegisterSeen, Insert
<1>20. CASE AuditDone
  BY <1>20, <1>u, <1>e, <1>n DEF AuditDone, RegisterSeen, Insert
<1>21. CASE BackfillDone
  BY <1>21, <1>u, <1>e, <1>n DEF BackfillDone, RegisterSeen, Insert
<1> QED
  BY HostNames, ReplayWorks, <1>1, <1>2, <1>3, <1>4, <1>5, <1>6, <1>7, <1>8, <1>9, <1>10, <1>11,
     <1>12, <1>13, <1>14, <1>15, <1>16, <1>17, <1>18, <1>19, <1>20, <1>21 DEF Next, Write, Land,
     RowStep

OwnerEffect ==
    \/ owner' = owner /\ sealed' = sealed
    \/ ~sealed /\ ~sealed' /\ owner' \in Writers \cup {None}
    \/ \E s \in Hosts : /\ row[s].pc = "own" /\ owner = None /\ ~sealed' /\ owner' = row[s].work.id
                        /\ Now({Owner}) /\ UNCHANGED <<index, queue>>
                        /\ \A t \in Hosts : row'[t].pc # "claim" \/ row'[t] = row[t]
    \/ \E s \in Hosts : row[s].pc = "seal" /\ owner' = owner /\ owner = row[s].work.id /\ sealed'
    \/ \E s \in Hosts :
          /\ row[s].st \in {"ABORTING", "APPLIED"} /\ row[s].work # NoWork
          /\ owner = row[s].work.id /\ owner' = None /\ ~sealed'
          /\ UNCHANGED <<index, queue>> /\ row'[s].pc \in {"destroy", "record"}
          /\ \A t \in Hosts : Still(row[t], row'[t]) /\ (row'[t].pc = row[t].pc \/ t = s)

LEMMA OwnerMove == ASSUME TypeOK, Owned, Places, Next PROVE OwnerEffect
<1> DEFINE Ok == OwnerEffect
<1> SUFFICES Ok
  OBVIOUS
<1> HIDE DEF Ok
<1>u. owner' = owner /\ sealed' = sealed => Ok
  BY DEF Ok, OwnerEffect
<1>o. ~sealed /\ ~sealed' /\ owner' \in Writers \cup {None} => Ok
  BY DEF Ok, OwnerEffect
<1>v. (owner \notin Works => ~sealed) /\ Writers \cap Works = {} /\ None \notin Works
        /\ sealed \in BOOLEAN
  BY Values, TypeParts DEF Owned
<1>t. row \in [Hosts -> Host] /\ \A s \in Hosts : row[s] \in Host /\ Place(row[s])
  BY TypeParts DEF Places
<1>1. ASSUME NEW w \in Writers, NEW img \in Images0, NEW g \in Gens, ClaimAndSend(w, img,
             g)
      PROVE  Ok
  BY <1>1, <1>o, <1>v DEF ClaimAndSend
<1>2. ASSUME NEW w \in Writers, NEW img \in Images, OccWrite(w, img) PROVE Ok
  BY <1>u, <1>2 DEF OccWrite, Local, base
<1>3. ASSUME NEW w \in Writers, LandRest(w) \/ Lose(w) PROVE Ok
  BY <1>u, <1>3 DEF LandRest, Lose, Local, base
<1>4. ASSUME NEW w \in Writers, LandBase(w) PROVE Ok
  <2>1. CASE Owner \in batch[w].newer
    BY <1>4, <2>1, <1>u, <1>v DEF LandBase
  <2>2. CASE Owner \notin batch[w].newer
    <3>1. ~sealed
      BY <1>4, <2>2, TypeParts DEF LandBase, Owned, Sent
    <3> QED
      BY <1>4, <2>2, <3>1, <1>o DEF LandBase
  <2> QED
    BY <2>1, <2>2
<1>5. ASSUME NEW w \in Writers, GiveUp(w) PROVE Ok
  BY <1>5, <1>o, <1>v DEF GiveUp
<1>6. ASSUME NEW s \in Hosts, NEW e \in Expiries, Load(s, e) PROVE Ok
  BY <1>u, <1>6 DEF Load, Local, base
<1>7. ASSUME NEW s \in Hosts, NEW e \in Expiries, DrainLoad(s, e) PROVE Ok
  BY <1>u, <1>7 DEF DrainLoad, Local, base
<1>8. ASSUME NEW s \in Hosts, ReadItem(s) \/ ClaimWork(s) \/ CheckItem(s) \/ AbortWork(s)
             \/ Gate(s) \/ MarkApplying(s) \/ CheckOwner(s) \/ ApplyEffects(s) \/ MarkApplied(s)
             \/ FinalRead(s) \/ ReadSurvivor(s) \/ RestoreIndex(s) \/ RecordRepair(s) \/
             Destroy(s) \/ Handoff(s) \/ Unmark(s) \/ Reread(s) \/ InsertSeen(s) \/ Crash(s) \/
             EffectsUnknown(s) \/ DestroyUnknown(s)
      PROVE  Ok
  BY <1>u, <1>8 DEF ReadItem, ClaimWork, CheckItem, AbortWork, Gate, MarkApplying, CheckOwner,
     ApplyEffects, MarkApplied, FinalRead, ReadSurvivor, RestoreIndex, RecordRepair, Destroy,
     Handoff, Unmark, Reread, InsertSeen, Crash, EffectsUnknown, DestroyUnknown, Local, base
<1>9. ASSUME NEW s \in Hosts, OwnBase(s) PROVE Ok
  <2>1. CASE owner = None /\ item = row[s].work.img
    <3>1. owner' = row[s].work.id /\ Now({Owner}) /\ UNCHANGED <<index, queue, sealed>>
            /\ row[s].pc = "own"
      BY <1>9, <2>1 DEF OwnBase
    <3>2. PICK p : p # "claim" /\ row' = [row EXCEPT ![s].pc = p]
      BY <1>9, <2>1 DEF OwnBase, Goto
    <3>3. \A t \in Hosts : row'[t].pc # "claim" \/ row'[t] = row[t]
      BY <3>2, <1>t DEF Host
    <3> QED
      BY <2>1, <3>1, <3>3, <1>v DEF Ok, OwnerEffect
  <2>2. CASE ~(owner = None /\ item = row[s].work.img)
    BY <1>9, <2>2, <1>u DEF OwnBase
  <2> QED
    BY <2>1, <2>2
<1>10. ASSUME NEW s \in Hosts, Seal(s) PROVE Ok
  <2>1. CASE owner = row[s].work.id /\ item = row[s].work.img
    BY <1>10, <2>1 DEF Seal, Ok, OwnerEffect
  <2>2. CASE ~(owner = row[s].work.id /\ item = row[s].work.img)
    BY <1>10, <2>2, <1>u DEF Seal
  <2> QED
    BY <2>1, <2>2
<1>11. ASSUME NEW s \in Hosts, DeleteBase(s) PROVE Ok
  <2>1. CASE owner = row[s].work.id /\ item = row[s].work.img
    <3>1. owner = row[s].work.id /\ owner' = None /\ ~sealed' /\ UNCHANGED <<index, queue>>
      BY <1>11, <2>1 DEF DeleteBase
    <3>2. row[s].st \in {"ABORTING", "APPLIED"} /\ row[s].work # NoWork
      BY <1>11, <1>t DEF DeleteBase, Place
    <3>3. PICK p \in {"destroy", "record"} : row' = [row EXCEPT ![s].pc = p]
      BY <1>11, <2>1 DEF DeleteBase, Goto
    <3>4. /\ row'[s].pc \in {"destroy", "record"}
          /\ \A t \in Hosts : Still(row[t], row'[t]) /\ (row'[t].pc = row[t].pc \/ t = s)
      BY <3>3, <1>t DEF Host, Still
    <3> QED
      BY <3>1, <3>2, <3>4 DEF Ok, OwnerEffect
  <2>2. CASE ~(owner = row[s].work.id /\ item = row[s].work.img)
    BY <1>11, <2>2, <1>u DEF DeleteBase, base
  <2> QED
    BY <2>1, <2>2
<1>12. ASSUME NEW s \in Hosts, ReleaseBase(s) PROVE Ok
  <2>1. CASE owner = row[s].work.id
    <3>1. owner = row[s].work.id /\ owner' = None /\ ~sealed' /\ UNCHANGED <<index, queue>>
      BY <1>12, <2>1 DEF ReleaseBase
    <3>2. row[s].st \in {"ABORTING", "APPLIED"} /\ row[s].work # NoWork
      BY <1>12, <1>t DEF ReleaseBase, Place
    <3>3. PICK p \in {"destroy", "record"} : row' = [row EXCEPT ![s].pc = p]
      BY <1>12, <2>1 DEF ReleaseBase, Goto
    <3>4. /\ row'[s].pc \in {"destroy", "record"}
          /\ \A t \in Hosts : Still(row[t], row'[t]) /\ (row'[t].pc = row[t].pc \/ t = s)
      BY <3>3, <1>t DEF Host, Still
    <3> QED
      BY <3>1, <3>2, <3>4 DEF Ok, OwnerEffect
  <2>2. CASE ~(owner = row[s].work.id)
    BY <1>12, <2>2, <1>u DEF ReleaseBase, base
  <2> QED
    BY <2>1, <2>2
<1>13. ASSUME NEW k \in Works, Replay(k) PROVE Ok
  BY <1>u, <1>13 DEF Replay, Local, base
<1>14. ASSUME NEW d \in ghosts, LateDestroy(d) PROVE Ok
  BY <1>u, <1>14 DEF LateDestroy, Local, base
<1>15. ASSUME NEW e \in Expiries, ClearRow(e) PROVE Ok
  BY <1>u, <1>15 DEF ClearRow, Local, base
<1>16. CASE TakeOutboxRow \/ TakeMarker \/ AuditItem \/ BackfillItem \/ Discharge \/
           RetireMarkers \/ AuditDone \/ BackfillDone \/ PassCrash \/ Enable \/ Disable \/
           FinishCleanup
  BY <1>u, <1>16 DEF TakeOutboxRow, TakeMarker, AuditItem, BackfillItem, Discharge, RetireMarkers,
     AuditDone, BackfillDone, PassCrash, Enable, Disable, FinishCleanup, ReadForPass,
     RegisterSeen, Local, base
<1>17. CASE ExpireClaim
  BY <1>17, <1>o, <1>v DEF ExpireClaim
<1> QED
  BY HostNames, ReplayWorks, <1>1, <1>2, <1>3, <1>4, <1>5, <1>6, <1>7, <1>8, <1>9, <1>10, <1>11,
     <1>12, <1>13, <1>14, <1>15, <1>16, <1>17 DEF Next, Write, Land, RowStep

-----------------------------------------------------------------------------
(* Types are kept.                                                          *)

LEMMA CellTypes == ASSUME NEW b \in Batch, b.gen \in Gens PROVE Cells(b) \subseteq AllCells
<1>1. b.old \in Images0 /\ b.new \in Images0
  BY DEF Batch
<1>2. Deleted(b) \cup Inserted(b) \subseteq Expiries
  BY <1>1, Values DEF Deleted, Inserted
<1> QED
  BY <1>2 DEF Cells, AllCells, QueueCells

LEMMA RestingTyped == Resting \in Batch /\ [Resting EXCEPT !.pc = "done"] \in Batch
BY Values DEF Resting, Batch, Images0

LEMMA OutdateTyped ==
    ASSUME TypeOK, Newer, NEW ws, NEW cells
    PROVE  Outdate(ws, cells) \in [Writers -> Batch]
<1>1. ASSUME NEW v \in Writers PROVE Outdate(ws, cells)[v] \in Batch
  <2>1. batch[v] \in Batch
    BY TypeParts
  <2>2. CASE v \in ws /\ batch[v].pc = "sent"
    <3>1. Cells(batch[v]) \subseteq AllCells
      BY <2>1, <2>2, CellTypes DEF Newer, Sent
    <3>2. PICK m : m = batch[v].newer \cup (cells \cap Cells(batch[v]))
      OBVIOUS
    <3>3. m \in SUBSET AllCells
      BY <2>1, <3>1, <3>2 DEF Batch
    <3>4. Outdate(ws, cells)[v] = [batch[v] EXCEPT !.newer = m]
      BY <2>2, <3>2, OutdateValue
    <3>5. [batch[v] EXCEPT !.newer = m] \in Batch
      BY <2>1, <3>3 DEF Batch
    <3> QED
      BY <3>4, <3>5
  <2>3. CASE ~(v \in ws /\ batch[v].pc = "sent")
    <3>1. Outdate(ws, cells)[v] = batch[v]
      BY <2>3 DEF Outdate
    <3> QED
      BY <2>1, <3>1
  <2> QED
    BY <2>2, <2>3
<1>2. Outdate(ws, cells) = [v \in Writers |-> Outdate(ws, cells)[v]]
  BY DEF Outdate
<1> QED
  BY <1>1, <1>2

LEMMA LandedTyped ==
    ASSUME TypeOK, Newer, NEW u \in Writers, NEW part \in {"base", "rest"}, NEW cells
    PROVE  Landed(u, part, cells) \in [Writers -> Batch]
<1> DEFINE b == batch[u]
           rest == [b EXCEPT !.landed = @ \cup {part}]
           N == IF b.landed \cup {part} = {"base", "rest"} THEN [Resting EXCEPT !.pc = "done"]
                ELSE [rest EXCEPT !.newer = @ \cap Cells(rest)]
<1>1. b \in Batch
  BY TypeParts
<1>2. PICK r : r = rest
  OBVIOUS
<1>3. r \in Batch
  BY <1>1, <1>2 DEF Batch
<1>4. PICK m : m = r.newer \cap Cells(r)
  OBVIOUS
<1>5. [r EXCEPT !.newer = m] \in Batch
  BY <1>3, <1>4 DEF Batch
<1>6. [rest EXCEPT !.newer = @ \cap Cells(rest)] = [r EXCEPT !.newer = m]
  BY <1>2, <1>3, <1>4 DEF Batch
<1>7. N \in Batch
  BY <1>5, <1>6, RestingTyped
<1>8. Landed(u, part, cells) = [Outdate(b.beats, cells) EXCEPT ![u] = N]
  BY DEF Landed
<1> HIDE DEF N, b
<1> QED
  BY <1>7, <1>8, OutdateTyped

LEMMA BatchTyped == ASSUME TypeOK, Newer, Next PROVE batch' \in [Writers -> Batch]
<1> DEFINE Ok == batch' \in [Writers -> Batch]
<1> SUFFICES Ok
  OBVIOUS
<1> HIDE DEF Ok
<1>o. \A ws, cells : Outdate(ws, cells) \in [Writers -> Batch]
  BY OutdateTyped
<1>u. batch' = batch => Ok
  BY TypeParts DEF Ok
<1>n. \A cells : Now(cells) => Ok
  BY <1>o DEF Ok, Now
<1>s. \A r, q : SetRow(r, q) => Ok
  BY <1>n DEF SetRow
<1>e. \A k : Effects(k) => Ok
  BY <1>o, <1>u DEF Effects, Ok
<1>1. ASSUME NEW w \in Writers, NEW img \in Images0, NEW g \in Gens, ClaimAndSend(w, img,
             g)
      PROVE  Ok
  <2> DEFINE N == [pc |-> "sent", old |-> item, new |-> img, gen |-> g, landed |-> {}, newer |-> {},
                   beats |-> {v \in Writers : batch[v].pc = "sent"} \cup Works]
  <2>1. N \in Batch
    BY TypeParts, Values DEF Batch
  <2>2. batch' = [Outdate(Writers, {Owner}) EXCEPT ![w] = N]
    BY <1>1 DEF ClaimAndSend
  <2> HIDE DEF N
  <2> QED
    BY <1>o, <2>1, <2>2 DEF Ok
<1>2. ASSUME NEW w \in Writers, NEW img \in Images, OccWrite(w, img) PROVE Ok
  <2>1. batch' = [Outdate(Writers, {Item, Index}) EXCEPT ![w] = [Resting EXCEPT !.pc = "done"]]
    BY <1>2 DEF OccWrite
  <2> QED
    BY <1>o, <2>1, RestingTyped DEF Ok
<1>3. ASSUME NEW w \in Writers, LandBase(w) PROVE Ok
  <2>1. batch' = Landed(w, "base", {Item, Owner} \ batch[w].newer)
    BY <1>3 DEF LandBase
  <2> QED
    BY <2>1, LandedTyped DEF Ok
<1>4. ASSUME NEW w \in Writers, LandRest(w) PROVE Ok
  <2>1. batch' = Landed(w, "rest", RestCells(batch[w]))
    BY <1>4 DEF LandRest, RestCells
  <2> QED
    BY <2>1, LandedTyped DEF Ok
<1>5. ASSUME NEW w \in Writers, GiveUp(w) PROVE Ok
  BY <1>5, <1>u, <1>n DEF GiveUp
<1>6. ASSUME NEW w \in Writers, Lose(w) PROVE Ok
  <2>1. batch' = [batch EXCEPT ![w] = [Resting EXCEPT !.pc = "done"]]
    BY <1>6 DEF Lose
  <2> QED
    BY <2>1, TypeParts, RestingTyped DEF Ok
<1>7. ASSUME NEW s \in Hosts, NEW e \in Expiries, Load(s, e) PROVE Ok
  BY <1>u, <1>7 DEF Load, Local
<1>8. ASSUME NEW s \in Hosts, NEW e \in Expiries, DrainLoad(s, e) PROVE Ok
  BY <1>u, <1>8 DEF DrainLoad, Local
<1>9. ASSUME NEW s \in Hosts, CheckItem(s) \/ Gate(s) \/ CheckOwner(s) \/ FinalRead(s) \/
             ReadSurvivor(s) \/ RecordRepair(s) \/ Handoff(s) \/ Unmark(s) \/ Reread(s) \/
             Crash(s) \/ EffectsUnknown(s) \/ DestroyUnknown(s)
      PROVE  Ok
  BY <1>u, <1>9 DEF CheckItem, Gate, CheckOwner, FinalRead, ReadSurvivor, RecordRepair, Handoff,
     Unmark, Reread, Crash, EffectsUnknown, DestroyUnknown, Local
<1>10. ASSUME NEW s \in Hosts, ReadItem(s) PROVE Ok
  <2>1. CASE batch' = batch
    BY <1>u, <2>1
  <2>2. ASSUME NEW k \in FreeWorks,
               batch' = [w \in Writers |-> [batch[w] EXCEPT !.beats = @ \ {k}]]
        PROVE  Ok
    <3>1. ASSUME NEW v \in Writers PROVE [batch[v] EXCEPT !.beats = @ \ {k}] \in Batch
      <4>1. batch[v] \in Batch
        BY TypeParts
      <4> QED
        BY <4>1 DEF Batch
    <3> QED
      BY <2>2, <3>1 DEF Ok
  <2> QED
    BY <1>10, <2>1, <2>2 DEF ReadItem
<1>11. ASSUME NEW s \in Hosts, ClaimWork(s) PROVE Ok
  BY <1>11, <1>u, <1>s DEF ClaimWork
<1>12. ASSUME NEW s \in Hosts, AbortWork(s) PROVE Ok
  BY <1>12, <1>u, <1>s DEF AbortWork
<1>13. ASSUME NEW s \in Hosts, OwnBase(s) PROVE Ok
  BY <1>13, <1>u, <1>n DEF OwnBase
<1>14. ASSUME NEW s \in Hosts, Seal(s) PROVE Ok
  BY <1>14, <1>u, <1>n DEF Seal
<1>15. ASSUME NEW s \in Hosts, MarkApplying(s) PROVE Ok
  BY <1>15, <1>u, <1>s DEF MarkApplying
<1>16. ASSUME NEW s \in Hosts, ApplyEffects(s) PROVE Ok
  BY <1>16, <1>e DEF ApplyEffects
<1>17. ASSUME NEW s \in Hosts, MarkApplied(s) PROVE Ok
  BY <1>17, <1>u, <1>s DEF MarkApplied
<1>18. ASSUME NEW s \in Hosts, DeleteBase(s) PROVE Ok
  BY <1>18, <1>u, <1>n DEF DeleteBase
<1>19. ASSUME NEW s \in Hosts, RestoreIndex(s) PROVE Ok
  BY <1>19, <1>u, <1>n DEF RestoreIndex
<1>20. ASSUME NEW s \in Hosts, ReleaseBase(s) PROVE Ok
  BY <1>20, <1>u, <1>n DEF ReleaseBase
<1>21. ASSUME NEW s \in Hosts, Destroy(s) PROVE Ok
  BY <1>21, <1>u, <1>s DEF Destroy
<1>22. ASSUME NEW s \in Hosts, InsertSeen(s) PROVE Ok
  BY <1>22, <1>u, <1>s DEF InsertSeen, Insert
<1>23. ASSUME NEW k \in Works, Replay(k) PROVE Ok
  BY <1>23, <1>e DEF Replay
<1>24. ASSUME NEW d \in ghosts, LateDestroy(d) PROVE Ok
  BY <1>24, <1>u, <1>s DEF LateDestroy
<1>25. ASSUME NEW e \in Expiries, ClearRow(e) PROVE Ok
  BY <1>25, <1>u, <1>s DEF ClearRow
<1>26. CASE ExpireClaim \/ TakeOutboxRow \/ TakeMarker \/ AuditItem \/ BackfillItem \/
           PassCrash \/ Enable \/ Disable \/ FinishCleanup
  BY <1>u, <1>26 DEF ExpireClaim, TakeOutboxRow, TakeMarker, AuditItem, BackfillItem, PassCrash,
     Enable, Disable, FinishCleanup, ReadForPass, Local
<1>27. CASE Discharge
  BY <1>27, <1>u, <1>s DEF Discharge, RegisterSeen, Insert
<1>28. CASE RetireMarkers
  BY <1>28, <1>u, <1>s DEF RetireMarkers, RegisterSeen, Insert
<1>29. CASE AuditDone
  BY <1>29, <1>u, <1>s DEF AuditDone, RegisterSeen, Insert
<1>30. CASE BackfillDone
  BY <1>30, <1>u, <1>s DEF BackfillDone, RegisterSeen, Insert
<1> QED
  BY HostNames, ReplayWorks, <1>1, <1>2, <1>3, <1>4, <1>5, <1>6, <1>7, <1>8, <1>9, <1>10, <1>11,
     <1>12, <1>13, <1>14, <1>15, <1>16, <1>17, <1>18, <1>19, <1>20, <1>21, <1>22, <1>23, <1>24,
     <1>25, <1>26, <1>27, <1>28, <1>29, <1>30 DEF Next, Write, Land, RowStep

LEMMA RowSetTyped ==
    ASSUME TypeOK, NEW r, NEW q, SetRow(r, q), r.gen \in Gens /\ r.exp \in Expiries => q \in Row
    PROVE  queue' \in Queue
<1>1. queue' = [queue EXCEPT ![r.gen][r.exp] = q] /\ queue \in Queue
  BY TypeParts DEF SetRow
<1>2. CASE r.gen \in Gens
  <2>1. [queue[r.gen] EXCEPT ![r.exp] = q] \in [Expiries -> Row]
    BY <1>1, <1>2 DEF Queue
  <2> QED
    BY <1>1, <2>1 DEF Queue
<1>3. CASE r.gen \notin Gens
  BY <1>1, <1>3 DEF Queue
<1> QED
  BY <1>2, <1>3

LEMMA QueueTyped == ASSUME TypeOK, Next PROVE queue' \in Queue
<1> DEFINE Ok == queue' \in Queue
<1> SUFFICES Ok
  OBVIOUS
<1> HIDE DEF Ok
<1>u. queue' = queue => Ok
  BY TypeParts DEF Ok
<1>n. Empty \in Row /\ [Empty EXCEPT !.st = "PENDING"] \in Row
  BY WorkIds DEF Empty, Row, States
<1>e. \A r, q : SetRow(r, q) /\ q \in Row => Ok
  BY RowSetTyped DEF Ok
<1>m. \A s \in Hosts, st \in States : SetRow(row[s], [Q(row[s]) EXCEPT !.st = st]) => Ok
  <2> SUFFICES ASSUME NEW s \in Hosts, NEW st \in States, SetRow(row[s], [Q(row[s]) EXCEPT !.st = st])
               PROVE  Ok
    OBVIOUS
  <2>1. ASSUME row[s].gen \in Gens, row[s].exp \in Expiries
        PROVE  [Q(row[s]) EXCEPT !.st = st] \in Row
    <3>1. Q(row[s]) \in Row
      BY <2>1, TypeParts DEF Q
    <3> QED
      BY <3>1 DEF Row
  <2> QED
    BY <2>1, RowSetTyped DEF Ok
<1>t. \A s \in Hosts : row[s] \in Host
  BY TypeParts
<1>1. ASSUME NEW w \in Writers, NEW img \in Images0, NEW g \in Gens, ClaimAndSend(w, img,
             g)
      PROVE  Ok
  BY <1>u, <1>1 DEF ClaimAndSend, Local
<1>2. ASSUME NEW w \in Writers, NEW img \in Images, OccWrite(w, img) PROVE Ok
  BY <1>u, <1>2 DEF OccWrite, Local
<1>3. ASSUME NEW w \in Writers, LandBase(w) \/ GiveUp(w) \/ Lose(w) PROVE Ok
  BY <1>u, <1>3 DEF LandBase, GiveUp, Lose, Local
<1>4. ASSUME NEW w \in Writers, LandRest(w) PROVE Ok
  <2> DEFINE b == batch[w]
             rows == [e \in Expiries |-> IF e \in Deleted(b) \cup Inserted(b) THEN Overwrite(b, e, queue[b.gen][e])
                                         ELSE queue[b.gen][e]]
  <2>1. queue' = [queue EXCEPT ![b.gen] = rows] /\ queue \in Queue
    BY <1>4, TypeParts DEF LandRest
  <2>2. ASSUME b.gen \in Gens, NEW e \in Expiries PROVE rows[e] \in Row
    <3>1. queue[b.gen][e] \in Row
      BY <2>2, TypeParts
    <3>2. Overwrite(b, e, queue[b.gen][e]) \in Row
      BY <3>1, WorkIds DEF Overwrite, Row, States
    <3> QED
      BY <3>1, <3>2
  <2>3. b.gen \in Gens => rows \in [Expiries -> Row]
    BY <2>2
  <2> HIDE DEF rows, b
  <2> QED
    BY <2>1, <2>3 DEF Ok, Queue
<1>5. ASSUME NEW s \in Hosts, NEW e \in Expiries, Load(s, e) PROVE Ok
  BY <1>u, <1>5 DEF Load, Local
<1>6. ASSUME NEW s \in Hosts, NEW e \in Expiries, DrainLoad(s, e) PROVE Ok
  BY <1>u, <1>6 DEF DrainLoad, Local
<1>7. ASSUME NEW s \in Hosts, ReadItem(s) \/ CheckItem(s) \/ OwnBase(s) \/ Gate(s) \/
             Seal(s) \/ CheckOwner(s) \/ ApplyEffects(s) \/ FinalRead(s) \/ DeleteBase(s) \/
             ReadSurvivor(s) \/ RestoreIndex(s) \/ ReleaseBase(s) \/ RecordRepair(s) \/ Handoff(s)
             \/ Unmark(s) \/ Reread(s) \/ Crash(s) \/ EffectsUnknown(s) \/ DestroyUnknown(s)
      PROVE  Ok
  BY <1>u, <1>7 DEF ReadItem, CheckItem, OwnBase, Gate, Seal, CheckOwner, ApplyEffects, FinalRead,
     DeleteBase, ReadSurvivor, RestoreIndex, ReleaseBase, RecordRepair, Handoff, Unmark, Reread,
     Crash, EffectsUnknown, DestroyUnknown, Local
<1>8. ASSUME NEW s \in Hosts, ClaimWork(s) PROVE Ok
  <2>1. [st |-> "CLAIMED", work |-> row[s].work] \in Row
    BY <1>t DEF Row, States, Host
  <2> QED
    BY <1>8, <1>u, <1>e, <2>1 DEF ClaimWork
<1>9. ASSUME NEW s \in Hosts, AbortWork(s) PROVE Ok
  <2>1. "ABORTING" \in States
    BY DEF States
  <2> QED
    BY <1>9, <1>u, <1>m, <2>1 DEF AbortWork
<1>10. ASSUME NEW s \in Hosts, MarkApplying(s) PROVE Ok
  <2>1. "APPLYING" \in States
    BY DEF States
  <2> QED
    BY <1>10, <1>u, <1>m, <2>1 DEF MarkApplying
<1>11. ASSUME NEW s \in Hosts, MarkApplied(s) PROVE Ok
  <2>1. "APPLIED" \in States
    BY DEF States
  <2> QED
    BY <1>11, <1>u, <1>m, <2>1 DEF MarkApplied
<1>12. ASSUME NEW s \in Hosts, Destroy(s) PROVE Ok
  BY <1>12, <1>u, <1>e, <1>n DEF Destroy
<1>13. ASSUME NEW s \in Hosts, InsertSeen(s) PROVE Ok
  BY <1>13, <1>u, <1>e, <1>n DEF InsertSeen, Insert
<1>14. ASSUME NEW k \in Works, Replay(k) PROVE Ok
  BY <1>u, <1>14 DEF Replay, Local
<1>15. ASSUME NEW d \in ghosts, LateDestroy(d) PROVE Ok
  BY <1>15, <1>u, <1>e, <1>n DEF LateDestroy
<1>16. ASSUME NEW e \in Expiries, ClearRow(e) PROVE Ok
  BY <1>16, <1>u, <1>e, <1>n DEF ClearRow
<1>17. CASE ExpireClaim \/ TakeOutboxRow \/ TakeMarker \/ AuditItem \/ BackfillItem \/
           PassCrash \/ Enable \/ Disable \/ FinishCleanup
  BY <1>u, <1>17 DEF ExpireClaim, TakeOutboxRow, TakeMarker, AuditItem, BackfillItem, PassCrash,
     Enable, Disable, FinishCleanup, ReadForPass, Local
<1>18. CASE Discharge
  BY <1>18, <1>u, <1>e, <1>n DEF Discharge, RegisterSeen, Insert
<1>19. CASE RetireMarkers
  BY <1>19, <1>u, <1>e, <1>n DEF RetireMarkers, RegisterSeen, Insert
<1>20. CASE AuditDone
  BY <1>20, <1>u, <1>e, <1>n DEF AuditDone, RegisterSeen, Insert
<1>21. CASE BackfillDone
  BY <1>21, <1>u, <1>e, <1>n DEF BackfillDone, RegisterSeen, Insert
<1> QED
  BY HostNames, ReplayWorks, <1>1, <1>2, <1>3, <1>4, <1>5, <1>6, <1>7, <1>8, <1>9, <1>10, <1>11,
     <1>12, <1>13, <1>14, <1>15, <1>16, <1>17, <1>18, <1>19, <1>20, <1>21 DEF Next, Write, Land,
     RowStep

BaseTypes ==
    /\ item \in Images0 /\ owner \in Writers \cup Works \cup {None} /\ sealed \in BOOLEAN
    /\ idx \in Images0 /\ idxNewer \subseteq Works /\ replays \subseteq Works
OtherTypes ==
    /\ outbox \in BOOLEAN /\ markers \subseteq Gens
    /\ ghosts \subseteq [gen : Gens, exp : Expiries, st : States, id : Works \cup {None}]
    /\ gen \in 0 .. MaxGen /\ cleanup \in 0 .. MaxGen /\ ready \in BOOLEAN
    /\ lastGen \in 0 .. MaxGen /\ cleared \subseteq Expiries
    /\ pass \in [kind : Kinds \cup {"none"}, gen : 0 .. MaxGen, seen : Images0]
    /\ missed \in BOOLEAN /\ faults \in 0 .. MaxFaults

LEMMA TypeSplit ==
    /\ TypeOK <=> BaseTypes /\ OtherTypes /\ queue \in Queue /\ batch \in [Writers -> Batch]
                  /\ row \in [Hosts -> Host]
    /\ TypeOK' <=> BaseTypes' /\ OtherTypes' /\ queue' \in Queue /\ batch' \in [Writers -> Batch]
                   /\ row' \in [Hosts -> Host]
BY DEF TypeOK, BaseTypes, OtherTypes, Queue, Row, Batch, AllCells, Host

LEMMA BaseTyped == ASSUME TypeOK, Places, Next PROVE BaseTypes'
<1> DEFINE Ok == BaseTypes'
<1> SUFFICES Ok
  OBVIOUS
<1> HIDE DEF Ok
<1>b. BaseTypes
  BY TypeSplit
<1>u. UNCHANGED <<base, index>> => Ok
  BY <1>b DEF Ok, base, index, BaseTypes
<1>t. /\ \A s \in Hosts : row[s] \in Host /\ Place(row[s])
      /\ \A w \in Writers : batch[w] \in Batch
  BY TypeParts DEF Places
<1>w. \A s \in Hosts : row[s].work # NoWork => row[s].work.id \in Works
  BY <1>t, WorkIds DEF Host
<1>e. \A k : Effects(k) => idx' \in Images0
  BY <1>b DEF Effects, BaseTypes, Images0
<1>1. ASSUME NEW w \in Writers, NEW img \in Images0, NEW g \in Gens, ClaimAndSend(w, img,
             g)
      PROVE  Ok
  BY <1>1, <1>b DEF ClaimAndSend, Ok, BaseTypes, base, index
<1>2. ASSUME NEW w \in Writers, NEW img \in Images, OccWrite(w, img) PROVE Ok
  BY <1>2, <1>b DEF OccWrite, Ok, BaseTypes, base, index, Images0
<1>3. ASSUME NEW w \in Writers, Lose(w) PROVE Ok
  BY <1>u, <1>3 DEF Lose, Local
<1>4. ASSUME NEW w \in Writers, LandBase(w) PROVE Ok
  BY <1>4, <1>b, <1>t DEF LandBase, Ok, BaseTypes, base, index, Batch
<1>5. ASSUME NEW w \in Writers, LandRest(w) PROVE Ok
  BY <1>5, <1>b, <1>t DEF LandRest, Ok, BaseTypes, base, index, Batch
<1>6. ASSUME NEW w \in Writers, GiveUp(w) PROVE Ok
  BY <1>6, <1>b DEF GiveUp, Ok, BaseTypes, base, index
<1>7. ASSUME NEW s \in Hosts, NEW e \in Expiries, Load(s, e) PROVE Ok
  BY <1>u, <1>7 DEF Load, Local
<1>8. ASSUME NEW s \in Hosts, NEW e \in Expiries, DrainLoad(s, e) PROVE Ok
  BY <1>u, <1>8 DEF DrainLoad, Local
<1>9. ASSUME NEW s \in Hosts, ClaimWork(s) \/ CheckItem(s) \/ AbortWork(s) \/ Gate(s) \/
             MarkApplying(s) \/ CheckOwner(s) \/ MarkApplied(s) \/ FinalRead(s) \/ ReadSurvivor(s)
             \/ RecordRepair(s) \/ Destroy(s) \/ Handoff(s) \/ Unmark(s) \/ Reread(s) \/
             InsertSeen(s) \/ Crash(s) \/ DestroyUnknown(s)
      PROVE  Ok
  BY <1>u, <1>9 DEF ClaimWork, CheckItem, AbortWork, Gate, MarkApplying, CheckOwner, MarkApplied,
     FinalRead, ReadSurvivor, RecordRepair, Destroy, Handoff, Unmark, Reread, InsertSeen, Crash,
     DestroyUnknown, Local
<1>10. ASSUME NEW s \in Hosts, ReadItem(s) PROVE Ok
  BY <1>10, <1>b DEF ReadItem, Ok, BaseTypes, base, index
<1>11. ASSUME NEW s \in Hosts, OwnBase(s) PROVE Ok
  BY <1>11, <1>b, <1>t, <1>w DEF OwnBase, Ok, BaseTypes, base, index, Place
<1>12. ASSUME NEW s \in Hosts, Seal(s) PROVE Ok
  BY <1>12, <1>b DEF Seal, Ok, BaseTypes, base, index
<1>13. ASSUME NEW s \in Hosts, ApplyEffects(s) PROVE Ok
  BY <1>13, <1>b, <1>e DEF ApplyEffects, Ok, BaseTypes, base, index
<1>14. ASSUME NEW s \in Hosts, DeleteBase(s) PROVE Ok
  BY <1>14, <1>b DEF DeleteBase, Ok, BaseTypes, base, index, Images0
<1>15. ASSUME NEW s \in Hosts, RestoreIndex(s) PROVE Ok
  BY <1>15, <1>b, <1>t DEF RestoreIndex, Ok, BaseTypes, base, index, Host
<1>16. ASSUME NEW s \in Hosts, ReleaseBase(s) PROVE Ok
  BY <1>16, <1>b DEF ReleaseBase, Ok, BaseTypes, base, index
<1>17. ASSUME NEW s \in Hosts, EffectsUnknown(s) PROVE Ok
  BY <1>17, <1>b, <1>t, <1>w DEF EffectsUnknown, Ok, BaseTypes, base, index, Place
<1>18. ASSUME NEW k \in Works, Replay(k) PROVE Ok
  BY <1>18, <1>b, <1>e DEF Replay, Ok, BaseTypes, base, index
<1>19. ASSUME NEW d \in ghosts, LateDestroy(d) PROVE Ok
  BY <1>u, <1>19 DEF LateDestroy, Local
<1>20. ASSUME NEW e \in Expiries, ClearRow(e) PROVE Ok
  BY <1>u, <1>20 DEF ClearRow, Local
<1>21. CASE TakeOutboxRow \/ TakeMarker \/ AuditItem \/ BackfillItem \/ Discharge \/
           RetireMarkers \/ AuditDone \/ BackfillDone \/ PassCrash \/ Enable \/ Disable \/
           FinishCleanup
  BY <1>u, <1>21 DEF TakeOutboxRow, TakeMarker, AuditItem, BackfillItem, Discharge, RetireMarkers,
     AuditDone, BackfillDone, PassCrash, Enable, Disable, FinishCleanup, ReadForPass,
     RegisterSeen, Local
<1>22. CASE ExpireClaim
  BY <1>22, <1>b DEF ExpireClaim, Ok, BaseTypes, base, index
<1> QED
  BY HostNames, ReplayWorks, <1>1, <1>2, <1>3, <1>4, <1>5, <1>6, <1>7, <1>8, <1>9, <1>10, <1>11,
     <1>12, <1>13, <1>14, <1>15, <1>16, <1>17, <1>18, <1>19, <1>20, <1>21, <1>22 DEF Next, Write,
     Land, RowStep

LEMMA OtherTyped == ASSUME TypeOK, Places, Next PROVE OtherTypes'
<1> DEFINE Ok == OtherTypes'
<1> SUFFICES Ok
  OBVIOUS
<1> HIDE DEF Ok
<1>b. OtherTypes /\ BaseTypes
  BY TypeSplit
<1>u. UNCHANGED <<repairs, config, pass, missed, faults>> => Ok
  BY <1>b DEF Ok, repairs, config, OtherTypes
<1>t. /\ \A s \in Hosts : row[s] \in Host /\ Place(row[s])
      /\ \A w \in Writers : batch[w] \in Batch
  BY TypeParts DEF Places
<1>f. MaxFaults \in Nat /\ MaxGen \in Nat
  BY TtlAssumption
<1>p. NoPass \in [kind : Kinds \cup {"none"}, gen : 0 .. MaxGen, seen : Images0]
  BY Values DEF NoPass, Images0
<1>1. ASSUME NEW w \in Writers, NEW img \in Images0, NEW g \in Gens, ClaimAndSend(w, img,
             g)
      PROVE  Ok
  BY <1>u, <1>1 DEF ClaimAndSend, Local
<1>2. ASSUME NEW w \in Writers, NEW img \in Images, OccWrite(w, img) PROVE Ok
  BY <1>2, <1>b DEF OccWrite, Ok, OtherTypes, repairs, config
<1>3. ASSUME NEW w \in Writers, LandBase(w) \/ GiveUp(w) \/ Lose(w) PROVE Ok
  BY <1>u, <1>3 DEF LandBase, GiveUp, Lose, Local
<1>4. ASSUME NEW w \in Writers, LandRest(w) PROVE Ok
  BY <1>4, <1>b DEF LandRest, Ok, OtherTypes, repairs, config
<1>5. ASSUME NEW s \in Hosts, NEW e \in Expiries, Load(s, e) PROVE Ok
  BY <1>u, <1>5 DEF Load, Local
<1>6. ASSUME NEW s \in Hosts, NEW e \in Expiries, DrainLoad(s, e) PROVE Ok
  BY <1>u, <1>6 DEF DrainLoad, Local
<1>7. ASSUME NEW s \in Hosts, ReadItem(s) \/ ClaimWork(s) \/ CheckItem(s) \/ AbortWork(s)
             \/ OwnBase(s) \/ Gate(s) \/ Seal(s) \/ MarkApplying(s) \/ CheckOwner(s) \/
             ApplyEffects(s) \/ MarkApplied(s) \/ FinalRead(s) \/ DeleteBase(s) \/ ReadSurvivor(s)
             \/ RestoreIndex(s) \/ ReleaseBase(s) \/ RecordRepair(s) \/ Destroy(s) \/ Unmark(s) \/
             Reread(s) \/ InsertSeen(s)
      PROVE  Ok
  BY <1>u, <1>7 DEF ReadItem, ClaimWork, CheckItem, AbortWork, OwnBase, Gate, Seal, MarkApplying,
     CheckOwner, ApplyEffects, MarkApplied, FinalRead, DeleteBase, ReadSurvivor, RestoreIndex,
     ReleaseBase, RecordRepair, Destroy, Unmark, Reread, InsertSeen, Local
<1>8. ASSUME NEW s \in Hosts, Handoff(s) PROVE Ok
  BY <1>8, <1>b DEF Handoff, Ok, OtherTypes, repairs, config
<1>9. ASSUME NEW s \in Hosts, Crash(s) PROVE Ok
  BY <1>9, <1>b, <1>f, <1>t DEF Crash, Ok, OtherTypes, repairs, config, Place
<1>10. ASSUME NEW s \in Hosts, EffectsUnknown(s) PROVE Ok
  BY <1>10, <1>b, <1>f DEF EffectsUnknown, Ok, OtherTypes, repairs, config
<1>11. ASSUME NEW s \in Hosts, DestroyUnknown(s) PROVE Ok
  <2>1. Doomed(row[s]) \in [gen : Gens, exp : Expiries, st : States, id : Works \cup {None}]
    <3>1. row[s].gen \in Gens /\ row[s].exp \in Expiries
      BY <1>11, <1>t DEF DestroyUnknown, Place
    <3>2. row[s].st \in States /\ row[s].work \in WorkData
      BY <1>t DEF Host
    <3>3. row[s].work.id \in Works \cup {None}
      BY <3>2, WorkIds
    <3> QED
      BY <3>1, <3>2, <3>3 DEF Doomed
  <2>2. row[s].gen \in Gens
    BY <1>11, <1>t DEF DestroyUnknown, Place
  <2> QED
    BY <1>11, <1>b, <1>f, <2>1, <2>2 DEF DestroyUnknown, Ok, OtherTypes, repairs, config
<1>12. ASSUME NEW k \in Works, Replay(k) PROVE Ok
  BY <1>u, <1>12 DEF Replay, Local
<1>13. ASSUME NEW d \in ghosts, LateDestroy(d) PROVE Ok
  BY <1>13, <1>b DEF LateDestroy, Ok, OtherTypes, repairs, config
<1>14. ASSUME NEW e \in Expiries, ClearRow(e) PROVE Ok
  BY <1>14, <1>b, <1>f DEF ClearRow, Ok, OtherTypes, repairs, config
<1>15. CASE ExpireClaim
  BY <1>u, <1>15 DEF ExpireClaim, Local
<1>16. CASE TakeOutboxRow
  <2>1. pass' \in [kind : Kinds \cup {"none"}, gen : 0 .. MaxGen, seen : Images0]
    BY <1>16, <1>b DEF TakeOutboxRow, ReadForPass, BaseTypes, OtherTypes, Kinds
  <2> QED
    BY <1>16, <1>b, <2>1 DEF TakeOutboxRow, ReadForPass, Ok, OtherTypes, repairs, config
<1>17. CASE TakeMarker
  <2>1. pass' \in [kind : Kinds \cup {"none"}, gen : 0 .. MaxGen, seen : Images0]
    BY <1>17, <1>b DEF TakeMarker, ReadForPass, BaseTypes, OtherTypes, Kinds
  <2> QED
    BY <1>17, <1>b, <2>1 DEF TakeMarker, ReadForPass, Ok, OtherTypes, repairs, config
<1>18. CASE AuditItem
  <2>1. pass' \in [kind : Kinds \cup {"none"}, gen : 0 .. MaxGen, seen : Images0]
    BY <1>18, <1>b DEF AuditItem, ReadForPass, BaseTypes, OtherTypes, Kinds
  <2> QED
    BY <1>18, <1>b, <2>1 DEF AuditItem, ReadForPass, Ok, OtherTypes, repairs, config
<1>19. CASE BackfillItem
  <2>1. pass' \in [kind : Kinds \cup {"none"}, gen : 0 .. MaxGen, seen : Images0]
    BY <1>19, <1>b DEF BackfillItem, ReadForPass, BaseTypes, OtherTypes, Kinds
  <2> QED
    BY <1>19, <1>b, <2>1 DEF BackfillItem, ReadForPass, Ok, OtherTypes, repairs, config
<1>20. CASE Discharge
  BY <1>20, <1>b, <1>p DEF Discharge, RegisterSeen, Ok, OtherTypes, repairs, config
<1>21. CASE RetireMarkers
  BY <1>21, <1>b, <1>p DEF RetireMarkers, RegisterSeen, Ok, OtherTypes, repairs, config
<1>22. CASE AuditDone
  BY <1>22, <1>b, <1>p DEF AuditDone, RegisterSeen, Ok, OtherTypes, repairs, config
<1>23. CASE BackfillDone
  BY <1>23, <1>b, <1>p DEF BackfillDone, RegisterSeen, Ok, OtherTypes, repairs, config
<1>24. CASE PassCrash
  BY <1>24, <1>b, <1>p, <1>f DEF PassCrash, Ok, OtherTypes, repairs, config
<1>25. CASE Enable
  <2>1. lastGen \in 0 .. MaxGen /\ lastGen < MaxGen /\ 0 \in 0 .. MaxGen
    BY <1>25, <1>b, <1>f DEF Enable, OtherTypes
  <2>2. lastGen + 1 \in 0 .. MaxGen
    BY <2>1, <1>f
  <2>3. gen' \in 0 .. MaxGen /\ lastGen' \in 0 .. MaxGen /\ ready' \in BOOLEAN
    BY <1>25, <2>2 DEF Enable
  <2>4. UNCHANGED <<repairs, cleanup, cleared, pass, missed, faults>>
    BY <1>25 DEF Enable
  <2> QED
    BY <1>b, <2>3, <2>4 DEF Ok, OtherTypes, repairs
<1>26. CASE Disable
  BY <1>26, <1>b, <1>f DEF Disable, Ok, OtherTypes, repairs, config
<1>27. CASE FinishCleanup
  BY <1>27, <1>b, <1>f DEF FinishCleanup, Ok, OtherTypes, repairs, config
<1> QED
  BY HostNames, ReplayWorks, <1>1, <1>2, <1>3, <1>4, <1>5, <1>6, <1>7, <1>8, <1>9, <1>10, <1>11,
     <1>12, <1>13, <1>14, <1>15, <1>16, <1>17, <1>18, <1>19, <1>20, <1>21, <1>22, <1>23, <1>24,
     <1>25, <1>26, <1>27 DEF Next, Write, Land, RowStep

LEMMA RowTyped == ASSUME TypeOK, DueInv, QueueRows, Places, Next PROVE row' \in [Hosts -> Host]
<1>1. row \in [Hosts -> Host]
  BY TypeParts
<1> QED
  BY <1>1, RowMove DEF RowEffect

LEMMA TypesKept == ASSUME TypeOK, DueInv, QueueRows, Newer, Places, Next PROVE TypeOK'
BY BaseTyped, OtherTyped, QueueTyped, BatchTyped, RowTyped, TypeSplit

-----------------------------------------------------------------------------
(* A step as the hosts and the queue see it.                                *)

LEMMA RowCases ==
    ASSUME TypeOK, DueInv, QueueRows, Places, Next, NEW t \in Hosts
    PROVE  row'[t] = row[t] \/ (/\ row'[t] \in Host /\ Place(row'[t]) /\ Turn(t, row[t], row'[t])
                                /\ row' = [row EXCEPT ![t] = row'[t]])
<1>1. row \in [Hosts -> Host]
  BY TypeParts
<1>2. CASE row' = row
  BY <1>2
<1>3. ASSUME NEW s \in Hosts, NEW n \in Host, row' = [row EXCEPT ![s] = n], Place(n), Turn(s, row[s], n)
      PROVE  row'[t] = row[t] \/ (/\ row'[t] \in Host /\ Place(row'[t]) /\ Turn(t, row[t], row'[t])
                                  /\ row' = [row EXCEPT ![t] = row'[t]])
  <2>1. CASE t = s
    <3>1. row'[t] = n
      BY <1>1, <1>3, <2>1
    <3> QED
      BY <1>3, <2>1, <3>1
  <2>2. CASE t # s
    BY <1>1, <1>3, <2>2
  <2> QED
    BY <2>1, <2>2
<1> QED
  BY <1>2, <1>3, RowMove DEF RowEffect

LEMMA PlacesKept == ASSUME TypeOK, DueInv, QueueRows, Places, Next PROVE Places'
BY RowCases DEF Places

Calm ==
    /\ \A g \in Gens, e \in Expiries : Kept(g, e)
    /\ \A t \in Hosts : \/ row'[t] = row[t]
                        \/ CalmTurn(t, row[t], row'[t]) /\ row' = [row EXCEPT ![t] = row'[t]]

LEMMA HostWork ==
    ASSUME TypeOK, Places, NEW s \in Hosts
    PROVE  /\ row[s].work # NoWork => row[s].work.id \in Works /\ row[s].work.id # None
           /\ row[s].work = NoWork => row[s].work.id = None
           /\ row[s].pc # "idle" => row[s].gen \in Gens /\ row[s].exp \in Expiries
           /\ row[s].pc \in {"claim", "own", "seal", "abort", "apply", "effects", "mark"}
                => row[s].work # NoWork
           /\ row[s].st \in Claimed => row[s].work # NoWork
<1>1. row[s] \in Host /\ Place(row[s])
  BY TypeParts DEF Places
<1>2. row[s].work \in WorkData
  BY <1>1 DEF Host
<1> QED
  BY <1>1, <1>2, WorkIds DEF Place

LEMMA BusyRow ==
    ASSUME TypeOK, Places, NEW s \in Hosts, NEW q, SetRow(row[s], q), row[s].pc # "idle",
           q.work # NoWork, Kept(row[s].gen, row[s].exp)
    PROVE  Q(row[s]) = q
<1>1. row[s].gen \in Gens /\ row[s].exp \in Expiries
  BY HostWork
<1>2. queue'[row[s].gen][row[s].exp] = q
  BY <1>1, RowSet DEF Sets
<1> QED
  BY <1>2 DEF Kept, Q

LEMMA StepCases ==
    ASSUME TypeOK, DueInv, QueueRows, Newer, Places, Next
    PROVE  \/ Calm
           \/ \E s \in Hosts : Claiming(s)
           \/ \E s \in Hosts, new \in {"ABORTING", "APPLYING", "APPLIED"} : Moves(s, new)
<1>1. SUFFICES ASSUME \A g \in Gens, e \in Expiries : Kept(g, e) PROVE Calm
  BY QueueMove DEF QueueEffect
<1>2. SUFFICES ASSUME NEW t \in Hosts, BusyTurn(t, row[t], row'[t]) PROVE FALSE
  BY <1>1, RowCases DEF Calm, Turn
<1>3. row[t].pc \in {"claim", "abort", "apply", "mark"}
  BY <1>2 DEF BusyTurn, ClaimWork, AbortWork, MarkApplying, MarkApplied
<1>4. row[t].gen \in Gens /\ row[t].exp \in Expiries /\ row[t].work # NoWork /\ row[t].work.id # None
  BY <1>3, HostWork
<1>5. Kept(row[t].gen, row[t].exp) /\ Q(row[t]) \in Row
  BY <1>1, <1>4, TypeParts DEF Q
<1>6. ASSUME NEW q, SetRow(row[t], q), q.work # NoWork PROVE Q(row[t]) = q
  BY <1>3, <1>5, <1>6, BusyRow
<1>7. ASSUME NEW st \in {"CLAIMED", "APPLYING"}, NEW new \in States, new # st, Is(row[t], st),
             SetRow(row[t], [Q(row[t]) EXCEPT !.st = new])
      PROVE  FALSE
  <2>1. PICK q : q = [Q(row[t]) EXCEPT !.st = new]
    OBVIOUS
  <2>2. q.st = new /\ q.work = Q(row[t]).work
    BY <1>5, <2>1 DEF Row
  <2>3. Q(row[t]).st = st /\ Q(row[t]).work.id = row[t].work.id
    BY <1>7 DEF Is
  <2>4. q.work # NoWork
    BY <1>4, <2>2, <2>3, WorkIds
  <2> QED
    BY <1>6, <1>7, <2>1, <2>2, <2>3, <2>4
<1>8. ASSUME ClaimWork(t), Q(row[t]).st = "PENDING" PROVE FALSE
  <2>1. SetRow(row[t], [st |-> "CLAIMED", work |-> row[t].work])
    BY <1>8 DEF ClaimWork
  <2>2. Q(row[t]) = [st |-> "CLAIMED", work |-> row[t].work]
    BY <1>4, <1>6, <2>1
  <2> QED
    BY <1>8, <2>2
<1>9. ASSUME AbortWork(t), Is(row[t], "CLAIMED") PROVE FALSE
  BY <1>7, <1>9 DEF AbortWork, States
<1>10. ASSUME MarkApplying(t), Is(row[t], "CLAIMED") PROVE FALSE
  BY <1>7, <1>10 DEF MarkApplying, States
<1>11. ASSUME MarkApplied(t), Is(row[t], "APPLYING") PROVE FALSE
  BY <1>7, <1>11 DEF MarkApplied, States
<1> QED
  BY <1>2, <1>8, <1>9, <1>10, <1>11 DEF BusyTurn

LEMMA ClaimingRows ==
    ASSUME TypeOK, Places, NEW s \in Hosts, Claiming(s)
    PROVE  /\ row'[s].st = "CLAIMED" /\ row'[s].pc = "check" /\ row'[s].work = row[s].work
           /\ \A t \in Hosts \ {s} : row'[t] = row[t]
           /\ queue'[row[s].gen][row[s].exp].st = "CLAIMED"
           /\ queue'[row[s].gen][row[s].exp].work = row[s].work
           /\ \A g \in Gens, e \in Expiries :
                 ~(g = row[s].gen /\ e = row[s].exp) => queue'[g][e] = queue[g][e]
           /\ row[s].gen \in Gens /\ row[s].exp \in Expiries
<1>1. row \in [Hosts -> Host] /\ row[s] \in Host
  BY TypeParts
<1>2. row[s].gen \in Gens /\ row[s].exp \in Expiries
  BY HostWork DEF Claiming
<1>3. row'[s].st = "CLAIMED" /\ row'[s].pc = "check" /\ row'[s].work = row[s].work
  BY <1>1 DEF Claiming, Host
<1>4. \A t \in Hosts \ {s} : row'[t] = row[t]
  BY <1>1 DEF Claiming
<1>5. PICK q : q = [st |-> "CLAIMED", work |-> row[s].work]
  OBVIOUS
<1>6. q.st = "CLAIMED" /\ q.work = row[s].work
  BY <1>5
<1>7. \A g \in Gens, e \in Expiries :
          queue'[g][e] = IF g = row[s].gen /\ e = row[s].exp THEN q ELSE queue[g][e]
  BY <1>5 DEF Claiming, Sets
<1> QED
  BY <1>2, <1>3, <1>4, <1>6, <1>7

LEMMA MovesRows ==
    ASSUME TypeOK, Places, NEW s \in Hosts, NEW new, Moves(s, new)
    PROVE  /\ row'[s].st = new /\ row'[s].pc \in {"release", "owned", "final"}
                /\ row'[s].work = row[s].work
           /\ \A t \in Hosts \ {s} : row'[t] = row[t]
           /\ queue'[row[s].gen][row[s].exp].st = new
           /\ queue'[row[s].gen][row[s].exp].work = queue[row[s].gen][row[s].exp].work
           /\ \A g \in Gens, e \in Expiries :
                 ~(g = row[s].gen /\ e = row[s].exp) => queue'[g][e] = queue[g][e]
           /\ row[s].gen \in Gens /\ row[s].exp \in Expiries
           /\ queue[row[s].gen][row[s].exp].work.id = row[s].work.id
           /\ row[s].work # NoWork
           /\ \/ /\ new \in {"ABORTING", "APPLYING"} /\ queue[row[s].gen][row[s].exp].st = "CLAIMED"
                 /\ row[s].st = "CLAIMED"
              \/ /\ new = "APPLIED" /\ queue[row[s].gen][row[s].exp].st = "APPLYING"
                      /\ row[s].st = "APPLYING"
                 /\ row[s].pc = "mark"
<1>1. row \in [Hosts -> Host] /\ row[s] \in Host /\ Place(row[s])
  BY TypeParts DEF Places
<1>2. row[s].gen \in Gens /\ row[s].exp \in Expiries /\ row[s].work # NoWork
  BY HostWork DEF Moves, Moving
<1>3. PICK p \in {"release", "owned", "final"} : row' = [row EXCEPT ![s].pc = p, ![s].st = new]
  BY DEF Moves
<1>4. row'[s].st = new /\ row'[s].pc \in {"release", "owned", "final"} /\ row'[s].work = row[s].work
  BY <1>1, <1>3 DEF Host
<1>5. \A t \in Hosts \ {s} : row'[t] = row[t]
  BY <1>1, <1>3
<1>6. queue[row[s].gen][row[s].exp] \in Row
  BY <1>2, TypeParts
<1>7. queue'[row[s].gen][row[s].exp] = [queue[row[s].gen][row[s].exp] EXCEPT !.st = new]
  BY <1>2 DEF Moves, Sets, Q
<1>8. /\ queue'[row[s].gen][row[s].exp].st = new
      /\ queue'[row[s].gen][row[s].exp].work = queue[row[s].gen][row[s].exp].work
  BY <1>6, <1>7 DEF Row
<1>9. \A g \in Gens, e \in Expiries : ~(g = row[s].gen /\ e = row[s].exp) => queue'[g][e] = queue[g][e]
  BY DEF Moves, Sets
<1>10. /\ queue[row[s].gen][row[s].exp].work.id = row[s].work.id
       /\ \/ /\ new \in {"ABORTING", "APPLYING"} /\ queue[row[s].gen][row[s].exp].st = "CLAIMED"
             /\ row[s].st = "CLAIMED"
          \/ /\ new = "APPLIED" /\ queue[row[s].gen][row[s].exp].st = "APPLYING"
                  /\ row[s].st = "APPLYING"
             /\ row[s].pc = "mark"
  BY <1>1 DEF Moves, Moving, Is, Q, Place
<1> QED
  BY <1>2, <1>4, <1>5, <1>8, <1>9, <1>10

-----------------------------------------------------------------------------
(* The parts of the invariant, one after the other.                         *)

LEMMA QueueRowsKept == ASSUME TypeOK, DueInv, QueueRows, Newer, Places, Next PROVE QueueRows'
<1> SUFFICES ASSUME NEW g \in Gens, NEW e \in Expiries, queue'[g][e].st \in Unclaimed
             PROVE  queue'[g][e].work = NoWork
  BY DEF QueueRows
<1>1. CASE Calm
  BY <1>1 DEF Calm, Kept, QueueRows
<1>2. ASSUME NEW s \in Hosts, Claiming(s) PROVE queue'[g][e].work = NoWork
  BY <1>2, ClaimingRows DEF QueueRows, Unclaimed
<1>3. ASSUME NEW s \in Hosts, NEW new \in {"ABORTING", "APPLYING", "APPLIED"}, Moves(s, new)
      PROVE  queue'[g][e].work = NoWork
  BY <1>3, MovesRows DEF QueueRows, Unclaimed
<1> QED
  BY <1>1, <1>2, <1>3, StepCases

LEMMA DueKept == ASSUME TypeOK, DueInv, QueueRows, Newer, Places, Next PROVE DueInv'
<1>d. \A k : DueWork(k)' <=> DueWork(k)
  BY DEF DueWork
<1>n. DueWork(NoWork) /\ NoRow.work = NoWork /\ NoRow.pc # "read"
  BY DEF DueWork, NoRow
<1>1. CASE Calm
  <2>1. \A g \in Gens, e \in Expiries : DueWork(queue'[g][e].work)
    BY <1>1, <1>n DEF Calm, Kept, DueInv
  <2>2. ASSUME NEW t \in Hosts
        PROVE  DueWork(row'[t].work) /\ (row'[t].pc = "read" => row'[t].exp \in Due)
    <3>1. CASE row'[t] = row[t]
      BY <3>1 DEF DueInv
    <3>2. CASE row'[t] = NoRow
      BY <3>2, <1>n
    <3>3. CASE Still(row[t], row'[t]) /\ row'[t].pc # "read"
      BY <3>3 DEF DueInv, Still
    <3>4. CASE Loads(row'[t])
      BY <3>4 DEF DueInv, Loads
    <3>5. ASSUME row'[t].pc = "claim", Expiry(item) \in Due, NEW k, row'[t].work = [id |-> k, img |-> item]
          PROVE  DueWork(row'[t].work)
      BY <3>5 DEF DueWork
    <3> QED
      BY <1>1, <3>1, <3>2, <3>3, <3>4, <3>5 DEF Calm, CalmTurn
  <2> QED
    BY <2>1, <2>2, <1>d DEF DueInv
<1>2. ASSUME NEW s \in Hosts, Claiming(s) PROVE DueInv'
  <2>1. \A g \in Gens, e \in Expiries : DueWork(queue'[g][e].work)
    BY <1>2, ClaimingRows DEF DueInv
  <2>2. \A t \in Hosts : DueWork(row'[t].work) /\ (row'[t].pc = "read" => row'[t].exp \in Due)
    BY <1>2, ClaimingRows DEF DueInv
  <2> QED
    BY <2>1, <2>2, <1>d DEF DueInv
<1>3. ASSUME NEW s \in Hosts, NEW new \in {"ABORTING", "APPLYING", "APPLIED"}, Moves(s, new)
      PROVE  DueInv'
  <2>1. \A g \in Gens, e \in Expiries : DueWork(queue'[g][e].work)
    BY <1>3, MovesRows DEF DueInv
  <2>2. \A t \in Hosts : DueWork(row'[t].work) /\ (row'[t].pc = "read" => row'[t].exp \in Due)
    BY <1>3, MovesRows DEF DueInv
  <2> QED
    BY <2>1, <2>2, <1>d DEF DueInv
<1> QED
  BY <1>1, <1>2, <1>3, StepCases

LEMMA OwnedKept == ASSUME TypeOK, Order, Newer, Owned, Places, Next PROVE Owned'
<1>1. sealed' => owner' \in Works
  BY OwnerMove, HostWork DEF OwnerEffect, Owned
<1>2. ASSUME owner' \in Works, NEW w \in Sent', "base" \notin batch'[w].landed
      PROVE  Owner \in batch'[w].newer
  <2>1. Owner \in Cells(batch'[w])
    BY <1>2, CellNames
  <2>2. CASE owner' = owner
    <3>1. ~Sends
      BY <1>2, <2>2, Values DEF Sends, ClaimAndSend
    <3>2. PICK ws, cells, ks : BatchStep(ws, cells, ks)
      BY <3>1, BatchMove, AnyBatch
    <3>3. w \in Sent /\ "base" \notin batch[w].landed
      BY <1>2, <3>2 DEF BatchStep
    <3>4. Owner \in batch[w].newer
      BY <1>2, <2>2, <3>3 DEF Owned
    <3> QED
      BY <1>2, <2>1, <3>2, <3>4 DEF BatchStep
  <2>3. CASE Now({Owner})
    <3>1. BatchStep(Writers, {Owner}, {})
      BY <2>3, BaseBatch
    <3>2. w \in Writers
      BY DEF Sent
    <3> QED
      BY <1>2, <2>1, <3>1, <3>2 DEF BatchStep
  <2>4. owner' \notin Writers \cup {None}
    BY <1>2, Values
  <2> QED
    BY <2>2, <2>3, <2>4, OwnerMove DEF OwnerEffect
<1> QED
  BY <1>1, <1>2 DEF Owned

ReplayEffect == \A k \in replays' : k \in replays
  \/ \E t \in Hosts : row[t].pc = "effects" /\ k = row[t].work.id

LEMMA ReplayMove == ASSUME TypeOK, Next PROVE ReplayEffect
<1> DEFINE Ok == ReplayEffect
<1> SUFFICES Ok
  OBVIOUS
<1> HIDE DEF Ok
<1>u. replays' \subseteq replays => Ok
  BY DEF Ok, ReplayEffect
<1>1. ASSUME NEW w \in Writers, NEW img \in Images0, NEW g \in Gens, ClaimAndSend(w, img,
             g)
      PROVE  Ok
  BY <1>u, <1>1 DEF ClaimAndSend, index, Local
<1>2. ASSUME NEW w \in Writers, NEW img \in Images, OccWrite(w, img) PROVE Ok
  BY <1>2, <1>u DEF OccWrite
<1>3. ASSUME NEW w \in Writers, LandBase(w) \/ GiveUp(w) \/ Lose(w) PROVE Ok
  BY <1>u, <1>3 DEF LandBase, GiveUp, Lose, index, Local
<1>4. ASSUME NEW w \in Writers, LandRest(w) PROVE Ok
  BY <1>4, <1>u DEF LandRest
<1>5. ASSUME NEW s \in Hosts, NEW e \in Expiries, Load(s, e) PROVE Ok
  BY <1>u, <1>5 DEF Load, index, Local
<1>6. ASSUME NEW s \in Hosts, NEW e \in Expiries, DrainLoad(s, e) PROVE Ok
  BY <1>u, <1>6 DEF DrainLoad, index, Local
<1>7. ASSUME NEW s \in Hosts, ClaimWork(s) \/ CheckItem(s) \/ AbortWork(s) \/ OwnBase(s) \/
             Gate(s) \/ Seal(s) \/ MarkApplying(s) \/ CheckOwner(s) \/ MarkApplied(s) \/
             FinalRead(s) \/ DeleteBase(s) \/ ReadSurvivor(s) \/ ReleaseBase(s) \/ RecordRepair(s)
             \/ Destroy(s) \/ Handoff(s) \/ Unmark(s) \/ Reread(s) \/ InsertSeen(s) \/ Crash(s) \/
             DestroyUnknown(s)
      PROVE  Ok
  BY <1>u, <1>7 DEF ClaimWork, CheckItem, AbortWork, OwnBase, Gate, Seal, MarkApplying,
     CheckOwner, MarkApplied, FinalRead, DeleteBase, ReadSurvivor, ReleaseBase, RecordRepair,
     Destroy, Handoff, Unmark, Reread, InsertSeen, Crash, DestroyUnknown, index, Local
<1>8. ASSUME NEW s \in Hosts, ReadItem(s) PROVE Ok
  BY <1>8, <1>u DEF ReadItem
<1>9. ASSUME NEW s \in Hosts, ApplyEffects(s) PROVE Ok
  BY <1>9, <1>u DEF ApplyEffects
<1>10. ASSUME NEW s \in Hosts, RestoreIndex(s) PROVE Ok
  BY <1>10, <1>u DEF RestoreIndex
<1>11. ASSUME NEW s \in Hosts, EffectsUnknown(s) PROVE Ok
  BY <1>11 DEF EffectsUnknown, Ok, ReplayEffect
<1>12. ASSUME NEW k \in Works, Replay(k) PROVE Ok
  BY <1>12, <1>u DEF Replay
<1>13. ASSUME NEW d \in ghosts, LateDestroy(d) PROVE Ok
  BY <1>u, <1>13 DEF LateDestroy, index, Local
<1>14. ASSUME NEW e \in Expiries, ClearRow(e) PROVE Ok
  BY <1>u, <1>14 DEF ClearRow, index, Local
<1>15. CASE ExpireClaim \/ TakeOutboxRow \/ TakeMarker \/ AuditItem \/ BackfillItem \/
           Discharge \/ RetireMarkers \/ AuditDone \/ BackfillDone \/ PassCrash \/ Enable \/
           Disable \/ FinishCleanup
  BY <1>u, <1>15 DEF ExpireClaim, TakeOutboxRow, TakeMarker, AuditItem, BackfillItem, Discharge,
     RetireMarkers, AuditDone, BackfillDone, PassCrash, Enable, Disable, FinishCleanup,
     ReadForPass, RegisterSeen, index, Local
<1> QED
  BY HostNames, ReplayWorks, <1>1, <1>2, <1>3, <1>4, <1>5, <1>6, <1>7, <1>8, <1>9, <1>10, <1>11,
     <1>12, <1>13, <1>14, <1>15 DEF Next, Write, Land, RowStep

LEMMA NewIds ==
    ASSUME TypeOK, DueInv, QueueRows, Places, Ids, Next, NEW s \in Hosts, row'[s].pc = "claim"
    PROVE  /\ row'[s].work.id \in Works /\ Unused(row'[s].work.id, s) /\ row[s].pc \in {"claim", "read"}
           /\ row[s].pc = "claim" => row'[s] = row[s]
<1>1. CASE row'[s] = row[s]
  BY <1>1, HostWork DEF Ids
<1>2. CASE Turn(s, row[s], row'[s])
  <2>1. ~BusyTurn(s, row[s], row'[s])
    BY DEF BusyTurn
  <2>2. ReadItem(s) /\ \E k \in FreeWorks : row'[s].work = [id |-> k, img |-> item]
    <3>1. NoRow.pc # "claim"
      BY DEF NoRow
    <3> QED
      BY <1>2, <2>1, <3>1 DEF Turn, CalmTurn, Loads
  <2>3. PICK k \in FreeWorks : row'[s].work.id = k
    BY <2>2
  <2>4. k \in Works /\ Unused(k, s)
    BY DEF FreeWorks, Unused
  <2>5. row[s].pc = "read"
    BY <2>2 DEF ReadItem
  <2> QED
    BY <2>3, <2>4, <2>5
<1> QED
  BY <1>1, <1>2, RowCases

LEMMA CalmRows ==
    ASSUME TypeOK, Places, Calm, NEW t \in Hosts
    PROVE  \/ row'[t].work = row[t].work /\ row'[t].st = row[t].st
           \/ row'[t] = NoRow
           \/ Loads(row'[t]) /\ UNCHANGED <<base, index, queue, batch>>
                /\ \A u \in Hosts \ {t} : row'[u] = row[u]
           \/ /\ row[t].pc = "read" /\ row'[t].pc = "claim" /\ row'[t].st = "PENDING"
              /\ \E k \in FreeWorks : row'[t].work.id = k
              /\ \A u \in Hosts \ {t} : row'[u] = row[u]
<1>1. row'[t] = row[t] \/ (CalmTurn(t, row[t], row'[t]) /\ row' = [row EXCEPT ![t] = row'[t]])
  BY DEF Calm
<1>2. ASSUME row' = [row EXCEPT ![t] = row'[t]] PROVE \A u \in Hosts \ {t} : row'[u] = row[u]
  BY <1>2, TypeParts
<1>3. ASSUME ReadItem(t) PROVE row[t].pc = "read" /\ row[t].st = "PENDING"
  BY <1>3 DEF ReadItem, Places, Place
<1>4. ASSUME NEW k \in FreeWorks, row'[t].work = [id |-> k, img |-> item] PROVE row'[t].work.id = k
  BY <1>4
<1> QED
  BY <1>1, <1>2, <1>3, <1>4 DEF CalmTurn, Still

LEMMA CalmQueue ==
    ASSUME Calm, NEW g \in Gens, NEW e \in Expiries, queue'[g][e].work # NoWork
    PROVE  queue'[g][e] = queue[g][e]
BY DEF Calm, Kept

(* Rows whose ids are the same are under work.                              *)
LEMMA QueueIds ==
    ASSUME TypeOK, NEW g \in Gens, NEW e \in Expiries
    PROVE  /\ queue[g][e].work = NoWork
                => queue[g][e].work.id = None /\ queue[g][e].work.id \notin Works
           /\ queue[g][e].work # NoWork => queue[g][e].work.id \in Works
<1>1. queue[g][e].work \in WorkData
  BY TypeParts DEF Row
<1> QED
  BY <1>1, WorkIds, Values

LEMMA QueueIdsNext ==
    ASSUME NEW g \in Gens, NEW e \in Expiries, queue'[g][e].work.id \in Works
    PROVE  queue'[g][e].work # NoWork
BY WorkIds, Values

LEMMA IdsKept == ASSUME TypeOK, DueInv, QueueRows, Newer, Owned, Places, Ids, Next PROVE Ids'
<1> DEFINE Once == \A g, h \in Gens, e, f \in Expiries :
          queue'[g][e].work # NoWork /\ queue'[g][e].work.id = queue'[h][f].work.id => g = h /\ e = f
<1>0. \A g, h \in Gens, e, f \in Expiries :
          queue[g][e].work # NoWork /\ queue[g][e].work.id = queue[h][f].work.id => g = h /\ e = f
  BY DEF Ids
<1>1. ASSUME Calm PROVE Once
  <2>1. ASSUME NEW g \in Gens, NEW h \in Gens, NEW e \in Expiries, NEW f \in Expiries,
               queue'[g][e].work # NoWork, queue'[g][e].work.id = queue'[h][f].work.id
        PROVE  g = h /\ e = f
    <3>1. queue'[g][e] = queue[g][e] /\ queue[g][e].work.id \in Works
      BY <1>1, <2>1, CalmQueue, QueueIds
    <3>2. queue'[h][f] = queue[h][f]
      BY <1>1, <2>1, <3>1, CalmQueue, QueueIdsNext
    <3> QED
      BY <1>0, <2>1, <3>1, <3>2
  <2> QED
    BY <2>1
<1>2. ASSUME NEW u \in Hosts, Claiming(u) PROVE Once
  <2>1. Unused(row[u].work.id, u)
    BY <1>2 DEF Claiming, Ids
  <2>2. PICK G \in Gens, E \in Expiries :
             /\ queue'[G][E].work.id = row[u].work.id
             /\ \A g \in Gens, e \in Expiries : ~(g = G /\ e = E) => queue'[g][e] = queue[g][e]
    BY <1>2, ClaimingRows
  <2> QED
    BY <1>0, <2>1, <2>2 DEF Unused
<1>3. ASSUME NEW u \in Hosts, NEW new \in {"ABORTING", "APPLYING", "APPLIED"}, Moves(u, new)
      PROVE  Once
  <2>1. \A g \in Gens, e \in Expiries : queue'[g][e].work = queue[g][e].work
    BY <1>3, MovesRows
  <2> QED
    BY <1>0, <2>1
<1>4. Once
  BY <1>1, <1>2, <1>3, StepCases
<1> HIDE DEF Once
<1>5. ASSUME NEW s \in Hosts, row'[s].pc = "claim" PROVE Unused(row[s].work.id, s)'
  <2> DEFINE k == row'[s].work.id
  <2>1. k \in Works /\ Unused(k, s) /\ row[s].pc \in {"claim", "read"}
          /\ (row[s].pc = "claim" => row'[s] = row[s])
    BY <1>5, NewIds
  <2>2. /\ k # owner /\ k \notin replays
        /\ \A g \in Gens, e \in Expiries : queue[g][e].work.id # k
        /\ \A t \in Hosts \ {s} : row[t].work.id # k
    BY <2>1 DEF Unused
  <2> HIDE DEF k
  <2>3. k # owner'
    <3>1. owner' = owner \/ owner' \in Writers \cup {None} \/ \E t \in Hosts :
              /\ row[t].pc = "own" /\ owner' = row[t].work.id
      BY OwnerMove DEF OwnerEffect
    <3>2. ASSUME NEW t \in Hosts, row[t].pc = "own" PROVE row[t].work.id # k
      BY <2>1, <2>2, <3>2
    <3> QED
      BY <2>1, <2>2, <3>1, <3>2, Values
  <2>4. k \notin replays'
    <3>1. ASSUME NEW t \in Hosts, row[t].pc = "effects" PROVE row[t].work.id # k
      BY <2>1, <2>2, <3>1
    <3> QED
      BY <2>2, <3>1, ReplayMove DEF ReplayEffect
  <2>5. ASSUME NEW g \in Gens, NEW e \in Expiries PROVE queue'[g][e].work.id # k
    <3>1. CASE Calm
      BY <2>1, <2>2, <3>1, CalmQueue, QueueIdsNext
    <3>2. ASSUME NEW u \in Hosts, Claiming(u) PROVE queue'[g][e].work.id # k
      <4>1. u # s
        BY <1>5, <3>2, ClaimingRows
      <4> QED
        BY <2>2, <3>2, <4>1, ClaimingRows
    <3>3. ASSUME NEW u \in Hosts, NEW new \in {"ABORTING", "APPLYING", "APPLIED"}, Moves(u, new)
          PROVE  queue'[g][e].work.id # k
      <4>1. queue'[g][e].work = queue[g][e].work
        BY <3>3, MovesRows
      <4> QED
        BY <2>2, <4>1
    <3> QED
      BY <3>1, <3>2, <3>3, StepCases
  <2>6. ASSUME NEW t \in Hosts \ {s} PROVE row'[t].work.id # k
    <3>1. CASE Calm
      <4>1. ASSUME row'[t] = NoRow PROVE row'[t].work.id # k
        BY <2>1, <4>1, WorkIds, Values DEF NoRow
      <4>2. ASSUME Loads(row'[t]) PROVE row'[t].work.id # k
        BY <2>2, <4>2 DEF Loads
      <4>3. ASSUME \E j \in FreeWorks : row'[t].work.id = j, \A u \in Hosts \ {t} : row'[u] = row[u]
            PROVE  row'[t].work.id # k
        <5>1. row'[s] = row[s]
          BY <2>6, <4>3
        <5> QED
          BY <4>3, <5>1 DEF FreeWorks, k
      <4> QED
        BY <2>2, <3>1, <4>1, <4>2, <4>3, CalmRows
    <3>2. ASSUME NEW u \in Hosts, Claiming(u) PROVE row'[t].work = row[t].work
      BY <3>2, ClaimingRows
    <3>3. ASSUME NEW u \in Hosts, NEW new \in {"ABORTING", "APPLYING", "APPLIED"}, Moves(u, new)
          PROVE  row'[t].work = row[t].work
      BY <3>3, MovesRows
    <3> QED
      BY <2>2, <3>1, <3>2, <3>3, StepCases
  <2> QED
    BY <2>3, <2>4, <2>5, <2>6 DEF Unused, k
<1> QED
  BY <1>4, <1>5 DEF Ids, Once

-----------------------------------------------------------------------------
(* The way of a row, and the base row of work whose effects are on.         *)

LEMMA FromWay ==
    /\ \A st \in States : st \in From(st)
    /\ \A st \in States : "CLAIMED" \in From(st) => "ABORTING" \in From(st) /\ "APPLYING" \in From(st)
    /\ \A st \in States : "APPLYING" \in From(st) => "APPLIED" \in From(st)
    /\ From("ABORTING") = {"ABORTING"} /\ From("APPLYING") = {"APPLYING", "APPLIED"}
    /\ From("APPLIED") = {"APPLIED"}
BY DEF From, States, Claimed

LEMMA PhasesKept ==
    ASSUME TypeOK, DueInv, QueueRows, Newer, Places, Ids, Phases, Next
    PROVE  Phases'
<1> DEFINE Way == \A s \in Hosts, g \in Gens, e \in Expiries :
                     row'[s].work # NoWork /\ queue'[g][e].work.id = row'[s].work.id
                         => queue'[g][e].st \in From(row'[s].st)
           Late == \A g \in Gens, e \in Expiries :
                      queue'[g][e].work.id \in replays' => queue'[g][e].st \in From("APPLYING")
           Apart == \A s \in Hosts : row'[s].st = "ABORTING" =>
                       /\ row'[s].work.id \notin replays'
                       /\ \A t \in Hosts : row'[t].work = NoWork \/ row'[t].work.id # row'[s].work.id
                                           \/ row'[t].st \notin From("APPLYING")
<1>0. /\ \A g, h \in Gens, e, f \in Expiries :
            queue[g][e].work # NoWork /\ queue[g][e].work.id = queue[h][f].work.id => g = h /\ e = f
      /\ \A s \in Hosts : row[s].pc = "claim" => Unused(row[s].work.id, s)
  BY DEF Ids
<1>w. \A s \in Hosts, g \in Gens, e \in Expiries :
          row[s].work # NoWork /\ queue[g][e].work.id = row[s].work.id
            => queue[g][e].st \in From(row[s].st)
  BY DEF Phases
<1>l. \A g \in Gens, e \in Expiries :
          queue[g][e].work.id \in replays => queue[g][e].st \in From("APPLYING")
  BY DEF Phases
<1>a. \A s \in Hosts : row[s].st = "ABORTING" =>
          /\ row[s].work.id \notin replays
          /\ \A t \in Hosts : row[t].work = NoWork \/ row[t].work.id # row[s].work.id
                              \/ row[t].st \notin From("APPLYING")
  BY DEF Phases
<1>h. \A s \in Hosts : row[s].st \in States
  BY TypeParts DEF Host
<1>i. replays' \subseteq Works /\ \A s \in Hosts : row'[s].work # NoWork => row'[s].work.id \in Works
  <2>1. TypeOK'
    BY TypesKept
  <2>2. ASSUME NEW s \in Hosts PROVE row'[s].work \in WorkData
    BY <2>1 DEF TypeOK
  <2> QED
    BY <2>1, <2>2, WorkIds DEF TypeOK
<1>r. ASSUME NEW k \in replays', k \notin replays
      PROVE  \E t \in Hosts : row[t].st = "APPLYING" /\ row[t].work # NoWork /\ row[t].work.id = k
  <2>1. PICK t \in Hosts : row[t].pc = "effects" /\ k = row[t].work.id
    BY <1>r, ReplayMove DEF ReplayEffect
  <2> QED
    BY <2>1, HostWork DEF Places, Place
<1>n. NoRow.work = NoWork /\ NoRow.st = "none"
  BY DEF NoRow
<1>1. ASSUME Calm PROVE Way /\ Late /\ Apart
  <2>1. ASSUME NEW g \in Gens, NEW e \in Expiries, queue'[g][e].work.id \in Works
        PROVE  queue'[g][e] = queue[g][e] /\ queue[g][e].work # NoWork
    BY <1>1, <2>1, CalmQueue, QueueIdsNext
  <2>2. Way
    <3> SUFFICES ASSUME NEW s \in Hosts, NEW g \in Gens, NEW e \in Expiries,
                        row'[s].work # NoWork, queue'[g][e].work.id = row'[s].work.id
                 PROVE  queue'[g][e].st \in From(row'[s].st)
      OBVIOUS
    <3>1. queue'[g][e] = queue[g][e] /\ queue[g][e].work # NoWork
      BY <1>i, <2>1
    <3>2. CASE row'[s].work = row[s].work /\ row'[s].st = row[s].st
      BY <1>w, <3>1, <3>2
    <3>3. ASSUME Loads(row'[s]) PROVE queue'[g][e].st \in From(row'[s].st)
      <4>1. PICK h \in Gens, f \in Expiries :
                row'[s].st = queue[h][f].st /\ row'[s].work = queue[h][f].work
        BY <3>3 DEF Loads
      <4>2. h = g /\ f = e
        BY <1>0, <3>1, <4>1
      <4>3. queue[g][e].st \in States
        BY TypeParts DEF Row
      <4> QED
        BY <3>1, <4>1, <4>2, <4>3, FromWay
    <3>4. ASSUME NEW k \in FreeWorks PROVE row'[s].work.id # k
      BY <3>1 DEF FreeWorks
    <3> QED
      BY <1>1, <1>n, <3>2, <3>3, <3>4, CalmRows
  <2>3. Late
    <3> SUFFICES ASSUME NEW g \in Gens, NEW e \in Expiries, queue'[g][e].work.id \in replays'
                 PROVE  queue'[g][e].st \in From("APPLYING")
      OBVIOUS
    <3>1. queue'[g][e] = queue[g][e]
      BY <1>i, <2>1
    <3>2. CASE queue'[g][e].work.id \in replays
      BY <1>l, <3>1, <3>2
    <3>3. CASE queue'[g][e].work.id \notin replays
      BY <1>r, <1>w, <3>1, <3>3
    <3> QED
      BY <3>2, <3>3
  <2>4. ASSUME NEW s \in Hosts, row'[s].st \in {"ABORTING", "APPLYING", "APPLIED"}
        PROVE  \/ row'[s].work = row[s].work /\ row'[s].st = row[s].st
               \/ /\ \E g \in Gens, e \in Expiries :
                         row'[s].st = queue[g][e].st /\ row'[s].work = queue[g][e].work
                  /\ replays' = replays /\ \A u \in Hosts \ {s} : row'[u] = row[u]
    BY <1>1, <1>n, <2>4, CalmRows DEF Loads, index
  <2>5. Apart
    <3> SUFFICES ASSUME NEW s \in Hosts, row'[s].st = "ABORTING"
                 PROVE  /\ row'[s].work.id \notin replays'
                        /\ \A t \in Hosts : row'[t].work = NoWork \/ row'[t].work.id # row'[s].work.id
                                            \/ row'[t].st \notin From("APPLYING")
      OBVIOUS
    <3>1. row'[s].work.id \notin replays'
      <4>1. CASE row'[s].work = row[s].work /\ row'[s].st = row[s].st
        BY <1>a, <1>r, <4>1, FromWay
      <4>2. ASSUME NEW g \in Gens, NEW e \in Expiries, row'[s].st = queue[g][e].st,
                   row'[s].work = queue[g][e].work, replays' = replays
            PROVE  row'[s].work.id \notin replays'
        BY <1>l, <4>2, FromWay
      <4> QED
        BY <2>4, <4>1, <4>2
    <3>2. ASSUME NEW t \in Hosts, row'[t].work # NoWork, row'[t].work.id = row'[s].work.id,
                 row'[t].st \in From("APPLYING")
          PROVE  FALSE
      <4>1. row'[t].st \in {"APPLYING", "APPLIED"} /\ t # s
        BY <3>2, FromWay
      <4>2. ASSUME NEW g \in Gens, NEW e \in Expiries, row'[s].st = queue[g][e].st,
                   row'[s].work = queue[g][e].work, row'[t] = row[t]
            PROVE  FALSE
        BY <1>w, <3>2, <4>1, <4>2, FromWay
      <4>3. ASSUME NEW g \in Gens, NEW e \in Expiries, row'[t].st = queue[g][e].st,
                   row'[t].work = queue[g][e].work, row'[s] = row[s]
            PROVE  FALSE
        <5>1. row[s].work # NoWork
          BY <4>3, HostWork DEF Claimed
        <5> QED
          BY <1>w, <3>2, <4>1, <4>3, <5>1, FromWay
      <4>4. CASE row'[s].work = row[s].work /\ row'[s].st = row[s].st /\ row'[t].work = row[t].work
                 /\ row'[t].st = row[t].st
        BY <1>a, <3>2, <4>4
      <4>5. row'[s].st \in {"ABORTING", "APPLYING", "APPLIED"}
              /\ row'[t].st \in {"ABORTING", "APPLYING", "APPLIED"}
        BY <4>1
      <4> QED
        BY <2>4, <4>1, <4>2, <4>3, <4>4, <4>5
    <3> QED
      BY <3>1, <3>2
  <2> QED
    BY <2>2, <2>3, <2>5
<1>2. ASSUME NEW u \in Hosts, Claiming(u) PROVE Way /\ Late /\ Apart
  <2>1. /\ Unused(row[u].work.id, u) /\ replays' = replays /\ row[u].work # NoWork
        /\ row'[u].st = "CLAIMED" /\ row'[u].work = row[u].work
        /\ \A t \in Hosts \ {u} : row'[t] = row[t]
    BY <1>0, <1>2, ClaimingRows, HostWork DEF Claiming, index
  <2>2. PICK G \in Gens, E \in Expiries :
             /\ queue'[G][E].work = row[u].work /\ queue'[G][E].st = "CLAIMED"
             /\ \A g \in Gens, e \in Expiries : ~(g = G /\ e = E) => queue'[g][e] = queue[g][e]
    BY <1>2, ClaimingRows
  <2>3. "CLAIMED" \in From("CLAIMED")
    BY DEF From, Claimed
  <2>4. Way
    BY <1>w, <2>1, <2>2, <2>3 DEF Unused
  <2>5. Late
    BY <1>l, <2>1, <2>2 DEF Unused
  <2>6. Apart
    BY <1>a, <2>1, FromWay
  <2> QED
    BY <2>4, <2>5, <2>6
<1>3. ASSUME NEW u \in Hosts, NEW new \in {"ABORTING", "APPLYING", "APPLIED"}, Moves(u, new)
      PROVE  Way /\ Late /\ Apart
  <2>1. /\ replays' = replays /\ row[u].work # NoWork /\ row'[u].st = new /\ row'[u].work = row[u].work
        /\ \A t \in Hosts \ {u} : row'[t] = row[t]
    <3>1. replays' = replays
      BY <1>3 DEF Moves, index
    <3> QED
      BY <1>3, <3>1, MovesRows
  <2>2. PICK G \in Gens, E \in Expiries :
             /\ queue'[G][E].work = queue[G][E].work /\ queue'[G][E].st = new
             /\ queue[G][E].work.id = row[u].work.id
             /\ \/ new \in {"ABORTING", "APPLYING"} /\ queue[G][E].st = "CLAIMED"
                \/ new = "APPLIED" /\ queue[G][E].st = "APPLYING"
             /\ \A g \in Gens, e \in Expiries : ~(g = G /\ e = E) => queue'[g][e] = queue[g][e]
    BY <1>3, MovesRows
  <2>3. queue[G][E].work # NoWork
    BY <2>1, <2>2, QueueIds, HostWork
  <2>4. Way
    <3> SUFFICES ASSUME NEW s \in Hosts, NEW g \in Gens, NEW e \in Expiries,
                        row'[s].work # NoWork, queue'[g][e].work.id = row'[s].work.id
                 PROVE  queue'[g][e].st \in From(row'[s].st)
      OBVIOUS
    <3>1. CASE g = G /\ e = E /\ s = u
      <4>1. new \in States
        BY DEF States
      <4> QED
        BY <2>1, <2>2, <3>1, <4>1, FromWay
    <3>2. CASE g = G /\ e = E /\ s # u
      BY <1>h, <1>w, <2>1, <2>2, <3>2, FromWay
    <3>3. CASE ~(g = G /\ e = E) /\ s = u
      BY <1>0, <2>1, <2>2, <2>3, <3>3
    <3>4. CASE ~(g = G /\ e = E) /\ s # u
      BY <1>w, <2>1, <2>2, <3>4
    <3> QED
      BY <3>1, <3>2, <3>3, <3>4
  <2>5. Late
    BY <1>l, <2>1, <2>2, FromWay
  <2>6. Apart
    <3> SUFFICES ASSUME NEW s \in Hosts, row'[s].st = "ABORTING"
                 PROVE  /\ row'[s].work.id \notin replays'
                        /\ \A t \in Hosts : row'[t].work = NoWork \/ row'[t].work.id # row'[s].work.id
                                            \/ row'[t].st \notin From("APPLYING")
      OBVIOUS
    <3>1. CASE s = u
      <4>1. queue[G][E].st = "CLAIMED"
        BY <2>1, <2>2, <3>1
      <4>2. row'[s].work.id \notin replays'
        BY <1>l, <2>1, <2>2, <3>1, <4>1, FromWay
      <4>3. ASSUME NEW t \in Hosts, row'[t].work # NoWork, row'[t].work.id = row'[s].work.id,
                   row'[t].st \in From("APPLYING")
            PROVE  FALSE
        <5>1. row'[t] = row[t]
          BY <2>1, <3>1, <4>3, FromWay
        <5> QED
          BY <1>w, <2>1, <2>2, <3>1, <4>1, <4>3, <5>1, FromWay
      <4> QED
        BY <4>2, <4>3
    <3>2. CASE s # u
      <4>1. row'[s] = row[s] /\ row[s].work # NoWork
        BY <2>1, <3>2, HostWork DEF Claimed
      <4>2. row'[u].work.id = row'[s].work.id => FALSE
        BY <1>w, <2>1, <2>2, <4>1, FromWay
      <4> QED
        BY <1>a, <2>1, <4>1, <4>2
    <3> QED
      BY <3>1, <3>2
  <2> QED
    BY <2>4, <2>5, <2>6
<1>4. Way /\ Late /\ Apart
  BY <1>1, <1>2, <1>3, StepCases
<1> HIDE DEF Way, Late, Apart
<1> QED
  BY <1>4 DEF Phases, Way, Late, Apart

(* A base row that work has sealed is its own, or the work is over.         *)
LEMMA SealedKept ==
    ASSUME TypeOK, Owned, Places, Next, sealed, owner # None
    PROVE  \/ sealed' /\ owner' = owner
           \/ \E s \in Hosts : /\ row[s].st \in {"ABORTING", "APPLIED"} /\ row[s].work # NoWork
                               /\ owner = row[s].work.id /\ UNCHANGED <<index, queue>>
                               /\ \A t \in Hosts : Still(row[t], row'[t])
BY OwnerMove DEF OwnerEffect

LEMMA FenceKept ==
    ASSUME TypeOK, DueInv, QueueRows, Newer, Owned, Places, Ids, Phases, Fence, Next
    PROVE  Fence'
<1>f. \A g \in Gens, e \in Expiries :
          (queue[g][e].st = "APPLYING" /\ queue[g][e].work # NoWork)
              => sealed /\ owner = queue[g][e].work.id
  BY DEF Fence, Fenced
<1>a. \A s \in Hosts : row[s].pc = "apply" =>
          \/ sealed /\ owner = row[s].work.id
          \/ \A g \in Gens, e \in Expiries :
                queue[g][e].work.id = row[s].work.id => queue[g][e].st # "CLAIMED"
  BY DEF Fence
<1>w. \A s \in Hosts, g \in Gens, e \in Expiries :
          row[s].work # NoWork /\ queue[g][e].work.id = row[s].work.id
            => queue[g][e].st \in From(row[s].st)
  BY DEF Phases
<1>1. ASSUME NEW g \in Gens, NEW e \in Expiries, queue'[g][e].st = "APPLYING", queue'[g][e].work # NoWork
      PROVE  sealed' /\ owner' = queue'[g][e].work.id
  <2>1. ASSUME Calm PROVE sealed' /\ owner' = queue'[g][e].work.id
    <3>1. queue'[g][e] = queue[g][e]
      BY <1>1, <2>1, CalmQueue
    <3>2. sealed /\ owner = queue[g][e].work.id /\ owner # None
      BY <1>1, <1>f, <3>1, QueueIds, Values
    <3>3. ASSUME NEW s \in Hosts, row[s].st \in {"ABORTING", "APPLIED"}, row[s].work # NoWork,
                 owner = row[s].work.id
          PROVE  FALSE
      BY <1>1, <1>w, <3>1, <3>2, <3>3, FromWay
    <3> QED
      BY <3>1, <3>2, <3>3, SealedKept
  <2>2. ASSUME NEW u \in Hosts, Claiming(u) PROVE sealed' /\ owner' = queue'[g][e].work.id
    <3>1. queue'[g][e] = queue[g][e]
      BY <1>1, <2>2, ClaimingRows
    <3> QED
      BY <1>1, <1>f, <2>2, <3>1 DEF Claiming, base
  <2>3. ASSUME NEW u \in Hosts, NEW new \in {"ABORTING", "APPLYING", "APPLIED"}, Moves(u, new)
        PROVE  sealed' /\ owner' = queue'[g][e].work.id
    <3>1. UNCHANGED base
      BY <2>3 DEF Moves
    <3>2. CASE queue'[g][e] = queue[g][e]
      BY <1>1, <1>f, <3>1, <3>2 DEF base
    <3>3. CASE queue'[g][e] # queue[g][e]
      <4>1. /\ g = row[u].gen /\ e = row[u].exp /\ new = "APPLYING" /\ queue[g][e].st = "CLAIMED"
            /\ queue[g][e].work.id = row[u].work.id /\ queue'[g][e].work = queue[g][e].work
        BY <1>1, <2>3, <3>3, MovesRows
      <4>2. row[u].pc = "apply"
        BY <2>3, <4>1 DEF Moves, Moving
      <4>3. sealed /\ owner = row[u].work.id
        BY <1>a, <4>1, <4>2
      <4> QED
        BY <3>1, <4>1, <4>3 DEF base
    <3> QED
      BY <3>2, <3>3
  <2> QED
    BY <2>1, <2>2, <2>3, StepCases
<1>2. ASSUME NEW s \in Hosts, row'[s].pc = "apply"
      PROVE  \/ sealed' /\ owner' = row'[s].work.id
             \/ \A g \in Gens, e \in Expiries :
                   queue'[g][e].work.id = row'[s].work.id => queue'[g][e].st # "CLAIMED"
  <2> DEFINE Ok == \/ sealed' /\ owner' = row'[s].work.id
                   \/ \A g \in Gens, e \in Expiries :
                         queue'[g][e].work.id = row'[s].work.id => queue'[g][e].st # "CLAIMED"
  <2>1. ASSUME Calm, row'[s] = row[s] PROVE Ok
    <3>1. row[s].work # NoWork /\ row[s].work.id \in Works /\ row[s].work.id # None
      BY <1>2, <2>1, HostWork
    <3>2. CASE sealed /\ owner = row[s].work.id
      <4>1. ASSUME NEW t \in Hosts, row[t].st \in {"ABORTING", "APPLIED"}, row[t].work # NoWork,
                   owner = row[t].work.id, UNCHANGED queue
            PROVE  Ok
        BY <1>w, <2>1, <3>2, <4>1, FromWay
      <4> HIDE DEF Ok
      <4> QED
        BY <2>1, <3>1, <3>2, <4>1, SealedKept DEF Ok
    <3>3. CASE \A g \in Gens, e \in Expiries :
                  queue[g][e].work.id = row[s].work.id => queue[g][e].st # "CLAIMED"
      <4>1. ASSUME NEW g \in Gens, NEW e \in Expiries, queue'[g][e].work.id = row'[s].work.id
            PROVE  queue'[g][e].st # "CLAIMED"
        <5>1. queue'[g][e] = queue[g][e]
          BY <2>1, <3>1, <4>1, CalmQueue, QueueIdsNext
        <5> QED
          BY <2>1, <3>3, <4>1, <5>1
      <4> QED
        BY <4>1
    <3> QED
      BY <1>2, <1>a, <2>1, <3>2, <3>3
  <2>2. ASSUME Calm, CalmTurn(s, row[s], row'[s]) PROVE Ok
    <3>1. NoRow.pc # "apply"
      BY DEF NoRow
    <3>2. Still(row[s], row'[s]) /\ Seal(s) /\ owner = row[s].work.id /\ item = row[s].work.img
      BY <1>2, <2>2, <3>1 DEF CalmTurn, Loads
    <3>3. sealed' /\ owner' = owner
      BY <3>2 DEF Seal
    <3> QED
      BY <3>2, <3>3 DEF Still
  <2>3. ASSUME NEW u \in Hosts, Claiming(u) PROVE Ok
    <3>1. row'[s] = row[s] /\ s # u
      BY <1>2, <2>3, ClaimingRows
    <3>2. row[u].work.id # row[s].work.id
      BY <2>3, <3>1 DEF Ids, Unused, Claiming
    <3>3. \A g \in Gens, e \in Expiries :
              queue'[g][e] = queue[g][e] \/ queue'[g][e].work.id = row[u].work.id
      BY <2>3, ClaimingRows
    <3>4. UNCHANGED base
      BY <2>3 DEF Claiming
    <3> QED
      BY <1>2, <1>a, <3>1, <3>2, <3>3, <3>4 DEF base
  <2>4. ASSUME NEW u \in Hosts, NEW new \in {"ABORTING", "APPLYING", "APPLIED"}, Moves(u, new)
        PROVE  Ok
    <3>1. row'[s] = row[s]
      BY <1>2, <2>4, MovesRows
    <3>2. \A g \in Gens, e \in Expiries : queue'[g][e] = queue[g][e] \/ queue'[g][e].st = new
      BY <2>4, MovesRows
    <3>3. UNCHANGED base
      BY <2>4 DEF Moves
    <3> QED
      BY <1>2, <1>a, <3>1, <3>2, <3>3 DEF base
  <2>5. Calm => row'[s] = row[s] \/ CalmTurn(s, row[s], row'[s])
    BY DEF Calm
  <2> HIDE DEF Ok
  <2>6. Ok
    BY <2>1, <2>2, <2>3, <2>4, <2>5, StepCases
  <2> QED
    BY <2>6 DEF Ok
<1> QED
  BY <1>1, <1>2 DEF Fence, Fenced

-----------------------------------------------------------------------------
(* What the effects of work have erased stays erased.                       *)

LEMMA SweptStep ==
    ASSUME NEW ws, NEW cells, NEW ks, BatchStep(ws, cells, ks), NEW k, k \notin ks, Swept(k)
    PROVE  Swept(k)'
<1> SUFFICES ASSUME NEW w \in Sent', "rest" \notin batch'[w].landed, k \notin batch'[w].beats
             PROVE  Index \in batch'[w].newer
  BY DEF Swept
<1>1. w \in Sent /\ "rest" \notin batch[w].landed /\ k \notin batch[w].beats
  BY DEF BatchStep
<1>2. Index \in batch[w].newer
  BY <1>1 DEF Swept
<1>3. Index \in Cells(batch'[w])
  BY CellNames
<1> QED
  BY <1>2, <1>3 DEF BatchStep

LEMMA SweptSend == ASSUME TypeOK, Newer, Sends, NEW k \in Works, Swept(k) PROVE Swept(k)'
<1>1. PICK u \in Writers, img \in Images0, g \in Gens : ClaimAndSend(u, img, g)
  BY DEF Sends
<1>2. /\ Sent' = Sent \cup {u} /\ batch'[u].beats = Sent \cup Works
      /\ \A v \in Writers \ {u} :
            /\ batch'[v].beats = batch[v].beats /\ batch'[v].landed = batch[v].landed
            /\ v \in Sent => batch'[v].newer = batch[v].newer \cup ({Owner} \cap Cells(batch[v]))
  BY <1>1, SendFields
<1>3. Sent \subseteq Writers
  BY DEF Sent
<1> QED
  BY <1>2, <1>3 DEF Swept

(* A write to every pin on the index sweeps it for every work.              *)
LEMMA SweptNow ==
    ASSUME NEW ws, NEW cells, BatchStep(ws, cells, {}), Index \in cells, NEW k,
           \A w \in Sent' : "rest" \notin batch'[w].landed /\ k \notin batch[w].beats => w \in ws
    PROVE  Swept(k)'
<1> SUFFICES ASSUME NEW w \in Sent', "rest" \notin batch'[w].landed, k \notin batch'[w].beats
             PROVE  Index \in batch'[w].newer
  BY DEF Swept
<1>1. k \notin batch[w].beats
  BY DEF BatchStep
<1>2. Index \in Cells(batch'[w]) /\ w \in ws
  BY <1>1, CellNames
<1> QED
  BY <1>2 DEF BatchStep

LEMMA SweptLanding ==
    ASSUME TypeOK, Order, Newer, NEW w \in Writers, LandRest(w), Index \notin batch[w].newer,
           NEW k \in batch[w].beats \cap Works
    PROVE  Swept(k)'
<1>1. /\ w \in Sent /\ BatchStep(batch[w].beats \cap Writers, RestCells(batch[w]), {})
      /\ batch'[w].pc = "sent" => "rest" \in batch'[w].landed
      /\ Index \in RestCells(batch[w])
  BY LandRestBatch
<1>2. ASSUME NEW v \in Sent', "rest" \notin batch'[v].landed, k \notin batch[v].beats
      PROVE  v \in batch[w].beats \cap Writers
  <2>1. v # w /\ v \in Sent /\ v \in Writers
    BY <1>1, <1>2 DEF BatchStep, Sent
  <2>2. ~Pins(w, v)
    BY <1>1, <1>2, <2>1 DEF Order
  <2>3. Pins(v, w)
    BY <1>1, <2>1, <2>2 DEF Order
  <2> QED
    BY <2>1, <2>3 DEF Pins
<1> QED
  BY <1>1, <1>2, SweptNow

LEMMA SweptKept ==
    ASSUME TypeOK, Order, Newer, Places, Next, \A k \in idxNewer : Swept(k)
    PROVE  \A k \in idxNewer' : Swept(k)'
<1>w. idxNewer \subseteq Works
  BY DEF TypeOK
<1>1. ASSUME NEW ws, NEW cells, BatchStep(ws, cells, {}), NEW k \in idxNewer PROVE Swept(k)'
  BY <1>1, SweptStep
<1>2. CASE Sends /\ idxNewer' = idxNewer
  BY <1>2, <1>w, SweptSend
<1>3. ASSUME NEW cells, Index \in cells, BatchStep(Writers, cells, {}), NEW k PROVE Swept(k)'
  <2>1. Sent' \subseteq Writers
    BY DEF Sent
  <2> QED
    BY <1>3, <2>1, SweptNow
<1>4. ASSUME NEW w \in Writers, LandRest(w), Index \notin batch[w].newer,
             BatchStep(batch[w].beats \cap Writers, RestCells(batch[w]), {}), NEW k \in idxNewer'
      PROVE  Swept(k)'
  <2>1. k \in idxNewer \/ k \in batch[w].beats \cap Works
    BY <1>4 DEF LandRest
  <2>2. CASE k \in idxNewer
    BY <1>1, <1>4, <2>2
  <2>3. CASE k \in batch[w].beats \cap Works
    BY <1>4, <2>3, SweptLanding
  <2> QED
    BY <2>1, <2>2, <2>3
<1>5. ASSUME NEW j \in FreeWorks, BatchStep({}, {}, {j}), NEW k \in idxNewer \ {j} PROVE Swept(k)'
  BY <1>5, SweptStep
<1> QED
  BY <1>1, <1>2, <1>3, <1>4, <1>5, BatchMove DEF BatchEffect

LEMMA DoneKept ==
    ASSUME TypeOK, Order, Newer, Places, Next, NEW k \in Works \ FreeWorks, Done(k)
    PROVE  Done(k)'
<1>1. Swept(k) /\ (idx = None \/ k \in idxNewer)
  BY DEF Done
<1>2. Swept(k)'
  <2>1. ASSUME NEW ws, NEW cells, NEW ks, BatchStep(ws, cells, ks), ks \subseteq FreeWorks
        PROVE  Swept(k)'
    BY <1>1, <2>1, SweptStep
  <2> QED
    BY <1>1, <2>1, SweptSend, BatchMove, AnyBatch
<1>3. idx' = None \/ k \in idxNewer'
  <2>1. ASSUME NEW w \in Writers, LandRest(w), Index \notin batch[w].newer
        PROVE  k \in idxNewer'
    <3>1. w \in Sent /\ "rest" \notin batch[w].landed
      BY <2>1, LandRestBatch
    <3>2. k \in batch[w].beats
      BY <1>1, <2>1, <3>1 DEF Swept
    <3> QED
      BY <2>1, <3>2 DEF LandRest
  <2>2. ASSUME NEW j \in FreeWorks, idx' = idx, idxNewer' = idxNewer \ {j}
        PROVE  idx' = None \/ k \in idxNewer'
    BY <1>1, <2>2
  <2>3. ASSUME idxNewer' = Works PROVE k \in idxNewer'
    BY <2>3
  <2>4. ASSUME idx' = idx, idxNewer' = idxNewer PROVE idx' = None \/ k \in idxNewer'
    BY <1>1, <2>4
  <2> QED
    BY <2>1, <2>2, <2>3, <2>4, BatchMove DEF BatchEffect
<1> QED
  BY <1>2, <1>3 DEF Done

LEMMA EffectsDone ==
    ASSUME TypeOK, Order, Newer, Erased, NEW k \in Works, Effects(k), idxNewer' = idxNewer
    PROVE  Done(k)'
<1>1. CASE k \in idxNewer
  <2>1. Swept(k) /\ batch' = batch
    BY <1>1 DEF Erased, Effects
  <2>2. Swept(k)'
    BY <2>1 DEF Swept, Sent
  <2> QED
    BY <1>1, <2>2 DEF Done
<1>2. CASE k \notin idxNewer
  <2> DEFINE ws == {w \in Writers : k \notin batch[w].beats}
  <2>1. BatchStep(ws, {Index}, {}) /\ idx' = None
    BY <1>2, EffectsBatch DEF Effects
  <2>2. \A w \in Sent' : k \notin batch[w].beats => w \in ws
    BY DEF Sent
  <2> HIDE DEF ws
  <2>3. Swept(k)'
    BY <2>1, <2>2, SweptNow
  <2> QED
    BY <2>1, <2>3 DEF Done
<1> QED
  BY <1>1, <1>2

LEMMA ErasedKept ==
    ASSUME TypeOK, DueInv, QueueRows, Order, Newer, Owned, Places, Ids, Phases, Fence, Erased, Next
    PROVE  Erased'
<1>e. /\ \A s \in Hosts : row[s].st = "APPLIED" \/ row[s].pc = "mark" => Done(row[s].work.id)
      /\ \A g \in Gens, e \in Expiries :
            queue[g][e].st = "APPLIED" /\ queue[g][e].work # NoWork => Done(queue[g][e].work.id)
      /\ \A k \in Works :
            k \in replays \/ (\E s \in Hosts : row[s].st = "APPLYING" /\ row[s].work.id = k)
               => Done(k) \/ (sealed /\ owner = k)
  BY DEF Erased
<1>d. \A k \in Works : k \notin FreeWorks /\ Done(k) => Done(k)'
  BY DoneKept
<1>u. /\ \A s \in Hosts : row[s].work.id \notin FreeWorks
      /\ \A g \in Gens, e \in Expiries : queue[g][e].work.id \notin FreeWorks
      /\ \A k \in replays : k \notin FreeWorks
  BY DEF FreeWorks
<1>t. \A s \in Hosts : row'[s].st \in Claimed => row'[s].work # NoWork /\ row'[s].work.id \in Works
  <2>1. TypeOK' /\ Places'
    BY TypesKept, PlacesKept
  <2>2. ASSUME NEW s \in Hosts
        PROVE  row'[s].work \in WorkData /\ (row'[s].st \in Claimed => row'[s].work # NoWork)
    BY <2>1 DEF TypeOK, Places, Place
  <2> QED
    BY <2>2, WorkIds
<1>1. ASSUME NEW s \in Hosts, row'[s].st = "APPLIED" \/ row'[s].pc = "mark"
      PROVE  Done(row[s].work.id)'
  <2>1. PICK k : k = row'[s].work.id
    OBVIOUS
  <2>2. ASSUME row'[s].work = row[s].work, row[s].st = "APPLIED" \/ row[s].pc = "mark"
        PROVE  Done(k)'
    <3>1. k \in Works /\ k \notin FreeWorks /\ Done(k)
      BY <1>e, <1>u, <2>1, <2>2, HostWork DEF Claimed
    <3> QED
      BY <1>d, <3>1
  <2>3. ASSUME Still(row[s], row'[s]), ApplyEffects(s) PROVE Done(k)'
    <3>1. k = row[s].work.id /\ Effects(k) /\ idxNewer' = idxNewer /\ row[s].pc = "effects"
      BY <2>1, <2>3 DEF Still, ApplyEffects
    <3>2. k \in Works
      BY <3>1, HostWork
    <3> QED
      BY <3>1, <3>2, EffectsDone
  <2>4. ASSUME Loads(row'[s]) PROVE Done(k)'
    <3>1. row'[s].st = "APPLIED"
      BY <1>1, <2>4 DEF Loads
    <3>2. PICK g \in Gens, e \in Expiries :
              row'[s].st = queue[g][e].st /\ row'[s].work = queue[g][e].work
      BY <2>4 DEF Loads
    <3>3. queue[g][e].work # NoWork /\ k \in Works
      BY <1>t, <2>1, <3>1, <3>2 DEF Claimed
    <3>4. Done(k) /\ k \notin FreeWorks
      BY <1>e, <1>u, <2>1, <3>1, <3>2, <3>3
    <3> QED
      BY <1>d, <3>3, <3>4
  <2>5. ASSUME ReadItem(s), row'[s].pc = "claim", row'[s].st = row[s].st PROVE FALSE
    BY <1>1, <2>5 DEF ReadItem, Places, Place
  <2>6. ASSUME BusyTurn(s, row[s], row'[s]) PROVE Done(k)'
    BY <1>1, <2>2, <2>6 DEF BusyTurn, MarkApplied
  <2>7. NoRow.st # "APPLIED" /\ NoRow.pc # "mark"
    BY DEF NoRow
  <2>8. ASSUME CalmTurn(s, row[s], row'[s]) PROVE Done(k)'
    BY <1>1, <2>2, <2>3, <2>4, <2>5, <2>7, <2>8 DEF CalmTurn, Still
  <2>9. ASSUME row'[s] = row[s] PROVE Done(k)'
    BY <1>1, <2>2, <2>9
  <2>10. Done(k)'
    BY <2>6, <2>8, <2>9, RowCases DEF Turn
  <2> QED
    BY <2>1, <2>10 DEF Done, Swept, Sent
<1>2. ASSUME NEW g \in Gens, NEW e \in Expiries, queue'[g][e].st = "APPLIED", queue'[g][e].work # NoWork
      PROVE  Done(queue[g][e].work.id)'
  <2>1. PICK k : k = queue'[g][e].work.id
    OBVIOUS
  <2>2. ASSUME queue'[g][e] = queue[g][e] PROVE Done(k)'
    <3>1. k \in Works /\ k \notin FreeWorks /\ Done(k)
      BY <1>e, <1>u, <1>2, <2>1, <2>2, QueueIds
    <3> QED
      BY <1>d, <3>1
  <2>3. ASSUME NEW u \in Hosts, NEW new \in {"ABORTING", "APPLYING", "APPLIED"}, Moves(u, new),
               queue'[g][e] # queue[g][e]
        PROVE  Done(k)'
    <3>1. row[u].pc = "mark" /\ k = row[u].work.id
      BY <1>2, <2>1, <2>3, MovesRows
    <3>2. k \in Works /\ k \notin FreeWorks /\ Done(k)
      BY <1>e, <1>u, <3>1, HostWork
    <3> QED
      BY <1>d, <3>2
  <2>4. ASSUME NEW u \in Hosts, Claiming(u) PROVE queue'[g][e] = queue[g][e]
    BY <1>2, <2>4, ClaimingRows
  <2>5. Done(k)'
    BY <1>2, <2>2, <2>3, <2>4, StepCases, CalmQueue
  <2> QED
    BY <2>1, <2>5 DEF Done, Swept, Sent
<1>3. ASSUME NEW k \in Works, k \in replays'
        \/ \E s \in Hosts : row'[s].st = "APPLYING" /\ row'[s].work.id = k
      PROVE  Done(k)' \/ (sealed' /\ owner' = k)
  <2>1. (Done(k) \/ (sealed /\ owner = k)) /\ k \notin FreeWorks
    <3>1. CASE k \in replays \/ \E s \in Hosts : row[s].st = "APPLYING" /\ row[s].work.id = k
      BY <1>e, <1>u, <3>1
    <3>2. ASSUME k \in replays' \ replays
          PROVE  \E s \in Hosts : row[s].st = "APPLYING" /\ row[s].work.id = k
      BY <3>2, ReplayMove DEF ReplayEffect, Places, Place
    <3>3. ASSUME NEW s \in Hosts, row'[s].st = "APPLYING", row'[s].work.id = k
          PROVE  (Done(k) \/ (sealed /\ owner = k)) /\ k \notin FreeWorks
      <4>1. CASE row'[s].st = row[s].st /\ row'[s].work = row[s].work
        BY <3>1, <3>3, <4>1
      <4>2. ASSUME Loads(row'[s]) PROVE sealed /\ owner = k /\ k \notin FreeWorks
        <5>1. PICK g \in Gens, e \in Expiries :
                  row'[s].st = queue[g][e].st /\ row'[s].work = queue[g][e].work
          BY <4>2 DEF Loads
        <5>2. queue[g][e].work # NoWork
          BY <1>t, <3>3, <5>1 DEF Claimed
        <5> QED
          BY <1>u, <3>3, <5>1, <5>2 DEF Fence, Fenced
      <4>3. ASSUME ReadItem(s), row'[s].st = row[s].st PROVE FALSE
        BY <3>3, <4>3 DEF ReadItem, Places, Place
      <4>4. ASSUME BusyTurn(s, row[s], row'[s]) PROVE sealed /\ owner = k /\ k \notin FreeWorks
        <5>1. MarkApplying(s) /\ row'[s].work = row[s].work /\ Is(row[s], "CLAIMED")
          BY <3>3, <4>4 DEF BusyTurn
        <5>2. row[s].pc = "apply"
          BY <5>1 DEF MarkApplying
        <5>3. row[s].gen \in Gens /\ row[s].exp \in Expiries
          BY <5>2, HostWork
        <5> QED
          BY <1>u, <3>3, <5>1, <5>2, <5>3 DEF Fence, Is, Q
      <4>5. NoRow.st # "APPLYING"
        BY DEF NoRow
      <4>6. ASSUME CalmTurn(s, row[s], row'[s])
            PROVE  (Done(k) \/ (sealed /\ owner = k)) /\ k \notin FreeWorks
        BY <3>3, <4>1, <4>2, <4>3, <4>5, <4>6 DEF CalmTurn, Still
      <4> QED
        BY <4>1, <4>4, <4>6, RowCases DEF Turn
    <3> QED
      BY <1>3, <3>1, <3>2, <3>3
  <2>2. CASE Done(k)
    BY <1>d, <2>1, <2>2
  <2>3. CASE sealed /\ owner = k
    <3>1. ASSUME NEW t \in Hosts, row[t].st \in {"ABORTING", "APPLIED"}, row[t].work # NoWork,
                 owner = row[t].work.id, replays' = replays, \A u \in Hosts : Still(row[u], row'[u])
          PROVE  Done(k)
      <4>1. row[t].st # "ABORTING"
        <5>1. k \in replays \/ \E s \in Hosts : row[s].st = "APPLYING" /\ row[s].work.id = k
          BY <1>3, <3>1 DEF Still
        <5>2. \A s \in Hosts : row[s].st = "APPLYING" => row[s].work # NoWork
          BY HostWork DEF Claimed
        <5> QED
          BY <2>3, <3>1, <5>1, <5>2, FromWay DEF Phases
      <4> QED
        BY <1>e, <2>3, <3>1, <4>1
    <3>2. owner # None
      BY <2>3, Values
    <3> QED
      BY <1>d, <2>1, <2>3, <3>1, <3>2, SealedKept DEF index
  <2> QED
    BY <2>1, <2>2, <2>3
<1>4. \A k \in idxNewer' : Swept(k)'
  BY SweptKept DEF Erased
<1> QED
  BY <1>1, <1>2, <1>3, <1>4 DEF Erased

-----------------------------------------------------------------------------
(* The invariant.                                                           *)

LEMMA InitTyped == ASSUME Init PROVE TypeOK
<1>1. MaxFaults \in Nat /\ 1 \in 0 .. MaxGen
  BY TtlAssumption
<1>2. queue \in Queue
  <2>1. Empty \in Row /\ [Empty EXCEPT !.st = "PENDING"] \in Row
    BY WorkIds DEF Empty, Row, States
  <2> QED
    BY <2>1 DEF Init, Queue
<1>3. batch \in [Writers -> Batch] /\ row \in [Hosts -> Host]
  BY RestingTyped, NoRowType DEF Init
<1>4. BaseTypes
  BY DEF Init, BaseTypes, Images0
<1>5. NoPass \in [kind : Kinds \cup {"none"}, gen : 0 .. MaxGen, seen : Images0]
  BY Values DEF NoPass, Images0
<1>6. OtherTypes
  <2>1. gen \in 0 .. MaxGen /\ lastGen \in 0 .. MaxGen /\ cleanup \in 0 .. MaxGen
          /\ faults \in 0 .. MaxFaults
    BY <1>1, Values DEF Init
  <2>2. ready \in BOOLEAN /\ cleared = {} /\ outbox = FALSE /\ markers = {} /\ ghosts = {}
          /\ pass = NoPass
        /\ missed = FALSE
    BY DEF Init
  <2> QED
    BY <1>5, <2>1, <2>2 DEF OtherTypes
<1> QED
  BY <1>2, <1>3, <1>4, <1>6, TypeSplit

LEMMA InitInv == ASSUME Init PROVE TtlInv
<1>1. TypeOK
  BY InitTyped
<1>2. ASSUME NEW g \in Gens, NEW e \in Expiries
      PROVE  queue[g][e].work = NoWork /\ queue[g][e].st \in Unclaimed
  BY DEF Init, Empty, Unclaimed
<1>3. ASSUME NEW s \in Hosts
      PROVE  row[s] = NoRow /\ row[s].pc = "idle" /\ row[s].work = NoWork /\ row[s].st = "none"
  BY DEF Init, NoRow
<1>4. Sent = {}
  BY DEF Init, Sent, Resting
<1>5. ~sealed /\ owner = None /\ replays = {} /\ NoWork.id = None
  BY WorkIds DEF Init
<1>6. DueInv
  BY <1>2, <1>3 DEF DueInv, DueWork
<1>7. QueueRows /\ Order /\ Newer
  BY <1>2, <1>4 DEF QueueRows, Order, Newer
<1>8. Owned
  BY <1>4, <1>5 DEF Owned
<1>9. Places
  BY <1>3 DEF Places, Place, Claimed, NoRow
<1>10. Ids
  BY <1>2, <1>3 DEF Ids
<1>11. Phases
  BY <1>3, <1>5 DEF Phases
<1>12. Fence
  BY <1>2, <1>3 DEF Fence, Fenced
<1>13. Erased
  BY <1>2, <1>3, <1>4, <1>5 DEF Erased, Swept
<1> QED
  BY <1>1, <1>6, <1>7, <1>8, <1>9, <1>10, <1>11, <1>12, <1>13 DEF TtlInv

LEMMA StepInv == ASSUME TtlInv, [Next]_vars PROVE TtlInv'
<1>1. /\ TypeOK /\ DueInv /\ QueueRows /\ Order /\ Newer /\ Owned /\ Places /\ Ids /\ Phases /\ Fence
      /\ Erased
  BY DEF TtlInv
<1>2. CASE Next
  <2>1. TypeOK' /\ DueInv' /\ QueueRows' /\ Places'
    BY <1>1, <1>2, TypesKept, DueKept, QueueRowsKept, PlacesKept
  <2>2. Order' /\ Newer' /\ Owned'
    BY <1>1, <1>2, PinsKept, OwnedKept
  <2>3. Ids' /\ Phases'
    BY <1>1, <1>2, IdsKept, PhasesKept
  <2>4. Fence' /\ Erased'
    BY <1>1, <1>2, FenceKept, ErasedKept
  <2> QED
    BY <2>1, <2>2, <2>3, <2>4 DEF TtlInv
<1>3. CASE UNCHANGED vars
  <2>1. UNCHANGED <<base, index, queue, repairs, config, batch, row, pass, missed, faults>>
    BY <1>3 DEF vars
  <2>2. /\ UNCHANGED <<item, owner, sealed, idx, idxNewer, replays, queue, outbox, markers, ghosts>>
        /\ UNCHANGED <<gen, cleanup, ready, lastGen, cleared, batch, row, pass, missed, faults>>
    BY <2>1 DEF base, index, repairs, config
  <2>3. TypeOK' /\ DueInv' /\ QueueRows' /\ Places'
    BY <1>1, <2>2 DEF TypeOK, DueInv, DueWork, QueueRows, Places, Place
  <2>4. Order' /\ Newer' /\ Owned'
    BY <1>1, <2>2 DEF Order, Newer, Owned, Sent, Pins
  <2>5. Ids' /\ Phases'
    BY <1>1, <2>2 DEF Ids, Unused, Phases
  <2>6. Fence' /\ Erased'
    BY <1>1, <2>2 DEF Fence, Fenced, Erased, Done, Swept, Sent
  <2> QED
    BY <2>3, <2>4, <2>5, <2>6 DEF TtlInv
<1> QED
  BY <1>2, <1>3

LEMMA Always == Spec => []TtlInv
BY InitInv, StepInv, PTL DEF Spec

-----------------------------------------------------------------------------
(* The theorems.                                                            *)

(* While the effects of work are being applied (a queue row in APPLYING) the *)
(* base row belongs to the work and has no time limit, whichever writers,    *)
(* sweeps and cleanups run, crash and answer late: a batch that outlived its *)
(* claim does not take the row away, and a host that releases it knows the   *)
(* work aborted or applied.                                                  *)
THEOREM TtlFenced == Spec => []Fenced
<1>1. TtlInv => Fenced
  BY DEF TtlInv, Fence
<1> QED
  BY <1>1, Always, PTL

Erasing == idx # None /\ idx' = None
EraseEffect ==
    \E k \in Works : /\ k \notin idxNewer
                     /\ k \in replays \/ \E s \in Hosts : row[s].st = "APPLYING" /\ row[s].work.id = k

LEMMA EraseMove ==
    ASSUME TypeOK, Order, Newer, Places, Next
    PROVE  Erasing /\ NoBatchLands => EraseEffect
<1> DEFINE Ok == Erasing /\ NoBatchLands => EraseEffect
<1> SUFFICES Ok
  OBVIOUS
<1> HIDE DEF Ok
<1>u. idx' = idx => Ok
  BY DEF Ok, Erasing
<1>t. \A s \in Hosts : row[s] \in Host /\ Place(row[s])
  BY TypeParts DEF Places
<1>1. ASSUME NEW w \in Writers, NEW img \in Images0, NEW g \in Gens, ClaimAndSend(w, img,
             g)
      PROVE  Ok
  BY <1>u, <1>1 DEF ClaimAndSend, index, Local
<1>2. ASSUME NEW w \in Writers, NEW img \in Images, OccWrite(w, img) PROVE Ok
  <2>1. idx' \in Images
    BY <1>2 DEF OccWrite
  <2> QED
    BY <2>1, Values DEF Ok, Erasing
<1>3. ASSUME NEW w \in Writers, LandBase(w) \/ GiveUp(w) \/ Lose(w) PROVE Ok
  BY <1>u, <1>3 DEF LandBase, GiveUp, Lose, index, Local
<1>4. ASSUME NEW w \in Writers, LandRest(w) PROVE Ok
  BY <1>4, LandRestBatch DEF Ok
<1>5. ASSUME NEW s \in Hosts, NEW e \in Expiries, Load(s, e) PROVE Ok
  BY <1>u, <1>5 DEF Load, index, Local
<1>6. ASSUME NEW s \in Hosts, NEW e \in Expiries, DrainLoad(s, e) PROVE Ok
  BY <1>u, <1>6 DEF DrainLoad, index, Local
<1>7. ASSUME NEW s \in Hosts, ClaimWork(s) \/ CheckItem(s) \/ AbortWork(s) \/ OwnBase(s) \/
             Gate(s) \/ Seal(s) \/ MarkApplying(s) \/ CheckOwner(s) \/ MarkApplied(s) \/
             FinalRead(s) \/ DeleteBase(s) \/ ReadSurvivor(s) \/ ReleaseBase(s) \/ RecordRepair(s)
             \/ Destroy(s) \/ Handoff(s) \/ Unmark(s) \/ Reread(s) \/ InsertSeen(s) \/ Crash(s) \/
             DestroyUnknown(s)
      PROVE  Ok
  BY <1>u, <1>7 DEF ClaimWork, CheckItem, AbortWork, OwnBase, Gate, Seal, MarkApplying,
     CheckOwner, MarkApplied, FinalRead, DeleteBase, ReadSurvivor, ReleaseBase, RecordRepair,
     Destroy, Handoff, Unmark, Reread, InsertSeen, Crash, DestroyUnknown, index, Local
<1>8. ASSUME NEW s \in Hosts, ReadItem(s) PROVE Ok
  BY <1>8, <1>u DEF ReadItem
<1>9. ASSUME NEW s \in Hosts, ApplyEffects(s) PROVE Ok
  <2>1. row[s].pc = "effects" /\ Effects(row[s].work.id)
    BY <1>9 DEF ApplyEffects
  <2>2. row[s].work.id \in Works /\ row[s].st = "APPLYING"
    BY <1>t, <2>1, HostWork DEF Place
  <2> QED
    BY <1>u, <2>1, <2>2 DEF Ok, EraseEffect, Effects
<1>10. ASSUME NEW s \in Hosts, RestoreIndex(s) PROVE Ok
  <2>1. idx' # None
    BY <1>10, <1>t DEF RestoreIndex, Place
  <2> QED
    BY <2>1 DEF Ok, Erasing
<1>11. ASSUME NEW s \in Hosts, EffectsUnknown(s) PROVE Ok
  BY <1>11, <1>u DEF EffectsUnknown
<1>12. ASSUME NEW k \in Works, Replay(k) PROVE Ok
  <2>1. k \in replays /\ Effects(k)
    BY <1>12 DEF Replay
  <2> QED
    BY <1>u, <2>1 DEF Ok, EraseEffect, Effects
<1>13. ASSUME NEW d \in ghosts, LateDestroy(d) PROVE Ok
  BY <1>u, <1>13 DEF LateDestroy, index, Local
<1>14. ASSUME NEW e \in Expiries, ClearRow(e) PROVE Ok
  BY <1>u, <1>14 DEF ClearRow, index, Local
<1>15. CASE ExpireClaim \/ TakeOutboxRow \/ TakeMarker \/ AuditItem \/ BackfillItem \/
           Discharge \/ RetireMarkers \/ AuditDone \/ BackfillDone \/ PassCrash \/ Enable \/
           Disable \/ FinishCleanup
  BY <1>u, <1>15 DEF ExpireClaim, TakeOutboxRow, TakeMarker, AuditItem, BackfillItem, Discharge,
     RetireMarkers, AuditDone, BackfillDone, PassCrash, Enable, Disable, FinishCleanup,
     ReadForPass, RegisterSeen, index, Local
<1> QED
  BY HostNames, ReplayWorks, <1>1, <1>2, <1>3, <1>4, <1>5, <1>6, <1>7, <1>8, <1>9, <1>10, <1>11,
     <1>12, <1>13, <1>14, <1>15 DEF Next, Write, Land, RowStep

(* A step that erases the index rows, unless it is part of a writer's batch, *)
(* finds the base row owned by work without a time limit: effects that are   *)
(* applied again by a second host, or replayed from the batch log after the  *)
(* work is over, erase nothing that came after them.                         *)
THEOREM TtlEffectsFenced == Spec => EffectsFenced
<1>1. ASSUME TtlInv, [Next]_vars
      PROVE  [(NoBatchLands /\ idx # None /\ idx' = None) => sealed /\ owner \in Works]_vars
  <2>1. SUFFICES ASSUME NoBatchLands, idx # None, idx' = None PROVE sealed /\ owner \in Works
    OBVIOUS
  <2>2. TypeOK /\ Order /\ Newer /\ Places /\ Erased
    BY <1>1 DEF TtlInv
  <2>3. CASE Next
    <3>1. EraseEffect
      BY <2>1, <2>2, <2>3, EraseMove DEF Erasing
    <3>2. PICK k \in Works : /\ k \notin idxNewer
                             /\ k \in replays
                                  \/ \E s \in Hosts : row[s].st = "APPLYING" /\ row[s].work.id = k
      BY <3>1 DEF EraseEffect
    <3>3. ~Done(k)
      BY <2>1, <3>2 DEF Done
    <3> QED
      BY <2>2, <3>2, <3>3 DEF Erased
  <2>4. CASE UNCHANGED vars
    BY <2>1, <2>4 DEF vars, index
  <2> QED
    BY <1>1, <2>3, <2>4
<1> QED
  BY <1>1, Always, PTL DEF Spec, EffectsFenced

LEMMA ExpireMove ==
    ASSUME TypeOK, DueInv, Order, Newer, Places, Next
    PROVE  Expires => Expiry(item) \in Due
<1> DEFINE Ok == Expires => Expiry(item) \in Due
<1> SUFFICES Ok
  OBVIOUS
<1> HIDE DEF Ok
<1>u. item' = item => Ok
  BY DEF Ok, Expires
<1>1. ASSUME NEW w \in Writers, NEW img \in Images0, NEW g \in Gens, ClaimAndSend(w, img,
             g)
      PROVE  Ok
  BY <1>u, <1>1 DEF ClaimAndSend, base, Local
<1>2. ASSUME NEW w \in Writers, NEW img \in Images, OccWrite(w, img) PROVE Ok
  <2>1. item' \in Images
    BY <1>2 DEF OccWrite
  <2> QED
    BY <2>1, Values DEF Ok, Expires
<1>3. ASSUME NEW w \in Writers, LandRest(w) \/ GiveUp(w) \/ Lose(w) PROVE Ok
  BY <1>u, <1>3 DEF LandRest, GiveUp, Lose, base, Local
<1>4. ASSUME NEW w \in Writers, LandBase(w) PROVE Ok
  BY <1>4, LandBaseBatch DEF Ok, Expires
<1>5. ASSUME NEW s \in Hosts, NEW e \in Expiries, Load(s, e) PROVE Ok
  BY <1>u, <1>5 DEF Load, base, Local
<1>6. ASSUME NEW s \in Hosts, NEW e \in Expiries, DrainLoad(s, e) PROVE Ok
  BY <1>u, <1>6 DEF DrainLoad, base, Local
<1>7. ASSUME NEW s \in Hosts, ReadItem(s) \/ ClaimWork(s) \/ CheckItem(s) \/ AbortWork(s)
             \/ OwnBase(s) \/ Gate(s) \/ Seal(s) \/ MarkApplying(s) \/ CheckOwner(s) \/
             ApplyEffects(s) \/ MarkApplied(s) \/ FinalRead(s) \/ ReadSurvivor(s) \/
             RestoreIndex(s) \/ ReleaseBase(s) \/ RecordRepair(s) \/ Destroy(s) \/ Handoff(s) \/
             Unmark(s) \/ Reread(s) \/ InsertSeen(s) \/ Crash(s) \/ EffectsUnknown(s) \/
             DestroyUnknown(s)
      PROVE  Ok
  BY <1>u, <1>7 DEF ReadItem, ClaimWork, CheckItem, AbortWork, OwnBase, Gate, Seal, MarkApplying,
     CheckOwner, ApplyEffects, MarkApplied, FinalRead, ReadSurvivor, RestoreIndex, ReleaseBase,
     RecordRepair, Destroy, Handoff, Unmark, Reread, InsertSeen, Crash, EffectsUnknown,
     DestroyUnknown, base, Local
<1>8. ASSUME NEW s \in Hosts, DeleteBase(s) PROVE Ok
  <2>1. row[s].work # NoWork
    BY <1>8 DEF DeleteBase, Places, Place
  <2>2. item' = item \/ item = row[s].work.img
    BY <1>8 DEF DeleteBase, base
  <2>3. Expiry(row[s].work.img) \in Due
    BY <2>1 DEF DueInv, DueWork
  <2> QED
    BY <1>u, <2>2, <2>3 DEF Ok
<1>9. ASSUME NEW k \in Works, Replay(k) PROVE Ok
  BY <1>u, <1>9 DEF Replay, base, Local
<1>10. ASSUME NEW d \in ghosts, LateDestroy(d) PROVE Ok
  BY <1>u, <1>10 DEF LateDestroy, base, Local
<1>11. ASSUME NEW e \in Expiries, ClearRow(e) PROVE Ok
  BY <1>u, <1>11 DEF ClearRow, base, Local
<1>12. CASE ExpireClaim \/ TakeOutboxRow \/ TakeMarker \/ AuditItem \/ BackfillItem \/
           Discharge \/ RetireMarkers \/ AuditDone \/ BackfillDone \/ PassCrash \/ Enable \/
           Disable \/ FinishCleanup
  BY <1>u, <1>12 DEF ExpireClaim, TakeOutboxRow, TakeMarker, AuditItem, BackfillItem, Discharge,
     RetireMarkers, AuditDone, BackfillDone, PassCrash, Enable, Disable, FinishCleanup,
     ReadForPass, RegisterSeen, base, Local
<1> QED
  BY HostNames, ReplayWorks, <1>1, <1>2, <1>3, <1>4, <1>5, <1>6, <1>7, <1>8, <1>9, <1>10, <1>11,
     <1>12 DEF Next, Write, Land, RowStep

(* Expiration deletes the item only if its time has come, though the work    *)
(* was made for what the item was when the queue row was read, and other     *)
(* hosts may have gone on with it since.                                     *)
THEOREM TtlOnlyDueDeleted == Spec => OnlyDueDeleted
<1>1. ASSUME TtlInv, [Next]_vars PROVE [Expires => Expiry(item) \in Due]_vars
  <2>1. TypeOK /\ DueInv /\ Order /\ Newer /\ Places
    BY <1>1 DEF TtlInv
  <2>2. CASE Next
    BY <2>1, <2>2, ExpireMove
  <2>3. CASE UNCHANGED vars
    BY <2>3
  <2> QED
    BY <1>1, <2>2, <2>3
<1> QED
  BY <1>1, Always, PTL DEF Spec, OnlyDueDeleted

-----------------------------------------------------------------------------
(* Registered.                                                              *)

(* A batch in flight that a step only outdates, and one that goes out.      *)
Keep(v) ==
    /\ batch[v].pc = "sent" /\ batch'[v].landed = batch[v].landed
    /\ batch'[v].old = batch[v].old /\ batch'[v].new = batch[v].new /\ batch'[v].gen = batch[v].gen
    /\ \A u \in Writers : Pins(u, v)' <=> Pins(u, v)
    /\ batch[v].newer \subseteq batch'[v].newer
Fresh(v) ==
    /\ batch[v].pc = "idle" /\ batch'[v].gen \in 1 .. lastGen
    /\ batch'[v].landed = {} /\ batch'[v].newer = {}

(* Nothing lands, and what has landed in part stays in flight.              *)
Quiet ==
    \A v \in Writers : /\ batch'[v].pc = "sent" => Keep(v) \/ Fresh(v)
                       /\ batch[v].pc = "sent" /\ batch[v].landed # {} => batch'[v].pc = "sent"
Pinned == \A v \in Writers : batch'[v].pc = "sent" /\ Item \in batch'[v].newer => Item \in batch[v].newer

LEMMA QuietSame == ASSUME batch' = batch PROVE Quiet /\ Pinned
BY DEF Quiet, Pinned, Keep, Pins

LEMMA OutdateKeeps ==
    ASSUME TypeOK, Newer, NEW ws, NEW cells, NEW v \in Writers, batch'[v] = Outdate(ws, cells)[v]
    PROVE  /\ batch'[v].pc = batch[v].pc
           /\ batch[v].pc = "sent" => Keep(v)
           /\ batch[v].pc = "sent" => batch'[v].newer =
                 (batch[v].newer \cup (IF v \in ws THEN cells ELSE {})) \cap Cells(batch[v])
<1>1. PICK c : c = batch'[v]
  OBVIOUS
<1>2. /\ c.pc = batch[v].pc /\ c.beats = batch[v].beats /\ c.landed = batch[v].landed
      /\ c.gen = batch[v].gen /\ c.old = batch[v].old /\ c.new = batch[v].new
      /\ v \in Sent => c.newer =
            (batch[v].newer \cup (IF v \in ws THEN cells ELSE {})) \cap Cells(batch[v])
  <2>1. c = Outdate(ws, cells)[v]
    BY <1>1
  <2> QED
    BY <2>1, OutdateFields
<1>3. v \in Sent => batch[v].newer \subseteq Cells(batch[v])
  BY DEF Newer
<1> QED
  BY <1>1, <1>2, <1>3 DEF Keep, Pins, Sent

LEMMA QuietOutdate ==
    ASSUME TypeOK, Newer, NEW ws, NEW cells, batch' = Outdate(ws, cells)
    PROVE  Quiet /\ (Item \notin cells => Pinned)
<1>1. ASSUME NEW v \in Writers
      PROVE  /\ batch'[v].pc = batch[v].pc
             /\ batch[v].pc = "sent" => Keep(v)
             /\ batch[v].pc = "sent" => batch'[v].newer =
                   (batch[v].newer \cup (IF v \in ws THEN cells ELSE {})) \cap Cells(batch[v])
  BY OutdateKeeps
<1> QED
  BY <1>1 DEF Quiet, Pinned

LEMMA QuietNow == ASSUME TypeOK, Newer, NEW cells, Now(cells) PROVE Quiet /\ (Item \notin cells => Pinned)
BY QuietOutdate DEF Now

LEMMA QuietSetRow ==
    ASSUME TypeOK, Newer, NEW r, NEW q, SetRow(r, q)
    PROVE  /\ Quiet /\ Pinned
           /\ \A v \in Writers : batch'[v].pc = "sent" /\ State(r.gen, r.exp) \in Cells(batch[v])
                 => State(r.gen, r.exp) \in batch'[v].newer
<1> DEFINE cells == {State(r.gen, r.exp)} \cup IF q.work = Q(r).work THEN {} ELSE {Work(r.gen, r.exp)}
<1>1. batch' = Outdate(Writers, cells)
  BY DEF SetRow, Now
<1>2. Item \notin cells /\ State(r.gen, r.exp) \in cells
  BY DEF Item, State, Work
<1> HIDE DEF cells
<1>3. \A v \in Writers : batch'[v].pc = "sent" =>
          batch'[v].newer = (batch[v].newer \cup cells) \cap Cells(batch[v])
  <2> SUFFICES ASSUME NEW v \in Writers, batch'[v].pc = "sent"
               PROVE  batch'[v].newer = (batch[v].newer \cup cells) \cap Cells(batch[v])
    OBVIOUS
  <2>1. batch'[v] = Outdate(Writers, cells)[v]
    BY <1>1
  <2> QED
    BY <2>1, OutdateKeeps
<1> QED
  BY <1>1, <1>2, <1>3, QuietOutdate

LEMMA QuietOver ==
    ASSUME TypeOK, Newer, NEW ws, NEW cells, NEW u \in Writers,
           batch' = [Outdate(ws, cells) EXCEPT ![u] = [Resting EXCEPT !.pc = "done"]],
           batch[u].pc = "idle" \/ batch[u].landed = {}
    PROVE  Quiet /\ (Item \notin cells => Pinned)
<1>0. DOMAIN Outdate(ws, cells) = Writers
  BY DEF Outdate
<1>1. batch'[u].pc = "done"
  BY <1>0 DEF Resting
<1>2. ASSUME NEW v \in Writers, v # u
      PROVE  /\ batch'[v].pc = batch[v].pc
             /\ batch[v].pc = "sent" => Keep(v)
             /\ batch[v].pc = "sent" => batch'[v].newer =
                   (batch[v].newer \cup (IF v \in ws THEN cells ELSE {})) \cap Cells(batch[v])
  <2>1. batch'[v] = Outdate(ws, cells)[v]
    BY <1>0, <1>2
  <2> QED
    BY <2>1, OutdateKeeps
<1> QED
  BY <1>1, <1>2 DEF Quiet, Pinned

LEMMA QuietSend ==
    ASSUME TypeOK, Newer, NEW u \in Writers, NEW img, NEW g \in Gens, ClaimAndSend(u, img, g)
    PROVE  Quiet /\ Pinned
<1> DEFINE N == [pc |-> "sent", old |-> item, new |-> img, gen |-> g, landed |-> {}, newer |-> {},
                 beats |-> Sent \cup Works]
<1>0. DOMAIN Outdate(Writers, {Owner}) = Writers /\ Item \notin {Owner}
  BY DEF Outdate, Item, Owner
<1>1. batch' = [Outdate(Writers, {Owner}) EXCEPT ![u] = N]
  BY DEF ClaimAndSend, Sent
<1>2. batch'[u] = N
  BY <1>0, <1>1
<1>3. Fresh(u) /\ Item \notin batch'[u].newer /\ batch[u].pc = "idle"
  <2>1. batch[u].pc = "idle" /\ g \in 1 .. lastGen
    BY DEF ClaimAndSend
  <2>2. batch'[u].gen = g /\ batch'[u].landed = {} /\ batch'[u].newer = {}
    BY <1>2
  <2> QED
    BY <2>1, <2>2 DEF Fresh
<1> HIDE DEF N
<1>4. ASSUME NEW v \in Writers, v # u
      PROVE  /\ batch'[v].pc = batch[v].pc
             /\ batch[v].pc = "sent" => Keep(v)
             /\ batch[v].pc = "sent" => batch'[v].newer =
                   (batch[v].newer \cup (IF v \in Writers THEN {Owner} ELSE {})) \cap Cells(batch[v])
  <2>1. batch'[v] = Outdate(Writers, {Owner})[v]
    BY <1>0, <1>1, <1>4
  <2> QED
    BY <2>1, OutdateKeeps
<1> QED
  BY <1>0, <1>3, <1>4 DEF Quiet, Pinned

LEMMA QuietAnew ==
    ASSUME TypeOK, NEW k \in Works, batch' = [w \in Writers |-> [batch[w] EXCEPT !.beats = @ \ {k}]]
    PROVE  Quiet /\ Pinned
<1>1. ASSUME NEW v \in Writers
      PROVE  /\ batch'[v].pc = batch[v].pc /\ batch'[v].newer = batch[v].newer
             /\ batch[v].pc = "sent" => Keep(v)
  <2>1. batch[v] \in Batch
    BY TypeParts
  <2>2. PICK m : m = batch[v].beats \ {k}
    OBVIOUS
  <2>3. batch'[v] = [batch[v] EXCEPT !.beats = m]
    BY <2>2
  <2>4. /\ batch'[v].pc = batch[v].pc /\ batch'[v].beats = m /\ batch'[v].landed = batch[v].landed
        /\ batch'[v].newer = batch[v].newer /\ batch'[v].gen = batch[v].gen
        /\ batch'[v].old = batch[v].old /\ batch'[v].new = batch[v].new
    BY <2>1, <2>3 DEF Batch
  <2>5. \A u \in Writers : u # k
    BY Values
  <2> QED
    BY <2>2, <2>4, <2>5 DEF Keep, Pins
<1> QED
  BY <1>1 DEF Quiet, Pinned

LEMMA QuietEffects == ASSUME TypeOK, Newer, NEW k, Effects(k) PROVE Quiet /\ Pinned
<1>1. CASE k \in idxNewer
  BY <1>1, QuietSame DEF Effects
<1>2. CASE k \notin idxNewer
  <2>1. Item \notin {Index}
    BY DEF Item, Index
  <2> QED
    BY <1>2, <2>1, QuietOutdate DEF Effects
<1> QED
  BY <1>1, <1>2

(* Part of u's batch lands.                                                 *)
LandsPart(u, part, cells) ==
    /\ u \in Writers /\ batch[u].pc = "sent" /\ part \notin batch[u].landed
    /\ \A v \in Writers \ {u} :
          /\ batch'[v].pc = batch[v].pc
          /\ batch[v].pc = "sent" => Keep(v)
          /\ batch[v].pc = "sent" => batch'[v].newer =
                (batch[v].newer \cup (IF Pins(v, u) THEN cells ELSE {})) \cap Cells(batch[v])
    /\ batch[u].landed # {} => batch'[u].pc = "done"
    /\ batch[u].landed = {} =>
          /\ batch'[u].pc = "sent" /\ batch'[u].landed = {part} /\ batch'[u].old = batch[u].old
          /\ batch'[u].new = batch[u].new /\ batch'[u].gen = batch[u].gen
          /\ \A v \in Writers : Pins(v, u)' <=> Pins(v, u)
          /\ batch'[u].newer = batch[u].newer \cap Cells(batch'[u])

LEMMA LandsFields ==
    ASSUME TypeOK, Newer, NEW u \in Writers, batch[u].pc = "sent", NEW part \in {"base", "rest"},
           part \notin batch[u].landed, NEW cells, batch' = Landed(u, part, cells)
    PROVE  LandsPart(u, part, cells)
<1> DEFINE b == batch[u]
           rest == [b EXCEPT !.landed = @ \cup {part}]
           over == b.landed \cup {part} = {"base", "rest"}
           N == IF over THEN [Resting EXCEPT !.pc = "done"] ELSE [rest EXCEPT !.newer = @ \cap Cells(rest)]
<1>0. b \in Batch /\ b.landed \subseteq {"base", "rest"}
  <2>1. b \in Batch
    BY TypeParts
  <2> QED
    BY <2>1 DEF Batch
<1>1. DOMAIN Outdate(b.beats, cells) = Writers
  BY DEF Outdate
<1>2. batch' = [Outdate(b.beats, cells) EXCEPT ![u] = N]
  BY DEF Landed
<1>3. over <=> b.landed # {}
  BY <1>0
<1>5. ASSUME NEW v \in Writers \ {u}
      PROVE  /\ batch'[v].pc = batch[v].pc
             /\ batch[v].pc = "sent" => Keep(v)
             /\ batch[v].pc = "sent" => batch'[v].newer =
                   (batch[v].newer \cup (IF Pins(v, u) THEN cells ELSE {})) \cap Cells(batch[v])
  <2>1. batch'[v] = Outdate(b.beats, cells)[v]
    BY <1>1, <1>2, <1>5
  <2> QED
    BY <2>1, OutdateKeeps DEF Pins, b
<1>6. batch'[u] = N
  BY <1>1, <1>2
<1>7. over => batch'[u].pc = "done"
  BY <1>6 DEF Resting
<1>8. ASSUME ~over
      PROVE  /\ batch'[u].pc = "sent" /\ batch'[u].beats = b.beats /\ batch'[u].gen = b.gen
             /\ batch'[u].old = b.old /\ batch'[u].new = b.new
             /\ batch'[u].landed = b.landed \cup {part}
             /\ batch'[u].newer = b.newer \cap Cells(batch'[u])
  <2>1. PICK r : r = rest
    OBVIOUS
  <2>2. r \in Batch /\ r.landed = b.landed \cup {part} /\ r.beats = b.beats /\ r.pc = "sent"
        /\ r.newer = b.newer /\ r.gen = b.gen /\ r.old = b.old /\ r.new = b.new
    BY <1>0, <2>1 DEF Batch
  <2>3. PICK m : m = b.newer \cap Cells(r)
    OBVIOUS
  <2>4. batch'[u] = [r EXCEPT !.newer = m]
    BY <1>6, <1>8, <2>1, <2>2, <2>3
  <2>5. /\ batch'[u].pc = "sent" /\ batch'[u].beats = b.beats /\ batch'[u].landed = r.landed
        /\ batch'[u].newer = m
        /\ batch'[u].gen = r.gen /\ batch'[u].old = r.old /\ batch'[u].new = r.new
    BY <2>2, <2>4 DEF Batch
  <2>6. Cells(batch'[u]) = Cells(r)
    BY <2>5, SameCells
  <2> QED
    BY <2>1, <2>2, <2>3, <2>5, <2>6
<1> HIDE DEF rest, over, N
<1> QED
  BY <1>3, <1>5, <1>7, <1>8 DEF LandsPart, Pins, b

-----------------------------------------------------------------------------
(* Batches that have landed in part are ahead of the older ones.            *)

RestAhead ==
    \A v, w \in Sent : batch[v].landed = {"rest"} /\ Pins(w, v) =>
        \A e \in Inserted(batch[v]) : State(batch[v].gen, e) \in Cells(batch[w])
            => State(batch[v].gen, e) \in batch[w].newer
BaseAhead ==
    \A v, w \in Sent : "base" \in batch[w].landed /\ Pins(v, w) /\ "base" \notin batch[v].landed
        => Item \in batch[v].newer
Ahead == RestAhead /\ BaseAhead

LEMMA RestCellNames ==
    ASSUME NEW b
    PROVE  /\ Item \in Cells(b) <=> "base" \notin b.landed
           /\ \A g, e : State(g, e) \in Cells(b) => "rest" \notin b.landed /\ g = b.gen
           /\ \A e \in Deleted(b) \cup Inserted(b) : "rest" \notin b.landed => State(b.gen, e) \in Cells(b)
<1>1. \A g, e : State(g, e) \notin {Item, Owner, Index} /\ Work(g, e) \notin {Item, Owner, Index}
  BY DEF State, Work, Item, Owner, Index
<1>2. \A g, e, h, f : Work(g, e) # State(h, f) /\ (State(g, e) = State(h, f) => g = h /\ e = f)
  BY DEF State, Work
<1>3. Item # Owner /\ Item # Index
  BY DEF Item, Owner, Index
<1>4. Item \in Cells(b) <=> "base" \notin b.landed
  BY <1>1, <1>3 DEF Cells
<1>5. ASSUME NEW g, NEW e, State(g, e) \in Cells(b)
      PROVE  "rest" \notin b.landed /\ g = b.gen
  BY <1>1, <1>2, <1>5 DEF Cells
<1>6. \A e \in Deleted(b) \cup Inserted(b) : "rest" \notin b.landed => State(b.gen, e) \in Cells(b)
  BY DEF Cells
<1> QED
  BY <1>4, <1>5, <1>6

LEMMA CellsShrink ==
    ASSUME NEW b, NEW c, c.old = b.old, c.new = b.new, c.gen = b.gen, b.landed \subseteq c.landed
    PROVE  Cells(c) \subseteq Cells(b)
BY DEF Cells, Deleted, Inserted

LEMMA KeptCells ==
    ASSUME NEW v, Keep(v)
    PROVE  Cells(batch'[v]) = Cells(batch[v]) /\ Inserted(batch'[v]) = Inserted(batch[v])
BY SameCells DEF Keep, Inserted

LEMMA AheadQuiet == ASSUME Order, Ahead, Quiet PROVE Ahead'
<1>1. \A v \in Sent' : v \in Writers /\ batch'[v].pc = "sent" /\ (Keep(v) \/ Fresh(v))
  BY DEF Sent, Quiet
<1>2. \A v \in Sent' : Keep(v) => v \in Sent
  BY <1>1 DEF Keep, Sent
<1>3. ASSUME NEW v \in Sent', NEW w \in Sent', Keep(v), Pins(w, v)'
      PROVE  Keep(w) /\ Pins(w, v)
  <2>1. Pins(w, v) /\ v \in Sent
    BY <1>1, <1>2, <1>3 DEF Keep
  <2>2. batch[w].pc # "idle"
    BY <1>1, <2>1 DEF Order
  <2> QED
    BY <1>1, <2>1, <2>2 DEF Fresh
<1>4. ASSUME NEW v \in Sent', NEW w \in Sent', batch'[v].landed = {"rest"}, Pins(w, v)',
             NEW e \in Inserted(batch'[v]), State(batch'[v].gen, e) \in Cells(batch'[w])
      PROVE  State(batch'[v].gen, e) \in batch'[w].newer
  <2>1. Keep(v)
    BY <1>1, <1>4 DEF Fresh
  <2>2. Keep(w) /\ Pins(w, v) /\ v \in Sent /\ w \in Sent
    BY <1>2, <1>3, <1>4, <2>1
  <2>3. /\ batch[v].landed = {"rest"} /\ batch'[v].gen = batch[v].gen
        /\ batch[w].newer \subseteq batch'[w].newer
    BY <1>4, <2>1, <2>2 DEF Keep
  <2> QED
    BY <1>4, <2>1, <2>2, <2>3, KeptCells DEF Ahead, RestAhead
<1>5. ASSUME NEW v \in Sent', NEW w \in Sent', "base" \in batch'[w].landed, Pins(v, w)',
             "base" \notin batch'[v].landed
      PROVE  Item \in batch'[v].newer
  <2>1. Keep(w)
    BY <1>1, <1>5 DEF Fresh
  <2>2. Keep(v) /\ Pins(v, w) /\ v \in Sent /\ w \in Sent
    BY <1>2, <1>3, <1>5, <2>1
  <2> QED
    BY <1>5, <2>1, <2>2 DEF Ahead, BaseAhead, Keep
<1> QED
  BY <1>4, <1>5 DEF Ahead, RestAhead, BaseAhead

LEMMA AheadBase ==
    ASSUME Order, Newer, Ahead, NEW u, LandsPart(u, "base", {Item, Owner} \ batch[u].newer)
    PROVE  Ahead'
<1> DEFINE cells == {Item, Owner} \ batch[u].newer
<1>0. /\ u \in Sent /\ u \in Writers /\ Sent \subseteq Writers
      /\ \A v \in Sent' : v \in Sent
      /\ \A v \in Sent' : v # u => Keep(v) /\ batch'[v].newer =
            (batch[v].newer \cup (IF Pins(v, u) THEN cells ELSE {})) \cap Cells(batch[v])
  BY DEF LandsPart, Sent
<1>1. u \in Sent' => /\ batch'[u].landed = {"base"} /\ batch'[u].old = batch[u].old
                     /\ batch'[u].new = batch[u].new /\ batch'[u].gen = batch[u].gen
                     /\ \A v \in Writers : Pins(v, u)' <=> Pins(v, u)
                     /\ batch'[u].newer = batch[u].newer \cap Cells(batch'[u])
                     /\ batch[u].landed = {}
  BY DEF LandsPart, Sent
<1>2. u \in Sent' => Cells(batch'[u]) \subseteq Cells(batch[u])
  BY <1>1, CellsShrink
<1> HIDE DEF cells
<1>4. ASSUME NEW v \in Sent', NEW w \in Sent', batch'[v].landed = {"rest"}, Pins(w, v)',
             NEW e \in Inserted(batch'[v]), State(batch'[v].gen, e) \in Cells(batch'[w])
      PROVE  State(batch'[v].gen, e) \in batch'[w].newer
  <2>1. v # u
    BY <1>1, <1>4
  <2>2. Keep(v) /\ Pins(w, v) /\ batch[v].landed = {"rest"} /\ batch'[v].gen = batch[v].gen
    BY <1>0, <1>4, <2>1 DEF Keep
  <2>3. e \in Inserted(batch[v])
    BY <1>4, <2>2, KeptCells
  <2>4. CASE w = u
    <3>1. State(batch[v].gen, e) \in Cells(batch[u])
      BY <1>2, <1>4, <2>2, <2>4
    <3>2. State(batch[v].gen, e) \in batch[u].newer
      BY <1>0, <1>4, <2>2, <2>3, <2>4, <3>1 DEF Ahead, RestAhead
    <3> QED
      BY <1>1, <1>4, <2>2, <2>4, <3>2
  <2>5. CASE w # u
    <3>1. Keep(w) /\ batch[w].newer \subseteq batch'[w].newer
      BY <1>0, <2>5 DEF Keep
    <3> QED
      BY <1>0, <1>4, <2>2, <2>3, <3>1, KeptCells DEF Ahead, RestAhead
  <2> QED
    BY <2>4, <2>5
<1>5. ASSUME NEW v \in Sent', NEW w \in Sent', "base" \in batch'[w].landed, Pins(v, w)',
             "base" \notin batch'[v].landed
      PROVE  Item \in batch'[v].newer
  <2>1. v # u
    BY <1>1, <1>5
  <2>2. Keep(v) /\ "base" \notin batch[v].landed /\ v \in Sent /\ w \in Sent
    BY <1>0, <1>5, <2>1 DEF Keep
  <2>3. CASE w = u
    <3>1. Pins(v, u) /\ Item \in Cells(batch[v])
      BY <1>0, <1>1, <1>5, <2>2, <2>3, RestCellNames
    <3>2. CASE Item \in batch[u].newer
      BY <1>0, <2>2, <3>1, <3>2 DEF Newer, Keep
    <3>3. CASE Item \notin batch[u].newer
      BY <1>0, <2>1, <3>1, <3>3 DEF cells
    <3> QED
      BY <3>2, <3>3
  <2>4. CASE w # u
    <3>1. Keep(w)
      BY <1>0, <2>4
    <3>2. Pins(v, w) /\ "base" \in batch[w].landed
      BY <1>0, <1>5, <2>2, <3>1 DEF Keep
    <3> QED
      BY <2>2, <3>2 DEF Ahead, BaseAhead, Keep
  <2> QED
    BY <2>3, <2>4
<1> QED
  BY <1>4, <1>5 DEF Ahead, RestAhead, BaseAhead

LEMMA AheadRest ==
    ASSUME TypeOK, Order, Newer, Ahead, NEW u, LandsPart(u, "rest", RestCells(batch[u]))
    PROVE  Ahead'
<1> DEFINE cells == RestCells(batch[u])
<1>0. /\ u \in Sent /\ u \in Writers /\ Sent \subseteq Writers
      /\ \A v \in Sent' : v \in Sent
      /\ \A v \in Sent' : v # u => Keep(v) /\ batch'[v].newer =
            (batch[v].newer \cup (IF Pins(v, u) THEN cells ELSE {})) \cap Cells(batch[v])
  BY DEF LandsPart, Sent
<1>1. u \in Sent' => /\ batch'[u].landed = {"rest"} /\ batch'[u].old = batch[u].old
                     /\ batch'[u].new = batch[u].new /\ batch'[u].gen = batch[u].gen
                     /\ \A v \in Writers : Pins(v, u)' <=> Pins(v, u)
                     /\ batch'[u].newer = batch[u].newer \cap Cells(batch'[u])
                     /\ batch[u].landed = {}
  BY DEF LandsPart, Sent
<1>2. \A e \in Inserted(batch[u]) : State(batch[u].gen, e) \in cells \cup batch[u].newer
  <2>1. PICK c : c = [batch[u] EXCEPT !.landed = {"base"}]
    OBVIOUS
  <2>2. batch[u] \in Batch
    BY <1>0, TypeParts
  <2>3. c.landed = {"base"} /\ c.old = batch[u].old /\ c.new = batch[u].new /\ c.gen = batch[u].gen
    BY <2>1, <2>2 DEF Batch
  <2>4. \A e \in Inserted(batch[u]) : State(batch[u].gen, e) \in Cells(c)
    BY <2>3, RestCellNames DEF Inserted
  <2> QED
    BY <2>1, <2>4 DEF RestCells
<1> HIDE DEF cells
<1>4. ASSUME NEW v \in Sent', NEW w \in Sent', batch'[v].landed = {"rest"}, Pins(w, v)',
             NEW e \in Inserted(batch'[v]), State(batch'[v].gen, e) \in Cells(batch'[w])
      PROVE  State(batch'[v].gen, e) \in batch'[w].newer
  <2>1. w # u
    BY <1>1, <1>4, RestCellNames
  <2>2. Keep(w) /\ batch[w].newer \subseteq batch'[w].newer /\ w \in Sent
    BY <1>0, <2>1 DEF Keep
  <2>3. CASE v = u
    <3>1. Pins(w, u) /\ e \in Inserted(batch[u]) /\ batch'[u].gen = batch[u].gen
      BY <1>0, <1>1, <1>4, <2>2, <2>3 DEF Inserted
    <3>2. State(batch[u].gen, e) \in Cells(batch[w])
      BY <1>4, <2>2, <2>3, <3>1, KeptCells
    <3>3. CASE State(batch[u].gen, e) \in batch[u].newer
      BY <1>0, <2>2, <2>3, <3>1, <3>2, <3>3 DEF Newer
    <3>4. CASE State(batch[u].gen, e) \in cells
      BY <1>0, <2>1, <2>3, <3>1, <3>2, <3>4
    <3> QED
      BY <1>2, <3>1, <3>3, <3>4
  <2>4. CASE v # u
    <3>1. Keep(v) /\ v \in Sent
      BY <1>0, <2>4
    <3>2. Pins(w, v) /\ batch[v].landed = {"rest"} /\ batch'[v].gen = batch[v].gen
      BY <1>0, <1>4, <2>2, <3>1 DEF Keep
    <3> QED
      BY <1>4, <2>2, <3>1, <3>2, KeptCells DEF Ahead, RestAhead
  <2> QED
    BY <2>3, <2>4
<1>5. ASSUME NEW v \in Sent', NEW w \in Sent', "base" \in batch'[w].landed, Pins(v, w)',
             "base" \notin batch'[v].landed
      PROVE  Item \in batch'[v].newer
  <2>1. w # u
    BY <1>1, <1>5
  <2>2. Keep(w) /\ "base" \in batch[w].landed /\ v \in Sent /\ w \in Sent /\ Pins(v, w)
    BY <1>0, <1>5, <2>1 DEF Keep
  <2>3. CASE v = u
    <3>1. "base" \notin batch[u].landed /\ Item \in Cells(batch'[u])
      BY <1>1, <1>5, <2>3, RestCellNames
    <3>2. Item \in batch[u].newer
      BY <2>2, <2>3, <3>1 DEF Ahead, BaseAhead
    <3> QED
      BY <1>1, <1>5, <2>3, <3>1, <3>2
  <2>4. CASE v # u
    BY <1>0, <1>5, <2>2, <2>4 DEF Ahead, BaseAhead, Keep
  <2> QED
    BY <2>3, <2>4
<1> QED
  BY <1>4, <1>5 DEF Ahead, RestAhead, BaseAhead

-----------------------------------------------------------------------------
(* What stands for the queue row of an item: the row, an outbox row that no  *)
(* pass holds or that a pass holds with the item, a marker.                  *)

Handing == \E s \in Hosts : row[s].pc = "handoff" /\ row[s].gen = gen
Stands(e) ==
    \/ queue[gen][e].st # "none" \/ outbox \/ (pass.kind = "outbox" /\ Expiry(pass.seen) = e)
    \/ gen \in markers \/ Handing

(* A batch of which the item has landed and not yet the rest, and one whose  *)
(* rest has landed and that will still take the expiration time away.        *)
Carries(w) == batch[w].pc = "sent" /\ batch[w].landed = {"base"} /\ batch[w].new = item
Parting(w) ==
    /\ batch[w].pc = "sent" /\ batch[w].landed = {"rest"} /\ Item \notin batch[w].newer
    /\ Expiry(batch[w].new) = None
Carried == \E w \in Writers : Carries(w)
Cover == Carried \/ \E w \in Writers : Parting(w)

Reg ==
    \A e \in Expiries : gen # 0 /\ ready /\ ~missed /\ Expiry(item) = e => Stands(e) \/ Cover

(* The rest part of a batch brings an outbox row for its item.               *)
Pending ==
    \A w \in Writers : batch[w].pc = "sent" /\ batch[w].landed = {"rest"} /\ Expiry(batch[w].new) # None
        => outbox \/ missed

(* A late batch that deletes the item's queue row, and cannot delete the     *)
(* item, is too old for the row too, or a newer batch brings the row back.   *)
Erases(w, e) ==
    /\ batch[w].pc = "sent" /\ "rest" \notin batch[w].landed /\ batch[w].gen = gen
    /\ Expiry(batch[w].new) = None /\ Expiry(batch[w].old) = e
    /\ "base" \in batch[w].landed \/ Item \in batch[w].newer
Safe ==
    \A w \in Writers, e \in Expiries : Erases(w, e) /\ ~missed /\ Expiry(item) = e
        => State(gen, e) \in batch[w].newer \/ \E v \in Writers : Carries(v) /\ Pins(w, v)

(* What a pass has read is still so, or an outbox row or a batch knows.      *)
PassRead ==
    \A e \in Expiries : pass.kind # "none" /\ pass.gen = gen /\ gen # 0 /\ ~missed /\ Expiry(item) = e
        => Expiry(pass.seen) = e \/ outbox \/ Carried

(* Generations: hosts and ghosts that work on the current one are of a queue *)
(* that is ready, and none of them drains it.                                *)
GenPass ==
    /\ gen <= lastGen /\ cleanup <= lastGen /\ pass.gen <= lastGen
    /\ (cleanup # 0 => gen = 0) /\ (ready => gen # 0)
    /\ (pass.kind # "none" /\ ready => pass.gen = gen) /\ (pass.kind = "backfill" => pass.gen # 0)
GenBatch == \A w \in Writers : batch[w].pc = "sent" => batch[w].gen <= lastGen
GenHost ==
    \A s \in Hosts : row[s].pc # "idle" =>
        row[s].gen <= lastGen /\ (row[s].gen = gen => ready /\ ~row[s].drain)
GenGhost == \A d \in ghosts : d.gen <= lastGen /\ (d.gen = gen => ready /\ gen \in markers)
GenInv == GenPass /\ GenBatch /\ GenHost /\ GenGhost

RegInv == Ahead /\ Pending /\ Safe /\ PassRead /\ GenInv /\ Reg

LEMMA GenTypes ==
    ASSUME TypeOK
    PROVE  /\ gen \in Nat /\ lastGen \in Nat /\ cleanup \in Nat /\ pass.gen \in Nat
           /\ gen # 0 => gen \in Gens
           /\ cleanup # 0 => cleanup \in Gens
           /\ pass.gen # 0 => pass.gen \in Gens
           /\ pass.seen \in Images0 /\ item \in Images0
           /\ outbox \in BOOLEAN /\ missed \in BOOLEAN /\ ready \in BOOLEAN
           /\ \A d \in ghosts : d.gen \in Gens /\ d.exp \in Expiries /\ d.gen \in Nat
           /\ \A g \in Gens : g # 0 /\ g \in Nat
<1>1. MaxGen \in Nat
  BY Values
<1>2. gen \in 0 .. MaxGen /\ lastGen \in 0 .. MaxGen /\ cleanup \in 0 .. MaxGen
  BY DEF TypeOK
<1>3. pass.gen \in 0 .. MaxGen /\ pass.seen \in Images0
  BY DEF TypeOK
<1>4. \A d \in ghosts : d.gen \in Gens /\ d.exp \in Expiries
  BY DEF TypeOK
<1>5. \A g \in Gens : g # 0 /\ g \in Nat
  BY <1>1 DEF Gens
<1>6. item \in Images0 /\ outbox \in BOOLEAN /\ missed \in BOOLEAN /\ ready \in BOOLEAN
  BY DEF TypeOK
<1>7. \A g \in 0 .. MaxGen : g # 0 => g \in Gens
  BY Values
<1>8. gen \in Nat /\ lastGen \in Nat /\ cleanup \in Nat /\ pass.gen \in Nat
  BY <1>1, <1>2, <1>3
<1> QED
  BY <1>2, <1>3, <1>4, <1>5, <1>6, <1>7, <1>8

LEMMA BatchTypes ==
    ASSUME TypeOK, Newer, NEW w \in Writers, batch[w].pc = "sent"
    PROVE  /\ batch[w].gen \in Gens /\ batch[w].gen \in Nat /\ batch[w].gen # 0
           /\ batch[w].old \in Images0 /\ batch[w].new \in Images0
           /\ Expiry(batch[w].new) \in Expiries \cup {None}
           /\ batch[w].landed \in {{}, {"base"}, {"rest"}, {"base", "rest"}}
<1>1. batch[w] \in Batch
  BY TypeParts
<1>2. batch[w].old \in Images0 /\ batch[w].new \in Images0 /\ batch[w].landed \subseteq {"base", "rest"}
  BY <1>1 DEF Batch
<1>3. batch[w].landed \in {{}, {"base"}, {"rest"}, {"base", "rest"}}
  BY <1>2
<1>4. batch[w].gen \in Gens
  BY DEF Newer, Sent
<1> QED
  BY <1>2, <1>3, <1>4, GenTypes, Values

-----------------------------------------------------------------------------
(* Steps in which nothing lands and the item stays.                          *)

Calmly == Quiet /\ Pinned /\ item' = item

LEMMA CarriesKept ==
    ASSUME Calmly
    PROVE  /\ \A v \in Writers : Carries(v) => Carries(v)' /\ Keep(v)
           /\ \A v \in Writers : Parting(v) => Parting(v)'
           /\ Carried => Carried'
           /\ Cover => Cover'
<1>1. ASSUME NEW v \in Writers, batch[v].pc = "sent", batch[v].landed # {}
      PROVE  Keep(v) /\ batch'[v].pc = "sent"
  <2>1. batch'[v].pc = "sent"
    BY <1>1 DEF Calmly, Quiet
  <2>2. ~Fresh(v)
    BY <1>1 DEF Fresh
  <2> QED
    BY <2>1, <2>2 DEF Calmly, Quiet
<1>2. ASSUME NEW v \in Writers, Carries(v)
      PROVE  Carries(v)' /\ Keep(v)
  BY <1>1, <1>2 DEF Carries, Keep, Calmly
<1>3. ASSUME NEW v \in Writers, Parting(v)
      PROVE  Parting(v)'
  BY <1>1, <1>3 DEF Parting, Keep, Calmly, Pinned
<1> QED
  BY <1>2, <1>3 DEF Carried, Cover

LEMMA PendingQuiet ==
    ASSUME Pending, Quiet, outbox => outbox', missed => missed'
    PROVE  Pending'
<1> SUFFICES ASSUME NEW w \in Writers, batch'[w].pc = "sent", batch'[w].landed = {"rest"},
                    Expiry(batch'[w].new) # None
             PROVE  outbox' \/ missed'
  BY DEF Pending
<1>1. Keep(w)
  BY DEF Quiet, Fresh
<1> QED
  BY <1>1 DEF Pending, Keep

LEMMA SafeCalm ==
    ASSUME TypeOK, TypeOK', Newer, GenInv, Safe, Calmly, missed => missed',
           gen' = gen \/ gen' = 0 \/ gen' = lastGen + 1
    PROVE  Safe'
<1> SUFFICES ASSUME NEW w \in Writers, NEW e \in Expiries, Erases(w, e)', ~missed', Expiry(item') = e
             PROVE  State(gen, e)' \in batch'[w].newer \/ \E v \in Writers : Carries(v)' /\ Pins(w, v)'
  BY DEF Safe
<1>1. Keep(w)
  BY DEF Calmly, Quiet, Erases, Fresh
<1>2. /\ batch[w].gen \in Gens /\ batch[w].gen <= lastGen
      /\ batch'[w].gen = batch[w].gen /\ gen' = batch[w].gen
  BY <1>1 DEF Keep, Newer, Sent, GenInv, GenBatch, Erases
<1>3. gen' = gen
  BY <1>2, GenTypes
<1>4. Erases(w, e) /\ ~missed /\ Expiry(item) = e
  BY <1>1, <1>3 DEF Erases, Keep, Calmly, Pinned
<1>5. CASE State(gen, e) \in batch[w].newer
  BY <1>1, <1>3, <1>5 DEF Keep, State
<1>6. ASSUME NEW v \in Writers, Carries(v), Pins(w, v)
      PROVE  Carries(v)' /\ Pins(w, v)'
  BY <1>6, CarriesKept DEF Keep
<1> QED
  BY <1>4, <1>5, <1>6 DEF Safe

LEMMA PassReadCalm ==
    ASSUME TypeOK, TypeOK', GenInv, PassRead, Calmly, missed => missed',
           gen' = gen \/ gen' = 0 \/ gen' = lastGen + 1,
           \/ pass' = pass /\ (outbox => outbox')
           \/ pass'.kind = "none" \/ pass'.seen = item
    PROVE  PassRead'
<1> SUFFICES ASSUME NEW e \in Expiries, pass'.kind # "none", pass'.gen = gen', gen' # 0, ~missed',
                    Expiry(item') = e
             PROVE  Expiry(pass'.seen) = e \/ outbox' \/ Carried'
  BY DEF PassRead
<1>1. CASE pass'.seen = item
  BY <1>1 DEF Calmly
<1>2. CASE pass' = pass /\ (outbox => outbox')
  <2>1. gen' = gen
    BY <1>2, GenTypes DEF GenInv, GenPass
  <2> QED
    BY <1>2, <2>1, CarriesKept DEF PassRead, Calmly
<1> QED
  BY <1>1, <1>2

LEMMA RegCalm ==
    ASSUME Reg, Calmly, missed => missed', gen' = gen, ready' => ready,
           \A e \in Expiries : gen # 0 /\ ready /\ Expiry(item) = e /\ Stands(e) => Stands(e)'
    PROVE  Reg'
BY CarriesKept DEF Reg, Calmly

LEMMA GenBatchQuiet ==
    ASSUME TypeOK, TypeOK', GenInv, Quiet, lastGen' = lastGen \/ lastGen' = lastGen + 1,
           Newer
    PROVE  GenBatch'
<1> SUFFICES ASSUME NEW w \in Writers, batch'[w].pc = "sent"
             PROVE  batch'[w].gen <= lastGen'
  BY DEF GenBatch
<1>0. lastGen \in Nat
  BY GenTypes
<1>1. CASE Keep(w)
  <2>1. batch[w].gen \in Nat /\ batch[w].gen <= lastGen /\ batch'[w].gen = batch[w].gen
    BY <1>1, BatchTypes DEF Keep, GenInv, GenBatch
  <2> QED
    BY <1>0, <2>1
<1>2. CASE Fresh(w)
  BY <1>0, <1>2 DEF Fresh
<1> QED
  BY <1>1, <1>2 DEF Quiet

-----------------------------------------------------------------------------
(* What a step of a host, or of a writer whose batch does not land, does.    *)

Turns(t) ==
    row'[t].pc # "idle" =>
        \/ row[t].pc # "idle" /\ row'[t].gen = row[t].gen /\ row'[t].drain = row[t].drain
        \/ row'[t].gen = gen /\ gen # 0 /\ ready /\ ~row'[t].drain
        \/ row'[t].gen = cleanup /\ cleanup # 0
Hands(t) ==
    row[t].pc = "handoff" /\ row[t].gen = gen =>
        (row'[t].pc = "handoff" /\ row'[t].gen = gen) \/ outbox' \/ gen \in markers'
QueueStays ==
    \A g \in Gens, e \in Expiries : g = gen /\ queue[g][e].st # "none" =>
        queue'[g][e].st # "none" \/ gen \in markers' \/ Handing'
HostStep ==
    /\ UNCHANGED <<config, pass, missed>> /\ (outbox => outbox') /\ markers \subseteq markers'
    /\ Quiet /\ ((item' = item /\ Pinned) \/ item' = None)
    /\ \A t \in Hosts : Turns(t) /\ Hands(t)
    /\ \A d \in ghosts' : d \in ghosts \/ (/\ d.gen \in markers'
                                           /\ \E s \in Hosts : row[s].pc # "idle" /\ d.gen = row[s].gen)
    /\ QueueStays

LEMMA HostKeeps ==
    ASSUME TypeOK, TypeOK', Order, Newer, RegInv, HostStep
    PROVE  RegInv'
<1>0. /\ Ahead /\ Pending /\ Safe /\ PassRead /\ GenInv /\ Reg
      /\ gen' = gen /\ cleanup' = cleanup /\ ready' = ready /\ lastGen' = lastGen
      /\ pass' = pass /\ missed' = missed /\ Quiet /\ (outbox => outbox') /\ markers \subseteq markers'
  BY DEF RegInv, HostStep, config
<1>1. Ahead' /\ Pending'
  BY <1>0, AheadQuiet, PendingQuiet
<1>2. GenInv'
  <2>1. GenPass'
    BY <1>0 DEF GenInv, GenPass
  <2>2. GenBatch'
    BY <1>0, GenBatchQuiet
  <2>3. GenHost'
    <3> SUFFICES ASSUME NEW s \in Hosts, row'[s].pc # "idle"
                 PROVE  row'[s].gen <= lastGen /\ (row'[s].gen = gen => ready /\ ~row'[s].drain)
      BY <1>0 DEF GenHost
    <3>1. Turns(s)
      BY DEF HostStep
    <3>2. CASE row[s].pc # "idle" /\ row'[s].gen = row[s].gen /\ row'[s].drain = row[s].drain
      BY <1>0, <3>2 DEF GenInv, GenHost
    <3>3. CASE row'[s].gen = gen /\ gen # 0 /\ ready /\ ~row'[s].drain
      BY <1>0, <3>3 DEF GenInv, GenPass
    <3>4. CASE row'[s].gen = cleanup /\ cleanup # 0
      BY <1>0, <3>4 DEF GenInv, GenPass
    <3> QED
      BY <3>1, <3>2, <3>3, <3>4 DEF Turns
  <2>4. GenGhost'
    <3> SUFFICES ASSUME NEW d \in ghosts'
                 PROVE  d.gen <= lastGen /\ (d.gen = gen => ready /\ gen \in markers')
      BY <1>0 DEF GenGhost
    <3>1. CASE d \in ghosts
      BY <1>0, <3>1 DEF GenInv, GenGhost
    <3>2. CASE /\ d.gen \in markers'
               /\ \E s \in Hosts : row[s].pc # "idle" /\ d.gen = row[s].gen
      BY <1>0, <3>2 DEF GenInv, GenHost
    <3> QED
      BY <3>1, <3>2 DEF HostStep
  <2> QED
    BY <2>1, <2>2, <2>3, <2>4 DEF GenInv
<1>3. CASE item' = None
  <2>1. Expiry(item') \notin Expiries
    BY <1>3, Values DEF Expiry
  <2> QED
    BY <1>1, <1>2, <2>1 DEF RegInv, Safe, PassRead, Reg
<1>4. CASE item' = item /\ Pinned
  <2>1. Calmly
    BY <1>0, <1>4 DEF Calmly
  <2>2. Safe' /\ PassRead'
    BY <1>0, <2>1, SafeCalm, PassReadCalm
  <2>3. Handing => Handing' \/ outbox' \/ gen \in markers'
    <3> SUFFICES ASSUME NEW s \in Hosts, row[s].pc = "handoff", row[s].gen = gen
                 PROVE  Handing' \/ outbox' \/ gen \in markers'
      BY DEF Handing
    <3>1. Hands(s)
      BY DEF HostStep
    <3> QED
      BY <1>0, <3>1 DEF Hands, Handing
  <2>4. ASSUME NEW e \in Expiries, gen # 0, Stands(e)
        PROVE  Stands(e)'
    <3>1. gen \in Gens
      BY <2>4, GenTypes
    <3>2. queue[gen][e].st # "none" => queue'[gen][e].st # "none" \/ gen \in markers' \/ Handing'
      BY <3>1 DEF HostStep, QueueStays
    <3> QED
      BY <1>0, <2>3, <2>4, <3>2 DEF Stands
  <2>5. Reg'
    BY <1>0, <2>1, <2>4, RegCalm
  <2> QED
    BY <1>1, <1>2, <2>2, <2>5 DEF RegInv
<1> QED
  BY <1>3, <1>4 DEF HostStep

LEMMA OccKeeps ==
    ASSUME TypeOK, TypeOK', Order, Newer, Newer', RegInv, NEW w \in Writers, NEW img \in Images,
           OccWrite(w, img)
    PROVE  RegInv'
<1>0. /\ Ahead /\ Pending /\ GenInv /\ UNCHANGED <<repairs, config, row, pass>>
      /\ missed' = (missed \/ gen # 0) /\ missed \in BOOLEAN
  BY GenTypes DEF RegInv, OccWrite
<1>1. /\ gen' = gen /\ cleanup' = cleanup /\ ready' = ready /\ lastGen' = lastGen
      /\ pass' = pass /\ row' = row /\ outbox' = outbox /\ markers' = markers /\ ghosts' = ghosts
      /\ (gen # 0 => missed') /\ (missed => missed')
  BY <1>0 DEF config, repairs
<1>2. Quiet
  <2>1. batch[w].pc = "idle"
    BY DEF OccWrite
  <2> QED
    BY <2>1, QuietOver DEF OccWrite
<1>3. Ahead' /\ Pending'
  BY <1>0, <1>1, <1>2, AheadQuiet, PendingQuiet
<1>4. GenInv'
  <2>1. GenBatch'
    BY <1>0, <1>1, <1>2, GenBatchQuiet
  <2> QED
    BY <1>0, <1>1, <2>1 DEF GenInv, GenPass, GenHost, GenGhost
<1>5. PassRead' /\ Reg'
  BY <1>1 DEF PassRead, Reg
<1>6. Safe'
  <2>1. \A v \in Writers : batch'[v].pc = "sent" => batch'[v].gen \in Gens
    BY DEF Newer, Sent
  <2>2. 0 \notin Gens
    BY GenTypes
  <2> QED
    BY <1>1, <2>1, <2>2 DEF Safe, Erases
<1> QED
  BY <1>3, <1>4, <1>5, <1>6 DEF RegInv

-----------------------------------------------------------------------------
(* Landings.                                                                 *)

(* The batches in flight carry one generation.                               *)
OneGen == \A v, w \in Writers : batch[v].pc = "sent" /\ batch[w].pc = "sent" => batch[v].gen = batch[w].gen

LEMMA LandsBase ==
    ASSUME TypeOK, Newer, NEW w \in Writers, LandBase(w)
    PROVE  LandsPart(w, "base", {Item, Owner} \ batch[w].newer)
BY LandsFields DEF LandBase

LEMMA LandsRest ==
    ASSUME TypeOK, Newer, NEW w \in Writers, LandRest(w)
    PROVE  LandsPart(w, "rest", RestCells(batch[w]))
<1>1. batch' = Landed(w, "rest", RestCells(batch[w]))
  BY DEF LandRest, RestCells
<1> QED
  BY <1>1, LandsFields DEF LandRest

LEMMA RestCellsOf ==
    ASSUME TypeOK, NEW w \in Writers
    PROVE  /\ Item \notin RestCells(batch[w])
           /\ \A e \in Inserted(batch[w]) :
                 State(batch[w].gen, e) \in RestCells(batch[w]) \cup batch[w].newer
<1>1. PICK c : c = [batch[w] EXCEPT !.landed = {"base"}]
  OBVIOUS
<1>2. batch[w] \in Batch
  BY TypeParts
<1>3. c.landed = {"base"} /\ c.old = batch[w].old /\ c.new = batch[w].new /\ c.gen = batch[w].gen
  BY <1>1, <1>2 DEF Batch
<1>4. Item \notin Cells(c) /\ \A e \in Inserted(c) : State(c.gen, e) \in Cells(c)
  BY <1>3, RestCellNames
<1>5. Inserted(batch[w]) = Inserted(c)
  BY <1>3 DEF Inserted
<1> QED
  BY <1>1, <1>3, <1>4, <1>5 DEF RestCells

(* What a landing does to the other batches.                                 *)
LEMMA LandsOthers ==
    ASSUME TypeOK, Newer, NEW w \in Writers, NEW part, NEW cells, LandsPart(w, part, cells),
           NEW v \in Writers, v # w
    PROVE  /\ batch'[v].pc = batch[v].pc
           /\ batch[v].pc = "sent" =>
                 /\ batch'[v].landed = batch[v].landed /\ batch'[v].old = batch[v].old
                 /\ batch'[v].new = batch[v].new /\ batch'[v].gen = batch[v].gen
                 /\ batch[v].newer \subseteq batch'[v].newer
                 /\ \A u \in Writers : Pins(u, v)' <=> Pins(u, v)
                 /\ (Item \notin cells \/ ~Pins(v, w)) /\ Item \in batch'[v].newer
                        => Item \in batch[v].newer
                 /\ Pins(v, w) => cells \cap Cells(batch[v]) \subseteq batch'[v].newer
<1>1. v \in Writers \ {w}
  OBVIOUS
<1> QED
  BY <1>1 DEF LandsPart, Keep

LEMMA GenBatchLands ==
    ASSUME TypeOK, Newer, GenBatch, NEW w \in Writers, NEW part, NEW cells, LandsPart(w, part, cells),
           lastGen' = lastGen
    PROVE  GenBatch'
<1> SUFFICES ASSUME NEW v \in Writers, batch'[v].pc = "sent"
             PROVE  batch'[v].gen <= lastGen
  BY DEF GenBatch
<1>1. CASE v = w
  BY <1>1 DEF LandsPart, GenBatch
<1>2. CASE v # w
  BY <1>2, LandsOthers DEF GenBatch
<1> QED
  BY <1>1, <1>2

LEMMA BaseKeeps ==
    ASSUME TypeOK, TypeOK', Order, Newer, OneGen, RegInv, NEW w \in Writers, LandBase(w)
    PROVE  RegInv'
<1> DEFINE cells == {Item, Owner} \ batch[w].newer
<1>0. /\ Ahead /\ Pending /\ Safe /\ PassRead /\ GenInv /\ Reg
      /\ UNCHANGED <<queue, repairs, config, row, pass, missed>>
      /\ w \in Sent /\ batch[w].pc = "sent" /\ "base" \notin batch[w].landed
  BY DEF RegInv, LandBase, Sent
<1>1. /\ gen' = gen /\ cleanup' = cleanup /\ ready' = ready /\ lastGen' = lastGen /\ queue' = queue
      /\ pass' = pass /\ row' = row /\ outbox' = outbox /\ markers' = markers /\ ghosts' = ghosts
      /\ missed' = missed
  BY <1>0 DEF config, repairs
<1>2. LandsPart(w, "base", cells)
  BY LandsBase
<1>3. Ahead'
  BY <1>0, <1>2, AheadBase
<1>4. GenInv'
  <2>1. GenBatch'
    BY <1>0, <1>1, <1>2, GenBatchLands DEF GenInv
  <2> QED
    BY <1>0, <1>1, <2>1 DEF GenInv, GenPass, GenHost, GenGhost
<1>5. /\ batch[w].landed # {} => batch[w].landed = {"rest"} /\ batch'[w].pc = "done"
      /\ batch[w].landed = {} => /\ batch'[w].pc = "sent" /\ batch'[w].landed = {"base"}
                                 /\ batch'[w].old = batch[w].old
                                 /\ batch'[w].new = batch[w].new /\ batch'[w].gen = batch[w].gen
                                 /\ batch'[w].newer = batch[w].newer \cap Cells(batch'[w])
                                 /\ \A v \in Writers : Pins(v, w)' <=> Pins(v, w)
  BY <1>0, <1>2, BatchTypes DEF LandsPart
<1>i. Item \in Cells(batch[w])
  BY <1>0, RestCellNames
<1>6. \A v \in Writers \ {w} :
           /\ batch'[v].pc = batch[v].pc
           /\ batch[v].pc = "sent" =>
                 /\ batch'[v].landed = batch[v].landed /\ batch'[v].old = batch[v].old
                 /\ batch'[v].new = batch[v].new /\ batch'[v].gen = batch[v].gen
                 /\ batch[v].newer \subseteq batch'[v].newer
                 /\ \A u \in Writers : Pins(u, v)' <=> Pins(u, v)
                 /\ (Item \notin cells \/ ~Pins(v, w)) /\ Item \in batch'[v].newer
                        => Item \in batch[v].newer
                 /\ Pins(v, w) => cells \cap Cells(batch[v]) \subseteq batch'[v].newer
  BY <1>2, LandsOthers
<1>7. Pending'
  <2> SUFFICES ASSUME NEW v \in Writers, batch'[v].pc = "sent", batch'[v].landed = {"rest"},
                      Expiry(batch'[v].new) # None
               PROVE  outbox \/ missed
    BY <1>1 DEF Pending
  <2>1. v # w
    BY <1>5
  <2> QED
    BY <1>0, <1>6, <2>1 DEF Pending
<1>8. CASE Item \in batch[w].newer
  <2>1. item' = item /\ Item \notin cells
    BY <1>8 DEF LandBase
  <2>2. \A v \in Writers : Carries(v) =>
            v # w /\ Carries(v)' /\ \A u \in Writers : Pins(u, v) => Pins(u, v)'
    BY <1>0, <1>6, <2>1 DEF Carries
  <2>3. \A v \in Writers : Parting(v) => Parting(v)'
    BY <1>6, <1>8, <2>1 DEF Parting
  <2>4. Reg'
    <3> SUFFICES ASSUME NEW e \in Expiries, gen # 0, ready, ~missed, Expiry(item) = e
                 PROVE  Stands(e)' \/ Cover'
      BY <1>1, <2>1 DEF Reg
    <3>1. Stands(e) => Stands(e)'
      BY <1>1 DEF Stands, Handing
    <3> QED
      BY <1>0, <2>2, <2>3, <3>1 DEF Reg, Cover, Carried
  <2>5. PassRead'
    BY <1>0, <1>1, <2>1, <2>2 DEF PassRead, Carried
  <2>6. Safe'
    <3> SUFFICES ASSUME NEW v \in Writers, NEW e \in Expiries, Erases(v, e)', ~missed, Expiry(item) = e
                 PROVE  State(gen, e)' \in batch'[v].newer \/ \E u \in Writers : Carries(u)' /\ Pins(v, u)'
      BY <1>1, <2>1 DEF Safe
    <3>1. Erases(v, e)
      <4>1. CASE v = w
        BY <1>0, <1>1, <1>5, <1>8, <4>1 DEF Erases
      <4>2. CASE v # w
        BY <1>1, <1>6, <2>1, <4>2 DEF Erases
      <4> QED
        BY <4>1, <4>2
    <3>2. CASE State(gen, e) \in batch[v].newer
      <4>1. CASE v = w
        <5>1. batch[w].landed = {} /\ "rest" \notin batch'[w].landed
          BY <1>5, <4>1 DEF Erases
        <5>2. e \in Deleted(batch'[w]) /\ batch'[w].gen = gen
          BY <1>1, <4>1, Values DEF Erases, Deleted
        <5>3. State(gen, e) \in Cells(batch'[w])
          BY <5>1, <5>2, RestCellNames
        <5>4. State(gen, e) \in batch'[w].newer
          BY <1>5, <3>2, <4>1, <5>1, <5>3
        <5> QED
          BY <1>1, <4>1, <5>4 DEF State
      <4>2. CASE v # w
        BY <1>1, <1>6, <3>1, <3>2, <4>2 DEF Erases, State
      <4> QED
        BY <4>1, <4>2
    <3>3. ASSUME NEW u \in Writers, Carries(u), Pins(v, u)
          PROVE  Carries(u)' /\ Pins(v, u)'
      BY <2>2, <3>3
    <3> QED
      BY <1>0, <3>1, <3>2, <3>3 DEF Safe
  <2> QED
    BY <1>3, <1>4, <1>7, <2>4, <2>5, <2>6 DEF RegInv
<1>9. CASE Item \notin batch[w].newer
  <2>1. item' = batch[w].new /\ Item \in cells
    BY <1>9 DEF LandBase
  <2>2. batch[w].landed = {} => Carries(w)'
    BY <1>5, <2>1 DEF Carries
  <2>3. ASSUME batch[w].landed # {}, Expiry(item') # None, ~missed
        PROVE  outbox
    BY <1>0, <1>5, <2>1, <2>3 DEF Pending
  <2>4. Reg' /\ PassRead'
    <3>1. ASSUME NEW e \in Expiries, Expiry(item') = e, ~missed
          PROVE  outbox' \/ Carried'
      <4>1. e # None
        BY Values
      <4> QED
        BY <1>1, <2>2, <2>3, <3>1, <4>1 DEF Carried
    <3> QED
      BY <1>1, <3>1 DEF Reg, PassRead, Stands, Cover
  <2>5. Safe'
    <3> SUFFICES ASSUME NEW v \in Writers, NEW e \in Expiries, Erases(v, e)', ~missed, Expiry(item') = e
                 PROVE  State(gen, e)' \in batch'[v].newer \/ \E u \in Writers : Carries(u)' /\ Pins(v, u)'
      BY <1>1 DEF Safe
    <3>0. e # None /\ Expiry(batch[w].new) = e
      BY <2>1, Values
    <3>1. v # w
      BY <1>5, <3>0 DEF Erases
    <3>2. /\ batch[v].pc = "sent" /\ v \in Sent /\ "rest" \notin batch[v].landed
          /\ batch[v].gen = gen /\ Expiry(batch[v].new) = None /\ Expiry(batch[v].old) = e
      BY <1>1, <1>6, <3>1 DEF Erases, Sent
    <3>3. Pins(v, w)
      <4> SUFFICES ASSUME ~Pins(v, w) PROVE FALSE
        OBVIOUS
      <4>1. Pins(w, v)
        BY <1>0, <3>1, <3>2 DEF Order
      <4>2. "base" \in batch[v].landed \/ Item \in batch[v].newer
        BY <1>6, <3>1, <3>2 DEF Erases
      <4>3. "base" \notin batch[v].landed
        BY <1>0, <1>9, <3>2, <4>1 DEF Ahead, BaseAhead
      <4>4. Item \notin batch[v].newer
        BY <1>0, <1>9, <1>i, <3>2, <4>1 DEF Newer
      <4> QED
        BY <4>2, <4>3, <4>4
    <3>4. CASE batch[w].landed = {}
      BY <1>5, <2>2, <3>3, <3>4
    <3>5. CASE batch[w].landed # {}
      <4>1. batch[w].landed = {"rest"} /\ e \in Inserted(batch[w]) /\ batch[w].gen = gen
        BY <1>0, <1>5, <3>0, <3>2, <3>5 DEF OneGen, Inserted
      <4>2. State(gen, e) \in Cells(batch[v])
        <5>1. e \in Deleted(batch[v])
          BY <3>0, <3>2 DEF Deleted
        <5> QED
          BY <3>2, <5>1, RestCellNames
      <4>3. State(gen, e) \in batch[v].newer
        BY <1>0, <3>2, <3>3, <4>1, <4>2 DEF Ahead, RestAhead
      <4> QED
        BY <1>1, <1>6, <3>1, <3>2, <4>3 DEF State
    <3> QED
      BY <3>4, <3>5
  <2> QED
    BY <1>3, <1>4, <1>7, <2>4, <2>5 DEF RegInv
<1> QED
  BY <1>8, <1>9

LEMMA RestQueue ==
    ASSUME TypeOK, Newer, NEW w \in Writers, LandRest(w), NEW g \in Gens, NEW e \in Expiries,
           queue[g][e].st # "none", queue'[g][e].st = "none"
    PROVE  g = batch[w].gen /\ e \in Deleted(batch[w]) /\ State(g, e) \notin batch[w].newer
<1>1. w \in Sent /\ batch[w].gen \in Gens
  BY DEF LandRest, Sent, Newer
<1>2. CASE g = batch[w].gen /\ e \in Deleted(batch[w]) \cup Inserted(batch[w])
  <2>1. queue'[g][e] = Overwrite(batch[w], e, queue[g][e])
    BY <1>2, TypeParts DEF LandRest, Queue
  <2>2. queue'[g][e].st = IF State(g, e) \in batch[w].newer THEN queue[g][e].st
                          ELSE IF e \in Inserted(batch[w]) THEN "PENDING" ELSE "none"
    BY <1>2, <2>1 DEF Overwrite
  <2> QED
    BY <1>2, <2>2
<1>3. CASE ~(g = batch[w].gen /\ e \in Deleted(batch[w]) \cup Inserted(batch[w]))
  BY <1>1, <1>3, TypeParts DEF LandRest, Queue
<1> QED
  BY <1>2, <1>3

LEMMA RestKeeps ==
    ASSUME TypeOK, TypeOK', Order, Newer, OneGen, RegInv, NEW w \in Writers, LandRest(w)
    PROVE  RegInv'
<1> DEFINE cells == RestCells(batch[w])
<1>0. /\ Ahead /\ Pending /\ Safe /\ PassRead /\ GenInv /\ Reg
      /\ UNCHANGED <<base, markers, ghosts, config, row, pass, missed>>
      /\ w \in Sent /\ batch[w].pc = "sent" /\ "rest" \notin batch[w].landed
      /\ outbox' = (outbox \/ Inserted(batch[w]) # {})
  BY DEF RegInv, LandRest, Sent
<1>1. /\ gen' = gen /\ cleanup' = cleanup /\ ready' = ready /\ lastGen' = lastGen
      /\ pass' = pass /\ row' = row /\ markers' = markers /\ ghosts' = ghosts
      /\ missed' = missed /\ item' = item
      /\ (outbox => outbox') /\ (Expiry(batch[w].new) # None => outbox')
  BY <1>0, GenTypes DEF config, base, Inserted
<1>2. LandsPart(w, "rest", cells)
  BY LandsRest
<1>3. Ahead'
  BY <1>0, <1>2, AheadRest
<1>4. GenInv'
  <2>1. GenBatch'
    BY <1>0, <1>1, <1>2, GenBatchLands DEF GenInv
  <2> QED
    BY <1>0, <1>1, <2>1 DEF GenInv, GenPass, GenHost, GenGhost
<1>5. /\ batch[w].landed # {} => batch[w].landed = {"base"} /\ batch'[w].pc = "done"
      /\ batch[w].landed = {} => /\ batch'[w].pc = "sent" /\ batch'[w].landed = {"rest"}
                                 /\ batch'[w].new = batch[w].new
                                 /\ batch'[w].newer = batch[w].newer \cap Cells(batch'[w])
  BY <1>0, <1>2, BatchTypes DEF LandsPart
<1>i. /\ Item \notin cells
      /\ \A e \in Inserted(batch[w]) : State(batch[w].gen, e) \in cells \cup batch[w].newer
  BY RestCellsOf
<1> HIDE DEF cells
<1>6. \A v \in Writers \ {w} :
           /\ batch'[v].pc = batch[v].pc
           /\ batch[v].pc = "sent" =>
                 /\ batch'[v].landed = batch[v].landed /\ batch'[v].old = batch[v].old
                 /\ batch'[v].new = batch[v].new /\ batch'[v].gen = batch[v].gen
                 /\ batch[v].newer \subseteq batch'[v].newer
                 /\ \A u \in Writers : Pins(u, v)' <=> Pins(u, v)
                 /\ (Item \notin cells \/ ~Pins(v, w)) /\ Item \in batch'[v].newer
                        => Item \in batch[v].newer
                 /\ Pins(v, w) => cells \cap Cells(batch[v]) \subseteq batch'[v].newer
  BY <1>2, LandsOthers
<1>7. Pending'
  <2> SUFFICES ASSUME NEW v \in Writers, batch'[v].pc = "sent", batch'[v].landed = {"rest"},
                      Expiry(batch'[v].new) # None
               PROVE  outbox' \/ missed
    BY <1>1 DEF Pending
  <2>1. CASE v = w
    BY <1>1, <1>5, <2>1
  <2>2. CASE v # w
    BY <1>0, <1>1, <1>6, <2>2 DEF Pending
  <2> QED
    BY <2>1, <2>2
<1>8. ASSUME NEW v \in Writers, v # w, Carries(v)
      PROVE  Carries(v)' /\ \A u \in Writers : Pins(u, v) => Pins(u, v)'
  BY <1>1, <1>6, <1>8 DEF Carries
<1>9. ASSUME NEW e \in Expiries, Expiry(item) = e, Carries(w)
      PROVE  outbox' /\ e \in Inserted(batch[w])
  <2>1. e # None
    BY Values
  <2> QED
    BY <1>1, <1>9, <2>1 DEF Carries, Inserted
<1>10. PassRead'
  <2> SUFFICES ASSUME NEW e \in Expiries, pass.kind # "none", pass.gen = gen, gen # 0, ~missed,
                      Expiry(item) = e
               PROVE  Expiry(pass.seen) = e \/ outbox' \/ Carried'
    BY <1>1 DEF PassRead
  <2>1. Carried => Carried' \/ outbox'
    BY <1>8, <1>9 DEF Carried
  <2> QED
    BY <1>0, <1>1, <2>1 DEF PassRead
<1>11. Safe'
  <2> SUFFICES ASSUME NEW v \in Writers, NEW e \in Expiries, Erases(v, e)', ~missed, Expiry(item) = e
               PROVE  State(gen, e)' \in batch'[v].newer \/ \E u \in Writers : Carries(u)' /\ Pins(v, u)'
    BY <1>1 DEF Safe
  <2>1. v # w
    BY <1>5 DEF Erases
  <2>2. Erases(v, e) /\ batch[v].pc = "sent" /\ v \in Sent
    BY <1>1, <1>6, <1>i, <2>1 DEF Erases, Sent
  <2>3. CASE State(gen, e) \in batch[v].newer
    BY <1>1, <1>6, <2>1, <2>2, <2>3 DEF State
  <2>4. ASSUME NEW u \in Writers, Carries(u), Pins(v, u), u # w
        PROVE  Carries(u)' /\ Pins(v, u)'
    BY <1>8, <2>4
  <2>5. ASSUME Carries(w), Pins(v, w)
        PROVE  State(gen, e)' \in batch'[v].newer
    <3>1. e \in Inserted(batch[w]) /\ batch[w].gen = gen
      BY <1>0, <1>9, <2>2, <2>5 DEF OneGen, Erases
    <3>2. State(gen, e) \in Cells(batch[v])
      <4>1. e \in Deleted(batch[v])
        BY <2>2, Values DEF Deleted, Erases
      <4> QED
        BY <2>2, <4>1, RestCellNames DEF Erases
    <3>3. State(gen, e) \in cells \cup batch[w].newer
      BY <1>i, <3>1
    <3>4. State(gen, e) \in batch[w].newer => State(gen, e) \in batch[v].newer
      BY <1>0, <2>2, <2>5, <3>2 DEF Newer
    <3> QED
      BY <1>1, <1>6, <2>1, <2>2, <2>5, <3>2, <3>3, <3>4 DEF State
  <2> QED
    BY <1>0, <2>2, <2>3, <2>4, <2>5 DEF Safe
<1>12. Reg'
  <2> SUFFICES ASSUME NEW e \in Expiries, gen # 0, ready, ~missed, Expiry(item) = e, ~outbox'
               PROVE  Stands(e)' \/ Cover'
    BY <1>1 DEF Reg, Stands
  <2>0. ~Carries(w) /\ ~outbox /\ Expiry(batch[w].new) = None /\ ~Parting(w) /\ gen \in Gens /\ e # None
    BY <1>0, <1>1, <1>9, GenTypes, Values DEF Parting
  <2>1. Cover => Cover'
    <3>1. \A v \in Writers : Parting(v) => Parting(v)'
      BY <1>6, <1>i, <2>0 DEF Parting
    <3> QED
      BY <1>8, <2>0, <3>1 DEF Cover, Carried
  <2>2. ASSUME queue[gen][e].st # "none", queue'[gen][e].st = "none"
        PROVE  Cover'
    <3>1. gen = batch[w].gen /\ e \in Deleted(batch[w]) /\ State(gen, e) \notin batch[w].newer
      BY <2>0, <2>2, RestQueue
    <3>2. Expiry(batch[w].old) = e
      BY <3>1 DEF Deleted
    <3>3. CASE "base" \in batch[w].landed \/ Item \in batch[w].newer
      <4>1. Erases(w, e)
        BY <1>0, <2>0, <3>1, <3>2, <3>3 DEF Erases
      <4>2. PICK v \in Writers : Carries(v) /\ Pins(w, v)
        BY <1>0, <3>1, <4>1 DEF Safe
      <4> QED
        BY <1>8, <2>0, <4>2 DEF Cover, Carried
    <3>4. CASE "base" \notin batch[w].landed /\ Item \notin batch[w].newer
      <4>1. Parting(w)'
        BY <1>5, <2>0, <3>4 DEF Parting
      <4> QED
        BY <4>1 DEF Cover
    <3> QED
      BY <3>3, <3>4
  <2>3. Stands(e) => Stands(e)' \/ Cover'
    BY <1>1, <2>0, <2>2 DEF Stands, Handing
  <2> QED
    BY <1>0, <2>1, <2>3 DEF Reg
<1> QED
  BY <1>3, <1>4, <1>7, <1>10, <1>11, <1>12 DEF RegInv

-----------------------------------------------------------------------------
(* The steps of hosts, one by one.                                           *)

HostOnly(s) ==
    /\ \A t \in Hosts \ {s} : row'[t] = row[t]
    /\ row[s].pc # "idle"
    /\ row'[s].pc = "idle" \/ (row'[s].gen = row[s].gen /\ row'[s].drain = row[s].drain)
Others == UNCHANGED <<repairs, config, pass, missed>>
ItemStays == (item' = item /\ Pinned) \/ item' = None

LEMMA Turned ==
    ASSUME NEW s \in Hosts, HostOnly(s),
           row[s].pc = "handoff" /\ row[s].gen = gen => outbox' \/ gen \in markers'
    PROVE  \A t \in Hosts : Turns(t) /\ Hands(t)
BY DEF HostOnly, Turns, Hands

LEMMA HostMoves ==
    ASSUME NEW s \in Hosts, HostOnly(s), row[s].pc # "handoff", Others, Quiet, ItemStays, QueueStays
    PROVE  HostStep
<1>1. \A t \in Hosts : Turns(t) /\ Hands(t)
  BY Turned
<1> QED
  BY <1>1 DEF HostStep, Others, ItemStays, repairs

LEMMA QueueSame == ASSUME queue' = queue PROVE QueueStays
BY DEF QueueStays

LEMMA QueueSet ==
    ASSUME TypeOK, NEW r, NEW q, SetRow(r, q), q.st # "none"
    PROVE  QueueStays
BY RowSet DEF QueueStays, Sets

LEMMA GotoOnly ==
    ASSUME TypeOK, NEW s \in Hosts, row[s].pc # "idle", NEW p, Goto(s, p) PROVE HostOnly(s)
<1>1. row \in [Hosts -> Host] /\ row[s] \in Host
  BY TypeParts
<1>2. PICK n : n = [row[s] EXCEPT !.pc = p]
  OBVIOUS
<1>3. n.gen = row[s].gen /\ n.drain = row[s].drain
  BY <1>1, <1>2 DEF Host
<1>4. row' = [row EXCEPT ![s] = n]
  BY <1>1, <1>2 DEF Goto
<1> QED
  BY <1>1, <1>3, <1>4 DEF HostOnly

LEMMA QuitOnly == ASSUME TypeOK, NEW s \in Hosts, row[s].pc # "idle", Quit(s) PROVE HostOnly(s)
<1>1. row \in [Hosts -> Host]
  BY TypeParts
<1> QED
  BY <1>1 DEF HostOnly, Quit, NoRow

LEMMA SetOnly ==
    ASSUME TypeOK, NEW s \in Hosts, row[s].pc # "idle", NEW p, NEW q, NEW k,
           \/ row' = [row EXCEPT ![s].pc = p, ![s].after = q]
           \/ row' = [row EXCEPT ![s].pc = p, ![s].work = q]
           \/ row' = [row EXCEPT ![s].pc = p, ![s].st = q]
           \/ row' = [row EXCEPT ![s].pc = p, ![s].seen = q]
           \/ row' = [row EXCEPT ![s].pc = p, ![s].seen = q, ![s].after = k]
           \/ row' = [row EXCEPT ![s].seen = q, ![s].pc = p, ![s].after = k]
    PROVE  HostOnly(s) /\ row'[s].pc = p /\ row'[s].gen = row[s].gen
<1>1. row \in [Hosts -> Host] /\ row[s] \in Host
  BY TypeParts
<1>2. ASSUME NEW n, row' = [row EXCEPT ![s] = n], n.gen = row[s].gen, n.drain = row[s].drain, n.pc = p
      PROVE  HostOnly(s) /\ row'[s].pc = p /\ row'[s].gen = row[s].gen
  BY <1>1, <1>2 DEF HostOnly
<1>3. CASE row' = [row EXCEPT ![s].pc = p, ![s].after = q]
  <2>1. PICK n : n = [row[s] EXCEPT !.pc = p, !.after = q]
    OBVIOUS
  <2>2. n.gen = row[s].gen /\ n.drain = row[s].drain /\ n.pc = p
    BY <1>1, <2>1 DEF Host
  <2>3. row' = [row EXCEPT ![s] = n]
    BY <1>1, <1>3, <2>1
  <2> QED
    BY <1>2, <2>2, <2>3
<1>4. CASE row' = [row EXCEPT ![s].pc = p, ![s].work = q]
  <2>1. PICK n : n = [row[s] EXCEPT !.pc = p, !.work = q]
    OBVIOUS
  <2>2. n.gen = row[s].gen /\ n.drain = row[s].drain /\ n.pc = p
    BY <1>1, <2>1 DEF Host
  <2>3. row' = [row EXCEPT ![s] = n]
    BY <1>1, <1>4, <2>1
  <2> QED
    BY <1>2, <2>2, <2>3
<1>5. CASE row' = [row EXCEPT ![s].pc = p, ![s].st = q]
  <2>1. PICK n : n = [row[s] EXCEPT !.pc = p, !.st = q]
    OBVIOUS
  <2>2. n.gen = row[s].gen /\ n.drain = row[s].drain /\ n.pc = p
    BY <1>1, <2>1 DEF Host
  <2>3. row' = [row EXCEPT ![s] = n]
    BY <1>1, <1>5, <2>1
  <2> QED
    BY <1>2, <2>2, <2>3
<1>6. CASE row' = [row EXCEPT ![s].pc = p, ![s].seen = q]
  <2>1. PICK n : n = [row[s] EXCEPT !.pc = p, !.seen = q]
    OBVIOUS
  <2>2. n.gen = row[s].gen /\ n.drain = row[s].drain /\ n.pc = p
    BY <1>1, <2>1 DEF Host
  <2>3. row' = [row EXCEPT ![s] = n]
    BY <1>1, <1>6, <2>1
  <2> QED
    BY <1>2, <2>2, <2>3
<1>7. CASE row' = [row EXCEPT ![s].pc = p, ![s].seen = q, ![s].after = k]
  <2>1. PICK n : n = [row[s] EXCEPT !.pc = p, !.seen = q, !.after = k]
    OBVIOUS
  <2>2. n.gen = row[s].gen /\ n.drain = row[s].drain /\ n.pc = p
    BY <1>1, <2>1 DEF Host
  <2>3. row' = [row EXCEPT ![s] = n]
    BY <1>1, <1>7, <2>1
  <2> QED
    BY <1>2, <2>2, <2>3
<1>8. CASE row' = [row EXCEPT ![s].seen = q, ![s].pc = p, ![s].after = k]
  <2>1. PICK n : n = [row[s] EXCEPT !.seen = q, !.pc = p, !.after = k]
    OBVIOUS
  <2>2. n.gen = row[s].gen /\ n.drain = row[s].drain /\ n.pc = p
    BY <1>1, <2>1 DEF Host
  <2>3. row' = [row EXCEPT ![s] = n]
    BY <1>1, <1>8, <2>1
  <2> QED
    BY <1>2, <2>2, <2>3
<1> QED
  BY <1>3, <1>4, <1>5, <1>6, <1>7, <1>8

LEMMA CellsApart == Item \notin {Owner} /\ Item \notin {Index}
BY DEF Item, Owner, Index

LEMMA LocalMove ==
    ASSUME TypeOK, NEW s \in Hosts, HostOnly(s), row[s].pc # "handoff", Local
    PROVE  HostStep
<1>1. Others /\ QueueStays /\ Quiet /\ ItemStays
  BY QueueSame, QuietSame DEF Local, Others, ItemStays, base
<1> QED
  BY <1>1, HostMoves

LEMMA ReadMoves ==
    ASSUME TypeOK, NEW s \in Hosts,
           \/ CheckItem(s) \/ Gate(s) \/ CheckOwner(s) \/ FinalRead(s) \/ ReadSurvivor(s)
           \/ RecordRepair(s) \/ Unmark(s) \/ Reread(s)
    PROVE  HostStep
<1>1. Local /\ row[s].pc \notin {"idle", "handoff"}
  BY DEF CheckItem, Gate, CheckOwner, FinalRead, ReadSurvivor, RecordRepair, Unmark, Reread
<1>g. (\E p : Goto(s, p)) \/ Quit(s) => HostOnly(s)
  BY <1>1, GotoOnly, QuitOnly
<1>s. ASSUME NEW p, NEW k, row' = [row EXCEPT ![s].seen = item, ![s].pc = p, ![s].after = k]
      PROVE  HostOnly(s)
  BY <1>1, <1>s, SetOnly
<1>v. Survive(s) => HostOnly(s)
  BY <1>s DEF Survive
<1>2. ASSUME CheckItem(s) PROVE HostOnly(s)
  <2>1. ASSUME NEW p, NEW q, NEW k, row' = [row EXCEPT ![s].pc = p, ![s].seen = q, ![s].after = k]
        PROVE  HostOnly(s)
    BY <1>1, <2>1, SetOnly
  <2>2. CASE item = row[s].work.img
    BY <1>2, <1>g, <2>2 DEF CheckItem
  <2>3. CASE item # row[s].work.img
    <3>1. PICK k : row' = [row EXCEPT ![s].pc = "abort", ![s].seen = item, ![s].after = k]
      BY <1>2, <2>3 DEF CheckItem
    <3> QED
      BY <2>1, <3>1
  <2> QED
    BY <2>2, <2>3
<1>4. ASSUME Gate(s) \/ CheckOwner(s) \/ RecordRepair(s) \/ Unmark(s) PROVE HostOnly(s)
  BY <1>4, <1>g DEF Gate, CheckOwner, RecordRepair, Unmark
<1>5. ASSUME FinalRead(s) \/ ReadSurvivor(s) PROVE HostOnly(s)
  BY <1>5, <1>g, <1>v DEF FinalRead, ReadSurvivor
<1>6. ASSUME Reread(s) PROVE HostOnly(s)
  <2>1. ASSUME NEW p, NEW q, row' = [row EXCEPT ![s].pc = p, ![s].seen = q]
        PROVE  HostOnly(s)
    <3>1. PICK k : k = 0
      OBVIOUS
    <3> QED
      BY <1>1, <2>1, <3>1, SetOnly
  <2> QED
    BY <1>6, <1>g, <2>1 DEF Reread
<1>3. HostOnly(s)
  BY <1>2, <1>4, <1>5, <1>6
<1> QED
  BY <1>1, <1>3, LocalMove

LEMMA ReadItemMove == ASSUME TypeOK, NEW s \in Hosts, ReadItem(s) PROVE HostStep
<1>1. row[s].pc = "read" /\ Others /\ QueueStays /\ item' = item
  BY QueueSame DEF ReadItem, Others, base
<1>2. HostOnly(s)
  <2>1. ASSUME NEW p, NEW q, row' = [row EXCEPT ![s].pc = p, ![s].after = q]
        PROVE  HostOnly(s)
    BY <1>1, <2>1, SetOnly
  <2>2. ASSUME NEW p, NEW q, row' = [row EXCEPT ![s].pc = p, ![s].work = q]
        PROVE  HostOnly(s)
    BY <1>1, <2>2, SetOnly
  <2> QED
    BY <2>1, <2>2 DEF ReadItem
<1>3. Quiet /\ Pinned
  <2>1. FreeWorks \subseteq Works
    BY DEF FreeWorks
  <2> QED
    BY <2>1, QuietSame, QuietAnew DEF ReadItem
<1> QED
  BY <1>1, <1>2, <1>3, HostMoves DEF ItemStays

LEMMA OwnMoves ==
    ASSUME TypeOK, Newer, NEW s \in Hosts, OwnBase(s) \/ Seal(s) \/ ReleaseBase(s) \/ RestoreIndex(s)
    PROVE  HostStep
<1>1. row[s].pc \in {"own", "seal", "release", "restore"} /\ Others /\ QueueStays /\ item' = item
  BY QueueSame DEF OwnBase, Seal, ReleaseBase, RestoreIndex, Others, base
<1>2. (\E p : Goto(s, p)) \/ Quit(s)
  BY DEF OwnBase, Seal, ReleaseBase, RestoreIndex
<1>3. HostOnly(s)
  BY <1>1, <1>2, GotoOnly, QuitOnly
<1>4. batch' = batch \/ Now({Owner}) \/ Now({Index})
  BY DEF OwnBase, Seal, ReleaseBase, RestoreIndex
<1>5. Quiet /\ Pinned
  BY <1>4, QuietSame, QuietNow, CellsApart
<1> QED
  BY <1>1, <1>3, <1>5, HostMoves DEF ItemStays

LEMMA DeleteMove == ASSUME TypeOK, Newer, NEW s \in Hosts, DeleteBase(s) PROVE HostStep
<1>1. row[s].pc = "delete" /\ Others /\ QueueStays
  BY QueueSame DEF DeleteBase, Others
<1>2. HostOnly(s)
  BY <1>1, GotoOnly DEF DeleteBase
<1>3. Quiet /\ ItemStays
  <2>1. CASE owner = row[s].work.id /\ item = row[s].work.img
    BY <2>1, QuietNow DEF DeleteBase, ItemStays
  <2>2. CASE ~(owner = row[s].work.id /\ item = row[s].work.img)
    BY <2>2, QuietSame DEF DeleteBase, ItemStays, base
  <2> QED
    BY <2>1, <2>2
<1> QED
  BY <1>1, <1>2, <1>3, HostMoves

LEMMA WorkMoves ==
    ASSUME TypeOK, Newer, Places, NEW s \in Hosts,
           ClaimWork(s) \/ AbortWork(s) \/ MarkApplying(s) \/ MarkApplied(s)
    PROVE  HostStep
<1>1. row[s].pc \in {"claim", "abort", "apply", "mark"} /\ Others /\ item' = item
  BY DEF ClaimWork, AbortWork, MarkApplying, MarkApplied, Others, base
<1>2. \/ Quit(s) /\ UNCHANGED <<queue, batch>>
      \/ \E q \in {[st |-> "CLAIMED", work |-> row[s].work], [Q(row[s]) EXCEPT !.st = "ABORTING"],
                   [Q(row[s]) EXCEPT !.st = "APPLYING"], [Q(row[s]) EXCEPT !.st = "APPLIED"]} :
            /\ SetRow(row[s], q)
            /\ \E p, k : row' = [row EXCEPT ![s].pc = p, ![s].st = k]
  BY DEF ClaimWork, AbortWork, MarkApplying, MarkApplied
<1>3. CASE Quit(s) /\ UNCHANGED <<queue, batch>>
  <2>1. Quiet /\ ItemStays /\ QueueStays
    BY <1>1, <1>3, QuietSame, QueueSame DEF ItemStays
  <2> QED
    BY <1>1, <1>3, <2>1, QuitOnly, HostMoves
<1>4. ASSUME NEW q, q \in {[st |-> "CLAIMED", work |-> row[s].work], [Q(row[s]) EXCEPT !.st = "ABORTING"],
                   [Q(row[s]) EXCEPT !.st = "APPLYING"], [Q(row[s]) EXCEPT !.st = "APPLIED"]},
             SetRow(row[s], q), NEW p, NEW k, row' = [row EXCEPT ![s].pc = p, ![s].st = k]
      PROVE  HostStep
  <2>1. row[s].gen \in Gens /\ row[s].exp \in Expiries
    BY <1>1, HostWork
  <2>2. q.st # "none"
    <3>1. Q(row[s]) \in Row
      BY <2>1, TypeParts DEF Q
    <3> QED
      BY <1>4, <3>1 DEF Row
  <2>3. HostOnly(s)
    BY <1>1, <1>4, SetOnly
  <2>4. Quiet /\ ItemStays /\ QueueStays
    BY <1>1, <1>4, <2>2, QuietSetRow, QueueSet DEF ItemStays
  <2> QED
    BY <1>1, <2>3, <2>4, HostMoves
<1> QED
  BY <1>2, <1>3, <1>4

LEMMA EffectMoves ==
    ASSUME TypeOK, Newer, NEW s \in Hosts, ApplyEffects(s) \/ EffectsUnknown(s)
    PROVE  HostStep
<1>1. row[s].pc = "effects" /\ Others /\ QueueStays /\ item' = item
  BY QueueSame DEF ApplyEffects, EffectsUnknown, Others, base
<1>2. HostOnly(s)
  BY <1>1, GotoOnly, QuitOnly DEF ApplyEffects, EffectsUnknown
<1>3. Quiet /\ Pinned
  BY QuietSame, QuietEffects DEF ApplyEffects, EffectsUnknown
<1> QED
  BY <1>1, <1>2, <1>3, HostMoves DEF ItemStays

LEMMA DestroyMove ==
    ASSUME TypeOK, Newer, Places, GenInv, NEW s \in Hosts, Destroy(s)
    PROVE  HostStep
<1>1. row[s].pc = "destroy" /\ Others /\ item' = item
  BY DEF Destroy, Others, base
<1>2. HostOnly(s) /\ (Guarded(row[s]) => row'[s].pc = "handoff" /\ row'[s].gen = row[s].gen)
  <2>1. CASE Guarded(row[s])
    <3>1. PICK q : row' = [row EXCEPT ![s].pc = "handoff", ![s].after = q]
      BY <2>1 DEF Destroy
    <3>2. PICK k : k = 0
      OBVIOUS
    <3> QED
      BY <1>1, <3>1, <3>2, SetOnly
  <2>2. CASE ~Guarded(row[s])
    BY <1>1, <2>2, QuitOnly DEF Destroy
  <2> QED
    BY <2>1, <2>2
<1>3. CASE Matches(Doomed(row[s]))
  <2>1. SetRow(row[s], Empty)
    BY <1>3 DEF Destroy
  <2>2. Quiet /\ ItemStays
    BY <1>1, <2>1, QuietSetRow DEF ItemStays
  <2>3. QueueStays
    <3> SUFFICES ASSUME NEW g \in Gens, NEW e \in Expiries, g = gen, queue[g][e].st # "none"
                 PROVE  queue'[g][e].st # "none" \/ Handing'
      BY DEF QueueStays
    <3>1. CASE g = row[s].gen
      <4>1. Guarded(row[s])
        BY <1>1, <3>1 DEF GenInv, GenHost, Guarded
      <4>2. gen' = gen
        BY <1>1 DEF Others, config
      <4> QED
        BY <1>2, <3>1, <4>1, <4>2 DEF Handing
    <3>2. CASE g # row[s].gen
      BY <2>1, <3>2, RowSet DEF Sets
    <3> QED
      BY <3>1, <3>2
  <2> QED
    BY <1>1, <1>2, <2>2, <2>3, HostMoves
<1>4. CASE ~Matches(Doomed(row[s]))
  <2>1. Quiet /\ ItemStays /\ QueueStays
    BY <1>1, <1>4, QuietSame, QueueSame DEF Destroy, ItemStays
  <2> QED
    BY <1>1, <1>2, <2>1, HostMoves
<1> QED
  BY <1>3, <1>4

LEMMA HandoffMove == ASSUME TypeOK, NEW s \in Hosts, Handoff(s) PROVE HostStep
<1>1. /\ row[s].pc = "handoff" /\ outbox' /\ item' = item
      /\ UNCHANGED <<queue, markers, ghosts, config, batch, pass, missed>>
  BY DEF Handoff, base
<1>2. HostOnly(s)
  BY <1>1, GotoOnly DEF Handoff
<1>3. \A t \in Hosts : Turns(t) /\ Hands(t)
  BY <1>1, <1>2, Turned
<1>4. Quiet /\ Pinned /\ QueueStays
  BY <1>1, QuietSame, QueueSame
<1> QED
  BY <1>1, <1>3, <1>4 DEF HostStep

LEMMA CrashMoves ==
    ASSUME TypeOK, GenInv, NEW s \in Hosts, Crash(s) \/ DestroyUnknown(s)
    PROVE  HostStep
<1>1. /\ row[s].pc # "idle" /\ Quit(s) /\ item' = item /\ outbox' = outbox
      /\ UNCHANGED <<queue, config, batch, pass, missed>> /\ markers \subseteq markers'
      /\ s \in Marking => row[s].gen \in markers'
  BY DEF Crash, DestroyUnknown, Marking, base
<1>2. row[s].pc = "handoff" /\ row[s].gen = gen => gen \in markers'
  BY <1>1 DEF Marking, GenInv, GenHost, Guarded
<1>3. HostOnly(s)
  BY <1>1, QuitOnly
<1>4. Quiet /\ Pinned /\ QueueStays
  BY <1>1, QuietSame, QueueSame
<1>5. \A d \in ghosts' : d \in ghosts \/ (d.gen \in markers' /\ d.gen = row[s].gen)
  <2>1. ghosts' = ghosts \/ (ghosts' = ghosts \cup {Doomed(row[s])} /\ s \in Marking)
    BY DEF Crash, DestroyUnknown
  <2> QED
    BY <1>1, <2>1 DEF Doomed
<1>6. \A t \in Hosts : Turns(t) /\ Hands(t)
  BY <1>2, <1>3, Turned
<1> QED
  BY <1>1, <1>4, <1>5, <1>6 DEF HostStep

(* The record a registration names its row by.                               *)
LEMMA InsertRow ==
    ASSUME TypeOK, Newer, NEW g, NEW e, Insert(g, e), g \in Gens \/ e = None
    PROVE  /\ Quiet /\ Pinned /\ QueueStays
           /\ \A h \in Gens, f \in Expiries : queue[h][f].st # "none" => queue'[h][f].st # "none"
           /\ e \in Expiries => queue'[g][e].st # "none"
<1>1. CASE e # None /\ queue[g][e].st = "none"
  <2>1. PICK r : r = [gen |-> g, exp |-> e]
    OBVIOUS
  <2>2. PICK q : q = [Empty EXCEPT !.st = "PENDING"]
    OBVIOUS
  <2>3. q.st = "PENDING" /\ r.gen = g /\ r.exp = e
    BY <2>1, <2>2 DEF Empty
  <2>4. SetRow(r, q)
    BY <1>1, <2>1, <2>2 DEF Insert
  <2>5. Sets(r, q)
    BY <2>4, RowSet
  <2> QED
    BY <1>1, <2>3, <2>4, <2>5, QuietSetRow, QueueSet DEF Sets
<1>2. CASE ~(e # None /\ queue[g][e].st = "none")
  <2>1. queue' = queue /\ batch' = batch
    BY <1>2 DEF Insert
  <2> QED
    BY <1>2, <2>1, QuietSame, QueueSame, Values
<1> QED
  BY <1>1, <1>2

LEMMA InsertMove == ASSUME TypeOK, Newer, Places, NEW s \in Hosts, InsertSeen(s) PROVE HostStep
<1>1. row[s].pc = "insert" /\ Others /\ item' = item /\ Quit(s)
  BY DEF InsertSeen, Others, base
<1>2. row[s].gen \in Gens
  BY <1>1, HostWork
<1>3. Quiet /\ Pinned /\ QueueStays
  BY <1>2, InsertRow DEF InsertSeen
<1> QED
  BY <1>1, <1>3, QuitOnly, HostMoves DEF ItemStays

LEMMA SendMoves ==
    ASSUME TypeOK, Newer, NEW w \in Writers, NEW img, NEW g \in Gens,
           ClaimAndSend(w, img, g) \/ GiveUp(w) \/ Lose(w)
    PROVE  HostStep
<1>1. row' = row /\ ghosts' = ghosts /\ item' = item /\ Others /\ queue' = queue
  BY DEF ClaimAndSend, GiveUp, Lose, Others, repairs, base
<1>2. Quiet /\ Pinned
  <2>1. CASE ClaimAndSend(w, img, g)
    BY <2>1, QuietSend
  <2>2. CASE GiveUp(w)
    BY <2>2, QuietNow, CellsApart DEF GiveUp
  <2>3. CASE Lose(w)
    <3>1. batch[w].landed = {} /\ batch' = [batch EXCEPT ![w] = [Resting EXCEPT !.pc = "done"]]
      BY <2>3 DEF Lose
    <3>2. batch \in [Writers -> Batch]
      BY TypeParts
    <3>3. batch'[w].pc = "done"
      BY <3>1, <3>2 DEF Resting
    <3>4. \A v \in Writers : v # w => batch'[v] = batch[v]
      BY <3>1, <3>2
    <3> QED
      BY <3>1, <3>3, <3>4 DEF Quiet, Pinned, Keep, Pins
  <2> QED
    BY <2>1, <2>2, <2>3
<1>3. \A t \in Hosts : Turns(t) /\ Hands(t)
  BY <1>1 DEF Turns, Hands
<1> QED
  BY <1>1, <1>2, <1>3, QueueSame DEF HostStep, Others, repairs

LEMMA ExpireMoves == ASSUME TypeOK, ExpireClaim PROVE HostStep
<1>1. row' = row /\ ghosts' = ghosts /\ item' = item /\ Others /\ queue' = queue /\ batch' = batch
  BY DEF ExpireClaim, Others, repairs, base
<1>3. \A t \in Hosts : Turns(t) /\ Hands(t)
  BY <1>1 DEF Turns, Hands
<1> QED
  BY <1>1, <1>3, QueueSame, QuietSame DEF HostStep, Others, repairs

LEMMA ReplayQuiet == ASSUME TypeOK, Newer, NEW k, Replay(k) PROVE HostStep
<1>1. row' = row /\ ghosts' = ghosts /\ item' = item /\ Others /\ queue' = queue
  BY DEF Replay, Others, repairs, base
<1>2. Quiet /\ Pinned
  BY QuietEffects DEF Replay
<1>3. \A t \in Hosts : Turns(t) /\ Hands(t)
  BY <1>1 DEF Turns, Hands
<1> QED
  BY <1>1, <1>2, <1>3, QueueSame DEF HostStep, Others, repairs

LEMMA LateMove == ASSUME TypeOK, Newer, GenInv, NEW d \in ghosts, LateDestroy(d) PROVE HostStep
<1>1. /\ row' = row /\ ghosts' \subseteq ghosts /\ item' = item
      /\ UNCHANGED <<outbox, markers, config, pass, missed>>
  BY DEF LateDestroy, base
<1>3. \A t \in Hosts : Turns(t) /\ Hands(t)
  BY <1>1 DEF Turns, Hands
<1>4. Quiet /\ Pinned /\ QueueStays
  <2>1. CASE Matches(d)
    <3>1. SetRow(d, Empty)
      BY <2>1 DEF LateDestroy
    <3>2. QueueStays
      BY <1>1, <3>1, RowSet DEF QueueStays, Sets, GenInv, GenGhost
    <3> QED
      BY <3>1, <3>2, QuietSetRow
  <2>2. CASE ~Matches(d)
    BY <2>2, QuietSame, QueueSame DEF LateDestroy
  <2> QED
    BY <2>1, <2>2
<1> QED
  BY <1>1, <1>3, <1>4 DEF HostStep

LEMMA LoadMoves ==
    ASSUME TypeOK, NEW s \in Hosts, NEW e \in Expiries, Load(s, e) \/ DrainLoad(s, e)
    PROVE  HostStep
<1>0. row \in [Hosts -> Host]
  BY TypeParts
<1>1. row[s].pc = "idle" /\ Local
  BY DEF Load, DrainLoad
<1>2. ghosts' = ghosts /\ item' = item /\ Others /\ queue' = queue /\ batch' = batch
  BY <1>1 DEF Local, Others, repairs, base
<1>3. /\ \A t \in Hosts \ {s} : row'[t] = row[t]
      /\ \/ row'[s].gen = gen /\ gen # 0 /\ ready /\ ~row'[s].drain
         \/ row'[s].gen = cleanup /\ cleanup # 0
  <2>1. CASE Load(s, e)
    <3>1. PICK p : row' = [row EXCEPT ![s] =
                               [NoRow EXCEPT !.gen = gen, !.exp = e, !.st = queue[gen][e].st,
                                             !.work = queue[gen][e].work, !.pc = p]]
      BY <2>1 DEF Load
    <3>2. gen # 0 /\ ready
      BY <2>1 DEF Load
    <3> QED
      BY <1>0, <3>1, <3>2 DEF NoRow
  <2>2. CASE DrainLoad(s, e)
    <3>1. PICK p : row' = [row EXCEPT ![s] =
                               [NoRow EXCEPT !.gen = cleanup, !.exp = e, !.st = queue[cleanup][e].st,
                                             !.work = queue[cleanup][e].work, !.drain = TRUE, !.pc = p]]
      BY <2>2 DEF DrainLoad
    <3>2. cleanup # 0
      BY <2>2 DEF DrainLoad
    <3> QED
      BY <1>0, <3>1, <3>2 DEF NoRow
  <2> QED
    BY <2>1, <2>2
<1>4. \A t \in Hosts : Turns(t) /\ Hands(t)
  BY <1>1, <1>3 DEF Turns, Hands
<1> QED
  BY <1>2, <1>4, QueueSame, QuietSame DEF HostStep, Others, repairs

-----------------------------------------------------------------------------
(* The passes and the lifecycle.                                             *)

LEMMA ReadKeeps ==
    ASSUME TypeOK, TypeOK', Order, Newer, RegInv, NEW kind \in Kinds, ReadForPass(kind), outbox' = outbox,
           missed' = missed, kind = "backfill" => gen # 0
    PROVE  RegInv'
<1>0. /\ Ahead /\ Pending /\ Safe /\ PassRead /\ GenInv /\ Reg
      /\ UNCHANGED <<base, queue, markers, ghosts, config, batch, row>>
      /\ pass.kind = "none" /\ pass' = [kind |-> kind, gen |-> gen, seen |-> item]
  BY DEF RegInv, ReadForPass
<1>1. /\ gen' = gen /\ cleanup' = cleanup /\ ready' = ready /\ lastGen' = lastGen /\ queue' = queue
      /\ row' = row /\ markers' = markers /\ ghosts' = ghosts /\ item' = item /\ batch' = batch
      /\ pass'.gen = gen /\ pass'.seen = item /\ pass'.kind = kind
  BY <1>0 DEF config, base
<1>2. Quiet /\ Pinned /\ Calmly
  BY <1>1, QuietSame DEF Calmly
<1>3. Ahead' /\ Pending' /\ Safe' /\ PassRead'
  BY <1>0, <1>1, <1>2, AheadQuiet, PendingQuiet, SafeCalm, PassReadCalm
<1>4. GenInv'
  <2>1. GenBatch'
    BY <1>0, <1>1, <1>2, GenBatchQuiet
  <2> QED
    BY <1>0, <1>1, <2>1 DEF GenInv, GenPass, GenHost, GenGhost
<1>5. ASSUME NEW e \in Expiries, Stands(e)
      PROVE  Stands(e)'
  BY <1>0, <1>1, <1>5 DEF Stands, Handing
<1>6. Reg'
  BY <1>0, <1>1, <1>2, <1>5, RegCalm
<1> QED
  BY <1>3, <1>4, <1>6 DEF RegInv

LEMMA TakeKeeps ==
    ASSUME TypeOK, TypeOK', Order, Newer, RegInv, TakeOutboxRow
    PROVE  RegInv'
<1>0. /\ Ahead /\ Pending /\ Safe /\ PassRead /\ GenInv /\ Reg
      /\ UNCHANGED <<base, queue, markers, ghosts, config, batch, row>>
      /\ pass' = [kind |-> "outbox", gen |-> gen, seen |-> item]
      /\ missed' = (missed \/ \E w \in Writers : batch[w].landed = {"rest"}) /\ missed \in BOOLEAN
  BY GenTypes DEF RegInv, ReadForPass, TakeOutboxRow
<1>1. /\ gen' = gen /\ cleanup' = cleanup /\ ready' = ready /\ lastGen' = lastGen /\ queue' = queue
      /\ row' = row /\ markers' = markers /\ ghosts' = ghosts /\ item' = item /\ batch' = batch
      /\ pass'.gen = gen /\ pass'.seen = item /\ pass'.kind = "outbox" /\ (missed => missed')
  BY <1>0 DEF config, base
<1>2. Quiet /\ Pinned /\ Calmly
  BY <1>1, QuietSame DEF Calmly
<1>3. Ahead' /\ Safe' /\ PassRead'
  BY <1>0, <1>1, <1>2, AheadQuiet, SafeCalm, PassReadCalm
<1>4. Pending'
  BY <1>0, <1>1 DEF Pending
<1>5. GenInv'
  <2>1. GenBatch'
    BY <1>0, <1>1, <1>2, GenBatchQuiet
  <2> QED
    BY <1>0, <1>1, <2>1 DEF GenInv, GenPass, GenHost, GenGhost
<1>6. Reg'
  BY <1>1 DEF Reg, Stands
<1> QED
  BY <1>3, <1>4, <1>5, <1>6 DEF RegInv

LEMMA RegisterKeeps ==
    ASSUME TypeOK, TypeOK', Order, Newer, RegInv, NEW kind \in Kinds, RegisterSeen(kind),
           outbox => outbox',
           markers' = markers \/ (kind = "repair" /\ markers' = markers \cap {pass.gen}),
           ready' = ready \/ (kind = "backfill" /\ pass.gen = gen /\ ready')
    PROVE  RegInv'
<1>0. /\ Ahead /\ Pending /\ Safe /\ PassRead /\ GenInv /\ Reg
      /\ UNCHANGED <<base, ghosts, gen, cleanup, lastGen, row, missed>>
      /\ pass.kind = kind /\ kind # "none" /\ pass' = NoPass /\ Insert(pass.gen, PassExpiry)
  BY DEF RegInv, RegisterSeen, Kinds
<1>1. /\ gen' = gen /\ cleanup' = cleanup /\ lastGen' = lastGen
      /\ row' = row /\ ghosts' = ghosts /\ item' = item /\ missed' = missed
      /\ pass'.kind = "none" /\ pass'.gen = 0
  BY <1>0 DEF base, NoPass
<1>2. /\ Quiet /\ Pinned
      /\ \A h \in Gens, f \in Expiries : queue[h][f].st # "none" => queue'[h][f].st # "none"
      /\ PassExpiry \in Expiries => queue'[pass.gen][PassExpiry].st # "none"
  <2>1. pass.gen \in Gens \/ PassExpiry = None
    BY GenTypes DEF PassExpiry
  <2> QED
    BY <1>0, <2>1, InsertRow
<1>3. Calmly
  BY <1>1, <1>2 DEF Calmly
<1>4. Ahead' /\ Pending' /\ Safe' /\ PassRead'
  BY <1>0, <1>1, <1>2, <1>3, AheadQuiet, PendingQuiet, SafeCalm, PassReadCalm
<1>5. ready => pass.gen = gen
  BY <1>0 DEF GenInv, GenPass
<1>6. GenInv'
  <2>1. GenBatch'
    BY <1>0, <1>1, <1>2, GenBatchQuiet
  <2>2. GenPass'
    <3>1. ready' => gen # 0
      BY <1>0, <1>1, GenTypes DEF GenInv, GenPass
    <3>2. 0 <= lastGen
      BY GenTypes
    <3> QED
      BY <1>0, <1>1, <3>1, <3>2 DEF GenInv, GenPass
  <2>3. GenHost'
    BY <1>0, <1>1 DEF GenInv, GenHost
  <2>4. GenGhost'
    BY <1>0, <1>1, <1>5 DEF GenInv, GenGhost
  <2> QED
    BY <2>1, <2>2, <2>3, <2>4 DEF GenInv
<1>7. ASSUME NEW e \in Expiries, gen # 0, ready, Stands(e)
      PROVE  Stands(e)'
  <2>1. pass.gen = gen /\ gen \in Gens
    BY <1>5, <1>7, GenTypes
  <2>2. gen \in markers => gen \in markers'
    BY <2>1
  <2>3. Expiry(pass.seen) = e => queue'[gen][e].st # "none"
    BY <1>2, <1>7, <2>1 DEF PassExpiry
  <2> QED
    BY <1>1, <1>2, <1>7, <2>1, <2>2, <2>3 DEF Stands, Handing
<1>8. Reg'
  <2>1. CASE ready' => ready
    BY <1>0, <1>1, <1>3, <1>7, <2>1, RegCalm
  <2>2. CASE pass.gen = gen /\ ready'
    <3> SUFFICES ASSUME NEW e \in Expiries, gen # 0, ~missed, Expiry(item) = e
                 PROVE  Stands(e)' \/ Cover'
      BY <1>1 DEF Reg
    <3>1. Expiry(pass.seen) = e \/ outbox \/ Carried
      BY <1>0, <2>2 DEF PassRead
    <3>2. Expiry(pass.seen) = e => queue'[gen][e].st # "none"
      BY <1>2, <2>2 DEF PassExpiry
    <3>3. Carried => Cover'
      BY <1>3, CarriesKept DEF Cover
    <3> QED
      BY <1>1, <3>1, <3>2, <3>3 DEF Stands
  <2> QED
    BY <2>1, <2>2
<1> QED
  BY <1>4, <1>6, <1>8 DEF RegInv

LEMMA DoneKeeps ==
    ASSUME TypeOK, TypeOK', Order, Newer, RegInv, Discharge \/ RetireMarkers \/ AuditDone \/ BackfillDone
    PROVE  RegInv'
<1>0. outbox \in BOOLEAN /\ ready \in BOOLEAN /\ ready' \in BOOLEAN
  BY DEF TypeOK
<1>k. "outbox" \in Kinds /\ "repair" \in Kinds /\ "audit" \in Kinds /\ "backfill" \in Kinds
  BY DEF Kinds
<1>1. CASE Discharge
  <2>1. RegisterSeen("outbox") /\ (outbox => outbox') /\ markers' = markers /\ ready' = ready
    BY <1>1 DEF Discharge
  <2> QED
    BY <1>k, <2>1, RegisterKeeps
<1>2. CASE RetireMarkers
  <2>1. /\ RegisterSeen("repair") /\ outbox' = outbox /\ ready' = ready
        /\ markers' = markers \/ markers' = markers \cap {pass.gen}
    BY <1>2 DEF RetireMarkers
  <2> QED
    BY <1>k, <2>1, RegisterKeeps
<1>3. CASE AuditDone
  <2>1. RegisterSeen("audit") /\ outbox' = outbox /\ markers' = markers /\ ready' = ready
    BY <1>3 DEF AuditDone
  <2> QED
    BY <1>k, <2>1, RegisterKeeps
<1>4. CASE BackfillDone
  <2>1. RegisterSeen("backfill") /\ outbox' = outbox /\ markers' = markers
    BY <1>4 DEF BackfillDone
  <2>2. ready' = (ready \/ (~UnderWork /\ gen = pass.gen))
    BY <1>4 DEF BackfillDone
  <2>3. ready' = ready \/ (pass.gen = gen /\ ready')
    BY <1>0, <2>2
  <2> QED
    BY <1>k, <2>1, <2>3, RegisterKeeps
<1> QED
  BY <1>1, <1>2, <1>3, <1>4

LEMMA PassCrashKeeps ==
    ASSUME TypeOK, TypeOK', Order, Newer, RegInv, PassCrash
    PROVE  RegInv'
<1>0. /\ Ahead /\ Pending /\ Safe /\ PassRead /\ GenInv /\ Reg
      /\ UNCHANGED <<base, queue, markers, ghosts, config, batch, row, missed>>
      /\ pass' = NoPass /\ outbox' = (outbox \/ pass.kind = "outbox")
  BY DEF RegInv, PassCrash
<1>1. /\ gen' = gen /\ cleanup' = cleanup /\ ready' = ready /\ lastGen' = lastGen /\ queue' = queue
      /\ row' = row /\ markers' = markers /\ ghosts' = ghosts /\ item' = item /\ batch' = batch
      /\ pass'.gen = 0 /\ pass'.kind = "none" /\ missed' = missed
      /\ (outbox => outbox') /\ (pass.kind = "outbox" => outbox')
  BY <1>0 DEF config, base, NoPass
<1>z. 0 <= lastGen
  BY GenTypes
<1>2. Quiet /\ Pinned /\ Calmly
  BY <1>1, QuietSame DEF Calmly
<1>3. Ahead' /\ Pending' /\ Safe' /\ PassRead'
  BY <1>0, <1>1, <1>2, AheadQuiet, PendingQuiet, SafeCalm, PassReadCalm
<1>4. GenInv'
  <2>1. GenBatch'
    BY <1>0, <1>1, <1>2, GenBatchQuiet
  <2> QED
    BY <1>0, <1>1, <1>z, <2>1 DEF GenInv, GenPass, GenHost, GenGhost
<1>5. ASSUME NEW e \in Expiries, Stands(e)
      PROVE  Stands(e)'
  BY <1>0, <1>1, <1>5 DEF Stands, Handing
<1>6. Reg'
  BY <1>0, <1>1, <1>2, <1>5, RegCalm
<1> QED
  BY <1>3, <1>4, <1>6 DEF RegInv

LEMMA LifeKeeps ==
    ASSUME TypeOK, TypeOK', Order, Newer, Places, RegInv, NEW e,
           Enable \/ Disable \/ FinishCleanup \/ ClearRow(e)
    PROVE  RegInv'
<1>0. /\ Ahead /\ Pending /\ Safe /\ PassRead /\ GenInv /\ Reg
      /\ UNCHANGED <<base, repairs, row, pass, missed>>
  BY DEF RegInv, Enable, Disable, FinishCleanup, ClearRow
<1>1. /\ row' = row /\ markers' = markers /\ ghosts' = ghosts /\ item' = item /\ outbox' = outbox
      /\ pass' = pass /\ missed' = missed
  BY <1>0 DEF repairs, base
<1>2. Quiet /\ Pinned
  BY QuietSame, QuietSetRow DEF Enable, Disable, FinishCleanup, ClearRow
<1>3. Calmly
  BY <1>1, <1>2 DEF Calmly
<1>t. /\ gen \in Nat /\ lastGen \in Nat /\ cleanup \in Nat /\ pass.gen \in Nat
      /\ \A d \in ghosts : d.gen \in Nat /\ d.gen # 0
      /\ \A s \in Hosts : row[s].pc # "idle" => row[s].gen \in Nat /\ row[s].gen # 0
  BY GenTypes, HostWork
<1>4. /\ gen' = gen \/ gen' = 0 \/ gen' = lastGen + 1
      /\ lastGen' = lastGen \/ lastGen' = lastGen + 1
  BY DEF Enable, Disable, FinishCleanup, ClearRow
<1>5. Ahead' /\ Pending' /\ Safe' /\ PassRead' /\ GenBatch'
  BY <1>0, <1>1, <1>2, <1>3, <1>4, AheadQuiet, PendingQuiet, SafeCalm, PassReadCalm, GenBatchQuiet
<1>6. CASE Enable
  <2>1. gen' = lastGen + 1 /\ lastGen' = lastGen + 1 /\ ready' = FALSE /\ cleanup' = cleanup /\ cleanup = 0
    BY <1>6 DEF Enable
  <2>2. GenPass' /\ Reg'
    BY <1>0, <1>1, <1>t, <2>1 DEF GenInv, GenPass, Reg
  <2>3. GenHost'
    BY <1>0, <1>1, <1>t, <2>1 DEF GenInv, GenHost
  <2>4. GenGhost'
    BY <1>0, <1>1, <1>t, <2>1 DEF GenInv, GenGhost
  <2> QED
    BY <1>5, <2>2, <2>3, <2>4 DEF RegInv, GenInv
<1>7. CASE Disable
  <2>1. gen' = 0 /\ lastGen' = lastGen /\ ready' = FALSE /\ cleanup' = gen
    BY <1>7 DEF Disable
  <2>2. GenPass' /\ Reg'
    BY <1>0, <1>1, <1>t, <2>1 DEF GenInv, GenPass, Reg
  <2>3. GenHost' /\ GenGhost'
    BY <1>0, <1>1, <1>t, <2>1 DEF GenInv, GenHost, GenGhost
  <2> QED
    BY <1>5, <2>2, <2>3 DEF RegInv, GenInv
<1>8. CASE FinishCleanup \/ ClearRow(e)
  <2>1. /\ gen' = gen /\ lastGen' = lastGen /\ ready' = ready /\ gen = 0
        /\ cleanup' = 0 \/ cleanup' = cleanup
    BY <1>0, <1>8 DEF FinishCleanup, ClearRow, GenInv, GenPass
  <2>2. GenPass' /\ Reg'
    BY <1>0, <1>1, <1>t, <2>1 DEF GenInv, GenPass, Reg
  <2>3. GenHost' /\ GenGhost'
    BY <1>0, <1>1, <1>t, <2>1 DEF GenInv, GenHost, GenGhost
  <2> QED
    BY <1>5, <2>2, <2>3 DEF RegInv, GenInv
<1> QED
  BY <1>6, <1>7, <1>8

-----------------------------------------------------------------------------
LEMMA RegStep ==
    ASSUME TtlInv, TtlInv', OneGen, RegInv, Next
    PROVE  RegInv'
<1>0. TypeOK /\ TypeOK' /\ Order /\ Newer /\ Newer' /\ Places /\ GenInv
  BY DEF TtlInv, RegInv
<1>h. HostStep => RegInv'
  BY <1>0, HostKeeps
<1>1. ASSUME NEW w \in Writers, NEW img \in Images0, NEW g \in Gens, ClaimAndSend(w, img, g)
      PROVE  RegInv'
  BY <1>0, <1>1, <1>h, SendMoves
<1>2. ASSUME NEW w \in Writers, NEW img \in Images, OccWrite(w, img) PROVE RegInv'
  BY <1>0, <1>2, OccKeeps
<1>3. ASSUME NEW w \in Writers, GiveUp(w) \/ Lose(w) PROVE RegInv'
  <2>1. 1 \in Gens
    BY Values DEF Gens
  <2> QED
    BY <1>0, <1>3, <1>h, <2>1, SendMoves
<1>4. ASSUME NEW w \in Writers, LandBase(w) \/ LandRest(w) PROVE RegInv'
  BY <1>0, <1>4, BaseKeeps, RestKeeps
<1>5. ASSUME NEW s \in Hosts, NEW e \in Expiries, Load(s, e) \/ DrainLoad(s, e) PROVE RegInv'
  BY <1>0, <1>5, <1>h, LoadMoves
<1>6. ASSUME NEW s \in Hosts, RowStep(s) PROVE RegInv'
  <2>1. CASE \/ CheckItem(s) \/ Gate(s) \/ CheckOwner(s) \/ FinalRead(s) \/ ReadSurvivor(s)
             \/ RecordRepair(s) \/ Unmark(s) \/ Reread(s)
    BY <1>0, <1>h, <2>1, ReadMoves
  <2>2. CASE ReadItem(s)
    BY <1>0, <1>h, <2>2, ReadItemMove
  <2>3. CASE OwnBase(s) \/ Seal(s) \/ ReleaseBase(s) \/ RestoreIndex(s)
    BY <1>0, <1>h, <2>3, OwnMoves
  <2>4. CASE DeleteBase(s)
    BY <1>0, <1>h, <2>4, DeleteMove
  <2>5. CASE ClaimWork(s) \/ AbortWork(s) \/ MarkApplying(s) \/ MarkApplied(s)
    BY <1>0, <1>h, <2>5, WorkMoves
  <2>6. CASE ApplyEffects(s)
    BY <1>0, <1>h, <2>6, EffectMoves
  <2>7. CASE Destroy(s)
    BY <1>0, <1>h, <2>7, DestroyMove
  <2>8. CASE Handoff(s)
    BY <1>0, <1>h, <2>8, HandoffMove
  <2>9. CASE InsertSeen(s)
    BY <1>0, <1>h, <2>9, InsertMove
  <2> QED
    BY <1>6, <2>1, <2>2, <2>3, <2>4, <2>5, <2>6, <2>7, <2>8, <2>9 DEF RowStep
<1>7. ASSUME NEW s \in Hosts, Crash(s) \/ EffectsUnknown(s) \/ DestroyUnknown(s) PROVE RegInv'
  BY <1>0, <1>7, <1>h, CrashMoves, EffectMoves
<1>8. ASSUME NEW k \in replays, Replay(k) PROVE RegInv'
  BY <1>0, <1>8, <1>h, ReplayQuiet
<1>9. ASSUME NEW d \in ghosts, LateDestroy(d) PROVE RegInv'
  BY <1>0, <1>9, <1>h, LateMove
<1>10. CASE ExpireClaim
  BY <1>0, <1>10, <1>h, ExpireMoves
<1>11. CASE TakeOutboxRow
  BY <1>0, <1>11, TakeKeeps
<1>12. CASE TakeMarker \/ AuditItem \/ BackfillItem
  <2>1. \E kind \in Kinds : ReadForPass(kind) /\ (kind = "backfill" => gen # 0)
    BY <1>12 DEF TakeMarker, AuditItem, BackfillItem, Kinds
  <2>2. outbox' = outbox /\ missed' = missed
    BY <1>12 DEF TakeMarker, AuditItem, BackfillItem
  <2> QED
    BY <1>0, <2>1, <2>2, ReadKeeps
<1>13. CASE Discharge \/ RetireMarkers \/ AuditDone \/ BackfillDone
  BY <1>0, <1>13, DoneKeeps
<1>14. CASE PassCrash
  BY <1>0, <1>14, PassCrashKeeps
<1>15. ASSUME NEW e \in Expiries, ClearRow(e) PROVE RegInv'
  BY <1>0, <1>15, LifeKeeps
<1>16. CASE Enable \/ Disable \/ FinishCleanup
  <2>1. PICK e : e = 0
    OBVIOUS
  <2> QED
    BY <1>0, <1>16, <2>1, LifeKeeps
<1> QED
  BY HostNames, <1>1, <1>2, <1>3, <1>4, <1>5, <1>6, <1>7, <1>8, <1>9, <1>10, <1>11, <1>12, <1>13,
     <1>14, <1>15, <1>16 DEF Next, Write, Land

LEMMA RegInit == ASSUME Init PROVE RegInv
<1>1. \A w \in Writers : batch[w].pc = "idle"
  BY DEF Init, Resting
<1>2. Sent = {}
  BY <1>1 DEF Sent
<1>3. /\ gen \in {0, 1} /\ lastGen = gen /\ ready = (gen # 0) /\ cleanup = 0 /\ ghosts = {}
      /\ pass.kind = "none" /\ pass.gen = 0
      /\ \A s \in Hosts : row[s].pc = "idle"
  BY DEF Init, NoPass, NoRow
<1>4. Ahead /\ Pending /\ Safe
  BY <1>1, <1>2 DEF Ahead, RestAhead, BaseAhead, Pending, Safe, Erases
<1>5. PassRead /\ GenInv
  <2>1. PassRead /\ GenBatch /\ GenHost /\ GenGhost
    BY <1>1, <1>3 DEF PassRead, GenBatch, GenHost, GenGhost
  <2>2. gen <= lastGen /\ cleanup <= lastGen /\ pass.gen <= lastGen
    BY <1>3
  <2>3. GenPass
    BY <1>3, <2>2 DEF GenPass
  <2> QED
    BY <2>1, <2>3 DEF GenInv
<1>6. Reg
  <2> SUFFICES ASSUME NEW e \in Expiries, gen # 0, Expiry(item) = e
               PROVE  queue[gen][e].st # "none"
    BY DEF Reg, Stands
  <2>1. gen \in Gens
    BY <1>3, Values DEF Gens
  <2>2. queue[gen][e] = [Empty EXCEPT !.st = "PENDING"]
    BY <2>1 DEF Init
  <2> QED
    BY <2>2 DEF Empty
<1> QED
  BY <1>4, <1>5, <1>6 DEF RegInv

LEMMA RegStutters == ASSUME RegInv, UNCHANGED vars PROVE RegInv'
<1>1. UNCHANGED <<base, index, queue, repairs, config, batch, row, pass, missed, faults>>
  BY DEF vars
<1>2. /\ UNCHANGED <<item, queue, outbox, markers, ghosts>>
      /\ UNCHANGED <<gen, cleanup, ready, lastGen, batch, row, pass, missed>>
  BY <1>1 DEF base, repairs, config
<1>3. Ahead' /\ Pending'
  BY <1>2 DEF RegInv, Ahead, RestAhead, BaseAhead, Pending, Sent, Pins
<1>4. Safe' /\ PassRead'
  BY <1>2 DEF RegInv, Safe, Erases, Carries, Pins, PassRead, Carried, State
<1>5. GenInv'
  BY <1>2 DEF RegInv, GenInv, GenPass, GenBatch, GenHost, GenGhost
<1>6. Reg'
  BY <1>2 DEF RegInv, Reg, Stands, Handing, Cover, Carried, Carries, Parting
<1> QED
  BY <1>3, <1>4, <1>5, <1>6 DEF RegInv

LEMMA RegMeans == ASSUME TypeOK, RegInv PROVE Registered
<1> SUFFICES ASSUME gen # 0, ready, Expiry(item) # None, ~missed
             PROVE  \/ queue[gen][Expiry(item)].st # "none"
                    \/ outbox \/ pass.kind = "outbox" \/ Marked
                    \/ \E w \in Writers : /\ batch[w].pc = "sent"
                                          /\ batch[w].new = item \/ "rest" \in batch[w].landed
  BY DEF Registered
<1>1. Expiry(item) \in Expiries
  BY GenTypes, Values
<1>2. Stands(Expiry(item)) \/ Cover
  BY <1>1 DEF RegInv, Reg
<1>3. gen \in markers => Marked
  BY DEF Marked
<1>4. Handing => Marked
  <2> SUFFICES ASSUME NEW s \in Hosts, row[s].pc = "handoff", row[s].gen = gen
               PROVE  s \in Marking
    BY DEF Handing, Marked
  <2>1. ~row[s].drain
    BY DEF RegInv, GenInv, GenHost
  <2> QED
    BY <2>1 DEF Marking, Guarded
<1> QED
  BY <1>2, <1>3, <1>4 DEF Stands, Cover, Carried, Carries, Parting

(* An item with an expiration time of a table whose TTL is active and ready  *)
(* is in the queue of the current generation, or something durable will put  *)
(* it there: an outbox row, one that a pass holds, a marker, a batch of      *)
(* which a part has landed.  This is so as long as the batches in flight     *)
(* carry one generation.  Of two that do not, the one with a retired         *)
(* generation can bring the item back while the other, which deleted it,     *)
(* still has the delete of its queue row to land.                            *)
THEOREM TtlRegistered == Spec /\ []OneGen => []Registered
<1>1. Init => RegInv
  BY RegInit
<1>2. TtlInv /\ TtlInv' /\ OneGen /\ RegInv /\ [Next]_vars => RegInv'
  <2>1. TtlInv /\ TtlInv' /\ OneGen /\ RegInv /\ Next => RegInv'
    BY RegStep
  <2>2. RegInv /\ UNCHANGED vars => RegInv'
    BY RegStutters
  <2> QED
    BY <2>1, <2>2
<1>3. TtlInv /\ RegInv => Registered
  BY RegMeans DEF TtlInv
<1> QED
  BY <1>1, <1>2, <1>3, Always, PTL DEF Spec

(* In particular in the first generation of a table's TTL, whatever is       *)
(* disabled and cleaned up after it, and for a single write in any.          *)
THEOREM TtlRegisteredFirst ==
    ASSUME MaxGen = 1 \/ \A v, w \in Writers : v = w
    PROVE  Spec => []Registered
<1>1. TtlInv => OneGen
  <2>1. ASSUME MaxGen = 1, Newer, NEW v \in Writers, batch[v].pc = "sent" PROVE batch[v].gen = 1
    BY <2>1 DEF Newer, Sent, Gens
  <2> QED
    BY <2>1 DEF OneGen, TtlInv
<1> QED
  BY <1>1, Always, TtlRegistered, PTL
=============================================================================
