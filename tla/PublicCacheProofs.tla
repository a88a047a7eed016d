--------------------------- MODULE PublicCacheProofs ---------------------------
(***************************************************************************)
(* Theorems about the public caches, for every number of instances, rows,  *)
(* entries, visitors and admins.                                           *)
(***************************************************************************)
EXTENDS PublicCache, TLAPS

USE DEF models, entries

Loading(t) == reader[t].at = "load"
Writing(a) == admin[a].at # "idle"

-----------------------------------------------------------------------------
(***************************************************************************)
(* Types                                                                   *)
(***************************************************************************)

LoadRecord == [todo : SUBSET VideoRows, rows : Versions]

LEMMA StartTyped ==
  /\ Version0 \in Versions /\ NoModels \in [VideoRows -> Versions]
  /\ Idle \in ReaderRecord /\ Idle.at = "idle" /\ Idle.key = NoKey
  /\ NoAdminRequest \in AdminRecord /\ NoAdminRequest.at = "idle" /\ NoAdminRequest.todo = {}
  /\ Empty \in [Keys -> Versions \cup {NoEntry}] /\ Fresh \in [Keys -> BOOLEAN]
  /\ NoLoad \in LoadRecord /\ NoLoad.todo = {}
<1>1. Version0 \in Versions
  BY DEF Version0, Versions
<1>2. Idle \in ReaderRecord /\ Idle.at = "idle" /\ Idle.key = NoKey
  BY <1>1 DEF Idle, ReaderRecord
<1>3. NoAdminRequest \in AdminRecord /\ NoAdminRequest.at = "idle" /\ NoAdminRequest.todo = {}
  BY DEF NoAdminRequest, AdminRecord
<1>4. QED
  BY <1>1, <1>2, <1>3 DEF NoModels, Empty, Fresh, NoLoad, LoadRecord

(* A request knows the instance that serves it, and what it is about. *)
ReaderFits(r) ==
  /\ r \in ReaderRecord
  /\ r.at = "load" <=> r.key # NoKey
  /\ r.at = "load" => r.inst \in Instances /\ r.key \in Keys /\ r.todo \subseteq Source[r.key]

AdminFits(r) ==
  /\ r \in AdminRecord
  /\ r.at = "idle" <=> r.todo = {}
  /\ r.at # "idle" => r.inst \in Instances /\ r.row \in Rows
  /\ r.at = "asked" => r.todo = {"commit", "evict"}

MapsTyped ==
  /\ store \in [Instances -> [VideoRows -> Versions]]
  /\ starting \subseteq Instances
  /\ refill \in [Instances -> [Loaders -> LoadRecord]]
  /\ parted \in [Instances -> SUBSET VideoRows]

SharedTyped ==
  /\ table \in Versions
  /\ resolver \in [Instances -> Versions]
  /\ cache \in [Clusters -> [Keys -> Versions \cup {NoEntry}]]
  /\ overlapped \in [Clusters -> [Keys -> BOOLEAN]]
  /\ writes \in Nat /\ events \in Nat

ReadersFit == reader = [t \in Readers |-> reader[t]] /\ \A t \in Readers : ReaderFits(reader[t])
AdminsFit == admin = [a \in Admins |-> admin[a]] /\ \A a \in Admins : AdminFits(admin[a])

TypeInv == SharedTyped /\ MapsTyped /\ ReadersFit /\ AdminsFit

LEMMA TypeInvTypes == TypeInv => CacheTypeOK
<1> SUFFICES ASSUME TypeInv PROVE CacheTypeOK
  OBVIOUS
<1>1. reader \in [Readers -> ReaderRecord] /\ admin \in [Admins -> AdminRecord]
  BY DEF TypeInv, ReadersFit, AdminsFit, ReaderFits, AdminFits
<1>2. QED
  BY <1>1 DEF TypeInv, CacheTypeOK, SharedTyped, MapsTyped, LoadRecord, ReadersFit, AdminsFit, ReaderFits, AdminFits

LEMMA ReaderUpdate ==
  ASSUME ReadersFit, NEW t \in Readers, NEW r, ReaderFits(r), reader' = [reader EXCEPT ![t] = r]
  PROVE  ReadersFit' /\ \A u \in Readers : reader'[u] = IF u = t THEN r ELSE reader[u]
  BY DEF ReadersFit, ReaderFits

LEMMA AdminUpdate ==
  ASSUME AdminsFit, NEW a \in Admins, NEW r, AdminFits(r), admin' = [admin EXCEPT ![a] = r]
  PROVE  AdminsFit' /\ \A b \in Admins : admin'[b] = IF b = a THEN r ELSE admin[b]
  BY DEF AdminsFit, AdminFits

(* What a reader has after it saw a row. *)
Saw(t, r, versions) ==
  [reader[t] EXCEPT !.todo = reader[t].todo \ {r},
                    !.seen = [s \in Rows |-> IF s \in {r} \cup Joined[r] THEN versions[s]
                                             ELSE reader[t].seen[s]]]

LEMMA SawFits ==
  ASSUME ReadersFit, NEW t \in Readers, Loading(t), NEW r \in reader[t].todo, NEW versions \in Versions
  PROVE  LET s == Saw(t, r, versions) IN
         /\ ReaderFits(s)
         /\ s.at = "load" /\ s.inst = reader[t].inst /\ s.key = reader[t].key /\ s.overlap = reader[t].overlap
         /\ s.todo = reader[t].todo \ {r}
         /\ s.seen = [x \in Rows |-> IF x \in {r} \cup Joined[r] THEN versions[x] ELSE reader[t].seen[x]]
<1> DEFINE seen == [x \in Rows |-> IF x \in {r} \cup Joined[r] THEN versions[x] ELSE reader[t].seen[x]]
           todo == reader[t].todo \ {r}
<1>1. ReaderFits(reader[t]) /\ reader[t] \in ReaderRecord
  BY DEF ReadersFit, ReaderFits
<1>2. seen \in Versions
  BY <1>1 DEF ReaderRecord, Versions
<1>3. todo \in SUBSET Rows /\ todo \subseteq reader[t].todo
  BY <1>1 DEF ReaderRecord
<1>4. Saw(t, r, versions) = [reader[t] EXCEPT !.todo = todo, !.seen = seen]
  BY DEF Saw
<1> HIDE DEF seen, todo
<1>5. [reader[t] EXCEPT !.todo = todo, !.seen = seen] \in ReaderRecord
  BY <1>1, <1>2, <1>3 DEF ReaderRecord
<1>6. LET s == [reader[t] EXCEPT !.todo = todo, !.seen = seen] IN
      /\ s.at = reader[t].at /\ s.inst = reader[t].inst /\ s.key = reader[t].key
      /\ s.overlap = reader[t].overlap /\ s.todo = todo /\ s.seen = seen
  BY <1>1 DEF ReaderRecord
<1>7. ReaderFits([reader[t] EXCEPT !.todo = todo, !.seen = seen])
  BY <1>1, <1>3, <1>5, <1>6 DEF ReaderFits
<1>8. QED
  BY <1>4, <1>6, <1>7 DEF Loading, seen, todo

(* What an admin's request is after one of its steps. *)
Left(a, step) ==
  IF admin[a].todo = {step} THEN NoAdminRequest ELSE [admin[a] EXCEPT !.todo = admin[a].todo \ {step}]

LEMMA LeftFits ==
  ASSUME AdminsFit, NEW a \in Admins, admin[a].at = "saved", NEW step \in admin[a].todo
  PROVE  /\ AdminFits(Left(a, step))
         /\ Left(a, step).todo = admin[a].todo \ {step}
         /\ Left(a, step).at # "idle" =>
              Left(a, step).at = "saved" /\ Left(a, step).inst = admin[a].inst
              /\ Left(a, step).row = admin[a].row /\ Left(a, step).version = admin[a].version
<1>1. AdminFits(admin[a]) /\ admin[a] \in AdminRecord
  BY DEF AdminsFit, AdminFits
<1>2. CASE admin[a].todo = {step}
  BY <1>2, StartTyped DEF Left, AdminFits
<1>3. CASE admin[a].todo # {step}
  <2> DEFINE todo == admin[a].todo \ {step}
  <2>1. todo \in SUBSET {"commit", "evict"} /\ todo # {}
    BY <1>1, <1>3 DEF AdminRecord
  <2>2. Left(a, step) = [admin[a] EXCEPT !.todo = todo]
    BY <1>3 DEF Left
  <2> HIDE DEF todo
  <2>3. [admin[a] EXCEPT !.todo = todo] \in AdminRecord
    BY <1>1, <2>1 DEF AdminRecord
  <2>4. LET l == [admin[a] EXCEPT !.todo = todo] IN
        /\ l.todo = todo /\ l.at = "saved" /\ l.inst = admin[a].inst
        /\ l.row = admin[a].row /\ l.version = admin[a].version
    BY <1>1 DEF AdminRecord
  <2>5. AdminFits(Left(a, step))
    BY <1>1, <2>1, <2>2, <2>3, <2>4 DEF AdminFits
  <2>6. QED
    BY <2>2, <2>4, <2>5 DEF todo
<1>4. QED
  BY <1>2, <1>3

LEMMA SavedFits ==
  ASSUME AdminsFit, NEW a \in Admins, admin[a].at = "asked"
  PROVE  LET r == [admin[a] EXCEPT !.at = "saved"] IN
         /\ AdminFits(r)
         /\ r.at = "saved" /\ r.todo = {"commit", "evict"} /\ r.inst = admin[a].inst
         /\ r.row = admin[a].row /\ r.version = admin[a].version
<1>1. AdminFits(admin[a]) /\ admin[a] \in AdminRecord
  BY DEF AdminsFit, AdminFits
<1>2. QED
  BY <1>1 DEF AdminFits, AdminRecord

(* What an admin's request is when it arrives. *)
Asked(i, r) == [at |-> "asked", inst |-> i, row |-> r, version |-> writes + 1, todo |-> {"commit", "evict"}]

LEMMA AskedFits ==
  ASSUME SharedTyped, NEW i \in Instances, NEW r \in Rows
  PROVE  AdminFits(Asked(i, r))
  BY DEF SharedTyped, Asked, AdminFits, AdminRecord

(* What a visitor's request is when it has missed. *)
Missed(i, k) ==
  [at |-> "load", inst |-> i, key |-> k, todo |-> Source[k], seen |-> Version0,
   overlap |-> WriteInProgress \/ Preloading(i)]

LEMMA MissedFits ==
  ASSUME NEW i \in Instances, NEW k \in Keys
  PROVE  ReaderFits(Missed(i, k))
  BY StartTyped, SourceAssumption, NoneAssumption DEF Missed, ReaderFits, ReaderRecord, WriteInProgress, Preloading

(* A reader who learns that a write goes on. *)
Told(t) == IF reader[t].at = "load" THEN [reader[t] EXCEPT !.overlap = TRUE] ELSE reader[t]

LEMMA ToldFits ==
  ASSUME ReadersFit, NEW t \in Readers
  PROVE  ReaderFits(Told(t)) /\ Told(t).at = reader[t].at /\ (Told(t).at = "load" => Told(t).overlap)
<1>1. ReaderFits(reader[t]) /\ reader[t] \in ReaderRecord
  BY DEF ReadersFit, ReaderFits
<1>2. QED
  BY <1>1 DEF Told, ReaderFits, ReaderRecord

LEMMA InitTyped == CacheInit => TypeInv
<1> SUFFICES ASSUME CacheInit PROVE TypeInv
  OBVIOUS
<1>1. SharedTyped
  BY StartTyped DEF CacheInit, SharedTyped
<1>2. ReadersFit
  BY StartTyped DEF CacheInit, ReadersFit, ReaderFits
<1>3. AdminsFit
  BY StartTyped DEF CacheInit, AdminsFit, AdminFits
<1>4. MapsTyped
  BY StartTyped DEF CacheInit, MapsTyped
<1>5. QED
  BY <1>1, <1>2, <1>3, <1>4 DEF TypeInv

LEMMA ReaderStepTyped ==
  ASSUME TypeInv, NEW t \in Readers, Miss(t) \/ ReaderStep(t)
  PROVE  TypeInv'
<1>1. SharedTyped /\ MapsTyped /\ ReadersFit /\ AdminsFit
  BY DEF TypeInv
<1>5. MapsTyped'
  BY <1>1 DEF Miss, ReaderStep, ReadTable, ReadStore, ReadMedia, Put, MapsTyped
<1>2. AdminsFit'
  BY <1>1 DEF Miss, ReaderStep, ReadTable, ReadStore, ReadMedia, Put, AdminsFit, AdminFits
<1>3. SharedTyped' /\ ReadersFit'
  <2>1. CASE Miss(t)
    <3>1. PICK i \in Instances, k \in Keys : reader' = [reader EXCEPT ![t] = Missed(i, k)]
      BY <2>1 DEF Miss, Missed
    <3>2. QED
      BY <1>1, <2>1, <3>1, MissedFits, ReaderUpdate DEF Miss, SharedTyped
  <2>2. ASSUME NEW r \in reader[t].todo, NEW versions \in Versions, Loading(t),
               reader' = [reader EXCEPT ![t] = Saw(t, r, versions)]
        PROVE  ReadersFit'
    BY <1>1, <2>2, SawFits, ReaderUpdate
  <2>3. CASE ReadTable(t)
    <3>1. PICK r \in reader[t].todo : See(t, r, table)
      BY <2>3 DEF ReadTable
    <3>2. ReadersFit'
      BY <1>1, <2>2, <2>3, <3>1 DEF ReadTable, See, Saw, SharedTyped, Loading
    <3>3. QED
      BY <1>1, <2>3, <3>2 DEF ReadTable, SharedTyped
  <2>4. CASE ReadStore(t)
    <3>1. PICK v \in reader[t].todo \cap VideoRows : See(t, v, store[reader[t].inst][v])
      BY <2>4 DEF ReadStore
    <3>2. reader[t].inst \in Instances
      BY <1>1, <2>4 DEF ReadStore, ReadersFit, ReaderFits
    <3>3. store[reader[t].inst][v] \in Versions
      BY <1>1, <3>2 DEF MapsTyped
    <3>4. ReadersFit'
      BY <2>2, <2>4, <3>1, <3>3 DEF ReadStore, See, Saw, Loading
    <3>5. QED
      BY <1>1, <2>4, <3>4 DEF ReadStore, SharedTyped
  <2>5. CASE ReadMedia(t)
    <3> DEFINE i == reader[t].inst
    <3>1. PICK m \in reader[t].todo \cap MediaRows :
            LET known == IF resolver[i][m] = 0 THEN MediaTable ELSE resolver[i]
            IN  resolver' = [resolver EXCEPT ![i] = known] /\ See(t, m, known)
      BY <2>5 DEF ReadMedia
    <3> DEFINE known == IF resolver[i][m] = 0 THEN MediaTable ELSE resolver[i]
    <3>2. i \in Instances
      BY <1>1, <2>5 DEF ReadMedia, ReadersFit, ReaderFits
    <3>3. MediaTable \in Versions
      BY <1>1 DEF MediaTable, SharedTyped, Versions
    <3>4. known \in Versions
      BY <1>1, <3>2, <3>3 DEF SharedTyped
    <3>5. resolver' = [resolver EXCEPT ![i] = known] /\ See(t, m, known)
      BY <3>1
    <3> HIDE DEF known, i
    <3>6. ReadersFit'
      BY <2>2, <2>5, <3>4, <3>5 DEF ReadMedia, See, Saw, Loading
    <3>7. resolver' \in [Instances -> Versions]
      BY <1>1, <3>4, <3>5 DEF SharedTyped
    <3>8. QED
      BY <1>1, <2>5, <3>6, <3>7 DEF ReadMedia, SharedTyped
  <2>6. CASE Put(t)
    <3> DEFINE c == ClusterOf[reader[t].inst]  k == reader[t].key
    <3>1. c \in Clusters /\ k \in Keys /\ reader[t].seen \in Versions /\ reader[t].overlap \in BOOLEAN
      BY <1>1, <2>6, ClusterAssumption DEF Put, ReadersFit, ReaderFits, ReaderRecord
    <3>2. /\ cache' = [cache EXCEPT ![c][k] = reader[t].seen]
          /\ overlapped' = [overlapped EXCEPT ![c][k] = reader[t].overlap]
          /\ reader' = [reader EXCEPT ![t] = Idle]
      BY <2>6 DEF Put
    <3> HIDE DEF c, k
    <3>3. cache' \in [Clusters -> [Keys -> Versions \cup {NoEntry}]]
      BY <1>1, <3>1, <3>2 DEF SharedTyped
    <3>4. overlapped' \in [Clusters -> [Keys -> BOOLEAN]]
      BY <1>1, <3>1, <3>2 DEF SharedTyped
    <3>5. SharedTyped'
      BY <1>1, <2>6, <3>3, <3>4 DEF Put, SharedTyped
    <3>6. ReadersFit'
      BY <1>1, <3>2, StartTyped, ReaderUpdate DEF ReaderFits
    <3>7. QED
      BY <3>5, <3>6
  <2>7. QED
    BY <2>1, <2>3, <2>4, <2>5, <2>6 DEF ReaderStep
<1>4. QED
  BY <1>2, <1>3, <1>5 DEF TypeInv

LEMMA ExpireTyped == TypeInv /\ Expire => TypeInv'
<1> SUFFICES ASSUME TypeInv, Expire PROVE TypeInv'
  OBVIOUS
<1>1. PICK c \in Clusters, k \in Keys :
        /\ cache' = [cache EXCEPT ![c][k] = NoEntry]
        /\ overlapped' = [overlapped EXCEPT ![c][k] = FALSE]
  BY DEF Expire
<1>2. cache' \in [Clusters -> [Keys -> Versions \cup {NoEntry}]]
  BY <1>1 DEF TypeInv, SharedTyped
<1>3. overlapped' \in [Clusters -> [Keys -> BOOLEAN]]
  BY <1>1 DEF TypeInv, SharedTyped
<1>4. QED
  BY <1>2, <1>3 DEF Expire, TypeInv, SharedTyped, MapsTyped, ReadersFit, AdminsFit, ReaderFits, AdminFits

LEMMA AskTyped ==
  ASSUME TypeInv, NEW a \in Admins, AskWrite(a)
  PROVE  TypeInv'
<1>1. PICK i \in Instances, r \in Rows : admin' = [admin EXCEPT ![a] = Asked(i, r)]
  BY DEF AskWrite, Asked
<1>2. AdminsFit'
  BY <1>1, AskedFits, AdminUpdate DEF TypeInv
<1>3. reader' = [t \in Readers |-> Told(t)]
  BY DEF AskWrite, Told
<1>4. ReadersFit'
  BY <1>3, ToldFits DEF TypeInv, ReadersFit, ReaderFits
<1>5. SharedTyped'
  BY DEF AskWrite, TypeInv, SharedTyped
<1>6. MapsTyped'
  BY DEF AskWrite, TypeInv, MapsTyped
<1>7. QED
  BY <1>2, <1>4, <1>5, <1>6 DEF TypeInv

LEMMA AdminStepTyped ==
  ASSUME TypeInv, NEW a \in Admins, AdminStep(a)
  PROVE  TypeInv'
<1>1. AdminFits(admin[a]) /\ admin[a] \in AdminRecord
  BY DEF TypeInv, AdminsFit, AdminFits
<1>2. ReadersFit'
  BY DEF AdminStep, Save, Commit, Evict, TypeInv, ReadersFit, ReaderFits
<1>3. SharedTyped' /\ MapsTyped' /\ AdminsFit'
  <2>1. CASE Save(a)
    <3> DEFINE i == admin[a].inst  r == admin[a].row
               model == [table EXCEPT ![r] = admin[a].version]
               saved == [admin[a] EXCEPT !.at = "saved"]
               gone == IF r \in Uncommitted(i) \cup Unput(i) THEN parted[i] \cup {r} ELSE parted[i] \ {r}
    <3>1. admin[a].at = "asked" /\ i \in Instances /\ r \in Rows
      BY <1>1, <2>1 DEF Save, AdminFits
    <3>2. model \in Versions
      BY <1>1 DEF TypeInv, SharedTyped, Versions, AdminRecord
    <3>3. /\ IF r \in VideoRows
             THEN store' = [store EXCEPT ![i][r] = model] /\ parted' = [parted EXCEPT ![i] = gone]
             ELSE UNCHANGED <<store, parted>>
          /\ admin' = [admin EXCEPT ![a] = saved]
      BY <2>1 DEF Save, TypeInv, AdminsFit
    <3>4. AdminFits(saved)
      BY <3>1, SavedFits DEF TypeInv
    <3>5. r \in VideoRows => gone \in SUBSET VideoRows
      BY <3>1 DEF TypeInv, MapsTyped
    <3> HIDE DEF i, r, model, saved, gone
    <3>6. store' \in [Instances -> [VideoRows -> Versions]]
      <4>1. store \in [Instances -> [VideoRows -> Versions]]
        BY DEF TypeInv, MapsTyped
      <4>2. CASE r \in VideoRows
        <5>1. store' = [store EXCEPT ![i][r] = model]
          BY <3>3, <4>2
        <5>2. QED
          BY <3>1, <3>2, <4>1, <4>2, <5>1
      <4>3. CASE r \notin VideoRows
        BY <3>3, <4>1, <4>3
      <4>4. QED
        BY <4>2, <4>3
    <3>7. parted' \in [Instances -> SUBSET VideoRows]
      BY <3>1, <3>3, <3>5 DEF TypeInv, MapsTyped
    <3>8. MapsTyped'
      BY <2>1, <3>6, <3>7 DEF Save, TypeInv, MapsTyped
    <3>9. AdminsFit'
      BY <3>3, <3>4, AdminUpdate DEF TypeInv
    <3>10. QED
      BY <2>1, <3>8, <3>9 DEF Save, TypeInv, SharedTyped
  <2>2. CASE Commit(a)
    <3>1. admin' = [admin EXCEPT ![a] = Left(a, "commit")]
      BY <2>2 DEF Commit, Did, Left
    <3>2. AdminsFit'
      BY <2>2, <3>1, LeftFits, AdminUpdate DEF Commit, TypeInv
    <3>3. table' \in Versions
      BY <1>1, <2>2 DEF Commit, TypeInv, SharedTyped, Versions, AdminRecord
    <3>4. QED
      BY <2>2, <3>2, <3>3 DEF Commit, TypeInv, SharedTyped, MapsTyped
  <2>3. CASE Evict(a)
    <3>1. admin' = [admin EXCEPT ![a] = Left(a, "evict")]
      BY <2>3 DEF Evict, Did, Left
    <3>2. AdminsFit'
      BY <2>3, <3>1, LeftFits, AdminUpdate DEF Evict, TypeInv
    <3>3. cache' \in [Clusters -> [Keys -> Versions \cup {NoEntry}]] /\ overlapped' \in [Clusters -> [Keys -> BOOLEAN]]
      BY <2>3, StartTyped DEF Evict, TypeInv, SharedTyped
    <3>4. QED
      BY <2>3, <3>2, <3>3 DEF Evict, TypeInv, SharedTyped, MapsTyped
  <2>4. QED
    BY <2>1, <2>2, <2>3 DEF AdminStep
<1>4. QED
  BY <1>2, <1>3 DEF TypeInv

LEMMA RollbackTyped ==
  ASSUME TypeInv, NEW a \in Admins, Rollback(a)
  PROVE  TypeInv'
<1>1. AdminFits(NoAdminRequest)
  BY StartTyped DEF AdminFits
<1>2. AdminsFit'
  BY <1>1, AdminUpdate DEF Rollback, TypeInv
<1>3. MapsTyped'
  BY DEF Rollback, TypeInv, MapsTyped, AdminsFit, AdminFits
<1>4. SharedTyped' /\ ReadersFit'
  BY DEF Rollback, Occurs, TypeInv, SharedTyped, ReadersFit, ReaderFits
<1>5. QED
  BY <1>2, <1>3, <1>4 DEF TypeInv

LEMMA RestartTyped ==
  ASSUME TypeInv, NEW i \in Instances, Restart(i)
  PROVE  TypeInv'
<1>1. ReadersFit'
  BY StartTyped DEF Restart, TypeInv, ReadersFit, ReaderFits
<1>2. AdminsFit'
  BY StartTyped DEF Restart, TypeInv, AdminsFit, AdminFits
<1>3. cache' \in [Clusters -> [Keys -> Versions \cup {NoEntry}]] /\ overlapped' \in [Clusters -> [Keys -> BOOLEAN]]
  BY StartTyped DEF Restart, TypeInv, SharedTyped
<1>4. MapsTyped'
  <2>1. [l \in Loaders |-> NoLoad] \in [Loaders -> LoadRecord]
    BY StartTyped
  <2>2. QED
    BY <2>1, StartTyped DEF Restart, TypeInv, MapsTyped
<1>5. resolver' \in [Instances -> Versions]
  BY StartTyped DEF Restart, TypeInv, SharedTyped
<1>6. QED
  BY <1>1, <1>2, <1>3, <1>4, <1>5 DEF Restart, Occurs, TypeInv, SharedTyped

(* What a loader holds after its query. *)
Held(videos) == [todo |-> {v \in videos : table[v] # 0}, rows |-> table]

LEMMA RefillMoves ==
  ASSUME MapsTyped, NEW i \in Instances, NEW l \in Loaders, NEW held \in LoadRecord,
         refill' = [refill EXCEPT ![i][l] = held]
  PROVE  /\ refill' \in [Instances -> [Loaders -> LoadRecord]]
         /\ \A j \in Instances, m \in Loaders :
              refill'[j][m] = IF j = i /\ m = l THEN held ELSE refill[j][m]
  BY DEF MapsTyped

LEMMA StoreMoves ==
  ASSUME MapsTyped, NEW i \in Instances, NEW v \in VideoRows, NEW model \in Versions,
         store' = [store EXCEPT ![i][v] = model]
  PROVE  /\ store' \in [Instances -> [VideoRows -> Versions]]
         /\ \A j \in Instances, w \in VideoRows :
              store'[j][w] = IF j = i /\ w = v THEN model ELSE store[j][w]
  BY DEF MapsTyped

Loads(i, l, videos) ==
  /\ refill' \in [Instances -> [Loaders -> LoadRecord]]
  /\ parted' \in [Instances -> SUBSET VideoRows]
  /\ \A j \in Instances, m \in Loaders :
       refill'[j][m] = IF j = i /\ m = l THEN Held(videos) ELSE refill[j][m]
  /\ \A j \in Instances : parted'[j] = IF j = i THEN parted[i] \cup (videos \cap Uncommitted(i)) ELSE parted[j]

LEMMA LoadMoves ==
  ASSUME TypeInv, NEW i \in Instances, NEW l \in Loaders, NEW videos \in SUBSET VideoRows, Load(i, l, videos)
  PROVE  Loads(i, l, videos)
<1>1. Held(videos) \in LoadRecord /\ MapsTyped
  BY DEF Held, LoadRecord, TypeInv, SharedTyped
<1>2. refill' = [refill EXCEPT ![i][l] = Held(videos)]
  BY DEF Load, Held
<1>3. parted' = [parted EXCEPT ![i] = parted[i] \cup (videos \cap Uncommitted(i))]
  BY DEF Load
<1>4. parted \in [Instances -> SUBSET VideoRows]
  BY <1>1 DEF MapsTyped
<1>5. QED
  BY <1>1, <1>2, <1>3, <1>4, RefillMoves DEF Loads

(* One model is put. *)
PutModel(i, l, v) ==
  /\ store' = [store EXCEPT ![i][v] = refill[i][l].rows]
  /\ refill' = [refill EXCEPT ![i][l].todo = refill[i][l].todo \ {v}]

Puts(i, l, v) ==
  /\ refill' \in [Instances -> [Loaders -> LoadRecord]]
  /\ store' \in [Instances -> [VideoRows -> Versions]]
  /\ v \in VideoRows
  /\ \A j \in Instances, m \in Loaders :
       /\ refill'[j][m].rows = refill[j][m].rows
       /\ refill'[j][m].todo = IF j = i /\ m = l THEN refill[i][l].todo \ {v} ELSE refill[j][m].todo
  /\ \A j \in Instances, w \in VideoRows :
       store'[j][w] = IF j = i /\ w = v THEN refill[i][l].rows ELSE store[j][w]

LEMMA FillMoves ==
  ASSUME TypeInv, NEW i \in Instances, NEW l \in Loaders, NEW v \in refill[i][l].todo, PutModel(i, l, v)
  PROVE  Puts(i, l, v)
<1> DEFINE left == [refill[i][l] EXCEPT !.todo = refill[i][l].todo \ {v}]
<1>1. refill[i][l] \in LoadRecord /\ MapsTyped
  BY DEF TypeInv, MapsTyped
<1>2. v \in VideoRows /\ refill[i][l].rows \in Versions
  BY <1>1 DEF LoadRecord
<1>3. left \in LoadRecord /\ left.rows = refill[i][l].rows /\ left.todo = refill[i][l].todo \ {v}
  BY <1>1 DEF LoadRecord
<1>4. /\ refill' = [refill EXCEPT ![i][l] = left]
      /\ store' = [store EXCEPT ![i][v] = refill[i][l].rows]
  BY DEF PutModel, TypeInv, MapsTyped
<1> HIDE DEF left
<1>5. /\ refill' \in [Instances -> [Loaders -> LoadRecord]]
      /\ \A j \in Instances, m \in Loaders : refill'[j][m] = IF j = i /\ m = l THEN left ELSE refill[j][m]
  BY <1>1, <1>3, <1>4, RefillMoves
<1>6. /\ store' \in [Instances -> [VideoRows -> Versions]]
      /\ \A j \in Instances, w \in VideoRows :
           store'[j][w] = IF j = i /\ w = v THEN refill[i][l].rows ELSE store[j][w]
  BY <1>1, <1>2, <1>4, StoreMoves
<1>7. QED
  BY <1>2, <1>3, <1>5, <1>6 DEF Puts

LEMMA LoadTyped ==
  ASSUME TypeInv, NEW i \in Instances,
         PreloadRead(i) \/ ReloadRead(i) \/ \E l \in Loaders : Fill(i, l)
  PROVE  TypeInv'
<1>1. SharedTyped' /\ ReadersFit' /\ AdminsFit'
  BY DEF PreloadRead, ReloadRead, Fill, Occurs, TypeInv, SharedTyped, ReadersFit, ReaderFits, AdminsFit, AdminFits
<1>2. "preload" \in Loaders /\ "flush" \in Loaders
  BY DEF Loaders
<1>3. CASE PreloadRead(i)
  <2>1. Load(i, "preload", VideoRows)
    BY <1>3 DEF PreloadRead
  <2>2. MapsTyped'
    BY <1>2, <1>3, <2>1, LoadMoves, StartTyped DEF Loads, PreloadRead, TypeInv, MapsTyped
  <2>3. QED
    BY <1>1, <2>2 DEF TypeInv
<1>4. CASE ReloadRead(i)
  <2>1. PICK v \in VideoRows : Load(i, "flush", {v})
    BY <1>4 DEF ReloadRead
  <2>2. /\ refill' \in [Instances -> [Loaders -> LoadRecord]]
        /\ parted' \in [Instances -> SUBSET VideoRows]
    <3>1. {v} \in SUBSET VideoRows
      OBVIOUS
    <3>2. QED
      BY <1>2, <2>1, <3>1, LoadMoves DEF Loads
  <2>4. MapsTyped'
    BY <1>4, <2>2 DEF ReloadRead, TypeInv, MapsTyped
  <2>3. QED
    BY <1>1, <2>4 DEF TypeInv
<1>5. CASE \E l \in Loaders : Fill(i, l)
  <2>1. PICK l \in Loaders : Fill(i, l)
    BY <1>5
  <2>2. PICK v \in refill[i][l].todo : PutModel(i, l, v)
    BY <2>1 DEF Fill, PutModel
  <2>3. Puts(i, l, v)
    BY <2>2, FillMoves
  <2>5. MapsTyped'
    BY <2>1, <2>3 DEF Puts, Fill, TypeInv, MapsTyped
  <2>6. QED
    BY <1>1, <2>5 DEF TypeInv
<1>6. QED
  BY <1>3, <1>4, <1>5

LEMMA NextTyped == TypeInv /\ [CacheNext]_cacheVars => TypeInv'
<1> SUFFICES ASSUME TypeInv, [CacheNext]_cacheVars PROVE TypeInv'
  OBVIOUS
<1>1. CASE UNCHANGED cacheVars
  BY <1>1 DEF cacheVars, TypeInv, SharedTyped, MapsTyped, ReadersFit, AdminsFit, ReaderFits, AdminFits
<1>2. ASSUME NEW t \in Readers, Miss(t) \/ ReaderStep(t) PROVE TypeInv'
  BY <1>2, ReaderStepTyped
<1>3. CASE Expire
  BY <1>3, ExpireTyped
<1>4. ASSUME NEW a \in Admins, AskWrite(a) PROVE TypeInv'
  BY <1>4, AskTyped
<1>5. ASSUME NEW a \in Admins, AdminStep(a) PROVE TypeInv'
  BY <1>5, AdminStepTyped
<1>6. ASSUME NEW i \in Instances, Restart(i) PROVE TypeInv'
  BY <1>6, RestartTyped
<1>7. ASSUME NEW a \in Admins, Rollback(a) PROVE TypeInv'
  BY <1>7, RollbackTyped
<1>8. ASSUME NEW i \in Instances, PreloadRead(i) \/ ReloadRead(i) \/ \E l \in Loaders : Fill(i, l)
      PROVE  TypeInv'
  BY <1>8, LoadTyped
<1>9. QED
  BY <1>1, <1>2, <1>3, <1>4, <1>5, <1>6, <1>7, <1>8 DEF CacheNext

LEMMA AlwaysTyped == CacheSpec => []TypeInv
  BY InitTyped, NextTyped, PTL DEF CacheSpec

(* Every variable has its type, and a request that is answered leaves      *)
(* nothing of itself undone, whoever reads, writes and restarts.           *)
THEOREM TypeCorrect == CacheSpec => []CacheTypeOK
  BY AlwaysTyped, TypeInvTypes, PTL

-----------------------------------------------------------------------------
(***************************************************************************)
(* Entries                                                                 *)
(***************************************************************************)

(* What the site has to be like: one cluster, in which no process restarts *)
(* that is not alone (the entries a dead one had to evict would live on).  *)
OneCluster == \A i, j \in Instances : ClusterOf[i] = ClusterOf[j]
OneStore == \A i, j \in Instances : i = j
RestartsAlone == "restart" \in Events => OneStore
Setting == OneCluster /\ RestartsAlone

Calmly(t) == Loading(t) /\ ~reader[t].overlap

(* A lookup that nothing has disturbed runs while nobody writes and its    *)
(* instance has its videos, ...                                            *)
LoadsCalm == \A t \in Readers : Calmly(t) => ~WriteInProgress /\ ~Preloading(reader[t].inst)

(* ... and what it has seen by now is what the table holds.                *)
SeenBy(t) == Refreshed(ClusterOf[reader[t].inst], reader[t].key) \ reader[t].todo
SeenIsCurrent == \A t \in Readers : Calmly(t) => \A r \in SeenBy(t) : reader[t].seen[r] = table[r]

(* An entry only lives where an instance does. *)
Inhabited == \A c \in Clusters, k \in Keys : cache[c][k] # NoEntry => \E i \in Instances : ClusterOf[i] = c

(* Once a write has evicted, what is put until it is through is marked. *)
Bare(c, k) == overlapped[c][k] \/ cache[c][k] = NoEntry
EvictedIsBare ==
  \A a \in Admins : Writing(a) /\ "evict" \notin admin[a].todo => \A c \in Clusters, k \in Keys : Bare(c, k)

(* An entry that is stale and not marked is going to be evicted by a write *)
(* that has committed, which cannot fail any more.  (A video that is being *)
(* committed counts as parted here: the commit evicts, a rollback parts.)  *)
Committing(a) == admin[a].at = "saved" /\ "commit" \in admin[a].todo
Underway == {v \in VideoRows : \E a \in Admins : Committing(a) /\ admin[a].row = v}
Settled(c, k) == Refreshed(c, k) \ Underway
Good(c, k) == overlapped[c][k] \/ Current(c, k, Settled(c, k))
Evicting == \E a \in Admins : "evict" \in admin[a].todo /\ "commit" \notin admin[a].todo
StaleIsEvicted == Evicting \/ \A c \in Clusters, k \in Keys : Good(c, k)

(* A video that is not parted from its row: one transaction at a time      *)
(* stores a model of it, no other is to be put meanwhile, what is to be    *)
(* put is what the table holds, and so is what the map holds once it is    *)
(* filled and between transactions.                                        *)
Waits(i, l, v) == v \in refill[i][l].todo
StoredAlone(i, v) ==
  \A a \in Admins : Committing(a) /\ admin[a].row = v =>
    /\ store[i][v][v] = admin[a].version
    /\ \A l \in Loaders : ~Waits(i, l, v)
    /\ \A b \in Admins : Committing(b) /\ admin[b].row = v => b = a
LoadedRight(i, v) == \A l \in Loaders : Waits(i, l, v) => refill[i][l].rows[v] = table[v]
StoredRight(i, v) == store[i][v][v] = table[v] \/ i \in starting \/ Waits(i, "preload", v) \/ v \in Underway
Together(i, v) == StoredAlone(i, v) /\ LoadedRight(i, v) /\ StoredRight(i, v)
ModelInv == OneStore => \A i \in Instances, v \in VideoRows : v \notin parted[i] => Together(i, v)

EntryInv ==
  /\ TypeInv /\ LoadsCalm /\ SeenIsCurrent /\ Inhabited
  /\ EvictedIsBare /\ StaleIsEvicted /\ ModelInv

LEMMA EntryInit == CacheInit => EntryInv
<1> SUFFICES ASSUME CacheInit PROVE EntryInv
  OBVIOUS
<1>1. \A t \in Readers : ~Calmly(t)
  BY StartTyped DEF CacheInit, Calmly, Loading
<1>2. \A a \in Admins : ~Writing(a) /\ ~Committing(a)
  BY StartTyped DEF CacheInit, Writing, Committing
<1>3. \A c \in Clusters, k \in Keys : cache[c][k] = NoEntry
  BY DEF CacheInit, Empty
<1>4. \A i \in Instances, v \in VideoRows : store[i][v][v] = table[v]
  BY RowAssumption DEF CacheInit, NoModels, Version0
<1>5. TypeInv
  BY InitTyped
<1>6. \A i \in Instances, l \in Loaders, v \in VideoRows : ~Waits(i, l, v)
  BY StartTyped DEF CacheInit, Waits
<1>7. ModelInv
  BY <1>2, <1>4, <1>6 DEF ModelInv, Together, StoredAlone, LoadedRight, StoredRight
<1>8. QED
  BY <1>1, <1>2, <1>3, <1>5, <1>7
  DEF EntryInv, LoadsCalm, SeenIsCurrent, Inhabited, EvictedIsBare, Bare, StaleIsEvicted, Good, Current

(* A row that a lookup sees brings its own version, and those of rows that *)
(* nothing refreshes.                                                      *)
LEMMA SawCurrent ==
  ASSUME EntryInv, NEW t \in Readers, Calmly(t), NEW r \in reader[t].todo, NEW versions \in Versions,
         r \in Refreshed(ClusterOf[reader[t].inst], reader[t].key) => versions[r] = table[r],
         NEW x \in Refreshed(ClusterOf[reader[t].inst], reader[t].key), x \notin Saw(t, r, versions).todo
  PROVE  Saw(t, r, versions).seen[x] = table[x]
<1>1. Loading(t) /\ ReadersFit
  BY DEF Calmly, EntryInv, TypeInv
<1>2. /\ Saw(t, r, versions).todo = reader[t].todo \ {r}
      /\ Saw(t, r, versions).seen =
           [y \in Rows |-> IF y \in {r} \cup Joined[r] THEN versions[y] ELSE reader[t].seen[y]]
  BY <1>1, SawFits
<1>3. r \in Source[reader[t].key] /\ x \in Rows
  <2>1. reader[t].key \in Keys /\ reader[t].todo \subseteq Source[reader[t].key]
    BY <1>1 DEF ReadersFit, ReaderFits, Loading
  <2>2. QED
    BY <2>1, SourceAssumption DEF Refreshed
<1>4. x \notin Joined[r]
  BY <1>3 DEF Refreshed
<1>5. CASE x = r
  BY <1>2, <1>3, <1>5
<1>6. CASE x # r
  BY <1>2, <1>3, <1>4, <1>6 DEF EntryInv, SeenIsCurrent, SeenBy
<1>7. QED
  BY <1>5, <1>6

(* A step that leaves the admins, the table and the maps of videos alone ... *)
LEMMA ModelsKeep ==
  ASSUME EntryInv, UNCHANGED <<table, models, admin>>
  PROVE  ModelInv' /\ Underway' = Underway /\ \A c, k : Refreshed(c, k)' = Refreshed(c, k)
<1>1. Underway' = Underway
  BY DEF Underway, Committing
<1>2. ModelInv'
  BY <1>1 DEF EntryInv, ModelInv, Together, StoredAlone, LoadedRight, StoredRight, Waits, Committing, OneStore
<1>3. \A c, k : Refreshed(c, k)' = Refreshed(c, k)
  BY DEF Refreshed, Astray, Alone
<1>4. QED
  BY <1>1, <1>2, <1>3

(* ... and the entries as well. *)
LEMMA EntriesKeep ==
  ASSUME EntryInv, UNCHANGED <<table, models, entries, admin>>
  PROVE  Inhabited' /\ EvictedIsBare' /\ StaleIsEvicted'
<1>1. \A c, k : Settled(c, k)' = Settled(c, k)
  BY ModelsKeep DEF Settled
<1>2. \A c, k : Good(c, k)' <=> Good(c, k)
  BY <1>1 DEF Good, Current
<1>3. QED
  BY <1>2 DEF EntryInv, Inhabited, EvictedIsBare, Writing, Bare, StaleIsEvicted, Evicting

(* A step of a lookup that puts nothing. *)
LEMMA LookupKeeps ==
  ASSUME EntryInv, TypeInv', UNCHANGED <<table, models, entries, admin>>,
         \A t \in Readers :
           Calmly(t)' => /\ ~WriteInProgress /\ ~Preloading(reader'[t].inst)
                         /\ \A r \in SeenBy(t)' : reader'[t].seen[r] = table[r]
  PROVE  EntryInv'
<1>1. LoadsCalm' /\ SeenIsCurrent'
  BY DEF LoadsCalm, SeenIsCurrent, WriteInProgress, Preloading
<1>2. Inhabited' /\ EvictedIsBare' /\ StaleIsEvicted'
  BY EntriesKeep
<1>3. ModelInv'
  BY ModelsKeep
<1>4. QED
  BY <1>1, <1>2, <1>3 DEF EntryInv

LEMMA MissKeeps ==
  ASSUME EntryInv, TypeInv', NEW t \in Readers, Miss(t)
  PROVE  EntryInv'
<1>1. PICK i \in Instances, k \in Keys : reader' = [reader EXCEPT ![t] = Missed(i, k)]
  BY DEF Miss, Missed
<1>2. \A u \in Readers : reader'[u] = IF u = t THEN Missed(i, k) ELSE reader[u]
  BY <1>1, MissedFits, ReaderUpdate DEF EntryInv, TypeInv
<1>3. /\ Missed(i, k).overlap = (WriteInProgress \/ Preloading(i)) /\ Missed(i, k).key = k
      /\ Missed(i, k).inst = i /\ Missed(i, k).todo = Source[k]
  BY DEF Missed
<1>5. \A c, l : Refreshed(c, l)' = Refreshed(c, l)
  BY ModelsKeep DEF Miss
<1>4. ASSUME NEW u \in Readers, Calmly(u)'
      PROVE  /\ ~WriteInProgress /\ ~Preloading(reader'[u].inst)
             /\ \A r \in SeenBy(u)' : reader'[u].seen[r] = table[r]
  <2>1. CASE u = t
    BY <1>2, <1>3, <1>4, <2>1 DEF Calmly, SeenBy, Refreshed
  <2>2. CASE u # t
    BY <1>2, <1>4, <1>5, <2>2 DEF EntryInv, LoadsCalm, SeenIsCurrent, Calmly, Loading, SeenBy
  <2>3. QED
    BY <2>1, <2>2
<1>6. QED
  BY <1>4, LookupKeeps DEF Miss

(* A lookup that sees one more row. *)
LEMMA SeeKeeps ==
  ASSUME EntryInv, TypeInv', NEW t \in Readers, Loading(t), NEW r \in reader[t].todo, NEW versions \in Versions,
         UNCHANGED <<table, models, entries, admin>>,
         reader' = [reader EXCEPT ![t] = Saw(t, r, versions)],
         Calmly(t) => (r \in Refreshed(ClusterOf[reader[t].inst], reader[t].key) => versions[r] = table[r])
  PROVE  EntryInv'
<1> DEFINE s == Saw(t, r, versions)
<1>1. /\ ReaderFits(s)
      /\ s.at = "load" /\ s.inst = reader[t].inst /\ s.key = reader[t].key /\ s.overlap = reader[t].overlap
  BY SawFits DEF EntryInv, TypeInv
<1>2. \A u \in Readers : reader'[u] = IF u = t THEN s ELSE reader[u]
  BY <1>1, ReaderUpdate DEF EntryInv, TypeInv
<1>5. \A c, l : Refreshed(c, l)' = Refreshed(c, l)
  BY ModelsKeep
<1>3. ASSUME NEW u \in Readers, Calmly(u)'
      PROVE  /\ ~WriteInProgress /\ ~Preloading(reader'[u].inst)
             /\ \A x \in SeenBy(u)' : reader'[u].seen[x] = table[x]
  <2>1. CASE u = t
    <3>1. Calmly(t)
      BY <1>1, <1>2, <1>3, <2>1 DEF Calmly, Loading
    <3>2. \A x \in Refreshed(ClusterOf[reader[t].inst], reader[t].key) : x \notin s.todo => s.seen[x] = table[x]
      BY <3>1, SawCurrent
    <3> HIDE DEF s
    <3>3. SeenBy(u)' = Refreshed(ClusterOf[reader[t].inst], reader[t].key) \ s.todo
      BY <1>1, <1>2, <1>5, <2>1 DEF SeenBy
    <3>4. QED
      BY <1>1, <1>2, <2>1, <3>1, <3>2, <3>3 DEF EntryInv, LoadsCalm
  <2>2. CASE u # t
    BY <1>2, <1>3, <1>5, <2>2 DEF EntryInv, LoadsCalm, SeenIsCurrent, Calmly, Loading, SeenBy
  <2>3. QED
    BY <2>1, <2>2
<1>6. QED
  BY <1>3, LookupKeeps

(* A lookup that no write has disturbed sees the videos as they are stored, *)
(* if it shows any that are refreshed.                                      *)
LEMMA VideoIsCurrent ==
  ASSUME Setting, EntryInv, NEW t \in Readers, Calmly(t), NEW v \in reader[t].todo \cap VideoRows,
         v \in Refreshed(ClusterOf[reader[t].inst], reader[t].key)
  PROVE  store[reader[t].inst][v][v] = table[v]
<1>1. reader[t].inst \in Instances /\ reader[t].key \in Keys
  BY DEF EntryInv, TypeInv, ReadersFit, ReaderFits, Calmly, Loading
<1>2. Alone(ClusterOf[reader[t].inst]) /\ v \in Source[reader[t].key]
  BY DEF Refreshed, Astray
<1>3. OneStore
  BY <1>1, <1>2 DEF Setting, OneCluster, Alone, OneStore
<1>4. ~WriteInProgress /\ ~Preloading(reader[t].inst)
  BY DEF EntryInv, LoadsCalm
<1>5. v \notin parted[reader[t].inst]
  BY <1>1, <1>2 DEF Refreshed, Astray
<1>6. StoredRight(reader[t].inst, v)
  BY <1>1, <1>3, <1>5 DEF EntryInv, ModelInv, Together
<1>7. QED
  BY <1>4, <1>6 DEF StoredRight, Waits, Underway, WriteInProgress, Preloading, Committing

LEMMA ReadKeeps ==
  ASSUME Setting, EntryInv, TypeInv', NEW t \in Readers, ReadTable(t) \/ ReadStore(t) \/ ReadMedia(t)
  PROVE  EntryInv'
<1>1. Loading(t) /\ reader[t].inst \in Instances
  BY DEF ReadTable, ReadStore, ReadMedia, Loading, EntryInv, TypeInv, ReadersFit, ReaderFits
<1>2. UNCHANGED <<table, models, entries, admin>>
  BY DEF ReadTable, ReadStore, ReadMedia
<1>3. CASE ReadTable(t)
  <2>1. PICK r \in reader[t].todo : See(t, r, table)
    BY <1>3 DEF ReadTable
  <2>2. table \in Versions
    BY DEF EntryInv, TypeInv, SharedTyped
  <2>3. reader' = [reader EXCEPT ![t] = Saw(t, r, table)]
    BY <2>1 DEF See, Saw
  <2>4. QED
    BY <1>1, <1>2, <2>2, <2>3, SeeKeeps
<1>4. CASE ReadStore(t)
  <2> DEFINE versions(v) == store[reader[t].inst][v]
  <2>1. PICK v \in reader[t].todo \cap VideoRows : See(t, v, versions(v))
    BY <1>4 DEF ReadStore
  <2>2. versions(v) \in Versions
    BY <1>1 DEF EntryInv, TypeInv, MapsTyped
  <2>3. reader' = [reader EXCEPT ![t] = Saw(t, v, versions(v))]
    BY <2>1 DEF See, Saw
  <2>4. Calmly(t) => (v \in Refreshed(ClusterOf[reader[t].inst], reader[t].key) => versions(v)[v] = table[v])
    BY VideoIsCurrent
  <2> HIDE DEF versions
  <2>5. QED
    BY <1>1, <1>2, <2>2, <2>3, <2>4, SeeKeeps
<1>5. CASE ReadMedia(t)
  <2> DEFINE known(m) == IF resolver[reader[t].inst][m] = 0 THEN MediaTable ELSE resolver[reader[t].inst]
  <2>1. PICK m \in reader[t].todo \cap MediaRows : See(t, m, known(m))
    BY <1>5 DEF ReadMedia
  <2>2. known(m) \in Versions
    <3>1. MediaTable \in Versions
      BY DEF MediaTable, EntryInv, TypeInv, SharedTyped, Versions
    <3>2. QED
      BY <1>1, <3>1 DEF EntryInv, TypeInv, SharedTyped
  <2>3. reader' = [reader EXCEPT ![t] = Saw(t, m, known(m))]
    BY <2>1 DEF See, Saw
  <2>4. m \notin Refreshed(ClusterOf[reader[t].inst], reader[t].key)
    BY DEF Refreshed
  <2> HIDE DEF known
  <2>5. QED
    BY <1>1, <1>2, <2>2, <2>3, <2>4, SeeKeeps
<1>6. QED
  BY <1>3, <1>4, <1>5

LEMMA PutKeeps ==
  ASSUME EntryInv, TypeInv', NEW t \in Readers, Put(t)
  PROVE  EntryInv'
<1> DEFINE c == ClusterOf[reader[t].inst]  k == reader[t].key
<1>1. /\ Loading(t) /\ reader[t].todo = {} /\ reader[t].inst \in Instances
      /\ c \in Clusters /\ k \in Keys /\ reader[t].overlap \in BOOLEAN
  BY ClusterAssumption DEF Put, Loading, EntryInv, TypeInv, ReadersFit, ReaderFits, ReaderRecord
<1>2. \A d \in Clusters, l \in Keys :
        /\ cache'[d][l] = IF d = c /\ l = k THEN reader[t].seen ELSE cache[d][l]
        /\ overlapped'[d][l] = IF d = c /\ l = k THEN reader[t].overlap ELSE overlapped[d][l]
  BY <1>1 DEF Put, EntryInv, TypeInv, SharedTyped
<1>3. UNCHANGED <<table, models, admin>>
  BY DEF Put
<1>4. \A u \in Readers : reader'[u] = IF u = t THEN Idle ELSE reader[u]
  BY DEF Put, EntryInv, TypeInv, ReadersFit
<1>5. ModelInv' /\ Underway' = Underway /\ \A d, l : Refreshed(d, l)' = Refreshed(d, l)
  BY <1>3, ModelsKeep
<1>6. LoadsCalm' /\ SeenIsCurrent'
  BY <1>3, <1>4, <1>5, StartTyped
  DEF EntryInv, LoadsCalm, SeenIsCurrent, Calmly, Loading, SeenBy, WriteInProgress, Preloading
<1>7. Inhabited'
  BY <1>1, <1>2 DEF EntryInv, Inhabited
<1>8. EvictedIsBare'
  <2>1. (\E a \in Admins : Writing(a)) => reader[t].overlap
    BY <1>1 DEF EntryInv, LoadsCalm, Calmly, WriteInProgress, Writing
  <2>2. QED
    BY <1>1, <1>2, <1>3, <2>1 DEF EntryInv, EvictedIsBare, Writing, Bare
<1>9. StaleIsEvicted'
  <2>1. ~reader[t].overlap => \A r \in Refreshed(c, k) : reader[t].seen[r] = table[r]
    BY <1>1 DEF EntryInv, SeenIsCurrent, SeenBy, Calmly
  <2> HIDE DEF c, k
  <2>2. \A d \in Clusters, l \in Keys : Good(d, l) => Good(d, l)'
    BY <1>1, <1>2, <1>3, <1>5, <2>1 DEF Good, Current, Settled
  <2>3. QED
    BY <1>3, <2>2 DEF EntryInv, StaleIsEvicted, Evicting
<1>10. QED
  BY <1>5, <1>6, <1>7, <1>8, <1>9 DEF EntryInv

LEMMA ExpireKeeps ==
  ASSUME EntryInv, TypeInv', Expire
  PROVE  EntryInv'
<1>1. PICK c \in Clusters, k \in Keys :
        /\ cache' = [cache EXCEPT ![c][k] = NoEntry]
        /\ overlapped' = [overlapped EXCEPT ![c][k] = FALSE]
  BY DEF Expire
<1>2. \A d \in Clusters, l \in Keys :
        /\ cache'[d][l] = IF d = c /\ l = k THEN NoEntry ELSE cache[d][l]
        /\ overlapped'[d][l] = IF d = c /\ l = k THEN FALSE ELSE overlapped[d][l]
  BY <1>1 DEF EntryInv, TypeInv, SharedTyped
<1>3. UNCHANGED <<table, models, admin, reader>>
  BY DEF Expire
<1>4. ModelInv' /\ Underway' = Underway /\ \A d, l : Refreshed(d, l)' = Refreshed(d, l)
  BY <1>3, ModelsKeep
<1>5. LoadsCalm' /\ SeenIsCurrent'
  BY <1>3, <1>4 DEF EntryInv, LoadsCalm, SeenIsCurrent, Calmly, Loading, SeenBy, WriteInProgress, Preloading
<1>6. Inhabited'
  BY <1>2 DEF EntryInv, Inhabited
<1>7. \A d \in Clusters, l \in Keys : (Bare(d, l) => Bare(d, l)') /\ (Good(d, l) => Good(d, l)')
  BY <1>2, <1>3, <1>4 DEF Bare, Good, Current, Settled
<1>8. EvictedIsBare' /\ StaleIsEvicted'
  BY <1>3, <1>7 DEF EntryInv, EvictedIsBare, Writing, StaleIsEvicted, Evicting
<1>9. QED
  BY <1>4, <1>5, <1>6, <1>8 DEF EntryInv

LEMMA AskKeeps ==
  ASSUME EntryInv, TypeInv', NEW a \in Admins, AskWrite(a)
  PROVE  EntryInv'
<1>1. PICK i \in Instances, r \in Rows : admin' = [admin EXCEPT ![a] = Asked(i, r)]
  BY DEF AskWrite, Asked
<1>2. \A b \in Admins : admin'[b] = IF b = a THEN Asked(i, r) ELSE admin[b]
  BY <1>1, AskedFits, AdminUpdate DEF EntryInv, TypeInv
<1>3. Asked(i, r).at = "asked" /\ Asked(i, r).todo = {"commit", "evict"}
  BY DEF Asked
<1>4. \A t \in Readers : ~Calmly(t)'
  <2>1. reader' = [t \in Readers |-> Told(t)]
    BY DEF AskWrite, Told
  <2>2. QED
    BY <2>1, ToldFits DEF EntryInv, TypeInv, Calmly, Loading
<1>5. LoadsCalm' /\ SeenIsCurrent'
  BY <1>4 DEF LoadsCalm, SeenIsCurrent
<1>6. UNCHANGED <<table, models, entries>> /\ admin[a].at = "idle"
  BY DEF AskWrite
<1>7. Inhabited' /\ EvictedIsBare'
  BY <1>2, <1>3, <1>6 DEF EntryInv, Inhabited, EvictedIsBare, Writing, Bare
<1>8. \A b \in Admins : /\ Committing(b)' <=> Committing(b)
                        /\ Committing(b) => UNCHANGED admin[b]
  BY <1>2, <1>3, <1>6 DEF Committing
<1>9. Underway' = Underway
  BY <1>8 DEF Underway
<1>10. ModelInv'
  BY <1>6, <1>8, <1>9 DEF EntryInv, ModelInv, Together, StoredAlone, LoadedRight, StoredRight, Waits, OneStore
<1>11. StaleIsEvicted'
  <2>1. admin[a].todo = {}
    BY <1>6 DEF EntryInv, TypeInv, AdminsFit, AdminFits
  <2>2. Evicting => Evicting'
    BY <1>2, <2>1 DEF Evicting
  <2>3. \A c, k : Good(c, k)' <=> Good(c, k)
    BY <1>6, <1>9 DEF Good, Current, Settled, Refreshed, Astray, Alone
  <2>4. QED
    BY <2>2, <2>3 DEF EntryInv, StaleIsEvicted
<1>12. QED
  BY <1>5, <1>7, <1>10, <1>11 DEF EntryInv

LEMMA SaveKeeps ==
  ASSUME EntryInv, TypeInv', NEW a \in Admins, Save(a)
  PROVE  EntryInv'
<1> DEFINE saved == [admin[a] EXCEPT !.at = "saved"]
           i == admin[a].inst
           r == admin[a].row
           model == [table EXCEPT ![r] = admin[a].version]
<1>1. admin[a].at = "asked" /\ i \in Instances /\ r \in Rows /\ admin[a].todo = {"commit", "evict"}
  BY DEF Save, EntryInv, TypeInv, AdminsFit, AdminFits
<1>2. /\ AdminFits(saved)
      /\ saved.at = "saved" /\ saved.todo = {"commit", "evict"} /\ saved.inst = i
      /\ saved.row = r /\ saved.version = admin[a].version
  BY <1>1, SavedFits DEF EntryInv, TypeInv
<1>3. admin' = [admin EXCEPT ![a] = saved]
  BY DEF Save, EntryInv, TypeInv, AdminsFit
<1> HIDE DEF saved
<1>4. \A b \in Admins : admin'[b] = IF b = a THEN saved ELSE admin[b]
  <2>1. AdminsFit
    BY DEF EntryInv, TypeInv
  <2>2. AdminFits(saved)
    BY <1>2
  <2>3. QED
    BY <2>1, <2>2, <1>3, AdminUpdate
<1>5. UNCHANGED <<table, starting, refill, reader, entries>>
  BY DEF Save
<1>6. model[r] = admin[a].version
  BY <1>1 DEF EntryInv, TypeInv, SharedTyped, Versions
<1>7. \A j \in Instances, v \in VideoRows : store'[j][v] = IF j = i /\ v = r THEN model ELSE store[j][v]
  <2>1. MapsTyped /\ model \in Versions
    BY <1>1 DEF EntryInv, TypeInv, SharedTyped, Versions, AdminsFit, AdminFits, AdminRecord
  <2>2. CASE r \in VideoRows
    <3>1. store' = [store EXCEPT ![i][r] = model]
      BY <2>2 DEF Save
    <3> HIDE DEF i, r, model
    <3>2. QED
      BY <1>1, <2>1, <2>2, <3>1, StoreMoves
  <2>3. CASE r \notin VideoRows
    BY <2>3 DEF Save
  <2>4. QED
    BY <2>2, <2>3
<1>8. /\ \A j \in Instances, v \in VideoRows : v # r => (v \in parted'[j] <=> v \in parted[j])
      /\ r \in VideoRows /\ r \notin parted'[i] => r \notin Uncommitted(i) /\ r \notin Unput(i)
  <2> DEFINE gone == IF r \in Uncommitted(i) \cup Unput(i) THEN parted[i] \cup {r} ELSE parted[i] \ {r}
  <2>1. CASE r \in VideoRows
    <3>1. parted' = [parted EXCEPT ![i] = gone]
      BY <2>1 DEF Save
    <3>2. \A j \in Instances : parted'[j] = IF j = i THEN gone ELSE parted[j]
      <4> HIDE DEF gone, i
      <4>1. QED
        BY <1>1, <3>1 DEF EntryInv, TypeInv, MapsTyped
    <3> HIDE DEF i, r
    <3>3. QED
      BY <1>1, <3>2
  <2>2. CASE r \notin VideoRows
    BY <2>2 DEF Save
  <2>3. QED
    BY <2>1, <2>2
<1> HIDE DEF i, r, model
<1>9. \A b \in Admins : Committing(b)' <=> b = a \/ Committing(b)
  BY <1>2, <1>4 DEF Committing
<1>10. ~Committing(a) /\ WriteInProgress
  BY <1>1 DEF Committing, WriteInProgress
<1>11. \A b \in Admins : admin'[b].row = admin[b].row /\ admin'[b].version = admin[b].version
  BY <1>2, <1>4 DEF r
<1>12. \A v : v \in Underway' <=> v \in Underway \/ (v = r /\ v \in VideoRows)
  BY <1>9, <1>11 DEF Underway, r
<1>13. LoadsCalm' /\ SeenIsCurrent'
  <2>1. \A t \in Readers : ~Calmly(t)'
    BY <1>5, <1>10 DEF EntryInv, LoadsCalm, Calmly, Loading
  <2>2. QED
    BY <2>1 DEF LoadsCalm, SeenIsCurrent
<1>14. Inhabited' /\ EvictedIsBare'
  <2>1. \A b \in Admins : Writing(b)' /\ "evict" \notin admin'[b].todo => Writing(b) /\ "evict" \notin admin[b].todo
    BY <1>2, <1>4 DEF Writing
  <2>2. QED
    BY <1>5, <2>1 DEF EntryInv, Inhabited, EvictedIsBare, Bare
<1>15. StaleIsEvicted'
  <2>1. Evicting => Evicting'
    BY <1>1, <1>2, <1>4 DEF Evicting
  <2>2. \A c, k : \A x \in Settled(c, k)' : x \in Settled(c, k)
    <3> TAKE c, k
    <3> TAKE x \in Settled(c, k)'
    <3>1. x \notin Underway' /\ x \in Refreshed(c, k)'
      BY DEF Settled
    <3>2. x \notin Underway
      BY <1>12, <3>1
    <3>3. x \in VideoRows => x # r
      BY <1>12, <3>1
    <3>4. x \in Refreshed(c, k)
      <4>1. x \notin Astray(c)' => x \notin Astray(c)
        <5>1. CASE Alone(c)
          <6>1. CASE x \in VideoRows
            BY <1>8, <3>3, <5>1, <6>1 DEF Astray, Alone
          <6>2. CASE x \notin VideoRows
            BY <5>1, <6>2 DEF Astray, EntryInv, TypeInv, MapsTyped
          <6>3. QED
            BY <6>1, <6>2
        <5>2. CASE ~Alone(c)
          BY <5>2 DEF Astray, Alone
        <5>3. QED
          BY <5>1, <5>2
      <4>2. QED
        BY <3>1, <4>1 DEF Refreshed
    <3>5. QED
      BY <3>2, <3>4 DEF Settled
  <2>3. \A c, k : Good(c, k) => Good(c, k)'
    BY <1>5, <2>2 DEF Good, Current
  <2>4. QED
    BY <2>1, <2>3 DEF EntryInv, StaleIsEvicted
<1>16. ModelInv'
  <2> SUFFICES ASSUME OneStore, NEW j \in Instances, NEW v \in VideoRows, v \notin parted'[j]
               PROVE  Together(j, v)'
    BY DEF ModelInv, OneStore
  <2>1. j = i
    BY <1>1 DEF OneStore
  <2>2. CASE v = r
    <3>1. v \notin Uncommitted(j) /\ v \notin Unput(j)
      BY <1>8, <2>1, <2>2
    <3>2. \A b \in Admins : ~(Committing(b) /\ admin[b].row = v)
      <4>1. \A b \in Admins : Committing(b) => admin[b].inst \in Instances
        BY DEF Committing, EntryInv, TypeInv, AdminsFit, AdminFits
      <4>2. QED
        BY <3>1, <4>1 DEF Uncommitted, Committing, OneStore
    <3>3. \A l \in Loaders : ~Waits(j, l, v)
      BY <3>1 DEF Unput, Waits
    <3>4. \A l \in Loaders : ~Waits(j, l, v)'
      BY <1>5, <3>3 DEF Waits
    <3>5. store'[j][v][v] = admin[a].version
      BY <1>6, <1>7, <2>1, <2>2
    <3>6. StoredAlone(j, v)'
      BY <1>9, <1>11, <3>2, <3>4, <3>5 DEF StoredAlone
    <3>7. v \in Underway'
      BY <1>12, <2>2
    <3>8. QED
      BY <3>4, <3>6, <3>7 DEF Together, LoadedRight, StoredRight
  <2>3. CASE v # r
    <3>1. Together(j, v)
      BY <1>8, <2>3 DEF EntryInv, ModelInv
    <3>2. store'[j][v] = store[j][v]
      BY <1>7, <2>3
    <3>3. admin[a].row # v
      BY <2>3 DEF r
    <3>4. StoredAlone(j, v)'
      BY <1>5, <1>9, <1>11, <3>1, <3>2, <3>3 DEF Together, StoredAlone, Waits
    <3>5. LoadedRight(j, v)' /\ StoredRight(j, v)'
      BY <1>5, <1>12, <3>1, <3>2 DEF Together, LoadedRight, StoredRight, Waits
    <3>6. QED
      BY <3>4, <3>5 DEF Together
  <2>4. QED
    BY <2>2, <2>3
<1>17. QED
  BY <1>13, <1>14, <1>15, <1>16 DEF EntryInv

LEMMA CommitKeeps ==
  ASSUME EntryInv, TypeInv', NEW a \in Admins, Commit(a)
  PROVE  EntryInv'
<1> DEFINE r == admin[a].row
           left == Left(a, "commit")
<1>1. admin[a].at = "saved" /\ "commit" \in admin[a].todo /\ r \in Rows
      /\ admin[a].todo \in SUBSET {"commit", "evict"} /\ admin[a].inst \in Instances
  BY DEF Commit, EntryInv, TypeInv, AdminsFit, AdminFits, AdminRecord
<1>2. AdminFits(left) /\ left.todo = admin[a].todo \ {"commit"} /\ left.at \in {"idle", "saved"}
  BY <1>1, LeftFits DEF EntryInv, TypeInv
<1>3. \A b \in Admins : admin'[b] = IF b = a THEN left ELSE admin[b]
  <2>1. admin' = [admin EXCEPT ![a] = left]
    BY DEF Commit, Did, Left
  <2>2. QED
    BY <1>2, <2>1, AdminUpdate DEF EntryInv, TypeInv
<1>4. UNCHANGED <<models, reader, entries>>
  BY DEF Commit
<1>5. \A x \in Rows : table'[x] = IF x = r THEN admin[a].version ELSE table[x]
  BY DEF Commit, EntryInv, TypeInv, SharedTyped, Versions
<1> HIDE DEF r, left
<1>6. \A t \in Readers : ~Calmly(t)'
  BY <1>1, <1>4 DEF EntryInv, LoadsCalm, Calmly, Loading, WriteInProgress
<1>7. LoadsCalm' /\ SeenIsCurrent'
  BY <1>6 DEF LoadsCalm, SeenIsCurrent
<1>8. Inhabited'
  BY <1>4 DEF EntryInv, Inhabited
<1>9. EvictedIsBare'
  <2>1. \A b \in Admins : Writing(b)' /\ "evict" \notin admin'[b].todo => Writing(b) /\ "evict" \notin admin[b].todo
    BY <1>1, <1>2, <1>3 DEF Writing
  <2>2. QED
    BY <1>4, <2>1 DEF EntryInv, EvictedIsBare, Bare
<1>10. StaleIsEvicted'
  <2>1. CASE "evict" \in admin[a].todo
    BY <1>2, <1>3, <2>1 DEF StaleIsEvicted, Evicting
  <2>2. CASE "evict" \notin admin[a].todo
    <3>1. \A c \in Clusters, k \in Keys : Bare(c, k)
      BY <1>1, <2>2 DEF EntryInv, EvictedIsBare, Writing
    <3>2. \A c \in Clusters, k \in Keys : Good(c, k)'
      BY <1>4, <3>1 DEF Bare, Good, Current
    <3>3. QED
      BY <3>2 DEF StaleIsEvicted
  <2>3. QED
    BY <2>1, <2>2
<1>11. \A b \in Admins : /\ Committing(b)' <=> b # a /\ Committing(b)
                         /\ Committing(b)' => UNCHANGED admin[b]
  BY <1>2, <1>3 DEF Committing
<1>12. Committing(a) /\ admin[a].row = r
  BY <1>1 DEF Committing, r
<1>13. ModelInv'
  <2> SUFFICES ASSUME OneStore, NEW i \in Instances, NEW v \in VideoRows, v \notin parted[i]
               PROVE  Together(i, v)'
    BY <1>4 DEF ModelInv, OneStore
  <2>1. Together(i, v) /\ v \in Rows
    BY RowAssumption DEF EntryInv, ModelInv
  <2>2. CASE v = r
    <3>1. /\ store[i][v][v] = admin[a].version
          /\ \A l \in Loaders : ~Waits(i, l, v)
          /\ \A b \in Admins : Committing(b) /\ admin[b].row = v => b = a
      BY <1>12, <2>1, <2>2 DEF Together, StoredAlone
    <3>2. \A l \in Loaders : ~Waits(i, l, v)'
      BY <1>4, <3>1 DEF Waits
    <3>3. \A b \in Admins : ~(Committing(b)' /\ admin'[b].row = v)
      BY <1>11, <3>1
    <3>4. store'[i][v][v] = table'[v]
      BY <1>4, <1>5, <2>1, <2>2, <3>1
    <3>5. QED
      BY <3>2, <3>3, <3>4 DEF Together, StoredAlone, LoadedRight, StoredRight
  <2>3. CASE v # r
    <3>1. table'[v] = table[v]
      BY <1>5, <2>1, <2>3
    <3>2. v \in Underway => v \in Underway'
      BY <1>11, <1>12, <2>3 DEF Underway
    <3>3. StoredAlone(i, v)'
      BY <1>4, <1>11, <2>1 DEF Together, StoredAlone, Waits
    <3>4. LoadedRight(i, v)' /\ StoredRight(i, v)'
      BY <1>4, <2>1, <3>1, <3>2 DEF Together, LoadedRight, StoredRight, Waits
    <3>5. QED
      BY <3>3, <3>4 DEF Together
  <2>4. QED
    BY <2>2, <2>3
<1>14. QED
  BY <1>7, <1>8, <1>9, <1>10, <1>13 DEF EntryInv

LEMMA EvictKeeps ==
  ASSUME Setting, EntryInv, TypeInv', NEW a \in Admins, Evict(a)
  PROVE  EntryInv'
<1> DEFINE c == ClusterOf[admin[a].inst]
           left == Left(a, "evict")
<1>1. admin[a].at = "saved" /\ "evict" \in admin[a].todo /\ admin[a].inst \in Instances /\ c \in Clusters
  BY ClusterAssumption DEF Evict, EntryInv, TypeInv, AdminsFit, AdminFits
<1>2. /\ AdminFits(left) /\ left.todo = admin[a].todo \ {"evict"}
      /\ left.at # "idle" => left.at = "saved" /\ left.inst = admin[a].inst
           /\ left.row = admin[a].row /\ left.version = admin[a].version
      /\ left.at = "idle" <=> left.todo = {}
  BY <1>1, LeftFits DEF EntryInv, TypeInv, AdminFits
<1>3. \A b \in Admins : admin'[b] = IF b = a THEN left ELSE admin[b]
  <2>1. admin' = [admin EXCEPT ![a] = left]
    BY DEF Evict, Did, Left
  <2>2. QED
    BY <1>2, <2>1, AdminUpdate DEF EntryInv, TypeInv
<1>4. UNCHANGED <<models, reader, table>>
  BY DEF Evict
<1>5. \A d \in Clusters, k \in Keys : cache'[d][k] = NoEntry
  <2> TAKE d \in Clusters, k \in Keys
  <2>1. CASE d = c
    BY <1>1, <2>1 DEF Evict, Empty, EntryInv, TypeInv, SharedTyped
  <2>2. CASE d # c
    <3>1. cache'[d] = cache[d]
      BY <2>2 DEF Evict, EntryInv, TypeInv, SharedTyped
    <3>2. cache[d][k] = NoEntry
      BY <1>1, <2>2 DEF EntryInv, Inhabited, Setting, OneCluster
    <3>3. QED
      BY <3>1, <3>2
  <2>3. QED
    BY <2>1, <2>2
<1> HIDE DEF c, left
<1>6. \A b \in Admins : Writing(b)' => Writing(b)
  BY <1>1, <1>3 DEF Writing
<1>7. LoadsCalm' /\ SeenIsCurrent'
  BY <1>4, <1>6 DEF EntryInv, LoadsCalm, SeenIsCurrent, Calmly, Loading, SeenBy, WriteInProgress, Writing, Preloading,
     Refreshed, Astray, Alone
<1>8. Inhabited' /\ EvictedIsBare' /\ StaleIsEvicted'
  BY <1>5 DEF Inhabited, EvictedIsBare, Bare, StaleIsEvicted, Good, Current
<1>9. \A b \in Admins : /\ Committing(b)' <=> Committing(b)
                        /\ Committing(b) => admin'[b].row = admin[b].row /\ admin'[b].version = admin[b].version
  BY <1>1, <1>2, <1>3 DEF Committing
<1>10. Underway' = Underway
  BY <1>9 DEF Underway
<1>11. ModelInv'
  BY <1>4, <1>9, <1>10 DEF EntryInv, ModelInv, Together, StoredAlone, LoadedRight, StoredRight, Waits, OneStore
<1>12. QED
  BY <1>7, <1>8, <1>11 DEF EntryInv

(* A step of one instance that only parts videos and loads them leaves      *)
(* lookups and entries as they are: fewer rows are refreshed.               *)
LEMMA PartedKeeps ==
  ASSUME EntryInv, UNCHANGED <<table, entries, reader, admin>>,
         \A i \in Instances : parted[i] \subseteq parted'[i],
         \A i \in Instances : Preloading(i)' => Preloading(i)
  PROVE  LoadsCalm' /\ SeenIsCurrent' /\ Inhabited' /\ EvictedIsBare' /\ StaleIsEvicted'
<1>1. \A c, k : \A x \in Refreshed(c, k)' : x \in Refreshed(c, k)
  BY DEF Refreshed, Astray, Alone
<1>2. Underway' = Underway
  BY DEF Underway, Committing
<1>3. \A t \in Readers : Calmly(t) => reader[t].inst \in Instances
  BY DEF Calmly, Loading, EntryInv, TypeInv, ReadersFit, ReaderFits
<1>4. LoadsCalm'
  BY <1>3 DEF EntryInv, LoadsCalm, Calmly, Loading, WriteInProgress
<1>5. SeenIsCurrent'
  BY <1>1 DEF EntryInv, SeenIsCurrent, Calmly, Loading, SeenBy
<1>6. \A c, k : Good(c, k) => Good(c, k)'
  BY <1>1, <1>2 DEF Good, Current, Settled
<1>7. Inhabited' /\ EvictedIsBare' /\ StaleIsEvicted'
  BY <1>6 DEF EntryInv, Inhabited, EvictedIsBare, Writing, Bare, StaleIsEvicted, Evicting
<1>8. QED
  BY <1>4, <1>5, <1>7

(* A query of a loader. *)
LEMMA LoadParts ==
  ASSUME EntryInv, OneStore, NEW i \in Instances, NEW l \in Loaders, NEW videos \in SUBSET VideoRows,
         Load(i, l, videos), UNCHANGED <<table, admin>>, refill[i][l].todo = {} \/ l = "preload",
         NEW v \in VideoRows, v \notin parted'[i]
  PROVE  /\ v \notin parted[i] /\ LoadedRight(i, v)'
         /\ (\A w \in VideoRows : store'[i][w] = store[i][w]) \/ videos = VideoRows => StoredAlone(i, v)'
<1>1. /\ \A m \in Loaders : refill'[i][m] = IF m = l THEN Held(videos) ELSE refill[i][m]
      /\ parted'[i] = parted[i] \cup (videos \cap Uncommitted(i))
  <2>1. TypeInv
    BY DEF EntryInv
  <2>2. Loads(i, l, videos)
    BY <2>1, LoadMoves
  <2>3. QED
    BY <2>2 DEF Loads
<1>2. v \notin parted[i] /\ Together(i, v)
  BY <1>1 DEF EntryInv, ModelInv
<1>3. v \in videos => \A a \in Admins : ~(Committing(a) /\ admin[a].row = v)
  <2>1. \A a \in Admins : Committing(a) => admin[a].inst \in Instances
    BY DEF Committing, EntryInv, TypeInv, AdminsFit, AdminFits
  <2>2. QED
    BY <1>1, <2>1 DEF Uncommitted, Committing, OneStore
<1>4. Held(videos).rows = table /\ \A w : w \in Held(videos).todo => w \in videos
  BY DEF Held
<1>5. LoadedRight(i, v)'
  BY <1>1, <1>2, <1>4 DEF Together, LoadedRight, Waits
<1>6. ASSUME (\A w \in VideoRows : store'[i][w] = store[i][w]) \/ videos = VideoRows
      PROVE  StoredAlone(i, v)'
  <2>1. \A a \in Admins : (Committing(a) <=> Committing(a)') /\ UNCHANGED admin[a]
    BY DEF Committing
  <2>2. CASE v \in videos
    BY <1>3, <2>1, <2>2 DEF StoredAlone
  <2>3. CASE v \notin videos
    <3>1. store'[i][v] = store[i][v]
      BY <1>6, <2>3
    <3>2. \A m \in Loaders : Waits(i, m, v)' => Waits(i, m, v)
      BY <1>1, <1>4, <2>3 DEF Waits
    <3>3. QED
      BY <1>2, <2>1, <3>1, <3>2 DEF Together, StoredAlone
  <2>4. QED
    BY <2>2, <2>3
<1>7. QED
  BY <1>2, <1>5, <1>6

LEMMA PreloadReadKeeps ==
  ASSUME EntryInv, TypeInv', NEW i \in Instances, PreloadRead(i)
  PROVE  EntryInv'
<1>1. "preload" \in Loaders /\ i \in starting /\ Load(i, "preload", VideoRows)
  BY DEF PreloadRead, Loaders
<1>2. /\ UNCHANGED <<table, entries, reader, admin>>
      /\ starting' = starting \ {i}
  BY DEF PreloadRead
<1>3. /\ \A j \in Instances, m \in Loaders :
           refill'[j][m] = IF j = i /\ m = "preload" THEN Held(VideoRows) ELSE refill[j][m]
      /\ \A j \in Instances : parted[j] \subseteq parted'[j]
  <2>1. TypeInv /\ VideoRows \in SUBSET VideoRows
    BY DEF EntryInv
  <2>2. Loads(i, "preload", VideoRows)
    BY <1>1, <2>1, LoadMoves
  <2>3. QED
    BY <1>1, <2>2 DEF Loads
<1>4. \A j \in Instances : Preloading(j)' => Preloading(j)
  BY <1>1, <1>2, <1>3 DEF Preloading
<1>5. LoadsCalm' /\ SeenIsCurrent' /\ Inhabited' /\ EvictedIsBare' /\ StaleIsEvicted'
  BY <1>2, <1>3, <1>4, PartedKeeps
<1>6. ModelInv'
  <2> SUFFICES ASSUME OneStore, NEW j \in Instances, NEW v \in VideoRows, v \notin parted'[j]
               PROVE  Together(j, v)'
    BY DEF ModelInv, OneStore
  <2>1. j = i
    BY DEF OneStore
  <2>2. LoadedRight(j, v)' /\ StoredAlone(j, v)'
    BY <1>1, <1>2, <2>1, LoadParts
  <2>3. store'[j][v][v] = 0
    BY <2>1, RowAssumption DEF PreloadRead, EntryInv, TypeInv, MapsTyped, NoModels, Version0
  <2>4. table[v] # 0 => Waits(j, "preload", v)'
    <3>1. refill'[j]["preload"] = Held(VideoRows)
      BY <1>1, <1>3, <2>1
    <3>2. table[v] # 0 => v \in Held(VideoRows).todo
      BY DEF Held
    <3>3. QED
      BY <3>1, <3>2 DEF Waits
  <2>5. StoredRight(j, v)'
    BY <1>2, <2>3, <2>4 DEF StoredRight
  <2>6. QED
    BY <2>2, <2>5 DEF Together
<1>7. QED
  BY <1>5, <1>6 DEF EntryInv

LEMMA ReloadReadKeeps ==
  ASSUME EntryInv, TypeInv', NEW i \in Instances, ReloadRead(i)
  PROVE  EntryInv'
<1>1. "flush" \in Loaders /\ "preload" \in Loaders /\ refill[i]["flush"].todo = {}
  BY DEF ReloadRead, Loaders
<1>2. PICK w \in VideoRows : Load(i, "flush", {w})
  BY DEF ReloadRead
<1>3. UNCHANGED <<table, store, starting, entries, reader, admin>>
  BY DEF ReloadRead
<1>4. /\ \A j \in Instances, m \in Loaders :
           refill'[j][m] = IF j = i /\ m = "flush" THEN Held({w}) ELSE refill[j][m]
      /\ \A j \in Instances : parted[j] \subseteq parted'[j]
  <2>1. TypeInv /\ {w} \in SUBSET VideoRows
    BY DEF EntryInv
  <2>2. Loads(i, "flush", {w})
    BY <1>1, <1>2, <2>1, LoadMoves
  <2>3. QED
    BY <1>1, <2>2 DEF Loads
<1>5. \A j \in Instances : refill'[j]["preload"] = refill[j]["preload"]
  BY <1>1, <1>4
<1>6. \A j \in Instances : Preloading(j)' => Preloading(j)
  BY <1>3, <1>5 DEF Preloading
<1>7. LoadsCalm' /\ SeenIsCurrent' /\ Inhabited' /\ EvictedIsBare' /\ StaleIsEvicted'
  BY <1>3, <1>4, <1>6, PartedKeeps
<1>8. ModelInv'
  <2> SUFFICES ASSUME OneStore, NEW j \in Instances, NEW v \in VideoRows, v \notin parted'[j]
               PROVE  Together(j, v)'
    BY DEF ModelInv, OneStore
  <2>1. j = i
    BY DEF OneStore
  <2>2. v \notin parted[j] /\ LoadedRight(j, v)' /\ StoredAlone(j, v)'
    BY <1>1, <1>2, <1>3, <2>1, LoadParts
  <2>3. StoredRight(j, v)
    BY <2>2 DEF EntryInv, ModelInv, Together
  <2>4. Underway' = Underway
    BY <1>3 DEF Underway, Committing
  <2>5. StoredRight(j, v)'
    BY <1>3, <1>5, <2>3, <2>4 DEF StoredRight, Waits
  <2>6. QED
    BY <2>2, <2>5 DEF Together
<1>9. QED
  BY <1>7, <1>8 DEF EntryInv

LEMMA FillKeeps ==
  ASSUME EntryInv, TypeInv', NEW i \in Instances, NEW l \in Loaders, Fill(i, l)
  PROVE  EntryInv'
<1>1. PICK w \in refill[i][l].todo : PutModel(i, l, w)
  BY DEF Fill, PutModel
<1>2. UNCHANGED <<table, starting, parted, entries, reader, admin>>
  BY DEF Fill
<1>3. /\ w \in VideoRows
      /\ \A j \in Instances, m \in Loaders :
           /\ refill'[j][m].rows = refill[j][m].rows
           /\ refill'[j][m].todo = IF j = i /\ m = l THEN refill[i][l].todo \ {w} ELSE refill[j][m].todo
      /\ \A j \in Instances, v \in VideoRows :
           store'[j][v] = IF j = i /\ v = w THEN refill[i][l].rows ELSE store[j][v]
  <2>1. TypeInv
    BY DEF EntryInv
  <2>2. Puts(i, l, w)
    BY <1>1, <2>1, FillMoves
  <2>3. QED
    BY <2>2 DEF Puts
<1>4. "preload" \in Loaders
  BY DEF Loaders
<1>5. \A j \in Instances : Preloading(j)' => Preloading(j)
  BY <1>2, <1>3, <1>4 DEF Preloading
<1>6. LoadsCalm' /\ SeenIsCurrent' /\ Inhabited' /\ EvictedIsBare' /\ StaleIsEvicted'
  BY <1>2, <1>5, PartedKeeps
<1>7. ModelInv'
  <2> SUFFICES ASSUME OneStore, NEW j \in Instances, NEW v \in VideoRows, v \notin parted[j]
               PROVE  Together(j, v)'
    BY <1>2 DEF ModelInv, OneStore
  <2>1. j = i /\ Together(j, v)
    BY DEF OneStore, EntryInv, ModelInv
  <2>2. \A m \in Loaders : Waits(j, m, v)' => Waits(j, m, v)
    BY <1>3 DEF Waits
  <2>3. LoadedRight(j, v)'
    BY <1>2, <1>3, <2>1, <2>2 DEF Together, LoadedRight
  <2>4. \A a \in Admins : Committing(a)' <=> Committing(a)
    BY <1>2 DEF Committing
  <2>5. Underway' = Underway
    BY <1>2 DEF Underway, Committing
  <2>6. CASE v = w
    <3>1. Waits(j, l, v) /\ store'[j][v][v] = table[v]
      BY <1>3, <2>1, <2>6 DEF Waits, Together, LoadedRight
    <3>2. \A a \in Admins : ~(Committing(a) /\ admin[a].row = v)
      BY <2>1, <3>1 DEF Together, StoredAlone
    <3>3. StoredAlone(j, v)'
      BY <1>2, <2>4, <3>2 DEF StoredAlone
    <3>4. StoredRight(j, v)'
      BY <1>2, <3>1 DEF StoredRight
    <3>5. QED
      BY <2>3, <3>3, <3>4 DEF Together
  <2>7. CASE v # w
    <3>1. store'[j][v] = store[j][v] /\ \A m \in Loaders : Waits(j, m, v)' <=> Waits(j, m, v)
      BY <1>3, <2>7 DEF Waits
    <3>2. StoredAlone(j, v)' /\ StoredRight(j, v)'
      BY <1>2, <1>4, <2>1, <2>4, <2>5, <3>1 DEF Together, StoredAlone, StoredRight
    <3>3. QED
      BY <2>3, <3>2 DEF Together
  <2>8. QED
    BY <2>6, <2>7
<1>8. QED
  BY <1>6, <1>7 DEF EntryInv

LEMMA RollbackKeeps ==
  ASSUME Setting, EntryInv, TypeInv', NEW a \in Admins, Rollback(a)
  PROVE  EntryInv'
<1> DEFINE i == admin[a].inst  r == admin[a].row
<1>1. "commit" \in admin[a].todo /\ admin[a].at # "idle" /\ i \in Instances /\ r \in Rows
      /\ admin[a].at \in {"asked", "saved"}
  BY DEF Rollback, EntryInv, TypeInv, AdminsFit, AdminFits, AdminRecord
<1>2. \A b \in Admins : admin'[b] = IF b = a THEN NoAdminRequest ELSE admin[b]
  BY DEF Rollback, EntryInv, TypeInv, AdminsFit
<1>3. UNCHANGED <<table, store, starting, refill, entries, reader>>
  BY DEF Rollback
<1>4. /\ \A j \in Instances : parted[j] \subseteq parted'[j]
      /\ admin[a].at = "saved" /\ r \in VideoRows => r \in parted'[i]
  BY <1>1 DEF Rollback, EntryInv, TypeInv, MapsTyped
<1> HIDE DEF i, r
<1>5. \A b \in Admins : /\ Committing(b)' <=> b # a /\ Committing(b)
                        /\ b # a => UNCHANGED admin[b]
  BY <1>2, StartTyped DEF Committing
<1>6. WriteInProgress
  BY <1>1 DEF WriteInProgress
<1>7. LoadsCalm' /\ SeenIsCurrent'
  <2>1. \A t \in Readers : ~Calmly(t)'
    BY <1>3, <1>6 DEF EntryInv, LoadsCalm, Calmly, Loading
  <2>2. QED
    BY <2>1 DEF LoadsCalm, SeenIsCurrent
<1>8. Inhabited' /\ EvictedIsBare'
  <2>1. \A b \in Admins : Writing(b)' => Writing(b) /\ UNCHANGED admin[b]
    BY <1>2, StartTyped DEF Writing
  <2>2. QED
    BY <1>3, <2>1 DEF EntryInv, Inhabited, EvictedIsBare, Bare
<1>9. \A v : v \in Underway => v \in Underway' \/ (v = r /\ Committing(a) /\ r \in VideoRows)
  BY <1>5 DEF Underway, r
<1>10. StaleIsEvicted'
  <2>1. Evicting => Evicting'
    BY <1>1, <1>2 DEF Evicting
  <2>2. ASSUME NEW c \in Clusters, NEW k \in Keys, Good(c, k) PROVE Good(c, k)'
    <3>1. CASE cache[c][k] = NoEntry
      BY <1>3, <3>1 DEF Good, Current
    <3>2. CASE cache[c][k] # NoEntry
      <4>1. ClusterOf[i] = c
        BY <1>1, <3>2 DEF EntryInv, Inhabited, Setting, OneCluster
      <4>2. \A x : x \notin Astray(c)' => x \notin Astray(c) /\ ~(x = r /\ Committing(a) /\ r \in VideoRows)
        <5>1. CASE Alone(c)
          <6>1. Astray(c)' = UNION {parted'[j] : j \in {j \in Instances : ClusterOf[j] = c}}
            BY <5>1 DEF Astray, Alone
          <6>2. Astray(c) = UNION {parted[j] : j \in {j \in Instances : ClusterOf[j] = c}}
            BY <5>1 DEF Astray
          <6>3. \A x : x \in Astray(c) => x \in Astray(c)'
            BY <1>4, <6>1, <6>2
          <6>4. Committing(a) /\ r \in VideoRows => r \in Astray(c)'
            BY <1>1, <1>4, <4>1, <6>1 DEF Committing
          <6>5. QED
            BY <6>3, <6>4
        <5>2. CASE ~Alone(c)
          BY <5>2 DEF Astray, Alone
        <5>3. QED
          BY <5>1, <5>2
      <4>3. \A x \in Settled(c, k)' : x \in Settled(c, k)
        BY <1>9, <4>2 DEF Settled, Refreshed
      <4>4. QED
        BY <1>3, <2>2, <4>3 DEF Good, Current
    <3>3. QED
      BY <3>1, <3>2
  <2>3. QED
    BY <2>1, <2>2 DEF EntryInv, StaleIsEvicted
<1>11. ModelInv'
  <2> SUFFICES ASSUME OneStore, NEW j \in Instances, NEW v \in VideoRows, v \notin parted'[j]
               PROVE  Together(j, v)'
    BY DEF ModelInv, OneStore
  <2>1. j = i /\ v \notin parted[j]
    BY <1>1, <1>4 DEF OneStore
  <2>2. Together(j, v)
    BY <2>1 DEF EntryInv, ModelInv
  <2>3. v \in Underway => v \in Underway'
    BY <1>1, <1>4, <1>9, <2>1 DEF Committing
  <2>4. StoredAlone(j, v)'
    BY <1>3, <1>5, <2>2 DEF Together, StoredAlone, Waits
  <2>5. LoadedRight(j, v)' /\ StoredRight(j, v)'
    BY <1>3, <2>2, <2>3 DEF Together, LoadedRight, StoredRight, Waits
  <2>6. QED
    BY <2>4, <2>5 DEF Together
<1>12. QED
  BY <1>7, <1>8, <1>10, <1>11 DEF EntryInv

LEMMA RestartKeeps ==
  ASSUME Setting, EntryInv, TypeInv', NEW i \in Instances, Restart(i)
  PROVE  EntryInv'
<1>1. \A j \in Instances : j = i
  BY DEF Restart, Occurs, Setting, RestartsAlone, OneStore
<1>2. \A t \in Readers : ~Calmly(t)'
  BY <1>1, StartTyped DEF Restart, Calmly, Loading, EntryInv, TypeInv, ReadersFit, ReaderFits
<1>3. \A a \in Admins : ~Writing(a)' /\ ~Committing(a)'
  BY <1>1, StartTyped DEF Restart, Writing, Committing, EntryInv, TypeInv, AdminsFit, AdminFits
<1>4. \A c \in Clusters, k \in Keys : cache'[c][k] = NoEntry
  <2> TAKE c \in Clusters, k \in Keys
  <2>1. cache' = [cache EXCEPT ![ClusterOf[i]] = Empty]
    BY <1>1 DEF Restart
  <2>2. QED
    BY <1>1, <2>1 DEF Empty, EntryInv, TypeInv, SharedTyped, Inhabited
<1>5. \A j \in Instances : j \in starting' /\ \A l \in Loaders : refill'[j][l].todo = {}
  BY <1>1, StartTyped DEF Restart, EntryInv, TypeInv, MapsTyped
<1>6. LoadsCalm' /\ SeenIsCurrent'
  BY <1>2 DEF LoadsCalm, SeenIsCurrent
<1>7. Inhabited' /\ EvictedIsBare' /\ StaleIsEvicted'
  BY <1>4 DEF Inhabited, EvictedIsBare, Bare, StaleIsEvicted, Good, Current
<1>8. ModelInv'
  BY <1>3, <1>5 DEF ModelInv, Together, StoredAlone, LoadedRight, StoredRight, Waits
<1>9. QED
  BY <1>6, <1>7, <1>8 DEF EntryInv

LEMMA EntryNext == Setting /\ EntryInv /\ [CacheNext]_cacheVars => EntryInv'
<1> SUFFICES ASSUME Setting, EntryInv, [CacheNext]_cacheVars PROVE EntryInv'
  OBVIOUS
<1>1. TypeInv'
  BY NextTyped DEF EntryInv
<1>2. CASE UNCHANGED cacheVars
  <2>1. UNCHANGED <<table, models, entries, reader, admin>>
    BY <1>2 DEF cacheVars
  <2>2. LoadsCalm' /\ SeenIsCurrent' /\ Inhabited' /\ EvictedIsBare' /\ StaleIsEvicted'
    BY <2>1, PartedKeeps DEF Preloading
  <2>3. QED
    BY <1>1, <2>1, <2>2, ModelsKeep DEF EntryInv
<1>3. ASSUME NEW t \in Readers, Miss(t) PROVE EntryInv'
  BY <1>1, <1>3, MissKeeps
<1>4. ASSUME NEW t \in Readers, ReaderStep(t) PROVE EntryInv'
  BY <1>1, <1>4, ReadKeeps, PutKeeps DEF ReaderStep
<1>5. CASE Expire
  BY <1>1, <1>5, ExpireKeeps
<1>6. ASSUME NEW a \in Admins, AskWrite(a) PROVE EntryInv'
  BY <1>1, <1>6, AskKeeps
<1>7. ASSUME NEW a \in Admins, AdminStep(a) PROVE EntryInv'
  BY <1>1, <1>7, SaveKeeps, CommitKeeps, EvictKeeps DEF AdminStep
<1>8. ASSUME NEW i \in Instances, Restart(i) PROVE EntryInv'
  BY <1>1, <1>8, RestartKeeps
<1>9. ASSUME NEW a \in Admins, Rollback(a) PROVE EntryInv'
  BY <1>1, <1>9, RollbackKeeps
<1>10. ASSUME NEW i \in Instances, PreloadRead(i) \/ ReloadRead(i) \/ \E l \in Loaders : Fill(i, l) PROVE EntryInv'
  BY <1>1, <1>10, PreloadReadKeeps, ReloadReadKeeps, FillKeeps
<1>11. QED
  BY <1>2, <1>3, <1>4, <1>5, <1>6, <1>7, <1>8, <1>9, <1>10 DEF CacheNext

(* Of a site with one cluster, whose processes restart only if alone:      *)
(* however lookups, commits, rollbacks, evictions, expiry and the loading  *)
(* of videos interleave, an entry that no write and no preload has         *)
(* overlapped is current between writes, in the rows that a write          *)
(* refreshes and no failed or overlapping write has parted from their      *)
(* model (EvictsPublicContent.java, @Cacheable, CachedContentStore.java).  *)
THEOREM StaleOnlyWhenOverlapped == Setting => (CacheSpec => []StaleOnlyIfOverlapped)
<1> SUFFICES ASSUME Setting PROVE CacheSpec => []StaleOnlyIfOverlapped
  OBVIOUS
<1>1. EntryInv => StaleOnlyIfOverlapped
  <2> SUFFICES ASSUME EntryInv, ~WriteInProgress, NEW c \in Clusters, NEW k \in Keys
               PROVE  overlapped[c][k] \/ Current(c, k, Refreshed(c, k))
    BY DEF StaleOnlyIfOverlapped
  <2>1. \A a \in Admins : ~Committing(a) /\ admin[a].todo = {}
    BY DEF WriteInProgress, Committing, EntryInv, TypeInv, AdminsFit, AdminFits
  <2>2. Settled(c, k) = Refreshed(c, k)
    BY <2>1 DEF Settled, Underway
  <2>3. Good(c, k)
    BY <2>1 DEF EntryInv, StaleIsEvicted, Evicting
  <2>4. QED
    BY <2>2, <2>3 DEF Good
<1>2. EntryInv /\ [CacheNext]_cacheVars => EntryInv'
  BY EntryNext
<1>3. QED
  BY <1>1, <1>2, EntryInit, PTL DEF CacheSpec
=============================================================================
