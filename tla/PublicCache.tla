----------------------------- MODULE PublicCache -----------------------------
(***************************************************************************)
(* The public read-through caches of the backend.                          *)
(*                                                                         *)
(* Shows, categories, schedule and ticker are read through @Cacheable maps *)
(* that live in Hazelcast: one set of maps per cluster of backend          *)
(* instances.  A miss computes the answer from the database, from the      *)
(* instance's own map of videos (CachedContentStore) and from its own      *)
(* table of media URLs (MediaResolver), and puts it.  An admin's write     *)
(* clears every map.  Requests of all instances interleave, and a lookup   *)
(* that missed is not told that the maps were cleared meanwhile.           *)
(*                                                                         *)
(* The map of videos is filled row by row: as a whole when the process is  *)
(* ready, which serves by then, and one row at a time by the flush of view *)
(* counts; and it keeps what a transaction stored that was rolled back.    *)
(*                                                                         *)
(* Of a row only its version counts: the number of the admin's write that  *)
(* made it (view counts are not part of it).  Version 0 is no row yet.     *)
(***************************************************************************)
EXTENDS Integers, FiniteSets

CONSTANTS
  Instances,    \* backend processes
  Clusters,     \* Hazelcast clusters
  ClusterOf,    \* the cluster each instance joins
  Rows,         \* rows of the database
  VideoRows,    \* those of table video, which each instance keeps in its map
  MediaRows,    \* those of table media_asset
  Joined,       \* the rows whose columns the model of a row copies
  Keys,         \* entries of the public caches
  Source,       \* the rows an entry is computed from
  Readers,      \* threads with a public request
  Admins,       \* threads with an admin request
  Expires,      \* is public-ttl-seconds positive?
  Events,       \* what may happen besides: "restart", "rollback", "reload"
  MaxWrites,    \* bound: admin writes in a behaviour
  MaxEvents,    \* bound: events in a behaviour
  NoEntry, NoKey, NoRow, NoInstance

ASSUME ClusterAssumption == ClusterOf \in [Instances -> Clusters]
ASSUME RowAssumption ==
  /\ VideoRows \subseteq Rows /\ MediaRows \subseteq Rows /\ VideoRows \cap MediaRows = {}
  /\ Joined \in [Rows -> SUBSET (Rows \ (VideoRows \cup MediaRows))]
ASSUME SourceAssumption == Source \in [Keys -> SUBSET Rows]
ASSUME BoundAssumption == MaxWrites \in Nat /\ MaxEvents \in Nat
ASSUME FlagAssumption == Expires \in BOOLEAN /\ Events \subseteq {"restart", "rollback", "reload"}
ASSUME NoneAssumption ==
  /\ NoEntry \notin [Rows -> Nat] /\ NoKey \notin Keys
  /\ NoRow \notin Rows /\ NoInstance \notin Instances

VARIABLES
  table,        \* the committed version of each row
  store,        \* VideoStore of each instance: the versions in a video's model
  starting,     \* the instances whose map is not preloaded yet
  refill,       \* what each instance has read and not put into its map yet
  parted,       \* history: the videos whose model may differ from the row
  resolver,     \* MediaResolver.cache of each instance
  cache,        \* the public caches of each cluster
  overlapped,   \* history: was the entry computed while a write or a preload went on?
  reader,       \* the public request each thread is in
  admin,        \* the admin request each thread is in
  writes,       \* how many admin writes were begun
  events        \* how many events there were

models == <<store, starting, refill, parted>>
entries == <<cache, overlapped>>
cacheVars == <<table, models, resolver, entries, reader, admin, writes, events>>

Version0 == [r \in Rows |-> 0]
NoModels == [v \in VideoRows |-> Version0]
Loaders == {"preload", "flush"}
NoLoad == [todo |-> {}, rows |-> Version0]
Idle == [at |-> "idle", inst |-> NoInstance, key |-> NoKey, todo |-> {}, seen |-> Version0, overlap |-> FALSE]
NoAdminRequest == [at |-> "idle", inst |-> NoInstance, row |-> NoRow, version |-> 0, todo |-> {}]
Empty == [k \in Keys |-> NoEntry]
Fresh == [k \in Keys |-> FALSE]

CacheInit ==
  /\ table = Version0
  /\ store = [i \in Instances |-> NoModels]
  /\ starting = {}
  /\ refill = [i \in Instances |-> [l \in Loaders |-> NoLoad]]
  /\ parted = [i \in Instances |-> {}]
  /\ resolver = [i \in Instances |-> Version0]
  /\ cache = [c \in Clusters |-> Empty]
  /\ overlapped = [c \in Clusters |-> Fresh]
  /\ reader = [t \in Readers |-> Idle]
  /\ admin = [a \in Admins |-> NoAdminRequest]
  /\ writes = 0
  /\ events = 0

-----------------------------------------------------------------------------
(***************************************************************************)
(* Public requests (a hit answers with the entry and changes nothing)      *)
(***************************************************************************)

WriteInProgress == \E a \in Admins : admin[a].at # "idle"
Preloading(i) == i \in starting \/ refill[i]["preload"].todo # {}

Miss(t) ==
  /\ reader[t].at = "idle"
  /\ \E i \in Instances, k \in Keys :
       /\ cache[ClusterOf[i]][k] = NoEntry
       /\ reader' = [reader EXCEPT ![t] =
            [at |-> "load", inst |-> i, key |-> k, todo |-> Source[k], seen |-> Version0,
             overlap |-> WriteInProgress \/ Preloading(i)]]
  /\ UNCHANGED <<table, models, resolver, entries, admin, writes, events>>

See(t, r, versions) ==
  reader' = [reader EXCEPT ![t] =
    [reader[t] EXCEPT !.todo = reader[t].todo \ {r},
                      !.seen = [s \in Rows |-> IF s \in {r} \cup Joined[r] THEN versions[s]
                                               ELSE reader[t].seen[s]]]]

(* A query of the database. *)
ReadTable(t) ==
  /\ reader[t].at = "load"
  /\ \E r \in reader[t].todo \ (VideoRows \cup MediaRows) : See(t, r, table)
  /\ UNCHANGED <<table, models, resolver, entries, admin, writes, events>>

(* VideoStore.findAll: the models of this instance. *)
ReadStore(t) ==
  /\ reader[t].at = "load"
  /\ \E v \in reader[t].todo \cap VideoRows : See(t, v, store[reader[t].inst][v])
  /\ UNCHANGED <<table, models, resolver, entries, admin, writes, events>>

MediaTable == [r \in Rows |-> IF r \in MediaRows THEN table[r] ELSE 0]

(* MediaResolver.url: an asset it does not know makes it load them all. *)
ReadMedia(t) ==
  /\ reader[t].at = "load"
  /\ \E m \in reader[t].todo \cap MediaRows :
       LET i == reader[t].inst
           known == IF resolver[i][m] = 0 THEN MediaTable ELSE resolver[i]
       IN /\ resolver' = [resolver EXCEPT ![i] = known]
          /\ See(t, m, known)
  /\ UNCHANGED <<table, models, entries, admin, writes, events>>

(* The answer is complete: it is put, whatever is in the map now. *)
Put(t) ==
  LET c == ClusterOf[reader[t].inst]
  IN /\ reader[t].at = "load"
     /\ reader[t].todo = {}
     /\ cache' = [cache EXCEPT ![c][reader[t].key] = reader[t].seen]
     /\ overlapped' = [overlapped EXCEPT ![c][reader[t].key] = reader[t].overlap]
     /\ reader' = [reader EXCEPT ![t] = Idle]
     /\ UNCHANGED <<table, models, resolver, admin, writes, events>>

(* Time to live.  With 0 entries stay until a write. *)
Expire ==
  /\ Expires
  /\ \E c \in Clusters, k \in Keys :
       /\ cache[c][k] # NoEntry
       /\ cache' = [cache EXCEPT ![c][k] = NoEntry]
       /\ overlapped' = [overlapped EXCEPT ![c][k] = FALSE]
  /\ UNCHANGED <<table, models, resolver, reader, admin, writes, events>>

-----------------------------------------------------------------------------
(***************************************************************************)
(* Admin requests                                                          *)
(***************************************************************************)

(* A create, put, patch or delete of a row arrives at an instance.  Who is *)
(* computing an answer now does so while a write goes on.                  *)
AskWrite(a) ==
  /\ admin[a].at = "idle"
  /\ writes < MaxWrites
  /\ \E i \in Instances, r \in Rows :
       admin' = [admin EXCEPT ![a] = [at |-> "asked", inst |-> i, row |-> r,
                                      version |-> writes + 1, todo |-> {"commit", "evict"}]]
  /\ writes' = writes + 1
  /\ reader' = [t \in Readers |->
                  IF reader[t].at = "load" THEN [reader[t] EXCEPT !.overlap = TRUE] ELSE reader[t]]
  /\ UNCHANGED <<table, models, resolver, entries, events>>

(* Slip: the model of a video is saved and not put into the map. *)
SaveOnly(a) ==
  /\ admin[a].at = "asked"
  /\ admin' = [admin EXCEPT ![a].at = "saved"]
  /\ UNCHANGED <<table, models, resolver, entries, reader, writes, events>>

(* The videos whose model at this instance a transaction stored that has   *)
(* not committed, and those read for the map that are not put yet.         *)
Uncommitted(i) ==
  {v \in VideoRows : \E a \in Admins : /\ admin[a].at = "saved" /\ "commit" \in admin[a].todo
                                       /\ admin[a].inst = i /\ admin[a].row = v}
Unput(i) == UNION {refill[i][l].todo : l \in Loaders}

(* repo.save; for a video, the model with the names it joins goes into the *)
(* map of this instance, which it brings in line with the row to come      *)
(* unless another transaction, or a row read before, is to follow.         *)
Save(a) ==
  LET i == admin[a].inst
      r == admin[a].row
  IN /\ admin[a].at = "asked"
     /\ IF r \in VideoRows
        THEN /\ store' = [store EXCEPT ![i][r] = [table EXCEPT ![r] = admin[a].version]]
             /\ parted' = [parted EXCEPT ![i] = IF r \in Uncommitted(i) \cup Unput(i)
                                                THEN parted[i] \cup {r} ELSE parted[i] \ {r}]
        ELSE UNCHANGED <<store, parted>>
     /\ admin' = [admin EXCEPT ![a].at = "saved"]
     /\ UNCHANGED <<table, starting, refill, resolver, entries, reader, writes, events>>

(* What is left of the request; with nothing left it is answered. *)
Did(a, step) ==
  admin' = [admin EXCEPT ![a] =
    IF admin[a].todo = {step} THEN NoAdminRequest ELSE [admin[a] EXCEPT !.todo = admin[a].todo \ {step}]]

Commit(a) ==
  /\ admin[a].at = "saved"
  /\ "commit" \in admin[a].todo
  /\ table' = [table EXCEPT ![admin[a].row] = admin[a].version]
  /\ Did(a, "commit")
  /\ UNCHANGED <<models, resolver, entries, reader, writes, events>>

(* Slip: one cache name is missing from the annotation. *)
EvictForgets(a) ==
  LET c == ClusterOf[admin[a].inst]
      kept == CHOOSE k \in Keys : TRUE
  IN /\ admin[a].at = "saved"
     /\ "evict" \in admin[a].todo
     /\ cache' = [cache EXCEPT ![c] = [k \in Keys |-> IF k = kept THEN cache[c][k] ELSE NoEntry]]
     /\ Did(a, "evict")
     /\ UNCHANGED <<table, models, resolver, overlapped, reader, writes, events>>

(* @EvictsPublicContent clears all maps of the cluster after the handler.  *)
(* Two proxies wrap the handler, the transaction's and the cache's; their  *)
(* order is the container's, so that either may come first.                *)
Evict(a) ==
  LET c == ClusterOf[admin[a].inst]
  IN /\ admin[a].at = "saved"
     /\ "evict" \in admin[a].todo
     /\ cache' = [cache EXCEPT ![c] = Empty]
     /\ overlapped' = [overlapped EXCEPT ![c] = Fresh]
     /\ Did(a, "evict")
     /\ UNCHANGED <<table, models, resolver, reader, writes, events>>

-----------------------------------------------------------------------------
(***************************************************************************)
(* What happens besides                                                    *)
(***************************************************************************)

Occurs(event) == event \in Events /\ events < MaxEvents /\ events' = events + 1

(* The handler throws, or its transaction fails: the row stays as it was,  *)
(* and so does the model that went into the map.  Nothing more is evicted. *)
Rollback(a) ==
  LET i == admin[a].inst
  IN /\ Occurs("rollback")
     /\ "commit" \in admin[a].todo
     /\ parted' = IF admin[a].at = "saved" /\ admin[a].row \in VideoRows
                  THEN [parted EXCEPT ![i] = parted[i] \cup {admin[a].row}] ELSE parted
     /\ admin' = [admin EXCEPT ![a] = NoAdminRequest]
     /\ UNCHANGED <<table, store, starting, refill, resolver, entries, reader, writes>>

(* A process restarts with an empty map; requests in it are gone.  The     *)
(* entries live on with the cluster's other members, if any.               *)
Restart(i) ==
  LET alone == \A j \in Instances \ {i} : ClusterOf[j] # ClusterOf[i]
  IN /\ Occurs("restart")
     /\ store' = [store EXCEPT ![i] = NoModels]
     /\ starting' = starting \cup {i}
     /\ refill' = [refill EXCEPT ![i] = [l \in Loaders |-> NoLoad]]
     /\ parted' = [parted EXCEPT ![i] = {}]
     /\ resolver' = [resolver EXCEPT ![i] = Version0]
     /\ cache' = IF alone THEN [cache EXCEPT ![ClusterOf[i]] = Empty] ELSE cache
     /\ overlapped' = IF alone THEN [overlapped EXCEPT ![ClusterOf[i]] = Fresh] ELSE overlapped
     /\ reader' = [t \in Readers |-> IF reader[t].inst = i THEN Idle ELSE reader[t]]
     /\ admin' = [a \in Admins |-> IF admin[a].inst = i THEN NoAdminRequest ELSE admin[a]]
     /\ UNCHANGED <<table, writes>>

(* A query for rows whose models are to be put.  It does not see what is   *)
(* not committed.                                                          *)
Load(i, l, videos) ==
  /\ refill' = [refill EXCEPT ![i][l] = [todo |-> {v \in videos : table[v] # 0}, rows |-> table]]
  /\ parted' = [parted EXCEPT ![i] = parted[i] \cup (videos \cap Uncommitted(i))]

(* preload, when the application is ready: it has been serving requests.   *)
PreloadRead(i) ==
  /\ i \in starting
  /\ starting' = starting \ {i}
  /\ store' = [store EXCEPT ![i] = NoModels]
  /\ Load(i, "preload", VideoRows)
  /\ UNCHANGED <<table, resolver, entries, reader, admin, writes, events>>

(* reload of one video, by a flush of view counts. *)
ReloadRead(i) ==
  /\ Occurs("reload")
  /\ refill[i]["flush"].todo = {}
  /\ \E v \in VideoRows : Load(i, "flush", {v})
  /\ UNCHANGED <<table, store, starting, resolver, entries, reader, admin, writes>>

(* cache.put of one of the models read. *)
Fill(i, l) ==
  /\ \E v \in refill[i][l].todo :
       /\ store' = [store EXCEPT ![i][v] = refill[i][l].rows]
       /\ refill' = [refill EXCEPT ![i][l].todo = refill[i][l].todo \ {v}]
  /\ UNCHANGED <<table, starting, parted, resolver, entries, reader, admin, writes, events>>

ReaderStep(t) == ReadTable(t) \/ ReadStore(t) \/ ReadMedia(t) \/ Put(t)
AdminStep(a) == Save(a) \/ Commit(a) \/ Evict(a)

CacheNext ==
  \/ \E t \in Readers : Miss(t) \/ ReaderStep(t)
  \/ Expire
  \/ \E a \in Admins : AskWrite(a) \/ AdminStep(a) \/ Rollback(a)
  \/ \E i \in Instances : Restart(i) \/ PreloadRead(i) \/ ReloadRead(i) \/ \E l \in Loaders : Fill(i, l)

CacheSpec == CacheInit /\ [][CacheNext]_cacheVars

(* A request that has begun goes on, so does the loading of videos, and    *)
(* entries do expire.  Nobody has to ask or write.                         *)
CacheFairness ==
  /\ \A t \in Readers : WF_cacheVars(ReaderStep(t))
  /\ \A a \in Admins : WF_cacheVars(AdminStep(a))
  /\ \A c \in Clusters, k \in Keys : WF_cacheVars(Expire /\ cache[c][k] # NoEntry /\ cache'[c][k] = NoEntry)
  /\ \A i \in Instances : WF_cacheVars(PreloadRead(i)) /\ \A l \in Loaders : WF_cacheVars(Fill(i, l))

-----------------------------------------------------------------------------
(***************************************************************************)
(* Properties                                                              *)
(***************************************************************************)

Versions == [Rows -> Nat]
ReaderRecord == [at : {"idle", "load"}, inst : Instances \cup {NoInstance}, key : Keys \cup {NoKey},
                 todo : SUBSET Rows, seen : Versions, overlap : BOOLEAN]
AdminRecord == [at : {"idle", "asked", "saved"}, inst : Instances \cup {NoInstance},
                row : Rows \cup {NoRow}, version : Nat, todo : SUBSET {"commit", "evict"}]

(* Every variable holds a value of the kind the code gives it, and a       *)
(* request that is answered leaves nothing of itself undone.               *)
CacheTypeOK ==
  /\ table \in Versions
  /\ store \in [Instances -> [VideoRows -> Versions]]
  /\ starting \subseteq Instances
  /\ refill \in [Instances -> [Loaders -> [todo : SUBSET VideoRows, rows : Versions]]]
  /\ parted \in [Instances -> SUBSET VideoRows]
  /\ resolver \in [Instances -> Versions]
  /\ cache \in [Clusters -> [Keys -> Versions \cup {NoEntry}]]
  /\ overlapped \in [Clusters -> [Keys -> BOOLEAN]]
  /\ reader \in [Readers -> ReaderRecord]
  /\ admin \in [Admins -> AdminRecord]
  /\ writes \in Nat
  /\ events \in Nat
  /\ \A t \in Readers : reader[t].at = "load" <=> reader[t].key # NoKey
  /\ \A a \in Admins : admin[a].at = "idle" <=> admin[a].todo = {}

(* The rows of an entry that a write refreshes wherever they are copied:   *)
(* not the URLs of media, which a resolver keeps until it restarts, not    *)
(* names joined into a video, which are as old as its model, and videos    *)
(* only if their map is the only one of its cluster and their own model is *)
(* not parted from the row: by a transaction rolled back, by one that met  *)
(* another on the same video, or by one that met a load of it, until the   *)
(* video is written alone or the process restarts.                         *)
Alone(c) == \A i, j \in Instances : ClusterOf[i] = c /\ ClusterOf[j] = c => i = j
Astray(c) == IF Alone(c) THEN UNION {parted[i] : i \in {j \in Instances : ClusterOf[j] = c}} ELSE VideoRows
Refreshed(c, k) == Source[k] \ (MediaRows \cup Astray(c) \cup UNION {Joined[r] : r \in Source[k]})

Current(c, k, rows) == cache[c][k] # NoEntry => \A r \in rows : cache[c][k][r] = table[r]

(* An entry that was not computed while a write went on or its instance    *)
(* was preloading shows, of these rows, what the database holds, between   *)
(* writes: whatever the order of lookups, evictions, commits and           *)
(* rollbacks, of preloads and reloads, there is no other way to a stale    *)
(* entry.                                                                  *)
StaleOnlyIfOverlapped ==
  ~WriteInProgress =>
    \A c \in Clusters, k \in Keys : overlapped[c][k] \/ Current(c, k, Refreshed(c, k))

(* With a positive time to live the public site is current for good, in    *)
(* these rows, some time after the last write, however lookups, loads and  *)
(* writes overlapped.                                                      *)
BecomesCurrent == <>[](\A c \in Clusters, k \in Keys : Current(c, k, Refreshed(c, k)))
=============================================================================
