------------------------------ MODULE VideoStore ------------------------------
(***************************************************************************)
(* The videos of one backend process and their view counts.                *)
(*                                                                         *)
(* CachedContentStore keeps every row of table video in a map that all     *)
(* request threads read; an admin's write goes to the database in a        *)
(* transaction, and to the map before the transaction commits.  A watch is *)
(* counted in a buffer (ViewCountService); a scheduled task moves the      *)
(* buffers to the table in one transaction and reloads the map.  Request   *)
(* threads, the task and the preload at start-up interleave freely, except *)
(* that a row an open transaction has updated is locked until its end.     *)
(*                                                                         *)
(* A model of a video is the pair of what admins edit and its view count.  *)
(***************************************************************************)
EXTENDS Integers, FiniteSets

CONSTANTS
  Videos,       \* ids of table video; an id is given out once
  Admins,       \* threads of the admin API
  Viewers,      \* the public requests of a behaviour,
  Watchers,     \* those to GET /watch; the others are to GET /videos/{slug}
  Writes,       \* what admins do: "create", "update", "delete", "cascade"
  Faults,       \* what goes wrong: "rollback", "restart"
  MaxWrites,    \* bound: admin writes in a behaviour
  MaxFaults,    \* bound: faults in a behaviour
  NoVideo,      \* no such row, no such entry
  NoId

ASSUME WritesAssumption == Writes \subseteq {"create", "update", "delete", "cascade"}
ASSUME FaultsAssumption == Faults \subseteq {"rollback", "restart"}
ASSUME BoundsAssumption == MaxWrites \in Nat /\ MaxFaults \in Nat
ASSUME AdminsAssumption == IsFiniteSet(Admins)
ASSUME WatchersAssumption == Watchers \subseteq Viewers
ASSUME IdAssumption == NoId \notin Videos
ASSUME ModelAssumption == NoVideo \notin [edit : Nat, views : Nat]

VARIABLES
  row,          \* table video, as committed
  used,         \* the ids already given out
  cache,        \* CachedContentStore.cache
  pending,      \* ViewCountService.pending: is there an adder, and its sum
  flush,        \* the flush() under way; added is what its transaction adds
  admin,        \* the request each admin thread is in
  viewer,       \* the state of each public request
  preload,      \* the preload() of this process
  watched,      \* history: the views recorded of each video
  writes,       \* how many admin writes were begun
  faults        \* how many faults have happened

database == <<row, used>>
history == <<watched, writes, faults>>
vars == <<row, used, cache, pending, flush, admin, viewer, preload, watched, writes, faults>>

Model(edit, views) == [edit |-> edit, views |-> views]
NoAdder == [on |-> FALSE, sum |-> 0]
Nothing == [v \in Videos |-> 0]
NoFlush == [at |-> "idle", todo |-> {}, video |-> NoId, delta |-> 0, locked |-> {}, added |-> Nothing]
NoRequest == [at |-> "idle", op |-> "none", video |-> NoId, model |-> Model(0, 0)]
NoPreload(at) == [at |-> at, rows |-> [v \in Videos |-> NoVideo]]
NewRequest == [at |-> "new", video |-> NoId, attached |-> FALSE, count |-> 0]

(* A process that has been up for a while: its map was preloaded. *)
Init ==
  /\ row \in [Videos -> {NoVideo, Model(0, 0)}]
  /\ used = {v \in Videos : row[v] # NoVideo}
  /\ cache = row
  /\ pending = [v \in Videos |-> NoAdder]
  /\ flush = NoFlush
  /\ admin = [a \in Admins |-> NoRequest]
  /\ viewer = [w \in Viewers |-> NewRequest]
  /\ preload = NoPreload("done")
  /\ watched = Nothing
  /\ writes = 0
  /\ faults = 0

-----------------------------------------------------------------------------
(***************************************************************************)
(* Viewers                                                                 *)
(***************************************************************************)

(* What a request at this point has in hand, an adder of the buffer or a   *)
(* model of the map, is taken out: it keeps a stray one.                   *)
Detach(at, S) ==
  viewer' = [w \in Viewers |->
               IF viewer[w].at = at /\ viewer[w].video \in S
               THEN [viewer[w] EXCEPT !.attached = FALSE] ELSE viewer[w]]

(* WatchService.watch finds the video in the map; recordView finds or      *)
(* makes its adder, and increments the adder it has in hand a moment later.*)
Watch(w) ==
  /\ w \in Watchers
  /\ viewer[w].at = "new"
  /\ \E v \in Videos :
       /\ cache[v] # NoVideo
       /\ pending' = [pending EXCEPT ![v].on = TRUE]
       /\ viewer' = [viewer EXCEPT ![w] =
            [at |-> "count", video |-> v, attached |-> TRUE, count |-> 0]]
  /\ UNCHANGED <<database, cache, flush, admin, preload, history>>

Answered(w) == viewer' = [viewer EXCEPT ![w] = [NewRequest EXCEPT !.at = "done"]]

(* An adder that was taken out of the buffer meanwhile counts for nobody. *)
Count(w) ==
  LET v == viewer[w].video
  IN /\ viewer[w].at = "count"
     /\ pending' = [pending EXCEPT ![v].sum = IF viewer[w].attached THEN @ + 1 ELSE @]
     /\ watched' = [watched EXCEPT ![v] = @ + 1]
     /\ Answered(w)
     /\ UNCHANGED <<database, cache, flush, admin, preload, writes, faults>>

(* CatalogService.videoBySlug finds the model in the map, and its count.   *)
Look(w) ==
  /\ w \notin Watchers
  /\ viewer[w].at = "new"
  /\ \E v \in Videos :
       /\ cache[v] # NoVideo
       /\ viewer' = [viewer EXCEPT ![w] =
            [at |-> "show", video |-> v, attached |-> TRUE, count |-> cache[v].views]]
  /\ UNCHANGED <<database, cache, pending, flush, admin, preload, history>>

(* It adds the buffered count and sets the sum on the model it found: the  *)
(* one that others find, unless the map has another by now.                *)
Show(w) ==
  LET v == viewer[w].video
      effective == viewer[w].count + pending[v].sum
  IN /\ viewer[w].at = "show"
     /\ cache' = IF viewer[w].attached THEN [cache EXCEPT ![v] = Model(cache[v].edit, effective)] ELSE cache
     /\ Answered(w)
     /\ UNCHANGED <<database, pending, flush, admin, preload, history>>

-----------------------------------------------------------------------------
(***************************************************************************)
(* ViewCountService.flush, one transaction                                 *)
(***************************************************************************)

(* The adder of v leaves the buffer. *)
DropAdder(v) ==
  /\ pending' = [pending EXCEPT ![v] = NoAdder]
  /\ Detach("count", {v})

Buffered == {v \in Videos : pending[v].on}

(* The task fires.  An empty buffer is the early return. *)
FlushBegin ==
  /\ flush.at = "idle"
  /\ flush' = IF Buffered = {} THEN flush ELSE [flush EXCEPT !.at = "drain", !.todo = Buffered]
  /\ UNCHANGED <<database, cache, pending, admin, viewer, preload, history>>

(* Slip: the sum is read and not reset. *)
DrainKeeps ==
  /\ flush.at = "drain"
  /\ \E v \in flush.todo :
       flush' = IF pending[v].sum = 0
                THEN [flush EXCEPT !.todo = flush.todo \ {v}]
                ELSE [flush EXCEPT !.todo = flush.todo \ {v}, !.at = "add", !.video = v,
                                   !.delta = pending[v].sum]
  /\ UNCHANGED <<database, cache, pending, admin, viewer, preload, history>>

(* sumThenReset of the next adder; a sum of 0 is passed over. *)
Drain ==
  /\ flush.at = "drain"
  /\ \E v \in flush.todo :
       /\ flush' = IF pending[v].sum = 0
                   THEN [flush EXCEPT !.todo = flush.todo \ {v}]
                   ELSE [flush EXCEPT !.todo = flush.todo \ {v}, !.at = "add", !.video = v,
                                      !.delta = pending[v].sum]
       /\ pending' = [pending EXCEPT ![v].sum = 0]
  /\ UNCHANGED <<database, cache, admin, viewer, preload, history>>

(* addViews updates the row, which stays locked until the transaction      *)
(* ends.  (An admin's transaction writes in its commit, see Commit.)       *)
AddViews ==
  LET v == flush.video
  IN /\ flush.at = "add"
     /\ row[v] # NoVideo
     /\ flush' = [flush EXCEPT !.at = "reload", !.delta = 0, !.locked = flush.locked \cup {v},
                               !.added = [flush.added EXCEPT ![v] = @ + flush.delta]]
     /\ UNCHANGED <<database, cache, pending, admin, viewer, preload, history>>

(* addViews finds no row: the video's buffer is dropped. *)
AddNowhere ==
  /\ flush.at = "add"
  /\ row[flush.video] = NoVideo
  /\ DropAdder(flush.video)
  /\ flush' = [flush EXCEPT !.at = "drain", !.video = NoId, !.delta = 0]
  /\ UNCHANGED <<database, cache, admin, preload, history>>

(* Slip: what was flushed is added to the model the map has.               *)
ReloadAdds ==
  LET v == flush.video
  IN /\ flush.at = "reload"
     /\ cache' = [cache EXCEPT ![v] = IF @ = NoVideo THEN NoVideo
                                      ELSE Model(cache[v].edit, cache[v].views + flush.added[v])]
     /\ flush' = [flush EXCEPT !.at = "drain", !.video = NoId]
     /\ UNCHANGED <<database, pending, admin, viewer, preload, history>>

(* videoStore.reload reads the row inside the flush's transaction. *)
Reload ==
  LET v == flush.video
  IN /\ flush.at = "reload"
     /\ cache' = [cache EXCEPT ![v] = Model(row[v].edit, row[v].views + flush.added[v])]
     /\ flush' = [flush EXCEPT !.at = "drain", !.video = NoId]
     /\ Detach("show", {v})
     /\ UNCHANGED <<database, pending, admin, preload, history>>

(* removeIf: an entry is tested, and removed in a second step. *)
PruneBegin ==
  /\ flush.at = "drain"
  /\ flush.todo = {}
  /\ flush' = [flush EXCEPT !.at = "prune", !.todo = Buffered]
  /\ UNCHANGED <<database, cache, pending, admin, viewer, preload, history>>

(* Slip: emptied adders are kept. *)
PruneNothing ==
  /\ flush.at = "prune"
  /\ \E v \in flush.todo : flush' = [flush EXCEPT !.todo = flush.todo \ {v}]
  /\ UNCHANGED <<database, cache, pending, admin, viewer, preload, history>>

PruneTest ==
  /\ flush.at = "prune"
  /\ \E v \in flush.todo :
       flush' = IF pending[v].on /\ pending[v].sum = 0
                THEN [flush EXCEPT !.todo = flush.todo \ {v}, !.at = "remove", !.video = v]
                ELSE [flush EXCEPT !.todo = flush.todo \ {v}]
  /\ UNCHANGED <<database, cache, pending, admin, viewer, preload, history>>

PruneRemove ==
  /\ flush.at = "remove"
  /\ DropAdder(flush.video)
  /\ flush' = [flush EXCEPT !.at = "prune", !.video = NoId]
  /\ UNCHANGED <<database, cache, admin, preload, history>>

FlushCommit ==
  /\ flush.at = "prune"
  /\ flush.todo = {}
  /\ row' = [v \in Videos |-> IF v \in flush.locked
                              THEN Model(row[v].edit, row[v].views + flush.added[v])
                              ELSE row[v]]
  /\ flush' = NoFlush
  /\ UNCHANGED <<used, cache, pending, admin, viewer, preload, history>>

Flush ==
  \/ FlushBegin \/ Drain \/ AddViews \/ AddNowhere \/ Reload
  \/ PruneBegin \/ PruneTest \/ PruneRemove \/ FlushCommit

-----------------------------------------------------------------------------
(***************************************************************************)
(* The admin API: AbstractCrudController on a CachedContentStore on a      *)
(* JpaContentStore, one transaction per request                            *)
(***************************************************************************)

Ask(a, op, v, model) ==
  /\ admin[a].at = "idle"
  /\ op \in Writes
  /\ writes < MaxWrites
  /\ admin' = [admin EXCEPT ![a] = [at |-> "asked", op |-> op, video |-> v, model |-> model]]
  /\ writes' = writes + 1
  /\ UNCHANGED <<database, cache, pending, flush, viewer, preload, watched, faults>>

(* The CMS reads the video into its form, views included, and sends the    *)
(* whole form back when the editor saves: from the moment it is read, this *)
(* model is what the request will carry.                                   *)
AskUpdate(a) ==
  \E v \in Videos :
    cache[v] # NoVideo /\ Ask(a, "update", v, Model(writes + 1, cache[v].views))

AskDelete(a) ==
  \E v \in Videos : cache[v] # NoVideo /\ Ask(a, "delete", v, cache[v])

AskCreate(a) == Ask(a, "create", NoId, Model(0, 0))

Goto(a, at) == admin' = [admin EXCEPT ![a].at = at]

(* repo.findById, or the insert, which gives the new row its id. *)
Load(a) ==
  /\ admin[a].at = "asked"
  /\ \/ /\ admin[a].op # "create"
        /\ row[admin[a].video] # NoVideo
        /\ Goto(a, "store")
        /\ UNCHANGED used
     \/ /\ admin[a].op = "create"
        /\ \E v \in Videos \ used :
             /\ used' = used \cup {v}
             /\ admin' = [admin EXCEPT ![a] = [@ EXCEPT !.at = "store", !.video = v]]
  /\ UNCHANGED <<row, cache, pending, flush, viewer, preload, history>>

(* NotFoundException, or the insert violates a constraint. *)
Refuse(a) ==
  /\ admin[a].at = "asked"
  /\ admin[a].op # "create" => row[admin[a].video] = NoVideo
  /\ admin' = [admin EXCEPT ![a] = NoRequest]
  /\ UNCHANGED <<database, cache, pending, flush, viewer, preload, history>>

(* Slip: an entry is replaced where it should be put. *)
StoreReplaces(a) ==
  /\ admin[a].at = "store"
  /\ cache' = [cache EXCEPT ![admin[a].video] =
                 IF admin[a].op = "delete" \/ @ = NoVideo THEN NoVideo ELSE admin[a].model]
  /\ Goto(a, "commit")
  /\ Detach("show", {admin[a].video})
  /\ UNCHANGED <<database, pending, flush, preload, history>>

(* cache.put or cache.remove, inside the transaction. *)
Store(a) ==
  /\ admin[a].at = "store"
  /\ cache' = [cache EXCEPT ![admin[a].video] =
                 IF admin[a].op = "delete" THEN NoVideo ELSE admin[a].model]
  /\ Goto(a, "commit")
  /\ Detach("show", {admin[a].video})
  /\ UNCHANGED <<database, pending, flush, preload, history>>

(* The entity's UPDATE or DELETE is sent when the transaction commits.  It *)
(* waits for the row's lock and writes all columns, the count too; if it   *)
(* finds the row gone the transaction rolls back.                          *)
Commit(a) ==
  LET v == admin[a].video
  IN /\ admin[a].at = "commit"
     /\ v \notin flush.locked
     /\ row' = IF admin[a].op # "create" /\ row[v] = NoVideo THEN row
               ELSE [row EXCEPT ![v] = IF admin[a].op = "delete" THEN NoVideo ELSE admin[a].model]
     /\ admin' = [admin EXCEPT ![a] = NoRequest]
     /\ UNCHANGED <<used, cache, pending, flush, viewer, preload, history>>

(* Deleting a subcategory, which no map covers, deletes its videos.  (Here *)
(* a subcategory has one video.)                                           *)
CascadeDelete ==
  /\ "cascade" \in Writes
  /\ writes < MaxWrites
  /\ \E v \in Videos \ flush.locked :
       row[v] # NoVideo /\ row' = [row EXCEPT ![v] = NoVideo]
  /\ writes' = writes + 1
  /\ UNCHANGED <<used, cache, pending, flush, admin, viewer, preload, watched, faults>>

AdminStep(a) ==
  \/ AskUpdate(a) \/ AskDelete(a) \/ AskCreate(a)
  \/ Load(a) \/ Refuse(a) \/ Store(a) \/ Commit(a)

-----------------------------------------------------------------------------
(***************************************************************************)
(* Faults and start-up                                                     *)
(***************************************************************************)

Happens(fault) == fault \in Faults /\ faults < MaxFaults /\ faults' = faults + 1

(* A transaction fails: a constraint at commit, a lost connection.  The    *)
(* database forgets it; nothing undoes what the map or the buffer went     *)
(* through.                                                                *)
AdminRollback ==
  /\ Happens("rollback")
  /\ \E a \in Admins :
       /\ admin[a].at \in {"store", "commit"}
       /\ admin' = [admin EXCEPT ![a] = NoRequest]
  /\ UNCHANGED <<database, cache, pending, flush, viewer, preload, watched, writes>>

FlushRollback ==
  /\ Happens("rollback")
  /\ flush.at # "idle"
  /\ flush' = NoFlush
  /\ UNCHANGED <<database, cache, pending, admin, viewer, preload, watched, writes>>

(* The process dies and comes up again; a form that was open is sent to    *)
(* the new one.  It serves requests, and its task runs, while the map is   *)
(* not preloaded yet.                                                      *)
Restart ==
  /\ Happens("restart")
  /\ cache' = [v \in Videos |-> NoVideo]
  /\ pending' = [v \in Videos |-> NoAdder]
  /\ flush' = NoFlush
  /\ admin' = [a \in Admins |-> IF admin[a].at = "asked" THEN admin[a] ELSE NoRequest]
  /\ viewer' = [w \in Viewers |->
                  IF viewer[w].at # "new" THEN [NewRequest EXCEPT !.at = "done"] ELSE viewer[w]]
  /\ preload' = NoPreload("due")
  /\ UNCHANGED <<database, watched, writes>>

(* cache.clear and database.findAll, ... *)
PreloadRead ==
  /\ preload.at = "due"
  /\ cache' = [v \in Videos |-> NoVideo]
  /\ preload' = [at |-> "put", rows |-> row]
  /\ Detach("show", Videos)
  /\ UNCHANGED <<database, pending, flush, admin, history>>

(* ... and a put for each row found. *)
PreloadPut ==
  /\ preload.at = "put"
  /\ cache' = [v \in Videos |-> IF preload.rows[v] # NoVideo THEN preload.rows[v] ELSE cache[v]]
  /\ preload' = NoPreload("done")
  /\ Detach("show", {v \in Videos : preload.rows[v] # NoVideo})
  /\ UNCHANGED <<database, pending, flush, admin, history>>

Next ==
  \/ \E w \in Viewers : Watch(w) \/ Count(w) \/ Look(w) \/ Show(w)
  \/ Flush
  \/ \E a \in Admins : AdminStep(a)
  \/ CascadeDelete
  \/ AdminRollback \/ FlushRollback \/ Restart
  \/ PreloadRead \/ PreloadPut

Spec == Init /\ [][Next]_vars

(* The scheduler starts the task a fixed delay after its last run, also    *)
(* after one that threw; a request that has begun runs on.  Nobody has to  *)
(* watch, edit or look.                                                    *)
Fairness ==
  /\ WF_vars(Flush)
  /\ \A w \in Viewers : WF_vars(Count(w) \/ Show(w))
  /\ \A a \in Admins : WF_vars(Load(a) \/ Refuse(a) \/ Store(a)) /\ WF_vars(Commit(a))
  /\ WF_vars(PreloadRead \/ PreloadPut)

FairSpec == Spec /\ Fairness

-----------------------------------------------------------------------------
(***************************************************************************)
(* Properties                                                              *)
(***************************************************************************)

AModel == [edit : Nat, views : Nat]
FlushRecord == [at : {"idle", "drain", "add", "reload", "prune", "remove"}, todo : SUBSET Videos,
                video : Videos \cup {NoId}, delta : Nat, locked : SUBSET Videos,
                added : [Videos -> Nat]]
AdminRecord == [at : {"idle", "asked", "store", "commit"}, op : {"none", "create", "update", "delete"},
                video : Videos \cup {NoId}, model : AModel]
ViewRecord == [at : {"new", "count", "show", "done"}, video : Videos \cup {NoId},
               attached : BOOLEAN, count : Nat]

(* Every variable holds a value of the kind the code gives it, and whoever *)
(* is about to touch a row or an entry knows which one.                    *)
TypeOK ==
  /\ row \in [Videos -> AModel \cup {NoVideo}]
  /\ used \in SUBSET Videos
  /\ cache \in [Videos -> AModel \cup {NoVideo}]
  /\ pending \in [Videos -> [on : BOOLEAN, sum : Nat]]
  /\ flush \in FlushRecord
  /\ admin \in [Admins -> AdminRecord]
  /\ viewer \in [Viewers -> ViewRecord]
  /\ preload \in [at : {"due", "put", "done"}, rows : [Videos -> AModel \cup {NoVideo}]]
  /\ watched \in [Videos -> Nat]
  /\ writes \in Nat
  /\ faults \in Nat
  /\ flush.at \in {"add", "reload", "remove"} => flush.video # NoId
  /\ \A a \in Admins : admin[a].at \in {"store", "commit"} => admin[a].video # NoId
  /\ \A w \in Viewers : viewer[w].at \in {"count", "show"} => viewer[w].video # NoId

(* What the flush has drained and not yet committed of a video. *)
InFlight(v) == flush.added[v] + (IF flush.video = v THEN flush.delta ELSE 0)

(* However watches, flushes, rollbacks, deletions and restarts interleave, *)
(* a view is counted once at most: in the table, in the flush's            *)
(* transaction or in the buffer.  (Of a video whose form, which carries a  *)
(* count, has not been saved over it: edit = 0.)                           *)
NoViewCountedTwice ==
  \A v \in Videos :
    row[v] # NoVideo /\ row[v].edit = 0 => row[v].views + InFlight(v) + pending[v].sum <= watched[v]

(* Every committed row that nobody is deleting is in the map, for any      *)
(* number of admins at work and whatever the flush reloads: no video the   *)
(* database holds is invisible to the public site, until a transaction     *)
(* fails or the process restarts.                                          *)
ListedWhileStored ==
  faults = 0 => \A v \in Videos :
    row[v] # NoVideo /\ (\A a \in Admins : ~ (admin[a].video = v /\ admin[a].op = "delete"))
      => cache[v] # NoVideo

Quiet ==
  /\ flush.at = "idle"
  /\ \A a \in Admins : admin[a].at \in {"idle", "asked"}
  /\ preload.at = "done"

Unedited(v) == row[v] # NoVideo /\ row[v].edit = 0 /\ cache[v] # NoVideo

(* Whatever GETs have set on the models of the map, the flush puts it      *)
(* right: with every view of a video in the table, the map's count is the  *)
(* table's, so that a GET shows the effective count of                     *)
(* ViewCountService.java:20-21 again; and it is never less.  (When nobody  *)
(* is writing, and until a fault or an edit of the video.)                 *)
CountSettles ==
  Quiet /\ faults = 0 =>
    \A v \in Videos : Unedited(v) =>
      /\ cache[v].views >= row[v].views
      /\ row[v].views = watched[v] => cache[v].views = row[v].views

(* "Prune empty adders so the map doesn't grow without bound"              *)
(* (ViewCountService.java:79): the adder of a video nobody watches goes,   *)
(* which it does only when its views are in the table, or with their row.  *)
BufferIsPruned == \A v \in Videos : pending[v].on ~> ~pending[v].on

-----------------------------------------------------------------------------
(***************************************************************************)
(* What the documentation says, and runs refute                            *)
(***************************************************************************)

(* "Reads return the EFFECTIVE count (persisted + buffered)"               *)
(* (ViewCountService.java:20): the count a GET is about to show is not     *)
(* more than the views there were of the video.                            *)
NoViewShownTwice ==
  \A w \in Viewers :
    LET v == viewer[w].video
    IN  viewer[w].at = "show" /\ Unedited(v) => viewer[w].count + pending[v].sum <= watched[v]

(* The count is readOnly in the CMS (resourceDefinitions.ts:54): saving a  *)
(* form does not change it.                                                *)
EditKeepsCount ==
  [][\A v \in Videos :
       row[v] # NoVideo /\ row'[v] # NoVideo /\ row'[v].edit # row[v].edit
         => row'[v].views = row[v].views]_vars
=============================================================================
