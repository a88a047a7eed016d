--------------------------- MODULE VideoStoreProofs ---------------------------
(***************************************************************************)
(* Theorems about the video map and the view counts, for every number of   *)
(* videos, admins and watches.                                             *)
(***************************************************************************)
EXTENDS StoreAudit, FiniteSetTheorems, TLAPS

(* The rows the flush has locked are there, and it reloads one of them; an *)
(* admin's request is one of those the API has; the model a GET has in     *)
(* hand is in the map.                                                     *)
Located ==
  /\ \A v \in flush.locked : row[v] # NoVideo
  /\ flush.at = "reload" => flush.video \in flush.locked
  /\ \A a \in Admins : admin[a].at # "idle" => admin[a].op \in Writes \ {"none"}
  /\ \A a \in Admins : admin[a].at = "asked" /\ admin[a].op # "create" => admin[a].video # NoId
  /\ \A w \in Viewers : viewer[w].at = "show" /\ viewer[w].attached => cache[viewer[w].video] # NoVideo

TypeInv == TypeOK /\ Located

(* The model of a video has the type of models. *)
LEMMA ModelTyped ==
  ASSUME NEW e \in Nat, NEW n \in Nat PROVE Model(e, n) \in AModel
  BY DEF Model, AModel

LEMMA InitTyped == Init => TypeInv
<1> SUFFICES ASSUME Init PROVE TypeInv
  OBVIOUS
<1>1. Model(0, 0) \in AModel
  BY ModelTyped
<1>2. row \in [Videos -> AModel \cup {NoVideo}]
  BY <1>1 DEF Init
<1>3. flush \in FlushRecord
  BY DEF Init, NoFlush, FlushRecord, Nothing
<1>4. admin \in [Admins -> AdminRecord]
  BY <1>1 DEF Init, NoRequest, AdminRecord
<1>5. viewer \in [Viewers -> ViewRecord]
  BY DEF Init, NewRequest, ViewRecord
<1>6. pending \in [Videos -> [on : BOOLEAN, sum : Nat]]
  BY DEF Init, NoAdder
<1>7. TypeOK
  BY <1>2, <1>3, <1>4, <1>5, <1>6 DEF Init, TypeOK, NoFlush, NoRequest, NewRequest, Nothing, NoPreload
<1>8. Located
  BY DEF Init, Located, NoFlush, NoRequest, NewRequest
<1>9. QED
  BY <1>7, <1>8 DEF TypeInv

-----------------------------------------------------------------------------

(* Requests of viewers: each that is under way knows its video, and what a *)
(* GET has in hand is in the map.                                          *)
ViewersTyped ==
  /\ viewer \in [Viewers -> ViewRecord]
  /\ \A w \in Viewers : viewer[w].at \in {"count", "show"} => viewer[w].video # NoId
  /\ \A w \in Viewers : viewer[w].at = "show" /\ viewer[w].attached => cache[viewer[w].video] # NoVideo

(* A request a viewer's thread can be in. *)
ViewTyped(r) == r \in ViewRecord /\ (r.at \in {"count", "show"} => r.video # NoId)

LEMMA NewRequestTyped ==
  ViewTyped(NewRequest) /\ ViewTyped([NewRequest EXCEPT !.at = "done"])
  BY DEF ViewTyped, NewRequest, ViewRecord

LEMMA ViewUpdate ==
  ASSUME TypeInv, NEW w \in Viewers, NEW r, ViewTyped(r), viewer' = [viewer EXCEPT ![w] = r],
         \A v \in Videos : cache[v] # NoVideo => cache'[v] # NoVideo,
         r.at = "show" => cache[r.video] # NoVideo
  PROVE  ViewersTyped'
<1>1. /\ viewer' \in [Viewers -> ViewRecord]
      /\ \A u \in Viewers : viewer'[u] = IF u = w THEN r ELSE viewer[u]
  BY DEF ViewTyped, TypeInv, TypeOK
<1>2. \A u \in Viewers : viewer'[u].at \in {"count", "show"} => viewer'[u].video # NoId
  BY <1>1 DEF ViewTyped, TypeInv, TypeOK
<1>3. ASSUME NEW u \in Viewers, viewer'[u].at = "show", viewer'[u].attached
      PROVE  cache'[viewer'[u].video] # NoVideo
  <2>1. viewer'[u].video \in Videos
    BY <1>1, <1>2, <1>3 DEF ViewRecord
  <2>2. cache[viewer'[u].video] # NoVideo
    BY <1>1, <1>3 DEF TypeInv, Located
  <2>3. QED
    BY <2>1, <2>2
<1>4. QED
  BY <1>1, <1>2, <1>3 DEF ViewersTyped

(* A step that takes no video out of the map leaves the viewers be. *)
LEMMA ViewersStay ==
  ASSUME TypeInv, UNCHANGED viewer, \A v \in Videos : cache[v] # NoVideo => cache'[v] # NoVideo
  PROVE  ViewersTyped'
<1>1. /\ viewer' \in [Viewers -> ViewRecord]
      /\ \A u \in Viewers : viewer'[u].at \in {"count", "show"} => viewer'[u].video # NoId
  BY DEF TypeInv, TypeOK
<1>2. ASSUME NEW u \in Viewers, viewer'[u].at = "show", viewer'[u].attached
      PROVE  cache'[viewer'[u].video] # NoVideo
  <2>1. viewer'[u].video \in Videos
    BY <1>1, <1>2 DEF ViewRecord
  <2>2. cache[viewer'[u].video] # NoVideo
    BY <1>2 DEF TypeInv, Located
  <2>3. QED
    BY <2>1, <2>2
<1>3. QED
  BY <1>1, <1>2 DEF ViewersTyped

LEMMA ViewerFrame ==
  ASSUME TypeInv, ViewersTyped', UNCHANGED <<row, used, flush, admin, preload, writes, faults>>,
         cache' \in [Videos -> AModel \cup {NoVideo}],
         pending' \in [Videos -> [on : BOOLEAN, sum : Nat]],
         watched' \in [Videos -> Nat]
  PROVE  TypeInv'
<1>1. TypeOK'
  BY DEF TypeInv, TypeOK, ViewersTyped
<1>2. Located'
  BY DEF TypeInv, Located, ViewersTyped
<1>3. QED
  BY <1>1, <1>2 DEF TypeInv

(* A GET sets a count on the model it found: the map keeps its type. *)
LEMMA ShownTyped ==
  ASSUME TypeInv, NEW w \in Viewers, Show(w)
  PROVE  /\ cache' \in [Videos -> AModel \cup {NoVideo}]
         /\ \A u \in Videos : cache[u] # NoVideo => cache'[u] # NoVideo
<1> DEFINE v == viewer[w].video
<1>1. v \in Videos /\ viewer[w].count + pending[v].sum \in Nat
  BY DEF Show, TypeInv, TypeOK, ViewRecord
<1>2. CASE viewer[w].attached
  <2>1. cache[v] \in AModel
    BY <1>1, <1>2 DEF Show, TypeInv, Located, TypeOK
  <2>2. Model(cache[v].edit, viewer[w].count + pending[v].sum) \in AModel
    BY <1>1, <2>1 DEF Model, AModel
  <2>3. cache' = [cache EXCEPT ![v] = Model(cache[v].edit, viewer[w].count + pending[v].sum)]
    BY <1>2 DEF Show
  <2>4. QED
    BY <1>1, <2>2, <2>3, ModelAssumption DEF AModel, TypeInv, TypeOK
<1>3. CASE ~ viewer[w].attached
  BY <1>3 DEF Show, TypeInv, TypeOK
<1>4. QED
  BY <1>2, <1>3 DEF TypeInv, TypeOK, ViewRecord

(* The viewers' steps keep the types. *)
LEMMA ViewerTyped ==
  ASSUME TypeInv, NEW w \in Viewers, Watch(w) \/ Count(w) \/ Look(w) \/ Show(w) PROVE TypeInv'
<1> USE DEF database, history
<1>0. /\ cache \in [Videos -> AModel \cup {NoVideo}]
      /\ pending \in [Videos -> [on : BOOLEAN, sum : Nat]]
      /\ watched \in [Videos -> Nat]
  BY DEF TypeInv, TypeOK
<1>1. CASE Watch(w)
  <2>1. PICK v \in Videos :
          /\ pending' = [pending EXCEPT ![v].on = TRUE]
          /\ viewer' = [viewer EXCEPT ![w] = [at |-> "count", video |-> v, attached |-> TRUE, count |-> 0]]
    BY <1>1 DEF Watch
  <2>2. pending' \in [Videos -> [on : BOOLEAN, sum : Nat]]
    BY <1>0, <2>1
  <2>3. ViewTyped([at |-> "count", video |-> v, attached |-> TRUE, count |-> 0])
    BY IdAssumption DEF ViewTyped, ViewRecord
  <2>4. ViewersTyped'
    BY <1>1, <2>1, <2>3, ViewUpdate DEF Watch
  <2>5. QED
    BY <1>0, <1>1, <2>2, <2>4, ViewerFrame DEF Watch
<1>2. CASE Count(w)
  <2> DEFINE v == viewer[w].video
  <2>1. v \in Videos
    BY <1>2 DEF Count, TypeInv, TypeOK, ViewRecord
  <2>2. pending' = [pending EXCEPT ![v].sum = IF viewer[w].attached THEN pending[v].sum + 1
                                              ELSE pending[v].sum]
    BY <1>2, <2>1 DEF Count, TypeInv, TypeOK
  <2>3. pending' \in [Videos -> [on : BOOLEAN, sum : Nat]]
    BY <1>0, <2>1, <2>2
  <2>4. watched' \in [Videos -> Nat]
    BY <1>0, <1>2, <2>1 DEF Count
  <2>5. ViewersTyped'
    BY <1>2, NewRequestTyped, ViewUpdate DEF Count, Answered, NewRequest
  <2>6. QED
    BY <1>0, <1>2, <2>3, <2>4, <2>5, ViewerFrame DEF Count
<1>3. CASE Look(w)
  <2>1. PICK v \in Videos :
          /\ cache[v] # NoVideo
          /\ viewer' = [viewer EXCEPT ![w] =
               [at |-> "show", video |-> v, attached |-> TRUE, count |-> cache[v].views]]
    BY <1>3 DEF Look
  <2>2. cache[v].views \in Nat
    BY <1>0, <2>1 DEF AModel
  <2>3. ViewTyped([at |-> "show", video |-> v, attached |-> TRUE, count |-> cache[v].views])
    BY <2>2, IdAssumption DEF ViewTyped, ViewRecord
  <2>4. ViewersTyped'
    BY <1>3, <2>1, <2>3, ViewUpdate DEF Look
  <2>5. QED
    BY <1>0, <1>3, <2>4, ViewerFrame DEF Look
<1>4. CASE Show(w)
  <2>1. /\ cache' \in [Videos -> AModel \cup {NoVideo}]
        /\ \A v \in Videos : cache[v] # NoVideo => cache'[v] # NoVideo
    BY <1>4, ShownTyped
  <2>2. ViewersTyped'
    BY <1>4, <2>1, NewRequestTyped, ViewUpdate DEF Show, Answered, NewRequest
  <2>3. QED
    BY <1>0, <1>4, <2>1, <2>2, ViewerFrame DEF Show
<1>5. QED
  BY <1>1, <1>2, <1>3, <1>4

(* Taking a thing out of the hands of requests keeps their types. *)
LEMMA DetachTyped ==
  ASSUME TypeInv, NEW at, NEW S, Detach(at, S),
         \A v \in Videos : (cache[v] # NoVideo => cache'[v] # NoVideo) \/ (at = "show" /\ v \in S)
  PROVE  ViewersTyped'
<1>1. \A w \in Viewers : viewer[w] \in ViewRecord /\ [viewer[w] EXCEPT !.attached = FALSE] \in ViewRecord
  <2>1. ASSUME NEW r \in ViewRecord PROVE [r EXCEPT !.attached = FALSE] \in ViewRecord
    BY DEF ViewRecord
  <2>2. QED
    BY <2>1 DEF TypeInv, TypeOK
<1>2. viewer' \in [Viewers -> ViewRecord]
  BY <1>1 DEF Detach
<1>3. \A w \in Viewers : viewer'[w].at = viewer[w].at /\ viewer'[w].video = viewer[w].video
  <2>1. ASSUME NEW w \in Viewers, NEW r \in ViewRecord
        PROVE  [r EXCEPT !.attached = FALSE].at = r.at /\ [r EXCEPT !.attached = FALSE].video = r.video
    BY DEF ViewRecord
  <2>2. QED
    BY <1>1, <2>1 DEF Detach
<1>4. \A w \in Viewers : viewer'[w].at \in {"count", "show"} => viewer'[w].video # NoId
  BY <1>3 DEF TypeInv, TypeOK
<1>5. ASSUME NEW w \in Viewers, viewer'[w].at = "show", viewer'[w].attached
      PROVE  cache'[viewer'[w].video] # NoVideo
  <2>1. viewer[w].at = "show" /\ viewer[w].video \in Videos
    BY <1>2, <1>3, <1>4, <1>5 DEF ViewRecord
  <2>2. ~ (viewer[w].at = at /\ viewer[w].video \in S) /\ viewer[w].attached
    <3>1. ASSUME NEW r \in ViewRecord PROVE ~ [r EXCEPT !.attached = FALSE].attached
      BY DEF ViewRecord
    <3>2. QED
      BY <1>1, <1>5, <3>1 DEF Detach
  <2>3. cache[viewer[w].video] # NoVideo
    BY <2>1, <2>2 DEF TypeInv, Located
  <2>4. QED
    BY <1>3, <2>1, <2>2, <2>3
<1>6. QED
  BY <1>2, <1>4, <1>5 DEF ViewersTyped

(* Dropping an adder keeps the types of the buffer and of its users. *)
LEMMA DropTyped ==
  ASSUME TypeInv, NEW v \in Videos, DropAdder(v), UNCHANGED cache
  PROVE  pending' \in [Videos -> [on : BOOLEAN, sum : Nat]] /\ ViewersTyped'
<1>1. pending' \in [Videos -> [on : BOOLEAN, sum : Nat]]
  BY DEF DropAdder, NoAdder, TypeInv, TypeOK
<1>2. QED
  BY <1>1, DetachTyped DEF DropAdder

(* What the flush is doing, and that it is the only one that changes. *)
FlushTyped(f) ==
  /\ f \in FlushRecord
  /\ f.at \in {"add", "reload", "remove"} => f.video # NoId
  /\ \A v \in f.locked : row[v] # NoVideo
  /\ f.at = "reload" => f.video \in f.locked

LEMMA FlushFrame ==
  ASSUME TypeInv, FlushTyped(flush'), UNCHANGED <<row, used, admin, preload, watched, writes, faults>>,
         cache' \in [Videos -> AModel \cup {NoVideo}],
         pending' \in [Videos -> [on : BOOLEAN, sum : Nat]],
         ViewersTyped'
  PROVE  TypeInv'
<1>1. TypeOK'
  BY DEF TypeInv, TypeOK, FlushTyped, ViewersTyped
<1>2. Located'
  BY DEF TypeInv, Located, FlushTyped, ViewersTyped
<1>3. QED
  BY <1>1, <1>2 DEF TypeInv

(* A step of the flush that keeps cache, buffer and viewers. *)
LEMMA FlushOnly ==
  ASSUME TypeInv, FlushTyped(flush'),
         UNCHANGED <<row, used, admin, preload, watched, writes, faults, cache, pending, viewer>>
  PROVE  TypeInv'
<1>1. /\ cache' \in [Videos -> AModel \cup {NoVideo}]
      /\ pending' \in [Videos -> [on : BOOLEAN, sum : Nat]]
  BY DEF TypeInv, TypeOK
<1>2. ViewersTyped'
  BY ViewersStay
<1>3. QED
  BY <1>1, <1>2, FlushFrame

LEMMA NoFlushTyped == FlushTyped(NoFlush)
  BY DEF FlushTyped, NoFlush, FlushRecord, Nothing

(* The flush keeps the types. *)
LEMMA FlushStepTyped ==
  ASSUME TypeInv, Flush PROVE TypeInv'
<1> USE DEF database, history
<1>0. FlushTyped(flush)
  BY DEF TypeInv, TypeOK, Located, FlushTyped
<1>1. CASE FlushBegin
  <2>1. FlushTyped([flush EXCEPT !.at = "drain", !.todo = Buffered])
    BY <1>0 DEF FlushTyped, FlushRecord, Buffered
  <2>2. FlushTyped(flush')
    BY <1>0, <1>1, <2>1 DEF FlushBegin
  <2>3. QED
    BY <1>1, <2>2, FlushOnly DEF FlushBegin
<1>2. CASE Drain
  <2>1. PICK v \in flush.todo :
          /\ flush' = IF pending[v].sum = 0
                      THEN [flush EXCEPT !.todo = flush.todo \ {v}]
                      ELSE [flush EXCEPT !.todo = flush.todo \ {v}, !.at = "add", !.video = v,
                                         !.delta = pending[v].sum]
          /\ pending' = [pending EXCEPT ![v].sum = 0]
    BY <1>2 DEF Drain
  <2>2. v \in Videos /\ flush.at = "drain"
    BY <1>0, <1>2 DEF Drain, FlushTyped, FlushRecord
  <2>3. pending[v].sum \in Nat /\ pending' \in [Videos -> [on : BOOLEAN, sum : Nat]]
    BY <2>1, <2>2 DEF TypeInv, TypeOK
  <2>4. FlushTyped([flush EXCEPT !.todo = flush.todo \ {v}])
    BY <1>0, <2>2 DEF FlushTyped, FlushRecord
  <2>5. FlushTyped([flush EXCEPT !.todo = flush.todo \ {v}, !.at = "add", !.video = v,
                                 !.delta = pending[v].sum])
    BY <1>0, <2>2, <2>3, IdAssumption DEF FlushTyped, FlushRecord
  <2>6. FlushTyped(flush')
    BY <2>1, <2>4, <2>5
  <2>7. cache' \in [Videos -> AModel \cup {NoVideo}]
    BY <1>2 DEF Drain, TypeInv, TypeOK
  <2>8. ViewersTyped'
    BY <1>2, ViewersStay DEF Drain
  <2>9. QED
    BY <1>2, <2>3, <2>6, <2>7, <2>8, FlushFrame DEF Drain
<1>3. CASE AddViews
  <2> DEFINE v == flush.video
  <2>1. v \in Videos /\ flush.delta \in Nat /\ row[v] # NoVideo
    BY <1>0, <1>3 DEF AddViews, FlushTyped, FlushRecord
  <2>2. [flush.added EXCEPT ![v] = flush.added[v] + flush.delta] \in [Videos -> Nat]
    BY <1>0, <2>1 DEF FlushTyped, FlushRecord
  <2>3. FlushTyped([flush EXCEPT !.at = "reload", !.delta = 0, !.locked = flush.locked \cup {v},
                                 !.added = [flush.added EXCEPT ![v] = flush.added[v] + flush.delta]])
    BY <1>0, <2>1, <2>2, IdAssumption DEF FlushTyped, FlushRecord
  <2>4. flush' = [flush EXCEPT !.at = "reload", !.delta = 0, !.locked = flush.locked \cup {v},
                               !.added = [flush.added EXCEPT ![v] = flush.added[v] + flush.delta]]
    BY <1>3 DEF AddViews
  <2>5. QED
    BY <1>3, <2>3, <2>4, FlushOnly DEF AddViews
<1>4. CASE AddNowhere \/ PruneRemove
  <2>1. flush.video \in Videos /\ DropAdder(flush.video)
    BY <1>0, <1>4 DEF AddNowhere, PruneRemove, FlushTyped, FlushRecord
  <2>2. PICK at \in {"drain", "prune"}, d \in {0, flush.delta} :
          flush' = [flush EXCEPT !.at = at, !.video = NoId, !.delta = d]
    <3>1. CASE AddNowhere
      BY <3>1 DEF AddNowhere
    <3>2. CASE PruneRemove
      <4>1. [flush EXCEPT !.at = "prune", !.video = NoId]
              = [flush EXCEPT !.at = "prune", !.video = NoId, !.delta = flush.delta]
        BY <1>0 DEF FlushTyped, FlushRecord
      <4>2. QED
        BY <3>2, <4>1 DEF PruneRemove
    <3>3. QED
      BY <1>4, <3>1, <3>2
  <2> DEFINE f == [flush EXCEPT !.at = at, !.video = NoId, !.delta = d]
  <2>3. flush \in FlushRecord /\ d \in Nat
    BY <1>0, <2>2 DEF FlushTyped, FlushRecord
  <2>4. f \in FlushRecord /\ f.at = at /\ f.locked = flush.locked
    BY <2>3 DEF FlushRecord
  <2>5. FlushTyped(flush')
    BY <1>0, <2>2, <2>4 DEF FlushTyped
  <2>6. cache' \in [Videos -> AModel \cup {NoVideo}]
    BY <1>4 DEF AddNowhere, PruneRemove, TypeInv, TypeOK
  <2>7. QED
    BY <1>4, <2>1, <2>5, <2>6, DropTyped, FlushFrame DEF AddNowhere, PruneRemove
<1>5. CASE Reload
  <2> DEFINE v == flush.video
  <2>1. v \in Videos /\ row[v] \in AModel
    BY <1>0, <1>5 DEF Reload, FlushTyped, FlushRecord, TypeInv, TypeOK
  <2>2. Model(row[v].edit, row[v].views + flush.added[v]) \in AModel
    <3>1. row[v].edit \in Nat /\ row[v].views \in Nat /\ flush.added[v] \in Nat
      BY <1>0, <2>1 DEF AModel, FlushTyped, FlushRecord
    <3>2. QED
      BY <3>1 DEF Model, AModel
  <2>3. cache' \in [Videos -> AModel \cup {NoVideo}]
    BY <1>5, <2>2 DEF Reload, TypeInv, TypeOK
  <2>4. FlushTyped(flush')
    BY <1>0, <1>5 DEF Reload, FlushTyped, FlushRecord
  <2>5. pending' \in [Videos -> [on : BOOLEAN, sum : Nat]]
    BY <1>5 DEF Reload, TypeInv, TypeOK
  <2>6. ViewersTyped'
    BY <1>5, DetachTyped DEF Reload, TypeInv, TypeOK
  <2>7. QED
    BY <1>5, <2>3, <2>4, <2>5, <2>6, FlushFrame DEF Reload
<1>6. CASE PruneBegin
  <2>1. FlushTyped(flush')
    BY <1>0, <1>6 DEF PruneBegin, FlushTyped, FlushRecord, Buffered
  <2>2. QED
    BY <1>6, <2>1, FlushOnly DEF PruneBegin
<1>7. CASE PruneTest
  <2>1. PICK v \in flush.todo :
          flush' = IF pending[v].on /\ pending[v].sum = 0
                   THEN [flush EXCEPT !.todo = flush.todo \ {v}, !.at = "remove", !.video = v]
                   ELSE [flush EXCEPT !.todo = flush.todo \ {v}]
    BY <1>7 DEF PruneTest
  <2>2. v \in Videos
    BY <1>0 DEF FlushTyped, FlushRecord
  <2>3. /\ FlushTyped([flush EXCEPT !.todo = flush.todo \ {v}, !.at = "remove", !.video = v])
        /\ FlushTyped([flush EXCEPT !.todo = flush.todo \ {v}])
    BY <1>0, <2>2, IdAssumption DEF FlushTyped, FlushRecord
  <2>4. FlushTyped(flush')
    BY <2>1, <2>3
  <2>5. QED
    BY <1>7, <2>4, FlushOnly DEF PruneTest
<1>8. CASE FlushCommit
  <2>1. \A v \in Videos :
          (IF v \in flush.locked THEN Model(row[v].edit, row[v].views + flush.added[v]) ELSE row[v])
            \in AModel \cup {NoVideo}
    <3> SUFFICES ASSUME NEW v \in Videos, v \in flush.locked
                 PROVE  Model(row[v].edit, row[v].views + flush.added[v]) \in AModel
      BY DEF TypeInv, TypeOK
    <3>1. row[v] \in AModel /\ flush.added[v] \in Nat
      BY <1>0 DEF FlushTyped, FlushRecord, TypeInv, TypeOK
    <3>2. row[v].edit \in Nat /\ row[v].views \in Nat
      BY <3>1 DEF AModel
    <3>3. QED
      BY <3>1, <3>2 DEF Model, AModel
  <2>2. row' \in [Videos -> AModel \cup {NoVideo}]
    BY <1>8, <2>1 DEF FlushCommit
  <2>3. TypeOK'
    BY <1>8, <2>2, NoFlushTyped DEF FlushCommit, TypeInv, TypeOK, FlushTyped
  <2>4. Located'
    BY <1>8 DEF FlushCommit, NoFlush, TypeInv, Located
  <2>5. QED
    BY <2>3, <2>4 DEF TypeInv
<1>9. QED
  BY <1>1, <1>2, <1>3, <1>4, <1>5, <1>6, <1>7, <1>8 DEF Flush

-----------------------------------------------------------------------------

(* A request an admin's thread can be in. *)
RequestTyped(r) ==
  /\ r \in AdminRecord
  /\ r.at \in {"store", "commit"} => r.video # NoId
  /\ r.at # "idle" => r.op \in Writes \ {"none"}
  /\ r.at = "asked" /\ r.op # "create" => r.video # NoId

LEMMA AdminUpdate ==
  ASSUME TypeInv, NEW a \in Admins, NEW r, RequestTyped(r), admin' = [admin EXCEPT ![a] = r]
  PROVE  /\ admin' \in [Admins -> AdminRecord]
         /\ \A b \in Admins : RequestTyped(admin'[b])
<1>1. \A b \in Admins : RequestTyped(admin[b])
  BY DEF RequestTyped, TypeInv, TypeOK, Located
<1>2. admin' \in [Admins -> AdminRecord]
  BY DEF RequestTyped, TypeInv, TypeOK
<1>3. \A b \in Admins : admin'[b] = IF b = a THEN r ELSE admin[b]
  BY DEF TypeInv, TypeOK
<1>4. QED
  BY <1>1, <1>2, <1>3

LEMMA AdminFrame ==
  ASSUME TypeInv, UNCHANGED <<pending, flush, preload, watched>>, ViewersTyped',
         admin' \in [Admins -> AdminRecord],
         \A b \in Admins : RequestTyped(admin'[b]),
         row' \in [Videos -> AModel \cup {NoVideo}],
         \A v \in flush.locked : row'[v] # NoVideo,
         used' \in SUBSET Videos,
         cache' \in [Videos -> AModel \cup {NoVideo}],
         writes' \in Nat, faults' \in Nat
  PROVE  TypeInv'
<1>1. TypeOK'
  BY DEF TypeInv, TypeOK, RequestTyped, ViewersTyped
<1>2. Located'
  BY DEF TypeInv, Located, RequestTyped, ViewersTyped
<1>3. QED
  BY <1>1, <1>2 DEF TypeInv

(* A step of a request that changes the request and counts writes only. *)
LEMMA AdminOnly ==
  ASSUME TypeInv, NEW a \in Admins, NEW r, RequestTyped(r), admin' = [admin EXCEPT ![a] = r],
         UNCHANGED <<row, cache, pending, flush, viewer, preload, watched>>,
         used' \in SUBSET Videos, writes' \in Nat, faults' \in Nat
  PROVE  TypeInv'
<1>1. /\ row' \in [Videos -> AModel \cup {NoVideo}]
      /\ cache' \in [Videos -> AModel \cup {NoVideo}]
      /\ \A v \in flush.locked : row'[v] # NoVideo
  BY DEF TypeInv, TypeOK, Located
<1>2. ViewersTyped'
  BY ViewersStay
<1>3. QED
  BY <1>1, <1>2, AdminUpdate, AdminFrame

LEMMA NoRequestTyped == RequestTyped(NoRequest)
  BY ModelTyped DEF RequestTyped, NoRequest, AdminRecord

LEMMA AskTyped ==
  ASSUME TypeInv, NEW a \in Admins, NEW op \in {"create", "update", "delete"},
         NEW v \in Videos \cup {NoId}, NEW m \in AModel, Ask(a, op, v, m),
         op # "create" => v # NoId
  PROVE  TypeInv'
<1>1. RequestTyped([at |-> "asked", op |-> op, video |-> v, model |-> m])
  BY DEF Ask, RequestTyped, AdminRecord
<1>2. writes' \in Nat /\ faults' \in Nat /\ used' \in SUBSET Videos
  BY DEF Ask, TypeInv, TypeOK, database
<1>3. QED
  BY <1>1, <1>2, AdminOnly DEF Ask, database

(* The steps of a request keep the types. *)
LEMMA AdminStepTyped ==
  ASSUME TypeInv, NEW a \in Admins, AdminStep(a) PROVE TypeInv'
<1> USE DEF database, history
<1>0. RequestTyped(admin[a]) /\ used \in SUBSET Videos /\ writes \in Nat /\ faults \in Nat
  BY DEF TypeInv, TypeOK, Located, RequestTyped
<1>1. CASE AskUpdate(a) \/ AskDelete(a) \/ AskCreate(a)
  <2>1. CASE AskUpdate(a)
    <3>1. PICK v \in Videos : cache[v] # NoVideo /\ Ask(a, "update", v, Model(writes + 1, cache[v].views))
      BY <2>1 DEF AskUpdate
    <3>2. cache[v] \in AModel
      BY <3>1 DEF TypeInv, TypeOK
    <3>3. Model(writes + 1, cache[v].views) \in AModel
      BY <1>0, <3>2 DEF Model, AModel
    <3>4. QED
      BY <3>1, <3>3, AskTyped, IdAssumption
  <2>2. CASE AskDelete(a)
    <3>1. PICK v \in Videos : cache[v] # NoVideo /\ Ask(a, "delete", v, cache[v])
      BY <2>2 DEF AskDelete
    <3>2. cache[v] \in AModel
      BY <3>1 DEF TypeInv, TypeOK
    <3>3. QED
      BY <3>1, <3>2, AskTyped, IdAssumption
  <2>3. CASE AskCreate(a)
    <3>1. Model(0, 0) \in AModel
      BY <1>0 DEF Model, AModel
    <3>2. QED
      BY <2>3, <3>1, AskTyped DEF AskCreate
  <2>4. QED
    BY <1>1, <2>1, <2>2, <2>3
<1>2. CASE Load(a)
  <2>1. CASE admin[a].op # "create"
    <3>1. admin' = [admin EXCEPT ![a] = [admin[a] EXCEPT !.at = "store"]] /\ used' = used
      BY <1>2, <2>1 DEF Load, Goto
    <3>2. admin[a].video # NoId
      BY <1>0, <1>2, <2>1 DEF Load, RequestTyped
    <3>3. RequestTyped([admin[a] EXCEPT !.at = "store"])
      BY <1>0, <1>2, <3>2 DEF Load, RequestTyped, AdminRecord
    <3>4. QED
      BY <1>0, <1>2, <3>1, <3>3, AdminOnly DEF Load
  <2>2. CASE admin[a].op = "create"
    <3>1. PICK v \in Videos : /\ used' = used \cup {v}
                              /\ admin' = [admin EXCEPT ![a] = [admin[a] EXCEPT !.at = "store", !.video = v]]
      BY <1>2, <2>2 DEF Load
    <3>2. RequestTyped([admin[a] EXCEPT !.at = "store", !.video = v])
      BY <1>0, <1>2, IdAssumption DEF Load, RequestTyped, AdminRecord
    <3>3. QED
      BY <1>0, <1>2, <3>1, <3>2, AdminOnly DEF Load
  <2>3. QED
    BY <2>1, <2>2
<1>3. CASE Refuse(a)
  BY <1>0, <1>3, NoRequestTyped, AdminOnly DEF Refuse
<1>4. CASE Store(a)
  <2>1. RequestTyped([admin[a] EXCEPT !.at = "commit"])
    BY <1>0, <1>4 DEF Store, RequestTyped, AdminRecord
  <2>2. cache' \in [Videos -> AModel \cup {NoVideo}]
    BY <1>0, <1>4 DEF Store, RequestTyped, AdminRecord, TypeInv, TypeOK
  <2>3. /\ admin' \in [Admins -> AdminRecord]
        /\ \A b \in Admins : RequestTyped(admin'[b])
    BY <1>4, <2>1, AdminUpdate DEF Store, Goto
  <2>4. /\ row' \in [Videos -> AModel \cup {NoVideo}]
        /\ \A v \in flush.locked : row'[v] # NoVideo
        /\ used' \in SUBSET Videos
    BY <1>4 DEF Store, TypeInv, TypeOK, Located
  <2>5. ViewersTyped'
    BY <1>4, DetachTyped DEF Store, TypeInv, TypeOK
  <2>6. QED
    BY <1>0, <1>4, <2>2, <2>3, <2>4, <2>5, AdminFrame DEF Store
<1>5. CASE Commit(a)
  <2> DEFINE v == admin[a].video
  <2>1. admin[a].model \in AModel
    BY <1>0 DEF RequestTyped, AdminRecord
  <2>2. row' = row \/ \E m \in AModel \cup {NoVideo} : row' = [row EXCEPT ![v] = m]
    BY <1>5, <2>1 DEF Commit
  <2>3. /\ row' \in [Videos -> AModel \cup {NoVideo}]
        /\ \A u \in flush.locked : row'[u] # NoVideo
    BY <1>5, <2>2 DEF Commit, TypeInv, TypeOK, Located, FlushRecord
  <2>4. /\ admin' \in [Admins -> AdminRecord]
        /\ \A b \in Admins : RequestTyped(admin'[b])
    BY <1>5, NoRequestTyped, AdminUpdate DEF Commit
  <2>5. cache' \in [Videos -> AModel \cup {NoVideo}] /\ used' \in SUBSET Videos
    BY <1>5 DEF Commit, TypeInv, TypeOK
  <2>6. ViewersTyped'
    BY <1>5, ViewersStay DEF Commit
  <2>7. QED
    BY <1>0, <1>5, <2>3, <2>4, <2>5, <2>6, AdminFrame DEF Commit
<1>6. QED
  BY <1>1, <1>2, <1>3, <1>4, <1>5 DEF AdminStep

-----------------------------------------------------------------------------

(* The cascade and the preload keep the types. *)
LEMMA OtherTyped ==
  ASSUME TypeInv, CascadeDelete \/ PreloadRead \/ PreloadPut PROVE TypeInv'
<1> USE DEF database, history
<1>1. CASE CascadeDelete
  <2>1. row' \in [Videos -> AModel \cup {NoVideo}] /\ \A v \in flush.locked : row'[v] # NoVideo
    BY <1>1 DEF CascadeDelete, TypeInv, TypeOK, Located
  <2>2. ViewersTyped'
    BY <1>1, ViewersStay DEF CascadeDelete
  <2>3. QED
    BY <1>1, <2>1, <2>2 DEF CascadeDelete, TypeInv, TypeOK, Located, ViewersTyped
<1>2. CASE PreloadRead
  <2>1. preload' \in [at : {"due", "put", "done"}, rows : [Videos -> AModel \cup {NoVideo}]]
    BY <1>2 DEF PreloadRead, TypeInv, TypeOK
  <2>2. cache' \in [Videos -> AModel \cup {NoVideo}]
    BY <1>2 DEF PreloadRead
  <2>3. ViewersTyped'
    BY <1>2, DetachTyped DEF PreloadRead
  <2>4. TypeOK'
    BY <1>2, <2>1, <2>2, <2>3 DEF PreloadRead, TypeInv, TypeOK, ViewersTyped
  <2>5. Located'
    BY <1>2, <2>3 DEF PreloadRead, TypeInv, Located, ViewersTyped
  <2>6. QED
    BY <2>4, <2>5 DEF TypeInv
<1>3. CASE PreloadPut
  <2>1. preload' \in [at : {"due", "put", "done"}, rows : [Videos -> AModel \cup {NoVideo}]]
    BY <1>3 DEF PreloadPut, NoPreload
  <2>2. cache' \in [Videos -> AModel \cup {NoVideo}]
    BY <1>3 DEF PreloadPut, TypeInv, TypeOK
  <2>3. ViewersTyped'
    BY <1>3, DetachTyped DEF PreloadPut
  <2>4. TypeOK'
    BY <1>3, <2>1, <2>2, <2>3 DEF PreloadPut, TypeInv, TypeOK, ViewersTyped
  <2>5. Located'
    BY <1>3, <2>3 DEF PreloadPut, TypeInv, Located, ViewersTyped
  <2>6. QED
    BY <2>4, <2>5 DEF TypeInv
<1>4. QED
  BY <1>1, <1>2, <1>3

(* Rollbacks and restarts keep the types. *)
LEMMA FaultTyped ==
  ASSUME TypeInv, AdminRollback \/ FlushRollback \/ Restart PROVE TypeInv'
<1> USE DEF database, history
<1>1. CASE AdminRollback
  <2>1. PICK a \in Admins : admin' = [admin EXCEPT ![a] = NoRequest]
    BY <1>1 DEF AdminRollback
  <2>2. writes' \in Nat /\ faults' \in Nat /\ used' \in SUBSET Videos
    BY <1>1 DEF AdminRollback, Happens, TypeInv, TypeOK
  <2>3. QED
    BY <1>1, <2>1, <2>2, NoRequestTyped, AdminOnly DEF AdminRollback
<1>2. CASE FlushRollback
  <2>1. faults' \in Nat
    BY <1>2 DEF FlushRollback, Happens, TypeInv, TypeOK
  <2>2. TypeOK'
    BY <1>2, <2>1, NoFlushTyped DEF FlushRollback, TypeInv, TypeOK, FlushTyped
  <2>3. Located'
    BY <1>2 DEF FlushRollback, NoFlush, TypeInv, Located
  <2>4. QED
    BY <2>2, <2>3 DEF TypeInv
<1>3. CASE Restart
  <2>1. faults' \in Nat /\ preload' \in [at : {"due", "put", "done"}, rows : [Videos -> AModel \cup {NoVideo}]]
    BY <1>3 DEF Restart, NoPreload, Happens, TypeInv, TypeOK
  <2>2. /\ cache' \in [Videos -> AModel \cup {NoVideo}]
        /\ pending' \in [Videos -> [on : BOOLEAN, sum : Nat]]
    BY <1>3 DEF Restart, NoAdder
  <2>3. \A a \in Admins : RequestTyped(admin'[a]) /\ admin'[a] \in AdminRecord
    BY <1>3, NoRequestTyped DEF Restart, RequestTyped, TypeInv, TypeOK, Located
  <2>4. admin' \in [Admins -> AdminRecord]
    <3>1. admin' = [a \in Admins |-> IF admin[a].at = "asked" THEN admin[a] ELSE NoRequest]
      BY <1>3 DEF Restart
    <3>2. QED
      BY <3>1, NoRequestTyped DEF RequestTyped, TypeInv, TypeOK
  <2>5. \A w \in Viewers : viewer'[w] \in ViewRecord /\ viewer'[w].at \notin {"count", "show"}
    <3>1. [NewRequest EXCEPT !.at = "done"] \in ViewRecord /\ [NewRequest EXCEPT !.at = "done"].at = "done"
      BY DEF NewRequest, ViewRecord
    <3>2. \A w \in Viewers : viewer[w] \in ViewRecord
      BY DEF TypeInv, TypeOK
    <3>3. \A w \in Viewers :
            viewer'[w] = IF viewer[w].at # "new" THEN [NewRequest EXCEPT !.at = "done"] ELSE viewer[w]
      BY <1>3 DEF Restart
    <3>4. QED
      BY <3>1, <3>2, <3>3
  <2>6. viewer' \in [Viewers -> ViewRecord]
    <3>1. viewer' = [w \in Viewers |->
            IF viewer[w].at # "new" THEN [NewRequest EXCEPT !.at = "done"] ELSE viewer[w]]
      BY <1>3 DEF Restart
    <3>2. viewer' = [w \in Viewers |-> viewer'[w]]
      BY <3>1
    <3>3. QED
      BY <2>5, <3>2
  <2>7. TypeOK'
    BY <1>3, <2>1, <2>2, <2>3, <2>4, <2>5, <2>6, NoFlushTyped
       DEF Restart, TypeInv, TypeOK, FlushTyped, RequestTyped
  <2>8. Located'
    BY <1>3, <2>3, <2>5 DEF Restart, NoFlush, Located, RequestTyped
  <2>9. QED
    BY <2>7, <2>8 DEF TypeInv
<1>4. QED
  BY <1>1, <1>2, <1>3

LEMMA StepTyped == TypeInv /\ [Next]_vars => TypeInv'
<1> SUFFICES ASSUME TypeInv, [Next]_vars PROVE TypeInv'
  OBVIOUS
<1>1. CASE UNCHANGED vars
  BY <1>1 DEF vars, TypeInv, TypeOK, Located
<1>2. CASE Next
  BY <1>2, ViewerTyped, FlushStepTyped, AdminStepTyped, OtherTyped, FaultTyped DEF Next
<1>3. QED
  BY <1>1, <1>2

LEMMA TypeInvariant == Spec => []TypeInv
  BY InitTyped, StepTyped, PTL DEF Spec

(* The maps, buffers, transactions and requests hold what the code puts in *)
(* them: a row reloaded, counted or written is one that its holder knows.  *)
THEOREM TypeCorrect == Spec => []TypeOK
<1>1. TypeInv => TypeOK
  BY DEF TypeInv
<1>2. QED
  BY <1>1, TypeInvariant, PTL

(* A GET changes counts in the map and nothing else.                       *)
LEMMA LookMoves ==
  ASSUME TypeInv, NEW w \in Viewers, Look(w) \/ Show(w)
  PROVE  /\ UNCHANGED <<row, used, pending, flush, admin, preload, watched, writes, faults>>
         /\ \A v \in Videos : /\ cache'[v] = NoVideo <=> cache[v] = NoVideo
                              /\ cache'[v].edit = cache[v].edit
<1> USE DEF database, history
<1>1. CASE Look(w) \/ ~ viewer[w].attached
  BY <1>1 DEF Look, Show
<1>2. CASE Show(w) /\ viewer[w].attached
  <2> DEFINE v == viewer[w].video
             m == Model(cache[v].edit, viewer[w].count + pending[v].sum)
  <2>1. v \in Videos /\ cache[v] \in AModel /\ viewer[w].count + pending[v].sum \in Nat
    BY <1>2 DEF Show, TypeInv, TypeOK, Located, ViewRecord
  <2>2. m # NoVideo /\ m.edit = cache[v].edit
    BY <2>1, ModelAssumption DEF Model, AModel
  <2>3. cache' = [cache EXCEPT ![v] = m]
    BY <1>2 DEF Show
  <2>4. \A u \in Videos : cache'[u] = IF u = v THEN m ELSE cache[u]
    BY <2>3 DEF TypeInv, TypeOK
  <2>5. cache[v] # NoVideo
    BY <2>1, ModelAssumption DEF AModel
  <2>6. \A u \in Videos : (cache'[u] = NoVideo <=> cache[u] = NoVideo) /\ cache'[u].edit = cache[u].edit
    BY <2>2, <2>4, <2>5
  <2>7. QED
    BY <1>2, <2>6 DEF Show
<1>3. QED
  BY <1>1, <1>2

-----------------------------------------------------------------------------
(***************************************************************************)
(* A view is counted at most once.  The invariant also speaks of videos    *)
(* whose row is gone or not there yet: a drained sum outlives its row, and *)
(* a row that is created starts from what is already buffered.             *)
(***************************************************************************)

(* The views of a video as created: what an edit wrote is not counted. *)
Views(model) == IF model = NoVideo \/ model.edit # 0 THEN 0 ELSE model.views

Tally(v) == Views(row[v]) + InFlight(v) + pending[v].sum

(* A flush holds a drained sum only until it is added; the form of a new   *)
(* video has no views, and that of an old one makes it an edited one.      *)
CountInv ==
  /\ \A v \in Videos : Tally(v) <= watched[v]
  /\ flush.at # "add" => flush.delta = 0
  /\ \A a \in Admins : admin[a].op # "delete" => Views(admin[a].model) = 0

(* The parts of a video's tally are numbers. *)
LEMMA TallyTyped ==
  ASSUME TypeInv, NEW v \in Videos
  PROVE  /\ Views(row[v]) \in Nat /\ flush.added[v] \in Nat /\ flush.delta \in Nat
         /\ InFlight(v) \in Nat /\ pending[v].sum \in Nat /\ watched[v] \in Nat
<1>1. Views(row[v]) \in Nat
  BY DEF TypeInv, TypeOK, Views, AModel
<1>2. flush.added[v] \in Nat /\ flush.delta \in Nat
  BY DEF TypeInv, TypeOK, FlushRecord
<1>3. QED
  BY <1>1, <1>2 DEF TypeInv, TypeOK, InFlight

(* A step that adds to no part of a tally keeps the invariant. *)
LEMMA CountFrame ==
  ASSUME TypeInv, TypeInv', CountInv, UNCHANGED <<watched, flush>>,
         \A v \in Videos : Views(row'[v]) <= Views(row[v]) /\ pending'[v].sum <= pending[v].sum,
         \A a \in Admins : admin'[a].op # "delete" => Views(admin'[a].model) = 0
  PROVE  CountInv'
<1>1. ASSUME NEW v \in Videos PROVE Tally(v)' <= watched'[v]
  <2>1. /\ InFlight(v)' = InFlight(v)
        /\ Tally(v) <= watched[v] /\ watched'[v] = watched[v]
    BY DEF CountInv, InFlight
  <2>2. Views(row'[v]) \in Nat /\ pending'[v].sum \in Nat
    BY DEF TypeInv, TypeOK, Views, AModel
  <2>3. QED
    BY <2>1, <2>2, TallyTyped DEF Tally
<1>2. QED
  BY <1>1 DEF CountInv

(* A step of the flush, a rollback or a restart keeps the invariant when   *)
(* no tally grows.                                                         *)
LEMMA TallyFrame ==
  ASSUME CountInv, UNCHANGED watched,
         \A v \in Videos : Tally(v)' <= Tally(v) /\ Tally(v)' \in Nat /\ Tally(v) \in Nat /\ watched[v] \in Nat,
         flush'.at # "add" => flush'.delta = 0,
         \A a \in Admins : admin'[a].op # "delete" => Views(admin'[a].model) = 0
  PROVE  CountInv'
<1>1. ASSUME NEW v \in Videos PROVE Tally(v)' <= watched'[v]
  BY DEF CountInv
<1>2. QED
  BY <1>1 DEF CountInv

(* A flush that starts over holds nothing. *)
LEMMA EmptyFlushCounts ==
  ASSUME TypeInv, TypeInv', CountInv, UNCHANGED watched, flush' = NoFlush,
         \A v \in Videos : Views(row'[v]) <= Views(row[v]) + flush.added[v] /\ pending'[v].sum <= pending[v].sum,
         \A a \in Admins : admin'[a].op # "delete" => Views(admin'[a].model) = 0
  PROVE  CountInv'
<1>1. ASSUME NEW v \in Videos
      PROVE  Tally(v)' <= Tally(v) /\ Tally(v)' \in Nat /\ Tally(v) \in Nat /\ watched[v] \in Nat
  <2>1. InFlight(v)' = 0
    BY IdAssumption DEF InFlight, NoFlush, Nothing
  <2>2. Views(row'[v]) \in Nat /\ pending'[v].sum \in Nat
    BY DEF TypeInv, TypeOK, Views, AModel
  <2>3. InFlight(v) \in Nat /\ InFlight(v) >= flush.added[v] /\ flush.added[v] \in Nat
    BY TallyTyped DEF InFlight
  <2>4. QED
    BY <2>1, <2>2, <2>3, TallyTyped DEF Tally
<1>2. flush'.delta = 0
  BY DEF NoFlush
<1>3. QED
  BY <1>1, <1>2, TallyFrame

(* A step of the flush that goes on keeps the invariant when no tally      *)
(* grows: rows, watches and requests stay.                                 *)
LEMMA FlushCounts ==
  ASSUME TypeInv, TypeInv', CountInv, UNCHANGED <<watched, row, admin>>,
         \A v \in Videos : InFlight(v)' + pending'[v].sum <= InFlight(v) + pending[v].sum,
         flush'.at # "add" => flush'.delta = 0
  PROVE  CountInv'
<1>1. ASSUME NEW v \in Videos
      PROVE  Tally(v)' <= Tally(v) /\ Tally(v)' \in Nat /\ Tally(v) \in Nat /\ watched[v] \in Nat
  <2>1. pending'[v].sum \in Nat /\ flush'.added[v] \in Nat /\ flush'.delta \in Nat
    BY DEF TypeInv, TypeOK, FlushRecord
  <2>2. InFlight(v)' \in Nat
    BY <2>1 DEF InFlight
  <2>3. QED
    BY <2>1, <2>2, TallyTyped DEF Tally
<1>2. \A a \in Admins : admin'[a].op # "delete" => Views(admin'[a].model) = 0
  BY DEF CountInv
<1>3. QED
  BY <1>1, <1>2, TallyFrame

(* Watching: every view that is counted has been watched. *)
LEMMA ViewerCounts ==
  ASSUME TypeInv, TypeInv', CountInv, NEW w \in Viewers, Watch(w) \/ Count(w) \/ Look(w) \/ Show(w)
  PROVE  CountInv'
<1> USE DEF database, history
<1>1. CASE Watch(w)
  <2>1. \A v \in Videos : pending'[v].sum = pending[v].sum /\ pending[v].sum \in Nat
    BY <1>1 DEF Watch, TypeInv, TypeOK
  <2>2. \A v \in Videos : Views(row'[v]) <= Views(row[v]) /\ pending'[v].sum <= pending[v].sum
    BY <1>1, <2>1, TallyTyped DEF Watch
  <2>3. QED
    BY <1>1, <2>2, CountFrame DEF Watch, CountInv
<1>2. CASE Count(w)
  <2>1. ASSUME NEW v \in Videos PROVE Tally(v)' <= watched'[v]
    <3>1. /\ Views(row'[v]) = Views(row[v]) /\ InFlight(v)' = InFlight(v)
          /\ Tally(v) <= watched[v]
      BY <1>2 DEF Count, CountInv, InFlight
    <3>2. /\ pending'[v].sum \in {pending[v].sum, pending[v].sum + 1}
          /\ watched'[v] = IF v = viewer[w].video THEN watched[v] + 1 ELSE watched[v]
          /\ v # viewer[w].video => pending'[v].sum = pending[v].sum
      BY <1>2 DEF Count, TypeInv, TypeOK
    <3>3. QED
      BY <3>1, <3>2, TallyTyped DEF Tally
  <2>2. QED
    BY <1>2, <2>1 DEF Count, CountInv
<1>3. CASE Look(w) \/ Show(w)
  <2>1. UNCHANGED <<row, used, pending, flush, admin, preload, watched, writes, faults>>
    BY <1>3, LookMoves
  <2>2. \A v \in Videos : Views(row'[v]) <= Views(row[v]) /\ pending'[v].sum <= pending[v].sum
    BY <2>1, TallyTyped
  <2>3. QED
    BY <2>1, <2>2, CountFrame DEF CountInv
<1>4. QED
  BY <1>1, <1>2, <1>3

(* Flushing: what leaves the buffer is added at most once. *)
LEMMA FlushStepCounts ==
  ASSUME TypeInv, TypeInv', CountInv, Flush PROVE CountInv'
<1> USE DEF database, history
<1>0. flush \in FlushRecord /\ flush.added \in [Videos -> Nat] /\ flush.delta \in Nat
  BY DEF TypeInv, TypeOK, FlushRecord
<1>1. CASE FlushBegin \/ PruneBegin \/ PruneTest \/ Reload
  <2>1. flush.at # "add" /\ flush.delta = 0 /\ UNCHANGED pending
    BY <1>1 DEF FlushBegin, PruneBegin, PruneTest, Reload, CountInv
  <2>2. flush'.added = flush.added /\ flush'.delta = flush.delta
    BY <1>0, <1>1 DEF FlushBegin, PruneBegin, PruneTest, Reload, FlushRecord
  <2>3. \A v \in Videos : InFlight(v)' + pending'[v].sum <= InFlight(v) + pending[v].sum
    BY <2>1, <2>2, TallyTyped DEF InFlight
  <2>4. QED
    BY <1>1, <2>1, <2>2, <2>3, FlushCounts DEF FlushBegin, PruneBegin, PruneTest, Reload
<1>2. CASE Drain
  <2>1. PICK v \in flush.todo :
          /\ flush' = IF pending[v].sum = 0
                      THEN [flush EXCEPT !.todo = flush.todo \ {v}]
                      ELSE [flush EXCEPT !.todo = flush.todo \ {v}, !.at = "add", !.video = v,
                                         !.delta = pending[v].sum]
          /\ pending' = [pending EXCEPT ![v].sum = 0]
    BY <1>2 DEF Drain
  <2>2. v \in Videos /\ flush.delta = 0 /\ flush.at = "drain"
    BY <1>0, <1>2 DEF Drain, CountInv, FlushRecord
  <2>3. \A u \in Videos : pending'[u].sum = IF u = v THEN 0 ELSE pending[u].sum
    BY <2>1, <2>2 DEF TypeInv, TypeOK
  <2>4. ASSUME NEW u \in Videos PROVE InFlight(u)' + pending'[u].sum <= InFlight(u) + pending[u].sum
    <3>1. CASE pending[v].sum = 0
      <4>1. flush'.added = flush.added /\ flush'.delta = 0
        BY <1>0, <2>1, <2>2, <3>1 DEF FlushRecord
      <4>2. QED
        BY <2>2, <2>3, <3>1, <4>1, TallyTyped DEF InFlight
    <3>2. CASE pending[v].sum # 0
      <4>1. flush'.added = flush.added /\ flush'.delta = pending[v].sum /\ flush'.video = v
        BY <1>0, <2>1, <2>2, <3>2 DEF FlushRecord
      <4>2. QED
        BY <2>2, <2>3, <4>1, TallyTyped DEF InFlight
    <3>3. QED
      BY <3>1, <3>2
  <2>5. flush'.at # "add" => flush'.delta = 0
    BY <1>0, <2>1, <2>2 DEF FlushRecord
  <2>6. QED
    BY <1>2, <2>4, <2>5, FlushCounts DEF Drain
<1>3. CASE AddViews
  <2> DEFINE v == flush.video
  <2>1. /\ flush'.at = "reload" /\ flush'.delta = 0 /\ flush'.video = v
        /\ flush'.added = [flush.added EXCEPT ![v] = flush.added[v] + flush.delta]
        /\ UNCHANGED pending
    BY <1>0, <1>3 DEF AddViews, FlushRecord
  <2>2. ASSUME NEW u \in Videos PROVE InFlight(u)' + pending'[u].sum <= InFlight(u) + pending[u].sum
    BY <1>0, <2>1, TallyTyped DEF InFlight
  <2>3. QED
    BY <1>3, <2>1, <2>2, FlushCounts DEF AddViews
<1>4. CASE AddNowhere \/ PruneRemove
  <2>1. flush'.added = flush.added /\ flush'.delta = 0
    BY <1>0, <1>4 DEF AddNowhere, PruneRemove, FlushRecord, CountInv
  <2>2. \A u \in Videos : pending'[u].sum <= pending[u].sum /\ pending'[u].sum \in Nat /\ pending[u].sum \in Nat
    BY <1>4 DEF AddNowhere, PruneRemove, DropAdder, NoAdder, TypeInv, TypeOK
  <2>3. ASSUME NEW u \in Videos PROVE InFlight(u)' + pending'[u].sum <= InFlight(u) + pending[u].sum
    BY <2>1, <2>2, TallyTyped DEF InFlight
  <2>4. QED
    BY <1>4, <2>1, <2>3, FlushCounts DEF AddNowhere, PruneRemove
<1>5. CASE FlushCommit
  <2>1. ASSUME NEW v \in Videos
        PROVE  Views(row'[v]) <= Views(row[v]) + flush.added[v] /\ pending'[v].sum <= pending[v].sum
    <3>1. CASE v \in flush.locked
      <4>1. row[v] \in AModel /\ row'[v] = Model(row[v].edit, row[v].views + flush.added[v])
        BY <1>5, <3>1 DEF FlushCommit, TypeInv, TypeOK, Located
      <4>2. row'[v] # NoVideo /\ row[v].edit = 0 => Views(row'[v]) = row[v].views + flush.added[v]
        BY <4>1 DEF Views, Model
      <4>3. row[v] # NoVideo /\ (row[v].edit = 0 => Views(row[v]) = row[v].views)
        BY <3>1 DEF TypeInv, Located, Views
      <4>4. row'[v] = NoVideo \/ row[v].edit # 0 => Views(row'[v]) = 0
        BY <4>1 DEF Views, Model
      <4>5. QED
        BY <1>5, <4>2, <4>3, <4>4, TallyTyped DEF FlushCommit
    <3>2. CASE v \notin flush.locked
      BY <1>5, <3>2, TallyTyped DEF FlushCommit
    <3>3. QED
      BY <3>1, <3>2
  <2>2. QED
    BY <1>5, <2>1, EmptyFlushCounts DEF FlushCommit, CountInv
<1>6. QED
  BY <1>1, <1>2, <1>3, <1>4, <1>5 DEF Flush

(* Only a delete carries a model with views that count. *)
NewIsUnseen(r) == r.op # "delete" => Views(r.model) = 0

(* The steps of a request: an insert starts at no views, a delete takes    *)
(* them away, and an update leaves a row whose views do not count.         *)
LEMMA AdminStepCounts ==
  ASSUME TypeInv, TypeInv', CountInv, NEW a \in Admins, AdminStep(a)
  PROVE  CountInv'
<1> USE DEF database, history
<1>1. UNCHANGED <<watched, flush, pending>>
  BY DEF AdminStep, AskUpdate, AskDelete, AskCreate, Ask, Load, Refuse, Store, Commit
<1>2. \A b \in Admins : admin'[b].op # "delete" => Views(admin'[b].model) = 0
  <2>1. admin[a] \in AdminRecord
    BY DEF TypeInv, TypeOK
  <2>2. NewIsUnseen(admin[a])
    BY DEF CountInv, NewIsUnseen
  <2>3. PICK r : admin' = [admin EXCEPT ![a] = r] /\ NewIsUnseen(r)
    <3>1. CASE AskUpdate(a) \/ AskDelete(a) \/ AskCreate(a)
      <4>1. ASSUME NEW op, NEW v, NEW m, Ask(a, op, v, m), op # "delete" => Views(m) = 0
            PROVE  \E r : admin' = [admin EXCEPT ![a] = r] /\ NewIsUnseen(r)
        <5>1. NewIsUnseen([at |-> "asked", op |-> op, video |-> v, model |-> m])
          BY <4>1 DEF NewIsUnseen
        <5>2. QED
          BY <4>1, <5>1 DEF Ask
      <4>2. CASE AskUpdate(a)
        <5>1. \A n : Views(Model(writes + 1, n)) = 0
          BY DEF Views, Model, TypeInv, TypeOK
        <5>2. QED
          BY <4>1, <4>2, <5>1 DEF AskUpdate
      <4>3. CASE AskDelete(a)
        BY <4>1, <4>3 DEF AskDelete
      <4>4. CASE AskCreate(a)
        <5>1. Views(Model(0, 0)) = 0
          BY DEF Views, Model
        <5>2. QED
          BY <4>1, <4>4, <5>1 DEF AskCreate
      <4>5. QED
        BY <3>1, <4>2, <4>3, <4>4
    <3>2. CASE Load(a)
      <4>1. CASE admin[a].op # "create"
        <5>1. NewIsUnseen([admin[a] EXCEPT !.at = "store"])
          BY <2>1, <2>2 DEF NewIsUnseen, AdminRecord
        <5>2. QED
          BY <3>2, <4>1, <5>1 DEF Load, Goto
      <4>2. CASE admin[a].op = "create"
        <5>1. PICK v \in Videos : admin' = [admin EXCEPT ![a] = [admin[a] EXCEPT !.at = "store", !.video = v]]
          BY <3>2, <4>2 DEF Load
        <5>2. NewIsUnseen([admin[a] EXCEPT !.at = "store", !.video = v])
          BY <2>1, <2>2 DEF NewIsUnseen, AdminRecord
        <5>3. QED
          BY <5>1, <5>2
      <4>3. QED
        BY <4>1, <4>2
    <3>3. CASE Store(a)
      <4>1. NewIsUnseen([admin[a] EXCEPT !.at = "commit"])
        BY <2>1, <2>2 DEF NewIsUnseen, AdminRecord
      <4>2. QED
        BY <3>3, <4>1 DEF Store, Goto
    <3>4. CASE Refuse(a) \/ Commit(a)
      <4>1. NewIsUnseen(NoRequest)
        BY DEF NewIsUnseen, NoRequest, Views, Model
      <4>2. QED
        BY <3>4, <4>1 DEF Refuse, Commit
    <3>5. QED
      BY <3>1, <3>2, <3>3, <3>4 DEF AdminStep
  <2>4. QED
    BY <2>3 DEF CountInv, NewIsUnseen, TypeInv, TypeOK
<1>3. ASSUME NEW v \in Videos PROVE Views(row'[v]) <= Views(row[v])
  <2>1. CASE Commit(a)
    <3>2. \/ row' = row
          \/ row' = [row EXCEPT ![admin[a].video] = NoVideo]
          \/ row' = [row EXCEPT ![admin[a].video] = admin[a].model] /\ Views(admin[a].model) = 0
      BY <2>1 DEF Commit, CountInv
    <3>3. row'[v] = row[v] \/ row'[v] = NoVideo \/ (row'[v] = admin[a].model /\ Views(admin[a].model) = 0)
      BY <3>2 DEF TypeInv, TypeOK
    <3>4. row'[v] = row[v] \/ Views(row'[v]) = 0
      BY <3>3 DEF Views
    <3>5. QED
      BY <3>4, TallyTyped
  <2>2. CASE ~Commit(a)
    <3>1. row' = row
      BY <2>2 DEF AdminStep, AskUpdate, AskDelete, AskCreate, Ask, Load, Refuse, Store
    <3>2. QED
      BY <3>1, TallyTyped
  <2>3. QED
    BY <2>1, <2>2
<1>4. \A v \in Videos : Views(row'[v]) <= Views(row[v]) /\ pending'[v].sum <= pending[v].sum
  BY <1>1, <1>3, TallyTyped
<1>5. QED
  BY <1>1, <1>2, <1>4, CountFrame

(* Cascades, the preload and faults add to no tally. *)
LEMMA OtherCounts ==
  ASSUME TypeInv, TypeInv', CountInv,
         CascadeDelete \/ PreloadRead \/ PreloadPut \/ AdminRollback \/ FlushRollback \/ Restart
  PROVE  CountInv'
<1> USE DEF database, history
<1>0. \A v \in Videos : TRUE => /\ Views(row[v]) <= Views(row[v]) /\ pending[v].sum <= pending[v].sum
                                /\ Views(row[v]) <= Views(row[v]) + flush.added[v]
                                /\ 0 <= Views(row[v]) /\ 0 <= pending[v].sum
  BY TallyTyped
<1>1. CASE PreloadRead \/ PreloadPut
  BY <1>0, <1>1, CountFrame DEF PreloadRead, PreloadPut, CountInv
<1>2. CASE CascadeDelete
  <2>1. PICK u \in Videos : row' = [row EXCEPT ![u] = NoVideo]
    BY <1>2 DEF CascadeDelete
  <2>2. \A v \in Videos : row'[v] = row[v] \/ row'[v] = NoVideo
    BY <2>1 DEF TypeInv, TypeOK
  <2>3. \A v \in Videos : Views(row'[v]) <= Views(row[v])
    BY <1>0, <2>2 DEF Views
  <2>4. QED
    BY <1>0, <1>2, <2>3, CountFrame DEF CascadeDelete, CountInv
<1>3. CASE AdminRollback
  <2>1. PICK a \in Admins : admin' = [admin EXCEPT ![a] = NoRequest]
    BY <1>3 DEF AdminRollback
  <2>2. \A b \in Admins : admin'[b].op # "delete" => Views(admin'[b].model) = 0
    BY <2>1 DEF CountInv, NoRequest, Views, Model, TypeInv, TypeOK
  <2>3. QED
    BY <1>0, <1>3, <2>2, CountFrame DEF AdminRollback
<1>4. CASE FlushRollback
  BY <1>0, <1>4, EmptyFlushCounts DEF FlushRollback, CountInv
<1>5. CASE Restart
  <2>1. \A b \in Admins : admin'[b].op # "delete" => Views(admin'[b].model) = 0
    BY <1>5 DEF Restart, CountInv, NoRequest, Views, Model
  <2>2. \A v \in Videos : pending'[v].sum = 0
    BY <1>5 DEF Restart, NoAdder
  <2>3. \A v \in Videos : Views(row'[v]) <= Views(row[v]) + flush.added[v] /\ pending'[v].sum <= pending[v].sum
    BY <1>0, <1>5, <2>2 DEF Restart
  <2>4. QED
    BY <1>5, <2>1, <2>3, EmptyFlushCounts DEF Restart
<1>6. QED
  BY <1>1, <1>2, <1>3, <1>4, <1>5

LEMMA InitCounts == Init => CountInv
<1> SUFFICES ASSUME Init PROVE CountInv
  OBVIOUS
<1>1. \A v \in Videos : /\ Views(row[v]) = 0 /\ InFlight(v) = 0
                        /\ pending[v].sum = 0 /\ watched[v] = 0
  BY IdAssumption DEF Init, Views, Model, InFlight, NoFlush, Nothing, NoAdder
<1>2. QED
  BY <1>1 DEF Init, CountInv, Tally, NoFlush, NoRequest, Views, Model

LEMMA CountInvariant == Spec => []CountInv
<1>1. TypeInv /\ CountInv /\ [Next]_vars => CountInv'
  <2> SUFFICES ASSUME TypeInv, CountInv, [Next]_vars PROVE CountInv'
    OBVIOUS
  <2>1. TypeInv'
    BY StepTyped
  <2>2. CASE UNCHANGED vars
    BY <2>2 DEF vars, CountInv, Tally, InFlight
  <2>3. CASE Next
    BY <2>1, <2>3, ViewerCounts, FlushStepCounts, AdminStepCounts, OtherCounts DEF Next
  <2>4. QED
    BY <2>2, <2>3
<1>2. QED
  BY <1>1, InitCounts, TypeInvariant, PTL DEF Spec

(* However watches, GETs, flushes, rollbacks, deletions, cascades,         *)
(* restarts and the preload interleave, no view of a video is counted      *)
(* twice before its form, which carries a count, is saved over it.         *)
THEOREM ViewsCountOnce == Spec => []NoViewCountedTwice
<1>1. TypeInv /\ CountInv => NoViewCountedTwice
  BY TallyTyped DEF CountInv, Tally, Views, NoViewCountedTwice
<1>2. QED
  BY <1>1, TypeInvariant, CountInvariant, PTL

-----------------------------------------------------------------------------
(***************************************************************************)
(* The map and the table.  What each step does to the two, to the requests *)
(* and to the flush's transaction                                          *)
(***************************************************************************)

AtWork(a, v) == admin[a].video = v /\ admin[a].at \in {"store", "commit"}
AtCommit(a, v) == admin[a].video = v /\ admin[a].at = "commit"

LEMMA AdminMoves ==
  ASSUME TypeInv, NEW a \in Admins, AdminStep(a)
  PROVE  LET r == admin[a]  t == admin'[a]  v == admin[a].video IN
         /\ UNCHANGED <<flush, preload, pending, faults>>
         /\ \A b \in Admins : b # a => admin'[b] = admin[b]
         /\ AskUpdate(a) \/ AskDelete(a) \/ AskCreate(a) =>
              /\ UNCHANGED <<row, used, cache>> /\ t.at = "asked"
              /\ t.op = "create" => t.video = NoId /\ t.model = Model(0, 0)
              /\ t.op # "create" => t.video \in Videos /\ cache[t.video] # NoVideo
              /\ t.op = "update" => t.model.edit > 0
         /\ Load(a) =>
              /\ UNCHANGED <<row, cache>> /\ r.at = "asked"
              /\ t.at = "store" /\ t.op = r.op /\ t.model = r.model
              /\ r.op = "create" => t.video \in Videos \ used /\ used' = used \cup {t.video}
              /\ r.op # "create" => t.video = v /\ row[v] # NoVideo /\ used' = used
         /\ Refuse(a) => t = NoRequest /\ UNCHANGED <<row, used, cache>> /\ r.at = "asked"
         /\ Store(a) =>
              /\ UNCHANGED <<row, used>> /\ r.at = "store" /\ v \in Videos
              /\ t.at = "commit" /\ t.op = r.op /\ t.model = r.model /\ t.video = v
              /\ \A u \in Videos :
                   cache'[u] = IF u # v THEN cache[u] ELSE IF r.op = "delete" THEN NoVideo ELSE r.model
         /\ Commit(a) =>
              /\ UNCHANGED <<cache, used>> /\ r.at = "commit" /\ v \in Videos /\ v \notin flush.locked
              /\ t = NoRequest
              /\ \A u \in Videos :
                   row'[u] = IF u # v \/ (r.op # "create" /\ row[v] = NoVideo) THEN row[u]
                             ELSE IF r.op = "delete" THEN NoVideo ELSE r.model
<1> USE DEF database, history
<1> DEFINE r == admin[a]
           v == admin[a].video
<1>1. /\ r \in AdminRecord /\ DOMAIN admin = Admins /\ writes \in Nat
      /\ r.at \in {"store", "commit"} => v \in Videos
  BY DEF TypeInv, TypeOK, AdminRecord
<1>2. UNCHANGED <<flush, preload, pending, faults>>
  BY DEF AdminStep, AskUpdate, AskDelete, AskCreate, Ask, Load, Refuse, Store, Commit
<1>3. \A b \in Admins : b # a => admin'[b] = admin[b]
  BY <1>1 DEF AdminStep, AskUpdate, AskDelete, AskCreate, Ask, Load, Refuse, Store, Commit, Goto
<1>4. ASSUME AskUpdate(a) \/ AskDelete(a) \/ AskCreate(a)
      PROVE  /\ UNCHANGED <<row, used, cache>> /\ admin'[a].at = "asked"
             /\ admin'[a].op = "create" => admin'[a].video = NoId /\ admin'[a].model = Model(0, 0)
             /\ admin'[a].op # "create" => admin'[a].video \in Videos /\ cache[admin'[a].video] # NoVideo
             /\ admin'[a].op = "update" => admin'[a].model.edit > 0
  <2>1. PICK op, u, m :
          /\ Ask(a, op, u, m)
          /\ \/ op = "create" /\ u = NoId /\ m = Model(0, 0)
             \/ op \in {"update", "delete"} /\ u \in Videos /\ cache[u] # NoVideo
          /\ op = "update" => m.edit > 0
    <3>1. CASE AskUpdate(a)
      BY <1>1, <3>1 DEF AskUpdate, Model
    <3>2. CASE AskDelete(a)
      BY <3>2 DEF AskDelete
    <3>3. CASE AskCreate(a)
      BY <3>3 DEF AskCreate
    <3>4. QED
      BY <1>4, <3>1, <3>2, <3>3
  <2>2. admin'[a] = [at |-> "asked", op |-> op, video |-> u, model |-> m] /\ UNCHANGED <<row, used, cache>>
    BY <1>1, <2>1 DEF Ask
  <2>3. QED
    BY <2>1, <2>2
<1>5. ASSUME Load(a)
      PROVE  /\ UNCHANGED <<row, cache>> /\ r.at = "asked"
             /\ admin'[a].at = "store" /\ admin'[a].op = r.op /\ admin'[a].model = r.model
             /\ r.op = "create" => admin'[a].video \in Videos \ used /\ used' = used \cup {admin'[a].video}
             /\ r.op # "create" => admin'[a].video = v /\ row[v] # NoVideo /\ used' = used
  <2>1. UNCHANGED <<row, cache>> /\ r.at = "asked"
    BY <1>5 DEF Load
  <2>2. CASE r.op # "create"
    <3>1. admin'[a] = [r EXCEPT !.at = "store"] /\ row[v] # NoVideo /\ used' = used
      BY <1>1, <1>5, <2>2 DEF Load, Goto
    <3>2. QED
      BY <1>1, <2>1, <2>2, <3>1 DEF AdminRecord
  <2>3. CASE r.op = "create"
    <3>1. PICK u \in Videos \ used :
            used' = used \cup {u} /\ admin' = [admin EXCEPT ![a] = [@ EXCEPT !.at = "store", !.video = u]]
      BY <1>5, <2>3 DEF Load
    <3>2. admin'[a] = [r EXCEPT !.at = "store", !.video = u]
      BY <1>1, <3>1
    <3>3. QED
      BY <1>1, <2>1, <2>3, <3>1, <3>2 DEF AdminRecord
  <2>4. QED
    BY <2>2, <2>3
<1>6. Refuse(a) => admin'[a] = NoRequest /\ UNCHANGED <<row, used, cache>> /\ r.at = "asked"
  BY <1>1 DEF Refuse
<1>7. ASSUME Store(a)
      PROVE  /\ UNCHANGED <<row, used>> /\ r.at = "store" /\ v \in Videos
             /\ admin'[a].at = "commit" /\ admin'[a].op = r.op /\ admin'[a].model = r.model
             /\ admin'[a].video = v
             /\ \A u \in Videos :
                  cache'[u] = IF u # v THEN cache[u] ELSE IF r.op = "delete" THEN NoVideo ELSE r.model
  <2>1. UNCHANGED <<row, used>> /\ r.at = "store" /\ v \in Videos
    BY <1>1, <1>7 DEF Store
  <2>2. admin'[a] = [r EXCEPT !.at = "commit"]
    BY <1>1, <1>7 DEF Store, Goto
  <2>3. \A u \in Videos :
          cache'[u] = IF u # v THEN cache[u] ELSE IF r.op = "delete" THEN NoVideo ELSE r.model
    BY <1>7, <2>1 DEF Store, TypeInv, TypeOK
  <2>4. QED
    BY <1>1, <2>1, <2>2, <2>3 DEF AdminRecord
<1>8. ASSUME Commit(a)
      PROVE  /\ UNCHANGED <<cache, used>> /\ r.at = "commit" /\ v \in Videos /\ v \notin flush.locked
             /\ admin'[a] = NoRequest
             /\ \A u \in Videos :
                  row'[u] = IF u # v \/ (r.op # "create" /\ row[v] = NoVideo) THEN row[u]
                            ELSE IF r.op = "delete" THEN NoVideo ELSE r.model
  BY <1>1, <1>8 DEF Commit, TypeInv, TypeOK
<1>9. QED
  BY <1>2, <1>3, <1>4, <1>5, <1>6, <1>7, <1>8

LEMMA FlushMoves ==
  ASSUME TypeInv, Flush
  PROVE  LET v == flush.video IN
         /\ UNCHANGED <<used, admin, preload, faults>>
         /\ AddViews =>
              /\ UNCHANGED <<row, cache>> /\ v \in Videos /\ row[v] # NoVideo
              /\ flush'.at = "reload" /\ flush'.video = v /\ flush'.locked = flush.locked \cup {v}
              /\ \A u \in Videos : u # v => flush'.added[u] = flush.added[u]
         /\ Reload =>
              /\ row' = row /\ flush.at = "reload" /\ v \in flush.locked /\ v \in Videos
              /\ flush'.at = "drain" /\ flush'.locked = flush.locked /\ flush'.added = flush.added
              /\ \A u \in Videos :
                   cache'[u] = IF u = v THEN Model(row[v].edit, row[v].views + flush.added[v]) ELSE cache[u]
         /\ FlushCommit =>
              /\ cache' = cache /\ flush' = NoFlush /\ flush.at = "prune"
              /\ \A u \in Videos :
                   row'[u] = IF u \in flush.locked THEN Model(row[u].edit, row[u].views + flush.added[u])
                             ELSE row[u]
         /\ ~AddViews /\ ~Reload /\ ~FlushCommit =>
              /\ UNCHANGED <<row, cache>> /\ flush.at # "reload" /\ flush'.at # "reload"
              /\ flush'.locked = flush.locked /\ flush'.added = flush.added
              /\ flush'.at = "idle" => flush.at = "idle"
<1> USE DEF database, history
<1> DEFINE v == flush.video
<1>1. flush \in FlushRecord /\ flush.added \in [Videos -> Nat]
  BY DEF TypeInv, TypeOK, FlushRecord
<1>2. UNCHANGED <<used, admin, preload, faults>>
  BY DEF Flush, FlushBegin, Drain, AddViews, AddNowhere, Reload, PruneBegin, PruneTest,
     PruneRemove, FlushCommit
<1>3. ASSUME AddViews
      PROVE  /\ UNCHANGED <<row, cache>> /\ v \in Videos /\ row[v] # NoVideo
             /\ flush'.at = "reload" /\ flush'.video = v /\ flush'.locked = flush.locked \cup {v}
             /\ \A u \in Videos : u # v => flush'.added[u] = flush.added[u]
  <2>1. flush' = [flush EXCEPT !.at = "reload", !.delta = 0, !.locked = flush.locked \cup {v},
                               !.added = [flush.added EXCEPT ![v] = flush.added[v] + flush.delta]]
    BY <1>3 DEF AddViews
  <2>2. v \in Videos /\ row[v] # NoVideo /\ UNCHANGED <<row, cache>>
    BY <1>1, <1>3 DEF AddViews, TypeInv, TypeOK, FlushRecord
  <2>3. QED
    BY <1>1, <2>1, <2>2 DEF FlushRecord
<1>4. ASSUME Reload
      PROVE  /\ row' = row /\ flush.at = "reload" /\ v \in flush.locked /\ v \in Videos
             /\ flush'.at = "drain" /\ flush'.locked = flush.locked /\ flush'.added = flush.added
             /\ \A u \in Videos :
                  cache'[u] = IF u = v THEN Model(row[v].edit, row[v].views + flush.added[v]) ELSE cache[u]
  <2>1. row' = row /\ flush.at = "reload" /\ v \in flush.locked
    BY <1>4 DEF Reload, TypeInv, Located
  <2>2. v \in Videos
    BY <1>1, <2>1 DEF FlushRecord
  <2>3. flush'.at = "drain" /\ flush'.locked = flush.locked /\ flush'.added = flush.added
    BY <1>1, <1>4 DEF Reload, FlushRecord
  <2>4. \A u \in Videos :
          cache'[u] = IF u = v THEN Model(row[v].edit, row[v].views + flush.added[v]) ELSE cache[u]
    BY <1>4, <2>2 DEF Reload, TypeInv, TypeOK
  <2>5. QED
    BY <2>1, <2>2, <2>3, <2>4
<1>5. FlushCommit =>
        /\ cache' = cache /\ flush' = NoFlush /\ flush.at = "prune"
        /\ \A u \in Videos :
             row'[u] = IF u \in flush.locked THEN Model(row[u].edit, row[u].views + flush.added[u])
                       ELSE row[u]
  BY DEF FlushCommit
<1>6. ASSUME ~AddViews, ~Reload, ~FlushCommit
      PROVE  /\ UNCHANGED <<row, cache>> /\ flush.at # "reload" /\ flush'.at # "reload"
             /\ flush'.locked = flush.locked /\ flush'.added = flush.added
             /\ flush'.at = "idle" => flush.at = "idle"
  <2>1. UNCHANGED <<row, cache>> /\ flush.at # "reload"
    BY <1>6 DEF Flush, FlushBegin, Drain, AddNowhere, PruneBegin, PruneTest, PruneRemove
  <2>2. CASE FlushBegin \/ PruneBegin \/ AddNowhere \/ PruneRemove
    BY <1>1, <2>1, <2>2 DEF FlushBegin, PruneBegin, AddNowhere, PruneRemove, FlushRecord
  <2>3. CASE Drain
    <3>1. PICK u \in flush.todo :
            flush' = IF pending[u].sum = 0
                     THEN [flush EXCEPT !.todo = flush.todo \ {u}]
                     ELSE [flush EXCEPT !.todo = flush.todo \ {u}, !.at = "add", !.video = u,
                                        !.delta = pending[u].sum]
      BY <2>3 DEF Drain
    <3>2. QED
      BY <1>1, <2>1, <2>3, <3>1 DEF Drain, FlushRecord
  <2>4. CASE PruneTest
    <3>1. PICK u \in flush.todo :
            flush' = IF pending[u].on /\ pending[u].sum = 0
                     THEN [flush EXCEPT !.todo = flush.todo \ {u}, !.at = "remove", !.video = u]
                     ELSE [flush EXCEPT !.todo = flush.todo \ {u}]
      BY <2>4 DEF PruneTest
    <3>2. QED
      BY <1>1, <2>1, <2>4, <3>1 DEF PruneTest, FlushRecord
  <2>5. QED
    BY <1>6, <2>2, <2>3, <2>4 DEF Flush
<1>7. QED
  BY <1>2, <1>3, <1>4, <1>5, <1>6

-----------------------------------------------------------------------------
(***************************************************************************)
(* What is stored is listed                                                *)
(***************************************************************************)

(* An id that was not given out is unknown everywhere. *)
FreshIds ==
  \A v \in Videos \ used :
    row[v] = NoVideo /\ cache[v] = NoVideo /\ \A a \in Admins : admin[a].video # v

(* Nobody else writes a video before its insert has committed; and it is   *)
(* in the map by then.                                                     *)
CreatingAlone ==
  \A a \in Admins, v \in Videos :
    admin[a].op = "create" /\ AtWork(a, v) =>
      /\ row[v] = NoVideo
      /\ \A b \in Admins : b # a => ~AtWork(b, v)
      /\ admin[a].at = "commit" => cache[v] # NoVideo

(* Only a delete that is about to commit hides a row. *)
HiddenByDelete ==
  \A v \in Videos :
    row[v] # NoVideo /\ cache[v] = NoVideo =>
      \E a \in Admins : AtCommit(a, v) /\ admin[a].op = "delete"

(* Before the first fault: the three together, for a map that was          *)
(* preloaded before anybody wrote.                                         *)
MapInv ==
  faults = 0 => preload.at = "done" /\ FreshIds /\ CreatingAlone /\ HiddenByDelete

LEMMA InitMap == Init => MapInv
<1> SUFFICES ASSUME Init PROVE MapInv
  OBVIOUS
<1>1. preload.at = "done" /\ FreshIds
  BY IdAssumption DEF Init, FreshIds, NoRequest, NoPreload
<1>2. CreatingAlone /\ HiddenByDelete
  BY DEF Init, CreatingAlone, HiddenByDelete, AtWork, NoRequest
<1>3. QED
  BY <1>1, <1>2 DEF MapInv

(* The admins' steps.  An insert is alone with its video until it commits; *)
(* a delete takes the video out of the map first, of the table later.      *)
LEMMA AdminStepMap ==
  ASSUME TypeInv, MapInv, NEW a \in Admins, AdminStep(a)
  PROVE  MapInv'
<1> DEFINE v == admin[a].video
<1> SUFFICES ASSUME faults' = 0 PROVE preload'.at = "done" /\ FreshIds' /\ CreatingAlone' /\ HiddenByDelete'
  BY DEF MapInv
<1>1. /\ UNCHANGED <<flush, preload, pending, faults>>
      /\ \A b \in Admins : b # a => admin'[b] = admin[b]
  BY AdminMoves
<1>2. preload.at = "done" /\ FreshIds /\ CreatingAlone /\ HiddenByDelete
  BY <1>1 DEF MapInv
<1>3. CASE AskUpdate(a) \/ AskDelete(a) \/ AskCreate(a) \/ Refuse(a)
  <2>1. /\ UNCHANGED <<row, used, cache>> /\ admin'[a].at \in {"idle", "asked"}
        /\ admin'[a].video = NoId \/ cache[admin'[a].video] # NoVideo
    BY <1>3, AdminMoves DEF NoRequest
  <2>2. admin[a].at # "commit"
    BY <1>3 DEF AskUpdate, AskDelete, AskCreate, Ask, Refuse
  <2>3. FreshIds'
    BY <1>1, <1>2, <2>1, IdAssumption DEF FreshIds
  <2>4. CreatingAlone'
    BY <1>1, <1>2, <2>1 DEF CreatingAlone, AtWork
  <2>5. HiddenByDelete'
    BY <1>1, <1>2, <2>1, <2>2 DEF HiddenByDelete, AtCommit
  <2>6. QED
    BY <1>1, <1>2, <2>3, <2>4, <2>5
<1>4. CASE Load(a)
  <2>1. /\ UNCHANGED <<row, cache>> /\ admin[a].at = "asked"
        /\ admin'[a].at = "store" /\ admin'[a].op = admin[a].op
        /\ admin[a].op = "create" => admin'[a].video \in Videos \ used /\ used' = used \cup {admin'[a].video}
        /\ admin[a].op # "create" => admin'[a].video = v /\ row[v] # NoVideo /\ used' = used
    BY <1>4, AdminMoves
  <2>2. FreshIds'
    BY <1>1, <1>2, <2>1 DEF FreshIds
  <2>3. CreatingAlone'
    <3>1. CASE admin[a].op = "create"
      BY <1>1, <1>2, <2>1, <3>1 DEF CreatingAlone, AtWork, FreshIds
    <3>2. CASE admin[a].op # "create"
      BY <1>1, <1>2, <2>1, <3>2 DEF CreatingAlone, AtWork
    <3>3. QED
      BY <3>1, <3>2
  <2>4. HiddenByDelete'
    BY <1>1, <1>2, <2>1 DEF HiddenByDelete, AtCommit
  <2>5. QED
    BY <1>1, <1>2, <2>2, <2>3, <2>4
<1>5. CASE Store(a)
  <2>1. /\ UNCHANGED <<row, used>> /\ admin[a].at = "store" /\ v \in Videos
        /\ admin'[a].at = "commit" /\ admin'[a].op = admin[a].op
        /\ admin'[a].video = v
        /\ \A u \in Videos :
             cache'[u] = IF u # v THEN cache[u] ELSE IF admin[a].op = "delete" THEN NoVideo ELSE admin[a].model
    BY <1>5, AdminMoves
  <2>2. admin[a].model # NoVideo
    BY ModelAssumption DEF TypeInv, TypeOK, AdminRecord, AModel
  <2>3. FreshIds'
    BY <1>1, <1>2, <2>1 DEF FreshIds
  <2>4. CreatingAlone'
    <3> SUFFICES ASSUME NEW b \in Admins, NEW u \in Videos, admin'[b].op = "create", AtWork(b, u)'
                 PROVE  /\ row'[u] = NoVideo
                        /\ \A c \in Admins : c # b => ~AtWork(c, u)'
                        /\ admin'[b].at = "commit" => cache'[u] # NoVideo
      BY DEF CreatingAlone
    <3>2. admin[b].op = "create" /\ AtWork(b, u)
      BY <1>1, <2>1 DEF AtWork
    <3>3. row[u] = NoVideo /\ (\A c \in Admins : c # b => ~AtWork(c, u))
          /\ (admin[b].at = "commit" => cache[u] # NoVideo)
      BY <1>2, <3>2 DEF CreatingAlone
    <3>4. \A c \in Admins : c # b => ~(admin'[c].video = u /\ admin'[c].at \in {"store", "commit"})
      BY <1>1, <2>1, <3>3 DEF AtWork
    <3>5. admin'[b].at = "commit" => cache'[u] # NoVideo
      <4>1. CASE b = a
        BY <2>1, <2>2, <3>2, <4>1 DEF AtWork
      <4>2. CASE b # a
        <5>1. u # v
          BY <2>1, <3>3, <4>2 DEF AtWork
        <5>2. QED
          BY <1>1, <2>1, <3>3, <4>2, <5>1
      <4>3. QED
        BY <4>1, <4>2
    <3>6. QED
      BY <2>1, <3>3, <3>4, <3>5 DEF AtWork
  <2>5. HiddenByDelete'
    <3> SUFFICES ASSUME NEW u \in Videos, row[u] # NoVideo, cache'[u] = NoVideo
                 PROVE  \E b \in Admins : AtCommit(b, u)' /\ admin'[b].op = "delete"
      BY <2>1 DEF HiddenByDelete
    <3>1. CASE u = v
      BY <2>1, <2>2, <3>1 DEF AtCommit
    <3>2. CASE u # v
      <4>1. PICK b \in Admins : AtCommit(b, u) /\ admin[b].op = "delete"
        BY <1>2, <2>1, <3>2 DEF HiddenByDelete
      <4>2. b # a
        BY <2>1, <4>1 DEF AtCommit
      <4>3. QED
        BY <1>1, <4>1, <4>2 DEF AtCommit
    <3>3. QED
      BY <3>1, <3>2
  <2>6. QED
    BY <1>1, <1>2, <2>3, <2>4, <2>5
<1>6. CASE Commit(a)
  <2>1. /\ UNCHANGED <<cache, used>> /\ admin[a].at = "commit" /\ v \in Videos
        /\ admin'[a].at = "idle" /\ admin'[a].video = NoId
        /\ \A u \in Videos :
             row'[u] = IF u # v \/ (admin[a].op # "create" /\ row[v] = NoVideo) THEN row[u]
                       ELSE IF admin[a].op = "delete" THEN NoVideo ELSE admin[a].model
    BY <1>6, AdminMoves DEF NoRequest
  <2>2. v \in used
    BY <1>2, <2>1 DEF FreshIds
  <2>3. FreshIds'
    BY <1>1, <1>2, <2>1, <2>2, IdAssumption DEF FreshIds
  <2>4. CreatingAlone'
    <3> SUFFICES ASSUME NEW b \in Admins, NEW u \in Videos, admin'[b].op = "create", AtWork(b, u)'
                 PROVE  /\ row'[u] = NoVideo
                        /\ \A c \in Admins : c # b => ~AtWork(c, u)'
                        /\ admin'[b].at = "commit" => cache'[u] # NoVideo
      BY DEF CreatingAlone
    <3>2. b # a /\ admin'[b] = admin[b]
      BY <1>1, <2>1 DEF AtWork
    <3>3. admin[b].op = "create" /\ AtWork(b, u)
      BY <3>2 DEF AtWork
    <3>4. row[u] = NoVideo /\ (\A c \in Admins : c # b => ~AtWork(c, u))
          /\ (admin[b].at = "commit" => cache[u] # NoVideo)
      BY <1>2, <3>3 DEF CreatingAlone
    <3>5. u # v
      BY <2>1, <3>2, <3>4 DEF AtWork
    <3>6. \A c \in Admins : c # b => ~(admin'[c].video = u /\ admin'[c].at \in {"store", "commit"})
      BY <1>1, <2>1, <3>4 DEF AtWork
    <3>7. QED
      BY <2>1, <3>2, <3>4, <3>5, <3>6 DEF AtWork
  <2>5. HiddenByDelete'
    <3> SUFFICES ASSUME NEW u \in Videos, row'[u] # NoVideo, cache[u] = NoVideo
                 PROVE  \E b \in Admins : AtCommit(b, u)' /\ admin'[b].op = "delete"
      BY <2>1 DEF HiddenByDelete
    <3>1. row[u] # NoVideo /\ ~(u = v /\ admin[a].op = "delete")
      BY <1>2, <2>1 DEF CreatingAlone, AtWork
    <3>2. PICK b \in Admins : AtCommit(b, u) /\ admin[b].op = "delete"
      BY <1>2, <3>1 DEF HiddenByDelete
    <3>3. b # a
      BY <3>1, <3>2 DEF AtCommit
    <3>4. QED
      BY <1>1, <3>2, <3>3 DEF AtCommit
  <2>6. QED
    BY <1>1, <1>2, <2>3, <2>4, <2>5
<1>7. QED
  BY <1>3, <1>4, <1>5, <1>6 DEF AdminStep

(* A step that stores and unlists nothing, and lists only what has an id,  *)
(* keeps it.                                                               *)
LEMMA MapFrame ==
  ASSUME MapInv, UNCHANGED <<used, admin, faults>>, preload.at = "done" => preload'.at = "done",
         \A v \in Videos : /\ row'[v] # NoVideo => row[v] # NoVideo
                           /\ cache[v] # NoVideo => cache'[v] # NoVideo
                           /\ cache'[v] # NoVideo => cache[v] # NoVideo \/ row[v] # NoVideo
  PROVE  MapInv'
<1> SUFFICES ASSUME faults' = 0
             PROVE  preload'.at = "done" /\ FreshIds' /\ CreatingAlone' /\ HiddenByDelete'
  BY DEF MapInv
<1>1. preload.at = "done" /\ FreshIds /\ CreatingAlone /\ HiddenByDelete
  BY DEF MapInv
<1>2. FreshIds'
  BY <1>1 DEF FreshIds
<1>3. CreatingAlone'
  BY <1>1 DEF CreatingAlone, AtWork
<1>4. HiddenByDelete'
  BY <1>1 DEF HiddenByDelete, AtCommit
<1>5. QED
  BY <1>1, <1>2, <1>3, <1>4

(* The flush lists only rows that are there. *)
LEMMA FlushStepMap ==
  ASSUME TypeInv, MapInv, Flush
  PROVE  MapInv'
<1>1. UNCHANGED <<used, admin, preload, faults>>
  BY FlushMoves
<1>2. \A e, n : Model(e, n) = [edit |-> e, views |-> n]
  BY DEF Model
<1>3. \A u \in Videos : row[u] # NoVideo => row[u] \in AModel
  BY DEF TypeInv, TypeOK
<1>4. \A u \in Videos : flush.added[u] \in Nat
  BY DEF TypeInv, TypeOK, FlushRecord
<1>5. \A u \in Videos : row[u] # NoVideo =>
        Model(row[u].edit, row[u].views + flush.added[u]) # NoVideo
  BY <1>3, <1>4, ModelAssumption DEF Model, AModel
<1>6. \A u \in flush.locked : row[u] # NoVideo
  BY DEF TypeInv, Located
<1>7. CASE Reload
  BY <1>1, <1>5, <1>6, <1>7, FlushMoves, MapFrame
<1>8. CASE FlushCommit
  BY <1>1, <1>6, <1>8, FlushMoves, MapFrame
<1>9. CASE ~Reload /\ ~FlushCommit
  BY <1>1, <1>9, FlushMoves, MapFrame
<1>10. QED
  BY <1>7, <1>8, <1>9

(* Watches, GETs of a video and the cascade unlist nothing; there is no    *)
(* preload to be done, and after a fault nothing is claimed.               *)
LEMMA OtherMap ==
  ASSUME TypeInv, MapInv,
         \/ \E w \in Viewers : Watch(w) \/ Count(w)
         \/ \E w \in Viewers : Look(w) \/ Show(w)
         \/ CascadeDelete \/ AdminRollback \/ FlushRollback \/ Restart
         \/ PreloadRead \/ PreloadPut
  PROVE  MapInv'
<1> USE DEF database, history
<1>1. CASE \E w \in Viewers : Watch(w) \/ Count(w)
  BY <1>1, MapFrame DEF Watch, Count
<1>2. CASE \E w \in Viewers : Look(w) \/ Show(w)
  BY <1>2, LookMoves, MapFrame
<1>3. CASE CascadeDelete
  <2>1. PICK v \in Videos : row' = [row EXCEPT ![v] = NoVideo]
    BY <1>3 DEF CascadeDelete
  <2>2. \A u \in Videos : row'[u] # NoVideo => row[u] # NoVideo
    BY <2>1 DEF TypeInv, TypeOK
  <2>3. QED
    BY <1>3, <2>2, MapFrame DEF CascadeDelete
<1>4. CASE AdminRollback \/ FlushRollback \/ Restart
  BY <1>4 DEF AdminRollback, FlushRollback, Restart, Happens, MapInv, TypeInv, TypeOK
<1>5. CASE PreloadRead \/ PreloadPut
  BY <1>5 DEF PreloadRead, PreloadPut, MapInv
<1>6. QED
  BY <1>1, <1>2, <1>3, <1>4, <1>5

LEMMA StepMap == TypeInv /\ MapInv /\ [Next]_vars => MapInv'
<1> SUFFICES ASSUME TypeInv, MapInv, [Next]_vars PROVE MapInv'
  OBVIOUS
<1>1. CASE UNCHANGED vars
  BY <1>1, MapFrame DEF vars
<1>2. CASE Next
  BY <1>2, FlushStepMap, AdminStepMap, OtherMap DEF Next
<1>3. QED
  BY <1>1, <1>2

(* With any number of admins at work and whatever the flush reloads, no    *)
(* committed row that nobody is deleting is missing from the map, until a  *)
(* transaction fails or the process restarts.                              *)
THEOREM StoredIsListed == Spec => []ListedWhileStored
<1>1. MapInv => ListedWhileStored
  BY DEF MapInv, HiddenByDelete, AtCommit, ListedWhileStored
<1>2. QED
  BY <1>1, InitMap, StepMap, TypeInvariant, PTL DEF Spec

-----------------------------------------------------------------------------
(***************************************************************************)
(* The count in the map, which GETs set and the flush sets again           *)
(***************************************************************************)

(* The flush's transaction adds to the rows it has locked, and it holds no *)
(* lock between two runs.                                                  *)
LockInv ==
  /\ \A v \in Videos \ flush.locked : flush.added[v] = 0
  /\ flush.at = "idle" => flush.locked = {}

(* What a form carries: a new video nobody edited, or an edited one.       *)
RequestInv ==
  \A a \in Admins :
    /\ admin[a].op = "update" => admin[a].model.edit > 0
    /\ admin[a].op = "create" => admin[a].model = Model(0, 0)

(* The count of a video once the flush commits; a new one has no views.    *)
TableCount(v) == IF row[v] = NoVideo THEN 0 ELSE row[v].views + flush.added[v]

(* A count that is not less, and no other when every view is in the table. *)
RightCount(table, seen, n) == n \in Nat /\ n >= table /\ (table = seen => n = table)

(* A GET is about to set a count on the model the map has of the video.    *)
InHand(w, v) == viewer[w].at = "show" /\ viewer[w].attached /\ viewer[w].video = v

RightCounts(v) ==
  /\ RightCount(TableCount(v), watched[v], cache[v].views)
  /\ \A w \in Viewers : InHand(w, v) => RightCount(TableCount(v), watched[v], viewer[w].count)

Creating(v) == \E a \in Admins : admin[a].op = "create" /\ AtCommit(a, v)

(* A video as created, also while its insert commits, that is in the map.  *)
(* Between the update of its row and the reload of its entry the map is    *)
(* behind; between an edit's put and its commit it is ahead.               *)
InStep(v) ==
  /\ cache[v] # NoVideo
  /\ Creating(v) \/ (row[v] # NoVideo /\ row[v].edit = 0)
  /\ ~(flush.at = "reload" /\ flush.video = v)
  /\ \A a \in Admins : ~(AtCommit(a, v) /\ admin[a].op = "update")

ViewInv ==
  /\ LockInv /\ RequestInv
  /\ faults = 0 => \A v \in Videos : InStep(v) => RightCounts(v)

LEMMA ModelFields ==
  ASSUME NEW e, NEW n PROVE Model(e, n).edit = e /\ Model(e, n).views = n
  BY DEF Model

(* A count of the table is a number. *)
LEMMA TableCountTyped ==
  ASSUME TypeInv, NEW v \in Videos PROVE TableCount(v) \in Nat /\ watched[v] \in Nat
  BY DEF TypeInv, TypeOK, FlushRecord, TableCount, AModel

(* A video in step has no more views in the table than were watched, and   *)
(* none in the buffer when all are in the table.                           *)
LEMMA CountedViews ==
  ASSUME TypeInv, CountInv, MapInv, faults = 0, NEW v \in Videos, InStep(v)
  PROVE  TableCount(v) + pending[v].sum <= watched[v] /\ pending[v].sum \in Nat
<1>1. Tally(v) <= watched[v]
  BY DEF CountInv
<1>2. Views(row[v]) + flush.added[v] >= TableCount(v)
  <2>1. CASE row[v] = NoVideo
    BY <2>1, TallyTyped DEF TableCount
  <2>2. CASE row[v] # NoVideo
    <3>1. row[v].edit = 0
      BY <2>2 DEF InStep, Creating, MapInv, CreatingAlone, AtCommit, AtWork
    <3>2. QED
      BY <2>2, <3>1, TallyTyped DEF TableCount, Views
  <2>3. QED
    BY <2>1, <2>2
<1>3. InFlight(v) >= flush.added[v]
  BY TallyTyped DEF InFlight
<1>4. QED
  BY <1>1, <1>2, <1>3, TallyTyped, TableCountTyped DEF Tally

LEMMA InitViews == Init => ViewInv
<1> SUFFICES ASSUME Init PROVE ViewInv
  OBVIOUS
<1>1. LockInv
  BY DEF Init, LockInv, NoFlush, Nothing
<1>2. RequestInv
  BY DEF Init, RequestInv, NoRequest
<1>3. ASSUME NEW v \in Videos, InStep(v) PROVE RightCounts(v)
  <2>1. row[v] = Model(0, 0) /\ cache[v] = Model(0, 0)
    BY <1>3 DEF Init, InStep
  <2>2. TableCount(v) = 0
    BY <2>1, ModelFields DEF Init, TableCount, NoFlush, Nothing
  <2>3. \A w \in Viewers : ~InHand(w, v)
    BY DEF Init, InHand, NewRequest
  <2>4. QED
    BY <2>1, <2>2, <2>3, ModelFields DEF RightCounts, RightCount
<1>4. QED
  BY <1>1, <1>2, <1>3 DEF ViewInv

(* A step that leaves the video's counts alone, in the map, in the table   *)
(* and in hand, keeps them right.                                          *)
LEMMA RightFrame ==
  ASSUME NEW v \in Videos, RightCounts(v),
         cache'[v].views = cache[v].views, TableCount(v)' = TableCount(v), watched'[v] = watched[v],
         \A w \in Viewers : InHand(w, v)' => InHand(w, v) /\ viewer'[w].count = viewer[w].count
  PROVE  RightCounts(v)'
  BY DEF RightCounts

(* The count of the table is the right one, when no GET has another.       *)
LEMMA RightFresh ==
  ASSUME TypeInv', NEW v \in Videos, cache'[v].views = TableCount(v)', \A w \in Viewers : ~InHand(w, v)'
  PROVE  RightCounts(v)'
<1>1. TableCount(v)' \in Nat
  BY DEF TypeInv, TypeOK, FlushRecord, TableCount, AModel
<1>2. QED
  BY <1>1 DEF RightCounts, RightCount

(* A step that leaves the map, the counts and the transactions alone.      *)
LEMMA ViewFrame ==
  ASSUME ViewInv, UNCHANGED <<cache, flush, admin, faults, viewer, watched>>,
         \A v \in Videos : row'[v] = row[v] \/ (row'[v] = NoVideo /\ ~Creating(v))
  PROVE  ViewInv'
<1>1. LockInv' /\ RequestInv'
  BY DEF ViewInv, LockInv, RequestInv
<1>2. ASSUME NEW v \in Videos, InStep(v)', faults = 0 PROVE RightCounts(v)'
  <2>1. Creating(v)' <=> Creating(v)
    BY DEF Creating, AtCommit
  <2>2. row'[v] = row[v]
    BY <1>2, <2>1 DEF InStep
  <2>3. InStep(v)
    BY <1>2, <2>1, <2>2 DEF InStep, AtCommit
  <2>4. TableCount(v)' = TableCount(v)
    BY <2>2 DEF TableCount
  <2>5. RightCounts(v)
    BY <1>2, <2>3 DEF ViewInv
  <2>6. QED
    BY <2>4, <2>5, RightFrame DEF InHand
<1>3. QED
  BY <1>1, <1>2 DEF ViewInv

(* Taking models out of the hands of GETs. *)
LEMMA DetachHands ==
  ASSUME TypeInv, NEW at, NEW S, Detach(at, S), NEW w \in Viewers, NEW v, InHand(w, v)'
  PROVE  InHand(w, v) /\ viewer'[w].count = viewer[w].count /\ ~(at = "show" /\ v \in S)
<1>1. viewer[w] \in ViewRecord
  BY DEF TypeInv, TypeOK
<1>2. viewer'[w] = IF viewer[w].at = at /\ viewer[w].video \in S
                   THEN [viewer[w] EXCEPT !.attached = FALSE] ELSE viewer[w]
  BY DEF Detach
<1>3. QED
  BY <1>1, <1>2 DEF InHand, ViewRecord

LEMMA FlushHands ==
  ASSUME TypeInv, Flush
  PROVE  /\ watched' = watched
         /\ \A w \in Viewers, v \in Videos : InHand(w, v)' =>
              InHand(w, v) /\ viewer'[w].count = viewer[w].count /\ ~(Reload /\ v = flush.video)
<1> USE DEF database, history
<1>1. watched' = watched
  BY DEF Flush, FlushBegin, Drain, AddViews, AddNowhere, Reload, PruneBegin, PruneTest, PruneRemove, FlushCommit
<1>2. CASE Reload
  BY <1>1, <1>2, DetachHands DEF Reload
<1>3. CASE ~Reload /\ (AddNowhere \/ PruneRemove)
  BY <1>1, <1>3, DetachHands DEF AddNowhere, PruneRemove, DropAdder
<1>4. CASE ~Reload /\ ~AddNowhere /\ ~PruneRemove
  <2>1. viewer' = viewer
    BY <1>4 DEF Flush, FlushBegin, Drain, AddViews, PruneBegin, PruneTest, FlushCommit
  <2>2. QED
    BY <1>1, <1>4, <2>1 DEF InHand
<1>5. QED
  BY <1>2, <1>3, <1>4

LEMMA AdminHands ==
  ASSUME TypeInv, NEW a \in Admins, AdminStep(a)
  PROVE  /\ watched' = watched
         /\ \A w \in Viewers, v \in Videos : InHand(w, v)' =>
              InHand(w, v) /\ viewer'[w].count = viewer[w].count /\ ~(Store(a) /\ v = admin[a].video)
<1> USE DEF database, history
<1>1. watched' = watched
  BY DEF AdminStep, AskUpdate, AskDelete, AskCreate, Ask, Load, Refuse, Store, Commit
<1>2. CASE Store(a)
  BY <1>1, <1>2, DetachHands DEF Store
<1>3. CASE ~Store(a)
  <2>1. viewer' = viewer
    BY <1>3 DEF AdminStep, AskUpdate, AskDelete, AskCreate, Ask, Load, Refuse, Commit
  <2>2. QED
    BY <1>1, <1>3, <2>1 DEF InHand
<1>4. QED
  BY <1>2, <1>3

(* The flush is behind with the video it is about to reload only; its      *)
(* reload replaces whatever count GETs have set.                           *)
LEMMA FlushStepViews ==
  ASSUME TypeInv, TypeInv', ViewInv, Flush
  PROVE  ViewInv'
<1> DEFINE v == flush.video
<1>1. UNCHANGED <<used, admin, preload, faults, watched>>
  BY FlushMoves, FlushHands
<1>2. RequestInv'
  BY <1>1 DEF ViewInv, RequestInv
<1>3. LockInv
  BY DEF ViewInv
<1>4. \A u \in Videos : row[u] # NoVideo => row[u] \in AModel
  BY DEF TypeInv, TypeOK
<1>5. flush.added \in [Videos -> Nat] /\ flush.locked \subseteq Videos
  BY DEF TypeInv, TypeOK, FlushRecord
<1>6. \A u \in flush.locked : row[u] # NoVideo
  BY DEF TypeInv, Located
<1>7. \A u \in Videos : Creating(u)' <=> Creating(u)
  BY <1>1 DEF Creating, AtCommit
<1>8. \A u \in Videos : faults = 0 /\ InStep(u) => RightCounts(u)
  BY DEF ViewInv
<1>9. SUFFICES LockInv' /\ \A u \in Videos : faults = 0 /\ InStep(u)' => RightCounts(u)'
  BY <1>1, <1>2 DEF ViewInv
<1>10. CASE AddViews
  <2>1. /\ UNCHANGED <<row, cache>> /\ v \in Videos
        /\ flush'.at = "reload" /\ flush'.video = v /\ flush'.locked = flush.locked \cup {v}
        /\ \A u \in Videos : u # v => flush'.added[u] = flush.added[u]
    BY <1>10, FlushMoves
  <2>2. flush.at = "add"
    BY <1>10 DEF AddViews
  <2>3. LockInv'
    BY <1>3, <2>1 DEF LockInv
  <2>4. ASSUME NEW u \in Videos, faults = 0, InStep(u)' PROVE RightCounts(u)'
    <3>1. u # v
      BY <2>1, <2>4 DEF InStep
    <3>2. InStep(u)
      BY <1>1, <1>7, <2>1, <2>2, <2>4 DEF InStep, AtCommit
    <3>3. TableCount(u)' = TableCount(u)
      BY <2>1, <3>1 DEF TableCount
    <3>4. QED
      BY <1>1, <1>8, <2>1, <2>4, <3>2, <3>3, FlushHands, RightFrame
  <2>5. QED
    BY <2>3, <2>4
<1>11. CASE Reload
  <2>1. /\ row' = row /\ flush.at = "reload" /\ v \in flush.locked /\ v \in Videos
        /\ flush'.at = "drain" /\ flush'.locked = flush.locked /\ flush'.added = flush.added
        /\ \A u \in Videos :
             cache'[u] = IF u = v THEN Model(row[v].edit, row[v].views + flush.added[v]) ELSE cache[u]
    BY <1>11, FlushMoves
  <2>2. LockInv'
    BY <1>3, <2>1 DEF LockInv
  <2>3. ASSUME NEW u \in Videos, faults = 0, InStep(u)' PROVE RightCounts(u)'
    <3>1. CASE u = v
      <4>1. cache'[u].views = TableCount(u)'
        BY <1>6, <2>1, <3>1, ModelFields DEF TableCount
      <4>2. \A w \in Viewers : ~InHand(w, u)'
        BY <1>11, <2>1, <3>1, FlushHands
      <4>3. QED
        BY <4>1, <4>2, RightFresh
    <3>2. CASE u # v
      <4>1. InStep(u)
        BY <1>1, <1>7, <2>1, <2>3, <3>2 DEF InStep, AtCommit
      <4>2. TableCount(u)' = TableCount(u) /\ cache'[u] = cache[u]
        BY <2>1, <3>2 DEF TableCount
      <4>3. QED
        BY <1>1, <1>8, <2>3, <4>1, <4>2, FlushHands, RightFrame
    <3>3. QED
      BY <3>1, <3>2
  <2>4. QED
    BY <2>2, <2>3
<1>12. CASE FlushCommit
  <2>1. /\ cache' = cache /\ flush' = NoFlush /\ flush.at = "prune"
        /\ \A u \in Videos :
             row'[u] = IF u \in flush.locked THEN Model(row[u].edit, row[u].views + flush.added[u])
                       ELSE row[u]
    BY <1>12, FlushMoves
  <2>2. /\ flush'.at = "idle" /\ flush'.locked = {}
        /\ \A u \in Videos : flush'.added[u] = 0
    BY <2>1 DEF NoFlush, Nothing
  <2>3. LockInv'
    BY <2>2 DEF LockInv
  <2>4. ASSUME NEW u \in Videos, faults = 0, InStep(u)' PROVE RightCounts(u)'
    <3>1. InStep(u) /\ TableCount(u)' = TableCount(u)
      <4>1. CASE u \in flush.locked
        <5>1. /\ row[u] # NoVideo /\ row[u].views \in Nat /\ flush.added[u] \in Nat
              /\ row'[u] = Model(row[u].edit, row[u].views + flush.added[u])
          BY <1>4, <1>5, <1>6, <2>1, <4>1 DEF AModel
        <5>2. row'[u] # NoVideo
          BY <1>4, <5>1, ModelAssumption DEF Model, AModel
        <5>3. row'[u].edit = row[u].edit /\ row'[u].views = row[u].views + flush.added[u]
          BY <5>1, ModelFields
        <5>4. InStep(u)
          BY <1>1, <1>7, <2>1, <2>4, <5>1, <5>3 DEF InStep, AtCommit
        <5>5. QED
          BY <2>2, <5>1, <5>2, <5>3, <5>4 DEF TableCount
      <4>2. CASE u \notin flush.locked
        <5>1. row'[u] = row[u] /\ flush.added[u] = 0
          BY <1>3, <2>1, <4>2 DEF LockInv
        <5>2. InStep(u)
          BY <1>1, <1>7, <2>1, <2>4, <5>1 DEF InStep, AtCommit
        <5>3. QED
          BY <2>2, <5>1, <5>2 DEF TableCount
      <4>3. QED
        BY <4>1, <4>2
    <3>2. QED
      BY <1>1, <1>8, <2>1, <2>4, <3>1, FlushHands, RightFrame
  <2>5. QED
    BY <2>3, <2>4
<1>13. CASE ~AddViews /\ ~Reload /\ ~FlushCommit
  <2>1. /\ UNCHANGED <<row, cache>> /\ flush.at # "reload" /\ flush'.at # "reload"
        /\ flush'.locked = flush.locked /\ flush'.added = flush.added
        /\ flush'.at = "idle" => flush.at = "idle"
    BY <1>13, FlushMoves
  <2>2. LockInv'
    BY <1>3, <2>1 DEF LockInv
  <2>3. ASSUME NEW u \in Videos, faults = 0, InStep(u)' PROVE RightCounts(u)'
    <3>1. InStep(u)
      BY <1>1, <1>7, <2>1, <2>3 DEF InStep, AtCommit
    <3>2. TableCount(u)' = TableCount(u)
      BY <2>1 DEF TableCount
    <3>3. QED
      BY <1>1, <1>8, <2>1, <2>3, <3>1, <3>2, FlushHands, RightFrame
  <2>4. QED
    BY <2>2, <2>3
<1>14. QED
  BY <1>10, <1>11, <1>12, <1>13

(* An admin's step: a form changes the count in the map only with an edit, *)
(* and a new video has none.                                               *)
LEMMA AdminStepViews ==
  ASSUME TypeInv, TypeInv', MapInv, ViewInv, NEW a \in Admins, AdminStep(a)
  PROVE  ViewInv'
<1> DEFINE v == admin[a].video
<1>1. /\ UNCHANGED <<flush, preload, pending, faults, watched>>
      /\ \A b \in Admins : b # a => admin'[b] = admin[b]
  BY AdminMoves, AdminHands
<1>2. LockInv' /\ RequestInv
  BY <1>1 DEF ViewInv, LockInv
<1>3. faults = 0 => CreatingAlone /\ \A u \in Videos : InStep(u) => RightCounts(u)
  BY DEF ViewInv, MapInv
<1>4. CASE AskUpdate(a) \/ AskDelete(a) \/ AskCreate(a) \/ Refuse(a) \/ Load(a)
  <2>1. admin[a].at \in {"asked", "idle"}
    BY <1>4, AdminMoves DEF AskUpdate, AskDelete, AskCreate, Ask
  <2>2. UNCHANGED <<row, cache>>
    BY <1>4, AdminMoves
  <2>3. admin'[a].at # "commit"
    BY <1>4, AdminMoves DEF NoRequest
  <2>4. RequestInv'
    <3>1. /\ admin'[a].op = "update" => admin'[a].model.edit > 0
          /\ admin'[a].op = "create" => admin'[a].model = Model(0, 0)
      <4>1. CASE AskUpdate(a) \/ AskDelete(a) \/ AskCreate(a)
        BY <4>1, AdminMoves
      <4>2. CASE Refuse(a)
        BY <4>2, AdminMoves DEF NoRequest
      <4>3. CASE Load(a)
        BY <1>2, <4>3, AdminMoves DEF RequestInv
      <4>4. QED
        BY <1>4, <4>1, <4>2, <4>3
    <3>2. QED
      BY <1>1, <1>2, <3>1 DEF RequestInv
  <2>5. ASSUME NEW u \in Videos, faults = 0, InStep(u)' PROVE RightCounts(u)'
    <3>1. Creating(u)' => Creating(u)
      BY <1>1, <2>3 DEF Creating, AtCommit
    <3>2. InStep(u)
      BY <1>1, <2>1, <2>2, <2>5, <3>1 DEF InStep, AtCommit
    <3>3. TableCount(u)' = TableCount(u)
      BY <1>1, <2>2 DEF TableCount
    <3>4. QED
      BY <1>1, <1>3, <2>2, <2>5, <3>2, <3>3, AdminHands, RightFrame
  <2>6. QED
    BY <1>1, <1>2, <2>4, <2>5 DEF ViewInv
<1>5. CASE Store(a)
  <2>1. /\ UNCHANGED <<row, used>> /\ admin[a].at = "store" /\ v \in Videos
        /\ admin'[a].at = "commit" /\ admin'[a].op = admin[a].op
        /\ admin'[a].model = admin[a].model /\ admin'[a].video = v
        /\ \A u \in Videos :
             cache'[u] = IF u # v THEN cache[u] ELSE IF admin[a].op = "delete" THEN NoVideo ELSE admin[a].model
    BY <1>5, AdminMoves
  <2>2. RequestInv'
    BY <1>1, <1>2, <2>1 DEF RequestInv
  <2>3. ASSUME NEW u \in Videos, faults = 0, InStep(u)' PROVE RightCounts(u)'
    <3>1. CASE u = v
      <4>1. AtCommit(a, u)' /\ admin[a].op \notin {"update", "delete"}
        BY <2>1, <2>3, <3>1 DEF InStep, AtCommit
      <4>2. admin[a].op = "create"
        BY <2>1, <4>1, WritesAssumption DEF TypeInv, TypeOK, AdminRecord, Located
      <4>3. row[u] = NoVideo
        BY <1>3, <2>1, <2>3, <3>1, <4>2 DEF CreatingAlone, AtWork
      <4>4. TableCount(u)' = 0
        BY <2>1, <4>3 DEF TableCount
      <4>5. cache'[u] = Model(0, 0)
        BY <1>2, <2>1, <3>1, <4>2 DEF RequestInv
      <4>6. \A w \in Viewers : ~InHand(w, u)'
        BY <1>5, <3>1, AdminHands
      <4>7. QED
        BY <4>4, <4>5, <4>6, ModelFields, RightFresh
    <3>2. CASE u # v
      <4>1. Creating(u)' => Creating(u)
        BY <1>1, <2>1, <3>2 DEF Creating, AtCommit
      <4>2. InStep(u)
        BY <1>1, <2>1, <2>3, <3>2, <4>1 DEF InStep, AtCommit
      <4>3. TableCount(u)' = TableCount(u) /\ cache'[u] = cache[u]
        BY <1>1, <2>1, <3>2 DEF TableCount
      <4>4. QED
        BY <1>1, <1>3, <2>3, <4>2, <4>3, AdminHands, RightFrame
    <3>3. QED
      BY <3>1, <3>2
  <2>4. QED
    BY <1>1, <1>2, <2>2, <2>3 DEF ViewInv
<1>6. CASE Commit(a)
  <2>1. /\ UNCHANGED <<cache, used>> /\ admin[a].at = "commit" /\ v \in Videos /\ v \notin flush.locked
        /\ admin'[a] = NoRequest
        /\ \A u \in Videos :
             row'[u] = IF u # v \/ (admin[a].op # "create" /\ row[v] = NoVideo) THEN row[u]
                       ELSE IF admin[a].op = "delete" THEN NoVideo ELSE admin[a].model
    BY <1>6, AdminMoves
  <2>2. admin'[a].at = "idle" /\ admin'[a].op = "none"
    BY <2>1 DEF NoRequest
  <2>3. RequestInv'
    BY <1>1, <1>2, <2>2 DEF RequestInv
  <2>4. ASSUME NEW u \in Videos, Creating(u)' PROVE Creating(u)
    BY <1>1, <2>2, <2>4 DEF Creating, AtCommit
  <2>5. ASSUME NEW u \in Videos, faults = 0, InStep(u)' PROVE RightCounts(u)'
    <3>1. CASE u # v
      <4>1. InStep(u) /\ row'[u] = row[u]
        BY <1>1, <2>1, <2>2, <2>4, <2>5, <3>1 DEF InStep, AtCommit
      <4>2. TableCount(u)' = TableCount(u)
        BY <1>1, <4>1 DEF TableCount
      <4>3. QED
        BY <1>1, <1>3, <2>1, <2>5, <4>1, <4>2, AdminHands, RightFrame
    <3>2. CASE u = v
      <4>1. ~Creating(u)'
        <5>1. SUFFICES ASSUME NEW b \in Admins, admin'[b].op = "create", AtCommit(b, u)' PROVE FALSE
          BY DEF Creating
        <5>2. b # a /\ admin[b].op = "create" /\ AtWork(b, u)
          BY <1>1, <2>2, <5>1 DEF AtCommit, AtWork
        <5>3. AtWork(a, u)
          BY <2>1, <3>2 DEF AtWork
        <5>4. QED
          BY <1>3, <2>5, <5>2, <5>3 DEF CreatingAlone
      <4>2. row'[u] # NoVideo /\ row'[u].edit = 0 /\ cache[u] # NoVideo
        BY <2>1, <2>5, <3>2, <4>1 DEF InStep
      <4>3. admin[a].op = "create"
        <5>1. SUFFICES ASSUME admin[a].op # "create" PROVE FALSE
          OBVIOUS
        <5>2. row[u] # NoVideo /\ admin[a].op # "delete" /\ row'[u] = admin[a].model
          BY <2>1, <3>2, <4>2, <5>1
        <5>3. admin[a].op = "update"
          BY <2>1, <5>1, <5>2 DEF TypeInv, TypeOK, AdminRecord, Located
        <5>4. QED
          BY <1>2, <4>2, <5>2, <5>3 DEF RequestInv
      <4>4. row[u] = NoVideo /\ row'[u] = Model(0, 0)
        BY <1>2, <1>3, <2>1, <2>5, <3>2, <4>3 DEF RequestInv, CreatingAlone, AtWork
      <4>5. flush'.added[u] = 0
        BY <1>3, <2>1, <3>2, <1>1 DEF ViewInv, LockInv
      <4>6. TableCount(u) = 0 /\ TableCount(u)' = 0
        BY <4>2, <4>4, <4>5, ModelFields DEF TableCount
      <4>7. \A b \in Admins : b # a => ~AtWork(b, u)
        BY <1>3, <2>1, <2>5, <3>2, <4>3 DEF CreatingAlone, AtWork
      <4>8. InStep(u)
        <5>1. ~(flush.at = "reload" /\ flush.video = u)
          BY <1>1, <2>5, <3>2 DEF InStep
        <5>2. Creating(u)
          BY <2>1, <3>2, <4>3 DEF Creating, AtCommit
        <5>3. \A b \in Admins : ~(AtCommit(b, u) /\ admin[b].op = "update")
          BY <3>2, <4>3, <4>7 DEF AtCommit, AtWork
        <5>4. QED
          BY <4>2, <5>1, <5>2, <5>3 DEF InStep
      <4>9. QED
        BY <1>1, <1>3, <2>1, <2>5, <3>2, <4>6, <4>8, AdminHands, RightFrame
    <3>3. QED
      BY <3>1, <3>2
  <2>6. QED
    BY <1>1, <1>2, <2>3, <2>5 DEF ViewInv
<1>7. QED
  BY <1>4, <1>5, <1>6 DEF AdminStep

(* A viewer's step: a GET takes the map's count and sets it with what is   *)
(* buffered, which is nothing when every view is in the table.             *)
LEMMA ViewerViews ==
  ASSUME TypeInv, CountInv, MapInv, ViewInv, NEW w \in Viewers, Watch(w) \/ Count(w) \/ Look(w) \/ Show(w)
  PROVE  ViewInv'
<1> USE DEF database, history
<1>1. UNCHANGED <<row, flush, admin, faults>>
  BY DEF Watch, Count, Look, Show
<1>2. LockInv' /\ RequestInv'
  BY <1>1 DEF ViewInv, LockInv, RequestInv
<1>3. \A v \in Videos : TableCount(v)' = TableCount(v)
  BY <1>1 DEF TableCount
<1>4. \A v \in Videos : cache'[v] = NoVideo <=> cache[v] = NoVideo
  <2>1. CASE Watch(w) \/ Count(w)
    BY <2>1 DEF Watch, Count
  <2>2. CASE Look(w) \/ Show(w)
    BY <2>2, LookMoves
  <2>3. QED
    BY <2>1, <2>2
<1>5. \A v \in Videos : InStep(v)' <=> InStep(v)
  BY <1>1, <1>4 DEF InStep, Creating, AtCommit
<1>6. SUFFICES ASSUME NEW v \in Videos, faults = 0, InStep(v) PROVE RightCounts(v)'
  BY <1>1, <1>2, <1>5 DEF ViewInv
<1> DEFINE table == TableCount(v)
<1>7. /\ RightCount(table, watched[v], cache[v].views)
      /\ \A u \in Viewers : InHand(u, v) => RightCount(table, watched[v], viewer[u].count)
  BY <1>6 DEF ViewInv, RightCounts
<1>8. /\ TableCount(v) + pending[v].sum <= watched[v]
      /\ pending[v].sum \in Nat /\ TableCount(v) \in Nat /\ watched[v] \in Nat
  BY <1>6, CountedViews, TableCountTyped
<1>9. DOMAIN viewer = Viewers /\ viewer[w] \in ViewRecord
  BY DEF TypeInv, TypeOK
<1>10. CASE Watch(w)
  <2>1. \A u \in Viewers : InHand(u, v)' => InHand(u, v) /\ viewer'[u].count = viewer[u].count
    BY <1>9, <1>10 DEF Watch, InHand
  <2>2. QED
    BY <1>3, <1>6, <1>10, <2>1, RightFrame DEF Watch, ViewInv
<1>11. CASE Count(w)
  <2>1. \A u \in Viewers : InHand(u, v)' => InHand(u, v) /\ viewer'[u].count = viewer[u].count
    BY <1>9, <1>11 DEF Count, Answered, NewRequest, InHand
  <2>2. watched'[v] \in {watched[v], watched[v] + 1} /\ cache' = cache
    BY <1>11 DEF Count, TypeInv, TypeOK
  <2>3. \A n : RightCount(table, watched[v], n) => RightCount(table, watched'[v], n)
    BY <1>8, <2>2 DEF RightCount
  <2>4. QED
    BY <1>3, <1>7, <2>1, <2>2, <2>3 DEF RightCounts
<1>12. CASE Look(w)
  <2>1. PICK u \in Videos : viewer' = [viewer EXCEPT ![w] =
            [at |-> "show", video |-> u, attached |-> TRUE, count |-> cache[u].views]]
    BY <1>12 DEF Look
  <2>2. UNCHANGED <<cache, watched>>
    BY <1>12 DEF Look
  <2>3. \A x \in Viewers : InHand(x, v)' => viewer'[x].count = cache[v].views
                                             \/ (InHand(x, v) /\ viewer'[x].count = viewer[x].count)
    BY <1>9, <2>1 DEF InHand
  <2>4. QED
    BY <1>3, <1>7, <2>2, <2>3 DEF RightCounts
<1>13. CASE Show(w)
  <2>1. \A u \in Viewers : InHand(u, v)' => InHand(u, v) /\ viewer'[u].count = viewer[u].count
    BY <1>9, <1>13 DEF Show, Answered, NewRequest, InHand
  <2>2. watched' = watched
    BY <1>13 DEF Show
  <2>3. RightCount(table, watched[v], cache'[v].views)
    <3>1. CASE InHand(w, v)
      <4>1. cache' = [cache EXCEPT ![v] = Model(cache[v].edit, viewer[w].count + pending[v].sum)]
        BY <1>13, <3>1 DEF Show, InHand
      <4>2. cache'[v].views = viewer[w].count + pending[v].sum
        BY <4>1, ModelFields DEF TypeInv, TypeOK
      <4>3. viewer[w].count \in Nat /\ RightCount(table, watched[v], viewer[w].count)
        BY <1>7, <1>9, <3>1 DEF ViewRecord
      <4>4. QED
        BY <1>8, <4>2, <4>3 DEF RightCount
    <3>2. CASE ~InHand(w, v)
      <4>1. cache'[v] = cache[v]
        BY <1>13, <3>2 DEF Show, InHand, TypeInv, TypeOK
      <4>2. QED
        BY <1>7, <4>1
    <3>3. QED
      BY <3>1, <3>2
  <2>4. QED
    BY <1>3, <1>7, <2>1, <2>2, <2>3 DEF RightCounts
<1>14. QED
  BY <1>10, <1>11, <1>12, <1>13

(* The cascade writes no count; after a fault nothing is claimed.          *)
LEMMA OtherViews ==
  ASSUME TypeInv, MapInv, ViewInv,
         \/ CascadeDelete \/ AdminRollback \/ FlushRollback \/ Restart
         \/ PreloadRead \/ PreloadPut
  PROVE  ViewInv'
<1> USE DEF database, history
<1>1. CASE CascadeDelete
  <2>1. PICK v \in Videos : row[v] # NoVideo /\ row' = [row EXCEPT ![v] = NoVideo]
    BY <1>1 DEF CascadeDelete
  <2>2. CASE faults = 0
    <3>1. ~Creating(v)
      BY <2>1, <2>2 DEF MapInv, CreatingAlone, Creating, AtCommit, AtWork
    <3>2. \A u \in Videos : row'[u] = row[u] \/ (row'[u] = NoVideo /\ ~Creating(u))
      BY <2>1, <3>1 DEF TypeInv, TypeOK
    <3>3. QED
      BY <1>1, <3>2, ViewFrame DEF CascadeDelete
  <2>3. CASE faults # 0
    BY <1>1, <2>3 DEF CascadeDelete, ViewInv, LockInv, RequestInv
  <2>4. QED
    BY <2>2, <2>3
<1>2. CASE AdminRollback \/ FlushRollback \/ Restart
  <2>1. faults' # 0
    BY <1>2 DEF AdminRollback, FlushRollback, Restart, Happens, TypeInv, TypeOK
  <2>2. LockInv'
    BY <1>2 DEF AdminRollback, FlushRollback, Restart, NoFlush, Nothing, ViewInv, LockInv
  <2>3. \A a \in Admins : admin'[a] = admin[a] \/ admin'[a] = NoRequest
    BY <1>2 DEF AdminRollback, FlushRollback, Restart, TypeInv, TypeOK
  <2>4. RequestInv'
    BY <2>3 DEF ViewInv, RequestInv, NoRequest
  <2>5. QED
    BY <2>1, <2>2, <2>4 DEF ViewInv
<1>3. CASE PreloadRead \/ PreloadPut
  <2>1. faults' = faults /\ faults # 0
    BY <1>3 DEF PreloadRead, PreloadPut, MapInv
  <2>2. LockInv' /\ RequestInv'
    BY <1>3 DEF PreloadRead, PreloadPut, ViewInv, LockInv, RequestInv
  <2>3. QED
    BY <2>1, <2>2 DEF ViewInv
<1>4. QED
  BY <1>1, <1>2, <1>3

(* Every GET writes the count it shows into the model that the map holds   *)
(* (CatalogService.java:66-67), and the next GET adds the buffer to that   *)
(* sum again; but the flush's reload replaces it, so that when the flush   *)
(* is through and the views of a video are in its row, the map has the     *)
(* row's count, and never less: whatever was watched, shown, created,      *)
(* deleted and flushed in whichever order, for every number of videos,     *)
(* admins and viewers, until a fault or an edit.                           *)
THEOREM FlushSettlesCounts == Spec => []CountSettles
<1>1. ASSUME TypeInv, TypeInv', CountInv, MapInv, ViewInv, [Next]_vars PROVE ViewInv'
  <2>1. CASE UNCHANGED vars
    BY <1>1, <2>1, ViewFrame DEF vars
  <2>2. CASE Next
    BY <1>1, <2>2, FlushStepViews, AdminStepViews, ViewerViews, OtherViews DEF Next
  <2>3. QED
    BY <1>1, <2>1, <2>2
<1>2. ASSUME TypeInv, ViewInv PROVE CountSettles
  <2>1. SUFFICES ASSUME Quiet, faults = 0, NEW v \in Videos, Unedited(v)
                 PROVE  /\ cache[v].views >= row[v].views
                        /\ row[v].views = watched[v] => cache[v].views = row[v].views
    BY DEF CountSettles
  <2>2. InStep(v)
    BY <2>1 DEF Quiet, InStep, AtCommit, Unedited
  <2>3. row[v].views \in Nat /\ flush.added[v] = 0
    BY <1>2, <2>1 DEF ViewInv, LockInv, Quiet, Unedited, TypeInv, TypeOK, AModel
  <2>4. TableCount(v) = row[v].views
    BY <2>1, <2>3 DEF TableCount, Unedited
  <2>5. RightCounts(v)
    BY <1>2, <2>1, <2>2 DEF ViewInv
  <2>6. QED
    BY <2>4, <2>5 DEF RightCounts, RightCount
<1>3. QED
  BY <1>1, <1>2, InitViews, InitMap, StepMap, TypeInvariant, CountInvariant, PTL DEF Spec

-----------------------------------------------------------------------------
(***************************************************************************)
(* Where the map and the table may part                                    *)
(***************************************************************************)

(* The parties of Writing, as a function of what it reads. *)
Parties(requests, locked, at, v) ==
  {<<"admin", a>> : a \in {b \in Admins : requests[b].video = v /\ requests[b].at \in {"store", "commit"}}}
  \cup (IF v \in locked THEN {<<"flush", NoId>>} ELSE {})
  \cup (IF at # "done" THEN {<<"preload", NoId>>} ELSE {})

(* Two parties are a crowd. *)
LEMMA TwoParties ==
  ASSUME NEW requests, NEW locked, NEW at, NEW v,
         ~(Cardinality(Parties(requests, locked, at, v)) > 1),
         NEW x \in Parties(requests, locked, at, v), NEW y \in Parties(requests, locked, at, v)
  PROVE  x = y
<1> DEFINE A == {b \in Admins : requests[b].video = v /\ requests[b].at \in {"store", "commit"}}
           T == {<<"admin", a>> : a \in A}
           P == Parties(requests, locked, at, v)
           f == [a \in A |-> <<"admin", a>>]
<1>1. IsFiniteSet(T)
  <2>1. IsFiniteSet(A)
    BY AdminsAssumption, FS_Subset
  <2>2. f \in Surjection(A, T)
    BY DEF Surjection
  <2> HIDE DEF A, T, f
  <2>3. QED
    BY <2>1, <2>2, FS_Surjection
<1>2. IsFiniteSet(P)
  <2>1. IsFiniteSet(T \cup (IF v \in locked THEN {<<"flush", NoId>>} ELSE {}))
    <3> HIDE DEF T
    <3>1. CASE v \in locked
      BY <1>1, <3>1, FS_AddElement
    <3>2. CASE v \notin locked
      BY <1>1, <3>2
    <3>3. QED
      BY <3>1, <3>2
  <2>2. P = (T \cup (IF v \in locked THEN {<<"flush", NoId>>} ELSE {}))
            \cup (IF at # "done" THEN {<<"preload", NoId>>} ELSE {})
    BY DEF Parties
  <2> DEFINE U == T \cup (IF v \in locked THEN {<<"flush", NoId>>} ELSE {})
  <2> HIDE DEF U, T, P
  <2>3. CASE at # "done"
    <3>1. P = U \cup {<<"preload", NoId>>}
      BY <2>2, <2>3 DEF U
    <3>2. QED
      BY <2>1, <3>1, FS_AddElement DEF U
  <2>4. CASE at = "done"
    BY <2>1, <2>2, <2>4 DEF U
  <2>5. QED
    BY <2>3, <2>4
<1> HIDE DEF P
<1>3. SUFFICES ASSUME x # y PROVE FALSE
  OBVIOUS
<1>4. /\ IsFiniteSet({x}) /\ Cardinality({x}) = 1
      /\ IsFiniteSet({x} \cup {y}) /\ Cardinality({x} \cup {y}) = 2
  <2>1. IsFiniteSet({x}) /\ Cardinality({x}) = 1
    BY FS_Singleton
  <2>2. y \notin {x}
    BY <1>3
  <2>3. IsFiniteSet({x} \cup {y}) /\ Cardinality({x} \cup {y}) = Cardinality({x}) + 1
    BY <2>1, <2>2, FS_AddElement
  <2>4. QED
    BY <2>1, <2>3
<1>5. {x} \cup {y} \in SUBSET P
  BY DEF P
<1>6. Cardinality({x} \cup {y}) <= Cardinality(P) /\ Cardinality(P) \in Nat
  BY <1>2, <1>5, FS_Subset, FS_CardinalityType
<1>7. QED
  BY <1>4, <1>6 DEF P

(* Who writes a video that is not contended writes it alone. *)
LEMMA WritesAlone ==
  ASSUME NEW requests, NEW locked, NEW at, NEW v,
         ~(Cardinality(Parties(requests, locked, at, v)) > 1)
  PROVE  /\ \A a, b \in Admins :
              /\ requests[a].video = v /\ requests[a].at \in {"store", "commit"}
              /\ requests[b].video = v /\ requests[b].at \in {"store", "commit"}
              => a = b
         /\ \A a \in Admins :
              requests[a].video = v /\ requests[a].at \in {"store", "commit"}
              => v \notin locked /\ at = "done"
         /\ v \in locked => at = "done"
<1> DEFINE P == Parties(requests, locked, at, v)
<1>1. \A x, y \in P : x = y
  BY TwoParties
<1>2. \A a \in Admins : requests[a].video = v /\ requests[a].at \in {"store", "commit"}
        => <<"admin", a>> \in P
  BY DEF Parties
<1>3. v \in locked => <<"flush", NoId>> \in P
  BY DEF Parties
<1>4. at # "done" => <<"preload", NoId>> \in P
  BY DEF Parties
<1>5. \A a : <<"admin", a>> # <<"flush", NoId>> /\ <<"admin", a>> # <<"preload", NoId>>
  OBVIOUS
<1>6. <<"flush", NoId>> # <<"preload", NoId>>
  OBVIOUS
<1> HIDE DEF P
<1>7. \A a, b : <<"admin", a>> = <<"admin", b>> => a = b
  OBVIOUS
<1>8. QED
  BY <1>1, <1>2, <1>3, <1>4, <1>5, <1>6, <1>7

(* What holds of a video nobody suspects: one party at most is writing it, *)
(* and the map is where that party has brought it.                         *)
Settled(v) ==
  /\ ~Contended(v)
  /\ preload.at = "done" /\ (\A a \in Admins : ~AtCommit(a, v)) => Agree(v)
  /\ preload.at = "put" => preload.rows[v] = row[v] /\ cache[v] = NoVideo
  /\ \A a \in Admins : AtCommit(a, v) =>
       IF admin[a].op = "delete" THEN cache[v] = NoVideo
       ELSE cache[v] # NoVideo /\ cache[v].edit = admin[a].model.edit
  /\ \A a \in Admins : AtWork(a, v) /\ admin[a].op # "create" => row[v] # NoVideo

PartInv == \A v \in Videos \ suspect : Settled(v)

LEMMA Alone ==
  ASSUME NEW v, ~Contended(v)
  PROVE  /\ \A a, b \in Admins : AtWork(a, v) /\ AtWork(b, v) => a = b
         /\ \A a \in Admins : AtWork(a, v) => v \notin flush.locked /\ preload.at = "done"
         /\ v \in flush.locked => preload.at = "done"
<1>1. Writing(v) = Parties(admin, flush.locked, preload.at, v)
  BY DEF Writing, Parties
<1>2. ~(Cardinality(Parties(admin, flush.locked, preload.at, v)) > 1)
  BY <1>1 DEF Contended
<1>3. QED
  BY <1>2, WritesAlone DEF AtWork

LEMMA AloneNext ==
  ASSUME NEW v, ~Contended(v)'
  PROVE  /\ \A a, b \in Admins : AtWork(a, v)' /\ AtWork(b, v)' => a = b
         /\ \A a \in Admins : AtWork(a, v)' => v \notin flush'.locked /\ preload'.at = "done"
         /\ v \in flush'.locked => preload'.at = "done"
<1>1. Writing(v)' = Parties(admin', flush'.locked, preload'.at, v)
  BY DEF Writing, Parties
<1>2. ~(Cardinality(Parties(admin', flush'.locked, preload'.at, v)) > 1)
  BY <1>1 DEF Contended
<1>3. QED
  BY <1>2, WritesAlone DEF AtWork

(* Why the auditor does not suspect a video after a step. *)
LEMMA Unsuspected ==
  ASSUME AuditNext, PartInv, NEW v \in Videos, v \notin suspect'
  PROVE  /\ ~Contended(v)' /\ ~Cascaded(v)
         /\ ~Restarted => Settled(v) /\ ~RolledBack(v)
<1>1. suspect' = (IF Restarted THEN {} ELSE suspect \cup {u \in Videos : Cascaded(u) \/ RolledBack(u)})
                 \cup {u \in Videos : Contended(u)'}
  BY DEF AuditNext
<1>2. ~Contended(v)'
  BY <1>1
<1>3. ~Restarted => v \notin suspect /\ ~RolledBack(v)
  BY <1>1
<1>4. ~Cascaded(v)
  <2>1. CASE Restarted
    BY <2>1 DEF Restarted, Cascaded, CascadeDelete
  <2>2. CASE ~Restarted
    BY <1>1, <2>2
  <2>3. QED
    BY <2>1, <2>2
<1>5. QED
  BY <1>2, <1>3, <1>4 DEF PartInv

(* A step that keeps a video's row, the writers of it and what its entry   *)
(* says of edits keeps it settled.                                         *)
LEMMA SettledFrame ==
  ASSUME NEW v \in Videos, Settled(v), ~Contended(v)',
         row'[v] = row[v], preload' = preload,
         cache'[v] = NoVideo <=> cache[v] = NoVideo,
         cache'[v] # NoVideo => cache'[v].edit = cache[v].edit,
         \A a \in Admins :
           /\ AtCommit(a, v)' <=> AtCommit(a, v)
           /\ AtWork(a, v)' => AtWork(a, v) /\ admin'[a].op = admin[a].op /\ admin'[a].model = admin[a].model
  PROVE  Settled(v)'
<1>1. preload'.at = "done" /\ (\A a \in Admins : ~AtCommit(a, v)') => Agree(v)'
  BY DEF Settled, Agree
<1>2. preload'.at = "put" => preload'.rows[v] = row'[v] /\ cache'[v] = NoVideo
  BY DEF Settled
<1>3. ASSUME NEW a \in Admins, AtCommit(a, v)'
      PROVE  IF admin'[a].op = "delete" THEN cache'[v] = NoVideo
             ELSE cache'[v] # NoVideo /\ cache'[v].edit = admin'[a].model.edit
  <2>1. AtWork(a, v)' /\ AtCommit(a, v)
    BY <1>3 DEF AtWork, AtCommit
  <2>2. admin'[a].op = admin[a].op /\ admin'[a].model = admin[a].model
    BY <2>1
  <2>3. QED
    BY <2>1, <2>2 DEF Settled
<1>4. \A a \in Admins : AtWork(a, v)' /\ admin'[a].op # "create" => row'[v] # NoVideo
  BY DEF Settled
<1>5. QED
  BY <1>1, <1>2, <1>3, <1>4 DEF Settled

(* The flush's reload brings the row it has locked; its commit changes the *)
(* counts of the rows it has locked only.                                  *)
LEMMA FlushStepSettled ==
  ASSUME TypeInv, Flush, NEW v \in Videos, Settled(v), ~Contended(v)'
  PROVE  Settled(v)'
<1>1. UNCHANGED <<used, admin, preload, faults>>
  BY FlushMoves
<1>2. \A a \in Admins : (AtCommit(a, v)' <=> AtCommit(a, v)) /\ (AtWork(a, v)' <=> AtWork(a, v))
  BY <1>1 DEF AtCommit, AtWork
<1>3. row[v] # NoVideo =>
        /\ Model(row[v].edit, row[v].views + flush.added[v]) # NoVideo
        /\ Model(row[v].edit, row[v].views + flush.added[v]).edit = row[v].edit
  BY ModelAssumption DEF TypeInv, TypeOK, FlushRecord, Model, AModel
<1>4. v \in flush.locked => row[v] # NoVideo
  BY DEF TypeInv, Located
<1>5. ASSUME v \in flush.locked
      PROVE  preload.at = "done" /\ (\A a \in Admins : ~AtWork(a, v)) /\ Agree(v)
  <2>1. preload.at = "done" /\ \A a \in Admins : ~AtWork(a, v)
    BY <1>5, Alone DEF Settled
  <2>2. \A a \in Admins : ~AtCommit(a, v)
    BY <2>1 DEF AtWork, AtCommit
  <2>3. QED
    BY <2>1, <2>2 DEF Settled
<1>6. CASE v \in flush.locked /\ (Reload \/ FlushCommit)
  <2>1. Agree(v)'
    <3>1. CASE Reload
      <4>1. row' = row /\ (cache'[v] = cache[v] \/ cache'[v] = Model(row[v].edit, row[v].views + flush.added[v]))
        BY <3>1, FlushMoves
      <4>2. QED
        BY <1>3, <1>4, <1>5, <1>6, <4>1 DEF Agree
    <3>2. CASE FlushCommit
      <4>1. cache' = cache /\ row'[v] = Model(row[v].edit, row[v].views + flush.added[v])
        BY <1>6, <3>2, FlushMoves
      <4>2. QED
        BY <1>3, <1>4, <1>5, <1>6, <4>1 DEF Agree
    <3>3. QED
      BY <1>6, <3>1, <3>2
  <2>2. \A a \in Admins : ~AtWork(a, v)' /\ ~AtCommit(a, v)'
    BY <1>2, <1>5, <1>6 DEF AtWork, AtCommit
  <2>3. preload'.at = "done"
    BY <1>1, <1>5, <1>6
  <2>4. QED
    BY <2>1, <2>2, <2>3 DEF Settled
<1>7. CASE ~(v \in flush.locked /\ (Reload \/ FlushCommit))
  <2>1. row'[v] = row[v] /\ cache'[v] = cache[v]
    <3>1. CASE Reload
      <4>1. flush.video # v
        BY <1>7, <3>1, FlushMoves
      <4>2. QED
        BY <3>1, <4>1, FlushMoves
    <3>2. CASE FlushCommit
      BY <1>7, <3>2, FlushMoves
    <3>3. CASE ~Reload /\ ~FlushCommit
      BY <3>3, FlushMoves
    <3>4. QED
      BY <3>1, <3>2, <3>3
  <2>2. \A a \in Admins : admin'[a].op = admin[a].op /\ admin'[a].model = admin[a].model
    BY <1>1
  <2>3. QED
    BY <1>1, <1>2, <2>1, <2>2, SettledFrame
<1>8. QED
  BY <1>6, <1>7

(* A request writes the map and then the row of a video that is its alone. *)
LEMMA AdminStepSettled ==
  ASSUME TypeInv, NEW a \in Admins, AdminStep(a), NEW v \in Videos, Settled(v), ~Contended(v)'
  PROVE  Settled(v)'
<1>1. /\ UNCHANGED <<flush, preload, pending, faults>>
      /\ \A b \in Admins : b # a => admin'[b] = admin[b]
  BY AdminMoves
<1>2. \A b \in Admins : b # a => (AtCommit(b, v)' <=> AtCommit(b, v)) /\ (AtWork(b, v)' <=> AtWork(b, v))
  BY <1>1 DEF AtCommit, AtWork
<1>3. CASE AskUpdate(a) \/ AskDelete(a) \/ AskCreate(a) \/ Refuse(a)
  <2>1. UNCHANGED <<row, cache>> /\ admin'[a].at \in {"idle", "asked"}
    BY <1>3, AdminMoves DEF NoRequest
  <2>2. admin[a].at \in {"idle", "asked"}
    BY <1>3 DEF AskUpdate, AskDelete, AskCreate, Ask, Refuse
  <2>3. ~AtWork(a, v)' /\ ~AtCommit(a, v)' /\ ~AtCommit(a, v)
    BY <2>1, <2>2 DEF AtWork, AtCommit
  <2>4. QED
    BY <1>1, <1>2, <2>1, <2>3, SettledFrame
<1>4. CASE Load(a)
  <2>1. /\ UNCHANGED <<row, cache>> /\ admin[a].at = "asked"
        /\ admin'[a].at = "store" /\ admin'[a].op = admin[a].op
        /\ admin[a].op # "create" => admin'[a].video = admin[a].video /\ row[admin[a].video] # NoVideo
    BY <1>4, AdminMoves
  <2>2. ~AtCommit(a, v)' /\ ~AtCommit(a, v)
    BY <2>1 DEF AtCommit
  <2>3. AtWork(a, v)' /\ admin'[a].op # "create" => row'[v] # NoVideo
    BY <2>1 DEF AtWork
  <2>4. \A b \in Admins : AtWork(b, v)' /\ admin'[b].op # "create" => row'[v] # NoVideo
    BY <1>1, <1>2, <2>1, <2>3 DEF Settled
  <2>5. preload'.at = "done" /\ (\A b \in Admins : ~AtCommit(b, v)') => Agree(v)'
    BY <1>1, <1>2, <2>1, <2>2 DEF Settled, Agree
  <2>6. \A b \in Admins : AtCommit(b, v)' =>
          IF admin'[b].op = "delete" THEN cache'[v] = NoVideo
          ELSE cache'[v] # NoVideo /\ cache'[v].edit = admin'[b].model.edit
    BY <1>1, <1>2, <2>1, <2>2 DEF Settled
  <2>7. preload'.at = "put" => preload'.rows[v] = row'[v] /\ cache'[v] = NoVideo
    BY <1>1, <2>1 DEF Settled
  <2>8. QED
    BY <2>4, <2>5, <2>6, <2>7 DEF Settled
<1>5. CASE Store(a)
  <2> DEFINE u == admin[a].video
  <2>1. /\ UNCHANGED <<row, used>> /\ admin[a].at = "store" /\ u \in Videos
        /\ admin'[a].at = "commit" /\ admin'[a].op = admin[a].op
        /\ admin'[a].model = admin[a].model /\ admin'[a].video = u
        /\ \A w \in Videos :
             cache'[w] = IF w # u THEN cache[w] ELSE IF admin[a].op = "delete" THEN NoVideo ELSE admin[a].model
    BY <1>5, AdminMoves
  <2>2. CASE u # v
    <3>1. ~AtCommit(a, v)' /\ ~AtCommit(a, v) /\ ~AtWork(a, v)'
      BY <2>1, <2>2 DEF AtCommit, AtWork
    <3>2. cache'[v] = cache[v]
      BY <2>1, <2>2
    <3>3. QED
      BY <1>1, <1>2, <2>1, <3>1, <3>2, SettledFrame
  <2>3. CASE u = v
    <3>1. AtWork(a, v) /\ AtWork(a, v)' /\ AtCommit(a, v)'
      BY <2>1, <2>3 DEF AtWork, AtCommit
    <3>2. preload'.at = "done" /\ \A b \in Admins : AtWork(b, v)' => b = a
      BY <3>1, AloneNext
    <3>3. admin[a].model # NoVideo
      BY ModelAssumption DEF TypeInv, TypeOK, AdminRecord, AModel
    <3>4. IF admin'[a].op = "delete" THEN cache'[v] = NoVideo
          ELSE cache'[v] # NoVideo /\ cache'[v].edit = admin'[a].model.edit
      BY <2>1, <2>3, <3>3
    <3>5. \A b \in Admins : AtCommit(b, v)' => b = a
      BY <3>2 DEF AtCommit, AtWork
    <3>6. admin'[a].op # "create" => row'[v] # NoVideo
      BY <2>1, <3>1 DEF Settled
    <3>7. QED
      BY <3>1, <3>2, <3>4, <3>5, <3>6 DEF Settled
  <2>4. QED
    BY <2>2, <2>3
<1>6. CASE Commit(a)
  <2> DEFINE u == admin[a].video
  <2>1. /\ UNCHANGED <<cache, used>> /\ admin[a].at = "commit" /\ u \in Videos
        /\ admin'[a] = NoRequest
        /\ \A w \in Videos :
             row'[w] = IF w # u \/ (admin[a].op # "create" /\ row[u] = NoVideo) THEN row[w]
                       ELSE IF admin[a].op = "delete" THEN NoVideo ELSE admin[a].model
    BY <1>6, AdminMoves
  <2>2. ~AtCommit(a, v)' /\ ~AtWork(a, v)'
    BY <2>1 DEF AtCommit, AtWork, NoRequest
  <2>3. CASE u # v
    <3>1. ~AtCommit(a, v) /\ row'[v] = row[v]
      BY <2>1, <2>3 DEF AtCommit
    <3>2. QED
      BY <1>1, <1>2, <2>1, <2>2, <3>1, SettledFrame
  <2>4. CASE u = v
    <3>1. AtWork(a, v) /\ AtCommit(a, v)
      BY <2>1, <2>4 DEF AtWork, AtCommit
    <3>2. preload.at = "done" /\ \A b \in Admins : AtWork(b, v) => b = a
      BY <3>1, Alone DEF Settled
    <3>3. \A b \in Admins : ~AtWork(b, v)' /\ ~AtCommit(b, v)'
      BY <1>2, <2>2, <3>2 DEF AtWork, AtCommit
    <3>4. admin[a].model # NoVideo
      BY ModelAssumption DEF TypeInv, TypeOK, AdminRecord, AModel
    <3>5. row'[v] = IF admin[a].op = "delete" THEN NoVideo ELSE admin[a].model
      BY <2>1, <2>4, <3>1 DEF Settled
    <3>6. IF admin[a].op = "delete" THEN cache[v] = NoVideo
          ELSE cache[v] # NoVideo /\ cache[v].edit = admin[a].model.edit
      BY <3>1 DEF Settled
    <3>7. Agree(v)'
      BY <2>1, <3>4, <3>5, <3>6 DEF Agree
    <3>8. QED
      BY <1>1, <3>2, <3>3, <3>7 DEF Settled
  <2>5. QED
    BY <2>3, <2>4
<1>7. QED
  BY <1>3, <1>4, <1>5, <1>6 DEF AdminStep

(* GETs leave what was edited; a preload that nobody disturbs brings the   *)
(* rows it has read.                                                       *)
LEMMA OtherSettled ==
  ASSUME TypeInv, NEW v \in Videos, Settled(v), ~Contended(v)', ~Cascaded(v),
         \/ \E w \in Viewers : Watch(w) \/ Count(w)
         \/ \E w \in Viewers : Look(w) \/ Show(w)
         \/ CascadeDelete \/ PreloadRead \/ PreloadPut
  PROVE  Settled(v)'
<1> USE DEF database, history
<1>1. CASE \E w \in Viewers : Watch(w) \/ Count(w)
  <2>1. UNCHANGED <<row, cache, admin, preload>>
    BY <1>1 DEF Watch, Count
  <2>2. QED
    BY <2>1, SettledFrame DEF AtCommit, AtWork
<1>2. CASE \E w \in Viewers : Look(w) \/ Show(w)
  <2>1. /\ cache'[v] = NoVideo <=> cache[v] = NoVideo
        /\ cache'[v].edit = cache[v].edit
        /\ UNCHANGED <<row, admin, preload>>
    BY <1>2, LookMoves
  <2>2. QED
    BY <2>1, SettledFrame DEF AtCommit, AtWork
<1>3. CASE CascadeDelete
  <2>1. UNCHANGED <<cache, admin, preload>> /\ row'[v] = row[v]
    BY <1>3 DEF CascadeDelete, Cascaded
  <2>2. QED
    BY <2>1, SettledFrame DEF AtCommit, AtWork
<1>4. CASE PreloadRead
  <2>1. /\ preload' = [at |-> "put", rows |-> row] /\ row' = row
        /\ cache' = [w \in Videos |-> NoVideo]
    BY <1>4 DEF PreloadRead
  <2>2. \A a \in Admins : ~AtWork(a, v)' /\ ~AtCommit(a, v)'
    <3>1. \A a \in Admins : ~AtWork(a, v)'
      BY <2>1, AloneNext
    <3>2. QED
      BY <3>1 DEF AtWork, AtCommit
  <2>3. preload'.at = "put" /\ preload'.rows[v] = row'[v] /\ cache'[v] = NoVideo
    BY <2>1
  <2>4. QED
    BY <2>2, <2>3 DEF Settled
<1>5. CASE PreloadPut
  <2>1. /\ preload.at = "put" /\ preload'.at = "done" /\ row' = row /\ admin' = admin
        /\ cache'[v] = IF preload.rows[v] # NoVideo THEN preload.rows[v] ELSE cache[v]
    BY <1>5 DEF PreloadPut, NoPreload, TypeInv, TypeOK
  <2>2. preload.rows[v] = row[v] /\ cache[v] = NoVideo
    BY <2>1 DEF Settled
  <2>3. Agree(v)'
    BY <2>1, <2>2 DEF Agree
  <2>4. \A a \in Admins : ~AtWork(a, v)
    BY <2>1, Alone DEF Settled
  <2>5. \A a \in Admins : ~AtWork(a, v)' /\ ~AtCommit(a, v)'
    BY <2>1, <2>4 DEF AtWork, AtCommit
  <2>6. QED
    BY <2>1, <2>3, <2>5 DEF Settled
<1>6. QED
  BY <1>1, <1>2, <1>3, <1>4, <1>5

(* A fault spares the videos nobody was writing; a restart starts anew.    *)
LEMMA FaultSettled ==
  ASSUME TypeInv, NEW v \in Videos, ~Contended(v)', ~Restarted => Settled(v) /\ ~RolledBack(v),
         AdminRollback \/ FlushRollback \/ Restart
  PROVE  Settled(v)'
<1> USE DEF database, history
<1>1. faults' # faults
  BY DEF AdminRollback, FlushRollback, Restart, Happens, TypeInv, TypeOK
<1>2. CASE Restart
  <2>1. /\ preload'.at = "due"
        /\ admin' = [a \in Admins |-> IF admin[a].at = "asked" THEN admin[a] ELSE NoRequest]
    BY <1>2 DEF Restart, NoPreload
  <2>2. \A a \in Admins : ~AtWork(a, v)' /\ ~AtCommit(a, v)'
    BY <2>1 DEF AtWork, AtCommit, NoRequest
  <2>3. QED
    BY <2>1, <2>2 DEF Settled
<1>3. CASE AdminRollback \/ FlushRollback
  <2>1. UNCHANGED <<row, cache, preload>>
    BY <1>3 DEF AdminRollback, FlushRollback
  <2>2. ~Restarted
    BY <2>1 DEF Restarted
  <2>3. Writing(v) = {}
    BY <1>1, <2>2 DEF RolledBack
  <2>4. \A a \in Admins : ~AtWork(a, v)
    BY <2>3 DEF Writing, AtWork
  <2>5. \A a \in Admins : admin'[a] = admin[a] \/ admin'[a] = NoRequest
    BY <1>3 DEF AdminRollback, FlushRollback, TypeInv, TypeOK
  <2>6. \A a \in Admins : ~AtWork(a, v)' /\ ~AtCommit(a, v)' /\ ~AtCommit(a, v)
    BY <2>4, <2>5 DEF AtWork, AtCommit, NoRequest
  <2>7. QED
    BY <2>1, <2>2, <2>6, SettledFrame
<1>4. QED
  BY <1>2, <1>3

(* No other step makes a preload due. *)
LEMMA OnlyRestartRestarts ==
  ASSUME TypeInv, Next, ~Restart PROVE ~Restarted
<1> USE DEF database, history
<1>1. CASE \E w \in Viewers : Watch(w) \/ Count(w)
  BY <1>1 DEF Watch, Count, Restarted
<1>2. CASE CascadeDelete \/ AdminRollback \/ FlushRollback
  BY <1>2 DEF CascadeDelete, AdminRollback, FlushRollback, Restarted
<1>3. CASE PreloadRead \/ PreloadPut
  BY <1>3 DEF PreloadRead, PreloadPut, NoPreload, TypeInv, TypeOK, Restarted
<1>4. CASE Flush
  BY <1>4, FlushMoves DEF Restarted
<1>5. CASE \E a \in Admins : AdminStep(a)
  BY <1>5, AdminMoves DEF Restarted
<1>6. CASE \E w \in Viewers : Look(w) \/ Show(w)
  BY <1>6, LookMoves DEF Restarted
<1>7. QED
  BY <1>1, <1>2, <1>3, <1>4, <1>5, <1>6 DEF Next

(* When nobody is writing, the map holds what the table holds of every     *)
(* video, except where two parties wrote the video at the same time, a     *)
(* transaction rolled back or a cascade deleted the row since the start:   *)
(* "write-through persistence" (ContentStore.java:7) as far as the code    *)
(* keeps it, for every number of videos, admins and watches.               *)
THEOREM OnlySuspectsPart == AuditSpec => []PartsOnlyIfSuspect
<1>1. AuditInit => TypeInv /\ PartInv
  <2> SUFFICES ASSUME AuditInit PROVE TypeInv /\ PartInv
    OBVIOUS
  <2>1. TypeInv
    BY InitTyped DEF AuditInit
  <2>2. ASSUME NEW v \in Videos PROVE Settled(v)
    <3>1. /\ admin = [a \in Admins |-> NoRequest] /\ flush = NoFlush
          /\ preload = NoPreload("done") /\ cache = row
      BY DEF AuditInit, Init
    <3>2. \A a \in Admins : ~AtWork(a, v) /\ ~AtCommit(a, v)
      BY <3>1 DEF AtWork, AtCommit, NoRequest
    <3>3. Writing(v) = {}
      BY <3>1, <3>2 DEF Writing, AtWork, NoFlush, NoPreload
    <3>4. ~Contended(v)
      BY <3>3, FS_EmptySet DEF Contended
    <3>5. Agree(v)
      BY <3>1 DEF Agree
    <3>6. QED
      BY <3>1, <3>2, <3>4, <3>5 DEF Settled, NoPreload
  <2>3. QED
    BY <2>1, <2>2 DEF PartInv
<1>2. TypeInv /\ PartInv /\ [AuditNext]_auditVars => TypeInv' /\ PartInv'
  <2> SUFFICES ASSUME TypeInv, PartInv, [AuditNext]_auditVars PROVE TypeInv' /\ PartInv'
    OBVIOUS
  <2>1. TypeInv'
    BY StepTyped DEF AuditNext, auditVars
  <2>2. CASE UNCHANGED auditVars
    BY <2>1, <2>2 DEF auditVars, vars, PartInv, Settled, Contended, Writing, Agree, AtCommit, AtWork
  <2>3. CASE AuditNext
    <3>1. ASSUME NEW v \in Videos, v \notin suspect' PROVE Settled(v)'
      <4>1. /\ ~Contended(v)' /\ ~Cascaded(v)
            /\ ~Restarted => Settled(v) /\ ~RolledBack(v)
        BY <2>3, <3>1, Unsuspected
      <4>2. Next
        BY <2>3 DEF AuditNext
      <4>3. CASE AdminRollback \/ FlushRollback \/ Restart
        BY <4>1, <4>3, FaultSettled
      <4>4. CASE ~(AdminRollback \/ FlushRollback \/ Restart)
        <5>1. ~Restarted
          BY <4>2, <4>4, OnlyRestartRestarts
        <5>2. QED
          BY <4>1, <4>2, <4>4, <5>1, FlushStepSettled, AdminStepSettled, OtherSettled DEF Next
      <4>5. QED
        BY <4>3, <4>4
    <3>2. QED
      BY <2>1, <3>1 DEF PartInv
  <2>4. QED
    BY <2>2, <2>3
<1>3. TypeInv /\ PartInv => PartsOnlyIfSuspect
  BY DEF PartInv, Settled, PartsOnlyIfSuspect, Quiet, AtCommit
<1>4. QED
  BY <1>1, <1>2, <1>3, PTL DEF AuditSpec
=============================================================================
