---------------------------- MODULE CatalogProofs ----------------------------
(***************************************************************************)
(* Theorems about the list of the most popular videos, for every number of *)
(* videos and every size of a list, about pages of any list and a reader   *)
(* of them while editors write, about the samples of a load test, for      *)
(* every number of users and paths, and about the performance gate, for    *)
(* every metric, cost and budget.  The three specifications share no       *)
(* variable (MCCatalog).                                                   *)
(***************************************************************************)
EXTENDS Catalog, LoadTest, PerfGate, FiniteSetTheorems, FunctionTheorems, TLAPS

-----------------------------------------------------------------------------
(***************************************************************************)
(* The most popular videos                                                 *)
(***************************************************************************)

(* Counts are counts, and a request ranks a window of what it read.        *)
PopularTyped ==
  /\ video \in [Videos -> [published : BOOLEAN, views : Nat, buffered : Nat]]
  /\ flush \in [on : BOOLEAN, left : SUBSET Videos, drained : [Videos -> Nat]]
  /\ request \in [at : {"idle", "reading", "answered"}, n : 1..MaxPage, visible : SUBSET Videos,
                  rows : [Videos -> Nat], window : SUBSET Videos, left : SUBSET Videos,
                  found : [Videos -> Nat], answer : SUBSET Videos, counted : [Videos -> Nat],
                  missed : SUBSET Videos, lost : SUBSET Videos]

(* A flush holds nothing of an adder it has yet to drain.                  *)
FlushInv ==
  /\ \A v \in flush.left : flush.drained[v] = 0
  /\ ~flush.on => flush = NoFlush

(* The window is the highest of the rows, and leaves one out only if there *)
(* are more than it holds.                                                 *)
WindowInv ==
  /\ request.left \subseteq request.window
  /\ \A v \in request.visible \ request.window :
       /\ Cardinality(request.visible) > Lesser(2 * request.n, MaxPage)
       /\ \A t \in request.window : request.rows[v] <= request.rows[t]

(* A row and its buffer are together no less than the video counted when   *)
(* the rows were read, unless a flush came in between, and no more than it *)
(* counts, unless its count has fallen.                                    *)
FoundInv ==
  /\ \A v \in request.left \ request.missed : request.counted[v] <= request.rows[v] + video[v].buffered
  /\ \A v \in request.left \ request.lost : request.rows[v] <= video[v].views
  /\ \A v \in (request.window \ request.left) \ request.missed : request.counted[v] <= request.found[v]
  /\ \A v \in (request.window \ request.left) \ request.lost : request.found[v] <= Counted(v)

AnswerInv ==
  request.at = "answered" =>
    /\ request.left = {}
    /\ request.answer \subseteq request.window
    /\ \A t \in request.answer, v \in request.window \ request.answer : request.found[v] <= request.found[t]

PopularInv == PopularTyped /\ FlushInv /\ WindowInv /\ FoundInv /\ AnswerInv

(* Twice the list is fetched, if a page may be as large.                   *)
LEMMA WindowIsTwice ==
  ASSUME NEW limit \in Int
  PROVE  LET n == Clamp(limit, 1, MaxPage) IN
         n \in 1..MaxPage /\ Window(limit) = Lesser(2 * n, MaxPage) /\ Window(limit) \in Nat
  BY SizesAssumption DEF Clamp, Window, Lesser

(* As many of a finite set as are wanted leave something out only if there *)
(* are more.                                                               *)
LEMMA HighestLeavesOut ==
  ASSUME NEW S, IsFiniteSet(S), NEW n \in Nat, NEW W \in SUBSET S,
         Cardinality(W) = Lesser(n, Cardinality(S)), NEW v \in S \ W
  PROVE  Cardinality(S) > n
<1>1. Cardinality(S) \in Nat /\ Cardinality(W) \in Nat
  BY FS_CardinalityType, FS_Subset
<1>2. Cardinality(W) # Cardinality(S)
  BY FS_Subset
<1>3. QED
  BY <1>1, <1>2 DEF Lesser

LEMMA PopularStarts == Init => PopularInv
<1> SUFFICES ASSUME Init PROVE PopularInv
  OBVIOUS
<1>1. video \in [Videos -> [published : BOOLEAN, views : Nat, buffered : Nat]]
  <2>1. video \in [Videos -> [published : BOOLEAN, views : Counts, buffered : {0}]]
    BY DEF Init
  <2>2. ASSUME NEW r \in [published : BOOLEAN, views : Counts, buffered : {0}]
        PROVE  r \in [published : BOOLEAN, views : Nat, buffered : Nat]
    <3>0. r.views \in Counts /\ r.buffered = 0 /\ r.published \in BOOLEAN
      OBVIOUS
    <3>1. r.views \in Nat
      BY <3>0, CountsAssumption
    <3>2. r = [published |-> r.published, views |-> r.views, buffered |-> r.buffered]
      OBVIOUS
    <3>3. QED
      BY <3>0, <3>1, <3>2
  <2>3. QED
    BY <2>1, <2>2
<1>2. flush = NoFlush /\ request = NoRequest
  BY DEF Init
<1>3. PopularTyped
  BY <1>1, <1>2, SizesAssumption DEF PopularTyped, NoFlush, NoRequest
<1>4. FlushInv /\ WindowInv /\ FoundInv /\ AnswerInv
  BY <1>2 DEF FlushInv, WindowInv, FoundInv, AnswerInv, NoFlush, NoRequest
<1>5. QED
  BY <1>3, <1>4 DEF PopularInv

(* A new request. *)
LEMMA ReadRowsHolds ==
  ASSUME PopularInv, NEW limit \in 0..(MaxPage + 1), ReadRows(limit)
  PROVE  PopularInv'
<1> DEFINE n == Clamp(limit, 1, MaxPage)
           rows == [v \in Videos |-> video[v].views]
           counted == [v \in Videos |-> Counted(v)]
<1>1. PICK W \in Highest(Visible, Window(limit), LAMBDA u : video[u].views) :
        request' = [NoRequest EXCEPT
                      !.at = "reading", !.n = n, !.visible = Visible, !.rows = rows, !.window = W, !.left = W,
                      !.counted = counted, !.missed = {v \in W : flush.drained[v] > 0}]
  BY DEF ReadRows
<1>2. /\ W \in SUBSET Visible /\ Cardinality(W) = Lesser(Window(limit), Cardinality(Visible))
      /\ \A t \in W, s \in Visible \ W : video[t].views >= video[s].views
  BY DEF Highest
<1>3. /\ PopularTyped /\ Visible \in SUBSET Videos /\ IsFiniteSet(Visible)
      /\ video' = video /\ flush' = flush
  BY VideosAssumption, FS_Subset DEF PopularInv, Visible, ReadRows
<1>4. limit \in Int
  BY SizesAssumption
<1>5. n \in 1..MaxPage /\ Window(limit) = Lesser(2 * n, MaxPage) /\ Window(limit) \in Nat
  BY <1>4, WindowIsTwice
<1>6. /\ rows \in [Videos -> Nat] /\ counted \in [Videos -> Nat]
      /\ \A v \in Videos : /\ rows[v] = video[v].views
                           /\ counted[v] = video[v].views + flush.drained[v] + video[v].buffered
  BY <1>3 DEF PopularTyped, Counted
<1> DEFINE missed == {v \in W : flush.drained[v] > 0}
<1> HIDE DEF n, rows, counted
<1>7. /\ request'.at = "reading" /\ request'.n = n /\ request'.visible = Visible /\ request'.rows = rows
      /\ request'.window = W /\ request'.left = W /\ request'.found = [v \in Videos |-> 0]
      /\ request'.answer = {} /\ request'.counted = counted /\ request'.missed = missed /\ request'.lost = {}
  BY <1>1 DEF NoRequest
<1>8. request' = [at |-> "reading", n |-> n, visible |-> Visible, rows |-> rows, window |-> W, left |-> W,
                  found |-> [v \in Videos |-> 0], answer |-> {}, counted |-> counted, missed |-> missed,
                  lost |-> {}]
  BY <1>1 DEF NoRequest
<1>9. missed \in SUBSET Videos /\ \A v \in W \ missed : flush.drained[v] = 0
  <2>1. W \subseteq Videos
    BY <1>2, <1>3
  <2>2. \A v \in W : flush.drained[v] \in Nat
    BY <1>3, <2>1 DEF PopularTyped
  <2>3. QED
    BY <2>1, <2>2
<1> HIDE DEF missed
<1>10. PopularTyped'
  BY <1>2, <1>3, <1>5, <1>6, <1>8, <1>9 DEF PopularTyped
<1>11. WindowInv'
  <2>1. ASSUME NEW v \in Visible \ W PROVE Cardinality(Visible) > Lesser(2 * n, MaxPage)
    BY <1>2, <1>3, <1>5, <2>1, HighestLeavesOut
  <2>2. \A v \in Visible \ W, t \in W : rows[v] <= rows[t]
    BY <1>2, <1>3, <1>6 DEF PopularTyped
  <2>3. QED
    BY <1>7, <2>1, <2>2 DEF WindowInv
<1>12. FoundInv'
  <2>1. \A v \in W : v \in Videos
    BY <1>2, <1>3
  <2>2. \A v \in W \ missed : counted[v] <= rows[v] + video[v].buffered
    BY <1>3, <1>6, <1>9, <2>1 DEF PopularTyped
  <2>3. \A v \in W : rows[v] <= video[v].views
    BY <1>3, <1>6, <2>1 DEF PopularTyped
  <2>4. QED
    BY <1>3, <1>7, <2>2, <2>3 DEF FoundInv
<1>13. FlushInv' /\ AnswerInv'
  BY <1>3, <1>7 DEF PopularInv, FlushInv, AnswerInv, NoFlush
<1>14. QED
  BY <1>10, <1>11, <1>12, <1>13 DEF PopularInv

(* What changes a video alone. *)
VideoPut(v, r) == video' = [video EXCEPT ![v] = r] /\ flush' = flush
Loses(S) == request' = [request EXCEPT !.lost = request.lost \cup S]

LEMMA VideoHolds ==
  ASSUME PopularInv, NEW v \in Videos, NEW r \in [published : BOOLEAN, views : Nat, buffered : Nat],
         VideoPut(v, r), NEW more \in SUBSET Videos, Loses(more),
         r.buffered >= video[v].buffered, r.views >= video[v].views \/ v \in more
  PROVE  PopularInv'
<1>0. /\ video' = [video EXCEPT ![v] = r] /\ flush' = flush
      /\ request' = [request EXCEPT !.lost = request.lost \cup more]
  BY DEF VideoPut, Loses
<1>1. /\ PopularTyped /\ \A w \in Videos : video'[w] = IF w = v THEN r ELSE video[w]
      /\ \A w \in Videos : /\ video[w].views \in Nat /\ video[w].buffered \in Nat /\ flush.drained[w] \in Nat
                           /\ request.rows[w] \in Nat /\ request.found[w] \in Nat /\ request.counted[w] \in Nat
  BY <1>0 DEF PopularInv, PopularTyped
<1>2. /\ request'.at = request.at /\ request'.n = request.n /\ request'.visible = request.visible
      /\ request'.rows = request.rows /\ request'.window = request.window /\ request'.left = request.left
      /\ request'.found = request.found /\ request'.answer = request.answer
      /\ request'.counted = request.counted /\ request'.missed = request.missed
      /\ request'.lost = request.lost \cup more
  BY <1>0, <1>1 DEF PopularTyped
<1>3. PopularTyped'
  <2>1. video' \in [Videos -> [published : BOOLEAN, views : Nat, buffered : Nat]]
    BY <1>0, <1>1 DEF PopularTyped
  <2>2. request.lost \cup more \in SUBSET Videos
    BY <1>1 DEF PopularTyped
  <2>3. QED
    BY <1>0, <1>1, <2>1, <2>2 DEF PopularTyped
<1>4. FlushInv' /\ WindowInv' /\ AnswerInv'
  BY <1>0, <1>2 DEF PopularInv, FlushInv, WindowInv, AnswerInv, NoFlush
<1>5. request.left \subseteq Videos /\ request.window \subseteq Videos
  BY <1>1 DEF PopularTyped
<1>6. FoundInv'
  <2>1. \A w \in Videos : video'[w].buffered \in Nat /\ video[w].buffered <= video'[w].buffered
    BY <1>1
  <2>2. \A w \in Videos \ request'.lost : video'[w].views \in Nat /\ video[w].views <= video'[w].views
    BY <1>1, <1>2
  <2>3. \A w \in request.left \ request.missed : request.counted[w] <= request.rows[w] + video'[w].buffered
    BY <1>1, <1>5, <2>1 DEF PopularInv, FoundInv
  <2>4. \A w \in request.left \ request'.lost : request.rows[w] <= video'[w].views
    BY <1>1, <1>2, <1>5, <2>2 DEF PopularInv, FoundInv
  <2>5. \A w \in (request.window \ request.left) \ request'.lost : request.found[w] <= Counted(w)'
    BY <1>1, <1>2, <1>0, <1>5, <2>1, <2>2 DEF PopularInv, FoundInv, Counted
  <2>6. QED
    BY <1>2, <2>3, <2>4, <2>5 DEF PopularInv, FoundInv
<1>7. QED
  BY <1>3, <1>4, <1>6 DEF PopularInv

LEMMA WatchHolds ==
  ASSUME PopularInv, NEW v \in Videos, Watch(v)
  PROVE  PopularInv'
<1> DEFINE r == [video[v] EXCEPT !.buffered = video[v].buffered + 1]
<1>1. video[v] \in [published : BOOLEAN, views : Nat, buffered : Nat]
  BY DEF PopularInv, PopularTyped
<1>2. /\ r \in [published : BOOLEAN, views : Nat, buffered : Nat]
      /\ r.views >= video[v].views /\ r.buffered >= video[v].buffered
  BY <1>1
<1>3. VideoPut(v, r) /\ request' = request
  BY DEF Watch, VideoPut
<1> HIDE DEF r
<1>4. Loses({})
  BY <1>3 DEF Loses, PopularInv, PopularTyped
<1>5. {} \in SUBSET Videos
  OBVIOUS
<1>6. QED
  BY <1>2, <1>3, <1>4, <1>5, VideoHolds

LEMMA SaveFormHolds ==
  ASSUME PopularInv, NEW v \in Videos, SaveForm(v)
  PROVE  PopularInv'
<1>1. PICK m \in Counts, public \in BOOLEAN :
        video' = [video EXCEPT ![v].views = m, ![v].published = public]
  BY DEF SaveForm
<1> DEFINE r == [video[v] EXCEPT !.views = m, !.published = public]
<1>2. video[v] \in [published : BOOLEAN, views : Nat, buffered : Nat] /\ m \in Nat
  BY CountsAssumption DEF PopularInv, PopularTyped
<1>3. r \in [published : BOOLEAN, views : Nat, buffered : Nat]
  BY <1>2
<1>4. r.buffered = video[v].buffered /\ video[v].buffered \in Nat
  BY <1>2
<1>5. r.buffered >= video[v].buffered
  BY <1>4
<1>6. VideoPut(v, r)
  BY <1>1 DEF VideoPut, SaveForm, PopularInv, PopularTyped
<1> HIDE DEF r
<1>7. {v} \in SUBSET Videos /\ v \in {v} /\ Loses({v})
  BY DEF SaveForm, Loses
<1>8. QED
  BY <1>3, <1>5, <1>6, <1>7, VideoHolds

LEMMA ReadBufferHolds ==
  ASSUME PopularInv, NEW v \in Videos, ReadBuffer(v)
  PROVE  PopularInv'
<1> DEFINE found == [request.found EXCEPT ![v] = request.rows[v] + video[v].buffered]
           left == request.left \ {v}
<1>1. /\ PopularTyped /\ v \in request.left /\ video' = video /\ flush' = flush
      /\ video[v].views \in Nat /\ video[v].buffered \in Nat /\ flush.drained[v] \in Nat
      /\ request.rows[v] \in Nat /\ request.counted[v] \in Nat
  BY DEF PopularInv, PopularTyped, ReadBuffer
<1>2. request' = [request EXCEPT !.left = left, !.found = found]
  BY <1>1 DEF ReadBuffer, PopularTyped
<1>3. /\ found \in [Videos -> Nat] /\ left \in SUBSET Videos
      /\ \A w \in Videos : found[w] = IF w = v THEN request.rows[v] + video[v].buffered ELSE request.found[w]
  BY <1>1 DEF PopularTyped
<1> HIDE DEF found
<1>4. /\ request'.at = request.at /\ request'.n = request.n /\ request'.visible = request.visible
      /\ request'.rows = request.rows /\ request'.window = request.window /\ request'.left = left
      /\ request'.found = found /\ request'.answer = request.answer
      /\ request'.counted = request.counted /\ request'.missed = request.missed
      /\ request'.lost = request.lost
  BY <1>1, <1>2 DEF PopularTyped
<1>5. PopularTyped'
  BY <1>1, <1>2, <1>3 DEF PopularTyped
<1>6. FlushInv' /\ WindowInv'
  BY <1>1, <1>4 DEF PopularInv, FlushInv, WindowInv, NoFlush
<1>7. AnswerInv'
  BY <1>1, <1>4 DEF PopularInv, AnswerInv
<1>8. FoundInv'
  <2>1. request.window \subseteq Videos
    BY <1>1 DEF PopularTyped
  <2>2. v \notin request.missed => request.counted[v] <= found[v]
    BY <1>1, <1>3 DEF PopularInv, FoundInv
  <2>3. v \notin request.lost => found[v] <= Counted(v)
    BY <1>1, <1>3 DEF PopularInv, FoundInv, Counted
  <2>4. \A w \in request.window \ left : w # v => w \in request.window \ request.left /\ found[w] = request.found[w]
    BY <1>3, <2>1
  <2>5. \A w : Counted(w)' = Counted(w)
    BY <1>1 DEF Counted
  <2>6. /\ \A w \in left \ request.missed : request.counted[w] <= request.rows[w] + video[w].buffered
        /\ \A w \in left \ request.lost : request.rows[w] <= video[w].views
    BY DEF PopularInv, FoundInv
  <2>7. /\ \A w \in (request.window \ left) \ request.missed : request.counted[w] <= found[w]
        /\ \A w \in (request.window \ left) \ request.lost : found[w] <= Counted(w)
    BY <2>2, <2>3, <2>4 DEF PopularInv, FoundInv
  <2>8. QED
    BY <1>1, <1>4, <2>5, <2>6, <2>7 DEF FoundInv
<1>9. QED
  BY <1>5, <1>6, <1>7, <1>8 DEF PopularInv

LEMMA AnswerTopHolds ==
  ASSUME PopularInv, AnswerTop
  PROVE  PopularInv'
<1>1. PICK T \in Highest(request.window, request.n, LAMBDA u : request.found[u]) :
        request' = [request EXCEPT !.at = "answered", !.answer = T]
  BY DEF AnswerTop
<1>2. /\ T \in SUBSET request.window
      /\ \A t \in T, s \in request.window \ T : request.found[t] >= request.found[s]
  BY DEF Highest
<1>3. PopularTyped /\ request.left = {} /\ video' = video /\ flush' = flush
  BY DEF PopularInv, AnswerTop
<1>4. /\ request'.at = "answered" /\ request'.n = request.n /\ request'.visible = request.visible
      /\ request'.rows = request.rows /\ request'.window = request.window /\ request'.left = request.left
      /\ request'.found = request.found /\ request'.answer = T
      /\ request'.counted = request.counted /\ request'.missed = request.missed
      /\ request'.lost = request.lost
  BY <1>1, <1>3 DEF PopularTyped
<1>5. PopularTyped'
  <2>1. T \in SUBSET Videos
    BY <1>2, <1>3 DEF PopularTyped
  <2>2. QED
    BY <1>1, <1>3, <2>1 DEF PopularTyped
<1>6. FlushInv' /\ WindowInv' /\ FoundInv'
  BY <1>3, <1>4 DEF PopularInv, FlushInv, WindowInv, FoundInv, Counted, NoFlush
<1>7. AnswerInv'
  <2>1. request.window \subseteq Videos /\ request.found \in [Videos -> Nat]
    BY <1>3 DEF PopularTyped
  <2>2. \A t \in T, s \in request.window \ T : request.found[s] <= request.found[t]
    BY <1>2, <2>1
  <2>3. QED
    BY <1>2, <1>3, <1>4, <2>2 DEF AnswerInv
<1>8. QED
  BY <1>5, <1>6, <1>7 DEF PopularInv

(* A flush that starts. *)
LEMMA StartFlushHolds ==
  ASSUME PopularInv, StartFlush
  PROVE  PopularInv'
<1>1. flush = NoFlush /\ video' = video /\ request' = request
  BY DEF PopularInv, FlushInv, StartFlush
<1> DEFINE touched == {v \in Videos : video[v].buffered > 0}
<1>2. flush' = [on |-> TRUE, left |-> touched, drained |-> [v \in Videos |-> 0]]
  BY <1>1 DEF StartFlush, NoFlush
<1>3. flush.drained = flush'.drained
  BY <1>1, <1>2 DEF NoFlush
<1>4. PopularTyped'
  BY <1>1, <1>2 DEF PopularInv, PopularTyped
<1>5. FlushInv'
  BY <1>2 DEF FlushInv
<1>6. WindowInv' /\ FoundInv' /\ AnswerInv'
  BY <1>1, <1>3 DEF PopularInv, WindowInv, FoundInv, AnswerInv, Counted
<1>7. QED
  BY <1>4, <1>5, <1>6 DEF PopularInv

(* A drained adder's views are where the flush keeps them. *)
LEMMA DrainHolds ==
  ASSUME PopularInv, NEW v \in Videos, Drain(v)
  PROVE  PopularInv'
<1> DEFINE r == [video[v] EXCEPT !.buffered = 0]
           drained == [flush.drained EXCEPT ![v] = video[v].buffered]
           missed == request.missed \cup ({v} \cap request.left)
<1>1. /\ PopularTyped /\ v \in flush.left /\ flush.on /\ flush.drained[v] = 0
      /\ video[v] \in [published : BOOLEAN, views : Nat, buffered : Nat]
  BY DEF PopularInv, PopularTyped, FlushInv, Drain, NoFlush
<1>2. /\ flush' = [flush EXCEPT !.left = flush.left \ {v}, !.drained = drained]
      /\ video' = [video EXCEPT ![v] = r]
      /\ request' = [request EXCEPT !.missed = missed]
  BY <1>1 DEF Drain, PopularTyped
<1>3. /\ r \in [published : BOOLEAN, views : Nat, buffered : Nat] /\ r.buffered = 0 /\ r.views = video[v].views
      /\ drained \in [Videos -> Nat] /\ missed \in SUBSET Videos
      /\ \A w \in Videos : drained[w] = IF w = v THEN video[v].buffered ELSE flush.drained[w]
  BY <1>1 DEF PopularTyped
<1> HIDE DEF r, drained, missed
<1>4. /\ flush'.on /\ flush'.left = flush.left \ {v} /\ flush'.drained = drained
      /\ \A w \in Videos : video'[w] = IF w = v THEN r ELSE video[w]
  BY <1>1, <1>2 DEF PopularTyped
<1>5. /\ request'.at = request.at /\ request'.n = request.n /\ request'.visible = request.visible
      /\ request'.rows = request.rows /\ request'.window = request.window /\ request'.left = request.left
      /\ request'.found = request.found /\ request'.answer = request.answer
      /\ request'.counted = request.counted /\ request'.missed = missed
      /\ request'.lost = request.lost
  BY <1>1, <1>2 DEF PopularTyped
<1>6. PopularTyped'
  <2>1. video' \in [Videos -> [published : BOOLEAN, views : Nat, buffered : Nat]]
    BY <1>1, <1>2, <1>3 DEF PopularTyped
  <2>2. QED
    BY <1>1, <1>2, <1>3, <2>1 DEF PopularTyped
<1>7. FlushInv'
  <2>1. flush.left \subseteq Videos
    BY <1>1 DEF PopularTyped
  <2>2. QED
    BY <1>3, <1>4, <2>1 DEF PopularInv, FlushInv
<1>8. WindowInv' /\ AnswerInv'
  BY <1>5 DEF PopularInv, WindowInv, AnswerInv
<1>9. request.left \subseteq Videos /\ request.window \subseteq Videos
  BY <1>1 DEF PopularTyped
<1>10. \A w \in Videos : Counted(w)' = Counted(w)
  <2>1. \A w \in Videos : video[w].views \in Nat /\ video[w].buffered \in Nat /\ flush.drained[w] \in Nat
    BY <1>1 DEF PopularTyped
  <2>2. QED
    BY <1>1, <1>3, <1>4, <2>1 DEF Counted
<1>11. \A w \in request.left \ missed : w \in request.left \ request.missed /\ video'[w] = video[w]
  BY <1>4, <1>9 DEF missed
<1>12. \A w \in request.left : video'[w].views = video[w].views
  BY <1>3, <1>4, <1>9
<1>13. request.missed \subseteq missed
  BY DEF missed
<1>14. FoundInv'
  <2>1. \A w \in request.left \ missed : request.counted[w] <= request.rows[w] + video'[w].buffered
    BY <1>11 DEF PopularInv, FoundInv
  <2>2. \A w \in request.left \ request.lost : request.rows[w] <= video'[w].views
    BY <1>12 DEF PopularInv, FoundInv
  <2>3. \A w \in (request.window \ request.left) \ missed : request.counted[w] <= request.found[w]
    BY <1>13 DEF PopularInv, FoundInv
  <2>4. \A w \in (request.window \ request.left) \ request.lost : request.found[w] <= Counted(w)'
    BY <1>9, <1>10 DEF PopularInv, FoundInv
  <2>5. QED
    BY <1>5, <2>1, <2>2, <2>3, <2>4 DEF FoundInv
<1>15. QED
  BY <1>6, <1>7, <1>8, <1>14 DEF PopularInv

(* A commit moves views into the table. *)
LEMMA CommitFlushHolds ==
  ASSUME PopularInv, CommitFlush
  PROVE  PopularInv'
<1>1. /\ PopularTyped /\ flush' = NoFlush /\ request' = request
      /\ \A w \in Videos : video[w] \in [published : BOOLEAN, views : Nat, buffered : Nat] /\ flush.drained[w] \in Nat
  BY DEF PopularInv, PopularTyped, CommitFlush
<1>2. /\ video' = [w \in Videos |-> video'[w]]
      /\ \A w \in Videos : video'[w] = [video[w] EXCEPT !.views = video[w].views + flush.drained[w]]
  BY DEF CommitFlush
<1>3. \A w \in Videos : /\ video'[w] \in [published : BOOLEAN, views : Nat, buffered : Nat]
                        /\ video'[w].views = video[w].views + flush.drained[w]
                        /\ video'[w].buffered = video[w].buffered
  <2>1. ASSUME NEW r \in [published : BOOLEAN, views : Nat, buffered : Nat], NEW n \in Nat
        PROVE  /\ [r EXCEPT !.views = r.views + n] \in [published : BOOLEAN, views : Nat, buffered : Nat]
               /\ [r EXCEPT !.views = r.views + n].views = r.views + n
               /\ [r EXCEPT !.views = r.views + n].buffered = r.buffered
    OBVIOUS
  <2>2. QED
    BY <1>1, <1>2, <2>1
<1>4. PopularTyped' /\ FlushInv'
  BY <1>1, <1>2, <1>3 DEF PopularTyped, FlushInv, NoFlush
<1>5. WindowInv' /\ AnswerInv'
  BY <1>1 DEF PopularInv, WindowInv, AnswerInv
<1>6. request.left \subseteq Videos /\ request.window \subseteq Videos /\ request.rows \in [Videos -> Nat]
  BY <1>1 DEF PopularTyped
<1>7. \A w \in Videos : Counted(w)' = Counted(w)
  <2>1. \A w \in Videos : flush'.drained[w] = 0
    BY <1>1 DEF NoFlush
  <2>2. QED
    BY <1>1, <1>3, <2>1 DEF Counted
<1>8. FoundInv'
  <2>1. \A w \in request.left \ request.missed : request.counted[w] <= request.rows[w] + video'[w].buffered
    BY <1>3, <1>6 DEF PopularInv, FoundInv
  <2>2. \A w \in request.left \ request.lost : request.rows[w] <= video'[w].views
    BY <1>1, <1>3, <1>6 DEF PopularInv, FoundInv
  <2>3. \A w \in (request.window \ request.left) \ request.lost : request.found[w] <= Counted(w)'
    BY <1>6, <1>7 DEF PopularInv, FoundInv
  <2>4. QED
    BY <1>1, <2>1, <2>2, <2>3 DEF PopularInv, FoundInv
<1>9. QED
  BY <1>4, <1>5, <1>8 DEF PopularInv

(* A flush that fails loses them. *)
LEMMA FailFlushHolds ==
  ASSUME PopularInv, FailFlush
  PROVE  PopularInv'
<1> DEFINE more == {v \in Videos : flush.drained[v] > 0}
<1>1. PopularTyped /\ flush' = NoFlush /\ video' = video /\ more \in SUBSET Videos
  BY DEF PopularInv, FailFlush
<1>2. request' = [request EXCEPT !.lost = request.lost \cup more]
  BY DEF FailFlush
<1>3. \A w \in Videos \ more : flush.drained[w] = 0
  BY <1>1 DEF PopularTyped
<1> HIDE DEF more
<1>4. /\ request'.at = request.at /\ request'.n = request.n /\ request'.visible = request.visible
      /\ request'.rows = request.rows /\ request'.window = request.window /\ request'.left = request.left
      /\ request'.found = request.found /\ request'.answer = request.answer
      /\ request'.counted = request.counted /\ request'.missed = request.missed
      /\ request'.lost = request.lost \cup more
  BY <1>1, <1>2 DEF PopularTyped
<1>5. PopularTyped'
  <2>1. request.lost \cup more \in SUBSET Videos
    BY <1>1 DEF PopularTyped
  <2>2. NoFlush \in [on : BOOLEAN, left : SUBSET Videos, drained : [Videos -> Nat]]
    BY DEF NoFlush
  <2>3. QED
    BY <1>1, <1>2, <2>1, <2>2 DEF PopularTyped
<1>6. FlushInv' /\ WindowInv' /\ AnswerInv'
  BY <1>1, <1>4 DEF PopularInv, FlushInv, WindowInv, AnswerInv, NoFlush
<1>7. \A w \in Videos \ more : Counted(w)' = Counted(w)
  <2>1. \A w \in Videos : flush'.drained[w] = 0
    BY <1>1 DEF NoFlush
  <2>2. QED
    BY <1>1, <1>3, <2>1 DEF Counted
<1>8. FoundInv'
  <2>1. request.window \subseteq Videos
    BY <1>1 DEF PopularTyped
  <2>2. \A w \in (request.window \ request.left) \ (request.lost \cup more) : request.found[w] <= Counted(w)'
    BY <1>7, <2>1 DEF PopularInv, FoundInv
  <2>3. QED
    BY <1>1, <1>4, <2>2 DEF PopularInv, FoundInv
<1>9. QED
  BY <1>5, <1>6, <1>8 DEF PopularInv

(* TopErrsForCause: the ranking by effective count                         *)
(* (PopularVideosService.java:14) passes over a video that counted more    *)
(* when the request came than the one before it does when it is answered   *)
(* only if there are more videos than the window holds and it has no more  *)
(* in the table, or a flush took its views out of the buffer before the    *)
(* request came to it, or the other's count has fallen: whatever is        *)
(* watched, flushed and saved meanwhile, for every number of videos, every *)
(* limit asked for and every size of a page.                               *)
THEOREM RankingErrsForCause == Spec => []TopErrsForCause
<1>1. PopularInv /\ [Next]_vars => PopularInv'
  <2> SUFFICES ASSUME PopularInv, [Next]_vars PROVE PopularInv'
    OBVIOUS
  <2>1. CASE UNCHANGED popularVars
    BY <2>1 DEF popularVars, PopularInv, PopularTyped, FlushInv, WindowInv, FoundInv, AnswerInv, Counted, NoFlush
  <2>2. CASE PagesNext
    BY <2>1, <2>2 DEF PagesNext, OpenList, ReadPage, Restart, Preload, Create, Update, Delete, Load
  <2>3. CASE PopularNext
    BY <2>3, ReadRowsHolds, ReadBufferHolds, WatchHolds, DrainHolds, SaveFormHolds, AnswerTopHolds,
       StartFlushHolds, CommitFlushHolds, FailFlushHolds DEF PopularNext
  <2>4. QED
    BY <2>1, <2>2, <2>3 DEF Next, vars
<1>2. PopularInv => TopErrsForCause
  <2> SUFFICES ASSUME PopularInv, request.at = "answered",
                      NEW t \in request.answer, NEW v \in request.visible \ request.answer,
                      request.counted[v] > Counted(t), v \notin request.missed, t \notin request.lost
               PROVE  /\ Cardinality(request.visible) > Lesser(2 * request.n, MaxPage)
                      /\ request.rows[v] <= request.rows[t]
    BY DEF TopErrsForCause
  <2>1. t \in request.window /\ request.left = {}
    BY DEF PopularInv, AnswerInv
  <2>2. v \notin request.window
    <3>1. SUFFICES ASSUME v \in request.window PROVE FALSE
      OBVIOUS
    <3>2. request.counted[v] <= request.found[v] /\ request.found[t] <= Counted(t)
      BY <2>1, <3>1 DEF PopularInv, FoundInv
    <3>3. request.found[v] <= request.found[t]
      BY <3>1 DEF PopularInv, AnswerInv
    <3>4. t \in Videos /\ v \in Videos
      BY <2>1 DEF PopularInv, PopularTyped
    <3>5. request.counted[v] \in Nat /\ request.found[v] \in Nat /\ request.found[t] \in Nat /\ Counted(t) \in Nat
      BY <3>4 DEF PopularInv, PopularTyped, Counted
    <3>6. QED
      BY <3>2, <3>3, <3>5
  <2>3. QED
    BY <2>1, <2>2 DEF PopularInv, WindowInv
<1>3. QED
  BY <1>1, <1>2, PopularStarts, PTL DEF Spec

-----------------------------------------------------------------------------
(***************************************************************************)
(* The samples of a load test                                              *)
(***************************************************************************)

Warmths == {"cold", "filled", "evicted"}

LoadTyped ==
  /\ suite \in Suites
  /\ phase \in {"priming", "warmup", "measured", "over"}
  /\ warm \in [Places -> Warmths]
  /\ user \in [Users -> [walk : Seq(Places), found : Warmths \cup {"none"}]]
  /\ \A u \in Users : user[u].found # "none" => user[u].walk # <<>>

Measuring == phase \in {"measured", "over"}

(* Nothing is measured before its time, and then nothing gets cold.        *)
ColdInv ==
  /\ Measuring => \A p \in Places : warm[p] = "cold" => p \in coldAtStart
  /\ ~Measuring => /\ \A u \in Readers : user[u] = Idle
                   /\ cycle.at = "idle" /\ last.found # "cold"
  /\ \A u \in Readers : user[u].found = "cold" => Head(user[u].walk) \in coldAtStart
  /\ cycle.at = "reading" /\ cycle.found = "cold" => Ticker \in coldAtStart
  /\ last.found = "cold" => last.place \in coldAtStart

(* Between a write and the read that follows, the path is not filled, but  *)
(* by another user.                                                        *)
EvictInv ==
  /\ cycle.at = "written" /\ cycle.written /\ ~cycle.others => warm[Ticker] # "filled"
  /\ cycle.at = "reading" /\ cycle.found = "filled" => ~cycle.written \/ cycle.others
  /\ last.trend = "lat_read_after_evict" /\ last.found = "filled" => last.excused

CycleTyped ==
  cycle \in [at : {"idle", "write", "written", "reading"}, found : Warmths \cup {"none"},
             written : BOOLEAN, others : BOOLEAN]

LoadInv == LoadTyped /\ CycleTyped /\ ColdInv /\ EvictInv

LEMMA PlaceFacts ==
  /\ Ticker \in Places /\ HotPaths \subseteq Places
  /\ \A p \in Places : TrendOf(p) # "lat_read_after_evict"
  /\ Warmers \subseteq Users /\ Readers \subseteq Users
  /\ \A u \in Users : u \in Readers \/ warming(u)
  /\ \A u \in Readers : ~warming(u)
  BY PathsAssumption, UsersAssumption DEF Places, TrendOf, Trends, Users, warming

(* A user walks through places.                                            *)
LEMMA WalksTyped ==
  ASSUME suite \in Suites, NEW route \in Walks
  PROVE  route \in Seq(Places) /\ route # <<>>
<1>1. \A n \in Nat \ {0}, p \in Places : Times(n, p) \in Seq(Places) /\ Times(n, p) # <<>>
  <2> TAKE n \in Nat \ {0}, p \in Places
  <2>1. Times(n, p) \in [1..n -> Places]
    BY DEF Times
  <2>2. Times(n, p) \in Seq(Places) /\ Len(Times(n, p)) = n
    BY <2>1
  <2>3. QED
    BY <2>2
<1>2. Trends \subseteq Places
  BY DEF Places
<1>3. CASE suite = "scenarios"
  <2>1. route \in Mix
    BY <1>3 DEF Walks
  <2>2. {"lat_listing", "lat_detail", "lat_search"} \subseteq Places
    BY <1>2 DEF Trends
  <2>3. \E n \in {2, 3, 6}, p \in Places : route = Times(n, p)
    BY <2>1, <2>2 DEF Mix
  <2>4. QED
    BY <1>1, <2>3
<1>4. CASE suite = "journey"
  <2>1. route \in Journey
    BY <1>4 DEF Walks
  <2>2. {"page_home", "page_listing", "page_detail", "page_search", "page_watch"} \subseteq Places
    BY <1>2 DEF Trends
  <2>3. route = <<"page_home", "page_listing", "page_detail", "page_listing", "page_listing",
                  "page_listing", "page_watch", "page_search", "page_listing">>
    BY <2>1 DEF Journey
  <2>4. QED
    BY <2>2, <2>3
<1>5. CASE suite = "cache"
  <2>1. PICK p \in HotPaths : route = <<p>>
    BY <1>5 DEF Walks, HotReads
  <2>2. QED
    BY <2>1, PlaceFacts
<1>6. QED
  BY <1>3, <1>4, <1>5, SuitesAssumption

LEMMA LoadInitHolds == LoadInit => LoadInv
<1> SUFFICES ASSUME LoadInit PROVE LoadInv
  OBVIOUS
<1>1. Idle \in [walk : Seq(Places), found : Warmths \cup {"none"}]
  BY DEF Idle, Warmths
<1>2. LoadTyped
  BY <1>1, PlaceFacts DEF LoadInit, LoadTyped, Idle, Warmths
<1>3. CycleTyped
  BY DEF LoadInit, CycleTyped, NoCycle, Warmths
<1>4. ColdInv
  BY PlaceFacts DEF LoadInit, ColdInv, Measuring, Idle, NoCycle, NoSample
<1>5. EvictInv
  BY DEF LoadInit, EvictInv, NoCycle, NoSample
<1>6. QED
  BY <1>2, <1>3, <1>4, <1>5 DEF LoadInv

(* What a user's step leaves alone. *)
LEMMA UserTyped ==
  ASSUME LoadTyped, NEW u \in Users, NEW r, user' = [user EXCEPT ![u] = r],
         r \in [walk : Seq(Places), found : Warmths \cup {"none"}],
         r.found # "none" => r.walk # <<>>,
         warm' \in [Places -> Warmths], UNCHANGED <<suite, phase>>
  PROVE  LoadTyped'
<1>1. user' \in [Users -> [walk : Seq(Places), found : Warmths \cup {"none"}]]
  BY DEF LoadTyped
<1>2. \A w \in Users : user'[w].found # "none" => user'[w].walk # <<>>
  BY DEF LoadTyped
<1>3. QED
  BY <1>1, <1>2 DEF LoadTyped

(* What users who walk find on their way is theirs alone. *)
LEMMA WalkHolds ==
  ASSUME LoadInv, NEW u \in Users, NEW r, user' = [user EXCEPT ![u] = r],
         r \in [walk : Seq(Places), found : Warmths \cup {"none"}],
         r.found # "none" => r.walk # <<>>,
         u \in Readers => Measuring \/ r = Idle,
         u \in Readers /\ r.found = "cold" => Head(r.walk) \in coldAtStart,
         UNCHANGED <<suite, phase, warm, cycle, last, coldAtStart, cycles>>
  PROVE  LoadInv'
<1>1. LoadTyped'
  <2>1. warm' \in [Places -> Warmths] /\ LoadTyped
    BY DEF LoadInv, LoadTyped
  <2>2. QED
    BY <2>1, UserTyped
<1>2. \A w \in Users : user'[w] = IF w = u THEN r ELSE user[w]
  BY DEF LoadInv, LoadTyped
<1>3. CycleTyped' /\ EvictInv'
  BY DEF LoadInv, CycleTyped, EvictInv
<1>4. Readers \subseteq Users
  BY PlaceFacts
<1>5. \A w \in Readers : user'[w].found = "cold" => Head(user'[w].walk) \in coldAtStart
  BY <1>2, <1>4 DEF LoadInv, ColdInv
<1>6. ~Measuring => \A w \in Readers : user'[w] = Idle
  BY <1>2, <1>4 DEF LoadInv, ColdInv
<1>7. ColdInv'
  BY <1>5, <1>6 DEF LoadInv, ColdInv, Measuring
<1>8. QED
  BY <1>1, <1>3, <1>7 DEF LoadInv

(* A request finds what the place's warmth was. *)
LEMMA AskHolds ==
  ASSUME LoadInv, NEW u \in Users, Ask(u)
  PROVE  LoadInv'
<1> DEFINE r == [user[u] EXCEPT !.found = warm[Head(user[u].walk)]]
<1>1. /\ user[u] \in [walk : Seq(Places), found : Warmths \cup {"none"}]
      /\ user[u].walk \in Seq(Places) /\ user[u].walk # <<>>
  BY DEF LoadInv, LoadTyped, Ask
<1>2. user' = [user EXCEPT ![u] = r]
  BY DEF Ask, LoadInv, LoadTyped
<1>3. Head(user[u].walk) \in Places
  BY <1>1
<1>4. warm[Head(user[u].walk)] \in Warmths
  BY <1>3 DEF LoadInv, LoadTyped
<1>5. /\ r \in [walk : Seq(Places), found : Warmths \cup {"none"}]
      /\ r.walk = user[u].walk /\ r.found = warm[Head(user[u].walk)]
  BY <1>1, <1>4
<1>6. u \in Readers => Measuring
  BY <1>1 DEF LoadInv, ColdInv, Idle
<1>7. u \in Readers /\ r.found = "cold" => Head(r.walk) \in coldAtStart
  BY <1>3, <1>5, <1>6 DEF LoadInv, ColdInv
<1> HIDE DEF r
<1>8. UNCHANGED <<suite, phase, warm, cycle, last, coldAtStart, cycles>>
  BY DEF Ask
<1>9. QED
  BY <1>1, <1>2, <1>5, <1>6, <1>7, <1>8, WalkHolds

(* An answer fills its place and may be the sample recorded. *)
LEMMA AnswerHolds ==
  ASSUME LoadInv, NEW u \in Users, Answer(u)
  PROVE  LoadInv'
<1> DEFINE place == Head(user[u].walk)
           found == user[u].found
           r == [walk |-> Tail(user[u].walk), found |-> "none"]
<1>1. /\ user[u] \in [walk : Seq(Places), found : Warmths \cup {"none"}]
      /\ user[u].walk \in Seq(Places) /\ user[u].walk # <<>> /\ found # "none" /\ found \in Warmths
  BY DEF LoadInv, LoadTyped, Answer
<1>2. place \in Places /\ Tail(user[u].walk) \in Seq(Places)
  BY <1>1
<1>3. r \in [walk : Seq(Places), found : Warmths \cup {"none"}] /\ r.found = "none"
  BY <1>2
<1>4. /\ user' = [user EXCEPT ![u] = r] /\ UNCHANGED <<suite, phase, coldAtStart, cycles>>
      /\ warm' = Filled(place, found)
  BY DEF Answer
<1>5. \A p \in Places : warm'[p] = IF p = place /\ found # "filled" THEN "filled" ELSE warm[p]
  BY <1>2, <1>4 DEF Filled, LoadInv, LoadTyped
<1>6. warm' \in [Places -> Warmths]
  BY <1>2, <1>4 DEF Filled, LoadInv, LoadTyped, Warmths
<1>7. cycle' = IF cycle.at = "written" /\ place = Ticker /\ found # "filled"
               THEN [cycle EXCEPT !.others = TRUE] ELSE cycle
  BY DEF Answer
<1>8. last' = IF warming(u) THEN last
              ELSE [trend |-> TrendOf(place), place |-> place, found |-> found, excused |-> FALSE]
  BY DEF Answer
<1>9. u \in Readers => Measuring
  BY <1>1 DEF LoadInv, ColdInv, Idle
<1>10. \A w \in Users : user'[w] = IF w = u THEN r ELSE user[w]
  BY <1>4 DEF LoadInv, LoadTyped
<1> HIDE DEF r
<1>11. LoadTyped'
  BY <1>3, <1>4, <1>6, UserTyped DEF LoadInv
<1>12. /\ CycleTyped' /\ cycle'.at = cycle.at /\ cycle'.found = cycle.found
       /\ cycle'.written = cycle.written
       /\ cycle'.others = (cycle.others \/ (cycle.at = "written" /\ place = Ticker /\ found # "filled"))
  BY <1>7 DEF LoadInv, CycleTyped
<1>13. ColdInv'
  <2>1. ColdInv /\ Measuring' = Measuring
    BY <1>4 DEF LoadInv, Measuring
  <2>2. Measuring => \A p \in Places : warm'[p] = "cold" => p \in coldAtStart
    BY <1>5, <2>1 DEF ColdInv
  <2>3. \A w \in Readers : user'[w].found = "cold" => Head(user'[w].walk) \in coldAtStart
    BY <1>3, <1>10, <2>1, PlaceFacts DEF ColdInv
  <2>4. ~Measuring => \A w \in Readers : user'[w] = Idle
    BY <1>9, <1>10, <2>1, PlaceFacts DEF ColdInv
  <2>5. last'.found = "cold" => last'.place \in coldAtStart
    BY <1>8, <2>1, PlaceFacts DEF ColdInv
  <2>6. ~Measuring => last'.found # "cold"
    BY <1>8, <1>9, <2>1, PlaceFacts DEF ColdInv
  <2>7. QED
    BY <1>4, <1>12, <2>1, <2>2, <2>3, <2>4, <2>5, <2>6 DEF ColdInv
<1>14. EvictInv'
  <2>1. EvictInv
    BY DEF LoadInv
  <2>2. cycle'.at = "written" /\ cycle'.written /\ ~cycle'.others => warm'[Ticker] # "filled"
    BY <1>5, <1>12, <2>1, PlaceFacts DEF EvictInv
  <2>3. last'.trend = "lat_read_after_evict" /\ last'.found = "filled" => last'.excused
    BY <1>2, <1>8, <2>1, PlaceFacts DEF EvictInv
  <2>4. QED
    BY <1>12, <2>1, <2>2, <2>3 DEF EvictInv
<1>15. QED
  BY <1>11, <1>12, <1>13, <1>14 DEF LoadInv

(* Users walk. *)
LEMMA UserHolds ==
  ASSUME LoadInv, NEW u \in Users,
         (\E route \in Walks : Iterate(u, route)) \/ Ask(u) \/ Answer(u) \/ Interrupted(u)
  PROVE  LoadInv'
<1>1. ASSUME NEW route \in Walks, Iterate(u, route) PROVE LoadInv'
  <2> DEFINE r == [user[u] EXCEPT !.walk = route]
  <2>1. route \in Seq(Places) /\ user[u] = Idle
    BY <1>1, WalksTyped DEF LoadInv, LoadTyped, Iterate
  <2>2. r \in [walk : Seq(Places), found : Warmths \cup {"none"}] /\ r.found = "none"
    BY <2>1 DEF Idle
  <2>3. user' = [user EXCEPT ![u] = r] /\ UNCHANGED <<suite, phase, warm, cycle, last, coldAtStart, cycles>>
    BY <1>1 DEF Iterate, LoadInv, LoadTyped
  <2>4. u \in Readers => Measuring
    BY <1>1, UsersAssumption DEF Iterate, Runs, Measuring
  <2> HIDE DEF r
  <2>5. QED
    BY <2>2, <2>3, <2>4, WalkHolds
<1>2. CASE Interrupted(u)
  <2>1. user' = [user EXCEPT ![u] = Idle] /\ UNCHANGED <<suite, phase, warm, cycle, last, coldAtStart, cycles>>
    BY <1>2 DEF Interrupted
  <2>2. Idle \in [walk : Seq(Places), found : Warmths \cup {"none"}] /\ Idle.found = "none"
    BY DEF Idle
  <2>3. QED
    BY <2>1, <2>2, WalkHolds
<1>3. QED
  BY <1>1, <1>2, AskHolds, AnswerHolds

(* The evicting user's steps.                                              *)
LEMMA CycleHolds ==
  ASSUME LoadInv, CycleStarts \/ ReadBack \/ ReadBackAnswered \/ \E accepted \in BOOLEAN : EvictWrite(accepted)
  PROVE  LoadInv'
<1>1. LoadTyped /\ CycleTyped /\ ColdInv /\ EvictInv
  BY DEF LoadInv
<1>2. warm \in [Places -> Warmths] /\ Ticker \in Places
  BY <1>1, PlaceFacts DEF LoadTyped
<1>3. CASE CycleStarts
  <2>1. /\ cycle' = [at |-> "write", found |-> "none", written |-> FALSE, others |-> FALSE]
        /\ Measuring /\ UNCHANGED <<suite, phase, warm, user, last, coldAtStart>>
    BY <1>3 DEF CycleStarts, NoCycle, Measuring
  <2>2. LoadTyped' /\ CycleTyped'
    BY <1>1, <2>1 DEF LoadTyped, CycleTyped
  <2>3. ColdInv' /\ EvictInv'
    BY <1>1, <2>1 DEF ColdInv, EvictInv, Measuring
  <2>4. QED
    BY <2>2, <2>3 DEF LoadInv
<1>4. CASE ReadBack
  <2>1. /\ cycle' = [cycle EXCEPT !.at = "reading", !.found = warm[Ticker]] /\ cycle.at = "written"
        /\ UNCHANGED <<suite, phase, warm, user, last, coldAtStart>>
    BY <1>4 DEF ReadBack
  <2>2. warm[Ticker] \in Warmths
    BY <1>2
  <2>3. /\ CycleTyped' /\ cycle'.at = "reading" /\ cycle'.found = warm[Ticker]
        /\ cycle'.written = cycle.written /\ cycle'.others = cycle.others
    BY <1>1, <2>1, <2>2 DEF CycleTyped
  <2>4. LoadTyped' /\ Measuring
    BY <1>1, <2>1 DEF LoadTyped, ColdInv
  <2>5. ColdInv'
    BY <1>1, <1>2, <2>1, <2>3, <2>4 DEF ColdInv, Measuring
  <2>6. EvictInv'
    BY <1>1, <2>1, <2>3 DEF EvictInv, CycleTyped
  <2>7. QED
    BY <2>3, <2>4, <2>5, <2>6 DEF LoadInv
<1>5. CASE ReadBackAnswered
  <2>1. /\ cycle.at = "reading" /\ warm' = Filled(Ticker, cycle.found)
        /\ last' = [trend |-> "lat_read_after_evict", place |-> Ticker, found |-> cycle.found,
                    excused |-> ~cycle.written \/ cycle.others]
        /\ cycle' = [at |-> "idle", found |-> "none", written |-> FALSE, others |-> FALSE]
        /\ UNCHANGED <<suite, phase, user, coldAtStart>>
    BY <1>5 DEF ReadBackAnswered, NoCycle
  <2>2. /\ warm' \in [Places -> Warmths]
        /\ \A p \in Places : warm'[p] = "cold" => warm[p] = "cold"
    BY <1>2, <2>1 DEF Filled, Warmths
  <2>3. LoadTyped' /\ CycleTyped' /\ Measuring
    BY <1>1, <2>1, <2>2 DEF LoadTyped, CycleTyped, ColdInv
  <2>4. ColdInv'
    BY <1>1, <2>1, <2>2, <2>3 DEF ColdInv, Measuring
  <2>5. EvictInv'
    BY <1>1, <2>1 DEF EvictInv
  <2>6. QED
    BY <2>3, <2>4, <2>5 DEF LoadInv
<1>6. ASSUME NEW accepted \in BOOLEAN, EvictWrite(accepted) PROVE LoadInv'
  <2>1. /\ cycle' = [cycle EXCEPT !.at = "written", !.written = accepted] /\ cycle.at = "write"
        /\ warm' = [p \in Places |-> IF accepted /\ p \in HotPaths /\ warm[p] = "filled" THEN "evicted" ELSE warm[p]]
        /\ UNCHANGED <<suite, phase, user, last, coldAtStart>>
    BY <1>6 DEF EvictWrite
  <2>2. /\ warm' \in [Places -> Warmths]
        /\ \A p \in Places : warm'[p] = "cold" => warm[p] = "cold"
        /\ accepted => warm'[Ticker] # "filled"
    BY <1>2, <2>1, PathsAssumption DEF Warmths
  <2>3. CycleTyped' /\ cycle'.at = "written" /\ cycle'.written = accepted
    BY <1>1, <2>1 DEF CycleTyped
  <2>4. LoadTyped' /\ Measuring
    BY <1>1, <2>1, <2>2 DEF LoadTyped, ColdInv
  <2>5. ColdInv'
    BY <1>1, <2>1, <2>2, <2>3, <2>4 DEF ColdInv, Measuring
  <2>6. EvictInv'
    BY <1>1, <2>1, <2>2, <2>3 DEF EvictInv
  <2>7. QED
    BY <2>3, <2>4, <2>5, <2>6 DEF LoadInv
<1>7. QED
  BY <1>3, <1>4, <1>5, <1>6

(* The test's own steps. *)
LEMMA PhaseHolds ==
  ASSUME LoadInv,
         (\E primed \in {{}, {Ticker}, Places} : Prime(primed)) \/ MeasuredStarts \/ Ends \/ AnotherTest
  PROVE  LoadInv'
<1>1. LoadTyped /\ CycleTyped /\ ColdInv /\ EvictInv
  BY DEF LoadInv
<1>2. ASSUME NEW primed \in {{}, {Ticker}, Places}, Prime(primed) PROVE LoadInv'
  <2>1. warm' \in [Places -> Warmths] /\ ~Measuring /\ phase' = "warmup"
    BY <1>2 DEF Prime, Warmths, Measuring
  <2>2. UNCHANGED <<suite, user, cycle, last, coldAtStart, cycles>>
    BY <1>2 DEF Prime
  <2>3. LoadTyped' /\ CycleTyped'
    BY <1>1, <2>1, <2>2 DEF LoadTyped, CycleTyped
  <2>4. ColdInv' /\ EvictInv'
    BY <1>1, <2>1, <2>2 DEF ColdInv, EvictInv, Measuring
  <2>5. QED
    BY <2>3, <2>4 DEF LoadInv
<1>3. CASE MeasuredStarts
  <2>1. /\ ~Measuring /\ phase' = "measured" /\ UNCHANGED <<suite, warm, user, cycle, last>>
        /\ coldAtStart' = {p \in Places : warm[p] = "cold"}
    BY <1>3 DEF MeasuredStarts, Measuring
  <2>2. LoadTyped' /\ CycleTyped' /\ EvictInv'
    BY <1>1, <2>1 DEF LoadTyped, CycleTyped, EvictInv
  <2>3. ColdInv'
    BY <1>1, <2>1 DEF ColdInv, Measuring, Idle
  <2>4. QED
    BY <2>2, <2>3 DEF LoadInv
<1>4. CASE Ends
  <2>1. Measuring /\ phase' = "over" /\ UNCHANGED <<suite, warm, user, cycle, last, coldAtStart>>
    BY <1>4 DEF Ends, Measuring
  <2>2. LoadTyped' /\ CycleTyped' /\ EvictInv'
    BY <1>1, <2>1 DEF LoadTyped, CycleTyped, EvictInv
  <2>3. ColdInv'
    BY <1>1, <2>1 DEF ColdInv, Measuring
  <2>4. QED
    BY <2>2, <2>3 DEF LoadInv
<1>5. CASE AnotherTest
  <2>1. /\ phase' = "priming" /\ UNCHANGED <<suite, user, cycle>> /\ cycle.at = "idle"
        /\ warm' = [p \in Places |-> "cold"] /\ last' = NoSample
        /\ \A u \in Users : user[u] = Idle
    BY <1>5 DEF AnotherTest
  <2>2. LoadTyped' /\ CycleTyped'
    BY <1>1, <2>1 DEF LoadTyped, CycleTyped, Warmths
  <2>3. ColdInv' /\ EvictInv'
    BY <1>1, <2>1, PlaceFacts DEF ColdInv, EvictInv, Measuring, NoSample, Idle
  <2>4. QED
    BY <2>2, <2>3 DEF LoadInv
<1>6. QED
  BY <1>2, <1>3, <1>4, <1>5

(* A sample is of a cold start only where neither priming nor warm-up had  *)
(* got an answer when the measuring began, and what is recorded for the    *)
(* read after an accepted write is a miss, unless another user had the     *)
(* path put back before (scenarios.js:55, cache.js:12): for every number   *)
(* of users and paths, however requests of the phases overlap.             *)
THEOREM SamplesKeepTheirName == LoadSpec => []SamplesAreAsNamed
<1>1. LoadInv /\ [LoadNext]_loadVars => LoadInv'
  <2> SUFFICES ASSUME LoadInv, [LoadNext]_loadVars PROVE LoadInv'
    OBVIOUS
  <2>1. CASE UNCHANGED loadVars
    BY <2>1 DEF loadVars, LoadInv, LoadTyped, CycleTyped, ColdInv, EvictInv, Measuring
  <2>2. CASE LoadNext
    BY <2>2, PhaseHolds, UserHolds, CycleHolds DEF LoadNext
  <2>3. QED
    BY <2>1, <2>2
<1>2. LoadInv => SamplesAreAsNamed
  BY DEF LoadInv, ColdInv, EvictInv, SamplesAreAsNamed
<1>3. QED
  BY <1>1, <1>2, LoadInitHolds, PTL DEF LoadSpec

-----------------------------------------------------------------------------
(***************************************************************************)
(* Pages and tables                                                        *)
(***************************************************************************)

LEMMA Divided ==
  ASSUME NEW a \in Int, NEW b \in Nat \ {0}
  PROVE  a \div b \in Int /\ b * (a \div b) <= a /\ a < b * (a \div b) + b
  OBVIOUS

(* A place on a page is one of size places that begin after the earlier    *)
(* pages.                                                                  *)
LEMMA PlaceOnPage ==
  ASSUME NEW i \in Nat \ {0}, NEW page \in Nat, NEW size \in Nat \ {0}
  PROVE  /\ (i - 1) \div size = page <=> page * size < i /\ i <= page * size + size
         /\ page * size < i /\ i <= page * size + size => (i - 1) % size = i - 1 - page * size
<1> DEFINE q == (i - 1) \div size
<1>1. q \in Int /\ size * q <= i - 1 /\ i - 1 < size * q + size
  BY Divided
<1>2. (i - 1) % size = i - 1 - size * q
  OBVIOUS
<1> HIDE DEF q
<1>3. page * size = size * page /\ size * page \in Nat
  OBVIOUS
<1>4. ASSUME size * page <= i - 1, i - 1 < size * page + size PROVE q = page
  <2>1. ASSUME q + 1 <= page PROVE FALSE
    <3>1. size * (q + 1) <= size * page
      BY <1>1, <2>1
    <3>2. size * (q + 1) = size * q + size
      BY <1>1
    <3>3. QED
      BY <1>1, <1>3, <1>4, <3>1, <3>2
  <2>2. ASSUME page + 1 <= q PROVE FALSE
    <3>1. size * (page + 1) <= size * q
      BY <1>1, <2>2
    <3>2. size * (page + 1) = size * page + size
      OBVIOUS
    <3>3. QED
      BY <1>1, <1>3, <1>4, <3>1, <3>2
  <2>3. QED
    BY <1>1, <2>1, <2>2
<1>5. q = page <=> page * size < i /\ i <= page * size + size
  BY <1>1, <1>3, <1>4
<1>6. page * size < i /\ i <= page * size + size => (i - 1) % size = i - 1 - page * size
  BY <1>2, <1>3, <1>5
<1>7. QED
  BY <1>5, <1>6 DEF q

LEMMA Cut ==
  ASSUME NEW S, NEW list \in Seq(S), NEW from \in Nat, NEW to \in Nat, to <= Len(list)
  PROVE  /\ Len(SubSeq(list, from + 1, to)) = IF from < to THEN to - from ELSE 0
         /\ \A j \in 1..(to - from) : SubSeq(list, from + 1, to)[j] = list[from + j]
         /\ from >= to => SubSeq(list, from + 1, to) = <<>>
  OBVIOUS

(* Without overflow a page of a list of any length holds what the list has *)
(* in the places of that page, each in its place.                          *)
THEOREM PagesCutLists ==
  ASSUME NEW S, NEW list \in Seq(S), NEW page \in Nat, NEW size \in Nat \ {0}, page * size < IntHalf
  PROVE  IsPageOf(Page(list, page, size), list, page, size)
<1> DEFINE start == page * size
           from == Lesser(start, Len(list))
           to == Lesser(from + size, Len(list))
<1>1. start \in Nat /\ Len(list) \in Nat /\ IntHalf \in Nat \ {0}
  BY SizesAssumption
<1>2. Wrapped(page * size) = start
  BY <1>1 DEF Wrapped
<1>3. from \in Nat /\ to \in Nat /\ from <= Len(list) /\ to <= Len(list) /\ from <= to
  BY <1>1 DEF Lesser
<1>4. Page(list, page, size) = SubSeq(list, from + 1, to)
  BY <1>2, <1>3 DEF Page, SubList
<1>5. \A i \in DOMAIN list : (i - 1) \div size = page <=> start < i /\ i <= start + size
  BY PlaceOnPage
<1>6. \A i \in DOMAIN list : start < i /\ i <= start + size => (i - 1) % size = i - 1 - start
  <2>1. TAKE i \in DOMAIN list
  <2>2. i \in Nat \ {0}
    BY <1>1
  <2>3. QED
    BY <2>2, PlaceOnPage
<1> HIDE DEF start
<1>7. from < to => from = start /\ to = Lesser(start + size, Len(list))
  BY <1>1 DEF Lesser
<1>8. OnPage(list, page, size) = (from + 1)..to
  BY <1>1, <1>5 DEF OnPage, Lesser
<1> HIDE DEF from, to
<1>9. Cardinality(OnPage(list, page, size)) = IF from < to THEN to - from ELSE 0
  <2> DEFINE first == from + 1
  <2>1. first \in Int /\ to \in Int /\ first = from + 1
    BY <1>3
  <2> HIDE DEF first
  <2>2. Cardinality(first..to) = IF first > to THEN 0 ELSE to - first + 1
    BY <2>1, FS_Interval
  <2>3. QED
    BY <1>3, <1>8, <2>1, <2>2
<1>10. ASSUME NEW i \in OnPage(list, page, size) PROVE Page(list, page, size)[((i - 1) % size) + 1] = list[i]
  <2>1. i \in Int /\ from < i /\ i <= to
    BY <1>3, <1>8
  <2>2. i \in DOMAIN list /\ (i - 1) \div size = page
    BY DEF OnPage
  <2>3. (i - 1) % size = i - 1 - from
    <3>1. start < i /\ i <= start + size
      BY <1>5, <2>2
    <3>2. from = start
      BY <1>3, <1>7, <2>1
    <3>3. QED
      BY <1>6, <2>2, <3>1, <3>2
  <2>4. i - from \in 1..(to - from) /\ from + (i - from) = i
    BY <1>3, <2>1
  <2>5. QED
    BY <1>3, <1>4, <2>1, <2>3, <2>4, Cut
<1>11. Len(Page(list, page, size)) = Cardinality(OnPage(list, page, size))
  BY <1>3, <1>4, <1>9, Cut
<1>12. QED
  BY <1>10, <1>11 DEF IsPageOf

(* The table of a resource is cut alike by a repository and by a store,    *)
(* page by page, past the end as well.                                     *)
THEOREM TablesAgree ==
  ASSUME NEW S, NEW list \in Seq(S), NEW k \in Nat, NEW size \in Nat \ {0}
  PROVE  RepoList(list, k * size, (k + 1) * size) = CachedList(list, k * size, (k + 1) * size)
<1> DEFINE start == k * size
           from == Lesser(start, Len(list))
           to == Lesser(start + size, Len(list))
<1>1. start \in Nat /\ Len(list) \in Nat /\ (k + 1) * size = start + size
  OBVIOUS
<1>2. (k * size) \div size = k
  <2>1. k * size < start + 1 /\ start + 1 <= k * size + size /\ start + 1 \in Nat \ {0} /\ (start + 1) - 1 = k * size
    BY <1>1
  <2>2. ((start + 1) - 1) \div size = k
    BY <2>1, PlaceOnPage
  <2>3. QED
    BY <2>1, <2>2
<1> HIDE DEF start
<1>3. Start(start) = start /\ End(start, start + size) = start + size /\ (start + size) - start = size
  BY <1>1 DEF Start, End
<1>4. RepoList(list, start, start + size) = SubSeq(list, start + 1, to)
  <2>1. start \div size = k
    BY <1>2 DEF start
  <2>2. k * size = start
    BY DEF start
  <2>3. QED
    BY <1>1, <1>3, <2>1, <2>2 DEF RepoList
<1>5. CachedList(list, start, start + size) = SubSeq(list, from + 1, to)
  <2>1. from \in Nat
    BY <1>1 DEF Lesser
  <2>2. CachedList(list, start, start + size) = SubList(list, from, to)
    BY <1>3 DEF CachedList
  <2> HIDE DEF from, to
  <2>3. ~(from < 0)
    BY <2>1
  <2>4. QED
    BY <2>2, <2>3, Zenon DEF SubList
<1>6. SubSeq(list, start + 1, to) = SubSeq(list, from + 1, to)
  <2>1. CASE start <= Len(list)
    <3>1. from = start
      BY <1>1, <2>1 DEF Lesser
    <3>2. QED
      BY <3>1, Zenon
  <2>2. CASE start > Len(list)
    <3>1. to = Len(list) /\ from = Len(list) /\ to \in Nat /\ from \in Nat
      BY <1>1, <2>2 DEF Lesser
    <3>2. QED
      BY <1>1, <2>2, <3>1, Cut
  <2>3. start <= Len(list) \/ start > Len(list)
    BY <1>1
  <2>4. QED
    BY <2>1, <2>2, <2>3, Zenon
<1>7. QED
  BY <1>1, <1>4, <1>5, <1>6 DEF start

-----------------------------------------------------------------------------
(***************************************************************************)
(* Reading the articles page by page                                       *)
(***************************************************************************)

(* The places of a list that a filter keeps, and how many of them there    *)
(* are up to a place.                                                      *)
Kept(list, P) == {i \in DOMAIN list : list[i] \in P}
Rank(list, P, i) == Cardinality({j \in Kept(list, P) : j <= i})

LEMMA RankRises ==
  ASSUME NEW S, NEW list \in Seq(S), NEW P
  PROVE  /\ IsFiniteSet(Kept(list, P))
         /\ Cardinality(Kept(list, P)) \in Nat
         /\ \A i \in Kept(list, P) : Rank(list, P, i) \in 1..Cardinality(Kept(list, P))
         /\ \A i, j \in Kept(list, P) : i < j => Rank(list, P, i) < Rank(list, P, j)
<1> DEFINE kept == Kept(list, P)
           UpTo(i) == {j \in kept : j <= i}
<1>1. kept \subseteq 1..Len(list) /\ Len(list) \in Nat
  BY DEF Kept
<1>2. IsFiniteSet(kept)
  <2> DEFINE n == Len(list)
  <2>1. n \in Int /\ 1 \in Int /\ kept \in SUBSET (1..n)
    BY <1>1
  <2> HIDE DEF n, kept
  <2>2. IsFiniteSet(1..n)
    BY <2>1, FS_Interval
  <2>3. QED
    BY <2>1, <2>2, FS_Subset
<1>3. Cardinality(kept) \in Nat
  BY <1>2, FS_CardinalityType
<1>4. ASSUME NEW i \in kept PROVE /\ IsFiniteSet(UpTo(i)) /\ Cardinality(UpTo(i)) \in Nat
                                  /\ 1 <= Cardinality(UpTo(i)) /\ Cardinality(UpTo(i)) <= Cardinality(kept)
  <2>1. UpTo(i) \subseteq kept /\ i \in UpTo(i)
    BY <1>1
  <2> HIDE DEF UpTo, kept
  <2>2. IsFiniteSet(UpTo(i)) /\ Cardinality(UpTo(i)) <= Cardinality(kept)
    BY <1>2, <2>1, FS_Subset
  <2>3. Cardinality(UpTo(i)) \in Nat /\ Cardinality(UpTo(i)) # 0
    BY <2>1, <2>2, FS_CardinalityType, FS_EmptySet
  <2>4. QED
    BY <1>3, <2>2, <2>3
<1>5. ASSUME NEW i \in kept, NEW j \in kept, i < j PROVE Cardinality(UpTo(i)) < Cardinality(UpTo(j))
  <2>1. UpTo(i) \subseteq UpTo(j) /\ j \in UpTo(j) /\ j \notin UpTo(i)
    BY <1>1, <1>5
  <2>2. IsFiniteSet(UpTo(j)) /\ Cardinality(UpTo(j)) \in Nat /\ Cardinality(UpTo(i)) \in Nat
    BY <1>4
  <2> HIDE DEF UpTo, kept
  <2>3. Cardinality(UpTo(i)) <= Cardinality(UpTo(j)) /\ Cardinality(UpTo(i)) # Cardinality(UpTo(j))
    BY <2>1, <2>2, FS_Subset
  <2>4. QED
    BY <2>2, <2>3
<1>6. \A i : Rank(list, P, i) = Cardinality(UpTo(i))
  BY DEF Rank
<1> HIDE DEF UpTo
<1>7. QED
  BY <1>2, <1>3, <1>4, <1>5, <1>6

(* A filter gives a list of what it keeps, each in the place of its rank.  *)
LEMMA FilteredIsList ==
  ASSUME NEW S, NEW list \in Seq(S), NEW P
  PROVE  /\ Filtered(list, P) \in Seq(S)
         /\ Len(Filtered(list, P)) = Cardinality(Kept(list, P))
         /\ \A i \in Kept(list, P) : Filtered(list, P)[Rank(list, P, i)] = list[i]
<1> DEFINE kept == Kept(list, P)
           n == Cardinality(kept)
           rank == [i \in kept |-> Rank(list, P, i)]
           At(k) == CHOOSE i \in kept : Rank(list, P, i) = k
<1>1. IsFiniteSet(kept) /\ n \in Nat /\ kept \subseteq DOMAIN list /\ DOMAIN list \subseteq Nat
  BY RankRises DEF Kept
<1>2. rank \in [kept -> 1..n]
  BY RankRises
<1>3. ASSUME NEW i \in kept, NEW j \in kept, rank[i] = rank[j] PROVE i = j
  <2>1. ~(i < j) /\ ~(j < i)
    <3>1. rank[i] \in Int /\ rank[i] = Rank(list, P, i) /\ rank[j] = Rank(list, P, j)
      BY <1>2
    <3>2. QED
      BY <1>3, <3>1, RankRises
  <2>2. i \in Nat /\ j \in Nat
    BY <1>1
  <2>3. QED
    BY <2>1, <2>2
<1>4. IsFiniteSet(1..n) /\ Cardinality(1..n) = n
  BY <1>1, FS_Interval
<1>5. \A k \in 1..n : \E i \in kept : rank[i] = k
  <2> HIDE DEF kept, n, rank
  <2>1. rank \in Injection(kept, 1..n)
    BY <1>2, <1>3, Fun_IsInj
  <2>2. rank \in Surjection(kept, 1..n)
    BY <1>4, <2>1, FS_Injection DEF n
  <2>3. QED
    BY <2>2, Fun_SurjectionProperties
<1>6. ASSUME NEW k \in 1..n PROVE At(k) \in kept /\ Rank(list, P, At(k)) = k
  <2>1. \E i \in kept : Rank(list, P, i) = k
    BY <1>5
  <2>2. QED
    BY <2>1
<1>7. Filtered(list, P) = [k \in 1..n |-> list[At(k)]]
  BY DEF Filtered, Kept, Rank
<1>8. \A k \in 1..n : list[At(k)] \in S
  <2>1. \A i \in DOMAIN list : list[i] \in S
    OBVIOUS
  <2> HIDE DEF kept, n, At
  <2>2. QED
    BY <1>1, <1>6, <2>1
<1>9. ASSUME NEW i \in kept PROVE rank[i] \in 1..n /\ At(rank[i]) = i
  <2>1. rank[i] \in 1..n
    BY <1>2
  <2>2. At(rank[i]) \in kept /\ rank[At(rank[i])] = rank[i]
    BY <1>6, <2>1
  <2>3. QED
    BY <1>3, <2>1, <2>2
<1>10. \A i \in kept : rank[i] = Rank(list, P, i)
  OBVIOUS
<1> HIDE DEF kept, n, rank, At
<1>11. \A i \in kept : Filtered(list, P)[Rank(list, P, i)] = list[i]
  BY <1>7, <1>9, <1>10
<1>12. Filtered(list, P) \in [1..n -> S]
  BY <1>7, <1>8
<1>13. Filtered(list, P) \in Seq(S) /\ Len(Filtered(list, P)) = n
  BY <1>1, <1>12
<1>14. QED
  BY <1>11, <1>13 DEF kept, n

(* Inserting moves what is behind the place by one.                        *)
LEMMA Inserted ==
  ASSUME NEW S, NEW list \in Seq(S), NEW p \in 1..(Len(list) + 1), NEW e \in S
  PROVE  /\ InsertAt(list, p, e) \in Seq(S)
         /\ Len(InsertAt(list, p, e)) = Len(list) + 1
         /\ InsertAt(list, p, e)[p] = e
         /\ \A i \in 1..Len(list) : InsertAt(list, p, e)[IF i < p THEN i ELSE i + 1] = list[i]
<1> DEFINE front == SubSeq(list, 1, p - 1)
           back == SubSeq(list, p, Len(list))
           t == front \o <<e>> \o back
<1>1. front \in Seq(S) /\ Len(front) = p - 1 /\ \A i \in 1..(p - 1) : front[i] = list[i]
  OBVIOUS
<1>2. back \in Seq(S) /\ Len(back) = Len(list) + 1 - p /\ \A i \in 1..(Len(list) + 1 - p) : back[i] = list[p + i - 1]
  OBVIOUS
<1>3. p \in Int /\ 1 <= p /\ p <= Len(list) + 1 /\ Len(list) \in Nat
  OBVIOUS
<1>4. InsertAt(list, p, e) = t
  BY DEF InsertAt
<1> HIDE DEF front, back
<1>5. t \in Seq(S) /\ Len(t) = Len(list) + 1 /\ t[p] = e
  <2> DEFINE head == front \o <<e>>
  <2>1. head \in Seq(S) /\ Len(head) = p /\ head[p] = e
    BY <1>1, <1>3
  <2>2. t = head \o back
    OBVIOUS
  <2> HIDE DEF head
  <2>3. head \o back \in Seq(S) /\ Len(head \o back) = Len(head) + Len(back)
    <3>1. ASSUME NEW u \in Seq(S), NEW v \in Seq(S) PROVE u \o v \in Seq(S) /\ Len(u \o v) = Len(u) + Len(v)
      OBVIOUS
    <3>2. head \in Seq(S) /\ back \in Seq(S)
      BY <1>2, <2>1
    <3>3. QED
      BY <3>1, <3>2
  <2>4. (head \o back)[p] = head[p]
    BY <1>2, <1>3, <2>1
  <2> HIDE DEF t
  <2>5. QED
    BY <1>2, <1>3, <2>1, <2>2, <2>3, <2>4
<1>6. ASSUME NEW i \in 1..Len(list), i < p PROVE t[i] = list[i]
  BY <1>1, <1>2, <1>3, <1>6
<1>7. ASSUME NEW i \in 1..Len(list), ~(i < p) PROVE t[i + 1] = list[i]
  <2>1. t[i + 1] = back[i + 1 - p]
    BY <1>1, <1>2, <1>3, <1>7
  <2>2. i + 1 - p \in 1..(Len(list) + 1 - p) /\ p + (i + 1 - p) - 1 = i
    BY <1>3, <1>7
  <2>3. QED
    BY <1>2, <2>1, <2>2
<1> HIDE DEF t
<1>8. QED
  BY <1>4, <1>5, <1>6, <1>7

(* Removing moves what is behind the place the other way.                  *)
LEMMA Removed ==
  ASSUME NEW S, NEW list \in Seq(S), NEW p \in 1..Len(list)
  PROVE  /\ RemoveAt(list, p) \in Seq(S)
         /\ Len(RemoveAt(list, p)) = Len(list) - 1
         /\ \A i \in 1..(Len(list) - 1) : RemoveAt(list, p)[i] = list[IF i < p THEN i ELSE i + 1]
<1> DEFINE front == SubSeq(list, 1, p - 1)
           back == SubSeq(list, p + 1, Len(list))
           t == front \o back
<1>1. front \in Seq(S) /\ Len(front) = p - 1 /\ \A i \in 1..(p - 1) : front[i] = list[i]
  OBVIOUS
<1>2. back \in Seq(S) /\ Len(back) = Len(list) - p /\ \A i \in 1..(Len(list) - p) : back[i] = list[p + i]
  OBVIOUS
<1>3. p \in Int /\ 1 <= p /\ p <= Len(list) /\ Len(list) \in Nat
  OBVIOUS
<1>4. RemoveAt(list, p) = t
  BY DEF RemoveAt
<1> HIDE DEF front, back
<1>5. t \in Seq(S) /\ Len(t) = Len(list) - 1
  <2>1. ASSUME NEW u \in Seq(S), NEW v \in Seq(S) PROVE u \o v \in Seq(S) /\ Len(u \o v) = Len(u) + Len(v)
    OBVIOUS
  <2>2. t \in Seq(S) /\ Len(t) = Len(front) + Len(back)
    BY <1>1, <1>2, <2>1
  <2> HIDE DEF t
  <2>3. QED
    BY <1>1, <1>2, <1>3, <2>2
<1>6. ASSUME NEW i \in 1..(Len(list) - 1), i < p PROVE t[i] = list[i]
  BY <1>1, <1>2, <1>3, <1>6
<1>7. ASSUME NEW i \in 1..(Len(list) - 1), ~(i < p) PROVE t[i] = list[i + 1]
  <2>1. t[i] = back[i + 1 - p]
    BY <1>1, <1>2, <1>3, <1>7
  <2>2. i + 1 - p \in 1..(Len(list) - p) /\ p + (i + 1 - p) = i + 1
    BY <1>3, <1>7
  <2>3. QED
    BY <1>2, <2>1, <2>2
<1> HIDE DEF t
<1>8. QED
  BY <1>4, <1>5, <1>6, <1>7

(* What stands in a place of a page is shown by it, and a page shows       *)
(* nothing else.                                                           *)
LEMMA PageShows ==
  ASSUME NEW S, NEW list \in Seq(S), NEW page \in Nat, NEW size \in Nat \ {0}, page * size < IntHalf
  PROVE  /\ ToSet(Page(list, page, size)) \subseteq S
         /\ \A k \in DOMAIN list : page * size < k /\ k <= page * size + size => list[k] \in ToSet(Page(list, page, size))
<1> DEFINE start == page * size
           from == Lesser(start, Len(list))
           to == Lesser(from + size, Len(list))
           part == Page(list, page, size)
<1>1. start \in Nat /\ Len(list) \in Nat /\ IntHalf \in Nat \ {0}
  BY SizesAssumption
<1>2. Wrapped(page * size) = start
  BY <1>1 DEF Wrapped
<1>3. from \in Nat /\ to \in Nat /\ from <= Len(list) /\ to <= Len(list) /\ from <= to
  BY <1>1 DEF Lesser
<1>4. part = SubSeq(list, from + 1, to)
  BY <1>2, <1>3 DEF Page, SubList
<1> HIDE DEF start, part
<1>5. \A k \in 1..Len(list) : start < k /\ k <= start + size => from < k /\ k <= to
  BY <1>1 DEF Lesser
<1> HIDE DEF from, to
<1>6. part \in Seq(S) /\ Len(part) = to - from /\ \A j \in 1..(to - from) : part[j] = list[from + j]
  BY <1>3, <1>4, Cut
<1>7. ToSet(part) \subseteq S
  BY <1>6 DEF ToSet
<1>8. ASSUME NEW k \in 1..Len(list), start < k, k <= start + size PROVE list[k] \in ToSet(part)
  <2>1. k - from \in 1..(to - from) /\ from + (k - from) = k
    BY <1>3, <1>5, <1>8
  <2>2. k - from \in DOMAIN part /\ part[k - from] = list[k]
    BY <1>6, <2>1
  <2>3. QED
    BY <2>2 DEF ToSet
<1>9. QED
  BY <1>7, <1>8 DEF part, start

(* A table of whole pages is paged as a list is.                           *)
LEMMA RepoPage ==
  ASSUME NEW S, NEW list \in Seq(S), NEW k \in Nat, NEW size \in Nat \ {0}
  PROVE  IsPageOf(RepoList(list, k * size, (k + 1) * size), list, k, size)
<1> DEFINE start == k * size
           to == Lesser(start + size, Len(list))
           rows == RepoList(list, k * size, (k + 1) * size)
<1>1. start \in Nat /\ Len(list) \in Nat /\ (k + 1) * size = start + size
  OBVIOUS
<1>2. start \div size = k
  <2>1. k * size < start + 1 /\ start + 1 <= k * size + size /\ start + 1 \in Nat \ {0} /\ (start + 1) - 1 = start
    BY <1>1
  <2>2. ((start + 1) - 1) \div size = k
    BY <2>1, PlaceOnPage
  <2>3. QED
    BY <2>1, <2>2
<1>3. \A i \in DOMAIN list : (i - 1) \div size = k <=> start < i /\ i <= start + size
  BY PlaceOnPage
<1>4. \A i \in DOMAIN list : start < i /\ i <= start + size => (i - 1) % size = i - 1 - start
  <2>1. TAKE i \in DOMAIN list
  <2>2. i \in Nat \ {0}
    BY <1>1
  <2>3. QED
    BY <2>2, PlaceOnPage
<1>5. k * size = start
  OBVIOUS
<1> HIDE DEF start
<1>6. Start(start) = start /\ End(start, start + size) = start + size /\ (start + size) - start = size
  BY <1>1 DEF Start, End
<1>7. rows = SubSeq(list, start + 1, to)
  BY <1>1, <1>2, <1>5, <1>6 DEF RepoList
<1>8. to \in Nat /\ to <= Len(list) /\ OnPage(list, k, size) = (start + 1)..to
  BY <1>1, <1>3 DEF OnPage, Lesser
<1> HIDE DEF to, rows
<1>9. Cardinality(OnPage(list, k, size)) = IF start < to THEN to - start ELSE 0
  <2> DEFINE first == start + 1
  <2>1. first \in Int /\ to \in Int /\ first = start + 1
    BY <1>1, <1>8
  <2> HIDE DEF first
  <2>2. Cardinality(first..to) = IF first > to THEN 0 ELSE to - first + 1
    BY <2>1, FS_Interval
  <2>3. QED
    BY <1>1, <1>8, <2>1, <2>2
<1>10. Len(rows) = Cardinality(OnPage(list, k, size))
  BY <1>1, <1>7, <1>8, <1>9, Cut
<1>11. ASSUME NEW i \in OnPage(list, k, size) PROVE rows[((i - 1) % size) + 1] = list[i]
  <2>1. i \in Int /\ start < i /\ i <= to /\ i \in DOMAIN list
    BY <1>1, <1>8 DEF OnPage
  <2>2. (i - 1) % size = i - 1 - start
    BY <1>3, <1>4, <1>11 DEF OnPage
  <2>3. i - start \in 1..(to - start) /\ start + (i - start) = i /\ (i - 1 - start) + 1 = i - start
    BY <1>1, <1>8, <2>1
  <2>4. \A j \in 1..(to - start) : rows[j] = list[start + j]
    BY <1>1, <1>7, <1>8, Cut
  <2> DEFINE j == i - start
  <2>5. j \in 1..(to - start) /\ start + j = i /\ ((i - 1) % size) + 1 = j
    BY <2>2, <2>3
  <2> HIDE DEF j
  <2>6. QED
    BY <2>4, <2>5
<1>12. QED
  BY <1>10, <1>11 DEF IsPageOf, rows

(* The map holds no article twice and every one that is shown.             *)
OrderInv ==
  /\ order \in Seq(Articles)
  /\ \A i, j \in DOMAIN order : order[i] = order[j] => i = j
  /\ shown \subseteq ToSet(order)

(* An order of a finite set is a list without repetition of all of it.     *)
LEMMA ArrangedFacts ==
  ASSUME NEW S \in SUBSET Articles, NEW n, NEW s \in Arranged(S, n)
  PROVE  /\ s \in Seq(Articles)
         /\ \A i, j \in DOMAIN s : s[i] = s[j] => i = j
         /\ ToSet(s) = S
<1> DEFINE m == Cardinality(S)
           places == 1..m
<1>1. IsFiniteSet(S) /\ m \in Nat
  BY ArticlesAssumption, FS_Subset, FS_CardinalityType
<1>2. s \in [1..m -> S] /\ \A i, j \in 1..m : i # j => s[i] # s[j]
  BY DEF Arranged, SetToSeqs
<1>3. Cardinality(1..m) = m
  BY <1>1, FS_Interval
<1>4. /\ s \in [places -> S] /\ \A i, j \in places : s[i] = s[j] => i = j
      /\ Cardinality(places) = Cardinality(S)
  BY <1>2, <1>3
<1> HIDE DEF places
<1>5. s \in Surjection(places, S)
  <2>1. s \in Injection(places, S)
    BY <1>4, Fun_IsInj
  <2>2. QED
    BY <1>1, <1>4, <2>1, FS_Injection
<1>6. \A e \in S : \E i \in places : s[i] = e
  BY <1>5, Fun_SurjectionProperties
<1>7. DOMAIN s = 1..m /\ places = 1..m
  BY <1>2 DEF places
<1> HIDE DEF m
<1>8. ToSet(s) = S
  BY <1>2, <1>6, <1>7 DEF ToSet
<1>9. QED
  BY <1>1, <1>2, <1>7, <1>8

LEMMA OrderTyped ==
  ASSUME OrderInv
  PROVE  /\ shown \subseteq Articles /\ ToSet(order) \subseteq Articles
         /\ Len(order) \in Nat /\ DOMAIN order = 1..Len(order)
         /\ IsFiniteSet(shown)
<1>1. ToSet(order) \subseteq Articles
  BY DEF OrderInv, ToSet
<1>2. shown \subseteq Articles
  BY <1>1 DEF OrderInv
<1>3. IsFiniteSet(shown)
  BY <1>2, ArticlesAssumption, FS_Subset
<1>4. Len(order) \in Nat /\ DOMAIN order = 1..Len(order)
  BY DEF OrderInv
<1>5. QED
  BY <1>1, <1>2, <1>3, <1>4

(* The place of a new article is one of the list's or the one behind it.   *)
LEMMA PlaceOfNew ==
  ASSUME OrderInv, NEW a
  PROVE  1 + Cardinality({i \in DOMAIN order : order[i] % bins <= a % bins}) \in 1..(Len(order) + 1)
<1> DEFINE before == {i \in DOMAIN order : order[i] % bins <= a % bins}
           n == Len(order)
<1>1. n \in Int /\ n >= 0 /\ before \in SUBSET (1..n)
  BY OrderTyped
<1> HIDE DEF before, n
<1>2. IsFiniteSet(1..n) /\ Cardinality(1..n) = n
  BY <1>1, FS_Interval
<1>3. IsFiniteSet(before) /\ Cardinality(before) <= n
  BY <1>1, <1>2, FS_Subset
<1>4. Cardinality(before) \in Nat
  BY <1>3, FS_CardinalityType
<1>5. 1 + Cardinality(before) \in 1..(n + 1)
  BY <1>1, <1>3, <1>4
<1>6. QED
  BY <1>5 DEF before, n

(* What put leaves: the old order, the old with the article in a place, or *)
(* all in a new one.                                                       *)
LEMMA PutOrders ==
  ASSUME OrderInv, NEW a \in Articles, NEW show \in BOOLEAN, Put(a, show)
  PROVE  /\ \/ a \in ToSet(order) /\ order' = order /\ Noted(FALSE)
            \/ /\ a \notin ToSet(order)
               /\ \E p \in 1..(Len(order) + 1) : order' = InsertAt(order, p, a)
               /\ Noted(FALSE)
            \/ order' \in Arranged(ToSet(order) \cup {a}, bins') /\ Noted(TRUE)
         /\ shown' \subseteq shown \cup {a} /\ shown \subseteq shown' \cup {a}
<1> DEFINE place == 1 + Cardinality({i \in DOMAIN order : order[i] % bins <= a % bins})
<1>1. place \in 1..(Len(order) + 1)
  BY PlaceOfNew
<1> HIDE DEF place
<1>2. \/ a \in ToSet(order) /\ order' = order /\ Noted(FALSE)
      \/ a \notin ToSet(order) /\ order' = InsertAt(order, place, a) /\ Noted(FALSE)
      \/ order' \in Arranged(ToSet(order) \cup {a}, bins') /\ Noted(TRUE)
  BY Zenon DEF Put, place
<1>3. shown' \subseteq shown \cup {a} /\ shown \subseteq shown' \cup {a}
  BY DEF Put
<1>4. QED
  BY <1>1, <1>2, <1>3, Zenon

LEMMA PutKeepsOrder ==
  ASSUME OrderInv, NEW a \in Articles, NEW show \in BOOLEAN, Put(a, show)
  PROVE  OrderInv'
<1>0. CASE a \in ToSet(order) /\ order' = order
  <2>1. shown' \subseteq ToSet(order)
    BY <1>0, PutOrders DEF OrderInv
  <2>2. QED
    BY <1>0, <2>1 DEF OrderInv
<1>1. CASE order' \in Arranged(ToSet(order) \cup {a}, bins')
  <2>1. ToSet(order) \cup {a} \in SUBSET Articles
    BY OrderTyped
  <2>2. /\ order' \in Seq(Articles)
        /\ \A i, j \in DOMAIN order' : order'[i] = order'[j] => i = j
        /\ ToSet(order') = ToSet(order) \cup {a}
    BY <1>1, <2>1, ArrangedFacts
  <2>3. shown' \subseteq ToSet(order')
    BY <2>2, PutOrders DEF OrderInv
  <2>4. QED
    BY <2>2, <2>3 DEF OrderInv
<1>2. ASSUME a \notin ToSet(order), NEW p \in 1..(Len(order) + 1), order' = InsertAt(order, p, a) PROVE OrderInv'
  <2> DEFINE old(k) == IF k < p THEN k ELSE k - 1
  <2>1. /\ order \in Seq(Articles) /\ Len(order) \in Nat /\ DOMAIN order = 1..Len(order)
        /\ \A i, j \in 1..Len(order) : order[i] = order[j] => i = j
    BY OrderTyped DEF OrderInv
  <2>2. /\ order' \in Seq(Articles) /\ Len(order') = Len(order) + 1 /\ order'[p] = a
        /\ \A i \in 1..Len(order) : order'[IF i < p THEN i ELSE i + 1] = order[i]
    BY <1>2, <2>1, Inserted
  <2>3. DOMAIN order' = 1..(Len(order) + 1)
    BY <2>1, <2>2
  <2>4. \A e \in ToSet(order) : e \in ToSet(order')
    <3>1. TAKE e \in ToSet(order)
    <3>2. PICK i \in 1..Len(order) : order[i] = e
      BY <2>1 DEF ToSet
    <3>3. (IF i < p THEN i ELSE i + 1) \in 1..(Len(order) + 1)
      BY <2>1
    <3>4. QED
      BY <2>2, <2>3, <3>2, <3>3 DEF ToSet
  <2>5. a \in ToSet(order')
    BY <2>2, <2>3 DEF ToSet
  <2>6. shown' \subseteq ToSet(order')
    BY <2>4, <2>5, PutOrders DEF OrderInv
  <2>7. \A k \in 1..(Len(order) + 1) : k # p => old(k) \in 1..Len(order) /\ order'[k] = order[old(k)]
    <3>1. TAKE k \in 1..(Len(order) + 1)
    <3>2. HAVE k # p
    <3>3. old(k) \in 1..Len(order) /\ (IF old(k) < p THEN old(k) ELSE old(k) + 1) = k
      BY <2>1, <3>2
    <3> HIDE DEF old
    <3>4. QED
      BY <2>2, <3>3
  <2>8. \A i \in 1..Len(order) : order[i] # a
    BY <1>2, <2>1 DEF ToSet
  <2>9. \A i, j \in 1..(Len(order) + 1) : order'[i] = order'[j] => i = j
    <3>1. TAKE i, j \in 1..(Len(order) + 1)
    <3>2. HAVE order'[i] = order'[j]
    <3>3. CASE i = p \/ j = p
      BY <2>2, <2>7, <2>8, <3>2, <3>3
    <3>4. CASE i # p /\ j # p
      <4>1. old(i) \in 1..Len(order) /\ old(j) \in 1..Len(order) /\ order[old(i)] = order[old(j)]
        BY <2>7, <3>2, <3>4
      <4>2. old(i) = old(j)
        BY <2>1, <4>1
      <4>3. QED
        BY <2>1, <3>4, <4>2
    <3>5. QED
      BY <3>3, <3>4
  <2>10. QED
    BY <2>2, <2>3, <2>6, <2>9 DEF OrderInv
<1>3. QED
  BY <1>0, <1>1, <1>2, PutOrders

LEMMA DeleteKeepsOrder ==
  ASSUME OrderInv, NEW a \in Articles, Delete(a)
  PROVE  OrderInv'
<1>1. shown' = shown \ {a}
  BY DEF Delete
<1>2. \/ order' = order
      \/ \E p \in DOMAIN order : order[p] = a /\ order' = RemoveAt(order, p)
  BY DEF Delete
<1>3. CASE order' = order
  BY <1>1, <1>3 DEF OrderInv
<1>4. ASSUME NEW p \in DOMAIN order, order[p] = a, order' = RemoveAt(order, p) PROVE OrderInv'
  <2> DEFINE old(k) == IF k < p THEN k ELSE k + 1
  <2>1. /\ order \in Seq(Articles) /\ Len(order) \in Nat /\ DOMAIN order = 1..Len(order)
        /\ \A i, j \in 1..Len(order) : order[i] = order[j] => i = j
    BY OrderTyped DEF OrderInv
  <2>2. p \in 1..Len(order)
    BY <2>1
  <2>3. /\ order' \in Seq(Articles) /\ Len(order') = Len(order) - 1
        /\ \A i \in 1..(Len(order) - 1) : order'[i] = order[old(i)]
    BY <1>4, <2>1, <2>2, Removed
  <2>4. DOMAIN order' = 1..(Len(order) - 1)
    BY <2>1, <2>3
  <2>5. \A i, j \in 1..(Len(order) - 1) : order'[i] = order'[j] => i = j
    <3>1. TAKE i, j \in 1..(Len(order) - 1)
    <3>2. HAVE order'[i] = order'[j]
    <3>3. old(i) \in 1..Len(order) /\ old(j) \in 1..Len(order)
      BY <2>1, <2>2
    <3>4. old(i) = old(j)
      BY <2>1, <2>3, <3>2, <3>3
    <3>5. QED
      BY <2>1, <2>2, <3>4
  <2>6. \A e \in shown \ {a} : e \in ToSet(order')
    <3>1. TAKE e \in shown \ {a}
    <3>2. PICK i \in 1..Len(order) : order[i] = e
      BY <2>1 DEF OrderInv, ToSet
    <3> DEFINE k == IF i < p THEN i ELSE i - 1
    <3>3. i # p
      BY <1>4, <3>2
    <3>4. k \in 1..(Len(order) - 1) /\ old(k) = i
      BY <2>1, <2>2, <3>3
    <3> HIDE DEF k, old
    <3>5. QED
      BY <2>3, <2>4, <3>2, <3>4 DEF ToSet
  <2>7. QED
    BY <1>1, <2>3, <2>4, <2>5, <2>6 DEF OrderInv
<1>5. QED
  BY <1>2, <1>3, <1>4

LEMMA OrderInvariant == Spec => []OrderInv
<1>1. ASSUME Init PROVE OrderInv
  <2>1. PICK S \in SUBSET Articles : shown \subseteq S /\ order \in Arranged(S, bins)
    BY <1>1 DEF Init
  <2>2. QED
    BY <2>1, ArrangedFacts DEF OrderInv
<1>2. OrderInv /\ [Next]_vars => OrderInv'
  <2> SUFFICES ASSUME OrderInv, [Next]_vars PROVE OrderInv'
    OBVIOUS
  <2>1. CASE UNCHANGED <<order, shown>>
    BY <2>1 DEF OrderInv
  <2>2. CASE order' = <<>> /\ shown' = {}
    BY <2>2 DEF OrderInv
  <2>3. ASSUME NEW a \in Articles, NEW show \in BOOLEAN, Put(a, show) PROVE OrderInv'
    BY <2>3, PutKeepsOrder
  <2>4. ASSUME NEW a \in Articles, Load(a) PROVE OrderInv'
    <3>1. Put(a, a \in loading.shown) /\ (a \in loading.shown) \in BOOLEAN
      BY <2>4 DEF Load
    <3>2. QED
      BY <2>3, <3>1
  <2>5. ASSUME NEW a \in Articles, Create(a) \/ Update(a) PROVE OrderInv'
    <3>1. \E show \in BOOLEAN : Put(a, show)
      BY <2>5 DEF Create, Update
    <3>2. QED
      BY <2>3, <3>1
  <2>6. CASE PopularNext
    BY <2>1, <2>6 DEF PopularNext, pageVars, ReadRows, ReadBuffer, AnswerTop, Watch, StartFlush, Drain, CommitFlush,
       FailFlush, SaveForm
  <2>7. CASE PagesNext
    BY <2>1, <2>2, <2>4, <2>5, <2>7, DeleteKeepsOrder DEF PagesNext, OpenList, ReadPage, Restart, Preload
  <2>8. QED
    BY <2>1, <2>6, <2>7 DEF Next, vars, pageVars
<1>3. QED
  BY <1>1, <1>2, PTL DEF Spec

(* The shown articles up to one, in the order of the map: the article      *)
(* is as many places into the list that is served.                         *)
Ahead(a) == {b \in shown : \E i, j \in DOMAIN order : i <= j /\ order[i] = b /\ order[j] = a}

ArticleWalks == [size : 1..MaxPage, page : Nat, seen : SUBSET Articles, steady : SUBSET Articles,
                 withdrawn : BOOLEAN, reordered : BOOLEAN, done : BOOLEAN]

(* What a reader has still to see is behind the pages read.  Only a        *)
(* withdrawal, or the map growing, can move an article ahead of them.      *)
WalkInv ==
  /\ walk \in ArticleWalks
  /\ walk.steady \subseteq shown
  /\ ~walk.done => walk.page = 0 \/ walk.page * walk.size < Cardinality(Articles)
  /\ ~walk.withdrawn /\ ~walk.reordered =>
       \A a \in walk.steady \ walk.seen : ~walk.done /\ walk.page * walk.size < Cardinality(Ahead(a))

LEMMA AheadTyped ==
  ASSUME OrderInv, NEW a
  PROVE  IsFiniteSet(Ahead(a)) /\ Cardinality(Ahead(a)) \in Nat
<1>1. Ahead(a) \in SUBSET shown /\ IsFiniteSet(shown)
  BY OrderTyped DEF Ahead
<1>2. QED
  BY <1>1, FS_Subset, FS_CardinalityType

LEMMA AheadIsRank ==
  ASSUME OrderInv, NEW i \in Kept(order, shown)
  PROVE  Rank(order, shown, i) = Cardinality(Ahead(order[i]))
<1> DEFINE upTo == {j \in Kept(order, shown) : j <= i}
           ahead == Ahead(order[i])
           f == [j \in upTo |-> order[j]]
<1>1. /\ DOMAIN order = 1..Len(order) /\ Len(order) \in Nat
      /\ \A j, k \in DOMAIN order : order[j] = order[k] => j = k
  BY OrderTyped DEF OrderInv
<1>2. i \in DOMAIN order /\ \A j \in upTo : j \in DOMAIN order /\ order[j] \in shown /\ j <= i
  BY DEF Kept
<1>3. f \in [upTo -> ahead]
  BY <1>2 DEF Ahead
<1>4. \A j, k \in upTo : f[j] = f[k] => j = k
  BY <1>1, <1>2
<1>5. \A b \in ahead : \E j \in upTo : f[j] = b
  BY <1>1, <1>2 DEF Ahead, Kept
<1>6. IsFiniteSet(ahead)
  BY AheadTyped
<1>7. Rank(order, shown, i) = Cardinality(upTo)
  BY DEF Rank
<1> HIDE DEF upTo, ahead, f
<1>8. f \in Injection(upTo, ahead) /\ f \in Surjection(upTo, ahead)
  BY <1>3, <1>4, <1>5, Fun_IsInj, Fun_IsSurj
<1>9. Cardinality(upTo) = Cardinality(ahead)
  BY <1>6, <1>8, FS_Injection
<1>10. QED
  BY <1>7, <1>9 DEF ahead

LEMMA ListedFacts ==
  ASSUME OrderInv
  PROVE  /\ Listed \in Seq(Articles)
         /\ Len(Listed) \in Nat /\ Len(Listed) <= Cardinality(Articles)
         /\ \A a \in shown : Cardinality(Ahead(a)) \in 1..Len(Listed) /\ Listed[Cardinality(Ahead(a))] = a
<1> DEFINE kept == Kept(order, shown)
           f == [i \in kept |-> order[i]]
<1>1. /\ order \in Seq(Articles) /\ DOMAIN order = 1..Len(order)
      /\ \A j, k \in DOMAIN order : order[j] = order[k] => j = k
      /\ shown \subseteq ToSet(order)
  BY OrderTyped DEF OrderInv
<1>2. Listed \in Seq(Articles) /\ Len(Listed) = Cardinality(kept) /\ \A i \in kept : Listed[Rank(order, shown, i)] = order[i]
  BY <1>1, FilteredIsList DEF Listed
<1>3. Cardinality(kept) <= Cardinality(Articles)
  <2>1. f \in [kept -> Articles] /\ \A i, j \in kept : f[i] = f[j] => i = j
    BY <1>1 DEF Kept
  <2> HIDE DEF kept, f
  <2>2. f \in Injection(kept, Articles)
    BY <2>1, Fun_IsInj
  <2>3. QED
    BY <2>2, ArticlesAssumption, FS_Injection
<1>4. ASSUME NEW a \in shown
      PROVE  Cardinality(Ahead(a)) \in 1..Len(Listed) /\ Listed[Cardinality(Ahead(a))] = a
  <2>1. PICK i \in kept : order[i] = a
    BY <1>1 DEF ToSet, Kept
  <2>2. Rank(order, shown, i) = Cardinality(Ahead(a))
    BY <2>1, AheadIsRank
  <2>3. Rank(order, shown, i) \in 1..Cardinality(kept)
    BY <1>1, RankRises
  <2>4. QED
    BY <1>2, <2>1, <2>2, <2>3
<1>5. QED
  BY <1>2, <1>3, <1>4

(* A step that keeps the shown articles in order and withdraws none leaves *)
(* no fewer of them up to one.                                             *)
ShownKeepOrder == \A i, j \in DOMAIN order : i <= j /\ order[i] \in shown /\ order[j] \in shown =>
           \E k, l \in DOMAIN order' : k <= l /\ order'[k] = order[i] /\ order'[l] = order[j]

NoFewerAhead == \A a \in shown : Cardinality(Ahead(a)') \in Nat /\ Cardinality(Ahead(a)) <= Cardinality(Ahead(a)')

LEMMA AheadGrows ==
  ASSUME OrderInv, OrderInv', shown \subseteq shown', ShownKeepOrder
  PROVE  NoFewerAhead
<1> SUFFICES ASSUME NEW a \in shown
             PROVE  Cardinality(Ahead(a)') \in Nat /\ Cardinality(Ahead(a)) <= Cardinality(Ahead(a)')
  BY DEF NoFewerAhead
<1> DEFINE more == Ahead(a)'
<1>1. Ahead(a) \in SUBSET more
  BY DEF Ahead, ShownKeepOrder
<1>2. IsFiniteSet(more)
  <2>1. IsFiniteSet(shown')
    <3>1. shown' \in SUBSET Articles
      BY DEF OrderInv, ToSet
    <3>2. QED
      BY <3>1, ArticlesAssumption, FS_Subset
  <2>2. more \in SUBSET shown'
    BY DEF Ahead
  <2>3. QED
    BY <2>1, <2>2, FS_Subset
<1> HIDE DEF more
<1>3. Cardinality(more) \in Nat /\ Cardinality(Ahead(a)) <= Cardinality(more)
  BY <1>1, <1>2, FS_Subset, FS_CardinalityType
<1>4. QED
  BY <1>3 DEF more

(* The map keeps the order of what it holds when it puts in one more.      *)
LEMMA InsertKeepsOrder ==
  ASSUME OrderInv, NEW a \in Articles, NEW p \in 1..(Len(order) + 1), order' = InsertAt(order, p, a)
  PROVE  ShownKeepOrder
<1> DEFINE new(i) == IF i < p THEN i ELSE i + 1
<1>1. order \in Seq(Articles) /\ Len(order) \in Nat /\ DOMAIN order = 1..Len(order)
  BY OrderTyped DEF OrderInv
<1>2. /\ order' \in Seq(Articles) /\ Len(order') = Len(order) + 1
      /\ \A i \in 1..Len(order) : order'[new(i)] = order[i]
  BY <1>1, Inserted
<1>3. DOMAIN order' = 1..(Len(order) + 1)
  BY <1>1, <1>2
<1> SUFFICES ASSUME NEW i \in DOMAIN order, NEW j \in DOMAIN order, i <= j
             PROVE  \E k, l \in DOMAIN order' : k <= l /\ order'[k] = order[i] /\ order'[l] = order[j]
  BY DEF ShownKeepOrder
<1>6. new(i) \in DOMAIN order' /\ new(j) \in DOMAIN order' /\ new(i) <= new(j)
  BY <1>1, <1>3
<1>7. order'[new(i)] = order[i] /\ order'[new(j)] = order[j]
  BY <1>1, <1>2
<1> HIDE DEF new
<1>8. QED
  BY <1>6, <1>7

(* It keeps them when it drops one that is not shown.                      *)
LEMMA RemoveKeepsOrder ==
  ASSUME OrderInv, NEW p \in DOMAIN order, order[p] \notin shown, order' = RemoveAt(order, p)
  PROVE  ShownKeepOrder
<1> DEFINE new(i) == IF i < p THEN i ELSE i - 1
           old(k) == IF k < p THEN k ELSE k + 1
<1>1. order \in Seq(Articles) /\ Len(order) \in Nat /\ DOMAIN order = 1..Len(order) /\ p \in 1..Len(order)
  BY OrderTyped DEF OrderInv
<1>2. /\ order' \in Seq(Articles) /\ Len(order') = Len(order) - 1
      /\ \A k \in 1..(Len(order) - 1) : order'[k] = order[old(k)]
  BY <1>1, Removed
<1>3. DOMAIN order' = 1..(Len(order) - 1)
  BY <1>1, <1>2
<1> SUFFICES ASSUME NEW i \in DOMAIN order, NEW j \in DOMAIN order, i <= j, order[i] \in shown, order[j] \in shown
             PROVE  \E k, l \in DOMAIN order' : k <= l /\ order'[k] = order[i] /\ order'[l] = order[j]
  BY DEF ShownKeepOrder
<1>4. i # p /\ j # p
  OBVIOUS
<1>5. /\ new(i) \in DOMAIN order' /\ new(j) \in DOMAIN order' /\ new(i) <= new(j)
      /\ old(new(i)) = i /\ old(new(j)) = j
  BY <1>1, <1>3, <1>4
<1>6. order'[new(i)] = order[old(new(i))] /\ order'[new(j)] = order[old(new(j))]
  BY <1>2, <1>3, <1>5
<1> HIDE DEF new, old
<1>7. order'[new(i)] = order[i] /\ order'[new(j)] = order[j]
  BY <1>5, <1>6
<1>8. QED
  BY <1>5, <1>7

(* Behind what one has seen is no less than behind the pages read.         *)
LEMMA WalkKept ==
  ASSUME OrderInv, WalkInv, walk' = walk, shown \subseteq shown', NoFewerAhead
  PROVE  WalkInv'
<1>1. walk'.steady \subseteq shown'
  BY DEF WalkInv
<1>2. ASSUME ~walk.withdrawn, ~walk.reordered, NEW a \in walk.steady \ walk.seen
      PROVE  ~walk.done /\ walk.page * walk.size < Cardinality(Ahead(a)')
  <2> DEFINE read == walk.page * walk.size
             old == Cardinality(Ahead(a))
             new == Cardinality(Ahead(a)')
  <2>1. ~walk.done /\ read < old /\ a \in shown
    BY <1>2 DEF WalkInv
  <2>2. read \in Int
    BY DEF WalkInv, ArticleWalks
  <2>3. new \in Int /\ old <= new
    BY <2>1 DEF NoFewerAhead
  <2>4. old \in Int
    BY AheadTyped
  <2> HIDE DEF read, old, new
  <2>5. read < new
    BY <2>1, <2>2, <2>3, <2>4
  <2>6. QED
    BY <2>1, <2>5 DEF read, new
<1>3. QED
  BY <1>1, <1>2 DEF WalkInv

(* What the walk remembers of a change is enough.                          *)
LEMMA NotedHolds ==
  ASSUME OrderInv, WalkInv, NEW reordered \in BOOLEAN, Noted(reordered),
         reordered \/ ~(shown \subseteq shown') \/ NoFewerAhead
  PROVE  WalkInv'
<1> DEFINE steady == walk.steady \cap shown'
           withdrawn == walk.withdrawn \/ ~(shown \subseteq shown')
           again == walk.reordered \/ reordered
<1>1. walk' = [walk EXCEPT !.steady = steady, !.withdrawn = withdrawn, !.reordered = again]
  BY DEF Noted
<1>2. walk \in ArticleWalks /\ walk.steady \subseteq shown
  BY DEF WalkInv
<1>3. steady \in SUBSET Articles /\ withdrawn \in BOOLEAN /\ again \in BOOLEAN
  BY <1>2 DEF ArticleWalks
<1>4. CASE ~reordered /\ shown \subseteq shown'
  <2>1. steady = walk.steady /\ withdrawn = walk.withdrawn /\ again = walk.reordered
    BY <1>2, <1>4 DEF ArticleWalks
  <2>2. walk' = walk
    <3> HIDE DEF steady, withdrawn, again
    <3>1. QED
      BY <1>1, <1>2, <2>1 DEF ArticleWalks
  <2>3. QED
    BY <1>4, <2>2, WalkKept
<1>5. CASE reordered \/ ~(shown \subseteq shown')
  <2>1. (withdrawn \/ again) /\ steady \subseteq shown'
    BY <1>5
  <2> HIDE DEF steady, withdrawn, again
  <2>2. /\ walk' \in ArticleWalks /\ walk'.steady = steady /\ walk'.withdrawn = withdrawn
        /\ walk'.reordered = again /\ walk'.done = walk.done /\ walk'.page = walk.page /\ walk'.size = walk.size
    BY <1>1, <1>2, <1>3 DEF ArticleWalks
  <2>3. QED
    BY <2>1, <2>2 DEF WalkInv
<1>6. QED
  BY <1>4, <1>5

LEMMA NewWalkHolds ==
  ASSUME OrderInv, NEW size \in 1..MaxPage, walk = NewWalk(size)
  PROVE  WalkInv
<1>1. /\ walk.size = size /\ walk.page = 0 /\ walk.seen = {} /\ walk.steady = shown
      /\ ~walk.withdrawn /\ ~walk.reordered /\ ~walk.done
  BY DEF NewWalk
<1>2. walk \in ArticleWalks
  BY OrderTyped DEF NewWalk, ArticleWalks
<1>3. ASSUME NEW a \in shown PROVE 0 < Cardinality(Ahead(a))
  <2>1. PICK i \in DOMAIN order : order[i] = a
    BY DEF OrderInv, ToSet
  <2>2. i <= i
    BY OrderTyped
  <2>3. a \in Ahead(a)
    BY <2>1, <2>2 DEF Ahead
  <2> DEFINE ahead == Ahead(a)
  <2>4. IsFiniteSet(ahead) /\ Cardinality(ahead) \in Nat /\ ahead # {}
    BY <2>3, AheadTyped
  <2> HIDE DEF ahead
  <2>5. Cardinality(ahead) # 0
    BY <2>4, FS_EmptySet
  <2>6. QED
    BY <2>4, <2>5 DEF ahead
<1>4. 0 * size = 0
  BY SizesAssumption
<1>5. QED
  BY <1>1, <1>2, <1>3, <1>4 DEF WalkInv

(* A page beyond the last holds nothing, one before it leaves something.   *)
LEMMA LastPage ==
  ASSUME NEW S, NEW list \in Seq(S), NEW page \in Nat, NEW size \in Nat \ {0}
  PROVE  IF page >= TotalPages(list, size) THEN Len(list) <= page * size ELSE page * size < Len(list)
<1> DEFINE n == Len(list)
           pages == (n + size - 1) \div size
<1>1. n \in Nat /\ n + size - 1 \in Int
  OBVIOUS
<1>2. pages \in Int /\ size * pages <= n + size - 1 /\ n + size - 1 < size * pages + size
  BY <1>1, Divided
<1>3. TotalPages(list, size) = pages
  BY DEF TotalPages
<1> HIDE DEF n, pages
<1>4. CASE page >= pages
  <2>1. size * pages <= size * page
    BY <1>2, <1>4
  <2>2. size * page = page * size /\ size * page \in Nat /\ size * pages \in Int
    BY <1>2
  <2>3. n <= page * size
    BY <1>1, <1>2, <2>1, <2>2
  <2>4. QED
    BY <1>3, <1>4, <2>3 DEF n
<1>5. CASE ~(page >= pages)
  <2>1. size * (page + 1) <= size * pages
    BY <1>2, <1>5
  <2>2. size * (page + 1) = size * page + size /\ size * page = page * size /\ size * page \in Nat /\ size * pages \in Int
    BY <1>2
  <2>3. page * size < n
    BY <1>1, <1>2, <2>1, <2>2
  <2>4. QED
    BY <1>3, <1>5, <2>3 DEF n
<1>6. QED
  BY <1>4, <1>5

LEMMA ReadPageHolds ==
  ASSUME OrderInv, WalkInv, ReadPage
  PROVE  WalkInv'
<1> DEFINE page == walk.page
           size == walk.size
           start == page * size
           part == ToSet(Page(Listed, page, size))
           end == page + 1 >= TotalPages(Listed, size)
<1>1. page \in Nat /\ size \in Nat \ {0} /\ size <= MaxPage /\ start \in Nat /\ ~walk.done
  BY SizesAssumption DEF WalkInv, ArticleWalks, ReadPage
<1>2. /\ walk' = [walk EXCEPT !.page = page + 1, !.seen = walk.seen \cup part, !.done = end]
      /\ order' = order /\ shown' = shown
  BY DEF ReadPage
<1>3. Listed \in Seq(Articles) /\ Len(Listed) \in Nat /\ Len(Listed) <= Cardinality(Articles)
  BY ListedFacts
<1>4. Cardinality(Articles) \in Nat /\ Cardinality(Articles) < IntHalf /\ IntHalf \in Nat \ {0}
  BY ArticlesAssumption, ArticlesFit, SizesAssumption, FS_CardinalityType
<1>5. start < IntHalf
  <2>1. page = 0 \/ start < Cardinality(Articles)
    BY <1>1 DEF WalkInv
  <2>2. CASE page = 0
    <3>1. start = 0
      BY <1>1, <2>2
    <3>2. QED
      BY <1>4, <3>1
  <2>3. CASE start < Cardinality(Articles)
    BY <1>1, <1>4, <2>3
  <2>4. QED
    BY <2>1, <2>2, <2>3
<1>6. part \subseteq Articles /\ \A k \in DOMAIN Listed : start < k /\ k <= start + size => Listed[k] \in part
  BY <1>1, <1>3, <1>5, PageShows
<1>7. (page + 1) * size = start + size
  BY <1>1
<1>8. IF end THEN Len(Listed) <= start + size ELSE start + size < Len(Listed)
  BY <1>1, <1>3, <1>7, LastPage
<1>9. end \in BOOLEAN
  OBVIOUS
<1> HIDE DEF part, end
<1>10. /\ walk'.size = size /\ walk'.page = page + 1 /\ walk'.seen = walk.seen \cup part /\ walk'.steady = walk.steady
       /\ walk'.withdrawn = walk.withdrawn /\ walk'.reordered = walk.reordered /\ walk'.done = end
  BY <1>2 DEF WalkInv, ArticleWalks
<1>11. walk' \in ArticleWalks
  <2>1. ASSUME NEW w \in ArticleWalks, NEW n \in Nat, NEW s \in SUBSET Articles, NEW d \in BOOLEAN
        PROVE  [w EXCEPT !.page = n, !.seen = s, !.done = d] \in ArticleWalks
    BY DEF ArticleWalks
  <2>2. walk \in ArticleWalks /\ walk.seen \in SUBSET Articles
    BY DEF WalkInv, ArticleWalks
  <2>3. walk.seen \cup part \in SUBSET Articles /\ page + 1 \in Nat
    BY <1>1, <1>6, <2>2
  <2> HIDE DEF page
  <2>4. QED
    BY <1>2, <1>9, <2>1, <2>2, <2>3
<1>12. walk'.steady \subseteq shown'
  BY <1>2, <1>10 DEF WalkInv
<1> HIDE DEF start
<1>13. ~end => start + size < Cardinality(Articles)
  BY <1>1, <1>3, <1>4, <1>8
<1>14. walk'.page * walk'.size = start + size
  BY <1>7, <1>10
<1>15. \A a : Ahead(a)' = Ahead(a)
  BY <1>2 DEF Ahead
<1>16. ASSUME ~walk.withdrawn, ~walk.reordered, NEW a \in walk.steady \ (walk.seen \cup part)
       PROVE  ~end /\ start + size < Cardinality(Ahead(a))
  <2> DEFINE k == Cardinality(Ahead(a))
  <2>1. start < k /\ a \in shown
    BY <1>16 DEF WalkInv, start
  <2>2. k \in 1..Len(Listed) /\ Listed[k] = a
    BY <2>1, ListedFacts
  <2> HIDE DEF k
  <2>3. ~(k <= start + size)
    BY <1>3, <1>6, <1>16, <2>1, <2>2
  <2>4. start + size < k
    BY <1>1, <1>3, <2>2, <2>3
  <2>5. ~end
    BY <1>1, <1>3, <1>8, <2>2, <2>4
  <2>6. QED
    BY <2>4, <2>5 DEF k
<1>17. QED
  BY <1>10, <1>11, <1>12, <1>13, <1>14, <1>15, <1>16 DEF WalkInv

LEMMA PutHolds ==
  ASSUME OrderInv, WalkInv, NEW a \in Articles, NEW show \in BOOLEAN, Put(a, show)
  PROVE  WalkInv'
<1>1. OrderInv'
  BY PutKeepsOrder
<1>2. CASE order' = order /\ Noted(FALSE)
  <2>1. ShownKeepOrder
    BY <1>2 DEF ShownKeepOrder
  <2>2. shown \subseteq shown' => NoFewerAhead
    BY <1>1, <2>1, AheadGrows
  <2>3. QED
    BY <1>2, <2>2, NotedHolds
<1>3. ASSUME NEW p \in 1..(Len(order) + 1), order' = InsertAt(order, p, a), Noted(FALSE)
      PROVE  WalkInv'
  <2>1. ShownKeepOrder
    BY <1>3, InsertKeepsOrder
  <2>2. shown \subseteq shown' => NoFewerAhead
    BY <1>1, <2>1, AheadGrows
  <2>3. QED
    BY <1>3, <2>2, NotedHolds
<1>4. CASE Noted(TRUE)
  BY <1>4, NotedHolds
<1>5. QED
  BY <1>2, <1>3, <1>4, PutOrders

LEMMA DeleteHolds ==
  ASSUME OrderInv, WalkInv, NEW a \in Articles, Delete(a)
  PROVE  WalkInv'
<1>1. OrderInv'
  BY DeleteKeepsOrder
<1>2. /\ shown' = shown \ {a} /\ Noted(FALSE)
      /\ \/ order' = order
         \/ \E p \in DOMAIN order : order[p] = a /\ order' = RemoveAt(order, p)
  BY DEF Delete
<1>3. CASE a \notin shown
  <2>1. ShownKeepOrder
    <3>1. CASE order' = order
      BY <3>1 DEF ShownKeepOrder
    <3>2. ASSUME NEW p \in DOMAIN order, order[p] = a, order' = RemoveAt(order, p) PROVE ShownKeepOrder
      BY <1>3, <3>2, RemoveKeepsOrder
    <3>3. QED
      BY <1>2, <3>1, <3>2
  <2>2. NoFewerAhead
    BY <1>1, <1>2, <1>3, <2>1, AheadGrows
  <2>3. QED
    BY <1>2, <2>2, NotedHolds
<1>4. CASE a \in shown
  <2>1. ~(shown \subseteq shown')
    BY <1>2, <1>4
  <2>2. QED
    BY <1>2, <2>1, NotedHolds
<1>5. QED
  BY <1>3, <1>4

(* A map that starts empty shows nothing of what was there. *)
LEMMA EmptyHolds ==
  ASSUME OrderInv, WalkInv, NEW reordered \in BOOLEAN, Noted(reordered), shown' = {}
  PROVE  WalkInv'
<1>1. CASE shown = {}
  <2>1. NoFewerAhead
    BY <1>1 DEF NoFewerAhead
  <2>2. QED
    BY <2>1, NotedHolds
<1>2. CASE shown # {}
  <2>1. ~(shown \subseteq shown')
    BY <1>2
  <2>2. QED
    BY <2>1, NotedHolds
<1>3. QED
  BY <1>1, <1>2

(* WalkIsComplete: whoever reads the articles page by page to the end has  *)
(* seen every one that was there all along, for every number of articles,  *)
(* of bins and of readers' steps and every size of a page.                 *)
THEOREM ReadersMissNothing == Spec => []WalkIsComplete
<1> DEFINE New == \E size \in 1..MaxPage : walk = NewWalk(size)
<1>1. OrderInv /\ New => WalkInv
  BY NewWalkHolds
<1>2. OrderInv' /\ New' => WalkInv'
  BY <1>1, PTL
<1>3. Init /\ OrderInv => WalkInv
  BY <1>1 DEF Init
<1>4. OrderInv /\ OrderInv' /\ WalkInv /\ [Next]_vars => WalkInv'
  <2> SUFFICES ASSUME OrderInv, OrderInv', WalkInv, [Next]_vars PROVE WalkInv'
    OBVIOUS
  <2>1. CASE UNCHANGED <<order, shown, walk>>
    BY <2>1 DEF WalkInv, Ahead
  <2>2. CASE OpenList
    <3>1. PICK size \in 1..MaxPage : walk' = NewWalk(size)
      BY <2>2 DEF OpenList
    <3>2. order' = order /\ shown' = shown
      BY <2>2 DEF OpenList
    <3>3. New'
      BY <3>1, <3>2 DEF NewWalk
    <3>4. QED
      BY <1>2, <3>3
  <2>3. ASSUME NEW a \in Articles, NEW show \in BOOLEAN, Put(a, show) PROVE WalkInv'
    BY <2>3, PutHolds
  <2>4. ASSUME NEW a \in Articles, Load(a) PROVE WalkInv'
    <3>1. Put(a, a \in loading.shown) /\ (a \in loading.shown) \in BOOLEAN
      BY <2>4 DEF Load
    <3>2. QED
      BY <2>3, <3>1
  <2>5. ASSUME NEW a \in Articles, Create(a) \/ Update(a) PROVE WalkInv'
    <3>1. \E show \in BOOLEAN : Put(a, show)
      BY <2>5 DEF Create, Update
    <3>2. QED
      BY <2>3, <3>1
  <2>6. CASE Restart \/ Preload
    <3>1. shown' = {} /\ \E reordered \in BOOLEAN : Noted(reordered)
      BY <2>6 DEF Restart, Preload
    <3>2. QED
      BY <3>1, EmptyHolds
  <2>7. CASE PopularNext
    BY <2>1, <2>7 DEF PopularNext, pageVars, ReadRows, ReadBuffer, AnswerTop, Watch, StartFlush, Drain, CommitFlush,
       FailFlush, SaveForm
  <2>8. CASE PagesNext
    BY <2>2, <2>4, <2>5, <2>6, <2>8, ReadPageHolds, DeleteHolds DEF PagesNext
  <2>9. QED
    BY <2>1, <2>7, <2>8 DEF Next, vars, pageVars
<1>5. OrderInv /\ WalkInv => WalkIsComplete
  BY DEF WalkInv, WalkIsComplete
<1>6. QED
  BY <1>3, <1>4, <1>5, OrderInvariant, PTL DEF Spec

(* PagesAreSlices: a page of the articles is the part of the list its      *)
(* number says, and both kinds of table in the CMS cut the same part, for  *)
(* every number of articles and every size of a page.                      *)
THEOREM PagesAreParts == Spec => []PagesAreSlices
<1>1. ASSUME OrderInv PROVE PagesAreSlices
  <2>1. Listed \in Seq(Articles) /\ order \in Seq(Articles) /\ Len(order) \in Nat
    BY <1>1, ListedFacts, OrderTyped DEF OrderInv
  <2>2. Cardinality(Articles) \in Nat /\ MaxPage \in Nat
    BY ArticlesAssumption, SizesAssumption, FS_CardinalityType
  <2>3. ASSUME NEW page \in 0..(Cardinality(Articles) + 1), NEW size \in 1..MaxPage, page * size < IntHalf
        PROVE  IsPageOf(Page(Listed, page, size), Listed, page, size)
    <3>1. page \in Nat /\ size \in Nat \ {0}
      BY <2>2
    <3>2. QED
      BY <2>1, <2>3, <3>1, PagesCutLists
  <2>4. ASSUME NEW size \in 1..MaxPage, NEW k \in 0..Len(order)
        PROVE  /\ IsPageOf(RepoList(order, k * size, (k + 1) * size), order, k, size)
               /\ RepoList(order, k * size, (k + 1) * size) = CachedList(order, k * size, (k + 1) * size)
    <3>1. k \in Nat /\ size \in Nat \ {0}
      BY <2>1, <2>2
    <3>2. QED
      BY <2>1, <3>1, RepoPage, TablesAgree
  <2>5. QED
    BY <2>3, <2>4 DEF PagesAreSlices
<1>2. QED
  BY <1>1, OrderInvariant, PTL

-----------------------------------------------------------------------------
(***************************************************************************)
(* The performance gate                                                    *)
(***************************************************************************)

(* A rounded number is within half a unit, and rounding keeps the order. *)
LEMMA RoundedNear ==
  ASSUME NEW n \in Int, NEW d \in {1, 2}
  PROVE  /\ Rounded(n, d, Hundredth) \in Int
         /\ 2 * d * Rounded(n, d, Hundredth) <= 2 * n + d * Hundredth
         /\ 2 * n < 2 * d * Rounded(n, d, Hundredth) + d * Hundredth
<1>1. Hundredth \in Nat \ {0}
  BY NumbersAssumption
<1> DEFINE a == 2 * n + d * Hundredth
           b == 2 * d * Hundredth
           q == a \div b
<1>2. a \in Int /\ b \in Nat \ {0}
  BY <1>1
<1> HIDE DEF a, b
<1>3. q \in Int /\ b * q <= a /\ a < b * q + b
  BY <1>2, Divided
<1> HIDE DEF q
<1>4. b * q = 2 * d * (Hundredth * q) /\ Hundredth * q \in Int
  BY <1>1, <1>3 DEF b
<1>5. Rounded(n, d, Hundredth) = Hundredth * q
  BY DEF Rounded, a, b, q
<1>6. 2 * d * (Hundredth * q) <= a /\ a < 2 * d * (Hundredth * q) + b
  BY <1>3, <1>4
<1>7. QED
  BY <1>1, <1>4, <1>5, <1>6 DEF a, b

LEMMA RoundedRises ==
  ASSUME NEW n \in Int, NEW k \in Int, NEW d \in {1, 2}, n <= k
  PROVE  Rounded(n, d, Hundredth) <= Rounded(k, d, Hundredth)
<1>1. Hundredth \in Nat \ {0}
  BY NumbersAssumption
<1> DEFINE b == 2 * d * Hundredth
           p == (2 * n + d * Hundredth) \div b
           q == (2 * k + d * Hundredth) \div b
<1>2. b \in Nat \ {0} /\ 2 * n + d * Hundredth \in Int /\ 2 * k + d * Hundredth \in Int
  BY <1>1
<1>3. Rounded(n, d, Hundredth) = Hundredth * p /\ Rounded(k, d, Hundredth) = Hundredth * q
  BY DEF Rounded
<1> HIDE DEF b
<1>4. /\ p \in Int /\ b * p <= 2 * n + d * Hundredth
      /\ q \in Int /\ 2 * k + d * Hundredth < b * q + b
  BY <1>2, Divided
<1>5. 2 * n + d * Hundredth <= 2 * k + d * Hundredth
  BY <1>1
<1> HIDE DEF p, q
<1>6. p <= q
  <2>1. b * p < b * q + b
    BY <1>2, <1>4, <1>5
  <2>2. ASSUME q + 1 <= p PROVE b * (q + 1) <= b * p
    BY <1>2, <1>4, <2>2
  <2>3. b * (q + 1) = b * q + b
    BY <1>2, <1>4
  <2>4. QED
    BY <1>2, <1>4, <2>1, <2>2, <2>3
<1>7. QED
  BY <1>1, <1>3, <1>4, <1>6

(* The median of two. *)
LEMMA OfTwo ==
  /\ Cardinality({}) = 0
  /\ Cardinality({1}) = 1
  /\ Cardinality({2}) = 1
  /\ Cardinality({1, 2}) = 2
  /\ \A S \in SUBSET {1, 2} : S \in {{}, {1}, {2}, {1, 2}}
<1>1. Cardinality({}) = 0 /\ Cardinality({1}) = 1 /\ Cardinality({2}) = 1
  BY FS_EmptySet, FS_Singleton
<1>2. IsFiniteSet({1}) /\ 2 \notin {1} /\ {1, 2} = {1} \cup {2}
  <2>1. IsFiniteSet({1})
    BY FS_Singleton, Zenon
  <2>2. QED
    BY <2>1
<1>3. Cardinality({1, 2}) = 2
  <2> DEFINE n == Cardinality({1})
  <2>1. Cardinality({1} \cup {2}) = n + 1
    BY <1>2, FS_AddElement, Zenon
  <2>2. n = 1
    BY <1>1
  <2> HIDE DEF n
  <2>3. QED
    BY <1>2, <2>1, <2>2
<1>4. ASSUME NEW S \in SUBSET {1, 2} PROVE S \in {{}, {1}, {2}, {1, 2}}
  <2>1. CASE 1 \in S /\ 2 \in S
    BY <2>1
  <2>2. CASE 1 \in S /\ 2 \notin S
    BY <2>2
  <2>3. CASE 1 \notin S /\ 2 \in S
    BY <2>3
  <2>4. CASE 1 \notin S /\ 2 \notin S
    BY <2>4
  <2>5. QED
    BY <2>1, <2>2, <2>3, <2>4
<1>5. QED
  BY <1>1, <1>2, <1>3, <1>4

LEMMA MedianOfTwo ==
  ASSUME NEW nums, DOMAIN nums = {1, 2}, nums[1] \in Int, nums[2] \in Int
  PROVE  median(nums) = Rounded(nums[1] + nums[2], 2, Hundredth)
<1>1. Numbers(nums) = {1, 2}
  BY CostsAssumption DEF Numbers
<1> DEFINE lo == IF nums[1] <= nums[2] THEN nums[1] ELSE nums[2]
           hi == IF nums[1] <= nums[2] THEN nums[2] ELSE nums[1]
           Below(x) == {i \in {1, 2} : nums[i] < x}
           UpTo(x) == {i \in {1, 2} : nums[i] <= x}
           Has(x, k) == Cardinality(Below(x)) < k /\ k <= Cardinality(UpTo(x))
<1>2. lo \in Int /\ hi \in Int /\ lo <= hi /\ lo + hi = nums[1] + nums[2] /\ {lo, hi} = {nums[1], nums[2]}
  OBVIOUS
<1>3. {nums[i] : i \in {1, 2}} = {lo, hi}
  OBVIOUS
<1>4. Below(lo) = {} /\ UpTo(hi) = {1, 2} /\ UpTo(lo) # {} /\ Below(hi) # {1, 2}
  OBVIOUS
<1>5. lo # hi => Below(hi) # {} /\ UpTo(lo) # {1, 2}
  OBVIOUS
<1>6. \A x : Below(x) \in SUBSET {1, 2} /\ UpTo(x) \in SUBSET {1, 2}
  OBVIOUS
<1>7. \A k : Nth(nums, k) = CHOOSE x \in {lo, hi} : Has(x, k)
  BY <1>1, <1>3 DEF Nth
<1> HIDE DEF lo, hi, Below, UpTo
<1>8. Has(lo, 1) /\ (lo # hi => ~Has(hi, 1))
  BY <1>4, <1>5, <1>6, OfTwo
<1>9. Has(hi, 2) /\ (lo # hi => ~Has(lo, 2))
  BY <1>4, <1>5, <1>6, OfTwo
<1> HIDE DEF Has
<1>10. Nth(nums, 1) = lo
  BY <1>7, <1>8
<1>11. Nth(nums, 2) = hi
  BY <1>7, <1>9
<1>12. median(nums) = Rounded(Nth(nums, (2 + 1) \div 2) + Nth(nums, 2 \div 2 + 1), 2, Hundredth)
  BY <1>1, OfTwo DEF median
<1>13. (2 + 1) \div 2 = 1 /\ 2 \div 2 + 1 = 2
  OBVIOUS
<1>14. QED
  BY <1>2, <1>10, <1>11, <1>12, <1>13

LEMMA MedianOfNone ==
  ASSUME NEW nums, \A i \in DOMAIN nums : nums[i] = None
  PROVE  median(nums) = None
  BY FS_EmptySet DEF median, Numbers

(* What the tests that were done so far have recorded. *)
Recorded(l, k) == metricsFromK6(Measured(l, k))

CostsTyped ==
  /\ drift \in Nat
  /\ \A l \in Legs, m \in Metrics : cost[l][m] = None \/ cost[l][m] \in Nat
  /\ \A l \in Legs, m \in Latencies : cost[l][m] # None => cost[l][m] > 3 * drift

RecordsInv ==
  /\ round \in 0..4
  /\ DOMAIN records = Legs
  /\ records["base"] = IF round = 0 THEN <<>>
                       ELSE IF round < 4 THEN <<Recorded("base", 1)>>
                       ELSE <<Recorded("base", 1), Recorded("base", 4)>>
  /\ records["head"] = IF round < 2 THEN <<>>
                       ELSE IF round = 2 THEN <<Recorded("head", 2)>>
                       ELSE <<Recorded("head", 2), Recorded("head", 3)>>

BaseMedian == medianRecord(<<Recorded("base", 1), Recorded("base", 4)>>)
HeadMedian == medianRecord(<<Recorded("head", 2), Recorded("head", 3)>>)

VerdictInv ==
  /\ verdict = "green" => ~regressed(BaseMedian, HeadMedian)
  /\ verdict = "red" => regressed(BaseMedian, HeadMedian)

GateInv == CostsTyped /\ RecordsInv /\ VerdictInv

LEMMA GateStarts == GateInit => GateInv
<1> SUFFICES ASSUME GateInit PROVE GateInv
  OBVIOUS
<1>1. CostsTyped
  <2>1. drift \in Nat
    BY NumbersAssumption DEF GateInit
  <2>2. ASSUME NEW l \in Legs, NEW m \in Metrics PROVE cost[l][m] = None \/ cost[l][m] \in Nat
    <3>1. cost[l][m] \in Costs[m] /\ Costs[m] \in SUBSET (Nat \cup {None})
      BY CostsAssumption DEF GateInit
    <3>2. QED
      BY <3>1
  <2>3. QED
    BY <2>1, <2>2 DEF CostsTyped, GateInit, Tests
<1>2. RecordsInv
  BY DEF GateInit, RecordsInv, Legs
<1>3. QED
  BY <1>1, <1>2 DEF GateInv, VerdictInv, GateInit

LEMMA AppendTwo ==
  ASSUME NEW a, NEW b
  PROVE  Append(<<a>>, b) = <<a, b>>
<1> DEFINE t == Append(<<a>>, b)
           u == <<a, b>>
<1>1. <<a>> \in Seq({a, b}) /\ b \in {a, b} /\ Len(<<a>>) = 1 /\ <<a>>[1] = a
  OBVIOUS
<1>2. t \in Seq({a, b}) /\ Len(t) = 2 /\ t[1] = a /\ t[2] = b
  BY <1>1
<1>3. u \in Seq({a, b}) /\ Len(u) = 2 /\ u[1] = a /\ u[2] = b
  OBVIOUS
<1> HIDE DEF t, u
<1>4. t = [i \in 1..2 |-> t[i]] /\ u = [i \in 1..2 |-> u[i]]
  BY <1>2, <1>3
<1>5. \A i \in 1..2 : t[i] = u[i]
  BY <1>2, <1>3
<1>6. t = u
  BY <1>4, <1>5
<1>7. QED
  BY <1>6 DEF t, u

LEMMA GateSteps == GateInv /\ [GateNext]_gateVars => GateInv'
<1> SUFFICES ASSUME GateInv, [GateNext]_gateVars PROVE GateInv'
  OBVIOUS
<1>1. cost' = cost /\ drift' = drift
  BY DEF GateNext, gateVars, RunLeg, LegFails, Compare, NextRequest
<1>2. CostsTyped'
  BY <1>1 DEF GateInv, CostsTyped
<1>3. \A l, k : Recorded(l, k)' = Recorded(l, k)
  BY <1>1 DEF Recorded, Measured
<1>4. BaseMedian' = BaseMedian /\ HeadMedian' = HeadMedian
  BY <1>3 DEF BaseMedian, HeadMedian
<1>5. CASE RunLeg
  <2>1. RecordsInv'
    <3>1. round' = round + 1 /\ round \in 0..3
      BY <1>5 DEF RunLeg, GateInv, RecordsInv, Tests
    <3> DEFINE l == LegOf(round + 1)
    <3>2. l \in Legs /\ l = IF round \in {0, 3} THEN "base" ELSE "head"
      BY <3>1 DEF LegOf, Legs
    <3>3. records' = [records EXCEPT ![l] = Append(records[l], Recorded(l, round + 1))]
      BY <1>5 DEF RunLeg, Recorded
    <3> HIDE DEF l
    <3>4. /\ DOMAIN records' = Legs
          /\ records'["base"] = IF l = "base" THEN Append(records["base"], Recorded(l, round + 1)) ELSE records["base"]
          /\ records'["head"] = IF l = "head" THEN Append(records["head"], Recorded(l, round + 1)) ELSE records["head"]
      BY <3>2, <3>3 DEF GateInv, RecordsInv, Legs
    <3>5. CASE round = 0
      BY <1>3, <3>1, <3>2, <3>4, <3>5 DEF GateInv, RecordsInv
    <3>6. CASE round = 1
      BY <1>3, <3>1, <3>2, <3>4, <3>6 DEF GateInv, RecordsInv
    <3>7. CASE round = 2
      <4>1. records["head"] = <<Recorded("head", 2)>> /\ records["base"] = <<Recorded("base", 1)>>
        BY <3>7 DEF GateInv, RecordsInv
      <4>2. records'["head"] = <<Recorded("head", 2), Recorded("head", 3)>> /\ records'["base"] = records["base"]
        BY <3>2, <3>4, <3>7, <4>1, AppendTwo
      <4>3. QED
        BY <1>3, <3>1, <3>4, <3>7, <4>1, <4>2 DEF RecordsInv
    <3>8. CASE round = 3
      <4>1. records["head"] = <<Recorded("head", 2), Recorded("head", 3)>> /\ records["base"] = <<Recorded("base", 1)>>
        BY <3>8 DEF GateInv, RecordsInv
      <4>2. records'["base"] = <<Recorded("base", 1), Recorded("base", 4)>> /\ records'["head"] = records["head"]
        BY <3>2, <3>4, <3>8, <4>1, AppendTwo
      <4>3. QED
        BY <1>3, <3>1, <3>4, <3>8, <4>1, <4>2 DEF RecordsInv
    <3>9. QED
      BY <3>1, <3>5, <3>6, <3>7, <3>8
  <2>2. VerdictInv'
    BY <1>5 DEF RunLeg, VerdictInv
  <2>3. QED
    BY <1>2, <2>1, <2>2 DEF GateInv
<1>6. CASE Compare
  <2>1. records["base"] = <<Recorded("base", 1), Recorded("base", 4)>>
    BY <1>6 DEF Compare, Tests, GateInv, RecordsInv
  <2>2. records["head"] = <<Recorded("head", 2), Recorded("head", 3)>>
    BY <1>6 DEF Compare, Tests, GateInv, RecordsInv
  <2>3. verdict' = IF regressed(BaseMedian, HeadMedian) THEN "red" ELSE "green"
    BY <1>6, <2>1, <2>2 DEF Compare, BaseMedian, HeadMedian
  <2>4. VerdictInv'
    BY <1>4, <2>3 DEF VerdictInv, regressed
  <2>5. RecordsInv'
    BY <1>3, <1>6 DEF Compare, GateInv, RecordsInv
  <2>6. QED
    BY <1>2, <2>4, <2>5 DEF GateInv
<1>7. CASE LegFails \/ NextRequest
  <2>1. RecordsInv'
    BY <1>3, <1>7 DEF LegFails, NextRequest, GateInv, RecordsInv, Legs
  <2>2. VerdictInv'
    BY <1>7 DEF LegFails, NextRequest, VerdictInv
  <2>3. QED
    BY <1>2, <2>1, <2>2 DEF GateInv
<1>8. CASE UNCHANGED gateVars
  <2>1. RecordsInv'
    BY <1>3, <1>8 DEF gateVars, GateInv, RecordsInv
  <2>2. VerdictInv'
    BY <1>4, <1>8 DEF gateVars, GateInv, VerdictInv, regressed
  <2>3. QED
    BY <1>2, <2>1, <2>2 DEF GateInv
<1>9. QED
  BY <1>5, <1>6, <1>7, <1>8 DEF GateNext


(* What a gated metric's median is. *)
LEMMA MedianRead ==
  ASSUME NEW r, NEW s, NEW m \in Metrics
  PROVE  /\ r[m] \in Int /\ s[m] \in Int => medianRecord(<<r, s>>)[m] = Rounded(r[m] + s[m], 2, Hundredth)
         /\ r[m] = None /\ s[m] = None => medianRecord(<<r, s>>)[m] = None
<1> DEFINE nums == [i \in {1, 2} |-> <<r, s>>[i][m]]
<1>1. DOMAIN <<r, s>> = {1, 2} /\ Len(<<r, s>>) = 2 /\ <<r, s>>[1] = r /\ <<r, s>>[2] = s
  OBVIOUS
<1>2. medianRecord(<<r, s>>)[m] = median(nums)
  BY <1>1 DEF medianRecord
<1>3. DOMAIN nums = {1, 2} /\ nums[1] = r[m] /\ nums[2] = s[m]
  BY <1>1
<1> HIDE DEF nums
<1>4. QED
  BY <1>2, <1>3, MedianOfTwo, MedianOfNone

(* The median of a latency lies within one unit of what the two tests      *)
(* cost, less the three halves of the drift that both legs gain.           *)
LEMMA LatencyMedian ==
  ASSUME GateInv, NEW l \in Legs, NEW m \in Latencies, NEW k \in 1..4,
         cost[l][m] # None
  PROVE  LET med == medianRecord(<<Recorded(l, k), Recorded(l, 5 - k)>>)[m] IN
         /\ med \in Int
         /\ 2 * med <= 2 * cost[l][m] - 3 * drift + 2 * Hundredth
         /\ 2 * cost[l][m] - 3 * drift - 2 * Hundredth < 2 * med
<1> DEFINE c == cost[l][m]
           x == Recorded(l, k)[m]
           y == Recorded(l, 5 - k)[m]
           r == Rounded(x + y, 2, Hundredth)
<1>1. c \in Nat /\ drift \in Nat /\ Hundredth \in Nat \ {0} /\ m \in Metrics /\ KindOf[m] = "latency"
  BY NumbersAssumption DEF GateInv, CostsTyped, Latencies
<1>2. \A j : Measured(l, j)[m] = c - drift * (j - 1)
  BY <1>1 DEF Measured
<1>3. \A j \in 1..4 : Recorded(l, j)[m] = Rounded(c - drift * (j - 1), 1, Hundredth)
  <2>1. TAKE j \in 1..4
  <2>2. c - drift * (j - 1) \in Int
    BY <1>1
  <2>3. Measured(l, j)[m] # None
    BY <1>2, <2>2, CostsAssumption
  <2>4. QED
    BY <1>1, <1>2, <2>3 DEF Recorded, metricsFromK6
<1> HIDE DEF c
<1>4. k \in 1..4 /\ 5 - k \in 1..4
  OBVIOUS
<1>5. /\ x \in Int
      /\ 2 * x <= 2 * (c - drift * (k - 1)) + Hundredth
      /\ 2 * (c - drift * (k - 1)) < 2 * x + Hundredth
  <2> DEFINE n == c - drift * (k - 1)
  <2>1. n \in Int /\ x = Rounded(n, 1, Hundredth)
    BY <1>1, <1>3, <1>4
  <2> HIDE DEF n
  <2>2. 2 * 1 * x <= 2 * n + 1 * Hundredth /\ 2 * n < 2 * 1 * x + 1 * Hundredth /\ x \in Int
    BY <2>1, RoundedNear
  <2>3. QED
    BY <1>1, <2>1, <2>2 DEF n
<1>6. /\ y \in Int
      /\ 2 * y <= 2 * (c - drift * (4 - k)) + Hundredth
      /\ 2 * (c - drift * (4 - k)) < 2 * y + Hundredth
  <2> DEFINE n == c - drift * (4 - k)
  <2>1. n \in Int /\ y = Rounded(n, 1, Hundredth)
    <3>1. (5 - k) - 1 = 4 - k
      OBVIOUS
    <3>2. QED
      BY <1>1, <1>3, <1>4, <3>1
  <2> HIDE DEF n
  <2>2. 2 * 1 * y <= 2 * n + 1 * Hundredth /\ 2 * n < 2 * 1 * y + 1 * Hundredth /\ y \in Int
    BY <2>1, RoundedNear
  <2>3. QED
    BY <1>1, <2>1, <2>2 DEF n
<1> HIDE DEF x, y
<1>7. /\ r \in Int
      /\ 4 * r <= 2 * (x + y) + 2 * Hundredth
      /\ 2 * (x + y) < 4 * r + 2 * Hundredth
  <2>1. x + y \in Int
    BY <1>5, <1>6
  <2>2. QED
    BY <2>1, RoundedNear
<1>8. medianRecord(<<Recorded(l, k), Recorded(l, 5 - k)>>)[m] = r
  BY <1>1, <1>5, <1>6, MedianRead DEF x, y
<1> HIDE DEF r
<1>9. drift * (k - 1) + drift * (4 - k) = 3 * drift
  BY <1>1
<1>10. /\ 2 * r <= 2 * c - 3 * drift + 2 * Hundredth
       /\ 2 * c - 3 * drift - 2 * Hundredth < 2 * r
  <2>1. drift * (k - 1) \in Int /\ drift * (4 - k) \in Int
    BY <1>1
  <2>2. QED
    BY <1>1, <1>5, <1>6, <1>7, <1>9, <2>1
<1>11. QED
  BY <1>7, <1>8, <1>10 DEF c


(* An error rate is what it is in both tests of a leg. *)
LEMMA ErrorsMedian ==
  ASSUME GateInv, NEW l \in Legs, NEW m \in Metrics, KindOf[m] = "errors",
         NEW k \in 1..4, NEW j \in 1..4, cost[l][m] # None
  PROVE  medianRecord(<<Recorded(l, k), Recorded(l, j)>>)[m] = Rounded(cost[l][m] + cost[l][m], 2, Hundredth)
<1>1. \A i : Recorded(l, i)[m] = cost[l][m]
  BY DEF Recorded, metricsFromK6, Measured
<1>2. cost[l][m] \in Int
  BY DEF GateInv, CostsTyped
<1>3. QED
  BY <1>1, <1>2, MedianRead

(* Nothing comes of what was not measured. *)
LEMMA NoMedian ==
  ASSUME GateInv, NEW l \in Legs, NEW m \in Metrics, NEW k \in 1..4, NEW j \in 1..4, cost[l][m] = None
  PROVE  medianRecord(<<Recorded(l, k), Recorded(l, j)>>)[m] = None
<1>1. \A i : Recorded(l, i)[m] = None
  BY DEF Recorded, metricsFromK6, Measured
<1>2. QED
  BY <1>1, MedianRead

LEMMA Scaled ==
  ASSUME NEW a \in Int, NEW b \in Int, a <= b, NEW n \in Nat
  PROVE  n * a <= n * b
  OBVIOUS

LEMMA LatencyMedians ==
  ASSUME GateInv, NEW m \in Latencies, cost["base"][m] # None, cost["head"][m] # None
  PROVE  /\ BaseMedian[m] \in Int /\ HeadMedian[m] \in Int
         /\ 2 * BaseMedian[m] <= 2 * cost["base"][m] - 3 * drift + 2 * Hundredth
         /\ 2 * cost["base"][m] - 3 * drift - 2 * Hundredth < 2 * BaseMedian[m]
         /\ 2 * HeadMedian[m] <= 2 * cost["head"][m] - 3 * drift + 2 * Hundredth
         /\ 2 * cost["head"][m] - 3 * drift - 2 * Hundredth < 2 * HeadMedian[m]
<1>1. 1 \in 1..4 /\ 2 \in 1..4 /\ 5 - 1 = 4 /\ 5 - 2 = 3 /\ "base" \in Legs /\ "head" \in Legs
  BY DEF Legs
<1>2. /\ BaseMedian[m] \in Int
      /\ 2 * BaseMedian[m] <= 2 * cost["base"][m] - 3 * drift + 2 * Hundredth
      /\ 2 * cost["base"][m] - 3 * drift - 2 * Hundredth < 2 * BaseMedian[m]
  BY <1>1, LatencyMedian DEF BaseMedian
<1>3. /\ HeadMedian[m] \in Int
      /\ 2 * HeadMedian[m] <= 2 * cost["head"][m] - 3 * drift + 2 * Hundredth
      /\ 2 * cost["head"][m] - 3 * drift - 2 * Hundredth < 2 * HeadMedian[m]
  BY <1>1, LatencyMedian DEF HeadMedian
<1>4. QED
  BY <1>2, <1>3

(* What is clearly worse is judged worse: the warming cancels, and         *)
(* rounding hides less than two units.                                     *)
LEMMA ClearIsJudged ==
  ASSUME GateInv, NEW m \in Latencies, Measurable(m), ClearlyWorse(m)
  PROVE  judge(BaseMedian[m], HeadMedian[m])
<1> DEFINE b == BaseMedian[m]
           h == HeadMedian[m]
           base == cost["base"][m]
           head == cost["head"][m]
           lost == (head - base - 2 * Hundredth) * 100
<1>1. /\ base \in Nat /\ head \in Nat /\ drift \in Nat /\ Hundredth \in Nat \ {0} /\ MaxRegression \in Nat
      /\ base > 3 * drift + Hundredth
      /\ lost > MaxRegression * (base + Hundredth)
  BY NumbersAssumption DEF GateInv, CostsTyped, Legs, Latencies, Measurable, ClearlyWorse, Tests
<1>2. /\ b \in Int /\ h \in Int
      /\ 2 * b <= 2 * base - 3 * drift + 2 * Hundredth
      /\ 2 * base - 3 * drift - 2 * Hundredth < 2 * b
      /\ 2 * head - 3 * drift - 2 * Hundredth < 2 * h
  BY LatencyMedians DEF Measurable
<1> HIDE DEF b, h, base, head
<1>3. b > 0 /\ b <= base + Hundredth /\ h - b > head - base - 2 * Hundredth
  BY <1>1, <1>2
<1>4. MaxRegression * b <= MaxRegression * (base + Hundredth) /\ 0 <= MaxRegression * b
  BY <1>1, <1>2, <1>3, Scaled
<1>5. (h - b) * 100 > MaxRegression * b
  BY <1>1, <1>2, <1>3, <1>4
<1>6. h > b
  BY <1>1, <1>2, <1>4, <1>5
<1>7. judge(b, h)
  BY <1>2, <1>3, <1>5, <1>6, CostsAssumption DEF judge, Unjudged
<1>8. QED
  BY <1>7 DEF b, h

(* What is judged worse costs more, or is so small that two units of       *)
(* rounding are more than the budget.                                      *)
LEMMA JudgedForCause ==
  ASSUME GateInv, NEW m \in Gated, judge(BaseMedian[m], HeadMedian[m])
  PROVE  /\ cost["base"][m] # None /\ cost["head"][m] # None
         /\ \/ cost["head"][m] > cost["base"][m]
            \/ m \in Latencies /\ MaxRegression * (cost["base"][m] - Tests * drift - Hundredth) < 100 * 2 * Hundredth
<1> DEFINE b == BaseMedian[m]
           h == HeadMedian[m]
           base == cost["base"][m]
           head == cost["head"][m]
<1>1. m \in Metrics /\ (KindOf[m] = "errors" \/ m \in Latencies)
  BY KindAssumption DEF Gated, Latencies
<1>2. 1 \in 1..4 /\ 2 \in 1..4 /\ 3 \in 1..4 /\ 4 \in 1..4 /\ "base" \in Legs /\ "head" \in Legs
  BY DEF Legs
<1>3. b # None /\ h # None /\ h > b /\ (h - b) * 100 > MaxRegression * b
  BY DEF judge, Unjudged
<1>4. base # None /\ head # None
  BY <1>1, <1>2, <1>3, NoMedian DEF BaseMedian, HeadMedian
<1>5. base \in Nat /\ head \in Nat /\ drift \in Nat /\ Hundredth \in Nat \ {0} /\ MaxRegression \in Nat
  BY <1>1, <1>2, <1>4, NumbersAssumption DEF GateInv, CostsTyped
<1>6. CASE KindOf[m] = "errors"
  <2>1. b = Rounded(base + base, 2, Hundredth) /\ h = Rounded(head + head, 2, Hundredth)
    BY <1>1, <1>2, <1>4, <1>6, ErrorsMedian DEF BaseMedian, HeadMedian
  <2> HIDE DEF b, h, base, head
  <2>2. b \in Int /\ h \in Int
    BY <1>5, <2>1, RoundedNear
  <2>3. head <= base => h <= b
    BY <1>5, <2>1, RoundedRises
  <2>4. head > base
    BY <1>3, <1>5, <2>2, <2>3
  <2>5. QED
    BY <1>4, <2>4 DEF base, head
<1>7. CASE m \in Latencies
  <2>1. /\ b \in Int /\ h \in Int
        /\ 2 * base - 3 * drift - 2 * Hundredth < 2 * b
        /\ 2 * h <= 2 * head - 3 * drift + 2 * Hundredth
    BY <1>4, <1>7, LatencyMedians
  <2> HIDE DEF b, h, base, head
  <2>2. ASSUME head <= base PROVE MaxRegression * (base - 4 * drift - Hundredth) < 100 * 2 * Hundredth
    <3>1. h - b <= 2 * Hundredth /\ base - 4 * drift - Hundredth <= b
      BY <1>5, <2>1, <2>2
    <3>2. MaxRegression * (base - 4 * drift - Hundredth) <= MaxRegression * b
      BY <1>5, <2>1, <3>1, Scaled
    <3>3. MaxRegression * b \in Int /\ MaxRegression * (base - 4 * drift - Hundredth) \in Int
      BY <1>5, <2>1
    <3>4. QED
      BY <1>3, <1>5, <2>1, <3>1, <3>2, <3>3
  <2>3. QED
    BY <1>4, <1>5, <1>7, <2>2 DEF base, head, Tests
<1>8. QED
  BY <1>1, <1>6, <1>7

(* A pull request whose latency is worse than the budget, by more than     *)
(* rounding hides, is failed, however much the machine warms up between    *)
(* the four tests; and one that is failed has a metric that costs more, or *)
(* a latency that rounding decides: for any metrics, costs, drift and      *)
(* budget.                                                                 *)
THEOREM GateIsFair == GateSpec => []VerdictIsFair
<1>1. GateInv => VerdictIsFair
  <2> SUFFICES ASSUME GateInv PROVE VerdictIsFair
    OBVIOUS
  <2>1. ASSUME verdict = "green", NEW m \in Latencies, Measurable(m), ClearlyWorse(m) PROVE FALSE
    <3>1. m \in Gated
      BY KindAssumption DEF Latencies, Gated
    <3>2. judge(BaseMedian[m], HeadMedian[m])
      BY <2>1, ClearIsJudged
    <3>3. QED
      BY <2>1, <3>1, <3>2 DEF GateInv, VerdictInv, regressed
  <2>2. ASSUME verdict = "red"
        PROVE  \E m \in Gated :
                 /\ cost["base"][m] # None /\ cost["head"][m] # None
                 /\ \/ cost["head"][m] > cost["base"][m]
                    \/ m \in Latencies /\ MaxRegression * (cost["base"][m] - Tests * drift - Hundredth) < 100 * 2 * Hundredth
    <3>1. PICK m \in Gated : judge(BaseMedian[m], HeadMedian[m])
      BY <2>2 DEF GateInv, VerdictInv, regressed
    <3>2. QED
      BY <3>1, JudgedForCause
  <2>3. QED
    BY <2>1, <2>2 DEF VerdictIsFair
<1>2. QED
  BY <1>1, GateStarts, GateSteps, PTL DEF GateSpec
=============================================================================
