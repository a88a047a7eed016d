------------------------------- MODULE Catalog -------------------------------
(***************************************************************************)
(* The lists the backend serves: the most popular videos, ranked by counts *)
(* that are partly in the table and partly in the buffer of                *)
(* ViewCountService; the articles, page by page, while editors publish and *)
(* withdraw and a backend starts; and the tables of the CMS, for which     *)
(* AbstractCrudController has two implementations.  How a view gets into   *)
(* the buffer and what becomes of the map of videos is in VideoStore.      *)
(***************************************************************************)
EXTENDS Integers, Sequences, FiniteSets, SequencesExt

CONSTANTS
  Videos,
  Articles,     \* the ids of the articles
  FirstBins,    \* the bins of a new ConcurrentHashMap: 16 in the code
  MaxPage,      \* the largest page and window served: 50 in the code
  IntHalf,      \* an int is one of -IntHalf..(IntHalf - 1): 2^31 in the code
  Counts,       \* the counts rows have at first, and the form of a video may carry
  MaxSteps      \* bound: how many times something changes

ASSUME ArticlesAssumption == Articles \subseteq Nat /\ IsFiniteSet(Articles)
ASSUME VideosAssumption == IsFiniteSet(Videos)
ASSUME CountsAssumption == Counts \subseteq Nat
ASSUME SizesAssumption == FirstBins \in Nat \ {0} /\ MaxPage \in Nat \ {0} /\ IntHalf \in Nat \ {0} /\ MaxSteps \in Nat

(* The articles are in memory: far fewer than an int can count. *)
ASSUME ArticlesFit == Cardinality(Articles) + MaxPage < IntHalf

VARIABLES
  video,        \* of each video: published, its count in the table and in the buffer
  flush,        \* the flush under way: what is left to drain, what it drained
  request,      \* a request for the most popular videos
  table,        \* the articles in the table
  loading,      \* the rows a preload has read and has yet to put into the map
  order,        \* the articles in the map of ArticleStore, in its order
  bins,         \* the bins of that map
  shown,        \* those that list() lets through: published, of the category asked for
  walk,         \* a reader who reads the list of articles page after page
  steps

popularVars == <<video, flush, request>>
pageVars == <<table, loading, order, bins, shown, walk>>
vars == <<popularVars, pageVars, steps>>

NoFlush == [on |-> FALSE, left |-> {}, drained |-> [v \in Videos |-> 0]]

(* A request: the rows it read, the window of them it ranks, whose buffers *)
(* it has left to read, what it found; and, as history, what each video    *)
(* counted when the rows were read, whose adder was emptied before its     *)
(* turn, and whose count has fallen.                                       *)
NoRequest ==
  LET zero == [v \in Videos |-> 0]
  IN  [at |-> "idle", n |-> 1, visible |-> {}, rows |-> zero, window |-> {}, left |-> {}, found |-> zero,
       answer |-> {}, counted |-> zero, missed |-> {}, lost |-> {}]

(* A reader's walk: the next page, the articles seen, and, as history, the *)
(* articles that were shown all along, whether any was withdrawn and       *)
(* whether the map has put all of them in a new order.                     *)
NewWalk(size) == [size |-> size, page |-> 0, seen |-> {}, steady |-> shown,
                  withdrawn |-> FALSE, reordered |-> FALSE, done |-> FALSE]

Loaded == [at |-> "done", ids |-> {}, shown |-> {}]

(* A ConcurrentHashMap is walked bin by bin; ids that share a bin come in  *)
(* some order.  Three quarters full it gets twice the bins.                *)
Full(n, size) == size >= n - n \div 4
Arranged(S, n) == {s \in SetToSeqs(S) : \A i, j \in DOMAIN s : i < j => s[i] % n <= s[j] % n}

Init ==
  /\ video \in [Videos -> [published : BOOLEAN, views : Counts, buffered : {0}]]
  /\ flush = NoFlush
  /\ request = NoRequest
  /\ shown \in SUBSET Articles
  /\ bins \in {FirstBins * 2 ^ k : k \in 0..Cardinality(Articles)}
  /\ \E S \in SUBSET Articles :
       /\ shown \subseteq S
       /\ ~Full(bins, Cardinality(S))
       /\ bins = FirstBins \/ Full(bins \div 2, Cardinality(S))
       /\ order \in Arranged(S, bins)
       /\ table = [ids |-> S, shown |-> shown]
  /\ loading = Loaded
  /\ walk \in {NewWalk(k) : k \in 1..MaxPage}
  /\ steps = 0

Step == steps < MaxSteps /\ steps' = steps + 1

-----------------------------------------------------------------------------
(***************************************************************************)
(* PopularVideosService                                                    *)
(***************************************************************************)

Clamp(n, low, high) == IF n < low THEN low ELSE IF n > high THEN high ELSE n

Visible == {v \in Videos : video[v].published}
Counted(v) == video[v].views + flush.drained[v] + video[v].buffered

Lesser(a, b) == IF a < b THEN a ELSE b

(* Slip: no more rows are fetched than are asked for. *)
WindowTight(limit) == Lesser(MaxPage, Clamp(limit, 1, MaxPage))

Window(limit) ==
  LET n == Clamp(limit, 1, MaxPage)
  IN  Lesser(MaxPage, IF 2 * n > n THEN 2 * n ELSE n)

(* The n highest of S by Rank; among equals, any. *)
Highest(S, n, Rank(_)) ==
  {T \in SUBSET S : /\ Cardinality(T) = Lesser(n, Cardinality(S))
                    /\ \A t \in T, s \in S \ T : Rank(t) >= Rank(s)}

(* top: a window of rows by their persisted count, in one query.  A flush  *)
(* that is under way has drained what these rows do not count yet.         *)
ReadRows(limit) ==
  LET Persisted(v) == video[v].views
  IN  /\ request.at # "reading"
      /\ \E W \in Highest(Visible, Window(limit), Persisted) :
           request' = [NoRequest EXCEPT
                         !.at = "reading", !.n = Clamp(limit, 1, MaxPage), !.visible = Visible,
                         !.rows = [v \in Videos |-> Persisted(v)], !.window = W, !.left = W,
                         !.counted = [v \in Videos |-> Counted(v)],
                         !.missed = {v \in W : flush.drained[v] > 0}]
      /\ UNCHANGED <<video, flush, pageVars, steps>>

(* toModelWithViews: row after row, the buffer as it is by then. *)
ReadBuffer(v) ==
  /\ v \in request.left
  /\ request' = [request EXCEPT !.left = @ \ {v}, !.found[v] = request.rows[v] + video[v].buffered]
  /\ UNCHANGED <<video, flush, pageVars, steps>>

(* Ranked again by the effective count. *)
AnswerTop ==
  LET Found(v) == request.found[v]
  IN  /\ request.at = "reading" /\ request.left = {}
      /\ \E T \in Highest(request.window, request.n, Found) :
           request' = [request EXCEPT !.at = "answered", !.answer = T]
      /\ UNCHANGED <<video, flush, pageVars, steps>>

-----------------------------------------------------------------------------
(***************************************************************************)
(* ViewCountService, and the form that saves a count                       *)
(***************************************************************************)

Watch(v) ==
  /\ Step
  /\ video' = [video EXCEPT ![v].buffered = @ + 1]
  /\ UNCHANGED <<flush, request, pageVars>>

(* A flush drains one adder after the other into rows that nobody sees     *)
(* before it commits; adders with nothing in them it passes over.          *)
StartFlush ==
  /\ ~flush.on
  /\ Step
  /\ \E v \in Videos : video[v].buffered > 0
  /\ flush' = [flush EXCEPT !.on = TRUE, !.left = {v \in Videos : video[v].buffered > 0}]
  /\ UNCHANGED <<video, request, pageVars>>

Drain(v) ==
  /\ v \in flush.left
  /\ flush' = [flush EXCEPT !.left = @ \ {v}, !.drained[v] = video[v].buffered]
  /\ video' = [video EXCEPT ![v].buffered = 0]
  /\ request' = [request EXCEPT !.missed = @ \cup ({v} \cap request.left)]
  /\ UNCHANGED <<pageVars, steps>>

CommitFlush ==
  /\ flush.on /\ flush.left = {}
  /\ video' = [v \in Videos |-> [video[v] EXCEPT !.views = @ + flush.drained[v]]]
  /\ flush' = NoFlush
  /\ UNCHANGED <<request, pageVars, steps>>

(* What it drained is lost with its transaction. *)
FailFlush ==
  /\ flush.on
  /\ flush' = NoFlush
  /\ request' = [request EXCEPT !.lost = @ \cup {v \in Videos : flush.drained[v] > 0}]
  /\ UNCHANGED <<video, pageVars, steps>>

(* An editor's save writes the count the form was opened with; it waits    *)
(* for a flush that has updated the row.                                   *)
SaveForm(v) ==
  /\ Step
  /\ flush.drained[v] = 0
  /\ \E n \in Counts, public \in BOOLEAN :
       video' = [video EXCEPT ![v].views = n, ![v].published = public]
  /\ request' = [request EXCEPT !.lost = @ \cup {v}]
  /\ UNCHANGED <<flush, pageVars>>

PopularNext ==
  \/ \E limit \in 0..(MaxPage + 1) : ReadRows(limit)
  \/ \E v \in Videos : ReadBuffer(v) \/ Watch(v) \/ Drain(v) \/ SaveForm(v)
  \/ AnswerTop \/ StartFlush \/ CommitFlush \/ FailFlush

-----------------------------------------------------------------------------
(***************************************************************************)
(* ArticleService.list                                                     *)
(***************************************************************************)

(* A product of ints wraps around. *)
Wrapped(n) ==
  LET low == n % (2 * IntHalf)
  IN  IF low >= IntHalf THEN low - 2 * IntHalf ELSE low

(* List.subList throws outside of its list. *)
Thrown == <<"IndexOutOfBounds">>
SubList(list, from, to) == IF from < 0 THEN Thrown ELSE SubSeq(list, from + 1, to)

(* The elements of a list that are in S, in its order: SelectSeq without   *)
(* recursion (MCCatalog compares the two).                                 *)
Filtered(list, S) ==
  LET kept == {i \in DOMAIN list : list[i] \in S}
  IN  [k \in 1..Cardinality(kept) |-> list[CHOOSE i \in kept : Cardinality({j \in kept : j <= i}) = k]]

(* What list() has filtered. *)
Listed == Filtered(order, shown)

(* Slip: pages are numbered from one. *)
PageFromOne(list, page, size) ==
  LET from == Lesser(Wrapped((page + 1) * size), Len(list))
  IN  SubList(list, from, Lesser(from + size, Len(list)))

Page(list, page, size) ==
  LET from == Lesser(Wrapped(page * size), Len(list))
  IN  SubList(list, from, Lesser(from + size, Len(list)))

(* PageImpl.getTotalPages. *)
TotalPages(list, size) == (Len(list) + size - 1) \div size

(* The reader takes the next page, until the answer says it was the last.  *)
ReadPage ==
  /\ ~walk.done
  /\ LET list == Listed
     IN  walk' = [walk EXCEPT !.page = @ + 1,
                              !.seen = @ \cup ToSet(Page(list, walk.page, walk.size)),
                              !.done = walk.page + 1 >= TotalPages(list, walk.size)]
  /\ UNCHANGED <<popularVars, table, loading, order, bins, shown, steps>>

(* Somebody opens the list anew. *)
OpenList ==
  /\ walk.done
  /\ \E size \in 1..MaxPage : walk' = NewWalk(size)
  /\ UNCHANGED <<popularVars, table, loading, order, bins, shown, steps>>

-----------------------------------------------------------------------------
(***************************************************************************)
(* AbstractCrudController.list, on a repository and on a store             *)
(***************************************************************************)

Start(start) == IF start < 0 THEN 0 ELSE start
End(start, end) == IF end > Start(start) + 1 THEN end ELSE Start(start) + 1

(* Slip: the page's number is rounded up. *)
RepoListNext(list, start, end) ==
  LET size == End(start, end) - Start(start)
      page == (Start(start) + size - 1) \div size
      from == Lesser(page * size + 1, Len(list))
  IN  SubList(list, from, Lesser(from + size, Len(list)))

(* PageRequest.of(s / size, size): whole pages only. *)
RepoList(list, start, end) ==
  LET size == End(start, end) - Start(start)
      page == Start(start) \div size
  IN  SubSeq(list, page * size + 1, Lesser((page + 1) * size, Len(list)))

CachedList(list, start, end) ==
  SubList(list, Lesser(Start(start), Len(list)), Lesser(End(start, end), Len(list)))

-----------------------------------------------------------------------------
(***************************************************************************)
(* CachedContentStore                                                      *)
(***************************************************************************)

(* What the reader's walk remembers of a change. *)
Noted(reordered) ==
  walk' = [walk EXCEPT !.steady = @ \cap shown',
                       !.withdrawn = @ \/ ~(shown \subseteq shown'),
                       !.reordered = @ \/ reordered]

(* cache.put: a new article is the last of its bin, and may be the one     *)
(* that fills the map.                                                     *)
Put(a, show) ==
  /\ shown' = IF show THEN shown \cup {a} ELSE shown \ {a}
  /\ \/ /\ a \in ToSet(order)
        /\ UNCHANGED <<order, bins>>
        /\ Noted(FALSE)
     \/ /\ a \notin ToSet(order) /\ ~Full(bins, Len(order) + 1)
        /\ LET place == 1 + Cardinality({i \in DOMAIN order : order[i] % bins <= a % bins})
           IN  order' = InsertAt(order, place, a)
        /\ UNCHANGED bins
        /\ Noted(FALSE)
     \/ /\ a \notin ToSet(order) /\ Full(bins, Len(order) + 1)
        /\ bins' = 2 * bins
        /\ order' \in Arranged(ToSet(order) \cup {a}, bins')
        /\ Noted(TRUE)

(* A new id is one that no row has had. *)
Create(a) ==
  /\ Step
  /\ a \notin table.ids \cup loading.ids \cup ToSet(order)
  /\ \E show \in BOOLEAN :
       /\ table' = [ids |-> table.ids \cup {a}, shown |-> IF show THEN table.shown \cup {a} ELSE table.shown]
       /\ Put(a, show)
  /\ UNCHANGED <<popularVars, loading>>

Update(a) ==
  /\ Step
  /\ a \in table.ids
  /\ \E show \in BOOLEAN :
       /\ table' = [table EXCEPT !.shown = IF show THEN @ \cup {a} ELSE @ \ {a}]
       /\ Put(a, show)
  /\ UNCHANGED <<popularVars, loading>>

Delete(a) ==
  /\ Step
  /\ a \in table.ids
  /\ table' = [ids |-> table.ids \ {a}, shown |-> table.shown \ {a}]
  /\ order' \in IF a \in ToSet(order) THEN {RemoveAt(order, i) : i \in {i \in DOMAIN order : order[i] = a}}
                ELSE {order}
  /\ shown' = shown \ {a}
  /\ UNCHANGED <<popularVars, loading, bins>>
  /\ Noted(FALSE)

(* The backend starts anew, with a map of its own, and serves. *)
Restart ==
  /\ Step
  /\ order' = <<>> /\ bins' = FirstBins /\ shown' = {}
  /\ loading' = [Loaded EXCEPT !.at = "starting"]
  /\ UNCHANGED <<popularVars, table>>
  /\ Noted(TRUE)

(* preload: it clears the map, bins and all but their number, and reads    *)
(* the table, ...                                                          *)
Preload ==
  /\ loading.at = "starting"
  /\ order' = <<>> /\ shown' = {}
  /\ loading' = [at |-> "filling", ids |-> table.ids, shown |-> table.shown]
  /\ UNCHANGED <<popularVars, table, bins, steps>>
  /\ Noted(FALSE)

(* ... then puts in row after row, as it read them. *)
Load(a) ==
  /\ a \in loading.ids
  /\ loading' = [loading EXCEPT !.ids = @ \ {a}]
  /\ Put(a, a \in loading.shown)
  /\ UNCHANGED <<popularVars, table, steps>>

PagesNext ==
  \/ OpenList \/ ReadPage \/ Restart \/ Preload
  \/ \E a \in Articles : Create(a) \/ Update(a) \/ Delete(a) \/ Load(a)

Next == PopularNext \/ PagesNext

Spec == Init /\ [][Next]_vars

-----------------------------------------------------------------------------
(***************************************************************************)
(* Properties                                                              *)
(***************************************************************************)

(* "ranked by EFFECTIVE view count" (PopularVideosService.java:14): a      *)
(* video that counted more when the request came than another does when it *)
(* is answered is passed over for it only if there are more videos than a  *)
(* window of twice the list holds and it has no more in the table, or a    *)
(* flush took its views out of the buffer before the request came to it,   *)
(* or the other's count has fallen since.                                  *)
TopErrsForCause ==
  request.at = "answered" =>
    \A t \in request.answer, v \in request.visible \ request.answer :
      request.counted[v] > Counted(t) =>
        \/ /\ Cardinality(request.visible) > Lesser(2 * request.n, MaxPage)
           /\ request.rows[v] <= request.rows[t]
        \/ v \in request.missed
        \/ t \in request.lost

(* Reading page after page to the last, one sees every article that was    *)
(* there all along, whatever is published meanwhile: only a withdrawal, a  *)
(* start of the backend, which withdraws all, or an article that makes the *)
(* map grow, can move one to a page already read.                          *)
WalkIsComplete ==
  walk.done /\ ~walk.withdrawn /\ ~walk.reordered => walk.steady \subseteq walk.seen

(* A page is what the list has in the places of that page, in order. *)
OnPage(list, page, size) == {i \in DOMAIN list : (i - 1) \div size = page}
IsPageOf(part, list, page, size) ==
  /\ Len(part) = Cardinality(OnPage(list, page, size))
  /\ \A i \in OnPage(list, page, size) : part[((i - 1) % size) + 1] = list[i]

(* Without overflow every article is on the page its place in the list     *)
(* says, in its place there, and a page past the end is empty.  A table in *)
(* the CMS is asked for in whole pages: of those both implementations cut  *)
(* the same out of a list, each row on its page.                           *)
PagesAreSlices ==
  /\ \A page \in 0..(Cardinality(Articles) + 1), size \in 1..MaxPage :
       page * size < IntHalf => IsPageOf(Page(Listed, page, size), Listed, page, size)
  /\ \A size \in 1..MaxPage, k \in 0..Len(order) :
       LET rows == RepoList(order, k * size, (k + 1) * size)
       IN  IsPageOf(rows, order, k, size) /\ rows = CachedList(order, k * size, (k + 1) * size)
=============================================================================
