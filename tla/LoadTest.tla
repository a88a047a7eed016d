------------------------------- MODULE LoadTest -------------------------------
(***************************************************************************)
(* One load test of the performance gate (scenarios.js, journey.js,        *)
(* cache.js): virtual users who walk from request to request, first those  *)
(* of the warm-up and then those that are measured, and, in the suite for  *)
(* the caches, one that makes the backend drop them again and again.  What *)
(* is kept of the backend is what of it is warm: a path in its caches, or  *)
(* the code behind a group of requests.  How long a request takes is left  *)
(* out, and so are failed requests, which are recorded like any other.     *)
(***************************************************************************)
EXTENDS Naturals, Sequences

CONSTANTS
  Suites,       \* of "scenarios", "journey", "cache"
  HotPaths,
  Ticker,       \* the one whose row is written
  Warmers,      \* the users of the warm-up
  Readers,      \* and those that are measured
  Nowhere,
  MaxCycles     \* bound: how often the caches are dropped

ASSUME SuitesAssumption == Suites \subseteq {"scenarios", "journey", "cache"}
ASSUME UsersAssumption == Warmers \cap Readers = {}
ASSUME PathsAssumption == Ticker \in HotPaths /\ Nowhere \notin HotPaths

VARIABLES
  suite,
  phase,        \* "priming", "warmup", "measured", "over"
  warm,         \* of each place: "cold", "filled", "evicted"
  user,
  cycle,        \* the user that evicts
  last,         \* the sample recorded last
  coldAtStart,  \* history: what was cold when the warm-up was over
  cycles

loadVars == <<suite, phase, warm, user, cycle, last, coldAtStart, cycles>>

Users == Warmers \cup Readers

Trends == {"lat_listing", "lat_detail", "lat_search",
           "page_home", "page_listing", "page_detail", "page_search", "page_watch"}

(* What gets warm: a cached path, or what serves the requests of a trend.  *)
Places == HotPaths \cup Trends

-----------------------------------------------------------------------------
(***************************************************************************)
(* What users do: the places of an iteration, in order                     *)
(***************************************************************************)

Times(n, place) == [i \in 1..n |-> place]

(* run of scenarios.js: one of three groups. *)
Mix == {Times(6, "lat_listing"), Times(3, "lat_detail"), Times(2, "lat_search")}

(* run of journey.js. *)
Journey ==
  {<<"page_home", "page_listing", "page_detail", "page_listing", "page_listing", "page_listing",
     "page_watch", "page_search", "page_listing">>}

(* hitRead of cache.js. *)
HotReads == {<<p>> : p \in HotPaths}

Walks == CASE suite = "scenarios" -> Mix [] suite = "journey" -> Journey [] suite = "cache" -> HotReads

(* The trend a place's requests go to. *)
TrendOf(place) == IF place \in HotPaths THEN "lat_cache_hit" ELSE place

-----------------------------------------------------------------------------
(***************************************************************************)
(* The test                                                                *)
(***************************************************************************)

Idle == [walk |-> <<>>, found |-> "none"]
NoCycle == [at |-> "idle", found |-> "none", written |-> FALSE, others |-> FALSE]
NoSample == [trend |-> "none", place |-> Nowhere, found |-> "none", excused |-> FALSE]

LoadInit ==
  /\ suite \in Suites
  /\ phase = "priming"
  /\ warm = [p \in Places |-> "cold"]
  /\ user = [u \in Users |-> Idle]
  /\ cycle = NoCycle
  /\ last = NoSample
  /\ coldAtStart = {} /\ cycles = 0

(* Each path is asked for before the test, by some scripts; nobody looks   *)
(* whether it answers.                                                     *)
Prime(primed) ==
  /\ phase = "priming"
  /\ phase' = "warmup"
  /\ warm' = [p \in Places |-> IF p \in primed THEN "filled" ELSE "cold"]
  /\ UNCHANGED <<suite, user, cycle, last, coldAtStart, cycles>>

MeasuredStarts ==
  /\ phase = "warmup"
  /\ phase' = "measured"
  /\ coldAtStart' = {p \in Places : warm[p] = "cold"}
  /\ UNCHANGED <<suite, warm, user, cycle, last, cycles>>

Ends ==
  /\ phase = "measured"
  /\ phase' = "over"
  /\ UNCHANGED <<suite, warm, user, cycle, last, coldAtStart, cycles>>

(* The next leg has a stack of its own. *)
AnotherTest ==
  /\ phase = "over"
  /\ \A u \in Users : user[u] = Idle
  /\ cycle.at = "idle"
  /\ phase' = "priming"
  /\ warm' = [p \in Places |-> "cold"]
  /\ last' = NoSample
  /\ coldAtStart' = {} /\ cycles' = 0
  /\ UNCHANGED <<suite, user, cycle>>

-----------------------------------------------------------------------------
(***************************************************************************)
(* A user's iteration                                                      *)
(***************************************************************************)

(* The scenarios: one after the other; what is under way is let go on.     *)
Runs(u) == phase = IF u \in Warmers THEN "warmup" ELSE "measured"

Iterate(u, route) ==
  /\ Runs(u) /\ user[u] = Idle
  /\ user' = [user EXCEPT ![u].walk = route]
  /\ UNCHANGED <<suite, phase, warm, cycle, last, coldAtStart, cycles>>

(* A request looks into the cache. *)
Ask(u) ==
  /\ user[u].walk # <<>> /\ user[u].found = "none"
  /\ user' = [user EXCEPT ![u].found = warm[Head(user[u].walk)]]
  /\ UNCHANGED <<suite, phase, warm, cycle, last, coldAtStart, cycles>>

(* By the name of the scenario, not by the time. *)
warming(u) == u \in Warmers

(* What was not there is put there before the answer is. *)
Filled(place, found) == IF found = "filled" THEN warm ELSE [warm EXCEPT ![place] = "filled"]

(* get, page, hitRead: the trend gets the duration, unless it is warm-up. *)
Answer(u) ==
  /\ user[u].found # "none"
  /\ LET place == Head(user[u].walk)  found == user[u].found IN
     /\ warm' = Filled(place, found)
     /\ last' = IF warming(u) THEN last
                ELSE [trend |-> TrendOf(place), place |-> place, found |-> found, excused |-> FALSE]
     /\ cycle' = IF cycle.at = "written" /\ place = Ticker /\ found # "filled"
                 THEN [cycle EXCEPT !.others = TRUE] ELSE cycle
  /\ user' = [user EXCEPT ![u] = [walk |-> Tail(user[u].walk), found |-> "none"]]
  /\ UNCHANGED <<suite, phase, coldAtStart, cycles>>

(* It has not ended half a minute after its scenario. *)
Interrupted(u) ==
  /\ ~Runs(u) /\ user[u] # Idle
  /\ user' = [user EXCEPT ![u] = Idle]
  /\ UNCHANGED <<suite, phase, warm, cycle, last, coldAtStart, cycles>>

-----------------------------------------------------------------------------
(***************************************************************************)
(* evictCycle                                                              *)
(***************************************************************************)

(* Logged in, with the first row of the table.  Without, it sleeps.        *)
CycleStarts ==
  /\ suite = "cache" /\ phase = "measured"
  /\ cycle.at = "idle" /\ cycles < MaxCycles
  /\ cycle' = [NoCycle EXCEPT !.at = "write"]
  /\ cycles' = cycles + 1
  /\ UNCHANGED <<suite, phase, warm, user, last, coldAtStart>>

(* Slip: the answer comes before the caches are dropped, if they are. *)
EvictLater(accepted) ==
  /\ cycle.at = "write"
  /\ cycle' = [cycle EXCEPT !.at = "written", !.written = accepted]
  /\ UNCHANGED <<suite, phase, warm, user, last, coldAtStart, cycles>>

(* The row is put as it was; nobody looks whether that was accepted.       *)
EvictWrite(accepted) ==
  /\ cycle.at = "write"
  /\ cycle' = [cycle EXCEPT !.at = "written", !.written = accepted]
  /\ warm' = [p \in Places |-> IF accepted /\ p \in HotPaths /\ warm[p] = "filled" THEN "evicted" ELSE warm[p]]
  /\ UNCHANGED <<suite, phase, user, last, coldAtStart, cycles>>

ReadBack ==
  /\ cycle.at = "written"
  /\ cycle' = [cycle EXCEPT !.at = "reading", !.found = warm[Ticker]]
  /\ UNCHANGED <<suite, phase, warm, user, last, coldAtStart, cycles>>

ReadBackAnswered ==
  /\ cycle.at = "reading"
  /\ warm' = Filled(Ticker, cycle.found)
  /\ last' = [trend |-> "lat_read_after_evict", place |-> Ticker, found |-> cycle.found,
              excused |-> ~cycle.written \/ cycle.others]
  /\ cycle' = NoCycle
  /\ UNCHANGED <<suite, phase, user, coldAtStart, cycles>>

LoadNext ==
  \/ \E primed \in {{}, {Ticker}, Places} : Prime(primed)
  \/ MeasuredStarts \/ Ends \/ AnotherTest
  \/ \E u \in Users :
       \/ \E route \in Walks : Iterate(u, route)
       \/ Ask(u) \/ Answer(u) \/ Interrupted(u)
  \/ CycleStarts \/ ReadBack \/ ReadBackAnswered
  \/ \E accepted \in BOOLEAN : EvictWrite(accepted)

LoadSpec == LoadInit /\ [][LoadNext]_loadVars

-----------------------------------------------------------------------------
(***************************************************************************)
(* Properties                                                              *)
(***************************************************************************)

(* What a trend records is what its name says.  "Warm-up requests are      *)
(* excluded from the gated trends" (perf/README.md, scenarios.js:55): a    *)
(* sample is of a cold start only where neither the priming nor the        *)
(* warm-up had got an answer by the time the measuring began, whichever    *)
(* requests of the warm-up end after that.  "First public read after that  *)
(* write: a cache MISS" (cache.js:12): so is what is recorded for it,      *)
(* unless the write was refused, or another user has had the path put back *)
(* before.                                                                 *)
SamplesAreAsNamed ==
  /\ last.found = "cold" => last.place \in coldAtStart
  /\ last.trend = "lat_read_after_evict" /\ last.found = "filled" => last.excused
=============================================================================
