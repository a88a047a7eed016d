------------------------------- MODULE PerfGate -------------------------------
(***************************************************************************)
(* The performance gate of a pull request (perf-compare.yml): four load    *)
(* tests on one machine, two of the base and two of the head, a record of  *)
(* each (lib-metrics.mjs), and the comparison of the medians               *)
(* (compare.mjs).  What a test measures is external: each leg has a cost   *)
(* per metric, and the machine warms up, so that every later test looks    *)
(* faster by the same amount.  Numbers are integers, in the unit of an     *)
(* error rate; peaks of CPU and memory, which are not gated, and the       *)
(* layout of the report are left out.                                      *)
(***************************************************************************)
EXTENDS Integers, Sequences, FiniteSets

CONSTANTS
  Metrics,      \* overall ones, and those of the groups lat_* and page_*
  KindOf,       \* "rps", "latency" or "errors"
  Costs,        \* what a metric may cost
  Hundredth,    \* two decimals, in units of an error rate: 100 in the code
  MaxRegression,\* in percent
  Drifts,       \* what later tests gain
  None

ASSUME KindAssumption == KindOf \in [Metrics -> {"rps", "latency", "errors"}]
ASSUME CostsAssumption == Costs \in [Metrics -> SUBSET (Nat \cup {None})] /\ None \notin Int
ASSUME NumbersAssumption == Hundredth \in Nat \ {0} /\ MaxRegression \in Nat /\ Drifts \subseteq Nat

VARIABLES
  cost,         \* of each leg
  drift,
  records,      \* of each leg, in the order of its tests
  round,        \* how many tests there were
  verdict

gateVars == <<cost, drift, records, round, verdict>>

Legs == {"base", "head"}

-----------------------------------------------------------------------------
(***************************************************************************)
(* A record                                                                *)
(***************************************************************************)

(* n/d to a multiple of unit, halves upwards. *)
Rounded(n, d, unit) == unit * ((2 * n + d * unit) \div (2 * d * unit))

(* Two decimals; four for an error rate. *)
metricsFromK6(summary) ==
  [m \in Metrics |-> IF summary[m] = None \/ KindOf[m] = "errors" THEN summary[m]
                     ELSE Rounded(summary[m], 1, Hundredth)]

-----------------------------------------------------------------------------
(***************************************************************************)
(* compare                                                                 *)
(***************************************************************************)

(* Where there are numbers, and the k-th smallest of them. *)
Numbers(nums) == {i \in DOMAIN nums : nums[i] # None}

Nth(nums, k) ==
  CHOOSE x \in {nums[i] : i \in Numbers(nums)} :
    /\ Cardinality({i \in Numbers(nums) : nums[i] < x}) < k
    /\ k <= Cardinality({i \in Numbers(nums) : nums[i] <= x})

(* The one in the middle or the mean of both, to two decimals. *)
median(nums) ==
  LET n == Cardinality(Numbers(nums)) IN
  IF n = 0 THEN None
  ELSE Rounded(Nth(nums, (n + 1) \div 2) + Nth(nums, n \div 2 + 1), 2, Hundredth)

medianRecord(list) ==
  IF Len(list) = 1 THEN list[1]
  ELSE [m \in Metrics |-> median([i \in DOMAIN list |-> list[i][m]])]

(* Nothing to compare with. *)
Unjudged(b, h) == b = None \/ h = None \/ b = 0

(* Worse, and by more than the budget. *)
judge(b, h) == ~Unjudged(b, h) /\ h > b /\ (h - b) * 100 > MaxRegression * b

Gated == {m \in Metrics : KindOf[m] # "rps"}

regressed(base, head) == \E m \in Gated : judge(base[m], head[m])

-----------------------------------------------------------------------------
(***************************************************************************)
(* The workflow                                                            *)
(***************************************************************************)

Latencies == {m \in Metrics : KindOf[m] = "latency"}

(* Slip: the legs take turns. *)
TurnOf(k) == IF k \in {1, 3} THEN "base" ELSE "head"

LegOf(k) == IF k \in {1, 4} THEN "base" ELSE "head"

Tests == 4

GateInit ==
  /\ cost \in [Legs -> {c \in [Metrics -> UNION {Costs[m] : m \in Metrics}] : \A m \in Metrics : c[m] \in Costs[m]}]
  /\ drift \in Drifts
  /\ \A l \in Legs, m \in Latencies : cost[l][m] # None => cost[l][m] > (Tests - 1) * drift
  /\ records = [l \in Legs |-> <<>>]
  /\ round = 0
  /\ verdict = "none"

(* What the k-th test finds. *)
Measured(l, k) ==
  [m \in Metrics |-> IF KindOf[m] = "latency" /\ cost[l][m] # None
                     THEN cost[l][m] - drift * (k - 1) ELSE cost[l][m]]

RunLeg ==
  /\ verdict = "none" /\ round < Tests
  /\ LET l == LegOf(round + 1) IN
     records' = [records EXCEPT ![l] = Append(@, metricsFromK6(Measured(l, round + 1)))]
  /\ round' = round + 1
  /\ UNCHANGED <<cost, drift, verdict>>

(* No stack, or k6 has written no summary: the job ends here. *)
LegFails ==
  /\ verdict = "none" /\ round < Tests
  /\ verdict' = "failed"
  /\ UNCHANGED <<cost, drift, records, round>>

Compare ==
  /\ verdict = "none" /\ round = Tests
  /\ verdict' = IF regressed(medianRecord(records["base"]), medianRecord(records["head"])) THEN "red" ELSE "green"
  /\ UNCHANGED <<cost, drift, records, round>>

(* Another pull request. *)
NextRequest ==
  /\ verdict # "none"
  /\ records' = [l \in Legs |-> <<>>]
  /\ round' = 0 /\ verdict' = "none"
  /\ UNCHANGED <<cost, drift>>

GateNext == RunLeg \/ LegFails \/ Compare \/ NextRequest

GateSpec == GateInit /\ [][GateNext]_gateVars

-----------------------------------------------------------------------------
(***************************************************************************)
(* Properties                                                              *)
(***************************************************************************)

(* Both legs have samples, which are not so fast as to be rounded away.    *)
Measurable(m) ==
  /\ cost["base"][m] # None /\ cost["head"][m] # None
  /\ cost["base"][m] > (Tests - 1) * drift + Hundredth

(* Worse than the budget, by more than rounding four tests and two medians *)
(* can hide.                                                               *)
ClearlyWorse(m) ==
  (cost["head"][m] - cost["base"][m] - 2 * Hundredth) * 100 > MaxRegression * (cost["base"][m] + Hundredth)

(* "A real regression (e.g. search) survives the median" (perf/README.md): *)
(* the warming of the machine hides none, since both legs gain the same    *)
(* from it (compare.mjs, judge; perf-compare.yml, the order of the legs).  *)
(* And it "cancels the position bias where whichever leg runs second looks *)
(* faster" (compare.mjs:36): a head that costs what the base costs, or     *)
(* less, is not failed, unless a latency is so small that what rounding    *)
(* adds to it is more than the budget.                                     *)
VerdictIsFair ==
  /\ verdict = "green" => \A m \in Latencies : Measurable(m) => ~ClearlyWorse(m)
  /\ verdict = "red" =>
       \E m \in Gated :
         /\ cost["base"][m] # None /\ cost["head"][m] # None
         /\ \/ cost["head"][m] > cost["base"][m]
            \/ m \in Latencies /\ MaxRegression * (cost["base"][m] - Tests * drift - Hundredth) < 100 * 2 * Hundredth

(* "Exits 1 if any latency/error metric is worse than base by more than    *)
(* --max-regression percent" (compare.mjs:9): of the error rate.           *)
ErrorsFailTheGate ==
  verdict = "green" =>
    \A m \in Gated : KindOf[m] = "errors" =>
      (cost["head"][m] - cost["base"][m]) * 100 <= MaxRegression * cost["base"][m]
=============================================================================
