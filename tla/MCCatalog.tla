------------------------------ MODULE MCCatalog ------------------------------
(***************************************************************************)
(* Four small instances that share no variable, each checked with the      *)
(* others at rest: the popular list of a few videos, the pages of a few    *)
(* articles, a load test, and a performance gate of a few metrics.         *)
(***************************************************************************)
EXTENDS Catalog, LoadTest, PerfGate, TLC
CONSTANTS v1, v2, v3, w1, r1

ASSUME FilteredIsSelectSeq ==
  \A n \in 0..3, S \in SUBSET Articles : \A list \in [1..n -> Articles] :
    Filtered(list, S) = SelectSeq(list, LAMBDA a : a \in S)

VARIABLE part

listVars == <<part, vars, loadVars, gateVars>>

Alike == Permutations(Videos)

Kinds == [m \in Metrics |-> IF m = "rps" THEN "rps" ELSE IF m = "error_rate" THEN "errors" ELSE "latency"]

Few ==
  [m \in Metrics |->
     CASE m = "rps" -> {40} [] m = "error_rate" -> {0, 1, 2, 4, 8}
       [] m = "p95" -> {200, 202, 230, 240} [] OTHER -> {None, 6, 9, 200}]

ListInit ==
  /\ part \in {"popular", "pages", "load", "gate"}
  /\ IF part \in {"popular", "pages"} THEN Init
     ELSE /\ flush = NoFlush /\ request = NoRequest /\ loading = Loaded /\ bins = FirstBins
          /\ steps = 0
  /\ part # "popular" => video = [v \in Videos |-> [published |-> FALSE, views |-> 0, buffered |-> 0]]
  /\ part # "pages" => /\ order = <<>> /\ shown = {} /\ table = [ids |-> {}, shown |-> {}]
                       /\ walk = NewWalk(1)
  /\ IF part = "gate" THEN GateInit
     ELSE /\ cost = [l \in Legs |-> [m \in Metrics |-> 0]] /\ drift = 0
          /\ records = [l \in Legs |-> <<>>] /\ round = 0 /\ verdict = "none"
  /\ LoadInit
  /\ part # "load" => suite = "cache"

ListNext ==
  \/ part = "popular" /\ PopularNext /\ UNCHANGED <<part, loadVars, gateVars>>
  \/ part = "pages" /\ PagesNext /\ UNCHANGED <<part, loadVars, gateVars>>
  \/ part = "load" /\ LoadNext /\ UNCHANGED <<part, vars, gateVars>>
  \/ part = "gate" /\ GateNext /\ UNCHANGED <<part, vars, loadVars>>

ListSpec == ListInit /\ [][ListNext]_listVars
=============================================================================
