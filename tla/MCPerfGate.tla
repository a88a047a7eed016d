------------------------------ MODULE MCPerfGate ------------------------------
(* A gate of two metrics. *)
EXTENDS PerfGate, TLC

Kinds == [m \in Metrics |-> IF m = "error_rate" THEN "errors" ELSE "latency"]

Few == [m \in Metrics |-> IF m = "error_rate" THEN {0, 1, 2, 4, 8} ELSE {200, 202, 230, 240}]
=============================================================================
