------------------------------ MODULE Lifecycle ------------------------------
(***************************************************************************)
(* What tape-streamer promises about each video, as a client sees it       *)
(* through GET /status and the master playlist, and as an operator relies  *)
(* on it across restarts: "pending -> transcoding -> ready (or failed)",   *)
(* and a video that was once prepared is not transcoded again              *)
(* (streamer/README.md:17-24).                                             *)
(***************************************************************************)
CONSTANTS Names

VARIABLES
  status,     \* what the service says of each video
  durable     \* the videos with a finished preparation on disk

vars == <<status, durable>>

Step(n, from, to) == status[n] = from /\ status' = [status EXCEPT ![n] = to]

Init ==
  /\ status = [n \in Names |-> "unknown"]
  /\ durable = {}

(* A video that is not prepared is discovered, or put off to a later scan. *)
Discover(n) == n \notin durable /\ Step(n, "unknown", "pending") /\ UNCHANGED durable
PutOff(n) == Step(n, "pending", "unknown") /\ UNCHANGED durable

(* A prepared one is taken as it is. *)
TakeOver(n) == n \in durable /\ Step(n, "unknown", "ready") /\ UNCHANGED durable

Begin(n) == n \notin durable /\ Step(n, "pending", "transcoding") /\ UNCHANGED durable

(* The preparation becomes durable before it is announced; it may be       *)
(* announced without becoming durable, if the disk refuses the marker.     *)
Complete(n) == status[n] = "transcoding" /\ durable' = durable \cup {n} /\ UNCHANGED status
Announce(n) == Step(n, "transcoding", "ready") /\ UNCHANGED durable
Fail(n) == n \notin durable /\ Step(n, "transcoding", "failed") /\ UNCHANGED durable

(* The process ends: the statuses are forgotten, the preparations are not. *)
Forget == status' = [n \in Names |-> "unknown"] /\ UNCHANGED durable

Next ==
  \/ \E n \in Names :
       \/ Discover(n) \/ PutOff(n) \/ TakeOver(n) \/ Begin(n)
       \/ Complete(n) \/ Announce(n) \/ Fail(n)
  \/ Forget

Spec == Init /\ [][Next]_vars
=============================================================================
