----------------------------- MODULE StoreAudit -----------------------------
(***************************************************************************)
(* VideoStore, watched from outside: an auditor notes the videos for which *)
(* the map of CachedContentStore and the table may have parted.  Nothing   *)
(* in the code keeps such notes; they say under which circumstances the    *)
(* code, which writes the map before the transaction commits and locks     *)
(* neither, may leave the two different.                                   *)
(***************************************************************************)
EXTENDS VideoStore

VARIABLE suspect      \* the videos that may differ between map and table

auditVars == <<vars, suspect>>

(* The parties that are between their first and their last write of v:     *)
(* an admin's request, the flush that has v's row locked, the preload.     *)
Writing(v) ==
  {<<"admin", a>> : a \in {b \in Admins : admin[b].video = v /\ admin[b].at \in {"store", "commit"}}}
  \cup (IF v \in flush.locked THEN {<<"flush", NoId>>} ELSE {})
  \cup (IF preload.at # "done" THEN {<<"preload", NoId>>} ELSE {})

Contended(v) == Cardinality(Writing(v)) > 1

(* A row that goes without its entry. *)
Cascaded(v) == CascadeDelete /\ row'[v] # row[v]

(* A rollback undoes half of what the party wrote. *)
RolledBack(v) == faults' # faults /\ Writing(v) # {}

(* A preload that nobody disturbs makes a new start. *)
Restarted == preload'.at = "due" /\ preload.at # "due"

AuditInit == Init /\ suspect = {}

AuditNext ==
  /\ Next
  /\ suspect' = (IF Restarted THEN {} ELSE suspect \cup {v \in Videos : Cascaded(v) \/ RolledBack(v)})
                \cup {v \in Videos : Contended(v)'}

AuditSpec == AuditInit /\ [][AuditNext]_auditVars
FairAuditSpec == AuditSpec /\ Fairness

Agree(v) == IF row[v] = NoVideo THEN cache[v] = NoVideo
            ELSE cache[v] # NoVideo /\ cache[v].edit = row[v].edit

(* "write-through persistence" (ContentStore.java:7), as far as the code   *)
(* keeps it: when nobody is writing, the map holds what the table holds of *)
(* every video, except where two parties wrote the video at the same time, *)
(* a transaction rolled back or a cascade deleted the row since the start. *)
PartsOnlyIfSuspect == Quiet => \A v \in Videos : v \in suspect \/ Agree(v)

=============================================================================
