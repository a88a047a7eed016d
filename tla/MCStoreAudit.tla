---------------------------- MODULE MCStoreAudit ----------------------------
(* Small instances of StoreAudit. *)
EXTENDS StoreAudit
CONSTANTS v1, v2, a1, a2, p1, p2, p3
=============================================================================
