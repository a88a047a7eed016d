---------------------------- MODULE MCVideoStore ----------------------------
(* Small instances of VideoStore. *)
EXTENDS VideoStore
CONSTANTS v1, v2, a1, a2, p1, p2, p3
=============================================================================
