----------------------------- MODULE MCStreamer -----------------------------
(* Small instances of Streamer.  AllFit: every source has at least the size *)
(* of every tier.  NoneFit: none has.  OnlyLarge: c1 is large enough for all tiers, any other   *)
(* source for none, so prepare falls back to the first one.                 *)
EXTENDS Streamer, TLC
CONSTANTS n1, n2, n3, c1, c2, w1, w2, u1, u2
AllFit == [c \in Contents |-> Tiers]
NoneFit == [c \in Contents |-> {}]
OnlyLarge == [c \in Contents |-> IF c = c1 THEN Tiers ELSE {}]
Alike == Permutations(Workers) \cup Permutations(Uploads)
=============================================================================
