----------------------------- MODULE MCVideoForm -----------------------------
(* Editors, and what they attach. *)
EXTENDS VideoForm, TLC
CONSTANTS tab1, tab2, x1, x2
Alike == Permutations(Forms) \cup Permutations(Items)
=============================================================================
