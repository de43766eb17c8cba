----------------------------- MODULE MCSessions -----------------------------
(* Sessions for TLC; tabs are interchangeable, and so are calls. *)
EXTENDS Sessions, TLC

Symmetry == Permutations(Tabs) \cup Permutations(Calls)
=============================================================================
