--------------------------- MODULE MCJobLifecycle ---------------------------
(* JobLifecycle for TLC: every job has the same owner and the same url. *)
EXTENDS JobLifecycle, TLC

CONSTANTS u1, l1

MCOwner == [j \in Jobs |-> u1]
MCUrl   == [j \in Jobs |-> l1]

Symmetry == Permutations(Workers) \cup Permutations(Requests)
=============================================================================
