--------------------------- MODULE MCVfsSyscalls ----------------------------
(* VfsSyscalls for TLC: the sessions are alike. *)
EXTENDS VfsSyscalls, TLC

Symmetry == Permutations(Sessions)
=============================================================================
