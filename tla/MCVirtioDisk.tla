---- MODULE MCVirtioDisk ----
(* Three callers for the two chains that eight descriptors make. *)
EXTENDS VirtioDisk, TLC
Symmetry == Permutations(Callers) \cup Permutations(Values)
====
