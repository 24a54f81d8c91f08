---- MODULE MCVirtioNet ----
(* Two tasks that send and receive, two buffers in each direction. *)
EXTENDS VirtioNet
Symmetry == Permutations(Tasks)
====
