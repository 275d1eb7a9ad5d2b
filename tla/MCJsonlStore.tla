---------------------------- MODULE MCJsonlStore ----------------------------
(* Small instances of JsonlStore for TLC. *)
EXTENDS JsonlStore, TLC

CONSTANTS p1, p2, p3

OneHost == [p \in Procs |-> "host"]
Symmetry == Permutations(Procs)
=============================================================================
