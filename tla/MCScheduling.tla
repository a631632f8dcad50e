---------------------------- MODULE MCScheduling ----------------------------
(* Descript and direct calls on small instances; the bounds are in the cfg file. *)
EXTENDS Scheduling, TLC

DimsSymmetry == Permutations(Dims)
=============================================================================
