----------------------------- MODULE MCDescript -----------------------------
(* Descript and the MLIR back end on small instances; the bounds are in the cfg   *)
(* files.                                                                         *)
EXTENDS DescriptMlir, TLC

DimsSymmetry == Permutations(Dims)
=============================================================================
