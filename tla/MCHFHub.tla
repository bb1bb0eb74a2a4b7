------------------------------ MODULE MCHFHub ------------------------------
(* A small instance of HFHub for TLC: two required and two optional files. *)
EXTENDS HFHub, TLC

CONSTANTS p1, p2, config, onnx, modules, pooling

NeededFiles == <<config, onnx>>
ExtraFiles  == <<modules, pooling>>
Symmetry    == Permutations({p1, p2})
=============================================================================
