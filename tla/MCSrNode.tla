------------------------------ MODULE MCSrNode ------------------------------
(* SrNode under an arbitrary wire, for TLC. *)
EXTENDS SrNode, TLC

\* No operation of the node compares two arguments but for equality.
ArgSymmetry == Permutations(Arg)
=============================================================================
