------------------------------ MODULE MCSrLink ------------------------------
(* SrLink for TLC. *)
EXTENDS SrLink, TLC

\* Commands are compared for equality only.
ArgSymmetry == Permutations(Arg)
=============================================================================
