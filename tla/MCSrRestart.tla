----------------------------- MODULE MCSrRestart -----------------------------
(* SrRestart for TLC. *)
EXTENDS SrRestart, TLC

\* Commands are compared for equality only.
ArgSymmetry == Permutations(Arg)
=============================================================================
