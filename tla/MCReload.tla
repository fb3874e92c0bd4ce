------------------------------ MODULE MCReload ------------------------------
EXTENDS Reload, TLC

ReloadSymmetry == Permutations(Value)
=============================================================================
