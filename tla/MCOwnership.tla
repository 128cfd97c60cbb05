---------------------------- MODULE MCOwnership ----------------------------
EXTENDS Ownership, TLC

ProcSymmetry == Permutations(Procs)
============================================================================
