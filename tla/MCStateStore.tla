---------------------------- MODULE MCStateStore ----------------------------
(* Small instances of StateStore: two processes and the DAOs they record.  *)
EXTENDS StateStore, TLC

CONSTANTS p1, p2, d1, d2, d3

StateSymmetry == Permutations(Procs) \cup Permutations(Daos)
=============================================================================
