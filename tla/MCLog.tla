------------------------------- MODULE MCLog -------------------------------
(* Constants for the run of Log.                                           *)
EXTENDS Log, TLC

Symmetry == Permutations(Threads) \cup Permutations(Fds)
=============================================================================
