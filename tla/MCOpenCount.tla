---------------------------- MODULE MCOpenCount ----------------------------
(* Model-checking module for OpenCount: threads and handles are            *)
(* interchangeable in the runs that check no liveness property.            *)
EXTENDS OpenCount, TLC

Symmetry == Permutations(Threads) \cup Permutations(Fds)
=============================================================================
