---------------------------- MODULE MCStateStore ----------------------------
(***************************************************************************)
(* Model checking of StateStore on small instances.                        *)
(***************************************************************************)
EXTENDS StateStore, TLC

\* Goroutines and shared stores are interchangeable.
Symmetry == Permutations(Threads) \cup Permutations(Shared)
=============================================================================
