------------------------------ MODULE MCCursor ------------------------------
(***************************************************************************)
(* Model checking of Cursor on small instances.                            *)
(***************************************************************************)
EXTENDS Cursor, TLC

\* Inputs and resource objects are interchangeable.
Symmetry == Permutations(Inputs) \cup Permutations(Resources)
=============================================================================
