------------------------------ MODULE MCMemlog ------------------------------
(***************************************************************************)
(* Model checking of Memlog on small instances.                            *)
(***************************************************************************)
EXTENDS Memlog, TLC

\* Keys and values are interchangeable.
Symmetry == Permutations(Keys) \cup Permutations(Vals)

\* "Ordinary restarts should not lead to any problems" (doc.go): once an update
\* is acknowledged, a restart would load the table as it is in memory.
AckedSurvives == pc = "ready" /\ result = "ok" => Recovered = mem
=============================================================================
