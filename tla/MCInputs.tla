------------------------------ MODULE MCInputs ------------------------------
(***************************************************************************)
(* An instance of Inputs: a cursor manager whose inputs have a source in   *)
(* common, and a stateless one.                                            *)
(***************************************************************************)
EXTENDS Inputs

CONSTANTS c, s, i1, i2, a, b

MCSourcesOf == [i \in Inputs |-> IF i = i1 THEN {a, b} ELSE {b}]

MCPlugin(m) == [name |-> m, stable |-> TRUE, manager |-> m]
MCPluginLists == {<<MCPlugin(c), MCPlugin(s)>>, <<MCPlugin(c), MCPlugin(c)>>, <<MCPlugin(c)>>,
                  <<MCPlugin(s), [MCPlugin(c) EXCEPT !.stable = FALSE]>>}
=============================================================================
