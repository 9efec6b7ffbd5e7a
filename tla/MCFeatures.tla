---------------------------- MODULE MCFeatures ----------------------------
(***************************************************************************)
(* An instance of Features: two names, the first one spelled in two ways   *)
(* and with two factories or none.                                         *)
(***************************************************************************)
EXTENDS Features

CONSTANTS x, y

Str(text, upper) == [text |-> text, upper |-> upper]
Feat(text, upper, factory, stability) ==
    [ns |-> Str("ns", FALSE), name |-> Str(text, upper), factory |-> factory, stability |-> stability]

ax == Feat("a", FALSE, x, "stable")
ay == Feat("a", FALSE, y, "beta")
aX == Feat("a", TRUE, x, "stable")
aNil == Feat("a", FALSE, Nil, "stable")
bx == Feat("b", FALSE, x, "stable")

MCFeatures == {ax, ay, aX, aNil, bx}
MCBundles == {<<bx, ay>>, <<ax, bx>>, <<aX>>}
=============================================================================
