--------------------------- MODULE MCLoadGenerator ---------------------------
(***************************************************************************)
(* An instance of LoadGenerator: a unit with one stream, and one without   *)
(* any.                                                                    *)
(***************************************************************************)
EXTENDS LoadGenerator

CONSTANTS u1, u2

MCStreamCount == [u \in Units |-> IF u = u1 THEN 1 ELSE 0]
=============================================================================
