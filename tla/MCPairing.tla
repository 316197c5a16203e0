----------------------------- MODULE MCPairing -----------------------------
(***************************************************************************)
(* Instances of Pairing for TLC.                                           *)
(***************************************************************************)
EXTENDS Pairing

CONSTANTS d1, d2, d3

\* Two devices send each other files, and a third sends to one of them.
ThreeRoutes == {<<d1, d2>>, <<d2, d1>>, <<d3, d2>>}

Trust(x, y) == [d \in Device |-> IF d = d1 THEN x ELSE IF d = d2 THEN {d3} \cup y ELSE {d2}]

\* d2 and d3 trust each other, and so do d1 and d2, or neither does.
SomeTrust == {Trust({}, {}), Trust({d2}, {d1})}
=============================================================================
