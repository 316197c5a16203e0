---------------------------- MODULE MCCoordinator ----------------------------
(* Small instances of the signalling system for TLC.                       *)
EXTENDS CoordinatorClient, TLC

CONSTANTS a, b, p1, p2, c1, c2, c3

TwoPages == (p1 :> a) @@ (p2 :> b)

(* Both pages are of the version the coordinator knows, or only one that   *)
(* may also be closed for nothing.                                         *)
Known == {[newer |-> {}, closing |-> {}]}
KnownOrNewer == Known \cup {[newer |-> {p2}, closing |-> {p1}]}

(* Two devices and their pages may be swapped, and so may connections: the *)
(* one that Fresh chooses is like any other unused one, since OpenOn       *)
(* overwrites what its last use has left before anything reads it.         *)
PageSwaps ==
    {f \in Permutations({p1, p2, a, b}) :
       \A p \in {p1, p2} : f[p] \in {p1, p2} /\ f[TwoPages[p]] = TwoPages[f[p]]}
Symmetry == {f @@ g : f \in PageSwaps, g \in Permutations({c1, c2, c3})}
=============================================================================
