------------------------------ MODULE MCElection ------------------------------
(* Small instances of the election for TLC.                                *)
EXTENDS Election, TLC

CONSTANTS l1, l2, l3, l4, h1, h2, h3

(* The desktop app and the cli on one host, and two laptops elsewhere.     *)
SharedHost == (l1 :> h1) @@ (l2 :> h1) @@ (l3 :> h2) @@ (l4 :> h3)
OwnHosts == (l1 :> h1) @@ (l2 :> h2) @@ (l3 :> h3)
=============================================================================
