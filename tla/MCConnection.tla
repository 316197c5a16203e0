---------------------------- MODULE MCConnection ----------------------------
(***************************************************************************)
(* Instances of Connection for TLC.                                        *)
(***************************************************************************)
EXTENDS Connection, TLC

CONSTANTS d1, d2, d3

\* Two devices send to a third, each as often as it likes; they may be swapped.
TwoSenders == {<<d1, d2>>, <<d3, d2>>}
SenderSymmetry == Permutations({d1, d3})
=============================================================================
