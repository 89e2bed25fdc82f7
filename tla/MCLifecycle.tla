---------------------------- MODULE MCLifecycle ----------------------------
(* A small instance of Lifecycle for TLC.                                   *)
EXTENDS Lifecycle

CONSTANTS u1, u2, w1, w2

TwoUsers == {u1, u2}
TwoWorkers == {w1, w2}
ThreeMessages == 1 .. 3
ThreeAuthors == <<u1, u2, u1>>
=============================================================================
