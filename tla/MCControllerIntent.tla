-------------------------- MODULE MCControllerIntent --------------------------
(* Values of the constants of ControllerIntent for TLC. *)
EXTENDS ControllerIntent

CONSTANTS c1, c2, m1, m2, m3, r1, p1, p2, wifi, lte
=============================================================================
