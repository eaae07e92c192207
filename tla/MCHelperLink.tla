---------------------------- MODULE MCHelperLink ----------------------------
(* Values of the constants of HelperLink for TLC. *)
EXTENDS HelperLink

CONSTANTS c1, w1
=============================================================================
