------------------------------ MODULE MCTraffic ------------------------------
(* Traffic for TLC. *)
EXTENDS Traffic

\* Bound: where CountedOnce says nothing any more, the exploration stops.
Claimed == ~behind
=============================================================================
