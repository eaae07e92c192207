---------------------------- MODULE MCController ----------------------------
(* Values of the constants of Controller for TLC. *)
EXTENDS Controller, TLC

CONSTANTS c1, c2, m1, m2, m3, r1, p1, p2, wifi, lte

\* The goroutines of one kind run the same code, and so do ports.
Interchangeable == Permutations(Callers) \cup Permutations(Monitors)
                   \cup Permutations(Ports) \cup Permutations(Networks)
=============================================================================
