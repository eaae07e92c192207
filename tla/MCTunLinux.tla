----------------------------- MODULE MCTunLinux -----------------------------
(* TunLinux for TLC; its only constant is given in the configurations. *)
EXTENDS TunLinux
=============================================================================
