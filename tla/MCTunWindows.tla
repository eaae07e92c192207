---------------------------- MODULE MCTunWindows ----------------------------
(* TunWindows for TLC; its constants are given in the configurations. *)
EXTENDS TunWindows
=============================================================================
