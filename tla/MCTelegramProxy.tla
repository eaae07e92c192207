--------------------------- MODULE MCTelegramProxy ---------------------------
(* TelegramProxy for TLC. *)
EXTENDS TelegramProxy

\* The proxy is restarted with another transport.
RestartChanges == \A g \in 2..started : transport[g] # transport[g - 1]
=============================================================================
