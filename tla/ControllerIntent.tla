-------------------------- MODULE ControllerIntent --------------------------
(***************************************************************************)
(* Controller with a history variable: whether the user wants the tunnel.   *)
(***************************************************************************)
EXTENDS Controller

VARIABLE wanted

allVars == <<vars, wanted>>

\* Calls to Connect of the user's, or of the automatic connection the user
\* has switched on, that have not started.
Wishes == {t \in Threads \ Reconnecters : pc[t] \in {"lock", "await"}}

IntentInit == Init /\ wanted = (Wishes # {})

\* A new wish makes the tunnel wanted; Disconnect, when it returns, leaves it
\* wanted only if such a call waits behind it.
IntentNext ==
  /\ Next
  /\ wanted' = CASE Wishes' \ Wishes # {}                    -> TRUE
                 [] \E c \in Callers : pc[c] = "clear" /\ pc'[c] = "idle"
                                                             -> Wishes # {}
                 [] OTHER                                    -> wanted

IntentSpec == IntentInit /\ [][IntentNext]_allVars

\* Snapshot.Requested "reports whether the user currently wants the tunnel
\* up": after a Disconnect it stays false until the user asks again.
RequestedMeansWanted == Requested => wanted
=============================================================================
