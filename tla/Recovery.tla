------------------------------ MODULE Recovery ------------------------------
(***************************************************************************)
(* The recovery policy of internal/core/recovery: two pure decisions, taken *)
(* by the network watcher and by the health monitor of the controller.      *)
(***************************************************************************)
EXTENDS Naturals

CONSTANTS Offline,              \* the empty fingerprint: no usable network
          MaxAutomaticAttempts  \* 2 in the code

ASSUME RecoveryAssumption == MaxAutomaticAttempts \in Nat

NetworkDecisions == {"NONE", "WAIT_FOR_NETWORK", "VERIFY_ROUTE"}
RouteDecisions   == {"NONE", "RECONNECT", "FAIL"}

\* What to do when the network's fingerprint goes from previous to current.
NetworkChanged(previous, current) ==
  CASE current = Offline                         -> "WAIT_FOR_NETWORK"
    [] /\ current # Offline
       /\ \/ previous = Offline
          \/ previous = current                  -> "NONE"
    [] OTHER                                     -> "VERIFY_ROUTE"

\* Mutant: one reconnect too many.
RouteCheckedLate(healthy, automaticAttempts) ==
  CASE healthy                                               -> "NONE"
    [] ~healthy /\ automaticAttempts <= MaxAutomaticAttempts -> "RECONNECT"
    [] OTHER                                                 -> "FAIL"

\* What to do with the verdict of a health check, given the automatic
\* reconnects made so far.
RouteChecked(healthy, automaticAttempts) ==
  CASE healthy                                                      -> "NONE"
    [] ~healthy /\ automaticAttempts < MaxAutomaticAttempts  -> "RECONNECT"
    [] OTHER                                                        -> "FAIL"
=============================================================================
