---------------------------- MODULE TunnelService ----------------------------
(***************************************************************************)
(* What the helper promises of the machine's routing, one request at a      *)
(* time: a tunnel that was asked for carries everything it should, anything *)
(* else leaves no trace, and a helper that starts removes what the one      *)
(* before it has left.  HelperLink is built on these steps; TunLinux        *)
(* implements them.                                                         *)
(***************************************************************************)
VARIABLES alive,    \* the helper accepts requests
          routing   \* the machine's policy: none, tunnel, or stale, that is,
                    \* whatever a helper that died has left

Methods == {"tun_up", "tun_down", "hello"}

TypeOK == alive \in BOOLEAN /\ routing \in {"none", "tunnel", "stale"}

Init == alive = TRUE /\ routing = "none"

\* Up tears the old tunnel down first and undoes a failure.
Outcome(method, ok) ==
  CASE method = "tun_up" /\ ok  -> "tunnel"
    [] method = "tun_up" /\ ~ok -> "none"
    [] method = "tun_down"      -> "none"
    [] method = "hello"         -> routing

Perform(method, ok) ==
  /\ alive
  /\ routing' = Outcome(method, ok)
  /\ UNCHANGED alive

Crash   == alive /\ alive' = FALSE /\ routing' = "stale"
Restart == ~alive /\ alive' = TRUE /\ routing' = "none"

Next ==
  \/ \E method \in Methods, ok \in BOOLEAN : Perform(method, ok)
  \/ Crash
  \/ Restart

Spec == Init /\ [][Next]_<<alive, routing>>

\* Where a helper that died is started again, what it has left goes away.
RecoveringSpec ==
  /\ Spec
  /\ (routing = "stale") ~> (routing = "none")
=============================================================================
