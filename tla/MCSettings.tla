----------------------------- MODULE MCSettings -----------------------------
(* Settings for TLC: one server whose profile changes and one other. *)
EXTENDS Settings

Old   == [id |-> "old", remarks |-> "north"]
New   == [id |-> "new", remarks |-> "north"]
Other == [id |-> "other", remarks |-> "south"]
MCDocuments == {<<Old>>, <<Other, New>>}

\* Bound: where neither NothingLost nor ShownIsRunning says anything any more,
\* the exploration stops.
Claimed == ~(overlapped /\ late)
=============================================================================
