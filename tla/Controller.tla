----------------------------- MODULE Controller -----------------------------
(***************************************************************************)
(* The connection lifecycle of internal/app: Connect, Disconnect, the       *)
(* health monitor, the network watcher and the automatic connection, each   *)
(* in goroutines of its own, sharing connectMu, the published snapshot and  *)
(* the engine.                                                              *)
(*                                                                          *)
(* A goroutine is a thread with a program counter.  One action is what a    *)
(* goroutine does between two points where another one can be seen to run:  *)
(* a lock it waits for, a snapshot it publishes, a call into the engine.    *)
(***************************************************************************)
EXTENDS Recovery, Integers, FiniteSets

CONSTANTS Callers,         \* goroutines of the window and the tray, one call each
          Monitors,        \* slots for the goroutines startMonitor spawns
          Redials,         \* slots for those tryAutoConnectOnNetwork spawns
          watcher,         \* the goroutine of watchNetwork
          boot,            \* the goroutine of autoConnect
          Ports,           \* SOCKS ports an instance can listen on
          NoPort,          \* port 0
          Networks,        \* non-empty network fingerprints
          NoThread,        \* nobody: a free mutex, a nil monitor
          ConnectAttempts, \* autoConnectMaxAttempts, 3 in the code
          AutoConnect,     \* the toggle "connect at startup"
          WatchesNetwork,  \* netmon.Watch succeeded
          StoreMayFail,    \* store.Load may return an error
          PromptCount      \* a monitor's first tick, 5 s after it starts, comes
                           \* after the goroutine that started it has written
                           \* the attempt counter

Reconnecters == Monitors \cup {watcher}
Threads      == Callers \cup Monitors \cup Redials \cup {watcher, boot}

ASSUME ThreadsAssumption ==
  /\ Callers \cap Monitors = {}
  /\ Redials \cap (Callers \cup Monitors) = {}
  /\ watcher \notin Callers \cup Monitors \cup Redials
  /\ boot \notin Callers \cup Monitors \cup Redials \cup {watcher}
  /\ NoThread \notin Threads
ASSUME ValuesAssumption ==
  /\ NoPort \notin Ports
  /\ Offline \notin Networks
  /\ ConnectAttempts \in Nat \ {0}
  /\ {AutoConnect, WatchesNetwork, StoreMayFail, PromptCount} \subseteq BOOLEAN

VARIABLES status,     \* snapshot.Status
          port,       \* snapshot.SocksPort
          attempt,    \* snapshot.RecoveryAttempt
          core,       \* port of the engine's instance, NoPort when it is nil
          alive,      \* the instance accepts connections
          connectMu,  \* the thread inside Connect or Disconnect
          monitor,    \* the monitor App.monitor can cancel
          cancelled,  \* monitors whose context is done
          pc, saved,  \* per thread: next step, the attempt counter it read
          tries,      \* the attempts of autoConnect that failed
          net, seen,  \* the machine's network, the fingerprint last handled
          event       \* the watcher's channel of capacity one holds an event

snapshot   == <<status, port, attempt>>
engine     == <<core, alive>>
monitoring == <<monitor, cancelled>>
network    == <<net, seen, event>>
vars == <<status, port, attempt, core, alive, connectMu, monitor, cancelled,
          pc, saved, tries, net, seen, event>>

Statuses == {"DISCONNECTED", "CONNECTING", "CONNECTED", "RECOVERING",
             "WAITING_FOR_NETWORK", "ERROR"}
Steps == {"idle", "lock", "prepare", "start", "launch", "publish", "guard",
          "count", "dlock", "stopping", "clear", "watch", "lost", "offline",
          "verify", "probe", "proved", "recover", "await"}

Requested == status # "DISCONNECTED"
\* Engine.Start holds the engine's mutex while it replaces the instance.
EngineFree == \A t \in Threads : pc[t] # "launch"
\* Engine.Healthy: there is an instance and its inbound accepts connections.
Healthy == core # NoPort /\ alive

TypeOK ==
  /\ status \in Statuses
  /\ port \in Ports \cup {NoPort}
  /\ attempt \in 0..MaxAutomaticAttempts
  /\ core \in Ports \cup {NoPort}
  /\ alive \in BOOLEAN
  /\ connectMu \in Threads \cup {NoThread}
  /\ monitor \in Monitors \cup {NoThread}
  /\ cancelled \subseteq Monitors
  /\ pc \in [Threads -> Steps]
  /\ saved \in [Threads -> 0..MaxAutomaticAttempts]
  /\ tries \in 0..(ConnectAttempts - 1)
  /\ net \in Networks \cup {Offline}
  /\ seen \in Networks \cup {Offline}
  /\ event \in BOOLEAN

\* New and Start: nothing runs yet but, with the toggle on, autoConnect.
Init ==
  /\ status = "DISCONNECTED" /\ port = NoPort /\ attempt = 0
  /\ core = NoPort /\ alive = FALSE
  /\ connectMu = NoThread
  /\ monitor = NoThread /\ cancelled = {}
  /\ pc = [t \in Threads |-> IF t = boot /\ AutoConnect THEN "await" ELSE "idle"]
  /\ saved = [t \in Threads |-> 0]
  /\ tries = 0
  /\ net \in Networks \cup {Offline} /\ seen = net /\ event = FALSE

Goto(t, step) == pc' = [pc EXCEPT ![t] = step]

-----------------------------------------------------------------------------
(* Connect, run by any thread.                                             *)

\* Where the caller of Connect goes on: reconnect and
\* reconnectAfterNetworkChange write the counter back after a success,
\* autoConnect tries again after a failure.
Succeed(t) == IF t \in Reconnecters THEN "count" ELSE "idle"

Retry(t) == IF t = boot /\ tries + 1 < ConnectAttempts THEN "lock" ELSE "idle"

\* Connect returns an error to t, which drops what it has read.
ReturnError(t) ==
  /\ Goto(t, Retry(t))
  /\ tries' = IF t = boot THEN (tries + 1) % ConnectAttempts ELSE tries
  /\ saved' = [saved EXCEPT ![t] = 0]

\* fail publishes ERROR without ports; the deferred unlock of Connect runs.
Fail(t) ==
  /\ status' = "ERROR"
  /\ port' = NoPort
  /\ connectMu' = NoThread
  /\ ReturnError(t)
  /\ UNCHANGED attempt

\* No valid subscription, or no active profile.
ConnectRefused(t) ==
  /\ pc[t] = "lock" /\ connectMu = NoThread
  /\ Fail(t)
  /\ UNCHANGED <<engine, monitoring, network>>

\* store.Load fails: the error is returned and nothing is published.
ConnectUnread(t) ==
  /\ pc[t] = "lock" /\ connectMu = NoThread
  /\ StoreMayFail
  /\ ReturnError(t)
  /\ UNCHANGED <<snapshot, engine, connectMu, monitoring, network>>

\* Mutant: Connect does not publish CONNECTING.
ConnectBeginSilently(t) ==
  /\ pc[t] = "lock" /\ connectMu = NoThread
  /\ connectMu' = t
  /\ Goto(t, "prepare")
  /\ UNCHANGED <<snapshot, engine, monitoring, saved, tries, network>>

ConnectBegin(t) ==
  /\ pc[t] = "lock" /\ connectMu = NoThread
  /\ connectMu' = t
  /\ status' = "CONNECTING"
  /\ Goto(t, "prepare")
  /\ UNCHANGED <<port, attempt, engine, monitoring, saved, tries, network>>

\* Mutant: the error is returned without fail.
AssetsMissingSilently(t) ==
  /\ pc[t] = "prepare"
  /\ connectMu' = NoThread
  /\ ReturnError(t)
  /\ UNCHANGED <<snapshot, engine, monitoring, network>>

\* The profile references geo databases that are not installed.
AssetsMissing(t) ==
  /\ pc[t] = "prepare"
  /\ Fail(t)
  /\ UNCHANGED <<engine, monitoring, network>>

\* stopMonitor cancels the current monitor and does not wait for it.  A
\* monitor that has left its loop does not look at its context any more.
CancelMonitor ==
  /\ cancelled' = cancelled \cup {m \in Monitors : m = monitor /\ pc[m] = "watch"}
  /\ monitor' = NoThread

\* Mutant: Connect leaves the previous monitor running.
StopMonitorForgotten(t) ==
  /\ pc[t] = "prepare"
  /\ Goto(t, "start")
  /\ UNCHANGED <<snapshot, engine, connectMu, monitoring, saved, tries, network>>

StopMonitor(t) ==
  /\ pc[t] = "prepare"
  /\ CancelMonitor
  /\ Goto(t, "start")
  /\ UNCHANGED <<snapshot, engine, connectMu, saved, tries, network>>

\* Engine.Start refuses the profile before it touches the running instance.
StartRejected(t) ==
  /\ pc[t] = "start"
  /\ Fail(t)
  /\ UNCHANGED <<engine, monitoring, network>>

\* Engine.Start closes the previous instance.
StopOld(t) ==
  /\ pc[t] = "start"
  /\ core' = NoPort /\ alive' = FALSE
  /\ Goto(t, "launch")
  /\ UNCHANGED <<snapshot, connectMu, monitoring, saved, tries, network>>

\* The port is taken, the core does not start or never listens: the new
\* instance is closed again.
LaunchFails(t) ==
  /\ pc[t] = "launch"
  /\ Fail(t)
  /\ UNCHANGED <<engine, monitoring, network>>

Launch(t) ==
  /\ pc[t] = "launch"
  /\ core' \in Ports /\ alive' = TRUE
  /\ Goto(t, "publish")
  /\ UNCHANGED <<snapshot, connectMu, monitoring, saved, tries, network>>

Publish(t) ==
  /\ pc[t] = "publish"
  /\ status' = "CONNECTED"
  /\ port' = core
  /\ attempt' = 0
  /\ Goto(t, "guard")
  /\ UNCHANGED <<engine, connectMu, monitoring, saved, tries, network>>

\* Mutant: the new monitor's context is derived from the one just cancelled.
StartMonitorCancelled(t) ==
  /\ pc[t] = "guard"
  /\ connectMu' = NoThread
  /\ tries' = IF t = boot THEN 0 ELSE tries
  /\ \E m \in Monitors :
       /\ pc[m] = "idle"
       /\ monitor' = m
       /\ cancelled' = cancelled \cup {m}
       /\ pc' = [pc EXCEPT ![m] = "watch", ![t] = Succeed(t)]
  /\ UNCHANGED <<snapshot, engine, saved, network>>

\* startMonitor overwrites App.monitor with the new goroutine's cancel.
StartMonitor(t) ==
  /\ pc[t] = "guard"
  /\ connectMu' = NoThread
  /\ tries' = IF t = boot THEN 0 ELSE tries
  /\ \E m \in Monitors :
       /\ pc[m] = "idle"
       /\ monitor' = m
       /\ pc' = [pc EXCEPT ![m] = "watch", ![t] = Succeed(t)]
  /\ UNCHANGED <<snapshot, engine, cancelled, saved, network>>

\* Mutant: the counter Connect has reset is not restored.
CountReset(t) ==
  /\ pc[t] = "count"
  /\ saved' = [saved EXCEPT ![t] = 0]
  /\ Goto(t, "idle")
  /\ UNCHANGED <<snapshot, engine, connectMu, monitoring, tries, network>>

\* A monitor or the watcher restores the counter Connect has reset.
Count(t) ==
  /\ pc[t] = "count"
  /\ attempt' = saved[t]
  /\ saved' = [saved EXCEPT ![t] = 0]
  /\ Goto(t, "idle")
  /\ UNCHANGED <<status, port, engine, connectMu, monitoring, tries, network>>

-----------------------------------------------------------------------------
(* Calls of the window and the tray.  SelectProfile, CycleProfile and the  *)
(* traffic toggles reach Connect on a status they have read before, so     *)
(* their calls are among these.                                            *)

CallConnect(c) ==
  /\ pc[c] = "idle"
  /\ Goto(c, "lock")
  /\ UNCHANGED <<snapshot, engine, connectMu, monitoring, saved, tries, network>>

CallDisconnect(c) ==
  /\ pc[c] = "idle"
  /\ Goto(c, "dlock")
  /\ UNCHANGED <<snapshot, engine, connectMu, monitoring, saved, tries, network>>

\* Mutant: Disconnect does not take connectMu.
DisconnectBeginUnlocked(c) ==
  /\ pc[c] = "dlock"
  /\ CancelMonitor
  /\ Goto(c, "stopping")
  /\ UNCHANGED <<snapshot, engine, connectMu, saved, tries, network>>

DisconnectBegin(c) ==
  /\ pc[c] = "dlock" /\ connectMu = NoThread
  /\ connectMu' = c
  /\ CancelMonitor
  /\ Goto(c, "stopping")
  /\ UNCHANGED <<snapshot, engine, saved, tries, network>>

\* Mutant: Disconnect waits for the monitors, which may wait for its lock.
StopCoreAfterMonitors(c) ==
  /\ pc[c] = "stopping"
  /\ \A m \in Monitors : pc[m] = "idle"
  /\ core' = NoPort /\ alive' = FALSE
  /\ Goto(c, "clear")
  /\ UNCHANGED <<snapshot, connectMu, monitoring, saved, tries, network>>

StopCore(c) ==
  /\ pc[c] = "stopping"
  /\ core' = NoPort /\ alive' = FALSE
  /\ Goto(c, "clear")
  /\ UNCHANGED <<snapshot, connectMu, monitoring, saved, tries, network>>

\* The snapshot starts over.
ClearSnapshot(c) ==
  /\ pc[c] = "clear"
  /\ status' = "DISCONNECTED" /\ port' = NoPort /\ attempt' = 0
  /\ connectMu' = NoThread
  /\ Goto(c, "idle")
  /\ UNCHANGED <<engine, monitoring, saved, tries, network>>

-----------------------------------------------------------------------------
(* The health monitor.                                                     *)

\* Both the context and the ticker may be ready: select picks either.
MonitorExit(m) ==
  /\ pc[m] = "watch" /\ m \in cancelled
  /\ cancelled' = cancelled \ {m}
  /\ Goto(m, "idle")
  /\ UNCHANGED <<snapshot, engine, connectMu, monitor, saved, tries, network>>

\* Bound on the monitors that are past their loop at the same time: one slot
\* stays for the monitor the next Connect starts.
RoomForReconnect ==
  Cardinality({m \in Monitors : pc[m] \notin {"idle", "watch"}}) + 1
    < Cardinality(Monitors)

\* The check fails when the inbound is dead and also when the monitor has
\* been cancelled, because it dials with the monitor's context.
MonitorTick(m) ==
  /\ pc[m] = "watch"
  /\ RoomForReconnect
  /\ EngineFree
  /\ ~Healthy \/ m \in cancelled
  /\ status = "CONNECTED"
  /\ PromptCount => \A t \in Threads : pc[t] # "count"
  /\ saved' = [saved EXCEPT ![m] = attempt]
  /\ cancelled' = cancelled \ {m}
  /\ Goto(m, "lost")
  /\ UNCHANGED <<snapshot, engine, connectMu, monitor, tries, network>>

MonitorGivesUp(m) ==
  /\ pc[m] = "lost"
  /\ RouteChecked(FALSE, saved[m]) # "RECONNECT"
  /\ status' = "ERROR" /\ port' = NoPort
  /\ saved' = [saved EXCEPT ![m] = 0]
  /\ Goto(m, "idle")
  /\ UNCHANGED <<attempt, engine, connectMu, monitoring, tries, network>>

MonitorRecovers(m) ==
  /\ pc[m] = "lost"
  /\ RouteChecked(FALSE, saved[m]) = "RECONNECT"
  /\ status' = "RECOVERING"
  /\ attempt' = saved[m] + 1
  /\ saved' = [saved EXCEPT ![m] = @ + 1]
  /\ Goto(m, "lock")
  /\ UNCHANGED <<port, engine, connectMu, monitoring, tries, network>>

-----------------------------------------------------------------------------
(* The network watcher.                                                    *)

NetworkChanges ==
  /\ net' \in Networks \cup {Offline}
  /\ event' = WatchesNetwork
  /\ UNCHANGED <<snapshot, engine, connectMu, monitoring, pc, saved, tries,
                 seen>>

\* An event wakes the watcher, drain swallows the burst, and the handler
\* compares the current fingerprint with the previous one.
TakeEvent ==
  /\ pc[watcher] = "idle" /\ event
  /\ event' = FALSE
  /\ seen' = net
  /\ UNCHANGED <<snapshot, engine, connectMu, monitoring, tries, net>>

ReadAttempt == saved' = [saved EXCEPT ![watcher] = attempt]

\* Nothing to do: the tunnel is not requested, or the network is the same.
IgnoreChange ==
  /\ TakeEvent
  /\ Requested => /\ NetworkChanged(seen, net) = "NONE"
                  /\ ~(status = "WAITING_FOR_NETWORK" /\ net # Offline)
  /\ UNCHANGED <<pc, saved>>

\* tryAutoConnectOnNetwork, with the autoConnect toggle on.
Redial(r) ==
  /\ AutoConnect
  /\ ~Requested /\ net # Offline /\ seen # net
  /\ pc[r] = "idle"
  /\ pc[watcher] = "idle" /\ event
  /\ event' = FALSE /\ seen' = net
  /\ Goto(r, "lock")
  /\ UNCHANGED <<snapshot, engine, connectMu, monitoring, saved, tries, net>>

NoticeLoss ==
  /\ TakeEvent /\ UNCHANGED saved
  /\ Requested /\ NetworkChanged(seen, net) = "WAIT_FOR_NETWORK"
  /\ Goto(watcher, "offline")

NoticeChange ==
  /\ TakeEvent /\ ReadAttempt
  /\ Requested /\ NetworkChanged(seen, net) = "VERIFY_ROUTE"
  /\ Goto(watcher, "verify")

\* Mutant: only a changed network restarts a tunnel that waits.
NoticeReturnChanged ==
  /\ TakeEvent /\ ReadAttempt
  /\ NetworkChanged(seen, net) = "VERIFY_ROUTE"
  /\ status = "WAITING_FOR_NETWORK" /\ net # Offline
  /\ Goto(watcher, "recover")

NoticeReturn ==
  /\ TakeEvent /\ ReadAttempt
  /\ NetworkChanged(seen, net) = "NONE"
  /\ status = "WAITING_FOR_NETWORK" /\ net # Offline
  /\ Goto(watcher, "recover")

\* The handler publishes on what it has read: nothing else is checked again.
Mark(from, newStatus, to) ==
  /\ pc[watcher] = from
  /\ status' = newStatus
  /\ Goto(watcher, to)
  /\ saved' = [saved EXCEPT ![watcher] = IF to = "idle" THEN 0 ELSE @]
  /\ UNCHANGED <<port, attempt, engine, connectMu, monitoring, tries, network>>

MarkWaiting   == Mark("offline", "WAITING_FOR_NETWORK", "idle")
MarkVerifying == Mark("verify", "RECOVERING", "probe")
MarkConnected == Mark("proved", "CONNECTED", "idle")

\* Engine.Healthy, then a request through the SOCKS port of the snapshot.
ProbePasses ==
  /\ pc[watcher] = "probe" /\ EngineFree
  /\ Healthy /\ port = core /\ net # Offline
  /\ Goto(watcher, "proved")
  /\ UNCHANGED <<snapshot, engine, connectMu, monitoring, saved, tries, network>>

ProbeFails ==
  /\ pc[watcher] = "probe" /\ EngineFree
  /\ Goto(watcher, "recover")
  /\ UNCHANGED <<snapshot, engine, connectMu, monitoring, saved, tries, network>>

\* reconnectAfterNetworkChange.
AbandonRoute ==
  /\ pc[watcher] = "recover"
  /\ RouteChecked(FALSE, saved[watcher]) # "RECONNECT"
  /\ status' = "ERROR" /\ port' = NoPort
  /\ saved' = [saved EXCEPT ![watcher] = 0]
  /\ Goto(watcher, "idle")
  /\ UNCHANGED <<attempt, engine, connectMu, monitoring, tries, network>>

RecoverRoute ==
  /\ pc[watcher] = "recover"
  /\ RouteChecked(FALSE, saved[watcher]) = "RECONNECT"
  /\ saved' = [saved EXCEPT ![watcher] = @ + 1]
  /\ Goto(watcher, "lock")
  /\ UNCHANGED <<snapshot, engine, connectMu, monitoring, tries, network>>

RecoverUnread ==
  /\ pc[watcher] = "recover" /\ StoreMayFail
  /\ RouteChecked(FALSE, saved[watcher]) = "RECONNECT"
  /\ saved' = [saved EXCEPT ![watcher] = 0]
  /\ Goto(watcher, "idle")
  /\ UNCHANGED <<snapshot, engine, connectMu, monitoring, tries, network>>

-----------------------------------------------------------------------------
(* autoConnect and the environment.                                        *)

\* waitForNetwork: the network is there, or two minutes have passed.
BootOnline ==
  /\ pc[boot] = "await" /\ net # Offline
  /\ Goto(boot, "lock")
  /\ UNCHANGED <<snapshot, engine, connectMu, monitoring, saved, tries, network>>

BootGivesUp ==
  /\ pc[boot] = "await" /\ net = Offline
  /\ Goto(boot, "idle")
  /\ UNCHANGED <<snapshot, engine, connectMu, monitoring, saved, tries, network>>

\* The instance stops accepting connections but stays the engine's instance.
CoreDies ==
  /\ Healthy
  /\ alive' = FALSE
  /\ UNCHANGED <<snapshot, core, connectMu, monitoring, pc, saved, tries, network>>

Connect(t) ==
  \/ ConnectRefused(t) \/ ConnectUnread(t) \/ ConnectBegin(t)
  \/ AssetsMissing(t) \/ StopMonitor(t)
  \/ StartRejected(t) \/ StopOld(t) \/ LaunchFails(t) \/ Launch(t)
  \/ Publish(t) \/ StartMonitor(t)

Disconnect(c) == DisconnectBegin(c) \/ StopCore(c) \/ ClearSnapshot(c)

Monitor(m) ==
  MonitorExit(m) \/ MonitorTick(m) \/ MonitorGivesUp(m) \/ MonitorRecovers(m)

HandleNetworkChange ==
  \/ IgnoreChange \/ (\E r \in Redials : Redial(r))
  \/ NoticeLoss \/ NoticeChange \/ NoticeReturn
  \/ MarkWaiting \/ MarkVerifying \/ ProbePasses \/ ProbeFails \/ MarkConnected
  \/ AbandonRoute \/ RecoverRoute \/ RecoverUnread

Boot == BootOnline \/ BootGivesUp

\* Everything a goroutine may do by itself.
Step(t) ==
  \/ Connect(t)
  \/ t \in Reconnecters /\ Count(t)
  \/ t \in Callers /\ Disconnect(t)
  \/ t \in Monitors /\ Monitor(t)
  \/ t = watcher /\ HandleNetworkChange
  \/ t = boot /\ Boot

Next ==
  \/ \E t \in Threads : Step(t)
  \/ \E c \in Callers : CallConnect(c) \/ CallDisconnect(c)
  \/ NetworkChanges
  \/ CoreDies

Spec == Init /\ [][Next]_vars
-----------------------------------------------------------------------------
(* Fairness: the runtime runs every goroutine that can run, and a Go mutex  *)
(* goes to every goroutine that waits for it, so a thread whose next step   *)
(* is enabled again and again takes it.  Nothing is assumed of the calls,   *)
(* the network or the health of the core.                                   *)

FairSpec == Spec /\ \A t \in Threads : SF_vars(Step(t))

-----------------------------------------------------------------------------
(* Safety.                                                                 *)

\* Once Disconnect has published DISCONNECTED, the core is down and no port
\* is advertised, whatever the monitors and the watcher were doing: routing
\* and traffic never go on behind a status that says they stopped.
DisconnectedMeansStopped ==
  status = "DISCONNECTED" => core = NoPort /\ port = NoPort

\* stopMonitor does not wait for the goroutine it cancels and startMonitor
\* drops the previous cancel: still, at most one monitor is not cancelled,
\* and it is the one App.monitor can cancel.
OneLiveMonitor ==
  \A m \in Monitors : pc[m] = "watch" /\ m \notin cancelled => monitor = m

\* Steps after which the thread still publishes a settled status.
Settles == {"prepare", "start", "launch", "publish"}
Unsettled == {"CONNECTING", "RECOVERING"}
Owes(t) == \/ pc[t] \in Settles
           \/ pc[t] = "clear" \/ pc[t] = "stopping"
           \/ t \in Reconnecters /\ pc[t] \in {"lock", "probe", "proved", "recover"}

\* The window never shows "connecting" or "recovering" with nobody at work:
\* as long as the settings can be read, some goroutine still has to replace
\* the status.  Every early return of Connect and of the watcher counts.
NoOrphanedProgress ==
  ~StoreMayFail /\ status \in Unsettled => \E t \in Threads : Owes(t)

\* Without a network watcher, CONNECTED is published only for a running
\* core and with its port, except while Disconnect stops it.
ConnectedTracksCore ==
  /\ ~WatchesNetwork
  /\ status = "CONNECTED"
  /\ \A c \in Callers : pc[c] # "clear"
  => core # NoPort /\ port = core

\* Without a network watcher, a connection nobody is working on has a live
\* monitor: a dead core is noticed.
ConnectedIsSupervised ==
  ~WatchesNetwork /\ status = "CONNECTED" /\ connectMu = NoThread
  => \E m \in Monitors : m = monitor /\ m \notin cancelled
                         /\ pc[m] \in {"watch", "lost"}

-----------------------------------------------------------------------------
(* Liveness.                                                               *)

\* Every call to Connect or Disconnect returns: no goroutine keeps
\* connectMu, and no monitor waits for one that waits for it.
CallsReturn == \A c \in Callers : (pc[c] # "idle") ~> (pc[c] = "idle")

\* A dead core behind a CONNECTED status is noticed.
DeadCoreNoticed ==
  (status = "CONNECTED" /\ ~Healthy) ~> (status # "CONNECTED" \/ Healthy)

\* Connecting and recovering end: the status settles, whichever of the
\* goroutines that write it comes last.  A tunnel that waits for the network
\* goes on once the network stays.
ProgressSettles ==
  /\ status \in Unsettled ~> status \notin Unsettled
  /\ <>[](net # Offline) =>
       (status = "WAITING_FOR_NETWORK" ~> status # "WAITING_FOR_NETWORK")

\* A permanently broken profile, whose core stops answering whenever it is
\* up, surfaces as an error instead of a restart loop once the user stops
\* asking for new connections.
CoreKeepsDying == []<>Healthy => []<><<CoreDies>>_vars

BrokenCoreSurfaces ==
  CoreKeepsDying /\ <>[](\A c \in Callers : pc[c] = "idle")
    => <>[](status \in {"ERROR", "DISCONNECTED"})

-----------------------------------------------------------------------------
(* What the comments say and the code does not keep.                       *)

\* ensureConnected "starts the core when a traffic toggle is flipped while
\* offline": it trusts CONNECTED, so CONNECTED with nobody at work has to
\* come with a port to route to.
ConnectedIsUsable ==
  status = "CONNECTED" /\ (\A t \in Threads : pc[t] \in {"idle", "watch"})
    => port # NoPort
=============================================================================
