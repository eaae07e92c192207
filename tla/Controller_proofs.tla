------------------------- MODULE Controller_proofs -------------------------
(***************************************************************************)
(* Theorems about Controller, for every set of goroutines, ports and        *)
(* networks and every bound on the automatic reconnects.                    *)
(***************************************************************************)
EXTENDS Controller, TLAPS

USE DEF snapshot, engine, monitoring, network, Statuses, Steps

\* Every step of Connect, whoever runs it, keeps the variables in their types.
LEMMA ConnectTypes ==
  ASSUME TypeOK, NEW t \in Threads, Connect(t)
  PROVE  TypeOK'
<1>1. CASE ConnectRefused(t) \/ AssetsMissing(t) \/ StartRejected(t) \/ LaunchFails(t)
  BY <1>1, ValuesAssumption, RecoveryAssumption
     DEF TypeOK, ConnectRefused, AssetsMissing, StartRejected, LaunchFails,
         Fail, ReturnError, Retry, Goto
<1>2. CASE ConnectUnread(t)
  BY <1>2, ValuesAssumption, RecoveryAssumption
     DEF TypeOK, ConnectUnread, ReturnError, Retry, Goto
<1>3. CASE ConnectBegin(t) \/ StopMonitor(t) \/ StopOld(t) \/ Launch(t)
  BY <1>3 DEF TypeOK, ConnectBegin, StopMonitor, CancelMonitor, StopOld, Launch, Goto
<1>4. CASE Publish(t)
  BY <1>4, RecoveryAssumption DEF TypeOK, Publish, Goto
<1>5. CASE StartMonitor(t)
  BY <1>5, ValuesAssumption DEF TypeOK, StartMonitor, Succeed, Threads
<1>6. QED
  BY <1>1, <1>2, <1>3, <1>4, <1>5 DEF Connect

\* So does every step of the network watcher's handler.
LEMMA HandlerTypes ==
  ASSUME TypeOK, HandleNetworkChange
  PROVE  TypeOK'
<1>1. watcher \in Threads
  BY DEF Threads
<1>2. CASE IgnoreChange \/ \E r \in Redials : Redial(r)
  BY <1>2 DEF TypeOK, IgnoreChange, TakeEvent, Redial, Goto, Threads
<1>3. CASE NoticeLoss \/ NoticeChange \/ NoticeReturn
  BY <1>1, <1>3 DEF TypeOK, NoticeLoss, NoticeChange, NoticeReturn, TakeEvent,
                    ReadAttempt, Goto
<1>4. CASE MarkWaiting \/ MarkVerifying \/ MarkConnected
  BY <1>1, <1>4, RecoveryAssumption
     DEF TypeOK, MarkWaiting, MarkVerifying, MarkConnected, Mark, Goto
<1>5. CASE ProbePasses \/ ProbeFails
  BY <1>1, <1>5 DEF TypeOK, ProbePasses, ProbeFails, Goto
<1>6. CASE AbandonRoute \/ RecoverUnread
  <2>1. 0 \in 0..MaxAutomaticAttempts
    BY RecoveryAssumption
  <2>2. CASE AbandonRoute
    BY <1>1, <2>1, <2>2 DEF TypeOK, AbandonRoute, Goto
  <2>3. CASE RecoverUnread
    BY <1>1, <2>1, <2>3 DEF TypeOK, RecoverUnread, Goto
  <2>4. QED
    BY <1>6, <2>2, <2>3
<1>7. CASE RecoverRoute
  <2>1. saved[watcher] < MaxAutomaticAttempts
    BY <1>7 DEF RecoverRoute, RouteChecked
  <2>2. saved[watcher] + 1 \in 0..MaxAutomaticAttempts
    BY <1>1, <2>1, RecoveryAssumption DEF TypeOK
  <2>3. QED
    BY <1>1, <1>7, <2>2 DEF TypeOK, RecoverRoute, Goto
<1>8. QED
  BY <1>2, <1>3, <1>4, <1>5, <1>6, <1>7 DEF HandleNetworkChange

\* So does every step of a health monitor: the counter it has read stays
\* within the policy's bound.
LEMMA MonitorTypes ==
  ASSUME TypeOK, NEW m \in Monitors, Monitor(m)
  PROVE  TypeOK'
<1>1. m \in Threads
  BY DEF Threads
<1>2. CASE MonitorExit(m) \/ MonitorTick(m)
  BY <1>1, <1>2 DEF TypeOK, MonitorExit, MonitorTick, Goto
<1>3. CASE MonitorGivesUp(m)
  BY <1>1, <1>3, RecoveryAssumption DEF TypeOK, MonitorGivesUp, Goto
<1>4. CASE MonitorRecovers(m)
  <2>1. saved[m] < MaxAutomaticAttempts
    BY <1>4 DEF MonitorRecovers, RouteChecked
  <2>2. saved[m] + 1 \in 0..MaxAutomaticAttempts
    BY <1>1, <2>1, RecoveryAssumption DEF TypeOK
  <2>3. QED
    BY <1>1, <1>4, <2>2 DEF TypeOK, MonitorRecovers, Goto
<1>5. QED
  BY <1>2, <1>3, <1>4 DEF Monitor

\* Every step of the system keeps the variables in their types.
LEMMA NextTypes ==
  ASSUME TypeOK, [Next]_vars
  PROVE  TypeOK'
<1>1. ASSUME NEW t \in Threads, Step(t)
      PROVE  TypeOK'
  <2>1. CASE t \in Reconnecters /\ Count(t)
    BY <2>1, RecoveryAssumption DEF TypeOK, Count, Goto
  <2>2. CASE t \in Callers /\ Disconnect(t)
    <3>1. 0 \in 0..MaxAutomaticAttempts
      BY RecoveryAssumption
    <3>2. CASE DisconnectBegin(t)
      BY <3>2 DEF TypeOK, DisconnectBegin, CancelMonitor, Goto
    <3>3. CASE StopCore(t) \/ ClearSnapshot(t)
      BY <3>1, <3>3 DEF TypeOK, StopCore, ClearSnapshot, Goto
    <3>4. QED
      BY <2>2, <3>2, <3>3 DEF Disconnect
  <2>3. CASE t = boot /\ Boot
    BY <2>3 DEF TypeOK, Boot, BootOnline, BootGivesUp, Goto
  <2>4. QED
    BY <1>1, <2>1, <2>2, <2>3, ConnectTypes, MonitorTypes, HandlerTypes DEF Step
<1>2. ASSUME NEW c \in Callers, CallConnect(c) \/ CallDisconnect(c)
      PROVE  TypeOK'
  BY <1>2 DEF TypeOK, CallConnect, CallDisconnect, Goto, Threads
<1>3. CASE NetworkChanges \/ CoreDies
  BY <1>3, ValuesAssumption DEF TypeOK, NetworkChanges, CoreDies
<1>4. CASE UNCHANGED vars
  BY <1>4 DEF TypeOK, vars
<1>5. QED
  BY <1>1, <1>2, <1>3, <1>4 DEF Next

\* The variables keep their types; in particular the attempt counter never
\* exceeds the policy's bound, whichever goroutine writes it.
THEOREM TypeCorrect == Spec => []TypeOK
<1>1. Init => TypeOK
  <2>1. 0 \in 0..MaxAutomaticAttempts /\ 0 \in 0..(ConnectAttempts - 1)
    BY ValuesAssumption, RecoveryAssumption
  <2>2. Init => pc \in [Threads -> Steps]
    BY DEF Init
  <2>3. QED
    BY <2>1, <2>2 DEF Init, TypeOK
<1>2. TypeOK /\ [Next]_vars => TypeOK'
  BY NextTypes
<1>3. QED
  BY <1>1, <1>2, PTL DEF Spec

-----------------------------------------------------------------------------
(* The inductive invariant.                                                *)

Holding    == {"prepare", "start", "launch", "publish", "guard", "stopping", "clear"}
Connecting == {"prepare", "start", "launch", "publish", "guard"}
Unwatched  == {"start", "launch", "publish", "guard", "stopping", "clear"}

\* connectMu is held from the first published step of Connect or Disconnect
\* to its last.
Mutex == \A t \in Threads : pc[t] \in Holding => connectMu = t

\* DISCONNECTED is written by Disconnect alone, which has stopped the core;
\* a Connect that may start it has replaced the status before.
Stopped ==
  /\ DisconnectedMeansStopped
  /\ \A t \in Threads : pc[t] \in Connecting => status # "DISCONNECTED"
  /\ \A t \in Threads : pc[t] = "clear" => core = NoPort

\* Between stopMonitor and startMonitor there is no current monitor.
Supervision ==
  /\ OneLiveMonitor
  /\ \A t \in Threads : pc[t] \in Unwatched => monitor = NoThread
  /\ \A m \in cancelled : pc[m] = "watch"

\* Without a watcher nobody but Connect publishes CONNECTED.
Tracking ==
  ~WatchesNetwork =>
    /\ ~event /\ pc[watcher] = "idle"
    /\ status = "CONNECTED" /\ (\A c \in Callers : pc[c] # "clear")
         => core # NoPort /\ port = core
    /\ \A t \in Threads : pc[t] \in {"prepare", "start", "launch", "publish"}
                            => status # "CONNECTED"
    /\ \A t \in Threads : pc[t] \in {"publish", "guard"} => core # NoPort
    /\ status = "CONNECTED" /\ connectMu = NoThread
         => \E m \in Monitors : m = monitor /\ m \notin cancelled
                                /\ pc[m] \in {"watch", "lost"}

Safe == Mutex /\ Stopped /\ Supervision

\* A step outside connectMu, by a goroutine that is not a monitor in its
\* loop, that leaves the core and the monitors alone and publishes no
\* DISCONNECTED and no new port.
LEMMA OutsideSafe ==
  ASSUME TypeOK, Safe, NEW t \in Threads, NEW step \in Steps,
         pc[t] \notin Holding \cup {"watch"},
         step \notin Holding \cup {"watch"},
         Goto(t, step),
         UNCHANGED <<core, connectMu, monitor, cancelled>>,
         status' = "DISCONNECTED" => status = "DISCONNECTED",
         port' \in {port, NoPort}
  PROVE  Safe'
<1> USE DEF Safe, Holding, TypeOK, Goto
<1>1. \A u \in Threads : pc'[u] = pc[u] \/ (u = t /\ pc'[u] \notin Holding \cup {"watch"})
  OBVIOUS
<1>2. Mutex'
  BY <1>1 DEF Mutex
<1>3. Stopped'
  BY <1>1 DEF Stopped, DisconnectedMeansStopped, Connecting
<1>4. Supervision'
  <2>1. OneLiveMonitor'
    BY <1>1 DEF Supervision, OneLiveMonitor, Threads
  <2>2. \A u \in Threads : pc'[u] \in Unwatched => monitor' = NoThread
    BY <1>1 DEF Supervision, Unwatched
  <2>3. \A m \in cancelled' : pc'[m] = "watch"
    BY DEF Supervision, Threads
  <2>4. QED
    BY <2>1, <2>2, <2>3 DEF Supervision
<1>5. QED
  BY <1>2, <1>3, <1>4

\* Every step of Connect keeps Safe: it has connectMu from CONNECTING on.
LEMMA ConnectSafe ==
  ASSUME TypeOK, Safe, NEW t \in Threads, Connect(t)
  PROVE  Safe'
<1> USE DEF Safe, Mutex, Stopped, Supervision, DisconnectedMeansStopped,
            OneLiveMonitor, Holding, Connecting, Unwatched, TypeOK, Goto
<1>1. CASE ConnectRefused(t)
  BY <1>1, ThreadsAssumption DEF ConnectRefused, Fail, ReturnError, Retry
<1>2. CASE ConnectUnread(t)
  BY <1>2, ThreadsAssumption DEF ConnectUnread, ReturnError, Retry
<1>3. CASE ConnectBegin(t)
  BY <1>3, ThreadsAssumption DEF ConnectBegin
<1>4. CASE AssetsMissing(t)
  BY <1>4, ThreadsAssumption DEF AssetsMissing, Fail, ReturnError, Retry
<1>5. CASE StopMonitor(t)
  BY <1>5, ThreadsAssumption DEF StopMonitor, CancelMonitor
<1>6. CASE StartRejected(t)
  BY <1>6, ThreadsAssumption DEF StartRejected, Fail, ReturnError, Retry
<1>7. CASE StopOld(t)
  BY <1>7, ThreadsAssumption DEF StopOld
<1>8. CASE LaunchFails(t)
  BY <1>8, ThreadsAssumption DEF LaunchFails, Fail, ReturnError, Retry
<1>9. CASE Launch(t)
  BY <1>9, ThreadsAssumption DEF Launch
<1>10. CASE Publish(t)
  BY <1>10, ThreadsAssumption DEF Publish
<1>11. CASE StartMonitor(t)
  BY <1>11, ThreadsAssumption DEF StartMonitor, Succeed, Threads
<1>12. QED
  BY <1>1, <1>2, <1>3, <1>4, <1>5, <1>6, <1>7, <1>8, <1>9, <1>10, <1>11 DEF Connect

\* Every step of Disconnect keeps Safe: it publishes DISCONNECTED only when
\* the core is down.
LEMMA DisconnectSafe ==
  ASSUME TypeOK, Safe, NEW c \in Callers, Disconnect(c)
  PROVE  Safe'
<1> USE DEF Safe, Mutex, Stopped, Supervision, DisconnectedMeansStopped,
            OneLiveMonitor, Holding, Connecting, Unwatched, TypeOK, Goto
<1>1. c \in Threads
  BY DEF Threads
<1>2. CASE DisconnectBegin(c)
  BY <1>1, <1>2, ThreadsAssumption DEF DisconnectBegin, CancelMonitor
<1>3. CASE StopCore(c)
  BY <1>1, <1>3, ThreadsAssumption DEF StopCore
<1>4. CASE ClearSnapshot(c)
  BY <1>1, <1>4, ThreadsAssumption DEF ClearSnapshot
<1>5. QED
  BY <1>2, <1>3, <1>4 DEF Disconnect

\* Every step of a monitor keeps Safe, although it holds no lock.
LEMMA MonitorSafe ==
  ASSUME TypeOK, Safe, NEW m \in Monitors, Monitor(m)
  PROVE  Safe'
<1> USE DEF Safe, Mutex, Stopped, Supervision, DisconnectedMeansStopped,
            OneLiveMonitor, Holding, Connecting, Unwatched, TypeOK, Goto
<1>1. m \in Threads
  BY DEF Threads
<1>2. CASE MonitorExit(m)
  BY <1>1, <1>2 DEF MonitorExit
<1>3. CASE MonitorTick(m)
  BY <1>1, <1>3 DEF MonitorTick
<1>4. CASE MonitorGivesUp(m)
  BY <1>1, <1>4 DEF MonitorGivesUp
<1>5. CASE MonitorRecovers(m)
  BY <1>1, <1>5 DEF MonitorRecovers
<1>6. QED
  BY <1>2, <1>3, <1>4, <1>5 DEF Monitor

\* Every step of the watcher's handler keeps Safe, although it writes the
\* status on what it has read before.
LEMMA HandlerSafe ==
  ASSUME TypeOK, Safe, HandleNetworkChange
  PROVE  Safe'
<1> USE OutsideSafe DEF Holding
<1>1. watcher \in Threads
  BY DEF Threads
<1>2. CASE IgnoreChange
  BY <1>2 DEF IgnoreChange, TakeEvent, Safe, Mutex, Stopped, Supervision,
              DisconnectedMeansStopped, OneLiveMonitor
<1>3. ASSUME NEW r \in Redials, Redial(r)
      PROVE  Safe'
  BY <1>3 DEF Redial, Threads
<1>4. CASE NoticeLoss
  BY <1>1, <1>4 DEF NoticeLoss, TakeEvent
<1>5. CASE NoticeChange
  BY <1>1, <1>5 DEF NoticeChange, TakeEvent
<1>6. CASE NoticeReturn
  BY <1>1, <1>6 DEF NoticeReturn, TakeEvent
<1>7. CASE MarkWaiting
  BY <1>1, <1>7 DEF MarkWaiting, Mark
<1>8. CASE MarkVerifying
  BY <1>1, <1>8 DEF MarkVerifying, Mark
<1>9. CASE MarkConnected
  BY <1>1, <1>9 DEF MarkConnected, Mark
<1>10. CASE ProbePasses
  BY <1>1, <1>10 DEF ProbePasses
<1>11. CASE ProbeFails
  BY <1>1, <1>11 DEF ProbeFails
<1>12. CASE AbandonRoute
  BY <1>1, <1>12 DEF AbandonRoute
<1>13. CASE RecoverRoute
  BY <1>1, <1>13 DEF RecoverRoute
<1>14. CASE RecoverUnread
  BY <1>1, <1>14 DEF RecoverUnread
<1>15. QED
  BY <1>2, <1>3, <1>4, <1>5, <1>6, <1>7, <1>8, <1>9, <1>10, <1>11, <1>12,
     <1>13, <1>14 DEF HandleNetworkChange

\* Every step of the system keeps Safe.
LEMMA NextSafe ==
  ASSUME TypeOK, Safe, [Next]_vars
  PROVE  Safe'
<1> USE DEF Holding
<1>1. ASSUME NEW t \in Threads, Step(t)
      PROVE  Safe'
  <2>1. CASE t \in Reconnecters /\ Count(t)
    BY <2>1, OutsideSafe DEF Count
  <2>2. CASE t = boot /\ BootOnline
    BY <2>2, OutsideSafe DEF BootOnline
  <2>3. CASE t = boot /\ BootGivesUp
    BY <2>3, OutsideSafe DEF BootGivesUp
  <2>4. QED
    BY <1>1, <2>1, <2>2, <2>3, ConnectSafe, DisconnectSafe, MonitorSafe, HandlerSafe
       DEF Step, Boot
<1>2. ASSUME NEW c \in Callers, CallConnect(c) \/ CallDisconnect(c)
      PROVE  Safe'
  <2>1. c \in Threads
    BY DEF Threads
  <2>2. CASE CallConnect(c)
    BY <2>1, <2>2, OutsideSafe DEF CallConnect
  <2>3. CASE CallDisconnect(c)
    BY <2>1, <2>3, OutsideSafe DEF CallDisconnect
  <2>4. QED
    BY <1>2, <2>2, <2>3
<1>3. ASSUME UNCHANGED <<snapshot, core, connectMu, monitoring, pc>>
      PROVE  Safe'
  BY <1>3 DEF Safe, Mutex, Stopped, Supervision, DisconnectedMeansStopped,
              OneLiveMonitor
<1>4. CASE NetworkChanges
  BY <1>3, <1>4 DEF NetworkChanges
<1>5. CASE CoreDies
  BY <1>3, <1>5 DEF CoreDies
<1>6. CASE UNCHANGED vars
  BY <1>3, <1>6 DEF vars
<1>7. QED
  BY <1>1, <1>2, <1>4, <1>5, <1>6 DEF Next

\* The inductive invariant of the lifecycle, with a network watcher or without:
\* connectMu has one holder, the core is stopped behind DISCONNECTED unless
\* the holder is at work, and one monitor at most is not cancelled.
THEOREM SafeInvariant == Spec => []Safe
<1>1. Init => Safe
  <2> SUFFICES ASSUME Init
               PROVE  Safe
    OBVIOUS
  <2>1. \A t \in Threads : pc[t] \in {"await", "idle"}
    BY DEF Init
  <2>2. \A m \in Monitors : pc[m] \in {"await", "idle"}
    BY <2>1 DEF Threads
  <2>3. QED
    BY <2>1, <2>2 DEF Init, Safe, Mutex, Stopped, Supervision,
       DisconnectedMeansStopped, OneLiveMonitor, Holding, Connecting, Unwatched
<1>2. TypeOK /\ Safe /\ [Next]_vars => Safe'
  BY NextSafe
<1>3. QED
  BY <1>1, <1>2, TypeCorrect, PTL DEF Spec

\* DISCONNECTED is published only once the core is down, and stays true of
\* the core: no stale goroutine starts it without replacing the status.
THEOREM StoppedWhenDisconnected == Spec => []DisconnectedMeansStopped
<1>1. Safe => DisconnectedMeansStopped
  BY DEF Safe, Stopped
<1>2. QED
  BY <1>1, SafeInvariant, PTL

\* However the monitors and the calls interleave, at most one monitor is not
\* cancelled, and App.monitor can cancel it.
THEOREM AtMostOneMonitor == Spec => []OneLiveMonitor
<1>1. Safe => OneLiveMonitor
  BY DEF Safe, Supervision
<1>2. QED
  BY <1>1, SafeInvariant, PTL

-----------------------------------------------------------------------------
(* Progress is owed by somebody.                                           *)

\* What a step of t has to do: settle the status, go on owing, or leave the
\* status to those who owe already.
LEMMA ProgressKept ==
  ASSUME NoOrphanedProgress, NEW t \in Threads,
         \A u \in Threads : u # t /\ Owes(u) => pc'[u] = pc[u],
         \/ StoreMayFail
         \/ status' \notin Unsettled
         \/ Owes(t)'
         \/ status' = status /\ ~Owes(t)
  PROVE  NoOrphanedProgress'
BY DEF NoOrphanedProgress, Owes

\* Every step of Connect leaves a goroutine that owes a settled status, or
\* settles it.
LEMMA ConnectProgress ==
  ASSUME TypeOK, NoOrphanedProgress, NEW t \in Threads, Connect(t)
  PROVE  NoOrphanedProgress'
<1> USE ProgressKept DEF TypeOK, Goto, Unsettled, Owes, Settles
<1>1. CASE ConnectRefused(t) \/ AssetsMissing(t) \/ StartRejected(t) \/ LaunchFails(t)
  BY <1>1 DEF ConnectRefused, AssetsMissing, StartRejected, LaunchFails,
              Fail, ReturnError
<1>2. CASE ConnectUnread(t)
  BY <1>2 DEF ConnectUnread, ReturnError
<1>3. CASE ConnectBegin(t)
  BY <1>3 DEF ConnectBegin
<1>4. CASE StopMonitor(t)
  BY <1>4 DEF StopMonitor
<1>5. CASE StopOld(t)
  BY <1>5 DEF StopOld
<1>6. CASE Launch(t)
  BY <1>6 DEF Launch
<1>7. CASE Publish(t)
  BY <1>7 DEF Publish
<1>8. CASE StartMonitor(t)
  BY <1>8 DEF StartMonitor, Threads
<1>9. QED
  BY <1>1, <1>2, <1>3, <1>4, <1>5, <1>6, <1>7, <1>8 DEF Connect

\* So does every step of the watcher's handler.
LEMMA HandlerProgress ==
  ASSUME TypeOK, NoOrphanedProgress, HandleNetworkChange
  PROVE  NoOrphanedProgress'
<1> USE ProgressKept DEF TypeOK, Goto, Unsettled, Owes, Settles
<1>1. watcher \in Threads /\ watcher \in Reconnecters
  BY DEF Threads, Reconnecters
<1>2. CASE IgnoreChange
  BY <1>1, <1>2 DEF IgnoreChange, TakeEvent
<1>3. ASSUME NEW r \in Redials, Redial(r)
      PROVE  NoOrphanedProgress'
  BY <1>3 DEF Redial, Threads
<1>4. CASE NoticeLoss
  BY <1>1, <1>4 DEF NoticeLoss, TakeEvent
<1>5. CASE NoticeChange
  BY <1>1, <1>5 DEF NoticeChange, TakeEvent
<1>6. CASE NoticeReturn
  BY <1>1, <1>6 DEF NoticeReturn, TakeEvent
<1>7. CASE MarkWaiting \/ MarkVerifying \/ MarkConnected
  BY <1>1, <1>7 DEF MarkWaiting, MarkVerifying, MarkConnected, Mark
<1>8. CASE ProbePasses \/ ProbeFails
  BY <1>1, <1>8 DEF ProbePasses, ProbeFails
<1>9. CASE AbandonRoute \/ RecoverRoute \/ RecoverUnread
  BY <1>1, <1>9 DEF AbandonRoute, RecoverRoute, RecoverUnread
<1>10. QED
  BY <1>2, <1>3, <1>4, <1>5, <1>6, <1>7, <1>8, <1>9 DEF HandleNetworkChange

\* So does every step of the system.
LEMMA NextProgress ==
  ASSUME TypeOK, NoOrphanedProgress, [Next]_vars
  PROVE  NoOrphanedProgress'
<1>1. ASSUME NEW t \in Threads, Step(t)
      PROVE  NoOrphanedProgress'
  <2> USE ProgressKept DEF TypeOK, Goto, Unsettled, Owes, Settles
  <2>1. CASE t \in Reconnecters /\ Count(t)
    BY <2>1 DEF Count
  <2>2. CASE Disconnect(t)
    BY <2>2 DEF Disconnect, DisconnectBegin, StopCore, ClearSnapshot
  <2>3. CASE t \in Monitors /\ Monitor(t)
    BY <2>3 DEF Monitor, MonitorExit, MonitorTick, MonitorGivesUp,
                MonitorRecovers, Reconnecters
  <2>4. CASE t = boot /\ Boot
    BY <2>4 DEF Boot, BootOnline, BootGivesUp
  <2>5. QED
    BY <1>1, <2>1, <2>2, <2>3, <2>4, ConnectProgress, HandlerProgress DEF Step
<1>2. ASSUME NEW c \in Callers, CallConnect(c) \/ CallDisconnect(c)
      PROVE  NoOrphanedProgress'
  BY <1>2, ProgressKept
     DEF CallConnect, CallDisconnect, TypeOK, Goto, Owes, Settles, Threads
<1>3. CASE NetworkChanges \/ CoreDies \/ UNCHANGED vars
  BY <1>3 DEF NetworkChanges, CoreDies, vars, NoOrphanedProgress, Owes
<1>4. QED
  BY <1>1, <1>2, <1>3 DEF Next

\* While the settings can be read, a status that says "connecting" or
\* "recovering" always has a goroutine that will replace it.
THEOREM ProgressIsOwed == Spec => []NoOrphanedProgress
<1>1. Init => NoOrphanedProgress
  BY DEF Init, NoOrphanedProgress, Unsettled
<1>2. TypeOK /\ NoOrphanedProgress /\ [Next]_vars => NoOrphanedProgress'
  BY NextProgress
<1>3. QED
  BY <1>1, <1>2, TypeCorrect, PTL DEF Spec

-----------------------------------------------------------------------------
(* Without a network watcher, CONNECTED means a running, supervised core.  *)

\* Every step of Connect keeps Tracking.
LEMMA ConnectTracking ==
  ASSUME TypeOK, Safe, Tracking, ~WatchesNetwork, NEW t \in Threads, Connect(t)
  PROVE  Tracking'
<1> USE DEF TypeOK, Goto, Tracking
<1>1. t # watcher /\ watcher \in Threads /\ watcher \notin Monitors
  BY ThreadsAssumption
     DEF Connect, Threads, ConnectRefused, ConnectUnread, ConnectBegin,
         AssetsMissing, StopMonitor, StartRejected, StopOld, LaunchFails, Launch,
         Publish, StartMonitor
<1>2. \A u \in Threads : u # t /\ pc[u] \in Holding => connectMu = u /\ connectMu # t
  BY DEF Safe, Mutex
<1>3. \A m \in Monitors : m \in Threads
  BY DEF Threads
<1>4. CASE ConnectRefused(t) \/ AssetsMissing(t) \/ StartRejected(t) \/ LaunchFails(t)
  BY <1>1, <1>4 DEF ConnectRefused, AssetsMissing, StartRejected, LaunchFails,
              Fail, ReturnError, Retry
<1>5. CASE ConnectUnread(t)
  BY <1>1, <1>3, <1>5 DEF ConnectUnread, ReturnError, Retry
<1>6. CASE ConnectBegin(t)
  BY <1>1, <1>6 DEF ConnectBegin
<1>7. CASE StopMonitor(t)
  BY <1>1, <1>7, ThreadsAssumption DEF StopMonitor, CancelMonitor, Safe, Mutex, Holding
<1>8. CASE StopOld(t)
  BY <1>1, <1>8, ThreadsAssumption DEF StopOld, Safe, Mutex, Holding
<1>9. CASE Launch(t)
  BY <1>1, <1>9, ThreadsAssumption, ValuesAssumption DEF Launch, Safe, Mutex, Holding
<1>10. CASE Publish(t)
  BY <1>1, <1>10, ThreadsAssumption DEF Publish, Safe, Mutex, Holding
<1>11. CASE StartMonitor(t)
  <2>1. PICK m \in Monitors : /\ pc[m] = "idle" /\ monitor' = m
                             /\ pc' = [pc EXCEPT ![m] = "watch", ![t] = Succeed(t)]
    BY <1>11 DEF StartMonitor
  <2>2. /\ pc[t] = "guard" /\ m # t /\ m # watcher /\ m \in Threads
        /\ m \notin cancelled /\ m \notin Callers
    BY <1>1, <1>3, <1>11, <2>1, ThreadsAssumption DEF StartMonitor, Safe, Supervision
  <2>3. /\ pc'[m] = "watch" /\ pc'[t] \in {"count", "idle"}
        /\ \A u \in Threads : u # m /\ u # t => pc'[u] = pc[u]
    BY <2>1, <2>2 DEF Succeed
  <2>4. UNCHANGED <<status, port, core, cancelled, event>>
    BY <1>11 DEF StartMonitor, snapshot, engine, network
  <2>5. \A c \in Callers : c \in Threads /\ (pc[c] = "clear" <=> pc'[c] = "clear")
    BY <1>11, <2>2, <2>3 DEF StartMonitor, Threads
  <2>6. QED
    BY <1>1, <2>1, <2>2, <2>3, <2>4, <2>5
<1>12. QED
  BY <1>4, <1>5, <1>6, <1>7, <1>8, <1>9, <1>10, <1>11 DEF Connect

\* Every step of Disconnect keeps Tracking.
LEMMA DisconnectTracking ==
  ASSUME TypeOK, Safe, Tracking, ~WatchesNetwork, NEW c \in Callers, Disconnect(c)
  PROVE  Tracking'
<1> USE DEF TypeOK, Goto, Tracking
<1>1. c \in Threads /\ c # watcher
  BY ThreadsAssumption DEF Threads
<1>2. CASE DisconnectBegin(c)
  BY <1>1, <1>2, ThreadsAssumption DEF DisconnectBegin, CancelMonitor
<1>3. CASE StopCore(c)
  BY <1>1, <1>3, ThreadsAssumption DEF StopCore, Safe, Mutex, Holding
<1>4. CASE ClearSnapshot(c)
  BY <1>1, <1>4 DEF ClearSnapshot
<1>5. QED
  BY <1>2, <1>3, <1>4 DEF Disconnect

\* Every step of a monitor keeps Tracking.
LEMMA MonitorTracking ==
  ASSUME TypeOK, Safe, Tracking, ~WatchesNetwork, NEW m \in Monitors, Monitor(m)
  PROVE  Tracking'
<1> USE DEF TypeOK, Goto, Tracking
<1>1. m \in Threads /\ m # watcher /\ m \notin Callers
  BY ThreadsAssumption DEF Threads
<1>2. CASE MonitorExit(m)
  BY <1>1, <1>2 DEF MonitorExit
<1>3. CASE MonitorTick(m)
  BY <1>1, <1>3 DEF MonitorTick
<1>4. CASE MonitorGivesUp(m)
  BY <1>1, <1>4 DEF MonitorGivesUp
<1>5. CASE MonitorRecovers(m)
  BY <1>1, <1>5 DEF MonitorRecovers
<1>6. QED
  BY <1>2, <1>3, <1>4, <1>5 DEF Monitor

\* Every step of the system keeps Tracking.
LEMMA NextTracking ==
  ASSUME TypeOK, Safe, Tracking, ~WatchesNetwork, [Next]_vars
  PROVE  Tracking'
<1> USE DEF TypeOK, Goto, Tracking
<1>1. ASSUME NEW t \in Threads, Step(t)
      PROVE  Tracking'
  <2>1. CASE t \in Reconnecters /\ Count(t)
    <3>1. t # watcher
      BY <2>1 DEF Count
    <3>2. QED
      BY <2>1, <3>1 DEF Count, Threads
  <2>2. CASE t = boot /\ Boot
    <3>1. boot # watcher /\ boot \notin Monitors /\ boot \notin Callers
      BY ThreadsAssumption
    <3>2. QED
      BY <2>2, <3>1 DEF Boot, BootOnline, BootGivesUp, Threads
  <2>3. ~HandleNetworkChange
    BY DEF HandleNetworkChange, IgnoreChange, TakeEvent, Redial, NoticeLoss,
           NoticeChange, NoticeReturn, MarkWaiting, MarkVerifying, MarkConnected,
           Mark, ProbePasses, ProbeFails, AbandonRoute, RecoverRoute, RecoverUnread
  <2>4. QED
    BY <1>1, <2>1, <2>2, <2>3, ConnectTracking, DisconnectTracking,
       MonitorTracking DEF Step
<1>2. ASSUME NEW c \in Callers, CallConnect(c) \/ CallDisconnect(c)
      PROVE  Tracking'
  <2>1. c \in Threads /\ c # watcher /\ c \notin Monitors
    BY ThreadsAssumption DEF Threads
  <2>2. CASE CallConnect(c)
    BY <2>1, <2>2 DEF CallConnect
  <2>3. CASE CallDisconnect(c)
    BY <2>1, <2>3 DEF CallDisconnect
  <2>4. QED
    BY <1>2, <2>2, <2>3
<1>3. CASE NetworkChanges \/ CoreDies \/ UNCHANGED vars
  BY <1>3 DEF NetworkChanges, CoreDies, vars, Healthy
<1>4. QED
  BY <1>1, <1>2, <1>3 DEF Next

\* The inductive invariant of the lifecycle without a network watcher: at every
\* point of Connect and Disconnect, what is stopped, started and published.
THEOREM TrackingInvariant == Spec => []Tracking
<1>1. Init => Tracking
  BY ThreadsAssumption DEF Init, Tracking, Threads
<1>2. TypeOK /\ Safe /\ Tracking /\ [Next]_vars => Tracking'
  <2>1. CASE WatchesNetwork
    BY <2>1 DEF Tracking
  <2>2. CASE ~WatchesNetwork
    BY <2>2, NextTracking
  <2>3. QED
    BY <2>1, <2>2
<1>3. QED
  BY <1>1, <1>2, TypeCorrect, SafeInvariant, PTL DEF Spec

\* With no watcher to write it back, CONNECTED always comes with the running
\* core and the port it listens on.
THEOREM ConnectedHasItsCore == Spec => []ConnectedTracksCore
<1>1. Tracking => ConnectedTracksCore
  BY DEF Tracking, ConnectedTracksCore
<1>2. QED
  BY <1>1, TrackingInvariant, PTL

\* With no watcher, a connection nobody is working on has a monitor that is
\* still in its loop or has just found the core dead.
THEOREM ConnectedHasItsMonitor == Spec => []ConnectedIsSupervised
<1>1. Tracking => ConnectedIsSupervised
  BY DEF Tracking, ConnectedIsSupervised
<1>2. QED
  BY <1>1, TrackingInvariant, PTL
=============================================================================
