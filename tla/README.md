# Formal models of SA05 desktop

SA05 desktop is a VPN client: an unprivileged controller (`internal/app`) runs an
Xray core inside the process, routes traffic into it with the desktop's system
proxy or with a tunnel device that a privileged helper owns, and supervises the
connection over crashes of the core and changes of the network. This directory
holds TLA+ modules of its stateful parts, TLC configurations that check them on
small instances, and proofs that TLAPS checks. `PROJECT.json` lists the runs, the
mutants that show each property can fail, the source lines behind each
definition, the hazards the properties are for, and the theorems.

    tlc -workers 2 -config MCController_safety.cfg MCController
    for m in *_proofs.tla; do tlapm "$m"; done

## 1. The system

| Component | State | Operations | Talks to |
|---|---|---|---|
| Connection lifecycle (`internal/app/app.go`, `network.go`) | published snapshot (status, port, attempt counter), `connectMu`, the current monitor's cancel function | `Connect`, `Disconnect`, `Toggle`, health monitor (a goroutine per connection, tick every 5 s), network watcher, automatic connection | engine, stores, system proxy, tunnel |
| Recovery policy (`internal/core/recovery`) | none | `NetworkChanged`, `RouteChecked` | lifecycle |
| Engine (`internal/core/engine`) | Xray instance, its ports | `Start` (stops the old one first), `Stop`, `Ports`, `Healthy`, counters | Xray, its own SOCKS port |
| Run state store (`internal/core/state`) | snapshot, version, listeners | `Update`, `Publish`, `Subscribe` | window, tray, CLI |
| Settings (`internal/storage`) | one JSON file | `Load`, `Save`, `Update` (read, change, write) | everything; also `sa05ctl` in another process |
| System proxy (`internal/app/sysproxy.go`, `internal/sysproxy`) | desktop settings key by key, the snapshot of the original in the settings file, the switch in the run state | enable, disable, restore at start | GNOME `gsettings`, KDE `kwriteconfig`, Windows registry, `environment.d` |
| TUN switch (`internal/app/tun.go`) | stored toggle, shown toggle | `enableTun`, `disableTun`, `HelperAvailable` | helper client |
| Helper protocol (`internal/ipc`) | client: one connection, a mutex, a request counter; server: connections, a mutex | `Hello`, `Status`, `TunUp`, `TunDown`; one retry on a transport error; deadlines | each other, over a socket |
| Helper process (`cmd/sa05-helper`) | the tunnel | start (`CleanupStale`, then listen), serve, stop | protocol, tunnel |
| Tunnel, Linux (`internal/tun/*_linux.go`) | device, policy rules, routing table, blackholes, resolver, backup of `resolv.conf` | `Up`, `Down`, `CleanupStale` | kernel |
| Tunnel, Windows (`internal/tun/tun_windows.go`) | split routes, persistent sinkholes, DNS | the same | kernel |
| Subscription, profiles, ping (`internal/core/subscription`, `core/ping`) | profiles, the active one, latencies | import, refresh, merge, select, measure, take the fastest | settings, lifecycle |
| Traffic meter (`internal/app/traffic.go`) | a goroutine per connection, the counter last folded in, totals of day and month | sample, fold (every minute and at Disconnect) | engine, settings |
| Telegram proxy (`internal/tgws`) | the run, its listener, the list of Cloudflare domains, cool-downs, slots, a goroutine per connection and per attempt | start, stop, restart, accept, look for a datacenter, relay | network |
| Updater (`internal/update`) | two executables, the update that is pending | check, download, verify, unpack, replace | release feed, file system |
| Diagnostics, notifications, assets, desktop integration, window, tray, CLI | little or none | | |

What makes it hard, component by component:

* **Lifecycle.** Six kinds of goroutines write the status. Connect and Disconnect
  exclude each other, the monitor and the watcher do not hold that lock when they
  decide; they decide on snapshots read before a probe that takes seconds; a
  monitor is cancelled without being waited for. Correct means: the status says
  what the core does, a connection is supervised by exactly one monitor, progress
  ends, and switched off stays off.
* **System proxy.** Several writes that fail one by one, no lock, a process that
  may die between any two. Correct means: the user's own configuration always
  comes back and no session is left pointing at a port nobody listens on. The code
  does not get there in every case: which cases lose the configuration has to be
  known, and that there is no other.
* **Switch, protocol, helper, tunnel.** Two processes that die separately; a
  deadline that passes while the work goes on; an answer that arrives late; a
  policy of a dozen kernel changes of which one fails. Correct means: routing
  never outlives the core, no half policy stays, the kill-switch does not leak,
  the resolver comes back.
* **Tunnel, Windows.** No routing mark, so the servers need routes of their own
  before anything is captured; a kill-switch of persistent routes that have the
  destinations of the capture. Correct means: the core's connection never enters
  its own tunnel, and the machine is cut off only when somebody asked for it.
* **Stores.** Listeners are called outside the lock; two processes update one
  file; an import waits for the network between what it reads and what it writes.
  Correct means: no lost update, every reader sees the newest version last, the
  user stays on his server.
* **Traffic.** Counters that start over with the core, goroutines that are
  cancelled and not waited for, midnight. Correct means: every byte counted once.
* **Telegram proxy.** Attempts that race, are cancelled and answer late; a restart
  on the same port while old connections still look for a way; one switch shared
  by all runs. Correct means: no connection is forgotten, none goes where its run
  may not, all end.
* **Updater.** Two files replaced one after the other, on Windows while one of them
  runs; installs that overlap. Correct means: a client that can be started is complete
  and no older, and when there is none, the one that ran last can be had back.

## 2. Modules

| Module | Models | Role |
|---|---|---|
| `Recovery` | `internal/core/recovery` | pure decisions, extended by `Controller` |
| `Controller` | lifecycle, with the engine, the watcher's channel and the status store as it uses them | component |
| `ControllerIntent` | the last wish of the user next to `Controller` | observer |
| `SysProxy` | `internal/app/sysproxy.go` over three backends | component |
| `TunnelService` | what the helper promises of the routing | abstract specification |
| `HelperLink` | TUN switch, client, server, over an instance of `TunnelService` | composition |
| `TunLinux` | the kernel changes of `internal/tun` on Linux | implements `TunnelService` |
| `TunWindows` | the routing table under `internal/tun` on Windows | implements `TunnelService` |
| `Settings` | settings file, subscription, selection and measuring of profiles, `sa05ctl` | component |
| `Traffic` | `internal/app/traffic.go`, with the engine's counters and the file as it uses them | component |
| `TelegramProxy` | `internal/tgws`: lifecycle and the search for a datacenter | component |
| `Updater` | `internal/update`, `internal/app/update.go` | component |
| `MC*` | values of the constants, symmetry, bounds on the exploration | model checking |
| `Controller_proofs`, `HelperLink_proofs`, `Settings_proofs`, `TelegramProxy_proofs`, `TunLinux_proofs`, `TunWindows_proofs`, `Updater_proofs` | theorems about the module of that name | proofs |
| `Session_proofs` | theorems about `Traffic` and about `SysProxy`; it extends both | proofs |

`HelperLink` instantiates `TunnelService`, `TunLinux` and `TunWindows` refine it, so what
`HelperLink` shows of the switch holds over either tunnel. The other components meet
in the abstractions they make of each other: a `Connect` of `Settings` is one of
`Controller` without its failures in between, a flush of `Traffic` is a `Change` of
`Settings`, a restart of the core is all `Traffic` sees of `Controller`.

### Controller

A goroutine is a thread with a program counter. `Callers` are the goroutines of the
window and the tray, each running one `Connect` or `Disconnect` at a time;
`Monitors` are slots for those `startMonitor` spawns; `watcher` is `watchNetwork`;
`boot` is the automatic connection; `Redials` are slots for the goroutines
`tryAutoConnectOnNetwork` spawns. One action is what a goroutine does between two points
at which another can be seen to run.

`Connect` is the sequence `ConnectBegin` (guard, lock, CONNECTING), `AssetsMissing`
or `StopMonitor`, `StartRejected` or `StopOld`, `LaunchFails` or `Launch`, `Publish`,
`StartMonitor`. `Disconnect` is `DisconnectBegin`, `StopCore`, `ClearSnapshot`. A monitor
waits in step `watch` and takes `MonitorTick`, which reads the status and checks
the core; from there it gives up or publishes RECOVERING and runs Connect itself,
which cancels it. The watcher reads the attempt counter (`ReadAttempt`), takes the
decision of `Recovery`, and in steps of their own publishes the status, probes, and
publishes the verdict. The channel of `netmon` holds one event (`event`); the
fingerprint of the network is data.

Abstracted: the profile and what `xrayconf` makes of it (Start is rejected or not),
the message texts, the port search, the health dial (its result is `Healthy` or, for
a cancelled context, a failure). `store.Load` fails at any time when `StoreMayFail`.

### SysProxy

`desktop` has the keys of the backend in the order the code writes them. Enable
reads the snapshot, writes each key (`ApplyKey`, `ApplyFails`), persists the
snapshot and shows the switch; Disable restores (`RestoreKey`, `RestoreFails`), forgets
and hides; `Restart` is `restoreSystemProxy` in `New`. The backends differ in what
the code does after a failed write (`RollsBack`), the order of the restoration
(`Restorations`), when the desktop acts on a key (`Applied`) and in what Enable takes
a key for that it cannot read (`Readings`): GNOME gives up, KDE and WinINET take it for
empty, and KDE without `kreadconfig` writes with an empty snapshot, of which Disable
skips every key (`Restored`) and reports success. `StartDisabling` has the ways in
which switching off ends before its first write: the settings cannot be loaded, the
snapshot is of another backend, the backend is gone; Disconnect goes on all the same.

`elsewhere` says that the client runs in a session of another desktop, to which it can
come after a death. What it writes there is not looked at: its snapshot is `Another`, and
`desktop` stays the one that was changed before. The status and all keys are read in one
step at the beginning of Enable. The `environment.d` fallback writes one file of SA05's
own and restores nothing; it is left out.

`mishaps` is history: which kinds of things have gone wrong so far. A property names the
kinds it cannot stand with `Without`, and stays in force for everything else. The names the
module would share with `Traffic` start with `Proxy` or say what they are about
(`ProxySpec`, `ProcessDies`), so that one module can extend the two.

### TunnelService, HelperLink, TunLinux, TunWindows

`TunnelService` has two variables: whether the helper accepts requests, and what
the machine's policy is (`none`, `tunnel`, or `stale` after a death). `HelperLink`
puts the switch and the protocol on top of an instance of it: a socket is a
record of who holds its ends and the lines in each direction; `Acquire`, `Dial`, `Send`,
`Receive` are the client's call, `Lost` what it does with a transport error, `Expire` the
deadline of its context, `Serve` a request under the server's mutex. A request whose
connection the client has closed is still read and run. `SwitchOffBlind` is a `disableTun`
that cannot read the settings: TunDown is not sent, and Disconnect stops the core
with the tunnel up. `unread` and `gaveUp` are history: the last `disableTun` was one of
these, an attempt has been given up at its deadline. `TunLinux` shows what the
three operations do, one rule, route, file or device at a time, with a failure at
each step of Up and a death between any two, and refines `TunnelService`: the policy is
read off the kernel (`Captured`, `Clean`), a call takes effect when it ends, and an
idle kernel that is neither would be a fourth value that the abstract
specification does not have.

`TunWindows` does the same for the routing table: `Open`, `Configure` (the gateways are
found, what there is to add is planned), `AddRoute` one by one, `Finish`; Down and a failed
Up take away in the reverse order (`LastAdded`), close the device, whose routes Windows
drops with it (`Unplug`), and lift or lay the persistent routes (`Unblock`, `Block`).
`route.exe` deletes by destination and mask, so the table is a function from
prefixes to what stands there.

Left out of `HelperLink`: the version in `Hello` (neither `enableTun` nor
`disableTun` says Hello), who may connect, the orderly shutdown of the server. Left
out of `TunLinux`: failing deletions (`RuleDel` and `RouteDel` of what exists), the
mark (the client sends `netbypass.Mark`, which is `tun.DefaultMark`), the
interface's addresses (a failure to set one is an `AddFails`), what `resolvectl`
holds (it goes with the link). `/run/sa05` is taken to survive a restart of
the helper, as it does outside the packaged unit; under the unit, systemd removes
it with the backup in it, but the unit also makes `/etc` read-only, which is
`OverwriteRefused`. Left out of `TunWindows`: failing deletions, DNS (best effort, it goes
with the adapter), addresses, MTU and metric (each a `ConfigureFails`).

### Settings

`file` is the settings file; `job` has, for each goroutine of the window (`Callers`), each
run of `sa05ctl` (`Tools`) and whatever reconnects (`Monitor`), the call it is in.
`Store.Update` is `UpdateLoad` and `UpdateSave` or `SaveFails`: the two exclude each other
only within a load or a save, so anybody can come in between. An import is `Import`,
then `FetchFails`, `NotModified` or `Fetched`, then an update; a selection is `Choose`, an
update, `Apply`, and then a Connect or `Publish`. All that is not the subscription is one
counter of changes. `last` is what the last writers wanted of each field.

### Traffic

`counter` is what the core has counted, zero after each start. A flush (`Flushers`: the
goroutines of the meter and Disconnect) is `Read`, `Lock`, `Load`, `Save` or `SaveFails`;
`StartMeter` is `startTrafficMeter`, `StopMeter` and `StopCore` are Disconnect's. History variables
account for what was carried: `past` days, what is `lost` with a replaced core, a failed
save or a death. One direction stands for both, and the day for the month.

### TelegramProxy

A run is one life of `runProxy`; `CallStart`, `StartRun`, `Listen`, `CallStop`, `Stopped` are
its lifecycle. A connection (`handler`) says hello, asks whether Cloudflare may be used
(`Choose`), tries the active domain, then the others in a race (`attempt`, one goroutine per
domain, `Parallel` of them at a time, `GlobalParallel` over all connections), and else
dials TCP. `socket` has every connection to the outside, and tells one that was closed
from one on which a read or a write has failed: `RawWebSocket.Close` does nothing with the
latter (`SendInitFails`, `Unwind`), and `Collect`, Go's collector, closes it in its own
time. Cancelling, late results and
the goroutine that drains them are actions of their own.

### Updater

`exe` and `old` are the executables and, on Windows, those moved aside. An install is
`CallInstall`, `Download`, `Verify`, `Unpack`, then for each executable `Clear`, `Aside`, `Move`,
each of which may fail; two may run at once. `Exit` and `Start` end the client and start
what lies on the disk; `Locked` is what Windows refuses to delete. `cut` is history: an
install has ended between the two renames of the client. An archive's entries are written
whole or Unpack fails; a close that fails and a loss of power are not modelled.

## 3. Runs

Twelve runs. A passing run checks all its properties on the whole state space of its
instance; the violation run shows where the code does not do what a comment says.

| Run | Instance | Shows |
|---|---|---|
| `controller_safety` | 1 caller, 2 monitors, watcher, boot, 1 redial, 2 networks, unreadable settings; 2.3 M states | `TypeOK`, `DisconnectedMeansStopped`, `OneLiveMonitor` |
| `controller_live` | no watcher, 2 automatic attempts | `ConnectedTracksCore`, `ConnectedIsSupervised`; `CallsReturn`, `DeadCoreNoticed`, `BrokenCoreSurfaces` |
| `controller_settle` | watcher, 1 network that comes and goes, readable settings | `NoOrphanedProgress`; `ProgressSettles` |
| `intent_disconnect` | no watcher | violation of `RequestedMeansWanted` |
| `sysproxy_once` | three backends, sessions without and with a proxy of their own, two failing writes and an unread key per call, deaths anywhere, any number of calls, restarts on another desktop; 1.0 M states | `OffMeansOriginal`, `WayBackIsKept`, `NeverMixed`, `ProxyGoesWithCore` |
| `helperlink_switch` | a caller, a poller, 2 sockets, 1 death, 1 deadline, unreadable settings | `RoutingGoesWithCore`, `AnswersMatch`; `CallsReturn` |
| `tunlinux_service` | 2 deaths, a failure at every step | `NoLeakOnDeath`, `ResolverRestored`; `ImplementsService`, with its liveness |
| `tunwindows_service` | 1 server of two families, 2 deaths, a failure at every step; 78 k states | `BypassBeforeCapture`, `BlockIsAsked`; `ImplementsService` |
| `settings_updates` | a caller, a tool, a reconnect, 2 documents of which one renames a profile; 2.7 M states | `NothingLost`, `ShownIsRunning`; `RefreshKeepsServer` |
| `updater_installs` | 2 installs, 3 releases, both platforms; 11 k states | `ClientIsKept`; `InstalledIsInPlace` |
| `telegram_relay` | 1 connection, 3 domains of which one throttles, 1 restart, 2 transports; 334 k states | `NothingLeaks`, `PathAllowed`; `HandlersEnd` |
| `traffic_count` | 2 meters, 3 bytes, 2 days; 566 k states | `CountedOnce` |

Further configurations, each of which ends in a counterexample that section 4 describes:
`MCController_usable`, `MCSysProxy_crash`, `MCSysProxy_recovery`, `MCSysProxy_misread`,
`MCSysProxy_halfway`, `MCSysProxy_unread`, `MCHelperLink_unread`, `MCHelperLink_timeout`,
`MCTunLinux_killswitch`, `MCTunWindows_cleanup`, `MCUpdater_atomic`.

**Why the bounds are enough.** Two monitors are the least number for which one is
cancelled while its successor runs, which is what `OneLiveMonitor` and
`BrokenCoreSurfaces` are about; two networks and a redial let a change arrive while
the previous one is handled; `MaxAutomaticAttempts` 1 and 2 (2 in the code) reach the
limit; `ConnectAttempts` 2 (3 in the code) has a failed attempt and a last one. One
port is enough because the port only has to be told from none. For the proxy,
two failing writes per call fail at each key in each direction and in the rollback of the
first, and one unread key with none read at all has both kinds of a wrong snapshot.
`Followed` (a CONSTRAINT) ends the exploration at a second kind of mishap, where three of
the properties say nothing any more, but goes on while `NeverMixed` does. It has been run up
to a third kind as well, with 4.6 M states and no other result. `Alive` (a
VIEW) leaves out what a call has left in its variables when it is over: every call sets
them before it reads them, so no later step depends on them, and of the properties only
the type invariant looks at them. For the protocol, two sockets are the one the client has left and the one it uses, request
numbers modulo two tell a call from the one before, and one death with one deadline
reach the late answer of `AnswersMatch`, which needs both. Two deaths of the helper
in `TunLinux` and `TunWindows` let it die again during the cleanup; one server of each
family has the order of its own route and the capture.

In `Settings`, a caller, a tool and a reconnect are the three that can meet; the two
documents have the same server under another identity and in another place;
`Modulus` 2 tells a change from none. `Claimed` (a CONSTRAINT) ends the exploration
where both invariants have lost their premise. In `Updater`, two installs are enough to
overlap, and a release, its successor's candidate and the successor have every order of
versions, one archive lacking an executable. In `TelegramProxy`, one active domain and two
others race with a late second winner; `Throttling` bounds who answers 429,
`GlobalParallel` 1 makes attempts wait for a slot; `MaxRuns` 2 is one restart, which `RestartChanges` (a CONSTRAINT)
makes one with another transport; without it the run has 552 k states and no other result. With one
connection, what two share is the list, the cool-downs and the slots: their changes by
others are `Refresh` and `CooldownEnds`; slots taken by another connection are not seen. In
`Traffic`, two slots for meters are the running one and one cancelled before; three bytes
are one counted, one on its way, one to come; two days have one midnight; `Claimed` ends the
exploration where `CountedOnce` says nothing any more.

**Fairness.** `Controller` assumes strong fairness of each thread's steps: the Go
runtime runs what can run, and a mutex reaches everyone who waits for it. Nothing
is assumed of calls, networks, the core or the result of a probe. In `HelperLink`,
the same for the client, and weak fairness of the server of each socket; the helper
may be dead for good. In `TunLinux`, a call that runs goes on, and the helper is
started again, which `packaging/systemd/sa05-helper.service:9` says (`Restart=on-failure`):
with it the refinement is that of `RecoveringSpec`, in which a stale policy goes away.
For the Windows service nothing of the kind is assumed. In `TelegramProxy`, weak fairness of
each connection's and each attempt's goroutine: every dial, read and write there
has a deadline. An established relay goes on as long as Telegram likes, unless its
run is cancelled.

**Conditions in the properties.** `NoOrphanedProgress` is stated for readable
settings: when `store.Load` fails after the watcher has published RECOVERING,
the code returns and leaves it (`network.go:242`). `ConnectedTracksCore` and
`ConnectedIsSupervised` are stated without a watcher, whose late verdict is
a finding. `BrokenCoreSurfaces` assumes `PromptCount`: a
monitor's first tick, five seconds after its start, comes after the one
assignment with which the goroutine that started it writes the counter. In
`SysProxy`, the properties hold without certain mishaps: `OffMeansOriginal`,
`ProxyGoesWithCore` and half of `WayBackIsKept` without those of `Lossy` (calls that
overlap, a death in Enable before the way back is on disk, a snapshot that replaces another,
one that is not what was there, writes of Enable that are not all undone), each of which
loses the configuration (section 4). They claim that nothing else does. `NeverMixed` speaks of
backends that undo failures (WinINET does not), and of sessions that used no proxy.
`RoutingGoesWithCore` excepts in the same way a `disableTun` that could not read the
settings, and attempts given up at their deadline. `NothingLeaks` allows one failed
WebSocket per connection to Telegram.
`ResolverRestored` excepts files cut short while they were written.
`NothingLost` is about updates that do not overlap (`overlapped`), `ShownIsRunning` about
one caller and reconnects that do not outlive a Disconnect (`late`), `InstalledIsInPlace`
about an install that ran by itself (`alone`), `CountedOnce` about flushes whose reading
was still good when they took the lock (`behind`).

## 4. Findings

With a run: `intent_disconnect`. A monitor cancelled in the middle of its tick still
reconnects after Disconnect has returned, while `state.go:91` says that Requested tells
what the user wants.

With a configuration of its own:

* `MCController_usable`: the watcher publishes CONNECTED on a probe made before a
  Disconnect, and nothing corrects it: CONNECTED, no core, port 0. A traffic
  toggle then fails, where `app.go:437` says that it starts the core.
* The system proxy is "snapshotted and persisted before anything changes", and turning it
  off gives the settings back "even after a crash" (`internal/app/sysproxy.go:14`). Not
  so in four cases:
  `MCSysProxy_crash`, the desktop is changed before the snapshot is on disk, and the process
  dies in between;
  `MCSysProxy_recovery`, a recovery of the network enables the proxy again
  (`network.go:262`) and stores SA05's own settings as the original;
  `MCSysProxy_misread`, KDE without `kreadconfig` takes an empty snapshot, a read error
  becomes an empty value (`sysproxy_linux.go:179`), and Disable reports success;
  `MCSysProxy_halfway`, WinINET keeps the keys written before one that fails
  (`sysproxy_windows.go:58`).
* `MCSysProxy_unread`: `disableSystemProxy` returns when the settings cannot be loaded or
  were saved for another desktop (`sysproxy.go:55`, `:60`), Disconnect logs it and stops the
  core, and the desktop points at a dead port; `app.go:335` says that the system proxy goes
  with the core.
* `MCHelperLink_unread`: in the same way `disableTun` returns before TunDown when
  `store.Load` fails (`tun.go:74`), and the core is stopped with the tunnel up; the comment at
  `tun.go:71` says that routing must never outlive the core.
* `MCHelperLink_timeout`: a TunUp that runs into its deadline is forgotten by the client
  and done by the helper; Disconnect does not undo it (`tun.go:71`), even where the settings
  can be read.
* `MCTunLinux_killswitch`: the cleanup of a restarted helper lifts the kill-switch
  (`internal/tun/tun.go:68`).
* `MCTunWindows_cleanup`: so does `CleanupStale` on Windows. Its comment
  (`tun_windows.go:171`) says the block is kept, but it deletes by destination
  and mask, which the block shares with the capture (`tun_windows.go:379`).
* `MCUpdater_atomic`: `version.go:5` says that the running binary is replaced atomically. On
  Windows a failure or a death between the two renames leaves no client under its name:
  nothing starts until somebody renames the `.old` file, and no code of the client can do it.

Seen in the models without either:

* Controller and switches: enable racing Disconnect leaves
  the proxy on a stopped core (no lock in `sysproxy.go`; two callers in `SysProxy`
  reach it), and likewise the routing in the tunnel (`enableTun` checks the status before
  its call). The attempt counter is reset by Connect only, so a tunnel that survived two
  route changes weeks apart is abandoned at the third. On a GNOME session that already uses a manual proxy each address
  takes effect as it is written. A client that finds an answer of an earlier call takes
  it (`AnswersMatch` bounds when that can be). Rules for the local networks survive
  `CleanupStale` until the next Down.
* Settings: `ParseProfiles` names a profile without a name after its place in the
  document ("Профиль 3", `subscription.go:194`), and its identity is a hash of its JSON,
  so a document that lists the same unnamed profile twice has two servers of one
  identity, and a refresh can select the other (the hypothesis `NoUnnamedTwins` of
  section 5). Two updates of one process overlap as easily as those of two, because
  `Update` holds the store's lock for the load and for the save only. An import merges with
  the subscription it read before the request, which undoes a selection made meanwhile.
  A `TelegramLink` that races `SetTelegramTransport` may lose the secret it has just shown.
  `Publish` takes no lock, so next to a reconnect the window names a profile the core does
  not run.
* Traffic: a reconnect loses what was carried since the last flush, up to a minute;
  a failed save loses its delta, because the base has moved. A flush that waits for
  the lock with an old reading takes it for a regression and counts the session again.
  A meter cancelled in the middle of a tick still writes its rate into the
  snapshot that Disconnect has cleared (`traffic.go:63`, which `:109` says does not happen).
* Updater: a failure or a death between the two executables leaves two versions, and
  the next check compares only the client's; an older install that ends last wins over a
  newer one beside it. On Windows a second install without a restart fails, because the
  file to clear is the running image. Candidates are compared as strings (`rc10` before `rc9`), which the feed's latest release
  never is.
* Telegram: nobody fills `DCOverrides`, so the transport `ws` is plain TCP, and `cf` falls
  back to TCP as `auto` does, where `tgws/config.go:29` describes three of them. An accept
  error that is no timeout ends the loop with the proxy shown as running
  (`proxy.go:2757`). `RawWebSocket.Close` does nothing when a read or a write has failed
  before (`proxy.go:1337`), so that the connection is open until the collector finds it;
  `NothingLeaks` says how many of these there can be. `Stop` waits three seconds for the port and no longer, where
  `api.go:145` promises it is free. A failed save in `enableTelegram` or
  `disableTelegram` (`app/telegram.go:56`, `:71`) leaves the switch and the proxy apart.

## 5. Proofs

Each proof module states an inductive invariant (`IInv`; `Safe` and `Tracking` for
`Controller`; `ProxyTyped`, `Lone`, `Remembered`, `Pure` and `Recovers` for `SysProxy`),
proves that `Init` establishes it and that every action keeps it, one step per action
and under it one per part the action can disturb, and derives the properties the runs
check. TLC has checked each of these invariants on an instance before. Every safety
property that a passing run checks is the subject of a theorem.

| Module | Theorems of the runs' properties | Hypotheses besides the module's ASSUME |
|---|---|---|
| `Controller_proofs` | `TypeOK`, `DisconnectedMeansStopped`, `OneLiveMonitor`, `NoOrphanedProgress`, `ConnectedTracksCore`, `ConnectedIsSupervised` | |
| `TunWindows_proofs` | `TypeOK`, `BypassBeforeCapture`, `BlockIsAsked`, `ImplementsService` | |
| `TunLinux_proofs` | `TypeOK`, `NoLeakOnDeath`, `ResolverRestored`; `Service!Spec`, the safety part of `ImplementsService` | |
| `Updater_proofs` | `TypeOK`, `InstalledIsInPlace`, `ClientIsKept` | `Ascending` for the last |
| `TelegramProxy_proofs` | `TypeOK`, `NothingLeaks`, `PathAllowed`; besides, `EndedLeavesNothing` and `RaceIsNarrow` | |
| `Settings_proofs` | `TypeOK`, `NothingLost`, `ShownIsRunning`, `RefreshKeepsServer` | `OneCaller`, `NoUnnamedTwins` for the last two |
| `HelperLink_proofs` | `TypeOK`, `AnswersMatch`, `RoutingGoesWithCore`; besides, `Tunnel!Spec`, the service behind the protocol | `OneCaller` for `RoutingGoesWithCore` |
| `Session_proofs`, `Traffic` | `TypeOK`, `CountedOnce` | |
| `Session_proofs`, `SysProxy` | `ProxyTypeOK`, `NeverMixed`, `OffMeansOriginal`, `WayBackIsKept`, `ProxyGoesWithCore` | |

The hypotheses are what the code needs, and the instances of the runs satisfy them:

* `Ascending`: a newer version has a later place in the feed. The places only number the
  releases, and `PrecedenceIsAnOrder` (`NewerThan` is a strict total order) says that any
  set of releases can be listed so.
* `OneCaller`: the window, the tray and the links one after the other. With two at a
  time `RoutingGoesWithCore` and `ShownIsRunning` do not hold (section 4: enable races
  Disconnect, `Publish` takes no lock).
* `NoUnnamedTwins`: no document lists the same profile without a name twice (section 4).

The theorems about `SysProxy` have no such hypothesis: what has to go wrong first is
in the properties, as a mishap of the behaviour.

The assumptions on constants are those of the modules: disjoint sets of goroutines, a
value that is none of theirs, bounds that are natural numbers. `TunWindows` also takes
a server for something else than a half of the address space; `Traffic` and
`HelperLink` take the goroutines of the meter and the sockets for finitely many.

### Controller

* `TypeCorrect`: `Spec => []TypeOK`, action by action.
* `SafeInvariant`: the inductive invariant `Safe`, of three parts. `Mutex`: a thread
  inside the critical section is the one `connectMu` names. `Stopped`:
  DISCONNECTED means no core and no port; a thread that may still start a core
  has replaced DISCONNECTED before; a thread about to clear the snapshot has stopped
  the core. `Supervision`: every monitor in its loop that is not cancelled is the
  current one, between stopMonitor and startMonitor there is none, and only monitors
  in their loop are cancelled. None of the two properties is inductive alone:
  Disconnect's publication is right only because of what Connect has and has not
  done, which is only known through the mutex. `OutsideSafe` is the lemma for
  every step outside the critical section.
* `StoppedWhenDisconnected`, `AtMostOneMonitor`: the two properties, from `Safe`.
* `ProgressIsOwed`: `NoOrphanedProgress` is inductive relative to `TypeOK`;
  `ProgressKept` is the lemma for steps that leave the owing thread alone.
* `TrackingInvariant`: without a watcher, what the thread inside Connect has
  stopped, started and published so far; `ConnectedHasItsCore` and `ConnectedHasItsMonitor`
  follow.

### The tunnels

That no server is captured (`BypassBeforeCapture`) rests on `HostsFirst`: what Up has
planned and added so far contains every host route before the first half, and Down
removes the last addition first. `OwnsItsRoutes` ties the table to what a living helper
remembers; a dead one remembers nothing, and Windows has dropped what its device
carried. `TearingDown` says which kill-switch the current step belongs to: a block is
laid only by a Down, never by an Up that fails, hence `BlockIsAsked`.

On Linux, `Guarded` (a rule exists only with its blackhole, if the kill-switch is on) is
what makes `NoLeakOnDeath` true in the middle of a call; it needs the order of both
directions (`BringingUp`, `Undone`). `ResolverKept` follows the user's `resolv.conf` from
the file to the backup and back, with `Remembered` for whether the helper knows.

`Refines`, in both modules, takes every step of the kernel to a step of `TunnelService`
or to a stutter: the capture of a call that ends is what was asked for (`Settled`), a
death leaves `stale`, a cleanup that ends leaves `none`. The proof for Linux is of
`Service!Spec`; that a stale policy goes away under `Restart=on-failure` is liveness.

### Updater

`NotOlder` (the client on the disk is the one that runs or a newer one) is inductive
only with `Genuine`: whatever a call installs or the window has pending is newer than
the running client, whose version is compared each time. `Recoverable` and `Running`
are the Windows part: where there is no client, the one that ran last (`Ran`) lies aside,
and the running image is never the one removed; `Startable` bounds when there is none. That
an executable is complete rests on `Verify` and on Unpack ending without an error.
`InPlace` follows one install that runs alone.

### Telegram proxy

`NothingLeaks` needs to know who owns an open connection: `Shape` relates, for each
client, the step of its handler, the domains it has still to hear of, the state of each
attempt and of each connection. It speaks of one client only, so a step of a client
needs a proof for that client and a frame for the others. `SlotsHeld` is the
semaphore: its count is the number of attempts inside. `PathAllowed` is about the
switch all runs share: the switch is that of the last run (`SwitchOfLast`), only the last
can be live (`OneLiveRun`), and an attempt of an older run never gets past its cancelled
context.

The other half of `NothingLeaks`, `FailedIsTheChosen`, is an invariant of its own
(`Left`): a socket fails only where its handler has stopped looking for another way, and
a handler that looks has none that failed.

Two more theorems follow from the same invariants. `EndedLeavesNothing`: a connection whose
goroutines have all returned has no attempt left and one socket at most that is not
closed or being closed, a WebSocket on which something has failed; when that holds for
all, every slot of `cfproxyAttemptSem` is free again, which is the safety half of
`HandlersEnd`. `RaceIsNarrow`: whatever the number of domains, no race has more than
`cfproxyFallbackParallel` of its goroutines past their semaphore; what has to be shown is
that no step but `EnterRace` lets one in, neither when the handler goes on to the race or
returns nor when the goroutine that stayed has heard of the last attempt.

### Settings

`Alone`: while no two updates overlap, one thread at most is between load and save, and
what it will save is the file with its own change. `Showing`: whoever holds `connectMu`
shows what he starts. `RefreshStays` is an action property; its lemma is that
`carryActiveProfile` finds the least position with the name it looks for (`LeastIndex`).

### Helper protocol

`AnswersMatch` needs the whole content of the client's socket: `Answers` says that, as
long as a death and a deadline have not come together, it holds the request, or the
answer, or nothing, of the call in progress, and nothing between calls. The reason is in
`Unbroken` (without a death the only failed attempts are expired ones, and they leave no
time for a retry) and `Ends` (a socket the client has left never gets back to it).
`Told` and `Known` carry the state of the tunnel to the caller: an answer says how the
tunnel stands, and behind a socket that broke no tunnel works any more. Both are about
attempts that were not given up (`gaveUp`); after a `disableTun` that could not read the
settings (`unread`) the toggle on disk is what still knows of the tunnel.

`RoutingIsService` closes the composition: the routing under `HelperLink` is a behaviour
of `TunnelService`, whatever the clients send, repeat and abandon. `TunLinux_proofs` and
`TunWindows_proofs` show the same of each tunnel.

### Traffic

`CountedOnce` is a balance over all flushes at once, so its proof needs sums over a
finite set (`SumsExist`, `SumsSolve`, `SumsChange`: the fold of the community modules
has a value for every finite set, and changes by what one member changes).
`GoodReadings` and `OneSave` say why no flush counts twice while nobody is late;
`TailIsNew` bounds what Disconnect has not folded when it stops the core.

### System proxy

`Lone` says that without an overlap one call at most is under way: `New` has returned
before the first. `Remembered` orders the switch and the snapshot: shown after it is stored,
hidden before it is forgotten. `Pure` is why a session without a proxy never sees half of
SA05's: the mode is written last on the way in, after all addresses, and first on the way
out, where GNOME and KDE write it a second time with the other keys and so make up for a
first write that failed; a rollback (`RollsBack`) starts with the mode as well. It needs
calls that do not overlap, a right snapshot and one failing write per call (`Confusing`).
`Recovers` is the invariant of the other three: without the mishaps of `Lossy` what is
remembered, and what a call would write back, is the original, a restoration has put back
the keys it has passed unless it has failed, and what Enable has written is what its rollback
will put back. Each action either keeps that or adds the mishap that excuses it, so the proof
is the argument that the list is complete.

### What the proofs changed

* The type invariant of `Traffic` was false: `lost` goes below zero once a late flush has
  counted a session again. The run had not seen it because `Claimed` ends the exploration
  there. It is an integer now, and the theorem covers those states.
* `Path` in `TunLinux` was a CASE with overlapping guards, whose value TLA+ leaves open; it
  is a nested IF, in the kernel's order of preference.
* `Unpack` in `Updater` has the entries an archive is searched for in an operator (`Found`).
* `SysProxy` assumes that a nil snapshot and that of another desktop are no snapshots of
  this one (`NoSnapshot`, `Another`), which TLC had by comparing a model value with functions; `Values` names what
  a key may hold.
* `NoUnnamedTwins`, which the documents of `MCSettings` satisfy, came out of the
  proof of `RefreshKeepsServer`.

### Model-checked only

* Liveness: `CallsReturn`, `DeadCoreNoticed`, `BrokenCoreSurfaces`, `ProgressSettles`,
  `HandlersEnd`, and the recovery in `ImplementsService` on Linux. The prover has no rule for
  fairness, and ENABLED is out of its reach.
* The library's theorems on induction take an operator as a parameter, which these
  provers cannot instantiate. Where a proof needs induction over a finite set, it goes
  through a least counterexample (`Least` in `Session_proofs`, `LeastIndex` in
  `Settings_proofs`).

## 6. Not modelled

Reasons are in `PROJECT.json`. The rewriting of the Xray configuration, the parsing of
subscriptions and the formatting of diagnostics are transformations of data
without state. The window, the tray and the CLI appear as callers. Autostart,
IP information, the log archive, notifications and downloads are pure I/O. Of the
Telegram proxy, the codecs (FakeTLS, the splitter of messages, frames) are data, and the
direct WebSocket with its pool is never reached.

## 7. Plan

In order of importance; each step adds its mutants and map.

1. `StateStore` (versions, listeners called outside the lock) with an abstract register:
   no listener ends on an old version.
2. A composition of `Controller`, `SysProxy` and `HelperLink` for the
   re-application of the toggles after a reconnect, and the death of the client.
