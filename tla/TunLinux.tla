------------------------------ MODULE TunLinux ------------------------------
(***************************************************************************)
(* The tunnel on Linux: what Tunnel.Up, Tunnel.Down and CleanupStale of     *)
(* internal/tun do to the kernel's rules and routes and to resolv.conf, one *)
(* change at a time.  Any step of Up may fail, and the helper may die       *)
(* between any two.                                                         *)
(*                                                                         *)
(* Traffic carries one of three destinations: a local network (v4 only), or *)
(* the rest of the Internet over v4 or v6.  Traffic with the client's mark  *)
(* always goes direct and is left out.                                      *)
(***************************************************************************)
EXTENDS Naturals, Sequences

CONSTANT Crashes  \* bound: times the helper may die

ASSUME TunLinuxAssumption == Crashes \in Nat

Families == {"v4", "v6"}
Destinations == Families \cup {"lan"}

\* Config: v6 is captured unless AllowIPv6Bypass.
Configs == [captured : {{"v4"}, Families}, killSwitch : BOOLEAN]

Contents == {"none", "empty", "original", "tunnel"}

VARIABLES pc,         \* what Up, Down or CleanupStale does next
          goal,       \* why it undoes the policy: up, down or start
          request,    \* the configuration Up was called with
          todo,       \* the routes or the rules still to be added
          up,         \* Tunnel.up
          dnsMode,    \* Tunnel.dnsMode
          rules,      \* policy rules: lan to the main table, the rest to ours
          routes,     \* table TableID
          link,       \* the device exists
          resolvConf, \* contents of /etc/resolv.conf
          backup,     \* contents of resolvConfBackupPath
          config,     \* history: the configuration the policy was made from
          before,     \* history: Routing when the current call began
          blocking,   \* history: families under a kill-switch nobody has lifted
          damaged,    \* history: a file was cut short while it was written
          crashes     \* how often the helper has died

memory  == <<request, todo, up, dnsMode>>
policy  == <<rules, routes, link>>
files   == <<resolvConf, backup>>
history == <<config, before, blocking, damaged, crashes>>
vars == <<pc, goal, request, todo, up, dnsMode, rules, routes, link, resolvConf,
          backup, config, before, blocking, damaged, crashes>>

Steps == {"idle", "rules_off", "table_off", "dns_off", "restore", "device_off",
          "open", "routes", "rules", "dns", "backup", "overwrite", "fill", "dead"}

\* Mutant: the blackhole is forgotten for v6.
PlannedRoutesV4Blackhole(c) ==
  <<<<"tunnel", "v4">>>>
    \o (IF "v6" \in c.captured THEN <<<<"tunnel", "v6">>>> ELSE <<>>)
    \o (IF c.killSwitch THEN <<<<"blackhole", "v4">>>> ELSE <<>>)

\* A blackhole of a worse metric behind each route through the device.
PlannedRoutes(c) ==
  <<<<"tunnel", "v4">>>>
    \o (IF "v6" \in c.captured THEN <<<<"tunnel", "v6">>>> ELSE <<>>)
    \o (IF c.killSwitch THEN <<<<"blackhole", "v4">>, <<"blackhole", "v6">>>> ELSE <<>>)

\* The exceptions for the local networks come first.
PlannedRules(c) ==
  <<"lan", "v4">> \o (IF "v6" \in c.captured THEN <<"v6">> ELSE <<>>)

AllRoutes == {"tunnel", "blackhole"} \X Families

TypeOK ==
  /\ pc \in Steps /\ goal \in {"up", "down", "start"}
  /\ request \in Configs /\ config \in Configs
  /\ todo \in Seq(AllRoutes \cup Destinations)
  /\ up \in BOOLEAN /\ link \in BOOLEAN
  /\ dnsMode \in {"", "resolvectl", "resolv.conf"}
  /\ rules \subseteq Destinations
  /\ routes \subseteq AllRoutes
  /\ resolvConf \in Contents \ {"none"} /\ backup \in Contents
  /\ before \in {"none", "tunnel", "stale", "mixed"}
  /\ blocking \subseteq Families
  /\ damaged \in BOOLEAN
  /\ crashes \in 0..Crashes

\* Where the kernel sends traffic: past rules that do not match it to the main
\* table, and on to the main table when ours has no route for it.
Steered(d) == IF d = "lan" THEN "v4" \in rules /\ "lan" \notin rules ELSE d \in rules
Family(d)  == IF d = "lan" THEN "v4" ELSE d
Path(d) ==
  IF ~Steered(d)                               THEN "direct"
  ELSE IF <<"tunnel", Family(d)>> \in routes    THEN "tunnel"
  ELSE IF <<"blackhole", Family(d)>> \in routes THEN "blocked" ELSE "direct"

Captured ==
  /\ link
  /\ \A d \in Destinations :
       Path(d) = IF d \in config.captured THEN "tunnel" ELSE "direct"
\* A helper that died leaves the exceptions for the local networks behind, and
\* CleanupStale does not look for them; they change nothing by themselves.
Clean == ~link /\ routes = {} /\ rules \subseteq {"lan"}

Init ==
  /\ pc = "idle" /\ goal = "down" /\ todo = <<>>
  /\ request = [captured |-> Families, killSwitch |-> FALSE]
  /\ config = request
  /\ up = FALSE /\ dnsMode = ""
  /\ rules = {} /\ routes = {} /\ link = FALSE
  /\ resolvConf = "original" /\ backup = "none"
  /\ before = "none" /\ blocking = {} /\ damaged = FALSE /\ crashes = 0

-----------------------------------------------------------------------------
(* TunnelService, seen through the state of the kernel: a call takes effect *)
(* when it ends.                                                            *)

Alive == pc # "dead" /\ goal # "start"
Routing ==
  CASE ~Alive              -> "stale"
    [] Alive /\ pc # "idle" -> before
    [] Alive /\ pc = "idle" /\ up /\ Captured -> "tunnel"
    [] Alive /\ pc = "idle" /\ ~up /\ Clean   -> "none"
    [] OTHER               -> "mixed"

Service == INSTANCE TunnelService WITH alive <- Alive, routing <- Routing

-----------------------------------------------------------------------------
(* downLocked and CleanupStale.                                            *)

Undo(why) == pc' = "rules_off" /\ goal' = why

CallUp ==
  /\ pc = "idle"
  /\ Undo("up")
  /\ request' \in Configs
  /\ before' = Routing /\ blocking' = {}
  /\ UNCHANGED <<todo, up, dnsMode, policy, files, config, damaged, crashes>>

CallDown ==
  /\ pc = "idle"
  /\ Undo("down")
  /\ before' = Routing /\ blocking' = {}
  /\ UNCHANGED <<memory, policy, files, config, damaged, crashes>>

\* CleanupStale only deletes the rules that point at the tunnel's table.
UndoRules ==
  /\ pc = "rules_off"
  /\ rules' = IF goal = "start" THEN rules \cap {"lan"} ELSE {}
  /\ pc' = "table_off"
  /\ UNCHANGED <<goal, memory, routes, link, files, history>>

\* Mutant: only the routes of the family everybody uses are flushed.
FlushTableV4 ==
  /\ pc = "table_off"
  /\ routes' = {r \in routes : r[2] = "v6"}
  /\ pc' = "dns_off"
  /\ UNCHANGED <<goal, memory, rules, link, files, history>>

FlushTable ==
  /\ pc = "table_off"
  /\ routes' = {}
  /\ pc' = "dns_off"
  /\ UNCHANGED <<goal, memory, rules, link, files, history>>

\* Mutant: the backup is taken for granted.
OwnsResolverAlways == goal = "start" \/ dnsMode = "resolv.conf"

\* revertDNS, and its counterpart in CleanupStale, which goes by the backup.
OwnsResolver == IF goal = "start" THEN backup # "none" ELSE dnsMode = "resolv.conf"

KeepResolver ==
  /\ pc = "dns_off" /\ ~OwnsResolver
  /\ pc' = "device_off" /\ dnsMode' = ""
  /\ UNCHANGED <<goal, request, todo, up, policy, files, history>>

\* os.WriteFile empties the file, then fills it.
RestoreBegin ==
  /\ pc = "dns_off" /\ OwnsResolver
  /\ resolvConf' = "empty" /\ pc' = "restore" /\ dnsMode' = ""
  /\ UNCHANGED <<goal, request, todo, up, policy, backup, history>>

RestoreEnd ==
  /\ pc = "restore"
  /\ resolvConf' = backup
  /\ backup' \in {backup, "none"}
  /\ pc' = "device_off"
  /\ UNCHANGED <<goal, memory, policy, history>>

\* The error is dropped and the backup stays.
RestoreFails ==
  /\ \/ pc = "dns_off" /\ OwnsResolver
     \/ pc = "restore"
  /\ pc' = "device_off" /\ dnsMode' = "" /\ damaged' = TRUE
  /\ UNCHANGED <<goal, request, todo, up, policy, files, config, before, blocking,
                 crashes>>

RemoveDevice ==
  /\ pc = "device_off"
  /\ link' = FALSE /\ up' = FALSE
  /\ routes' = {r \in routes : r[1] # "tunnel"}
  /\ IF goal = "up" THEN pc' = "open" /\ UNCHANGED goal
                    ELSE pc' = "idle" /\ goal' = "down"
  /\ UNCHANGED <<request, todo, dnsMode, rules, files, history>>

-----------------------------------------------------------------------------
(* Up, once the old policy is gone.                                        *)

Open ==
  /\ pc = "open"
  /\ link' = TRUE
  /\ config' = request
  /\ pc' = "routes" /\ todo' = PlannedRoutes(request)
  /\ UNCHANGED <<goal, request, up, dnsMode, rules, routes, files, before, blocking,
                 damaged, crashes>>

\* The device is not created, has no stack, or does not appear in time.
OpenFails ==
  /\ pc = "open"
  /\ link' \in BOOLEAN
  /\ Undo("down")
  /\ UNCHANGED <<memory, rules, routes, files, history>>

AddRoute ==
  /\ pc = "routes"
  /\ routes' = routes \cup {Head(todo)}
  /\ IF Tail(todo) = <<>> THEN pc' = "rules" /\ todo' = PlannedRules(request)
                          ELSE todo' = Tail(todo) /\ UNCHANGED pc
  /\ UNCHANGED <<goal, request, up, dnsMode, rules, link, files, history>>

AddRule ==
  /\ pc = "rules"
  /\ rules' = rules \cup {Head(todo)}
  /\ todo' = Tail(todo)
  /\ IF Tail(todo) = <<>> THEN pc' = "dns" /\ up' = TRUE ELSE UNCHANGED <<pc, up>>
  /\ UNCHANGED <<goal, request, dnsMode, routes, link, files, history>>

\* Mutant: the error is returned with the policy half in place.
AddFailsOnly ==
  /\ pc \in {"routes", "rules"}
  /\ pc' = "idle" /\ goal' = "down"
  /\ UNCHANGED <<memory, policy, files, history>>

\* An address, a route or a rule cannot be added.
AddFails ==
  /\ pc \in {"routes", "rules"}
  /\ Undo("down")
  /\ UNCHANGED <<memory, policy, files, history>>

\* The call ends well, whether or not the resolver could be changed.
Finish(mode) ==
  /\ pc' = "idle" /\ goal' = "down" /\ dnsMode' = mode
  /\ blocking' = IF request.killSwitch THEN request.captured ELSE {}
  /\ UNCHANGED <<request, todo, up, policy, config, before, crashes>>

Resolvectl == pc = "dns" /\ Finish("resolvectl") /\ UNCHANGED <<files, damaged>>

\* Without resolvectl, and resolv.conf is a link or cannot be read.
LeaveResolver == pc = "dns" /\ Finish("") /\ UNCHANGED <<files, damaged>>

BackupBegin ==
  /\ pc = "dns"
  /\ backup' = "empty" /\ pc' = "backup"
  /\ UNCHANGED <<goal, memory, policy, resolvConf, history>>

BackupEnd ==
  /\ pc = "backup"
  /\ backup' = resolvConf /\ pc' = "overwrite"
  /\ UNCHANGED <<goal, memory, policy, resolvConf, history>>

BackupFails ==
  /\ pc = "backup"
  /\ Finish("") /\ damaged' = TRUE
  /\ UNCHANGED files

OverwriteBegin ==
  /\ pc = "overwrite"
  /\ resolvConf' = "empty" /\ pc' = "fill"
  /\ UNCHANGED <<goal, memory, policy, backup, history>>

\* resolv.conf cannot be opened, as under the packaged unit.
OverwriteRefused == pc = "overwrite" /\ Finish("") /\ UNCHANGED <<files, damaged>>

\* Mutant: the helper does not remember what it has written.
OverwriteEndUnnoticed ==
  /\ pc = "fill"
  /\ resolvConf' = "tunnel"
  /\ Finish("") /\ UNCHANGED <<backup, damaged>>

OverwriteEnd ==
  /\ pc = "fill"
  /\ resolvConf' = "tunnel"
  /\ Finish("resolv.conf") /\ UNCHANGED <<backup, damaged>>

OverwriteFails ==
  /\ pc = "fill"
  /\ Finish("") /\ damaged' = TRUE
  /\ UNCHANGED files

-----------------------------------------------------------------------------
\* The device and the routes through it go with the process; rules, blackholes
\* and files stay.
Crash ==
  /\ pc # "dead" /\ crashes < Crashes
  /\ pc' = "dead" /\ goal' = "down" /\ todo' = <<>>
  /\ link' = FALSE /\ routes' = {r \in routes : r[1] # "tunnel"}
  /\ up' = FALSE /\ dnsMode' = ""
  /\ damaged' = (damaged \/ pc = "backup")
  /\ crashes' = crashes + 1
  /\ UNCHANGED <<request, rules, files, config, before, blocking>>

\* Mutant: the new helper listens before it has looked at the kernel.
RestartBlind ==
  /\ pc = "dead"
  /\ pc' = "idle"
  /\ UNCHANGED <<goal, memory, policy, files, history>>

Restart ==
  /\ pc = "dead"
  /\ Undo("start")
  /\ UNCHANGED <<memory, policy, files, history>>

TearDown ==
  \/ UndoRules \/ FlushTable \/ KeepResolver
  \/ RestoreBegin \/ RestoreEnd \/ RestoreFails \/ RemoveDevice

BringUp ==
  \/ Open \/ OpenFails \/ AddRoute \/ AddRule \/ AddFails
  \/ Resolvectl \/ LeaveResolver \/ BackupBegin \/ BackupEnd \/ BackupFails
  \/ OverwriteBegin \/ OverwriteRefused \/ OverwriteEnd \/ OverwriteFails

Next == CallUp \/ CallDown \/ TearDown \/ BringUp \/ Crash \/ Restart

Spec == Init /\ [][Next]_vars

\* A call that runs goes on, and systemd starts a helper that died again.
FairSpec == Spec /\ WF_vars(TearDown \/ BringUp) /\ WF_vars(Restart)
-----------------------------------------------------------------------------
\* A failure or a death anywhere in Up or Down cannot turn the kill-switch into
\* a leak: whatever traffic the rules already steer, or still steer, has a
\* tunnel or a blackhole to go to.
NoLeakOnDeath ==
  \A f \in rules \cap Families : config.killSwitch => Path(f) # "direct"

\* Whenever no tunnel is up and nothing is going on, resolv.conf is the user's
\* own again, whichever call failed and wherever the helper died, unless a
\* file was cut short.
ResolverRestored == pc = "idle" /\ ~up /\ ~damaged => resolvConf = "original"

\* The kernel follows the abstract service: a call that succeeds captures
\* exactly what was asked for, any other leaves no route, rule or device, and
\* a helper that listens has removed its predecessor's, which it does in the
\* end: "a crash cannot leave the machine unroutable".
ImplementsService == Service!RecoveringSpec

\* "A blackhole route that outlives the tunnel device, so traffic stops instead
\* of falling back to the direct route": no traffic of a family under the
\* kill-switch goes direct before somebody asks for it.
KillSwitchBlocks == \A f \in blocking : Path(f) # "direct"
=============================================================================
