----------------------------- MODULE TunWindows -----------------------------
(***************************************************************************)
(* The tunnel on Windows: what Tunnel.Up, Tunnel.Down, the end of the       *)
(* service and CleanupStale do to the routing table, one route at a time.   *)
(* A routing mark does not exist there: the addresses of the servers get    *)
(* routes of their own through the old gateway, and the kill-switch is a    *)
(* pair of persistent routes that have the destinations of the capture.     *)
(*                                                                         *)
(* route.exe deletes by destination and mask, so a destination has at most  *)
(* one route of SA05's: the table is a function.                            *)
(***************************************************************************)
EXTENDS Naturals

CONSTANTS Servers,  \* names of servers, each with an address of either family
          Crashes   \* bound: times the helper may die or be stopped

\* Half of the address space is no server's address.
ASSUME TunWindowsAssumption == Crashes \in Nat /\ Servers \cap {"low", "high"} = {}

Families == {"v4", "v6"}
Hosts == Families \X Servers

\* plannedSplitV4 and plannedSplitV6: two halves that win over a default route.
Split(f) == {f} \X {"low", "high"}
Halves == Split("v4") \cup Split("v6")
Prefixes == Hosts \cup Halves

\* What normalizedBypassIPs and resolveBypassIPs make of the servers: a set of
\* addresses, without those of the names that do not resolve.
Bypasses == SUBSET Hosts

\* Config: v6 is captured unless AllowIPv6Bypass.
Configs == [captured : {{"v4"}, Families}, killSwitch : BOOLEAN, bypass : Bypasses]
NoConfig == [captured |-> Families, killSwitch |-> FALSE, bypass |-> {}]

VARIABLES pc,      \* what Up, Down or the service does next
          goal,    \* how the call goes on: up, down or stop
          kill,    \* Down: the kill-switch of the configuration it found
          request, \* the configuration Up was called with
          todo,    \* routes still to be added
          added,   \* v4Routes, v6Routes, hostRoutes and hostV6 in one
          up, config, dnsSet, \* fields of Tunnel
          table,   \* the machine's routes of SA05's
          device,  \* the adapter: none, ours, or left by a helper that died
          bypass,  \* history: the host routes the capture relies on
          before,  \* history: Routing when the current call began
          block,   \* history: the last call was a Down under the kill-switch
          blocked, \* history: what that Down put into the table
          crashes  \* how often the helper has died

call    == <<goal, kill, request>>
memory  == <<added, up, config, dnsSet>>
system  == <<table, device>>
history == <<bypass, before, block, blocked, crashes>>
vars == <<pc, call, todo, memory, system, history>>

TypeOK ==
  /\ pc \in {"idle", "undo", "unblock", "open", "configure", "routes", "block", "dead"}
  /\ goal \in {"up", "down", "stop"}
  /\ kill \in BOOLEAN /\ up \in BOOLEAN /\ dnsSet \in BOOLEAN
  /\ request \in Configs /\ config \in Configs
  /\ todo \subseteq Prefixes /\ added \subseteq Prefixes
  /\ table \in [Prefixes -> {"none", "tunnel", "gateway", "sink"}]
  /\ device \in {"none", "ours", "left"}
  /\ bypass \subseteq Hosts
  /\ before \in {"none", "tunnel"}
  /\ block \in BOOLEAN /\ blocked \subseteq Halves
  /\ crashes \in 0..Crashes

Sinks == {p \in Prefixes : table[p] = "sink"}
Drop(t, ps) == [p \in Prefixes |-> IF p \in ps THEN "none" ELSE t[p]]
\* Routes through an adapter go with it.
Unplug(t) == Drop(t, {p \in Prefixes : t[p] = "tunnel"})

Captured ==
  /\ device = "ours"
  /\ \A p \in Halves : table[p] = IF p[1] \in config.captured THEN "tunnel" ELSE "none"
Clean == \A p \in Halves : table[p] # "tunnel"

Init ==
  /\ pc = "idle" /\ goal = "down" /\ kill = FALSE /\ request = NoConfig
  /\ todo = {} /\ added = {} /\ up = FALSE /\ config = NoConfig /\ dnsSet = FALSE
  /\ table = [p \in Prefixes |-> "none"] /\ device = "none"
  /\ bypass = {} /\ before = "none" /\ block = FALSE /\ blocked = {} /\ crashes = 0

Alive == pc # "dead"
Routing ==
  CASE ~Alive                                   -> "stale"
    [] Alive /\ pc # "idle"                     -> before
    [] Alive /\ pc = "idle" /\ up /\ Captured   -> "tunnel"
    [] Alive /\ pc = "idle" /\ ~up /\ Clean     -> "none"
    [] OTHER                                    -> "mixed"

Service == INSTANCE TunnelService WITH alive <- Alive, routing <- Routing
-----------------------------------------------------------------------------
(* Calls, and downLocked, which all of them begin with or end in.           *)

\* A port out of range is refused before anything changes.
CallUp ==
  /\ pc = "idle"
  /\ pc' = "undo" /\ goal' = "up" /\ kill' = FALSE
  /\ request' \in Configs
  /\ before' = Routing /\ block' = FALSE /\ blocked' = {}
  /\ UNCHANGED <<todo, memory, system, bypass, crashes>>

\* The client's TunDown, or the end of the service.
CallDown ==
  /\ pc = "idle"
  /\ pc' = "undo" /\ kill' = config.killSwitch
  /\ \/ goal' = "down" /\ UNCHANGED crashes
     \/ goal' = "stop" /\ crashes < Crashes /\ crashes' = crashes + 1
  /\ before' = Routing /\ block' = config.killSwitch /\ blocked' = {}
  /\ UNCHANGED <<request, todo, memory, system, bypass>>

\* Mutant: in the order in which they were added.
LastAddedFirst == {p \in added : p \in Hosts \/ added \cap Hosts = {}}

\* The reverse of the order in which they were added.
LastAdded == {p \in added : p \in Halves \/ added \cap Halves = {}}

RemoveRoute ==
  /\ pc = "undo"
  /\ \E p \in LastAdded :
       /\ table' = Drop(table, {p})
       /\ added' = added \ {p}
  /\ UNCHANGED <<pc, call, todo, up, config, dnsSet, device, history>>

CloseDevice ==
  /\ pc = "undo" /\ added = {}
  /\ IF device = "ours" THEN device' = "none" /\ table' = Unplug(table)
                       ELSE UNCHANGED system
  /\ dnsSet' = FALSE
  /\ pc' = "unblock"
  /\ UNCHANGED <<call, todo, added, up, config, history>>

\* Mutant: downLocked leaves the block, whatever the configuration.
UnblockForUp ==
  /\ pc = "unblock"
  /\ table' = IF goal = "up" THEN Drop(table, Halves) ELSE table
  /\ up' = FALSE /\ config' = NoConfig
  /\ pc' = CASE goal = "up"          -> "open"
             [] goal # "up" /\ kill  -> "block"
             [] goal = "down" /\ ~kill -> "idle"
             [] goal = "stop" /\ ~kill -> "dead"
  /\ UNCHANGED <<call, todo, added, dnsSet, device, history>>

\* downLocked lifts the block unless the configuration it tears down has the
\* kill-switch; Up lifts it in any case.
Unblock ==
  /\ pc = "unblock"
  /\ table' = IF goal = "up" \/ ~config.killSwitch THEN Drop(table, Halves) ELSE table
  /\ up' = FALSE /\ config' = NoConfig
  /\ pc' = CASE goal = "up"          -> "open"
             [] goal # "up" /\ kill  -> "block"
             [] goal = "down" /\ ~kill -> "idle"
             [] goal = "stop" /\ ~kill -> "dead"
  /\ UNCHANGED <<call, todo, added, dnsSet, device, history>>

\* installKillSwitchRoutes deletes, then adds, and drops the errors; a v6 route
\* is added to an adapter that has been closed.
Block ==
  /\ pc = "block"
  /\ blocked' \in SUBSET (Split("v4") \cup IF device # "none" THEN Split("v6") ELSE {})
  /\ table' = [p \in Prefixes |->
                 IF p \in blocked' THEN "sink" ELSE IF p \in Halves THEN "none" ELSE table[p]]
  /\ pc' = IF goal = "stop" THEN "dead" ELSE "idle"
  /\ UNCHANGED <<call, todo, memory, device, bypass, before, block, crashes>>
-----------------------------------------------------------------------------
(* Up, once the old policy is gone.                                        *)

Fail == pc' = "undo" /\ goal' = "down" /\ UNCHANGED <<kill, request>>

Open ==
  /\ pc = "open"
  /\ device' = "ours" /\ pc' = "configure"
  /\ UNCHANGED <<call, todo, memory, table, history>>

\* No device, no network stack on it, or no interface of its name in time.
OpenFails ==
  /\ pc = "open"
  /\ device' \in {device, "ours"}
  /\ Fail
  /\ UNCHANGED <<todo, memory, table, history>>

\* The families with a default route.  There is no tunnel without one for v4,
\* and the one for v6 is only asked for when v6 is captured.
Gateways == {{"v4"}, {"v4"} \cup request.captured}

\* Servers of a family without a default route are left out.
Reachable(gateways) == {h \in request.bypass : h[1] \in gateways}

Configure ==
  /\ pc = "configure"
  /\ \E gateways \in Gateways :
       /\ bypass' = Reachable(gateways)
       /\ todo' = Reachable(gateways) \cup UNION {Split(f) : f \in request.captured}
  /\ pc' = "routes"
  /\ UNCHANGED <<call, memory, system, before, block, blocked, crashes>>

\* No default route, or the address, the MTU or the metric is refused.
ConfigureFails ==
  /\ pc = "configure"
  /\ Fail
  /\ UNCHANGED <<todo, memory, system, history>>

\* Host routes come before the capture, v4 before v6.
FirstToAdd ==
  LET hosts == todo \cap Hosts
      v4    == todo \cap Split("v4")
  IN  IF hosts # {} THEN hosts ELSE IF v4 # {} THEN v4 ELSE todo

AddRoute ==
  /\ pc = "routes"
  /\ \E p \in FirstToAdd :
       /\ table' = [table EXCEPT ![p] = IF p \in Hosts THEN "gateway" ELSE "tunnel"]
       /\ added' = added \cup {p} /\ todo' = todo \ {p}
  /\ UNCHANGED <<pc, call, up, config, dnsSet, device, history>>

\* Mutant: the error is returned as it is.
AddFailsOnly ==
  /\ pc = "routes"
  /\ \E p \in FirstToAdd : table' = Drop(table, {p})
  /\ pc' = "idle" /\ goal' = "down" /\ todo' = {}
  /\ UNCHANGED <<kill, request, memory, device, history>>

\* Whatever was at the destination has been deleted.
AddFails ==
  /\ pc = "routes"
  /\ \E p \in FirstToAdd : table' = Drop(table, {p})
  /\ todo' = {}
  /\ Fail
  /\ UNCHANGED <<memory, device, history>>

\* DNS is best-effort.
Finish ==
  /\ pc = "routes" /\ todo = {}
  /\ dnsSet' \in BOOLEAN
  /\ config' = request /\ up' = TRUE
  /\ pc' = "idle"
  /\ UNCHANGED <<call, todo, added, system, history>>
-----------------------------------------------------------------------------
(* The process.                                                            *)

\* Host routes and persistent routes stay; the adapter and the routes through
\* it may.
Crash ==
  /\ Alive /\ crashes < Crashes
  /\ pc' = "dead" /\ goal' = "down" /\ todo' = {}
  /\ added' = {} /\ up' = FALSE /\ config' = NoConfig /\ dnsSet' = FALSE
  /\ \/ device' = "none" /\ table' = Unplug(table)
     \/ device' = (IF device = "none" THEN "none" ELSE "left") /\ UNCHANGED table
  /\ crashes' = crashes + 1
  /\ UNCHANGED <<kill, request, bypass, before, block, blocked>>

\* Mutant: the new helper listens without having looked.
RestartBlind ==
  /\ pc = "dead"
  /\ pc' = "idle" /\ goal' = "down"
  /\ UNCHANGED <<kill, request, todo, memory, system, history>>

\* CleanupStale: both halves of v4, and those of v6 that are the adapter's,
\* whatever they lead to.
Restart ==
  /\ pc = "dead"
  /\ table' = Drop(table, Halves)
  /\ pc' = "idle" /\ goal' = "down"
  /\ UNCHANGED <<kill, request, todo, memory, device, history>>

TearDown == RemoveRoute \/ CloseDevice \/ Unblock \/ Block
BringUp  == Open \/ OpenFails \/ Configure \/ ConfigureFails
              \/ AddRoute \/ AddFails \/ Finish

Next == CallUp \/ CallDown \/ TearDown \/ BringUp \/ Crash \/ Restart

Spec == Init /\ [][Next]_vars
-----------------------------------------------------------------------------
\* No route captures traffic while a route to a server is missing: neither Up,
\* in the order it adds, nor downLocked, in the order it removes, nor a death
\* between any two of their steps sends the core's own connection into the
\* tunnel it carries.
BypassBeforeCapture ==
  (\E p \in Halves : table[p] = "tunnel") => \A h \in bypass : table[h] = "gateway"

\* The machine is cut off only on purpose: whenever no call runs, a persistent
\* route is what a Down under the kill-switch left, and no call came after it,
\* whichever of them failed or died.
BlockIsAsked == pc = "idle" /\ Sinks # {} => block /\ ~up

\* The routing table follows the abstract service: a call that succeeds
\* captures exactly the families that were asked for, any other leaves no
\* capture, and a helper that listens has removed its predecessor's.
ImplementsService == Service!Spec

\* CleanupStale: "the kill-switch block is kept (it is the documented
\* fail-closed state)": what Down has put into the table is there until the
\* next call.
BlockIsKept == pc # "dead" /\ pc # "block" => \A p \in blocked : table[p] = "sink"
=============================================================================
