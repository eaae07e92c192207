------------------------- MODULE TunWindows_proofs -------------------------
(***************************************************************************)
(* Theorems about TunWindows, for every set of servers and every number of  *)
(* deaths of the helper.                                                    *)
(***************************************************************************)
EXTENDS TunWindows, TLAPS

\* A host route leads to the old gateway, and a half of the address space to
\* the tunnel or to nowhere.
RightRoutes ==
  /\ \A h \in Hosts  : table[h] \in {"none", "gateway"}
  /\ \A p \in Halves : table[p] \in {"none", "tunnel", "sink"}

\* The memory of a helper that lives agrees with the table about the capture,
\* and it owns no host route that is gone.
OwnsItsRoutes ==
  pc # "dead" =>
    /\ \A p \in Halves : table[p] = "tunnel" <=> p \in added
    /\ \A h \in Hosts \cap added : table[h] = "gateway"

\* Whatever is captured came after the host routes, and goes before them.
HostsFirst ==
  /\ added \cap Halves # {} => bypass \subseteq added
  /\ pc = "routes" => bypass \subseteq added \cup todo
  /\ pc = "routes" /\ added \cap Halves # {} => todo \cap Hosts = {}

\* There is nothing to remove once downLocked is past its loop.
NothingOwned ==
  pc \in {"unblock", "block", "open", "configure", "dead"} => added = {}

CapturedBy(c) == UNION {Split(f) : f \in c.captured}

\* How far Up has come.
BringingUp ==
  pc \in {"open", "configure", "routes"} =>
    /\ goal = "up" /\ ~up /\ config = NoConfig /\ Sinks = {}
    /\ pc # "open" => device = "ours"
    /\ pc = "routes" =>
         /\ (added \cup todo) \cap Halves = CapturedBy(request)
         /\ added \cap todo = {}

\* What the kill-switch of the call's configuration decides.
TearingDown ==
  /\ goal = "up" => ~kill
  /\ block = kill
  /\ pc \in {"undo", "unblock"} /\ goal # "up" => config.killSwitch = kill
  /\ pc = "block" => kill /\ ~up /\ goal # "up"
  /\ pc = "dead" => ~up

\* Between calls there is the whole tunnel or none of it.
Settled ==
  pc = "idle" =>
    /\ up  => device = "ours" /\ added \cap Halves = CapturedBy(config) /\ Sinks = {}
    /\ ~up => added = {} /\ (Sinks # {} => block)

IInv ==
  /\ TypeOK /\ RightRoutes /\ OwnsItsRoutes /\ HostsFirst /\ NothingOwned
  /\ BringingUp /\ TearingDown /\ Settled /\ BypassBeforeCapture
-----------------------------------------------------------------------------
(* Prefixes and what is done to a table of them.                           *)

\* A prefix is a server's or a half of the address space, never both, and the
\* halves of a family are in the capture when the family is.
LEMMA PrefixKinds ==
  /\ Prefixes = Hosts \cup Halves
  /\ Hosts \cap Halves = {}
  /\ Split("v4") \subseteq Halves /\ Split("v6") \subseteq Halves
  /\ \A c \in Configs : /\ CapturedBy(c) \subseteq Halves
                        /\ \A p \in Halves : p \in CapturedBy(c) <=> p[1] \in c.captured
<1>1. Hosts \cap Halves = {}
  BY TunWindowsAssumption DEF Hosts, Halves, Split, Families
<1>2. ASSUME NEW c \in Configs
      PROVE  CapturedBy(c) \subseteq Halves
  BY DEF CapturedBy, Configs, Halves, Split, Families
<1>3. ASSUME NEW c \in Configs, NEW p \in Halves
      PROVE  p \in CapturedBy(c) <=> p[1] \in c.captured
  BY DEF CapturedBy, Configs, Halves, Split, Families
<1>4. QED
  BY <1>1, <1>2, <1>3 DEF Prefixes, Halves

\* NoConfig is a configuration, and asks for no kill-switch.
LEMMA NoConfigType == NoConfig \in Configs /\ NoConfig.killSwitch = FALSE
  BY DEF NoConfig, Configs, Bypasses

\* Removing routes leaves the others as they are.
LEMMA Dropping ==
  ASSUME NEW t \in [Prefixes -> {"none", "tunnel", "gateway", "sink"}], NEW ps
  PROVE  /\ Drop(t, ps) \in [Prefixes -> {"none", "tunnel", "gateway", "sink"}]
         /\ \A p \in Prefixes : Drop(t, ps)[p] = IF p \in ps THEN "none" ELSE t[p]
  BY DEF Drop

\* Between calls there is the whole tunnel, or no capture at all.
LEMMA SettledRouting ==
  IInv /\ pc = "idle" => Routing = IF up THEN "tunnel" ELSE "none"
<1> SUFFICES ASSUME IInv, pc = "idle" PROVE Routing = IF up THEN "tunnel" ELSE "none"
  OBVIOUS
<1> USE DEF IInv
<1>1. CASE up
  <2>1. \A p \in Halves : p \in added <=> p[1] \in config.captured
    BY <1>1, PrefixKinds DEF Settled, TypeOK
  <2>2. \A p \in Halves : table[p] \in {"none", "tunnel"}
    BY <1>1, PrefixKinds DEF Settled, RightRoutes, Sinks
  <2>3. Captured
    BY <1>1, <2>1, <2>2 DEF Captured, Settled, OwnsItsRoutes
  <2>4. QED
    BY <1>1, <2>3 DEF Routing, Alive
<1>2. CASE ~up
  <2>1. Clean
    BY <1>2 DEF Clean, Settled, OwnsItsRoutes
  <2>2. QED
    BY <1>2, <2>1 DEF Routing, Alive
<1>3. QED
  BY <1>1, <1>2

-----------------------------------------------------------------------------
(* The steps of a call.                                                    *)

\* Down finds the tunnel of the configuration in memory, or none.
LEMMA CallsKeep == ASSUME IInv, CallUp \/ CallDown PROVE IInv'
<1> USE DEF IInv, call, memory, system
<1>1. Routing \in {"none", "tunnel"}
  BY SettledRouting DEF CallUp, CallDown
<1>2. TypeOK'
  <2>1. config.killSwitch \in BOOLEAN
    BY DEF TypeOK, Configs
  <2>2. crashes' \in 0..Crashes
    BY TunWindowsAssumption DEF TypeOK, CallUp, CallDown
  <2>3. QED
    BY <1>1, <2>1, <2>2 DEF TypeOK, CallUp, CallDown
<1>3. RightRoutes' /\ OwnsItsRoutes' /\ BypassBeforeCapture'
  BY DEF CallUp, CallDown, RightRoutes, OwnsItsRoutes, BypassBeforeCapture
<1>4. HostsFirst' /\ NothingOwned' /\ BringingUp' /\ Settled'
  BY DEF CallUp, CallDown, HostsFirst, NothingOwned, BringingUp, Settled
<1>5. TearingDown'
  BY DEF CallUp, CallDown, TearingDown, Settled
<1>6. QED
  BY <1>2, <1>3, <1>4, <1>5

\* A capture route goes before any host route.
LEMMA RemoveRouteKeeps == ASSUME IInv, RemoveRoute PROVE IInv'
<1> USE DEF IInv, call, memory, system, history
<1>1. PICK p \in LastAdded : table' = Drop(table, {p}) /\ added' = added \ {p}
  BY DEF RemoveRoute
<1>2. p \in added /\ p \in Prefixes
  BY DEF LastAdded, TypeOK
<1>3. /\ table' \in [Prefixes -> {"none", "tunnel", "gateway", "sink"}]
      /\ table'[p] = "none"
      /\ \A q \in Prefixes \ {p} : table'[q] = table[q]
  BY <1>1, <1>2, Dropping DEF TypeOK
<1>4. TypeOK'
  BY <1>1, <1>3 DEF TypeOK, RemoveRoute
<1>5. RightRoutes'
  BY <1>3, PrefixKinds DEF RightRoutes
<1>6. OwnsItsRoutes'
  BY <1>1, <1>2, <1>3, PrefixKinds DEF OwnsItsRoutes, RemoveRoute
<1>7. HostsFirst'
  BY <1>1, PrefixKinds DEF HostsFirst, LastAdded, RemoveRoute, TypeOK
<1>8. BypassBeforeCapture'
  <2> SUFFICES ASSUME NEW q \in Halves, table'[q] = "tunnel", NEW h \in bypass
               PROVE  table'[h] = "gateway"
    BY DEF BypassBeforeCapture, RemoveRoute
  <2>1. q # p /\ q \in added
    BY <1>3, PrefixKinds DEF OwnsItsRoutes, RemoveRoute
  <2>2. p \in Halves
    BY <1>1, <2>1 DEF LastAdded
  <2>3. h # p /\ h \in Prefixes
    BY <2>2, PrefixKinds DEF TypeOK
  <2>4. QED
    BY <1>3, <2>1, <2>3, PrefixKinds DEF BypassBeforeCapture
<1>9. NothingOwned' /\ BringingUp' /\ TearingDown' /\ Settled'
  BY DEF NothingOwned, BringingUp, TearingDown, Settled, RemoveRoute
<1>10. QED
  BY <1>4, <1>5, <1>6, <1>7, <1>8, <1>9

\* The adapter is closed when no capture is left.
LEMMA CloseDeviceKeeps == ASSUME IInv, CloseDevice PROVE IInv'
<1> USE DEF IInv, call, memory, system, history
<1>1. \A p \in Prefixes : table[p] # "tunnel"
  BY PrefixKinds DEF OwnsItsRoutes, CloseDevice, RightRoutes
<1>2. table' = table
  <2>1. Unplug(table) = table
    BY <1>1 DEF Unplug, Drop, TypeOK
  <2>2. QED
    BY <2>1 DEF CloseDevice
<1>3. TypeOK'
  BY <1>2 DEF TypeOK, CloseDevice
<1>4. RightRoutes' /\ OwnsItsRoutes' /\ BypassBeforeCapture'
  BY <1>2 DEF RightRoutes, OwnsItsRoutes, BypassBeforeCapture, CloseDevice
<1>5. HostsFirst' /\ NothingOwned' /\ BringingUp' /\ TearingDown' /\ Settled'
  BY DEF HostsFirst, NothingOwned, BringingUp, TearingDown, Settled, CloseDevice
<1>6. QED
  BY <1>3, <1>4, <1>5

\* Where the block stays, the call goes on to set its own.
LEMMA UnblockKeeps == ASSUME IInv, Unblock PROVE IInv'
<1> USE DEF IInv, call, memory, system, history
<1>1. added = {} /\ added' = {}
  BY DEF NothingOwned, Unblock
<1>2. \A p \in Prefixes : /\ table'[p] = table[p] \/ (p \in Halves /\ table'[p] = "none")
                          /\ table'[p] # "tunnel"
  <2>1. \A p \in Prefixes : table[p] # "tunnel"
    BY <1>1, PrefixKinds DEF OwnsItsRoutes, RightRoutes, Unblock
  <2>2. table' = Drop(table, Halves) \/ table' = table
    BY DEF Unblock
  <2>3. QED
    BY <2>1, <2>2, Dropping DEF TypeOK
<1>3. pc' # "block" => \A p \in Halves : table'[p] = "none"
  <2>1. pc' # "block" => goal = "up" \/ ~config.killSwitch
    BY DEF Unblock, TearingDown, TypeOK
  <2>2. QED
    BY <2>1, Dropping, PrefixKinds DEF TypeOK, Unblock
<1>4. TypeOK'
  BY Dropping, NoConfigType DEF TypeOK, Unblock
<1>5. RightRoutes' /\ OwnsItsRoutes' /\ BypassBeforeCapture'
  BY <1>1, <1>2, PrefixKinds DEF RightRoutes, OwnsItsRoutes, BypassBeforeCapture
<1>6. HostsFirst' /\ NothingOwned'
  BY <1>1 DEF HostsFirst, NothingOwned, Unblock, TypeOK
<1>7. pc' # "block" => Sinks' = {}
  BY <1>2, <1>3, PrefixKinds DEF Sinks, RightRoutes
<1>8. BringingUp'
  BY <1>1, <1>7 DEF BringingUp, Unblock, TypeOK
<1>9. TearingDown'
  BY DEF TearingDown, Unblock, TypeOK
<1>10. Settled'
  BY <1>1, <1>7 DEF Settled, Unblock
<1>11. QED
  BY <1>4, <1>5, <1>6, <1>8, <1>9, <1>10

\* The block is installed by a Down whose configuration asked for it.
LEMMA BlockKeeps == ASSUME IInv, Block PROVE IInv'
<1> USE DEF IInv, call, memory, system, history
<1>1. added = {} /\ added' = {}
  BY DEF NothingOwned, Block
<1>2. blocked' \subseteq Halves
  BY PrefixKinds DEF Block
<1>3. /\ \A h \in Hosts : table'[h] = table[h]
      /\ \A p \in Halves : table'[p] \in {"none", "sink"}
  BY <1>2, PrefixKinds DEF Block
<1>4. TypeOK'
  BY <1>2 DEF TypeOK, Block
<1>5. RightRoutes' /\ OwnsItsRoutes' /\ BypassBeforeCapture'
  BY <1>1, <1>3 DEF RightRoutes, OwnsItsRoutes, BypassBeforeCapture
<1>6. HostsFirst' /\ NothingOwned' /\ BringingUp' /\ TearingDown' /\ Settled'
  BY <1>1 DEF HostsFirst, NothingOwned, BringingUp, TearingDown, Settled, Block
<1>7. QED
  BY <1>4, <1>5, <1>6

\* Until the routes are added Up changes the adapter only.
LEMMA OpenKeeps ==
  ASSUME IInv, Open \/ OpenFails \/ ConfigureFails
  PROVE  IInv'
<1> USE DEF IInv, call, memory, system, history, Fail
<1>1. TypeOK'
  BY DEF TypeOK, Open, OpenFails, ConfigureFails
<1>2. RightRoutes' /\ OwnsItsRoutes' /\ BypassBeforeCapture'
  BY DEF RightRoutes, OwnsItsRoutes, BypassBeforeCapture, Open, OpenFails, ConfigureFails
<1>3. HostsFirst' /\ NothingOwned' /\ Settled'
  BY DEF HostsFirst, NothingOwned, Settled, Open, OpenFails, ConfigureFails
<1>4. BringingUp'
  BY DEF BringingUp, Open, OpenFails, ConfigureFails, Sinks
<1>5. TearingDown'
  <2>1. kill = FALSE /\ config'.killSwitch = FALSE
    BY NoConfigType DEF TearingDown, BringingUp, TypeOK, Open, OpenFails, ConfigureFails
  <2>2. QED
    BY <2>1 DEF TearingDown, BringingUp, Open, OpenFails, ConfigureFails
<1>6. QED
  BY <1>1, <1>2, <1>3, <1>4, <1>5

\* The routes that are planned are the host routes of the reachable servers
\* and the capture that was asked for.
LEMMA ConfigureKeeps == ASSUME IInv, Configure PROVE IInv'
<1> USE DEF IInv, call, memory, system, history
<1>1. PICK gateways \in Gateways :
        /\ bypass' = Reachable(gateways)
        /\ todo' = Reachable(gateways) \cup CapturedBy(request)
  BY DEF Configure, CapturedBy
<1>2. bypass' \subseteq Hosts
  BY <1>1 DEF Reachable, TypeOK, Configs, Bypasses
<1>3. todo' \subseteq Prefixes /\ todo' \cap Halves = CapturedBy(request)
  BY <1>1, <1>2, PrefixKinds DEF TypeOK
<1>4. added = {} /\ added' = {}
  BY DEF NothingOwned, Configure
<1>5. TypeOK'
  BY <1>2, <1>3 DEF TypeOK, Configure
<1>6. RightRoutes' /\ OwnsItsRoutes'
  BY DEF RightRoutes, OwnsItsRoutes, Configure
<1>7. BypassBeforeCapture'
  BY <1>4 DEF BypassBeforeCapture, OwnsItsRoutes, Configure
<1>8. HostsFirst' /\ NothingOwned' /\ Settled'
  BY <1>1, <1>4 DEF HostsFirst, NothingOwned, Settled, Configure
<1>9. BringingUp'
  BY <1>3, <1>4 DEF BringingUp, Configure, Sinks
<1>10. TearingDown'
  BY DEF TearingDown, Configure
<1>11. QED
  BY <1>5, <1>6, <1>7, <1>8, <1>9, <1>10

\* A capture route is added when no host route is left to add.
LEMMA AddRouteKeeps == ASSUME IInv, AddRoute PROVE IInv'
<1> USE DEF IInv, call, memory, system, history
<1>1. PICK p \in FirstToAdd :
        /\ table' = [table EXCEPT ![p] = IF p \in Hosts THEN "gateway" ELSE "tunnel"]
        /\ added' = added \cup {p} /\ todo' = todo \ {p}
  BY DEF AddRoute
<1>2. p \in todo /\ p \in Prefixes /\ (p \in Halves => todo \cap Hosts = {})
  BY PrefixKinds DEF FirstToAdd, TypeOK
<1>3. /\ table' \in [Prefixes -> {"none", "tunnel", "gateway", "sink"}]
      /\ table'[p] = IF p \in Hosts THEN "gateway" ELSE "tunnel"
      /\ \A q \in Prefixes \ {p} : table'[q] = table[q]
  BY <1>1, <1>2 DEF TypeOK
<1>4. TypeOK'
  BY <1>1, <1>2, <1>3 DEF TypeOK, AddRoute
<1>5. RightRoutes' /\ OwnsItsRoutes'
  BY <1>1, <1>2, <1>3, PrefixKinds DEF RightRoutes, OwnsItsRoutes, AddRoute
<1>6. HostsFirst'
  BY <1>1, <1>2, PrefixKinds DEF HostsFirst, AddRoute, TypeOK
<1>7. BypassBeforeCapture'
  BY <1>1, <1>5, <1>6, PrefixKinds DEF BypassBeforeCapture, OwnsItsRoutes, HostsFirst, AddRoute, TypeOK
<1>8. BringingUp'
  <2>1. Sinks' = {}
    BY <1>3, PrefixKinds DEF Sinks, BringingUp, AddRoute
  <2>2. added' \cup todo' = added \cup todo /\ added' \cap todo' = {}
    BY <1>1, <1>2 DEF BringingUp, AddRoute
  <2>3. QED
    BY <2>1, <2>2 DEF BringingUp, AddRoute
<1>9. NothingOwned' /\ TearingDown' /\ Settled'
  BY DEF NothingOwned, TearingDown, Settled, AddRoute
<1>10. QED
  BY <1>4, <1>5, <1>6, <1>7, <1>8, <1>9

\* A route that could not be added was not one of the tunnel's.
LEMMA AddFailsKeeps == ASSUME IInv, AddFails PROVE IInv'
<1> USE DEF IInv, call, memory, system, history, Fail
<1>1. PICK p \in FirstToAdd : table' = Drop(table, {p})
  BY DEF AddFails
<1>2. p \in todo /\ p \in Prefixes /\ p \notin added
  BY PrefixKinds DEF FirstToAdd, TypeOK, BringingUp, AddFails
<1>3. /\ table' \in [Prefixes -> {"none", "tunnel", "gateway", "sink"}]
      /\ table'[p] = "none"
      /\ \A q \in Prefixes \ {p} : table'[q] = table[q]
  BY <1>1, <1>2, Dropping DEF TypeOK
<1>4. TypeOK'
  BY <1>3 DEF TypeOK, AddFails
<1>5. RightRoutes' /\ OwnsItsRoutes'
  BY <1>2, <1>3, PrefixKinds DEF RightRoutes, OwnsItsRoutes, AddFails
<1>6. HostsFirst'
  BY DEF HostsFirst, AddFails
<1>7. BypassBeforeCapture'
  BY <1>5, <1>6, PrefixKinds DEF BypassBeforeCapture, OwnsItsRoutes, HostsFirst, AddFails, TypeOK
<1>8. NothingOwned' /\ BringingUp' /\ Settled'
  BY DEF NothingOwned, BringingUp, Settled, AddFails
<1>9. TearingDown'
  <2>1. kill = FALSE /\ config'.killSwitch = FALSE
    BY NoConfigType DEF TearingDown, BringingUp, TypeOK, AddFails
  <2>2. QED
    BY <2>1 DEF TearingDown, AddFails
<1>10. QED
  BY <1>4, <1>5, <1>6, <1>7, <1>8, <1>9

\* A tunnel that is reported up captures what was asked for.
LEMMA FinishKeeps == ASSUME IInv, Finish PROVE IInv'
<1> USE DEF IInv, call, memory, system, history
<1>1. TypeOK'
  BY DEF TypeOK, Finish
<1>2. RightRoutes' /\ OwnsItsRoutes' /\ HostsFirst' /\ BypassBeforeCapture'
  BY DEF RightRoutes, OwnsItsRoutes, HostsFirst, BypassBeforeCapture, Finish
<1>3. NothingOwned' /\ BringingUp' /\ TearingDown'
  BY DEF NothingOwned, BringingUp, TearingDown, Finish
<1>4. Settled'
  BY DEF Settled, BringingUp, Finish, Sinks, CapturedBy
<1>5. QED
  BY <1>1, <1>2, <1>3, <1>4

-----------------------------------------------------------------------------
(* The steps of the process.                                               *)

\* A death takes the capture away, or leaves it with the host routes.
LEMMA CrashKeeps == ASSUME IInv, Crash PROVE IInv'
<1> USE DEF IInv, call, memory, system, history
<1>1. \/ table' = table
      \/ /\ table' \in [Prefixes -> {"none", "tunnel", "gateway", "sink"}]
         /\ \A p \in Prefixes : table'[p] = IF table[p] = "tunnel" THEN "none" ELSE table[p]
  <2>1. \A p \in Prefixes : p \in {q \in Prefixes : table[q] = "tunnel"} <=> table[p] = "tunnel"
    OBVIOUS
  <2>2. QED
    BY <2>1, Dropping DEF TypeOK, Crash, Unplug
<1>2. TypeOK'
  <2>1. crashes' \in 0..Crashes
    BY TunWindowsAssumption DEF TypeOK, Crash
  <2>2. QED
    BY <1>1, <2>1, NoConfigType DEF TypeOK, Crash
<1>3. RightRoutes' /\ BypassBeforeCapture'
  BY <1>1, PrefixKinds DEF RightRoutes, BypassBeforeCapture, TypeOK, Crash
<1>4. OwnsItsRoutes' /\ HostsFirst' /\ NothingOwned' /\ BringingUp' /\ TearingDown' /\ Settled'
  BY DEF OwnsItsRoutes, HostsFirst, NothingOwned, BringingUp, TearingDown, Settled, Crash
<1>5. QED
  BY <1>2, <1>3, <1>4

\* The new helper begins with no capture and no block.
LEMMA RestartKeeps == ASSUME IInv, Restart PROVE IInv'
<1> USE DEF IInv, call, memory, system, history
<1>1. /\ table' \in [Prefixes -> {"none", "tunnel", "gateway", "sink"}]
      /\ \A p \in Prefixes : table'[p] = IF p \in Halves THEN "none" ELSE table[p]
  BY Dropping DEF TypeOK, Restart
<1>2. TypeOK'
  BY <1>1 DEF TypeOK, Restart
<1>3. RightRoutes' /\ OwnsItsRoutes' /\ BypassBeforeCapture'
  BY <1>1, PrefixKinds DEF RightRoutes, OwnsItsRoutes, NothingOwned, BypassBeforeCapture, Restart
<1>4. Sinks' = {}
  BY <1>1, PrefixKinds DEF Sinks, RightRoutes
<1>5. HostsFirst' /\ NothingOwned' /\ BringingUp' /\ TearingDown' /\ Settled'
  BY <1>4 DEF HostsFirst, NothingOwned, BringingUp, TearingDown, Settled, Restart
<1>6. QED
  BY <1>2, <1>3, <1>5

-----------------------------------------------------------------------------
(* What every reachable state satisfies.                                   *)

LEMMA NextKeeps == ASSUME IInv, [Next]_vars PROVE IInv'
<1>1. CASE TearDown
  BY <1>1, RemoveRouteKeeps, CloseDeviceKeeps, UnblockKeeps, BlockKeeps DEF TearDown
<1>2. CASE BringUp
  BY <1>2, OpenKeeps, ConfigureKeeps, AddRouteKeeps, AddFailsKeeps, FinishKeeps DEF BringUp
<1>3. CASE UNCHANGED vars
  <2> USE <1>3 DEF vars, call, memory, system, history
  <2>1. TypeOK' /\ RightRoutes' /\ OwnsItsRoutes' /\ HostsFirst' /\ NothingOwned'
    BY DEF IInv, TypeOK, RightRoutes, OwnsItsRoutes, HostsFirst, NothingOwned
  <2>2. BringingUp' /\ TearingDown' /\ Settled' /\ BypassBeforeCapture'
    BY DEF IInv, BringingUp, TearingDown, Settled, BypassBeforeCapture, Sinks
  <2>3. QED
    BY <2>1, <2>2 DEF IInv
<1>4. QED
  BY <1>1, <1>2, <1>3, CallsKeep, CrashKeeps, RestartKeeps DEF Next

\* The invariant the theorems below rest on.
THEOREM InductiveInvariant == Spec => []IInv
<1>1. Init => IInv
  <2> SUFFICES ASSUME Init PROVE IInv
    OBVIOUS
  <2>1. TypeOK
    <3>1. 0 \in 0..Crashes
      BY TunWindowsAssumption
    <3>2. QED
      BY <3>1, NoConfigType DEF Init, TypeOK
  <2>2. \A p \in Prefixes : table[p] = "none"
    BY DEF Init
  <2>3. RightRoutes /\ OwnsItsRoutes /\ HostsFirst /\ NothingOwned /\ Sinks = {}
    BY <2>2, PrefixKinds DEF Init, RightRoutes, OwnsItsRoutes, HostsFirst, NothingOwned, Sinks
  <2>4. BringingUp /\ TearingDown /\ Settled /\ BypassBeforeCapture
    BY <2>2, <2>3, PrefixKinds DEF Init, BringingUp, TearingDown, Settled, BypassBeforeCapture
  <2>5. QED
    BY <2>1, <2>3, <2>4 DEF IInv
<1>2. IInv /\ [Next]_vars => IInv'
  BY NextKeeps
<1>3. QED
  BY <1>1, <1>2, PTL DEF Spec

\* The variables keep their types; no call begins in a mixed state.
THEOREM TypeCorrect == Spec => []TypeOK
  BY InductiveInvariant, PTL DEF IInv

\* No capture without the routes to every server it relies on, in any order of
\* additions, removals, failures and deaths.
THEOREM NoCaptureOfServers == Spec => []BypassBeforeCapture
  BY InductiveInvariant, PTL DEF IInv

\* Between calls the machine is cut off only by a Down that was to do so.
THEOREM BlockOnPurpose == Spec => []BlockIsAsked
<1>1. IInv => BlockIsAsked
  BY DEF IInv, BlockIsAsked, Settled
<1>2. QED
  BY <1>1, InductiveInvariant, PTL

-----------------------------------------------------------------------------
(* The refinement.                                                         *)

\* A step of a call is a stutter of the service, until the call ends.
LEMMA StepRefines ==
  ASSUME IInv, [Next]_vars, (IInv /\ pc = "idle" => Routing = IF up THEN "tunnel" ELSE "none")'
  PROVE  Service!Next \/ UNCHANGED <<Alive, Routing>>
<1>1. IInv'
  BY NextKeeps
<1>2. CASE pc \notin {"idle", "dead"} /\ pc' \notin {"idle", "dead"} /\ before' = before
  BY <1>2 DEF Alive, Routing
<1>3. CASE UNCHANGED vars
  BY <1>3 DEF vars, call, memory, system, history, Alive, Routing, Captured, Clean
<1>4. CASE CallUp \/ CallDown
  BY <1>4 DEF CallUp, CallDown, Alive, Routing
<1>5. CASE pc \notin {"idle", "dead"} /\ pc' = "idle" /\ ~up'
  <2>1. Service!Perform("tun_down", TRUE)
    BY <1>1, <1>5 DEF Service!Perform, Service!Outcome, Alive
  <2>2. QED
    BY <2>1 DEF Service!Next, Service!Methods
<1>6. CASE Finish
  <2>1. Service!Perform("tun_up", TRUE)
    BY <1>1, <1>6 DEF Finish, Service!Perform, Service!Outcome, Alive
  <2>2. QED
    BY <2>1 DEF Service!Next, Service!Methods
<1>7. CASE pc # "dead" /\ pc' = "dead"
  BY <1>7 DEF Service!Next, Service!Crash, Alive, Routing
<1>8. CASE Restart
  <2>1. ~up'
    BY <1>8 DEF IInv, TearingDown, Restart, memory
  <2>2. QED
    BY <1>1, <1>8, <2>1 DEF Restart, Service!Next, Service!Restart, Alive
<1>9. QED
  <2>1. CASE RemoveRoute \/ CloseDevice \/ Open \/ OpenFails \/ Configure
             \/ ConfigureFails \/ AddRoute \/ AddFails
    BY <1>2, <2>1 DEF RemoveRoute, CloseDevice, Open, OpenFails, Configure,
                      ConfigureFails, AddRoute, AddFails, Fail, history
  <2>2. CASE Unblock
    BY <1>2, <1>5, <1>7, <2>2 DEF Unblock, history, IInv, TypeOK
  <2>3. CASE Block
    BY <1>5, <1>7, <2>3 DEF Block, IInv, TearingDown, memory
  <2>4. CASE Crash
    BY <1>7, <2>4 DEF Crash, Alive
  <2>5. QED
    BY <1>3, <1>4, <1>6, <1>8, <2>1, <2>2, <2>3, <2>4 DEF Next, TearDown, BringUp

\* On Windows the helper keeps the promise of the abstract service: a request
\* that succeeds has captured exactly what was asked for, one that fails leaves
\* no capture, and a helper that listens has removed its predecessor's.
THEOREM Refines == Spec => ImplementsService
<1>1. Init => Service!Init
  <2>1. Init => Clean
    BY PrefixKinds DEF Init, Clean
  <2>2. QED
    BY <2>1 DEF Init, Service!Init, Alive, Routing
<1>2. ASSUME IInv, [Next]_vars, (IInv /\ pc = "idle" => Routing = IF up THEN "tunnel" ELSE "none")'
      PROVE  [Service!Next]_<<Alive, Routing>>
  BY <1>2, StepRefines
<1>3. QED
  BY <1>1, <1>2, SettledRouting, InductiveInvariant, PTL
     DEF Spec, ImplementsService, Service!Spec
=============================================================================
