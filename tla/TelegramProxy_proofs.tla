------------------------ MODULE TelegramProxy_proofs ------------------------
(***************************************************************************)
(* Theorems about TelegramProxy, for every set of connections and domains   *)
(* and every number of runs and of attempts at the same time.               *)
(***************************************************************************)
EXTENDS TelegramProxy, FiniteSetTheorems, TLAPS

-----------------------------------------------------------------------------
(* The inductive invariant.                                                *)

\* Only the last run can be live, and only while somebody can stop it.
OneLiveRun ==
  /\ control.step # "idle" => running = 0
  /\ control.step = "start" \/ (control.step = "stop" /\ control.next # None) =>
       started < MaxRuns /\ control.next \in Transports
  /\ control.step = "listen" => started # 0 /\ ctx[started] = "live"
  /\ running \in {0, started}
  /\ \A g \in Runs : IF g <= started
                     THEN ctx[g] = "live" => g = started /\ (g = running \/ control.step = "listen")
                     ELSE ctx[g] = "live" /\ server[g] = "none"

OneServer == \A g, h \in Runs : server[g] = "serving" /\ server[h] = "serving" => g = h

\* The switch of all runs is that of the last one.
SwitchOfLast == started # 0 => cfproxyEnabled = UsesCloudflare(transport[started])

SlotsHeld == IsFiniteSet(Holders) /\ slots = Cardinality(Holders) /\ slots <= GlobalParallel

\* The domains a handler has yet to hear of.
Awaited(h) ==
  IF h.step = "first" THEN {h.known} ELSE IF h.step = "race" \/ h.drains THEN h.left ELSE {}

\* What a handler, its attempts and its sockets are to each other.
Shape(h, a, s) ==
  /\ \A d \in Domains : a[d] # "none" <=> d \in Awaited(h)
  /\ h.step = "first" =>
       h.known \in Domains /\ a[h.known] \in {"check", "slot", "dial", "upgrade", "won", "lost"}
  /\ h.drains => h.step \in {"init", "tcp", "relay", "unwind", "idle"}
  /\ h.step \in {"hello", "choose", "cloudflare", "first", "race"} => h.winner = None
  /\ h.step = "init" => h.winner # None
  /\ h.step = "idle" /\ ~h.drains => h = NoHandler
  /\ h.step # "idle" \/ h.drains => h.run # 0
  /\ h.winner \notin h.left
  /\ s[TCP] = "open" => h.step \in {"relay", "unwind"}
  /\ h.step = "tcp" \/ s[TCP] = "open" => h.winner = None \/ s[h.winner] # "open"
  /\ \A d \in Domains : s[d] = "open" =>
       a[d] \in {"won", "sent"} \/ (d = h.winner /\ h.step \in {"init", "relay", "unwind"})

\* A run that was not started for Cloudflare has no attempt that may still dial,
\* and none that has dialled.
Allowed(c) ==
  /\ RunOf(c) <= started
  /\ \A d \in Domains :
       /\ attempt[c][d] # "none" /\ ctx[RunOf(c)] = "live" => UsesCloudflare(transport[RunOf(c)])
       /\ attempt[c][d] \in {"upgrade", "won", "sent"} => UsesCloudflare(transport[RunOf(c)])
       /\ socket[c][d] = "open" => UsesCloudflare(transport[RunOf(c)])

IInv ==
  /\ TypeOK /\ OneLiveRun /\ OneServer /\ SwitchOfLast /\ SlotsHeld
  /\ \A c \in Clients : Shape(handler[c], attempt[c], socket[c]) /\ Allowed(c)

-----------------------------------------------------------------------------
(* What a step of one connection has to keep.                              *)

ConnectionsTyped ==
  /\ handler \in [Clients -> Handlers]
  /\ attempt \in [Clients -> [Domains -> Attempts]]
  /\ socket \in [Clients -> [Paths -> Sockets]]

\* The connections but c stay as they are.
OnlyConnection(c) ==
  \A e \in Clients \ {c} :
    handler'[e] = handler[e] /\ attempt'[e] = attempt[e] /\ socket'[e] = socket[e]

\* At most one run serves.
LEMMA ServingOne ==
  OneServer => Cardinality({g \in Runs : server[g] = "serving"}) <= 1
<1> SUFFICES ASSUME OneServer
             PROVE  Cardinality({g \in Runs : server[g] = "serving"}) <= 1
  OBVIOUS
<1> DEFINE S == {g \in Runs : server[g] = "serving"}
<1>1. CASE S = {}
  BY <1>1, FS_EmptySet
<1>2. CASE S # {}
  <2>1. PICK g \in Runs : server[g] = "serving"
    BY <1>2
  <2>2. S = {g}
    BY <2>1 DEF OneServer
  <2>3. Cardinality({g}) = 1
    BY FS_Singleton
  <2>4. QED
    BY <2>2, <2>3
<1>3. QED
  BY <1>1, <1>2

\* A step of one connection that keeps its own part of the invariant, and the
\* count of the slots, keeps all of it.
LEMMA LocalStep ==
  ASSUME IInv, NEW c \in Clients, OnlyConnection(c),
         UNCHANGED <<lifecycle, servers, cfproxyEnabled>>, ConnectionsTyped',
         domains' \subseteq Domains, active' \in Domains, cooldown' \subseteq Domains,
         SlotsHeld', Shape(handler'[c], attempt'[c], socket'[c]), Allowed(c)'
  PROVE  IInv'
<1>1. TypeOK'
  BY DEF IInv, TypeOK, ConnectionsTyped, SlotsHeld, lifecycle, servers
<1>2. OneLiveRun' /\ OneServer' /\ SwitchOfLast'
  BY DEF IInv, OneLiveRun, OneServer, SwitchOfLast, lifecycle, servers
<1>3. ASSUME NEW e \in Clients
      PROVE  Shape(handler[e], attempt[e], socket[e])' /\ Allowed(e)'
  <2>1. CASE e = c
    BY <2>1
  <2>2. CASE e # c
    <3>1. handler'[e] = handler[e] /\ attempt'[e] = attempt[e] /\ socket'[e] = socket[e]
      BY <2>2 DEF OnlyConnection
    <3>2. started' = started /\ ctx' = ctx /\ transport' = transport
      BY DEF lifecycle
    <3>3. Shape(handler[e], attempt[e], socket[e]) /\ Allowed(e)
      BY DEF IInv
    <3>4. QED
      BY <3>1, <3>2, <3>3 DEF Allowed, RunOf
  <2>3. QED
    BY <2>1, <2>2
<1>4. QED
  BY <1>1, <1>2, <1>3 DEF IInv

\* Attempts that neither take nor leave a slot.
LEMMA SlotsStay ==
  ASSUME SlotsHeld, slots' = slots,
         \A c \in Clients, d \in Domains :
           attempt'[c][d] \in {"dial", "upgrade"} <=> attempt[c][d] \in {"dial", "upgrade"}
  PROVE  SlotsHeld'
<1>1. Holders' = Holders
  BY DEF Holders
<1>2. QED
  BY <1>1 DEF SlotsHeld

\* One attempt takes a slot.
LEMMA SlotTaken ==
  ASSUME SlotsHeld, NEW c \in Clients, NEW d \in Domains, slots < GlobalParallel,
         slots' = slots + 1,
         attempt[c][d] \notin {"dial", "upgrade"}, attempt'[c][d] \in {"dial", "upgrade"},
         \A e \in Clients, f \in Domains : <<e, f>> # <<c, d>> => attempt'[e][f] = attempt[e][f]
  PROVE  SlotsHeld'
<1>1. Holders' = Holders \cup {<<c, d>>} /\ <<c, d>> \notin Holders
  BY DEF Holders
<1>2. IsFiniteSet(Holders') /\ Cardinality(Holders') = Cardinality(Holders) + 1
  BY <1>1, FS_AddElement DEF SlotsHeld
<1>3. Cardinality(Holders) \in Nat
  BY FS_CardinalityType DEF SlotsHeld
<1>4. QED
  BY <1>2, <1>3, TelegramAssumption DEF SlotsHeld

\* One attempt leaves its slot.
LEMMA SlotLeft ==
  ASSUME SlotsHeld, NEW c \in Clients, NEW d \in Domains, slots' = slots - 1,
         attempt[c][d] \in {"dial", "upgrade"}, attempt'[c][d] \notin {"dial", "upgrade"},
         \A e \in Clients, f \in Domains : <<e, f>> # <<c, d>> => attempt'[e][f] = attempt[e][f]
  PROVE  SlotsHeld'
<1>1. Holders' = Holders \ {<<c, d>>} /\ <<c, d>> \in Holders
  BY DEF Holders
<1>2. IsFiniteSet(Holders') /\ Cardinality(Holders') = Cardinality(Holders) - 1
  BY <1>1, FS_RemoveElement DEF SlotsHeld
<1>3. Cardinality(Holders) \in Nat
  BY FS_CardinalityType DEF SlotsHeld
<1>4. QED
  BY <1>2, <1>3, TelegramAssumption DEF SlotsHeld

\* What At does.
LEMMA AtFacts ==
  ASSUME ConnectionsTyped, NEW c \in Clients, NEW d \in Domains, NEW step \in Attempts,
         At(c, d, step)
  PROVE  /\ attempt' \in [Clients -> [Domains -> Attempts]]
         /\ attempt'[c] = [attempt[c] EXCEPT ![d] = step]
         /\ attempt'[c][d] = step
         /\ \A f \in Domains \ {d} : attempt'[c][f] = attempt[c][f]
         /\ \A e \in Clients \ {c} : attempt'[e] = attempt[e]
  BY DEF ConnectionsTyped, At

\* A step of c that takes and leaves no slot.
LEMMA QuietStep ==
  ASSUME IInv, NEW c \in Clients, OnlyConnection(c),
         UNCHANGED <<lifecycle, servers, cfproxyEnabled, slots>>, ConnectionsTyped',
         domains' \subseteq Domains, active' \in Domains, cooldown' \subseteq Domains,
         \A d \in Domains :
           attempt'[c][d] \in {"dial", "upgrade"} <=> attempt[c][d] \in {"dial", "upgrade"},
         Shape(handler'[c], attempt'[c], socket'[c]), Allowed(c)'
  PROVE  IInv'
<1>1. SlotsHeld'
  BY SlotsStay DEF IInv, OnlyConnection
<1>2. QED
  BY <1>1, LocalStep

-----------------------------------------------------------------------------
(* Start and Stop, and the goroutines of the runs.                         *)

\* A step of the runs keeps the invariant when it keeps the part about runs:
\* contexts are only cancelled, and what a run was started with stays.
LEMMA RunStep ==
  ASSUME IInv, UNCHANGED Connections,
         TypeOK', OneLiveRun', OneServer', SwitchOfLast',
         started <= started',
         \A g \in Runs : g <= started =>
           transport'[g] = transport[g] /\ (ctx'[g] = "live" => ctx[g] = "live")
  PROVE  IInv'
<1>1. handler' = handler /\ attempt' = attempt /\ socket' = socket /\ slots' = slots
  BY DEF Connections
<1>2. SlotsHeld'
  BY <1>1, SlotsStay DEF IInv
<1>3. ASSUME NEW c \in Clients
      PROVE  Shape(handler[c], attempt[c], socket[c])' /\ Allowed(c)'
  <2>1. Shape(handler[c], attempt[c], socket[c]) /\ Allowed(c) /\ TypeOK
    BY DEF IInv
  <2>2. Shape(handler'[c], attempt'[c], socket'[c])
    BY <1>1, <2>1
  <2>3. RunOf(c)' = RunOf(c) /\ RunOf(c) \in Runs \cup {0} /\ RunOf(c) <= started
    BY <1>1, <2>1 DEF Allowed, RunOf, TypeOK, Handlers
  <2>4. CASE RunOf(c) = 0
    <3>1. \A d \in Domains : attempt[c][d] = "none" /\ socket[c][d] # "open"
      BY <2>1, <2>4, ZenonT(40) DEF Shape, Awaited, RunOf, TypeOK, NoHandler, Handlers
    <3>2. RunOf(c)' <= started'
      BY <2>1, <2>3 DEF TypeOK, Runs
    <3>3. QED
      BY <1>1, <2>2, <3>1, <3>2 DEF Allowed
  <2>5. CASE RunOf(c) # 0
    <3>1. /\ transport'[RunOf(c)] = transport[RunOf(c)]
          /\ ctx'[RunOf(c)] = "live" => ctx[RunOf(c)] = "live"
      BY <2>3, <2>5
    <3>2. RunOf(c)' <= started'
      BY <2>1, <2>3 DEF TypeOK, Runs
    <3>3. QED
      BY <1>1, <2>1, <2>2, <2>3, <3>1, <3>2 DEF Allowed
  <2>6. QED
    BY <2>4, <2>5
<1>4. QED
  BY <1>2, <1>3 DEF IInv

\* The part of the type invariant the connections keep.
LEMMA TypeOfStep ==
  ASSUME IInv, UNCHANGED Connections, OneServer',
         control' \in [step : {"idle", "stop", "start", "listen"}, next : Transports \cup {None}],
         running' \in 0..started', started' \in 0..MaxRuns,
         transport' \in [Runs -> Transports \cup {None}],
         ctx' \in [Runs -> {"live", "cancelled"}],
         server' \in [Runs -> {"none", "starting", "serving", "over"}],
         accepting' \subseteq {g \in Runs : server'[g] = "serving"},
         (cfproxyEnabled \in BOOLEAN)', domains' \subseteq Domains, active' \in Domains,
         cooldown' \subseteq Domains,
         running' # 0 => ctx'[running'] = "live"
  PROVE  TypeOK'
<1>1. (OneServer => Cardinality({g \in Runs : server[g] = "serving"}) <= 1)'
  BY ServingOne, PTL
<1>2. handler' = handler /\ attempt' = attempt /\ socket' = socket /\ slots' = slots
  BY DEF Connections
<1>3. Holders' = Holders
  BY <1>2 DEF Holders
<1>4. QED
  BY <1>1, <1>2, <1>3 DEF TypeOK, IInv

LEMMA CallStartKeeps ==
  ASSUME IInv, NEW t \in Transports, CallStart(t)
  PROVE  IInv'
<1>1. /\ control.step = "idle" /\ started < MaxRuns /\ running \in Runs \cup {0}
      /\ control' = [step |-> IF running = 0 THEN "start" ELSE "stop", next |-> t]
      /\ running' = 0 /\ UNCHANGED <<started, transport, servers, shared, cooldown, Connections>>
      /\ ctx' = IF running = 0 THEN ctx ELSE [ctx EXCEPT ![running] = "cancelled"]
  BY TelegramAssumption DEF CallStart, Cancel, IInv, TypeOK, Runs
<1>2. ctx' \in [Runs -> {"live", "cancelled"}]
  BY <1>1 DEF IInv, TypeOK
<1>3. OneServer' /\ SwitchOfLast'
  BY <1>1 DEF IInv, OneServer, SwitchOfLast, servers, shared
<1>4. TypeOK'
  BY <1>1, <1>2, <1>3, TypeOfStep DEF IInv, TypeOK, servers, shared
<1>5. OneLiveRun'
  BY <1>1, <1>2, TelegramAssumption DEF IInv, TypeOK, OneLiveRun, servers, shared, Runs, None
<1>6. QED
  BY <1>1, <1>2, <1>3, <1>4, <1>5, RunStep DEF IInv, TypeOK

LEMMA CallStopKeeps ==
  ASSUME IInv, CallStop
  PROVE  IInv'
<1>1. /\ control.step = "idle" /\ running \in Runs
      /\ control' = [step |-> "stop", next |-> None]
      /\ running' = 0 /\ UNCHANGED <<started, transport, servers, shared, cooldown, Connections>>
      /\ ctx' = [ctx EXCEPT ![running] = "cancelled"]
  BY TelegramAssumption DEF CallStop, Cancel, IInv, TypeOK, Runs
<1>2. ctx' \in [Runs -> {"live", "cancelled"}]
  BY <1>1 DEF IInv, TypeOK
<1>3. OneServer' /\ SwitchOfLast'
  BY <1>1 DEF IInv, OneServer, SwitchOfLast, servers, shared
<1>4. TypeOK'
  BY <1>1, <1>2, <1>3, TypeOfStep DEF IInv, TypeOK, servers, shared
<1>5. OneLiveRun'
  BY <1>1, <1>2 DEF IInv, TypeOK, OneLiveRun, servers, shared, Runs
<1>6. QED
  BY <1>1, <1>2, <1>3, <1>4, <1>5, RunStep DEF IInv, TypeOK

LEMMA StoppedKeeps ==
  ASSUME IInv, Stopped
  PROVE  IInv'
<1>1. /\ control.step = "stop" /\ cooldown' = {}
      /\ control' = IF control.next = None THEN Idle ELSE [control EXCEPT !.step = "start"]
      /\ UNCHANGED <<running, started, transport, ctx, servers, shared, Connections>>
  BY DEF Stopped
<1>2. OneServer' /\ SwitchOfLast'
  BY <1>1 DEF IInv, OneServer, SwitchOfLast, servers, shared
<1>3. control' \in [step : {"idle", "stop", "start", "listen"}, next : Transports \cup {None}]
  BY <1>1 DEF IInv, TypeOK, Idle
<1>4. TypeOK'
  BY <1>1, <1>2, <1>3, TypeOfStep DEF IInv, TypeOK, servers, shared
<1>5. OneLiveRun'
  BY <1>1 DEF IInv, TypeOK, OneLiveRun, servers, shared, Runs, Idle
<1>6. QED
  BY <1>1, <1>2, <1>4, <1>5, RunStep DEF IInv, TypeOK, Runs

LEMMA StartRunKeeps ==
  ASSUME IInv, StartRun
  PROVE  IInv'
<1>1. /\ control.step = "start" /\ started \in 0..MaxRuns /\ started < MaxRuns
      /\ control.next \in Transports /\ running = 0
      /\ started' = started + 1
      /\ transport' = [transport EXCEPT ![started + 1] = control.next]
      /\ server' = [server EXCEPT ![started + 1] = "starting"]
      /\ cfproxyEnabled' = UsesCloudflare(control.next)
      /\ domains' \in {Defaults, Domains} /\ active' \in domains' /\ cooldown' = {}
      /\ control' = [control EXCEPT !.step = "listen"]
      /\ UNCHANGED <<running, ctx, accepting, Connections>>
  BY DEF StartRun, IInv, TypeOK, OneLiveRun
<1>2. /\ started' \in Runs /\ MaxRuns \in Nat /\ started' \in 0..MaxRuns
      /\ \A g \in Runs : g <= started => g # started'
      /\ \A g \in Runs : g <= started' <=> g <= started \/ g = started'
  BY <1>1, TelegramAssumption DEF Runs
<1>3. /\ transport' \in [Runs -> Transports \cup {None}]
      /\ server' \in [Runs -> {"none", "starting", "serving", "over"}]
      /\ server'[started'] = "starting" /\ transport'[started'] = control.next
      /\ \A g \in Runs \ {started'} : server'[g] = server[g] /\ transport'[g] = transport[g]
  BY <1>1, <1>2 DEF IInv, TypeOK
<1>4. server[started'] = "none" /\ ctx[started'] = "live"
  BY <1>1, <1>2 DEF IInv, OneLiveRun, Runs
<1>5. OneServer' /\ SwitchOfLast'
  BY <1>1, <1>3 DEF IInv, OneServer, SwitchOfLast
<1>6. accepting' \subseteq {g \in Runs : server'[g] = "serving"}
  BY <1>1, <1>3, <1>4 DEF IInv, TypeOK
<1>7. (cfproxyEnabled \in BOOLEAN)'
  <2>1. UsesCloudflare(control.next) \in BOOLEAN
    BY DEF UsesCloudflare
  <2>2. QED
    BY <1>1, <2>1
<1>8. control' \in [step : {"idle", "stop", "start", "listen"}, next : Transports \cup {None}]
  BY <1>1 DEF IInv, TypeOK
<1>9. domains' \subseteq Domains /\ active' \in Domains
  BY <1>1 DEF Domains
<1>10. TypeOK'
  BY <1>1, <1>2, <1>3, <1>5, <1>6, <1>7, <1>8, <1>9, TypeOfStep DEF IInv, TypeOK
<1>11. OneLiveRun'
  BY <1>1, <1>2, <1>3, <1>4 DEF IInv, TypeOK, OneLiveRun, Runs
<1>12. QED
  BY <1>1, <1>2, <1>3, <1>5, <1>10, <1>11, RunStep DEF IInv, TypeOK

LEMMA StartTimesOutKeeps ==
  ASSUME IInv, StartTimesOut
  PROVE  IInv'
<1>1. /\ control.step = "listen" /\ control' = Idle /\ started \in Runs /\ running = 0
      /\ ctx' = [ctx EXCEPT ![started] = "cancelled"]
      /\ UNCHANGED <<running, started, transport, servers, shared, Connections>>
      /\ cooldown' = cooldown
  BY TelegramAssumption DEF StartTimesOut, Cancel, IInv, TypeOK, OneLiveRun, Runs
<1>2. ctx' \in [Runs -> {"live", "cancelled"}] /\ ctx'[started] = "cancelled"
      /\ \A g \in Runs \ {started} : ctx'[g] = ctx[g]
  BY <1>1 DEF IInv, TypeOK
<1>3. OneServer' /\ SwitchOfLast'
  BY <1>1 DEF IInv, OneServer, SwitchOfLast, servers, shared
<1>4. control' \in [step : {"idle", "stop", "start", "listen"}, next : Transports \cup {None}]
  BY <1>1 DEF Idle
<1>5. TypeOK'
  BY <1>1, <1>2, <1>3, <1>4, TypeOfStep DEF IInv, TypeOK, servers, shared
<1>6. OneLiveRun'
  BY <1>1, <1>2 DEF IInv, TypeOK, OneLiveRun, servers, Runs, Idle
<1>7. QED
  BY <1>1, <1>2, <1>3, <1>5, <1>6, RunStep DEF IInv, TypeOK, Runs

LEMMA ListenKeeps ==
  ASSUME IInv, NEW g \in Runs, Listen(g)
  PROVE  IInv'
<1>1. /\ server[g] = "starting" /\ \A h \in Runs : server[h] # "serving"
      /\ server' = [server EXCEPT ![g] = "serving"] /\ accepting' = accepting \cup {g}
      /\ UNCHANGED <<ctx, started, transport, shared, cooldown, Connections>>
      /\ IF control.step = "listen" /\ g = started THEN control' = Idle /\ running' = g
         ELSE UNCHANGED <<control, running>>
  BY DEF Listen, PortFree, Signal
<1>2. /\ server' \in [Runs -> {"none", "starting", "serving", "over"}]
      /\ server'[g] = "serving" /\ \A h \in Runs \ {g} : server'[h] = server[h]
  BY <1>1 DEF IInv, TypeOK
<1>3. OneServer' /\ SwitchOfLast'
  BY <1>1, <1>2 DEF IInv, OneServer, SwitchOfLast, shared
<1>4. accepting' \subseteq {h \in Runs : server'[h] = "serving"}
  BY <1>1, <1>2 DEF IInv, TypeOK
<1>5. control' \in [step : {"idle", "stop", "start", "listen"}, next : Transports \cup {None}]
  BY <1>1 DEF IInv, TypeOK, Idle
<1>6. running' \in 0..started' /\ (running' # 0 => ctx'[running'] = "live")
  BY <1>1, TelegramAssumption DEF IInv, TypeOK, OneLiveRun, Runs
<1>7. TypeOK'
  BY <1>1, <1>2, <1>3, <1>4, <1>5, <1>6, TypeOfStep DEF IInv, TypeOK, shared
<1>8. OneLiveRun'
  BY <1>1, <1>2 DEF IInv, TypeOK, OneLiveRun, Runs, Idle
<1>9. QED
  BY <1>1, <1>3, <1>7, <1>8, RunStep, TelegramAssumption DEF IInv, TypeOK, Runs

LEMMA ListenFailsKeeps ==
  ASSUME IInv, NEW g \in Runs, ListenFails(g)
  PROVE  IInv'
<1>1. /\ server[g] = "starting" /\ server' = [server EXCEPT ![g] = "over"]
      /\ UNCHANGED <<running, started, transport, accepting, shared, cooldown, Connections>>
      /\ IF control.step = "listen" /\ g = started
         THEN control' = Idle /\ ctx' = [ctx EXCEPT ![g] = "cancelled"]
         ELSE UNCHANGED <<control, ctx>>
  BY DEF ListenFails, Signal, Cancel
<1>2. /\ server' \in [Runs -> {"none", "starting", "serving", "over"}]
      /\ server'[g] = "over" /\ \A h \in Runs \ {g} : server'[h] = server[h]
  BY <1>1 DEF IInv, TypeOK
<1>3. /\ ctx' \in [Runs -> {"live", "cancelled"}]
      /\ \A h \in Runs : ctx'[h] = IF control.step = "listen" /\ g = started /\ h = g
                                   THEN "cancelled" ELSE ctx[h]
  BY <1>1 DEF IInv, TypeOK
<1>4. OneServer' /\ SwitchOfLast'
  BY <1>1, <1>2 DEF IInv, OneServer, SwitchOfLast, shared
<1>5. accepting' \subseteq {h \in Runs : server'[h] = "serving"}
  BY <1>1, <1>2 DEF IInv, TypeOK
<1>6. control' \in [step : {"idle", "stop", "start", "listen"}, next : Transports \cup {None}]
  BY <1>1 DEF IInv, TypeOK, Idle
<1>7. running' \in 0..started' /\ (running' # 0 => ctx'[running'] = "live")
  BY <1>1, <1>3, TelegramAssumption DEF IInv, TypeOK, OneLiveRun, Runs
<1>8. TypeOK'
  BY <1>1, <1>2, <1>3, <1>4, <1>5, <1>6, <1>7, TypeOfStep DEF IInv, TypeOK, shared
<1>9. OneLiveRun'
  BY <1>1, <1>2, <1>3 DEF IInv, TypeOK, OneLiveRun, Runs, Idle
<1>10. QED
  BY <1>1, <1>3, <1>4, <1>8, <1>9, RunStep, TelegramAssumption DEF IInv, TypeOK, Runs

\* What the goroutine of a run does once it listens, and the time that passes.
LEMMA ServerKeeps ==
  ASSUME IInv, UNCHANGED <<lifecycle, cfproxyEnabled, Connections>>,
         server' \in [Runs -> {"none", "starting", "serving", "over"}],
         \A g \in Runs : server'[g] = server[g] \/ (server[g] = "serving" /\ server'[g] = "over"),
         accepting' \subseteq {g \in Runs : server'[g] = "serving"},
         domains' \subseteq Domains, active' \in Domains, cooldown' \subseteq Domains
  PROVE  IInv'
<1>1. OneServer' /\ SwitchOfLast' /\ OneLiveRun'
  BY DEF IInv, OneServer, SwitchOfLast, OneLiveRun, lifecycle
<1>2. TypeOK'
  BY <1>1, TypeOfStep DEF IInv, TypeOK, lifecycle
<1>3. QED
  BY <1>1, <1>2, RunStep, TelegramAssumption DEF IInv, TypeOK, lifecycle, Runs

LEMMA AcceptFailsKeeps ==
  ASSUME IInv, NEW g \in Runs, AcceptFails(g)
  PROVE  IInv'
  BY ServerKeeps DEF AcceptFails, IInv, TypeOK, shared

LEMMA CloseListenerKeeps ==
  ASSUME IInv, NEW g \in Runs, CloseListener(g)
  PROVE  IInv'
<1>1. /\ server[g] = "serving" /\ server' = [server EXCEPT ![g] = "over"]
      /\ accepting' = accepting \ {g} /\ UNCHANGED <<lifecycle, shared, cooldown, Connections>>
  BY DEF CloseListener
<1>2. /\ server' \in [Runs -> {"none", "starting", "serving", "over"}]
      /\ server'[g] = "over" /\ \A h \in Runs \ {g} : server'[h] = server[h]
  BY <1>1 DEF IInv, TypeOK
<1>3. accepting' \subseteq {h \in Runs : server'[h] = "serving"}
  BY <1>1, <1>2 DEF IInv, TypeOK
<1>4. QED
  BY <1>1, <1>2, <1>3, ServerKeeps DEF IInv, TypeOK, shared

LEMMA RefreshKeeps ==
  ASSUME IInv, NEW g \in Runs, Refresh(g)
  PROVE  IInv'
<1>1. /\ domains' \in {Defaults, Domains}
      /\ active' = active \/ active' \in Defaults
      /\ UNCHANGED <<lifecycle, servers, cfproxyEnabled, cooldown, Connections>>
  BY DEF Refresh
<1>2. domains' \subseteq Domains /\ active' \in Domains
  BY <1>1 DEF Domains, IInv, TypeOK
<1>3. QED
  BY <1>1, <1>2, ServerKeeps DEF IInv, TypeOK, servers

LEMMA CooldownEndsKeeps ==
  ASSUME IInv, NEW d \in Domains, CooldownEnds(d)
  PROVE  IInv'
  BY ServerKeeps DEF CooldownEnds, IInv, TypeOK, servers, shared

-----------------------------------------------------------------------------
(* The steps of a handler that leave its attempts and its sockets alone.   *)

\* A step of c that brings no attempt, no dial and no socket of its own.
LEMMA AllowedStays ==
  ASSUME IInv, NEW c \in Clients, UNCHANGED lifecycle, handler'[c].run = handler[c].run,
         \A d \in Domains :
           /\ attempt'[c][d] # "none" => attempt[c][d] # "none"
           /\ attempt'[c][d] \in {"upgrade", "won", "sent"} =>
                attempt[c][d] \in {"upgrade", "won", "sent"}
           /\ socket'[c][d] = "open" =>
                socket[c][d] = "open" \/ attempt[c][d] \in {"upgrade", "won", "sent"}
  PROVE  Allowed(c)'
<1>1. Allowed(c)
  BY DEF IInv
<1>2. QED
  BY <1>1 DEF Allowed, RunOf, lifecycle

\* An attempt or a socket needs somebody who knows of it.
LEMMA NothingOfNobody ==
  ASSUME NEW h \in Handlers, NEW a, NEW s, Shape(h, a, s), h.step \in {"idle", "hello"}, ~h.drains
  PROVE  \A d \in Domains : a[d] = "none" /\ s[d] # "open"
  BY DEF Shape, Awaited, Handlers

LEMMA AllowedIdle ==
  ASSUME IInv, NEW c \in Clients, UNCHANGED lifecycle, handler'[c] \in Handlers,
         Shape(handler'[c], attempt'[c], socket'[c]),
         handler'[c].run <= started, handler'[c].step \in {"idle", "hello"}, ~handler'[c].drains
  PROVE  Allowed(c)'
<1>1. \A d \in Domains : attempt'[c][d] = "none" /\ socket'[c][d] # "open"
  BY NothingOfNobody
<1>2. QED
  BY <1>1 DEF Allowed, RunOf, lifecycle

\* What To and Finish do.
LEMMA ToFacts ==
  ASSUME ConnectionsTyped, NEW c \in Clients,
         NEW step \in {"idle", "hello", "choose", "cloudflare", "first", "race", "init", "tcp",
                       "relay", "unwind"},
         To(c, step)
  PROVE  /\ handler' \in [Clients -> Handlers]
         /\ handler'[c] = [handler[c] EXCEPT !.step = step]
         /\ \A e \in Clients \ {c} : handler'[e] = handler[e]
<1>1. handler[c] \in Handlers /\ handler \in [Clients -> Handlers]
  BY DEF ConnectionsTyped
<1>2. [handler[c] EXCEPT !.step = step] \in Handlers
  BY <1>1 DEF Handlers
<1>3. QED
  BY <1>1, <1>2 DEF To

LEMMA FinishedFacts ==
  ASSUME NEW h \in Handlers
  PROVE  Finished(h) \in Handlers
<1>1. NoHandler \in Handlers
  BY DEF NoHandler, Handlers
<1>2. [h EXCEPT !.step = "idle"] \in Handlers
  BY DEF Handlers
<1>3. QED
  BY <1>1, <1>2 DEF Finished

LEMMA FinishFacts ==
  ASSUME ConnectionsTyped, NEW c \in Clients, Finish(c)
  PROVE  /\ handler' \in [Clients -> Handlers]
         /\ handler'[c] = Finished(handler[c])
         /\ \A e \in Clients \ {c} : handler'[e] = handler[e]
<1>1. handler[c] \in Handlers /\ handler \in [Clients -> Handlers]
  BY DEF ConnectionsTyped
<1>2. QED
  BY <1>1, FinishedFacts DEF Finish

\* A handler that is done, whatever it leaves to the goroutine that stays.
LEMMA ShapeOfFinished ==
  ASSUME NEW h \in Handlers, NEW a \in [Domains -> Attempts], NEW s, NEW t, Shape(h, a, s),
         h.step \notin {"idle", "first", "race"},
         \A p \in Paths : t[p] = "open" => s[p] = "open",
         t[TCP] # "open",
         \A d \in Domains : t[d] = "open" => a[d] \in {"won", "sent"}
  PROVE  Shape(Finished(h), a, t)
<1>1. CASE h.drains
  <2>1. Finished(h) = [h EXCEPT !.step = "idle"]
    BY <1>1 DEF Finished
  <2>2. QED
    BY <1>1, <2>1 DEF Shape, Awaited, Handlers, Paths
<1>2. CASE ~h.drains
  <2>1. Finished(h) = NoHandler
    BY <1>2 DEF Finished
  <2>2. \A d \in Domains : a[d] = "none"
    BY <1>2 DEF Shape, Awaited, Handlers
  <2>3. QED
    BY <2>1, <2>2, TelegramAssumption DEF Shape, Awaited, NoHandler, Paths
<1>3. QED
  BY <1>1, <1>2 DEF Handlers

\* A step that only moves the handler of c, in the same run.
LEMMA HandlerMoves ==
  ASSUME IInv, NEW c \in Clients,
         NEW step \in {"choose", "cloudflare", "tcp", "relay", "unwind"}, To(c, step),
         UNCHANGED <<Global, cooldown, slots, attempt, socket>>,
         Shape([handler[c] EXCEPT !.step = step], attempt[c], socket[c])
  PROVE  IInv'
<1>1. ConnectionsTyped
  BY DEF IInv, TypeOK, ConnectionsTyped
<1>2. /\ handler' \in [Clients -> Handlers]
      /\ handler'[c] = [handler[c] EXCEPT !.step = step]
      /\ \A e \in Clients \ {c} : handler'[e] = handler[e]
  BY <1>1, ToFacts
<1>3. handler'[c].run = handler[c].run
  BY <1>1, <1>2 DEF ConnectionsTyped, Handlers
<1>4. /\ UNCHANGED <<lifecycle, servers, cfproxyEnabled, slots>>
      /\ attempt' = attempt /\ socket' = socket
      /\ domains' \subseteq Domains /\ active' \in Domains /\ cooldown' \subseteq Domains
  BY DEF Global, shared, IInv, TypeOK
<1>5. Allowed(c)'
  BY <1>3, <1>4, AllowedStays
<1>6. ConnectionsTyped' /\ OnlyConnection(c)
  BY <1>1, <1>2, <1>4 DEF ConnectionsTyped, OnlyConnection
<1>7. QED
  BY <1>2, <1>4, <1>5, <1>6, QuietStep

\* A handler that returns.
LEMMA HandlerReturns ==
  ASSUME IInv, NEW c \in Clients, Finish(c),
         handler[c].step \notin {"idle", "first", "race"},
         UNCHANGED <<Global, cooldown, slots, attempt>>,
         socket' \in [Clients -> [Paths -> Sockets]],
         \A e \in Clients \ {c} : socket'[e] = socket[e],
         \A p \in Paths : socket'[c][p] = "open" => socket[c][p] = "open",
         socket'[c][TCP] # "open",
         \A d \in Domains : socket'[c][d] = "open" => attempt[c][d] \in {"won", "sent"}
  PROVE  IInv'
<1>1. ConnectionsTyped /\ handler[c] \in Handlers
      /\ Shape(handler[c], attempt[c], socket[c]) /\ Allowed(c)
  BY DEF IInv, TypeOK, ConnectionsTyped
<1>2. /\ handler' \in [Clients -> Handlers]
      /\ handler'[c] = Finished(handler[c])
      /\ \A e \in Clients \ {c} : handler'[e] = handler[e]
  BY <1>1, FinishFacts
<1>3. /\ UNCHANGED <<lifecycle, servers, cfproxyEnabled, slots>>
      /\ attempt' = attempt /\ attempt[c] \in [Domains -> Attempts]
      /\ domains' \subseteq Domains /\ active' \in Domains /\ cooldown' \subseteq Domains
  BY DEF Global, shared, IInv, TypeOK
<1>4. Shape(handler'[c], attempt'[c], socket'[c])
  BY <1>1, <1>2, <1>3, ShapeOfFinished, ZenonT(40)
<1>5. Allowed(c)'
  <2>1. CASE handler[c].drains
    <3>1. handler'[c].run = handler[c].run
      BY <1>1, <1>2, <2>1 DEF Finished, Handlers
    <3>2. QED
      BY <1>3, <3>1, AllowedStays DEF Domains, Paths
  <2>2. CASE ~handler[c].drains
    <3>1. handler'[c] = NoHandler
      BY <1>2, <2>2 DEF Finished
    <3>2. handler'[c].run <= started /\ handler'[c].step = "idle" /\ ~handler'[c].drains
      BY <3>1, TelegramAssumption DEF NoHandler, IInv, TypeOK
    <3>3. QED
      BY <1>2, <1>3, <1>4, <3>2, AllowedIdle
  <2>3. QED
    BY <2>1, <2>2
<1>6. ConnectionsTyped' /\ OnlyConnection(c)
  BY <1>1, <1>2, <1>3 DEF ConnectionsTyped, OnlyConnection
<1>7. QED
  BY <1>3, <1>4, <1>5, <1>6, QuietStep

\* The facts about c most steps need.
LEMMA Here ==
  ASSUME IInv, NEW c \in Clients
  PROVE  /\ ConnectionsTyped /\ handler[c] \in Handlers
         /\ attempt[c] \in [Domains -> Attempts] /\ socket[c] \in [Paths -> Sockets]
         /\ Shape(handler[c], attempt[c], socket[c]) /\ Allowed(c)
  BY DEF IInv, TypeOK, ConnectionsTyped

LEMMA HelloKeeps ==
  ASSUME IInv, NEW c \in Clients, Hello(c)
  PROVE  IInv'
<1>1. Shape([handler[c] EXCEPT !.step = "choose"], attempt[c], socket[c])
  BY Here DEF Hello, Shape, Awaited, Handlers
<1>2. QED
  BY <1>1, HandlerMoves DEF Hello

LEMMA ChooseKeeps ==
  ASSUME IInv, NEW c \in Clients, Choose(c)
  PROVE  IInv'
<1>1. Shape([handler[c] EXCEPT !.step = "cloudflare"], attempt[c], socket[c])
  BY Here DEF Choose, Shape, Awaited, Handlers
<1>2. Shape([handler[c] EXCEPT !.step = "tcp"], attempt[c], socket[c])
  BY Here DEF Choose, Shape, Awaited, Handlers
<1>3. QED
  BY <1>1, <1>2, HandlerMoves DEF Choose

LEMMA CloudflareOffKeeps ==
  ASSUME IInv, NEW c \in Clients, CloudflareOff(c)
  PROVE  IInv'
<1>1. Shape([handler[c] EXCEPT !.step = "tcp"], attempt[c], socket[c])
  BY Here DEF CloudflareOff, Shape, Awaited, Handlers
<1>2. QED
  BY <1>1, HandlerMoves DEF CloudflareOff

LEMMA SendInitKeeps ==
  ASSUME IInv, NEW c \in Clients, SendInit(c)
  PROVE  IInv'
<1>1. Shape([handler[c] EXCEPT !.step = "relay"], attempt[c], socket[c])
  BY Here DEF SendInit, Shape, Awaited, Handlers
<1>2. QED
  BY <1>1, HandlerMoves DEF SendInit

LEMMA RelayKeeps ==
  ASSUME IInv, NEW c \in Clients, RelayEnds(c) \/ RelayCancelled(c)
  PROVE  IInv'
<1>1. Shape([handler[c] EXCEPT !.step = "unwind"], attempt[c], socket[c])
  BY Here DEF RelayEnds, RelayCancelled, Shape, Awaited, Handlers
<1>2. QED
  BY <1>1, HandlerMoves DEF RelayEnds, RelayCancelled

LEMMA HelloFailsKeeps ==
  ASSUME IInv, NEW c \in Clients, HelloFails(c)
  PROVE  IInv'
<1>1. /\ socket[c][TCP] # "open"
      /\ \A d \in Domains : socket[c][d] = "open" => attempt[c][d] \in {"won", "sent"}
  BY Here DEF HelloFails, Shape
<1>2. socket' = socket /\ socket' \in [Clients -> [Paths -> Sockets]]
  BY DEF HelloFails, IInv, TypeOK
<1>3. QED
  BY <1>1, <1>2, HandlerReturns DEF HelloFails

LEMMA TCPFailsKeeps ==
  ASSUME IInv, NEW c \in Clients, TCPFails(c)
  PROVE  IInv'
<1>1. /\ socket[c][TCP] # "open"
      /\ \A d \in Domains : socket[c][d] = "open" => attempt[c][d] \in {"won", "sent"}
  BY Here DEF TCPFails, Shape
<1>2. socket' = socket /\ socket' \in [Clients -> [Paths -> Sockets]]
  BY DEF TCPFails, IInv, TypeOK
<1>3. QED
  BY <1>1, <1>2, HandlerReturns DEF TCPFails

-----------------------------------------------------------------------------
(* The steps of a handler that open, close or look at a socket.            *)

LEMMA AcceptKeeps ==
  ASSUME IInv, NEW c \in Clients, NEW g \in Runs, Accept(c, g)
  PROVE  IInv'
<1>1. /\ g \in accepting /\ handler[c] = NoHandler
      /\ \A p \in Paths : socket[c][p] = "none"
      /\ handler' = [handler EXCEPT ![c] = [NoHandler EXCEPT !.step = "hello", !.run = g]]
      /\ attempt' = attempt /\ socket' = socket
      /\ UNCHANGED <<Global, cooldown, slots>>
  BY DEF Accept
<1>2. [NoHandler EXCEPT !.step = "hello", !.run = g] \in Handlers
  BY DEF NoHandler, Handlers
<1>3. /\ handler' \in [Clients -> Handlers]
      /\ handler'[c] = [NoHandler EXCEPT !.step = "hello", !.run = g]
      /\ \A e \in Clients \ {c} : handler'[e] = handler[e]
  BY <1>1, <1>2, Here DEF ConnectionsTyped
<1>4. /\ UNCHANGED <<lifecycle, servers, cfproxyEnabled, slots>>
      /\ domains' \subseteq Domains /\ active' \in Domains /\ cooldown' \subseteq Domains
  BY <1>1 DEF Global, shared, IInv, TypeOK
<1>5. Shape(handler'[c], attempt'[c], socket'[c])
  <2>1. \A d \in Domains : attempt[c][d] = "none"
    BY <1>1, Here, NothingOfNobody DEF NoHandler
  <2>2. /\ handler'[c].step = "hello" /\ ~handler'[c].drains /\ handler'[c].winner = None
        /\ handler'[c].left = {} /\ handler'[c].run # 0
    BY <1>3 DEF NoHandler, Runs
  <2>3. QED
    BY <1>1, <2>1, <2>2 DEF Shape, Awaited, Paths
<1>6. g <= started
  <2>1. server[g] = "serving"
    BY <1>1 DEF IInv, TypeOK
  <2>2. QED
    BY <2>1, TelegramAssumption DEF IInv, OneLiveRun, TypeOK, Runs
<1>7. Allowed(c)'
  BY <1>2, <1>3, <1>4, <1>5, <1>6, AllowedIdle DEF NoHandler
<1>8. ConnectionsTyped' /\ OnlyConnection(c)
  BY <1>1, <1>3, Here DEF ConnectionsTyped, OnlyConnection
<1>9. QED
  BY <1>1, <1>4, <1>5, <1>7, <1>8, QuietStep

\* A socket of c that changes.
LEMMA SocketFacts ==
  ASSUME ConnectionsTyped, NEW c \in Clients, NEW p \in Paths, NEW v \in Sockets,
         socket' = [socket EXCEPT ![c][p] = v]
  PROVE  /\ socket' \in [Clients -> [Paths -> Sockets]]
         /\ socket'[c] = [socket[c] EXCEPT ![p] = v]
         /\ socket'[c][p] = v
         /\ \A q \in Paths \ {p} : socket'[c][q] = socket[c][q]
         /\ \A e \in Clients \ {c} : socket'[e] = socket[e]
  BY DEF ConnectionsTyped

\* A step that moves the handler of c and changes one of its sockets.
LEMMA HandlerTurns ==
  ASSUME IInv, NEW c \in Clients,
         NEW step \in {"tcp", "relay"}, To(c, step),
         NEW p \in Paths, NEW v \in Sockets, socket' = [socket EXCEPT ![c][p] = v],
         UNCHANGED <<Global, cooldown, slots, attempt>>, v = "open" => p = TCP,
         Shape([handler[c] EXCEPT !.step = step], attempt[c], [socket[c] EXCEPT ![p] = v])
  PROVE  IInv'
<1>1. /\ handler' \in [Clients -> Handlers]
      /\ handler'[c] = [handler[c] EXCEPT !.step = step]
      /\ \A e \in Clients \ {c} : handler'[e] = handler[e]
  BY Here, ToFacts
<1>2. handler'[c].run = handler[c].run
  BY <1>1, Here DEF Handlers
<1>3. /\ UNCHANGED <<lifecycle, servers, cfproxyEnabled, slots>>
      /\ attempt' = attempt
      /\ domains' \subseteq Domains /\ active' \in Domains /\ cooldown' \subseteq Domains
  BY DEF Global, shared, IInv, TypeOK
<1>4. /\ socket' \in [Clients -> [Paths -> Sockets]]
      /\ socket'[c] = [socket[c] EXCEPT ![p] = v]
      /\ socket'[c][p] = v
      /\ \A q \in Paths \ {p} : socket'[c][q] = socket[c][q]
      /\ \A e \in Clients \ {c} : socket'[e] = socket[e]
  BY Here, SocketFacts
<1>5. \A d \in Domains : socket'[c][d] = "open" => socket[c][d] = "open"
  BY <1>4, TelegramAssumption DEF Paths
<1>6. Allowed(c)'
  BY <1>2, <1>3, <1>5, AllowedStays
<1>7. ConnectionsTyped' /\ OnlyConnection(c)
  BY <1>1, <1>3, <1>4, Here DEF ConnectionsTyped, OnlyConnection
<1>8. QED
  BY <1>1, <1>3, <1>4, <1>6, <1>7, QuietStep

LEMMA SendInitFailsKeeps ==
  ASSUME IInv, NEW c \in Clients, SendInitFails(c)
  PROVE  IInv'
<1> DEFINE w == handler[c].winner
<1>1. /\ handler[c].step = "init" /\ To(c, "tcp")
      /\ socket' = [socket EXCEPT ![c][w] = "failed"]
      /\ UNCHANGED <<Global, cooldown, slots, attempt>>
  BY DEF SendInitFails
<1>2. w \in Domains /\ w \in Paths /\ w # TCP
  BY <1>1, Here, TelegramAssumption DEF Shape, Handlers, Paths
<1>3. Shape([handler[c] EXCEPT !.step = "tcp"], attempt[c], [socket[c] EXCEPT ![w] = "failed"])
  BY <1>1, <1>2, Here DEF Shape, Awaited, Handlers, Paths
<1>4. QED
  BY <1>1, <1>2, <1>3, HandlerTurns DEF Sockets

LEMMA DialTCPKeeps ==
  ASSUME IInv, NEW c \in Clients, DialTCP(c)
  PROVE  IInv'
<1>1. /\ handler[c].step = "tcp" /\ To(c, "relay")
      /\ socket' = [socket EXCEPT ![c][TCP] = "open"]
      /\ UNCHANGED <<Global, cooldown, slots, attempt>>
  BY DEF DialTCP
<1>2. Shape([handler[c] EXCEPT !.step = "relay"], attempt[c], [socket[c] EXCEPT ![TCP] = "open"])
  BY <1>1, Here, TelegramAssumption DEF Shape, Awaited, Handlers, Paths
<1>3. QED
  BY <1>1, <1>2, HandlerTurns DEF Sockets, Paths

LEMMA UnwindKeeps ==
  ASSUME IInv, NEW c \in Clients, Unwind(c)
  PROVE  IInv'
<1> DEFINE p == Carrier(c)
<1>1. /\ handler[c].step = "unwind" /\ Finish(c)
      /\ \E left \in {"none", "failed"} : socket' = [socket EXCEPT ![c][p] = left]
      /\ UNCHANGED <<Global, cooldown, slots, attempt>>
  BY DEF Unwind
<1>2. /\ Shape(handler[c], attempt[c], socket[c])
      /\ handler[c] \in Handlers /\ socket[c] \in [Paths -> Sockets] /\ ConnectionsTyped
  BY Here
<1>3. p \in Paths \/ p = None
  BY <1>2 DEF Carrier, Handlers, Paths
<1>4. /\ socket' \in [Clients -> [Paths -> Sockets]]
      /\ \A e \in Clients \ {c} : socket'[e] = socket[e]
      /\ \A q \in Paths : IF q = p THEN socket'[c][q] # "open" ELSE socket'[c][q] = socket[c][q]
  <2>1. PICK left \in {"none", "failed"} : socket' = [socket EXCEPT ![c][p] = left]
    BY <1>1
  <2>2. QED
    BY <1>2, <1>3, <2>1, TelegramAssumption DEF ConnectionsTyped, Sockets
<1>5. socket'[c][TCP] # "open"
  BY <1>4 DEF Carrier, Paths
<1>6. ASSUME NEW d \in Domains, socket'[c][d] = "open"
      PROVE  attempt[c][d] \in {"won", "sent"}
  <2>1. socket[c][d] = "open" /\ d # p /\ d # TCP
    BY <1>4, <1>6, TelegramAssumption DEF Paths
  <2>2. CASE socket[c][TCP] = "open"
    BY <1>1, <1>2, <2>1, <2>2, TelegramAssumption DEF Shape, Paths
  <2>3. CASE socket[c][TCP] # "open"
    BY <1>1, <1>2, <2>1, <2>3 DEF Shape, Carrier
  <2>4. QED
    BY <2>2, <2>3
<1>7. QED
  BY <1>1, <1>4, <1>5, <1>6, HandlerReturns

-----------------------------------------------------------------------------
(* The attempts.                                                           *)

\* A step of one attempt that is heard of later: it may dial only for a run
\* that was started so, and its socket is open only if its result says so.
LEMMA AttemptMoves ==
  ASSUME IInv, NEW c \in Clients, NEW d \in Domains, NEW v \in Attempts \ {"none"},
         At(c, d, v), attempt[c][d] # "none",
         UNCHANGED <<Global, handler>>, cooldown' \subseteq Domains, SlotsHeld',
         socket' \in [Clients -> [Paths -> Sockets]],
         \A e \in Clients \ {c} : socket'[e] = socket[e],
         \A p \in Paths \ {d} : socket'[c][p] = socket[c][p],
         socket'[c][d] = "open" =>
           v \in {"won", "sent"} \/ (attempt[c][d] \notin {"won", "sent"} /\ socket[c][d] = "open"),
         handler[c].step = "first" => v \in {"check", "slot", "dial", "upgrade", "won", "lost"},
         v \in {"upgrade", "won", "sent"} =>
           attempt[c][d] \in {"upgrade", "won", "sent"} \/ UsesCloudflare(transport[RunOf(c)])
  PROVE  IInv'
<1>1. /\ attempt' \in [Clients -> [Domains -> Attempts]]
      /\ attempt'[c][d] = v
      /\ \A f \in Domains \ {d} : attempt'[c][f] = attempt[c][f]
      /\ \A e \in Clients \ {c} : attempt'[e] = attempt[e]
  <2>1. ConnectionsTyped
    BY Here
  <2>2. v \in Attempts
    OBVIOUS
  <2>3. QED
    BY <2>1, <2>2, AtFacts
<1>2. /\ UNCHANGED <<lifecycle, servers, cfproxyEnabled>> /\ handler' = handler
      /\ domains' \subseteq Domains /\ active' \in Domains
  BY DEF Global, shared, IInv, TypeOK
<1>3. /\ Shape(handler[c], attempt[c], socket[c]) /\ Allowed(c)
      /\ handler[c] \in Handlers
  BY Here
<1>4. Shape(handler[c], attempt'[c], socket'[c])
  <2>1. d \in Awaited(handler[c])
    BY <1>3 DEF Shape
  <2>2. handler[c].winner # d
    BY <1>3, <2>1, TelegramAssumption DEF Shape, Awaited, Handlers, Paths
  <2>3. d # TCP /\ TCP \in Paths /\ d \in Paths
    BY TelegramAssumption DEF Paths
  <2>4. \A f \in Domains : attempt'[c][f] # "none" <=> f \in Awaited(handler[c])
    BY <1>1, <1>3, <2>1 DEF Shape
  <2>5. handler[c].step = "first" => attempt'[c][handler[c].known] \in
          {"check", "slot", "dial", "upgrade", "won", "lost"}
    BY <1>1, <1>3 DEF Shape
  <2>6. socket'[c][TCP] = socket[c][TCP]
    BY <2>3
  <2>7. handler[c].winner = None \/ socket'[c][handler[c].winner] = socket[c][handler[c].winner]
    BY <1>3, <2>2 DEF Handlers, Paths
  <2>8. \A f \in Domains : socket'[c][f] = "open" =>
          attempt'[c][f] \in {"won", "sent"}
          \/ (f = handler[c].winner /\ handler[c].step \in {"init", "relay", "unwind"})
    <3>1. \A f \in Domains \ {d} : socket'[c][f] = socket[c][f]
      BY DEF Paths
    <3>2. QED
      BY <1>1, <1>3, <2>2, <3>1 DEF Shape
  <2>9. QED
    BY <1>3, <2>4, <2>5, <2>6, <2>7, <2>8 DEF Shape
<1>5. Allowed(c)'
  <2>1. RunOf(c)' = RunOf(c) /\ started' = started /\ ctx' = ctx /\ transport' = transport
    BY <1>2 DEF RunOf, lifecycle
  <2>2. \A f \in Domains \ {d} : socket'[c][f] = socket[c][f]
    BY DEF Paths
  <2>3. QED
    BY <1>1, <1>3, <2>1, <2>2 DEF Allowed
<1>6. ConnectionsTyped' /\ OnlyConnection(c)
  BY <1>1, <1>2, Here DEF ConnectionsTyped, OnlyConnection
<1>7. QED
  BY <1>2, <1>4, <1>5, <1>6, LocalStep

\* The same, when neither the slots nor the sockets matter.
LEMMA AttemptGoesOn ==
  ASSUME IInv, NEW c \in Clients, NEW d \in Domains, NEW v \in Attempts \ {"none"},
         At(c, d, v), attempt[c][d] # "none",
         UNCHANGED <<Global, cooldown, slots, handler, socket>>,
         v \in {"dial", "upgrade"} <=> attempt[c][d] \in {"dial", "upgrade"},
         attempt[c][d] \in {"won", "sent"} => v \in {"won", "sent"},
         handler[c].step = "first" => v \in {"check", "slot", "dial", "upgrade", "won", "lost"},
         v \in {"upgrade", "won", "sent"} =>
           attempt[c][d] \in {"upgrade", "won", "sent"} \/ UsesCloudflare(transport[RunOf(c)])
  PROVE  IInv'
<1>1. /\ attempt'[c][d] = v
      /\ \A f \in Domains \ {d} : attempt'[c][f] = attempt[c][f]
      /\ \A e \in Clients \ {c} : attempt'[e] = attempt[e]
  BY Here, AtFacts
<1>2. \A e \in Clients, f \in Domains :
        attempt'[e][f] \in {"dial", "upgrade"} <=> attempt[e][f] \in {"dial", "upgrade"}
  BY <1>1
<1>3. SlotsHeld'
  BY <1>2, SlotsStay DEF IInv
<1>4. socket' = socket /\ socket \in [Clients -> [Paths -> Sockets]] /\ cooldown' \subseteq Domains
  BY DEF IInv, TypeOK
<1>5. QED
  BY <1>3, <1>4, AttemptMoves

\* An attempt whose handler has not moved on belongs to it.
LEMMA FirstIsKnown ==
  ASSUME IInv, NEW c \in Clients, NEW d \in Domains, attempt[c][d] # "none",
         handler[c].step = "first"
  PROVE  attempt[c][d] \in {"check", "slot", "dial", "upgrade", "won", "lost"}
  BY Here DEF Shape, Awaited

LEMMA EnterRaceKeeps ==
  ASSUME IInv, NEW c \in Clients, NEW d \in Domains, EnterRace(c, d)
  PROVE  IInv'
  BY AttemptGoesOn DEF EnterRace, Attempts

LEMMA LeaveRaceKeeps ==
  ASSUME IInv, NEW c \in Clients, NEW d \in Domains, LeaveRace(c, d)
  PROVE  IInv'
  BY AttemptGoesOn, FirstIsKnown DEF LeaveRace, Attempts

LEMMA CheckCooldownKeeps ==
  ASSUME IInv, NEW c \in Clients, NEW d \in Domains, CheckCooldown(c, d)
  PROVE  IInv'
  BY AttemptGoesOn DEF CheckCooldown, Attempts

LEMMA GiveUpSlotKeeps ==
  ASSUME IInv, NEW c \in Clients, NEW d \in Domains, GiveUpSlot(c, d)
  PROVE  IInv'
  BY AttemptGoesOn DEF GiveUpSlot, Attempts

LEMMA SendKeeps ==
  ASSUME IInv, NEW c \in Clients, NEW d \in Domains, Send(c, d)
  PROVE  IInv'
<1>1. CASE attempt[c][d] = "won"
  BY <1>1, AttemptGoesOn DEF Send, Attempts
<1>2. CASE attempt[c][d] = "lost"
  BY <1>2, AttemptGoesOn DEF Send, Attempts
<1>3. QED
  BY <1>1, <1>2 DEF Send

\* A dial is only made while the run's context lives, and then the run was
\* started for Cloudflare.
LEMMA DialKeeps ==
  ASSUME IInv, NEW c \in Clients, NEW d \in Domains, Dial(c, d)
  PROVE  IInv'
<1>1. attempt[c][d] = "dial" /\ ~RunCancelled(c)
  BY DEF Dial, AttemptCancelled
<1>2. RunOf(c) # 0
  BY <1>1, Here, NothingOfNobody DEF Shape, RunOf, Awaited, Handlers
<1>3. RunOf(c) \in Runs /\ ctx[RunOf(c)] = "live"
  BY <1>1, <1>2, Here DEF RunCancelled, RunOf, Handlers, IInv, TypeOK
<1>4. UsesCloudflare(transport[RunOf(c)])
  BY <1>1, <1>3, Here DEF Allowed
<1>5. QED
  BY <1>1, <1>4, AttemptGoesOn DEF Dial, Attempts

LEMMA AcquireSlotKeeps ==
  ASSUME IInv, NEW c \in Clients, NEW d \in Domains, AcquireSlot(c, d)
  PROVE  IInv'
<1>1. /\ attempt[c][d] = "slot" /\ slots < GlobalParallel /\ slots' = slots + 1
      /\ At(c, d, "dial") /\ UNCHANGED <<Global, cooldown, handler, socket>>
  BY DEF AcquireSlot
<1>2. /\ attempt'[c][d] = "dial"
      /\ \A f \in Domains \ {d} : attempt'[c][f] = attempt[c][f]
      /\ \A e \in Clients \ {c} : attempt'[e] = attempt[e]
  BY <1>1, Here, AtFacts DEF Attempts
<1>3. SlotsHeld'
  BY <1>1, <1>2, SlotTaken DEF IInv
<1>4. socket' = socket /\ socket \in [Clients -> [Paths -> Sockets]] /\ cooldown' \subseteq Domains
  BY <1>1 DEF IInv, TypeOK
<1>5. QED
  BY <1>1, <1>3, <1>4, AttemptMoves DEF Attempts

LEMMA LostKeeps ==
  ASSUME IInv, NEW c \in Clients, NEW d \in Domains,
         attempt[c][d] \in {"dial", "upgrade"}, At(c, d, "lost"), slots' = slots - 1,
         UNCHANGED <<Global, handler, socket>>, cooldown' \subseteq Domains
  PROVE  IInv'
<1>1. /\ attempt'[c][d] = "lost"
      /\ \A f \in Domains \ {d} : attempt'[c][f] = attempt[c][f]
      /\ \A e \in Clients \ {c} : attempt'[e] = attempt[e]
  BY Here, AtFacts DEF Attempts
<1>2. SlotsHeld'
  BY <1>1, SlotLeft DEF IInv
<1>3. socket' = socket /\ socket \in [Clients -> [Paths -> Sockets]]
  BY DEF IInv, TypeOK
<1>4. QED
  BY <1>2, <1>3, AttemptMoves DEF Attempts

LEMMA AttemptFailsKeeps ==
  ASSUME IInv, NEW c \in Clients, NEW d \in Domains, AttemptFails(c, d)
  PROVE  IInv'
<1>1. cooldown' \subseteq Domains
  BY DEF AttemptFails, IInv, TypeOK
<1>2. QED
  BY <1>1, LostKeeps DEF AttemptFails

LEMMA TooManyRequestsKeeps ==
  ASSUME IInv, NEW c \in Clients, NEW d \in Domains, TooManyRequests(c, d)
  PROVE  IInv'
<1>1. cooldown' \subseteq Domains
  BY DEF TooManyRequests, IInv, TypeOK
<1>2. QED
  BY <1>1, LostKeeps DEF TooManyRequests

LEMMA UpgradeKeeps ==
  ASSUME IInv, NEW c \in Clients, NEW d \in Domains, Upgrade(c, d)
  PROVE  IInv'
<1>1. /\ attempt[c][d] = "upgrade" /\ At(c, d, "won") /\ slots' = slots - 1
      /\ socket' = [socket EXCEPT ![c][d] = "open"]
      /\ cooldown' = cooldown \ {d} /\ UNCHANGED <<Global, handler>>
  BY DEF Upgrade
<1>2. /\ attempt'[c][d] = "won"
      /\ \A f \in Domains \ {d} : attempt'[c][f] = attempt[c][f]
      /\ \A e \in Clients \ {c} : attempt'[e] = attempt[e]
  BY <1>1, Here, AtFacts DEF Attempts
<1>3. SlotsHeld'
  BY <1>1, <1>2, SlotLeft DEF IInv
<1>4. /\ socket' \in [Clients -> [Paths -> Sockets]]
      /\ \A p \in Paths \ {d} : socket'[c][p] = socket[c][p]
      /\ \A e \in Clients \ {c} : socket'[e] = socket[e]
  BY <1>1, Here, SocketFacts DEF Sockets, Paths
<1>5. cooldown' \subseteq Domains
  BY <1>1 DEF IInv, TypeOK
<1>6. QED
  BY <1>1, <1>3, <1>4, <1>5, AttemptMoves DEF Attempts

LEMMA CloseLateKeeps ==
  ASSUME IInv, NEW c \in Clients, NEW d \in Domains, CloseLate(c, d)
  PROVE  IInv'
<1>1. /\ handler[c].step # "first" /\ attempt[c][d] = "won" /\ At(c, d, "empty")
      /\ socket' = [socket EXCEPT ![c][d] = "closing"]
      /\ UNCHANGED <<Global, cooldown, slots, handler>>
  BY DEF CloseLate
<1>2. /\ attempt'[c][d] = "empty"
      /\ \A f \in Domains \ {d} : attempt'[c][f] = attempt[c][f]
      /\ \A e \in Clients \ {c} : attempt'[e] = attempt[e]
  BY <1>1, Here, AtFacts DEF Attempts
<1>3. \A e \in Clients, f \in Domains :
        attempt'[e][f] \in {"dial", "upgrade"} <=> attempt[e][f] \in {"dial", "upgrade"}
  BY <1>1, <1>2
<1>4. SlotsHeld'
  BY <1>1, <1>3, SlotsStay DEF IInv
<1>5. /\ socket' \in [Clients -> [Paths -> Sockets]] /\ socket'[c][d] = "closing"
      /\ \A p \in Paths \ {d} : socket'[c][p] = socket[c][p]
      /\ \A e \in Clients \ {c} : socket'[e] = socket[e]
  BY <1>1, Here, SocketFacts DEF Sockets, Paths
<1>6. cooldown' \subseteq Domains
  BY <1>1 DEF IInv, TypeOK
<1>7. QED
  BY <1>1, <1>4, <1>5, <1>6, AttemptMoves DEF Attempts

LEMMA CloseSocketKeeps ==
  ASSUME IInv, NEW c \in Clients, NEW d \in Domains, CloseSocket(c, d) \/ Collect(c, d)
  PROVE  IInv'
<1>1. /\ socket' = [socket EXCEPT ![c][d] = "none"]
      /\ attempt' = attempt /\ handler' = handler
      /\ UNCHANGED <<Global, cooldown, slots>>
  BY DEF CloseSocket, Collect
<1>2. /\ UNCHANGED <<lifecycle, servers, cfproxyEnabled, slots>>
      /\ domains' \subseteq Domains /\ active' \in Domains /\ cooldown' \subseteq Domains
  BY <1>1 DEF Global, shared, IInv, TypeOK
<1>3. /\ socket' \in [Clients -> [Paths -> Sockets]] /\ socket'[c][d] = "none"
      /\ \A p \in Paths \ {d} : socket'[c][p] = socket[c][p]
      /\ \A e \in Clients \ {c} : socket'[e] = socket[e]
  BY <1>1, Here, SocketFacts DEF Sockets, Paths
<1>4. \A p \in Paths : socket'[c][p] = "open" => socket[c][p] = "open"
  BY <1>3
<1>5. Shape(handler'[c], attempt'[c], socket'[c])
  <2>1. handler[c].winner = None \/ handler[c].winner \in Paths
    BY Here DEF Handlers, Paths
  <2>2. QED
    BY <1>1, <1>4, <2>1, Here DEF Shape, Paths
<1>6. Allowed(c)'
  BY <1>1, <1>2, <1>4, AllowedStays DEF Paths
<1>7. ConnectionsTyped' /\ OnlyConnection(c)
  BY <1>1, <1>3, Here DEF ConnectionsTyped, OnlyConnection
<1>8. QED
  BY <1>1, <1>2, <1>5, <1>6, <1>7, QuietStep

-----------------------------------------------------------------------------
(* The handler and its attempts together.                                  *)

\* A step of c that changes its handler and its attempts, in the same run, and
\* neither takes nor leaves a slot.
LEMMA Together ==
  ASSUME IInv, NEW c \in Clients, NEW h \in Handlers, NEW a \in [Domains -> Attempts],
         handler' = [handler EXCEPT ![c] = h], attempt' = [attempt EXCEPT ![c] = a],
         UNCHANGED <<lifecycle, servers, cfproxyEnabled, domains, cooldown, slots>>,
         active' \in Domains,
         socket' \in [Clients -> [Paths -> Sockets]],
         \A e \in Clients \ {c} : socket'[e] = socket[e],
         \A d \in Domains : a[d] \in {"dial", "upgrade"} <=> attempt[c][d] \in {"dial", "upgrade"},
         Shape(h, a, socket'[c]), Allowed(c)'
  PROVE  IInv'
<1>1. ConnectionsTyped
  BY Here
<1>2. /\ handler'[c] = h /\ attempt'[c] = a
      /\ \A e \in Clients \ {c} : handler'[e] = handler[e] /\ attempt'[e] = attempt[e]
      /\ handler' \in [Clients -> Handlers] /\ attempt' \in [Clients -> [Domains -> Attempts]]
  BY <1>1 DEF ConnectionsTyped
<1>3. domains' \subseteq Domains /\ cooldown' \subseteq Domains
  BY DEF IInv, TypeOK
<1>4. ConnectionsTyped' /\ OnlyConnection(c)
  BY <1>2 DEF ConnectionsTyped, OnlyConnection
<1>5. \A d \in Domains :
        attempt'[c][d] \in {"dial", "upgrade"} <=> attempt[c][d] \in {"dial", "upgrade"}
  BY <1>2
<1>6. Shape(handler'[c], attempt'[c], socket'[c])
  BY <1>2
<1>7. QED
  BY <1>3, <1>4, <1>5, <1>6, QuietStep

LEMMA TryActiveKeeps ==
  ASSUME IInv, NEW c \in Clients, TryActive(c)
  PROVE  IInv'
<1> DEFINE h == [handler[c] EXCEPT !.step = "first", !.known = active, !.left = domains \ {active}]
           a == [attempt[c] EXCEPT ![active] = "check"]
<1>1. /\ handler[c].step = "cloudflare" /\ cfproxyEnabled
      /\ handler' = [handler EXCEPT ![c] = h] /\ attempt' = [attempt EXCEPT ![c] = a]
      /\ UNCHANGED <<Global, cooldown, slots, socket>>
  BY DEF TryActive
<1>2. /\ handler[c] \in Handlers /\ attempt[c] \in [Domains -> Attempts]
      /\ Shape(handler[c], attempt[c], socket[c]) /\ Allowed(c)
      /\ active \in Domains /\ domains \subseteq Domains
  BY Here DEF IInv, TypeOK
<1>3. h \in Handlers /\ a \in [Domains -> Attempts]
  BY <1>2 DEF Handlers, Attempts
<1>4. ~handler[c].drains /\ \A d \in Domains : attempt[c][d] = "none"
  BY <1>1, <1>2 DEF Shape, Awaited, Handlers
<1>5. Shape(h, a, socket[c])
  <2>1. /\ h.step = "first" /\ h.known = active /\ h.winner = handler[c].winner /\ h.run = handler[c].run
        /\ ~h.drains /\ h.left = domains \ {active}
    BY <1>2, <1>4 DEF Handlers
  <2>2. h.winner = None /\ None \notin Domains
    BY <1>1, <1>2, <2>1, TelegramAssumption DEF Shape, Paths
  <2>3. Awaited(h) = {active}
    BY <2>1 DEF Awaited
  <2>4. a[active] = "check" /\ \A d \in Domains \ {active} : a[d] = "none"
    BY <1>2, <1>4
  <2>5. \A p \in Paths : p = TCP \/ p \in Domains => socket[c][p] # "open"
    BY <1>1, <1>2, <1>4 DEF Shape, Paths
  <2>6. h.run # 0
    BY <1>1, <1>2, <2>1 DEF Shape
  <2>7. QED
    BY <1>2, <2>1, <2>2, <2>3, <2>4, <2>5, <2>6 DEF Shape, Paths
<1>6. Allowed(c)'
  <2>1. handler'[c] = h /\ attempt'[c] = a /\ socket' = socket
    BY <1>1, <1>2, Here DEF ConnectionsTyped
  <2>2. RunOf(c)' = RunOf(c) /\ started' = started /\ ctx' = ctx /\ transport' = transport
    BY <1>1, <1>2, <2>1 DEF RunOf, Handlers, Global, lifecycle
  <2>3. RunOf(c) \in Runs
    BY <1>1, <1>2 DEF RunOf, Shape, Handlers
  <2>4. ctx[RunOf(c)] = "live" => UsesCloudflare(transport[RunOf(c)])
    <3>1. ASSUME ctx[RunOf(c)] = "live"
          PROVE  RunOf(c) = started /\ started # 0
      BY <1>2, <2>3, <3>1 DEF IInv, OneLiveRun, Allowed, Runs
    <3>2. QED
      BY <1>1, <3>1 DEF IInv, SwitchOfLast
  <2>5. \A d \in Domains : a[d] \notin {"upgrade", "won", "sent"}
    BY <1>2, <1>4
  <2>6. QED
    BY <1>2, <2>1, <2>2, <2>4, <2>5 DEF Allowed
<1>7. \A d \in Domains : a[d] \in {"dial", "upgrade"} <=> attempt[c][d] \in {"dial", "upgrade"}
  BY <1>2, <1>4
<1>8. /\ UNCHANGED <<lifecycle, servers, cfproxyEnabled, domains, cooldown, slots>>
      /\ active' \in Domains /\ socket' = socket /\ socket' \in [Clients -> [Paths -> Sockets]]
  BY <1>1 DEF Global, shared, IInv, TypeOK
<1> HIDE DEF h, a
<1>9. QED
  BY <1>1, <1>3, <1>5, <1>6, <1>7, <1>8, Together

\* What a handler knows while it waits for its first attempt, or for the race.
LEMMA WhileWaiting ==
  ASSUME IInv, NEW c \in Clients, handler[c].step \in {"first", "race"}
  PROVE  /\ ~handler[c].drains /\ handler[c].winner = None /\ None \notin Domains
         /\ handler[c].run \in Runs /\ socket[c][TCP] # "open"
         /\ \A d \in Domains : socket[c][d] = "open" => attempt[c][d] \in {"won", "sent"}
<1>1. handler[c] \in Handlers /\ Shape(handler[c], attempt[c], socket[c])
  BY Here
<1>2. QED
  BY <1>1, TelegramAssumption DEF Shape, Handlers, Paths

LEMMA FirstWinsKeeps ==
  ASSUME IInv, NEW c \in Clients, FirstWins(c)
  PROVE  IInv'
<1> DEFINE k == handler[c].known
           h == [handler[c] EXCEPT !.step = "init", !.winner = k, !.left = {}]
           a == [attempt[c] EXCEPT ![k] = "none"]
<1>1. /\ handler[c].step = "first" /\ attempt[c][k] = "won"
      /\ handler' = [handler EXCEPT ![c] = h] /\ attempt' = [attempt EXCEPT ![c] = a]
      /\ UNCHANGED <<Global, cooldown, slots, socket>>
  BY DEF FirstWins, At
<1>2. /\ handler[c] \in Handlers /\ attempt[c] \in [Domains -> Attempts]
      /\ Shape(handler[c], attempt[c], socket[c]) /\ k \in Domains
  BY <1>1, Here DEF Shape
<1>3. h \in Handlers /\ a \in [Domains -> Attempts]
  BY <1>2 DEF Handlers, Attempts
<1>4. /\ h.step = "init" /\ h.winner = k /\ h.left = {} /\ h.run = handler[c].run
      /\ h.drains = handler[c].drains
  BY <1>2 DEF Handlers
<1>5. \A d \in Domains : a[d] = "none" /\ (d # k => attempt[c][d] = "none")
  BY <1>1, <1>2 DEF Shape, Awaited
<1>6. Shape(h, a, socket[c])
  <2>1. ~h.drains /\ k # None /\ h.run # 0 /\ socket[c][TCP] # "open"
    BY <1>1, <1>2, <1>4, WhileWaiting DEF Runs
  <2>2. \A d \in Domains : socket[c][d] = "open" => d = k
    BY <1>1, <1>5, WhileWaiting
  <2>3. QED
    BY <1>4, <1>5, <2>1, <2>2 DEF Shape, Awaited
<1>7. \A d \in Domains : a[d] \in {"dial", "upgrade"} <=> attempt[c][d] \in {"dial", "upgrade"}
  BY <1>1, <1>5
<1>8. /\ UNCHANGED <<lifecycle, servers, cfproxyEnabled, domains, cooldown, slots>>
      /\ active' \in Domains /\ socket' = socket /\ socket' \in [Clients -> [Paths -> Sockets]]
  BY <1>1 DEF Global, shared, IInv, TypeOK
<1> HIDE DEF h, a
<1>9. Allowed(c)'
  <2>1. handler'[c] = h /\ attempt'[c] = a
    BY <1>1, Here DEF ConnectionsTyped
  <2>2. QED
    BY <1>4, <1>5, <1>8, <2>1, AllowedStays
<1>10. QED
  BY <1>1, <1>3, <1>6, <1>7, <1>8, <1>9, Together

LEMMA FirstLosesKeeps ==
  ASSUME IInv, NEW c \in Clients, FirstLoses(c)
  PROVE  IInv'
<1> DEFINE k == handler[c].known
           left == handler[c].left
           h == [handler[c] EXCEPT !.step = IF left = {} THEN "tcp" ELSE "race"]
           a == [d \in Domains |-> IF d \in left THEN "sem" ELSE "none"]
<1>1. /\ handler[c].step = "first" /\ attempt[c][k] = "lost"
      /\ handler' = [handler EXCEPT ![c] = h] /\ attempt' = [attempt EXCEPT ![c] = a]
      /\ UNCHANGED <<Global, cooldown, slots, socket>>
  <2>1. handler' = [handler EXCEPT ![c] = h]
    BY DEF FirstLoses, To
  <2>2. QED
    BY <2>1 DEF FirstLoses
<1>2. /\ handler[c] \in Handlers /\ attempt[c] \in [Domains -> Attempts]
      /\ Shape(handler[c], attempt[c], socket[c]) /\ k \in Domains /\ left \subseteq Domains
      /\ Allowed(c)
  BY <1>1, Here DEF Shape, Handlers
<1>3. h \in Handlers /\ a \in [Domains -> Attempts]
  BY <1>2 DEF Handlers, Attempts
<1>4. /\ h.step = IF left = {} THEN "tcp" ELSE "race"
      /\ h.winner = handler[c].winner /\ h.left = left /\ h.run = handler[c].run
      /\ h.drains = handler[c].drains
  BY <1>2 DEF Handlers
<1>5. \A d \in Domains : d # k => attempt[c][d] = "none"
  BY <1>1, <1>2 DEF Shape, Awaited
<1>6. \A d \in Domains : socket[c][d] # "open"
  BY <1>1, <1>5, WhileWaiting
<1>7. Shape(h, a, socket[c])
  <2>1. ~h.drains /\ h.winner = None /\ h.run # 0 /\ socket[c][TCP] # "open" /\ None \notin left
    BY <1>1, <1>2, <1>4, WhileWaiting DEF Runs
  <2>2. Awaited(h) = left
    BY <1>4, <2>1 DEF Awaited
  <2>3. h.step \in {"tcp", "race"}
    BY <1>4
  <2>4. QED
    BY <1>4, <1>6, <2>1, <2>2, <2>3 DEF Shape
<1>8. \A d \in Domains : a[d] \in {"dial", "upgrade"} <=> attempt[c][d] \in {"dial", "upgrade"}
  BY <1>1, <1>5
<1>9. /\ UNCHANGED <<lifecycle, servers, cfproxyEnabled, domains, cooldown, slots>>
      /\ active' \in Domains /\ socket' = socket /\ socket' \in [Clients -> [Paths -> Sockets]]
  BY <1>1 DEF Global, shared, IInv, TypeOK
<1>10. Allowed(c)'
  <2>1. handler'[c] = h /\ attempt'[c] = a
    BY <1>1, Here DEF ConnectionsTyped
  <2>2. RunOf(c)' = RunOf(c) /\ started' = started /\ ctx' = ctx /\ transport' = transport
    BY <1>4, <1>9, <2>1 DEF RunOf, lifecycle
  <2>3. ctx[RunOf(c)] = "live" => UsesCloudflare(transport[RunOf(c)])
    BY <1>1, <1>2 DEF Allowed
  <2>4. \A d \in Domains : a[d] \in {"sem", "none"}
    OBVIOUS
  <2> HIDE DEF a, h
  <2>5. QED
    BY <1>2, <1>6, <1>9, <2>1, <2>2, <2>3, <2>4 DEF Allowed
<1> HIDE DEF h, a
<1>11. QED
  BY <1>1, <1>3, <1>7, <1>8, <1>9, <1>10, Together

\* The handler of c hears of d, and its attempt is over.
LEMMA Heard ==
  ASSUME IInv, NEW c \in Clients, NEW d \in handler[c].left, NEW h \in Handlers,
         handler[c].step = "race" \/ handler[c].drains,
         attempt[c][d] \in {"sent", "empty"},
         handler' = [handler EXCEPT ![c] = h], At(c, d, "none"),
         UNCHANGED <<lifecycle, servers, cfproxyEnabled, domains, cooldown, slots>>,
         active' \in Domains,
         socket' \in [Clients -> [Paths -> Sockets]],
         \A e \in Clients \ {c} : socket'[e] = socket[e],
         \A p \in Paths : socket'[c][p] = "open" => socket[c][p] = "open",
         Shape(h, [attempt[c] EXCEPT ![d] = "none"], socket'[c]),
         h.run = handler[c].run \/ h = NoHandler
  PROVE  IInv'
<1> DEFINE a == [attempt[c] EXCEPT ![d] = "none"]
<1>1. /\ ConnectionsTyped /\ handler[c] \in Handlers /\ attempt[c] \in [Domains -> Attempts]
      /\ d \in Domains
  BY Here DEF Handlers
<1>2. attempt' = [attempt EXCEPT ![c] = a]
  BY DEF At
<1>3. a \in [Domains -> Attempts] /\ a[d] = "none" /\ \A f \in Domains \ {d} : a[f] = attempt[c][f]
  BY <1>1 DEF Attempts
<1>4. \A f \in Domains : a[f] \in {"dial", "upgrade"} <=> attempt[c][f] \in {"dial", "upgrade"}
  BY <1>1, <1>3
<1>5. handler'[c] = h /\ attempt'[c] = a
  BY <1>1, <1>2 DEF ConnectionsTyped
<1> HIDE DEF a
<1>6. Allowed(c)'
  <2>1. CASE h.run = handler[c].run
    <3>1. \A f \in Domains : socket'[c][f] = "open" => socket[c][f] = "open"
      BY DEF Paths
    <3>2. QED
      BY <1>3, <1>5, <2>1, <3>1, AllowedStays
  <2>2. CASE h = NoHandler
    <3>1. h.run <= started /\ h.step = "idle" /\ ~h.drains
      BY <2>2, TelegramAssumption DEF NoHandler, IInv, TypeOK
    <3>2. Shape(handler'[c], attempt'[c], socket'[c])
      BY <1>5 DEF a
    <3>3. QED
      BY <1>5, <3>1, <3>2, AllowedIdle
  <2>3. QED
    BY <2>1, <2>2
<1>7. Shape(h, a, socket'[c])
  BY DEF a
<1>8. QED
  BY <1>2, <1>3, <1>4, <1>6, <1>7, Together

LEMMA ReceiveWinnerKeeps ==
  ASSUME IInv, NEW c \in Clients, NEW d \in Domains, ReceiveWinner(c, d)
  PROVE  IInv'
<1> DEFINE left == handler[c].left
           h == [handler[c] EXCEPT !.step = "init", !.winner = d, !.left = left \ {d},
                                   !.drains = left # {d}]
           a == [attempt[c] EXCEPT ![d] = "none"]
<1>1. /\ handler[c].step = "race" /\ d \in left /\ attempt[c][d] = "sent"
      /\ handler' = [handler EXCEPT ![c] = h] /\ At(c, d, "none") /\ active' = d
      /\ UNCHANGED <<lifecycle, servers, cfproxyEnabled, domains, cooldown, slots, socket>>
  BY DEF ReceiveWinner
<1>2. /\ handler[c] \in Handlers /\ attempt[c] \in [Domains -> Attempts]
      /\ Shape(handler[c], attempt[c], socket[c]) /\ left \subseteq Domains
      /\ socket \in [Clients -> [Paths -> Sockets]]
  BY Here DEF Handlers, ConnectionsTyped
<1>3. h \in Handlers
  <2>1. (left # {d}) \in BOOLEAN
    OBVIOUS
  <2>2. QED
    BY <1>2, <2>1 DEF Handlers
<1>4. /\ h.step = "init" /\ h.winner = d /\ h.left = left \ {d} /\ h.run = handler[c].run
      /\ h.drains <=> left # {d}
  BY <1>2 DEF Handlers
<1>5. Shape(h, a, socket[c])
  <2>1. Awaited(h) = left \ {d}
    BY <1>4 DEF Awaited
  <2>2. Awaited(handler[c]) = left
    BY <1>1 DEF Awaited
  <2>3. a[d] = "none" /\ \A f \in Domains \ {d} : a[f] = attempt[c][f]
    BY <1>2
  <2>4. \A f \in Domains : a[f] # "none" <=> f \in left \ {d}
    BY <1>2, <2>2, <2>3 DEF Shape
  <2>5. d # None /\ h.run # 0 /\ socket[c][TCP] # "open"
    BY <1>1, <1>4, WhileWaiting DEF Runs
  <2>6. \A f \in Domains : socket[c][f] = "open" => f = d \/ a[f] \in {"won", "sent"}
    BY <1>1, <2>3, WhileWaiting
  <2> HIDE DEF a, h
  <2>7. QED
    BY <1>4, <2>1, <2>4, <2>5, <2>6 DEF Shape
<1> HIDE DEF h
<1>6. QED
  BY <1>1, <1>2, <1>3, <1>4, <1>5, Heard

LEMMA ReceiveNothingKeeps ==
  ASSUME IInv, NEW c \in Clients, NEW d \in Domains, ReceiveNothing(c, d)
  PROVE  IInv'
<1> DEFINE left == handler[c].left
           h == [handler[c] EXCEPT !.step = IF left = {d} THEN "tcp" ELSE @, !.left = left \ {d}]
           a == [attempt[c] EXCEPT ![d] = "none"]
<1>1. /\ handler[c].step = "race" /\ d \in left /\ attempt[c][d] = "empty"
      /\ handler' = [handler EXCEPT ![c] = h] /\ At(c, d, "none")
      /\ UNCHANGED <<Global, cooldown, slots, socket>>
  BY DEF ReceiveNothing
<1>2. /\ handler[c] \in Handlers /\ attempt[c] \in [Domains -> Attempts]
      /\ Shape(handler[c], attempt[c], socket[c]) /\ left \subseteq Domains
      /\ socket \in [Clients -> [Paths -> Sockets]] /\ active \in Domains
  BY Here DEF Handlers, ConnectionsTyped, IInv, TypeOK
<1>3. h \in Handlers
  BY <1>1, <1>2 DEF Handlers
<1>4. /\ h.step = IF left = {d} THEN "tcp" ELSE "race"
      /\ h.winner = handler[c].winner /\ h.left = left \ {d} /\ h.run = handler[c].run
      /\ h.drains = handler[c].drains
  BY <1>1, <1>2 DEF Handlers
<1>5. Shape(h, a, socket[c])
  <2>1. ~h.drains /\ h.winner = None /\ None \notin left /\ h.run # 0 /\ socket[c][TCP] # "open"
    BY <1>1, <1>2, <1>4, WhileWaiting DEF Runs
  <2>2. Awaited(h) = left \ {d} /\ Awaited(handler[c]) = left
    BY <1>1, <1>4, <2>1 DEF Awaited
  <2>3. a[d] = "none" /\ \A f \in Domains \ {d} : a[f] = attempt[c][f]
    BY <1>2
  <2>4. \A f \in Domains : a[f] # "none" <=> f \in left \ {d}
    BY <1>2, <2>2, <2>3, ZenonT(40) DEF Shape
  <2>5. \A f \in Domains : socket[c][f] = "open" => a[f] \in {"won", "sent"}
    BY <1>1, <2>3, WhileWaiting
  <2> HIDE DEF a, h
  <2>6. QED
    BY <1>4, <2>1, <2>2, <2>4, <2>5 DEF Shape
<1>6. /\ UNCHANGED <<lifecycle, servers, cfproxyEnabled, domains, cooldown, slots>>
      /\ active' \in Domains /\ socket' = socket
  BY <1>1, <1>2 DEF Global, shared
<1> HIDE DEF h
<1>7. QED
  BY <1>1, <1>2, <1>3, <1>4, <1>5, <1>6, Heard

LEMMA DrainKeeps ==
  ASSUME IInv, NEW c \in Clients, NEW d \in Domains, Drain(c, d)
  PROVE  IInv'
<1> DEFINE left == handler[c].left
           rest == [handler[c] EXCEPT !.left = left \ {d}, !.drains = left # {d}]
           h == IF rest.step = "idle" THEN Finished(rest) ELSE rest
           a == [attempt[c] EXCEPT ![d] = "none"]
           v == IF attempt[c][d] = "sent" THEN "closing" ELSE socket[c][d]
<1>1. /\ handler[c].drains /\ d \in left /\ attempt[c][d] \in {"sent", "empty"}
      /\ handler' = [handler EXCEPT ![c] = h] /\ At(c, d, "none")
      /\ socket' = [socket EXCEPT ![c][d] = v]
      /\ UNCHANGED <<Global, cooldown, slots>>
  BY DEF Drain
<1>2. /\ handler[c] \in Handlers /\ attempt[c] \in [Domains -> Attempts]
      /\ Shape(handler[c], attempt[c], socket[c]) /\ left \subseteq Domains
      /\ socket[c] \in [Paths -> Sockets] /\ ConnectionsTyped /\ active \in Domains
      /\ d \in Paths /\ d # TCP /\ TCP \in Paths
  BY Here, TelegramAssumption DEF Handlers, IInv, TypeOK, Paths
<1>3. rest \in Handlers
  <2>1. (left # {d}) \in BOOLEAN
    OBVIOUS
  <2>2. QED
    BY <1>2, <2>1 DEF Handlers
<1>4. /\ rest.step = handler[c].step /\ rest.winner = handler[c].winner
      /\ rest.left = left \ {d} /\ rest.run = handler[c].run
      /\ rest.drains <=> left # {d}
  BY <1>2 DEF Handlers
<1>5. h \in Handlers
  BY <1>3, FinishedFacts
<1>6. /\ socket' \in [Clients -> [Paths -> Sockets]]
      /\ \A p \in Paths \ {d} : socket'[c][p] = socket[c][p]
      /\ \A e \in Clients \ {c} : socket'[e] = socket[e]
      /\ socket'[c][d] = v
  <2>1. v \in Sockets
    BY <1>2 DEF Sockets
  <2>2. socket' = [socket EXCEPT ![c][d] = v]
    BY <1>1
  <2> HIDE DEF v
  <2>3. QED
    BY <1>2, <2>1, <2>2, SocketFacts
<1>7. v # "open"
  BY <1>1, <1>2 DEF Shape
<1>8. \A p \in Paths : socket'[c][p] = "open" => socket[c][p] = "open" /\ p # d
  BY <1>6, <1>7
<1>9. a[d] = "none" /\ \A f \in Domains \ {d} : a[f] = attempt[c][f]
  BY <1>2
<1>10. handler[c].step \in {"init", "tcp", "relay", "unwind", "idle"} /\ Awaited(handler[c]) = left
  BY <1>1, <1>2 DEF Shape, Awaited
<1>11. \A f \in Domains : a[f] # "none" <=> f \in left \ {d}
  BY <1>2, <1>9, <1>10 DEF Shape
<1>12. Shape(rest, a, socket'[c]) \/ (rest.step = "idle" /\ ~rest.drains)
  <2>1. SUFFICES ASSUME rest.step # "idle" \/ rest.drains
                 PROVE  Shape(rest, a, socket'[c])
    OBVIOUS
  <2>2. Awaited(rest) = left \ {d}
    BY <1>4, <1>10 DEF Awaited
  <2>3. rest.winner = None \/ rest.winner \in Paths
    BY <1>3 DEF Handlers, Paths
  <2>4. \A f \in Domains : socket'[c][f] = "open" =>
          a[f] \in {"won", "sent"} \/ (f = rest.winner /\ rest.step \in {"init", "relay", "unwind"})
    BY <1>2, <1>4, <1>8, <1>9 DEF Shape, Paths
  <2>5. rest.run # 0
    BY <1>1, <1>2, <1>4 DEF Shape
  <2>6. socket'[c][TCP] = "open" => rest.step \in {"relay", "unwind"}
    BY <1>2, <1>4, <1>8 DEF Shape
  <2>7. rest.step = "tcp" \/ socket'[c][TCP] = "open" =>
          rest.winner = None \/ socket'[c][rest.winner] # "open"
    BY <1>2, <1>4, <1>8, <2>3 DEF Shape
  <2>8. rest.winner \notin rest.left /\ (rest.step = "init" => rest.winner # None)
    BY <1>2, <1>4 DEF Shape
  <2> HIDE DEF rest, a
  <2>9. QED
    BY <1>4, <1>10, <1>11, <2>1, <2>2, <2>4, <2>5, <2>6, <2>7, <2>8 DEF Shape
<1>13. Shape(h, a, socket'[c]) /\ (h.run = handler[c].run \/ h = NoHandler)
  <2>1. CASE rest.step # "idle"
    BY <1>4, <1>12, <2>1
  <2>2. CASE rest.step = "idle" /\ rest.drains
    <3>1. h = rest
      <4>1. h = [rest EXCEPT !.step = "idle"]
        BY <2>2 DEF Finished
      <4>2. QED
        BY <1>3, <2>2, <4>1 DEF Handlers
    <3>2. QED
      BY <1>4, <1>12, <2>2, <3>1
  <2>3. CASE rest.step = "idle" /\ ~rest.drains
    <3>1. h = NoHandler
      BY <2>3 DEF Finished
    <3>2. left \ {d} = {} /\ \A f \in Domains : a[f] = "none"
      BY <1>4, <1>11, <2>3
    <3>3. \A p \in Paths : socket'[c][p] # "open"
      BY <1>2, <1>4, <1>8, <1>9, <2>3, <3>2 DEF Shape, Paths
    <3> HIDE DEF a, h, rest
    <3>4. QED
      BY <1>2, <3>1, <3>2, <3>3, TelegramAssumption DEF Shape, Awaited, NoHandler, Paths
  <2>4. QED
    BY <1>3, <2>1, <2>2, <2>3 DEF Handlers
<1>14. /\ UNCHANGED <<lifecycle, servers, cfproxyEnabled, domains, cooldown, slots>>
       /\ active' \in Domains
  BY <1>1, <1>2 DEF Global, shared
<1> HIDE DEF h, rest, v
<1>15. QED
  BY <1>1, <1>5, <1>6, <1>8, <1>13, <1>14, Heard

-----------------------------------------------------------------------------
(* The theorems.                                                           *)

LEMMA InitIInv ==
  ASSUME Init
  PROVE  IInv
<1>1. Holders = {}
  BY DEF Init, Holders
<1>2. IsFiniteSet(Holders) /\ Cardinality(Holders) = 0
  BY <1>1, FS_EmptySet
<1>3. SlotsHeld
  BY <1>2, TelegramAssumption DEF Init, SlotsHeld
<1>4. OneServer /\ OneLiveRun /\ SwitchOfLast
  BY TelegramAssumption DEF Init, OneServer, OneLiveRun, SwitchOfLast, Idle, Runs
<1>5. TypeOK
  <2>1. Cardinality({g \in Runs : server[g] = "serving"}) <= 1
    BY <1>4, ServingOne
  <2>2. NoHandler \in Handlers
    BY DEF NoHandler, Handlers
  <2>3. (cfproxyEnabled \in BOOLEAN) /\ domains \subseteq Domains /\ active \in Domains
    BY DEF Init, Domains
  <2>4. QED
    BY <1>2, <2>1, <2>2, <2>3, TelegramAssumption
       DEF Init, TypeOK, Idle, Attempts, Sockets
<1>6. ASSUME NEW c \in Clients
      PROVE  Shape(handler[c], attempt[c], socket[c]) /\ Allowed(c)
  <2>1. handler[c] = NoHandler /\ started = 0
    BY DEF Init
  <2>2. \A d \in Domains : attempt[c][d] = "none"
    BY DEF Init
  <2>3. \A p \in Paths : socket[c][p] = "none"
    BY DEF Init
  <2>4. QED
    BY <2>1, <2>2, <2>3, TelegramAssumption
       DEF Shape, Awaited, Allowed, RunOf, NoHandler, Paths
<1>7. QED
  BY <1>3, <1>4, <1>5, <1>6 DEF IInv

LEMMA StepIInv ==
  IInv /\ [Next]_vars => IInv'
<1> SUFFICES ASSUME IInv, [Next]_vars
             PROVE  IInv'
  OBVIOUS
<1>1. ASSUME NEW t \in Transports, CallStart(t)
      PROVE  IInv'
  BY <1>1, CallStartKeeps
<1>2. CASE CallStop \/ Stopped \/ StartRun \/ StartTimesOut
  BY <1>2, CallStopKeeps, StoppedKeeps, StartRunKeeps, StartTimesOutKeeps
<1>3. ASSUME NEW g \in Runs,
             Listen(g) \/ ListenFails(g) \/ AcceptFails(g) \/ CloseListener(g) \/ Refresh(g)
      PROVE  IInv'
  BY <1>3, ListenKeeps, ListenFailsKeeps, AcceptFailsKeeps, CloseListenerKeeps, RefreshKeeps
<1>4. ASSUME NEW g \in Runs, NEW c \in Clients, Accept(c, g)
      PROVE  IInv'
  BY <1>4, AcceptKeeps
<1>5. ASSUME NEW d \in Domains, CooldownEnds(d)
      PROVE  IInv'
  BY <1>5, CooldownEndsKeeps
<1>6. ASSUME NEW c \in Clients, HandlerStep(c) \/ RelayEnds(c)
      PROVE  IInv'
  <2>1. CASE HelloFails(c) \/ Hello(c) \/ Choose(c) \/ CloudflareOff(c) \/ TryActive(c)
    BY <2>1, HelloFailsKeeps, HelloKeeps, ChooseKeeps, CloudflareOffKeeps, TryActiveKeeps
  <2>2. CASE FirstWins(c) \/ FirstLoses(c)
    BY <2>2, FirstWinsKeeps, FirstLosesKeeps
  <2>3. ASSUME NEW d \in Domains, ReceiveWinner(c, d) \/ ReceiveNothing(c, d)
        PROVE  IInv'
    BY <2>3, ReceiveWinnerKeeps, ReceiveNothingKeeps
  <2>4. CASE SendInit(c) \/ SendInitFails(c) \/ DialTCP(c) \/ TCPFails(c)
    BY <2>4, SendInitKeeps, SendInitFailsKeeps, DialTCPKeeps, TCPFailsKeeps
  <2>5. CASE RelayCancelled(c) \/ RelayEnds(c) \/ Unwind(c)
    BY <2>5, RelayKeeps, UnwindKeeps
  <2>6. QED
    BY <1>6, <2>1, <2>2, <2>3, <2>4, <2>5 DEF HandlerStep
<1>7. ASSUME NEW c \in Clients, NEW d \in Domains,
             AttemptStep(c, d) \/ Drain(c, d) \/ CloseSocket(c, d) \/ Collect(c, d)
      PROVE  IInv'
  <2>1. CASE EnterRace(c, d) \/ LeaveRace(c, d) \/ CheckCooldown(c, d)
    BY <2>1, EnterRaceKeeps, LeaveRaceKeeps, CheckCooldownKeeps
  <2>2. CASE AcquireSlot(c, d) \/ GiveUpSlot(c, d) \/ Dial(c, d) \/ Upgrade(c, d)
    BY <2>2, AcquireSlotKeeps, GiveUpSlotKeeps, DialKeeps, UpgradeKeeps
  <2>3. CASE AttemptFails(c, d) \/ TooManyRequests(c, d) \/ Send(c, d) \/ CloseLate(c, d)
    BY <2>3, AttemptFailsKeeps, TooManyRequestsKeeps, SendKeeps, CloseLateKeeps
  <2>4. CASE Drain(c, d) \/ CloseSocket(c, d) \/ Collect(c, d)
    BY <2>4, DrainKeeps, CloseSocketKeeps
  <2>5. QED
    BY <1>7, <2>1, <2>2, <2>3, <2>4 DEF AttemptStep
<1>8. CASE UNCHANGED vars
  <2>1. /\ UNCHANGED <<lifecycle, cfproxyEnabled, Connections>>
        /\ server' = server /\ accepting' = accepting
        /\ domains' = domains /\ active' = active /\ cooldown' = cooldown
    BY <1>8 DEF vars, servers, shared, Connections
  <2>2. /\ server' \in [Runs -> {"none", "starting", "serving", "over"}]
        /\ accepting' \subseteq {g \in Runs : server'[g] = "serving"}
        /\ domains' \subseteq Domains /\ active' \in Domains /\ cooldown' \subseteq Domains
    BY <2>1 DEF IInv, TypeOK
  <2>3. QED
    BY <2>1, <2>2, ServerKeeps
<1>9. QED
  BY <1>1, <1>2, <1>3, <1>4, <1>5, <1>6, <1>7, <1>8 DEF Next

\* The invariant holds in every reachable state, for any number of connections,
\* domains and restarts and any limits on the attempts made at the same time.
THEOREM InductiveInvariant == Spec => []IInv
<1>1. Init => IInv
  BY InitIInv
<1>2. QED
  BY <1>1, StepIInv, PTL DEF Spec

\* The variables keep their types; and the counter of cfproxyAttemptSem is the
\* number of attempts inside it, never above its limit, and at most one run
\* serves the port (runProxy).
THEOREM TypeCorrect == Spec => []TypeOK
<1>1. IInv => TypeOK
  BY DEF IInv
<1>2. QED
  BY <1>1, InductiveInvariant, PTL

LEMMA InvImpliesOpenIsOwned ==
  IInv => \A c \in Clients, p \in Paths : OpenIsOwned(c, p)
<1> SUFFICES ASSUME IInv, NEW c \in Clients, NEW p \in Paths, socket[c][p] = "open"
             PROVE  \/ handler[c].step \in {"init", "relay", "unwind"} /\ p = Carrier(c)
                    \/ p \in Domains /\ attempt[c][p] = "won"
                    \/ /\ p \in Domains /\ attempt[c][p] = "sent" /\ p \in handler[c].left
                       /\ handler[c].step = "race" \/ handler[c].drains
  BY DEF OpenIsOwned
<1>1. Shape(handler[c], attempt[c], socket[c]) /\ handler[c] \in Handlers
  BY Here
<1>2. CASE p = TCP
  BY <1>1, <1>2 DEF Shape, Carrier
<1>3. CASE p \in Domains /\ attempt[c][p] \in {"won", "sent"}
  <2>1. p \in Awaited(handler[c])
    BY <1>1, <1>3 DEF Shape
  <2>2. QED
    BY <1>1, <1>3, <2>1 DEF Shape, Awaited
<1>4. CASE p \in Domains /\ attempt[c][p] \notin {"won", "sent"}
  <2>1. p = handler[c].winner /\ handler[c].step \in {"init", "relay", "unwind"}
    BY <1>1, <1>4 DEF Shape
  <2>2. socket[c][TCP] # "open"
    BY <1>1, <1>4, <2>1, TelegramAssumption DEF Shape, Paths
  <2>3. QED
    BY <2>1, <2>2 DEF Carrier
<1>5. QED
  BY <1>2, <1>3, <1>4 DEF Paths

\* However often the proxy is restarted with another transport under the
\* connections it has, none of them goes through Cloudflare unless its own run
\* was started so, though the switch doFallback looks at is one for all runs.
THEOREM PathIsAllowed == Spec => []PathAllowed
<1>1. IInv => PathAllowed
  BY DEF IInv, Allowed, PathAllowed
<1>2. QED
  BY <1>1, InductiveInvariant, PTL

-----------------------------------------------------------------------------
(* The semaphore of each handler.                                          *)

\* The goroutines of one race that are past the semaphore of their handler.
Narrow(c) == IsFiniteSet(Inside(c)) /\ Cardinality(Inside(c)) <= Parallel

LEMMA FewerInside ==
  ASSUME NEW c \in Clients, Narrow(c), Inside(c)' \subseteq Inside(c)
  PROVE  Narrow(c)'
<1>1. IsFiniteSet(Inside(c)') /\ Cardinality(Inside(c)') <= Cardinality(Inside(c))
  BY FS_Subset DEF Narrow
<1>2. Cardinality(Inside(c)) \in Nat /\ Cardinality(Inside(c)') \in Nat
  BY <1>1, FS_CardinalityType DEF Narrow
<1>3. QED
  BY <1>1, <1>2, TelegramAssumption DEF Narrow

\* Nobody is inside when no attempt is past waiting.
LEMMA NobodyInside ==
  ASSUME NEW c \in Clients, \A d \in Domains \ {handler[c].known} : attempt[c][d] \in {"none", "sem"}
  PROVE  Inside(c) = {}
  BY DEF Inside

\* The attempts of a handler that only moves, or that ends, stay inside or go.
LEMMA HandlerInside ==
  ASSUME IInv, NEW c \in Clients, HandlerStep(c) \/ RelayEnds(c)
  PROVE  Inside(c)' \subseteq Inside(c)
<1>1. ConnectionsTyped /\ handler[c] \in Handlers /\ Shape(handler[c], attempt[c], socket[c])
  BY Here
<1>2. ASSUME NEW step \in {"idle", "hello", "choose", "cloudflare", "first", "race", "init", "tcp",
                          "relay", "unwind"},
             To(c, step), attempt' = attempt
      PROVE  Inside(c)' \subseteq Inside(c)
  <2>1. handler'[c] = [handler[c] EXCEPT !.step = step]
    BY <1>1, <1>2, ToFacts
  <2>2. handler'[c].known = handler[c].known
    BY <1>1, <2>1 DEF Handlers
  <2>3. QED
    BY <1>2, <2>2 DEF Inside
<1>3. ASSUME Finish(c), attempt' = attempt, handler[c].step \notin {"first", "race"}
      PROVE  Inside(c)' \subseteq Inside(c)
  <2>1. handler'[c] = Finished(handler[c])
    BY <1>1, <1>3, FinishFacts
  <2>2. CASE handler[c].drains
    <3>1. handler'[c].known = handler[c].known
      BY <1>1, <2>1, <2>2 DEF Finished, Handlers
    <3>2. QED
      BY <1>3, <3>1 DEF Inside
  <2>3. CASE ~handler[c].drains
    <3>1. \A d \in Domains : attempt[c][d] = "none"
      BY <1>1, <1>3, <2>3 DEF Shape, Awaited
    <3>2. QED
      BY <1>3, <3>1 DEF Inside
  <2>4. QED
    BY <2>2, <2>3
<1>4. CASE Hello(c) \/ Choose(c) \/ CloudflareOff(c) \/ SendInit(c) \/ SendInitFails(c)
           \/ DialTCP(c) \/ RelayEnds(c) \/ RelayCancelled(c)
  BY <1>2, <1>4 DEF Hello, Choose, CloudflareOff, SendInit, SendInitFails, DialTCP, RelayEnds,
                    RelayCancelled
<1>5. CASE HelloFails(c) \/ TCPFails(c) \/ Unwind(c)
  BY <1>3, <1>5 DEF HelloFails, TCPFails, Unwind
<1>6. CASE TryActive(c)
  <2>1. \A d \in Domains : attempt[c][d] = "none"
    BY <1>1, <1>6 DEF TryActive, Shape, Awaited
  <2>2. handler'[c].known = active
    BY <1>1, <1>6 DEF TryActive, ConnectionsTyped, Handlers
  <2>3. \A d \in Domains \ {active} : attempt'[c][d] = attempt[c][d]
    BY <1>1, <1>6 DEF TryActive, ConnectionsTyped
  <2>4. QED
    BY <2>1, <2>2, <2>3, NobodyInside DEF Inside
<1>7. CASE FirstWins(c) \/ FirstLoses(c)
  <2>1. \A d \in Domains \ {handler[c].known} : attempt[c][d] = "none"
    BY <1>1, <1>7 DEF FirstWins, FirstLoses, Shape, Awaited
  <2>2. handler'[c].known = handler[c].known
    BY <1>1, <1>7 DEF FirstWins, FirstLoses, To, ConnectionsTyped, Handlers
  <2>3. \A d \in Domains \ {handler[c].known} : attempt'[c][d] \in {"none", "sem"}
    BY <1>1, <1>7, <2>1 DEF FirstWins, FirstLoses, At, ConnectionsTyped
  <2>4. QED
    BY <2>2, <2>3 DEF Inside
<1>8. ASSUME NEW d \in Domains, ReceiveWinner(c, d) \/ ReceiveNothing(c, d)
      PROVE  Inside(c)' \subseteq Inside(c)
  <2>1. handler'[c].known = handler[c].known
    BY <1>1, <1>8 DEF ReceiveWinner, ReceiveNothing, ConnectionsTyped, Handlers
  <2>2. At(c, d, "none")
    BY <1>8 DEF ReceiveWinner, ReceiveNothing
  <2>3. attempt'[c][d] = "none" /\ \A f \in Domains \ {d} : attempt'[c][f] = attempt[c][f]
    BY <1>1, <2>2, AtFacts DEF Attempts
  <2>4. QED
    BY <2>1, <2>3 DEF Inside
<1>9. QED
  BY <1>4, <1>5, <1>6, <1>7, <1>8 DEF HandlerStep

\* An attempt that is inside, or leaves, lets nobody in.
LEMMA AttemptInside ==
  ASSUME IInv, NEW c \in Clients, Narrow(c), NEW d \in Domains, AttemptStep(c, d)
  PROVE  Narrow(c)'
<1>1. ConnectionsTyped /\ handler[c] \in Handlers
  BY Here
<1>2. handler' = handler
  BY DEF AttemptStep, EnterRace, LeaveRace, CheckCooldown, AcquireSlot, GiveUpSlot, Dial, Upgrade,
         AttemptFails, TooManyRequests, Send, CloseLate
<1>3. CASE EnterRace(c, d)
  <2>1. \A f \in Domains \ {d} : attempt'[c][f] = attempt[c][f]
    BY <1>1, <1>3, AtFacts DEF EnterRace, Attempts
  <2>2. Inside(c)' \subseteq Inside(c) \cup {d}
    BY <1>2, <2>1 DEF Inside
  <2>3. d \notin Inside(c)
    BY <1>3 DEF EnterRace, Inside
  <2>4. /\ IsFiniteSet(Inside(c) \cup {d})
        /\ Cardinality(Inside(c) \cup {d}) = Cardinality(Inside(c)) + 1
    BY <2>3, FS_AddElement DEF Narrow
  <2>5. IsFiniteSet(Inside(c)') /\ Cardinality(Inside(c)') <= Cardinality(Inside(c)) + 1
    BY <2>2, <2>4, FS_Subset
  <2>6. Cardinality(Inside(c)) \in Nat /\ Cardinality(Inside(c)') \in Nat
    BY <2>5, FS_CardinalityType DEF Narrow
  <2>7. Cardinality(Inside(c)) < Parallel
    BY <1>3 DEF EnterRace
  <2>8. QED
    BY <2>5, <2>6, <2>7, TelegramAssumption DEF Narrow
<1>4. ASSUME NEW step \in Attempts, At(c, d, step),
             \/ step \in {"sent", "empty"}
             \/ attempt[c][d] \in {"check", "slot", "dial", "upgrade", "won", "lost"}
      PROVE  Narrow(c)'
  <2>1. attempt'[c][d] = step /\ \A f \in Domains \ {d} : attempt'[c][f] = attempt[c][f]
    BY <1>1, <1>4 DEF At, ConnectionsTyped
  <2>2. Inside(c)' \subseteq Inside(c)
    BY <1>2, <1>4, <2>1 DEF Inside
  <2>3. QED
    BY <2>2, FewerInside
<1>5. CASE LeaveRace(c, d) \/ Send(c, d) \/ CloseLate(c, d)
  BY <1>4, <1>5 DEF LeaveRace, Send, CloseLate, Attempts
<1>6. CASE CheckCooldown(c, d) \/ AcquireSlot(c, d) \/ GiveUpSlot(c, d) \/ Dial(c, d)
  BY <1>4, <1>6 DEF CheckCooldown, AcquireSlot, GiveUpSlot, Dial, Attempts
<1>7. CASE Upgrade(c, d) \/ AttemptFails(c, d) \/ TooManyRequests(c, d)
  BY <1>4, <1>7 DEF Upgrade, AttemptFails, TooManyRequests, Attempts
<1>8. QED
  BY <1>3, <1>5, <1>6, <1>7 DEF AttemptStep

\* Nor does the goroutine that stayed behind.
LEMMA DrainInside ==
  ASSUME IInv, NEW c \in Clients, NEW d \in Domains, Drain(c, d)
  PROVE  Inside(c)' \subseteq Inside(c)
<1> DEFINE h    == handler[c]
           rest == [h EXCEPT !.left = @ \ {d}, !.drains = h.left # {d}]
<1>1. ConnectionsTyped /\ h \in Handlers /\ Shape(h, attempt[c], socket[c])
  BY Here
<1>2. attempt'[c][d] = "none" /\ \A f \in Domains \ {d} : attempt'[c][f] = attempt[c][f]
  BY <1>1, AtFacts DEF Drain, Attempts
<1>3. rest \in Handlers /\ rest.known = h.known /\ rest.drains = (h.left # {d})
  BY <1>1 DEF Handlers
<1>4. handler'[c] = IF rest.step = "idle" THEN Finished(rest) ELSE rest
  BY <1>1 DEF Drain, ConnectionsTyped
<1>5. CASE handler'[c].known = h.known
  BY <1>2, <1>5 DEF Inside
<1>6. CASE handler'[c].known # h.known
  <2>1. ~rest.drains
    BY <1>3, <1>4, <1>6 DEF Finished, Handlers
  <2>2. h.left = {d}
    BY <1>3, <2>1
  <2>3. Awaited(h) = {d}
    BY <1>1, <2>2 DEF Drain, Shape, Awaited
  <2>4. \A f \in Domains : attempt'[c][f] = "none"
    BY <1>1, <1>2, <2>3 DEF Shape
  <2>5. QED
    BY <2>4 DEF Inside
<1>7. QED
  BY <1>5, <1>6

\* A step of another connection, or of none.
LEMMA OthersInside ==
  ASSUME NEW c \in Clients, handler'[c] = handler[c], attempt'[c] = attempt[c]
  PROVE  Inside(c)' = Inside(c)
  BY DEF Inside

LEMMA OnlyItsOwn ==
  ASSUME IInv, NEW c \in Clients, NEW e \in Clients \ {c},
         \/ HandlerStep(e) \/ RelayEnds(e)
         \/ \E d \in Domains : AttemptStep(e, d) \/ Drain(e, d) \/ CloseSocket(e, d) \/ Collect(e, d)
  PROVE  handler'[c] = handler[c] /\ attempt'[c] = attempt[c] /\ socket'[c] = socket[c]
<1>1. /\ handler \in [Clients -> Handlers] /\ attempt \in [Clients -> [Domains -> Attempts]]
      /\ socket \in [Clients -> [Paths -> Sockets]]
  BY DEF IInv, TypeOK
<1>2. CASE HelloFails(e) \/ Hello(e) \/ Choose(e) \/ CloudflareOff(e) \/ TryActive(e)
  BY <1>1, <1>2 DEF HelloFails, Hello, Choose, CloudflareOff, TryActive, To, Finish
<1>3. CASE FirstWins(e) \/ FirstLoses(e)
  BY <1>1, <1>3 DEF FirstWins, FirstLoses, To, At
<1>4. ASSUME NEW d \in Domains, ReceiveWinner(e, d) \/ ReceiveNothing(e, d)
      PROVE  handler'[c] = handler[c] /\ attempt'[c] = attempt[c] /\ socket'[c] = socket[c]
  BY <1>1, <1>4 DEF ReceiveWinner, ReceiveNothing, At
<1>5. CASE SendInit(e) \/ SendInitFails(e) \/ DialTCP(e) \/ TCPFails(e) \/ RelayCancelled(e)
           \/ RelayEnds(e) \/ Unwind(e)
  BY <1>1, <1>5 DEF SendInit, SendInitFails, DialTCP, TCPFails, RelayCancelled, RelayEnds, Unwind,
                    To, Finish
<1>6. ASSUME NEW d \in Domains, AttemptStep(e, d)
      PROVE  handler'[c] = handler[c] /\ attempt'[c] = attempt[c] /\ socket'[c] = socket[c]
  BY <1>1, <1>6
     DEF AttemptStep, EnterRace, LeaveRace, CheckCooldown, AcquireSlot, GiveUpSlot, Dial, Upgrade,
         AttemptFails, TooManyRequests, Send, CloseLate, At
<1>7. ASSUME NEW d \in Domains, Drain(e, d) \/ CloseSocket(e, d) \/ Collect(e, d)
      PROVE  handler'[c] = handler[c] /\ attempt'[c] = attempt[c] /\ socket'[c] = socket[c]
  BY <1>1, <1>7 DEF Drain, CloseSocket, Collect, At
<1>8. QED
  BY <1>2, <1>3, <1>4, <1>5, <1>6, <1>7 DEF HandlerStep

LEMMA StepNarrow ==
  ASSUME IInv, IInv', [Next]_vars, NEW c \in Clients, Narrow(c)
  PROVE  Narrow(c)'
<1>1. CASE handler'[c] = handler[c] /\ attempt'[c] = attempt[c]
  BY <1>1, OthersInside, FewerInside
<1>2. ASSUME NEW g \in Runs, NEW e \in Clients, Accept(e, g)
      PROVE  Narrow(c)'
  <2>1. attempt' = attempt /\ handler \in [Clients -> Handlers]
    BY <1>2 DEF Accept, IInv, TypeOK
  <2>2. handler'[c].known = handler[c].known
    BY <1>2, <2>1 DEF Accept, Handlers
  <2>3. Inside(c)' \subseteq Inside(c)
    BY <2>1, <2>2 DEF Inside
  <2>4. QED
    BY <2>3, FewerInside
<1>3. ASSUME NEW e \in Clients,
             \/ HandlerStep(e) \/ RelayEnds(e)
             \/ \E d \in Domains : AttemptStep(e, d) \/ Drain(e, d) \/ CloseSocket(e, d) \/ Collect(e, d)
      PROVE  Narrow(c)'
  <2>1. CASE e # c
    BY <1>1, <1>3, <2>1, OnlyItsOwn
  <2>2. CASE e = c /\ (HandlerStep(e) \/ RelayEnds(e))
    BY <2>2, HandlerInside, FewerInside
  <2>3. ASSUME NEW d \in Domains, e = c, AttemptStep(e, d)
        PROVE  Narrow(c)'
    BY <2>3, AttemptInside
  <2>4. ASSUME NEW d \in Domains, e = c, Drain(e, d)
        PROVE  Narrow(c)'
    BY <2>4, DrainInside, FewerInside
  <2>5. ASSUME NEW d \in Domains, e = c, CloseSocket(e, d) \/ Collect(e, d)
        PROVE  Narrow(c)'
    BY <1>1, <2>5 DEF CloseSocket, Collect
  <2>6. QED
    BY <1>3, <2>1, <2>2, <2>3, <2>4, <2>5
<1>4. ASSUME UNCHANGED Connections
      PROVE  Narrow(c)'
  BY <1>1, <1>4 DEF Connections
<1>5. CASE (\E t \in Transports : CallStart(t)) \/ CallStop \/ Stopped \/ StartRun \/ StartTimesOut
  BY <1>4, <1>5 DEF CallStart, CallStop, Stopped, StartRun, StartTimesOut
<1>6. ASSUME NEW g \in Runs,
             Listen(g) \/ ListenFails(g) \/ AcceptFails(g) \/ CloseListener(g) \/ Refresh(g)
      PROVE  Narrow(c)'
  BY <1>4, <1>6 DEF Listen, ListenFails, AcceptFails, CloseListener, Refresh
<1>7. ASSUME NEW d \in Domains, CooldownEnds(d)
      PROVE  Narrow(c)'
  BY <1>4, <1>7 DEF CooldownEnds
<1>8. CASE UNCHANGED vars
  BY <1>4, <1>8 DEF vars, Connections
<1>9. QED
  BY <1>2, <1>3, <1>5, <1>6, <1>7, <1>8 DEF Next

\* However many domains there are and whatever ends, is cancelled or starts
\* anew meanwhile, no connection has more than cfproxyFallbackParallel of the
\* goroutines of its race past their semaphore (cfproxyFallback).
THEOREM RaceIsNarrow == Spec => [](\A c \in Clients : Narrow(c))
<1>1. Init => \A c \in Clients : Narrow(c)
  <2>1. SUFFICES ASSUME Init, NEW c \in Clients
                 PROVE  Narrow(c)
    OBVIOUS
  <2>2. Inside(c) = {}
    BY <2>1 DEF Init, Inside
  <2>3. QED
    BY <2>2, FS_EmptySet, TelegramAssumption DEF Narrow
<1>2. /\ IInv /\ IInv' /\ [Next]_vars /\ (\A c \in Clients : Narrow(c))
      => (\A c \in Clients : Narrow(c))'
  BY StepNarrow
<1>3. QED
  BY <1>1, <1>2, InductiveInvariant, PTL DEF Spec
-----------------------------------------------------------------------------
(* What is left of a connection.                                           *)

\* At most one socket of a connection is left to the collector, and as long as
\* its handler runs that is the one the handler had chosen.
Left(c) == \A p \in Paths : FailedIsTheChosen(c, p)

LEMMA FewerFailed ==
  ASSUME NEW c \in Clients, Left(c),
         \A p \in Paths : socket'[c][p] = "failed" => socket[c][p] = "failed",
         \/ handler'[c] = NoHandler
         \/ handler'[c] = handler[c]
         \/ handler'[c].winner = handler[c].winner /\ handler[c] # NoHandler
         \/ \A p \in Paths : socket[c][p] # "failed"
  PROVE  Left(c)'
  BY DEF Left, FailedIsTheChosen

\* A handler that goes on keeps what it has chosen.
LEMMA StepKeepsWinner ==
  ASSUME NEW h \in Handlers, NEW step
  PROVE  [h EXCEPT !.step = step].winner = h.winner
BY DEF Handlers

LEMMA WinnerStays ==
  ASSUME ConnectionsTyped, NEW c \in Clients,
         NEW step \in {"tcp", "relay", "unwind"}, To(c, step)
  PROVE  handler'[c].winner = handler[c].winner
<1>1. handler[c] \in Handlers
  BY DEF ConnectionsTyped
<1>2. handler'[c] = [handler[c] EXCEPT !.step = step]
  BY ToFacts
<1>3. QED
  BY <1>1, <1>2, StepKeepsWinner

\* Before a handler has chosen there is none.
LEMMA NoneChosen ==
  ASSUME IInv, NEW c \in Clients, Left(c), handler[c] # NoHandler, handler[c].winner = None
  PROVE  \A p \in Paths : socket[c][p] # "failed"
  BY TelegramAssumption DEF Left, FailedIsTheChosen

LEMMA HandlerLeaves ==
  ASSUME IInv, NEW c \in Clients, Left(c), HandlerStep(c) \/ RelayEnds(c)
  PROVE  Left(c)'
<1>1. /\ ConnectionsTyped /\ handler[c] \in Handlers /\ socket[c] \in [Paths -> Sockets]
      /\ Shape(handler[c], attempt[c], socket[c])
  BY Here
<1>2. handler[c].step # "idle" => handler[c] # NoHandler
  BY DEF NoHandler
<1>3. handler[c].step \in {"hello", "choose", "cloudflare", "first", "race"} =>
        \A p \in Paths : socket[c][p] # "failed"
  BY <1>1, <1>2, NoneChosen DEF Shape
<1>4. Finished(handler[c]) = NoHandler \/ Finished(handler[c]).winner = handler[c].winner
  BY <1>1 DEF Finished, Handlers
<1>5. CASE HelloFails(c) \/ Hello(c) \/ Choose(c) \/ CloudflareOff(c) \/ TryActive(c)
  <2>1. socket' = socket /\ handler[c].step \in {"hello", "choose", "cloudflare"}
    BY <1>5 DEF HelloFails, Hello, Choose, CloudflareOff, TryActive
  <2>2. QED
    BY <1>3, <2>1, FewerFailed
<1>6. CASE FirstWins(c) \/ FirstLoses(c)
  <2>1. socket' = socket /\ handler[c].step = "first"
    BY <1>6 DEF FirstWins, FirstLoses
  <2>2. QED
    BY <1>3, <2>1, FewerFailed
<1>7. ASSUME NEW d \in Domains, ReceiveWinner(c, d) \/ ReceiveNothing(c, d)
      PROVE  Left(c)'
  <2>1. socket' = socket /\ handler[c].step = "race"
    BY <1>7 DEF ReceiveWinner, ReceiveNothing
  <2>2. QED
    BY <1>3, <2>1, FewerFailed
<1>8. CASE SendInit(c) \/ RelayCancelled(c) \/ RelayEnds(c)
  <2>1. socket' = socket /\ handler[c] # NoHandler
    BY <1>2, <1>8 DEF SendInit, RelayCancelled, RelayEnds
  <2>2. PICK step \in {"relay", "unwind"} : To(c, step)
    BY <1>8 DEF SendInit, RelayCancelled, RelayEnds
  <2>3. handler'[c].winner = handler[c].winner
    BY <1>1, <2>2, WinnerStays
  <2>4. QED
    BY <2>1, <2>3, FewerFailed
<1>9. CASE TCPFails(c)
  <2>1. socket' = socket /\ handler'[c] = Finished(handler[c]) /\ handler[c] # NoHandler
    BY <1>1, <1>2, <1>9, FinishFacts DEF TCPFails
  <2>2. QED
    BY <1>4, <2>1, FewerFailed
<1>10. CASE DialTCP(c)
  <2>1. To(c, "relay") /\ handler[c] # NoHandler
    BY <1>2, <1>10 DEF DialTCP
  <2>2. handler'[c].winner = handler[c].winner
    BY <1>1, <2>1, WinnerStays
  <2>3. \A p \in Paths : socket'[c][p] = "failed" => socket[c][p] = "failed"
    BY <1>1, <1>10, SocketFacts DEF DialTCP, Paths, Sockets
  <2>4. QED
    BY <2>1, <2>2, <2>3, FewerFailed
<1>11. CASE SendInitFails(c)
  <2>1. To(c, "tcp") /\ handler[c] # NoHandler /\ handler[c].step = "init"
    BY <1>2, <1>11 DEF SendInitFails
  <2>2. handler'[c].winner = handler[c].winner
    BY <1>1, <2>1, WinnerStays
  <2>3. handler[c].winner # None
    BY <1>1, <2>1 DEF Shape
  <2>4. handler[c].winner \in Domains
    BY <1>1, <2>3 DEF Handlers
  <2>5. \A p \in Paths : socket'[c][p] = "failed" => socket[c][p] = "failed" \/ p = handler[c].winner
    BY <1>1, <1>11 DEF SendInitFails, ConnectionsTyped
  <2>6. QED
    BY <2>1, <2>2, <2>4, <2>5, TelegramAssumption DEF Left, FailedIsTheChosen
<1>12. CASE Unwind(c)
  <2>1. handler'[c] = Finished(handler[c]) /\ handler[c] # NoHandler
    BY <1>1, <1>2, <1>12, FinishFacts DEF Unwind
  <2>2. \A p \in Paths : socket'[c][p] = "failed" =>
          socket[c][p] = "failed" \/ (p = handler[c].winner /\ p # TCP)
    BY <1>1, <1>12 DEF Unwind, Carrier, ConnectionsTyped
  <2>3. QED
    BY <1>4, <2>1, <2>2 DEF Left, FailedIsTheChosen
<1>13. QED
  BY <1>5, <1>6, <1>7, <1>8, <1>9, <1>10, <1>11, <1>12 DEF HandlerStep

LEMMA AttemptLeaves ==
  ASSUME IInv, NEW c \in Clients, Left(c), NEW d \in Domains,
         AttemptStep(c, d) \/ Drain(c, d) \/ CloseSocket(c, d) \/ Collect(c, d)
  PROVE  Left(c)'
<1>1. /\ ConnectionsTyped /\ handler[c] \in Handlers /\ socket[c] \in [Paths -> Sockets]
  BY Here
<1>2. CASE AttemptStep(c, d) \/ CloseSocket(c, d) \/ Collect(c, d)
  <2>1. handler' = handler
    BY <1>2 DEF AttemptStep, EnterRace, LeaveRace, CheckCooldown, AcquireSlot, GiveUpSlot, Dial,
                Upgrade, AttemptFails, TooManyRequests, Send, CloseLate, CloseSocket, Collect
  <2>2. \/ socket' = socket
        \/ \E v \in {"none", "open", "closing"} : socket' = [socket EXCEPT ![c][d] = v]
    BY <1>2 DEF AttemptStep, EnterRace, LeaveRace, CheckCooldown, AcquireSlot, GiveUpSlot, Dial,
                Upgrade, AttemptFails, TooManyRequests, Send, CloseLate, CloseSocket, Collect
  <2>3. \A p \in Paths : socket'[c][p] = "failed" => socket[c][p] = "failed"
    BY <1>1, <2>2 DEF ConnectionsTyped, Paths
  <2>4. QED
    BY <2>1, <2>3, FewerFailed
<1>3. CASE Drain(c, d)
  <2> DEFINE rest == [handler[c] EXCEPT !.left = @ \ {d}, !.drains = handler[c].left # {d}]
  <2>1. /\ handler[c].drains
        /\ handler'[c] = IF rest.step = "idle" THEN Finished(rest) ELSE rest
        /\ \/ socket' = socket
           \/ \E v \in {"closing", socket[c][d]} : socket' = [socket EXCEPT ![c][d] = v]
    BY <1>1, <1>3 DEF Drain, ConnectionsTyped
  <2>2. rest.winner = handler[c].winner /\ handler[c] # NoHandler
    BY <1>1, <2>1 DEF Handlers, NoHandler
  <2>3. Finished(rest) = NoHandler \/ Finished(rest).winner = handler[c].winner
    BY <1>1 DEF Finished, Handlers
  <2>4. handler'[c] = NoHandler \/ handler'[c].winner = handler[c].winner
    BY <2>1, <2>2, <2>3
  <2>5. \A p \in Paths : socket'[c][p] = "failed" => socket[c][p] = "failed"
    BY <1>1, <2>1 DEF ConnectionsTyped, Paths
  <2>6. QED
    BY <2>2, <2>4, <2>5, FewerFailed
<1>4. QED
  BY <1>2, <1>3

LEMMA StepLeaves ==
  ASSUME IInv, [Next]_vars, NEW c \in Clients, Left(c)
  PROVE  Left(c)'
<1>1. CASE handler'[c] = handler[c] /\ socket'[c] = socket[c]
  BY <1>1, FewerFailed
<1>2. ASSUME NEW g \in Runs, NEW e \in Clients, Accept(e, g)
      PROVE  Left(c)'
  <2>1. socket' = socket /\ handler \in [Clients -> Handlers]
    BY <1>2 DEF Accept, IInv, TypeOK
  <2>2. CASE e = c
    <3>1. \A p \in Paths : socket[c][p] # "failed"
      BY <1>2, <2>2 DEF Accept
    <3>2. QED
      BY <2>1, <3>1, FewerFailed
  <2>3. CASE e # c
    BY <1>1, <1>2, <2>1, <2>3 DEF Accept
  <2>4. QED
    BY <2>2, <2>3
<1>3. ASSUME NEW e \in Clients,
             \/ HandlerStep(e) \/ RelayEnds(e)
             \/ \E d \in Domains : AttemptStep(e, d) \/ Drain(e, d) \/ CloseSocket(e, d) \/ Collect(e, d)
      PROVE  Left(c)'
  <2>1. CASE e # c
    BY <1>1, <1>3, <2>1, OnlyItsOwn
  <2>2. CASE e = c
    BY <1>3, <2>2, HandlerLeaves, AttemptLeaves
  <2>3. QED
    BY <2>1, <2>2
<1>4. ASSUME UNCHANGED Connections
      PROVE  Left(c)'
  BY <1>1, <1>4 DEF Connections
<1>5. CASE (\E t \in Transports : CallStart(t)) \/ CallStop \/ Stopped \/ StartRun \/ StartTimesOut
  BY <1>4, <1>5 DEF CallStart, CallStop, Stopped, StartRun, StartTimesOut
<1>6. ASSUME NEW g \in Runs,
             Listen(g) \/ ListenFails(g) \/ AcceptFails(g) \/ CloseListener(g) \/ Refresh(g)
      PROVE  Left(c)'
  BY <1>4, <1>6 DEF Listen, ListenFails, AcceptFails, CloseListener, Refresh
<1>7. ASSUME NEW d \in Domains, CooldownEnds(d)
      PROVE  Left(c)'
  BY <1>4, <1>7 DEF CooldownEnds
<1>8. CASE UNCHANGED vars
  BY <1>4, <1>8 DEF vars, Connections
<1>9. QED
  BY <1>2, <1>3, <1>5, <1>6, <1>7, <1>8 DEF Next

LEMMA OnlyTheChosen == Spec => [](\A c \in Clients : Left(c))
<1>1. Init => \A c \in Clients : Left(c)
  BY DEF Init, Left, FailedIsTheChosen
<1>2. IInv /\ [Next]_vars /\ (\A c \in Clients : Left(c)) => (\A c \in Clients : Left(c))'
  BY StepLeaves
<1>3. QED
  BY <1>1, <1>2, InductiveInvariant, PTL DEF Spec

\* A connection that works always has somebody who will use or close it: no
\* interleaving of the race, of the late answers and of a stop loses one.  What
\* RawWebSocket.Close leaves open is one WebSocket of each connection at the
\* most, on which something has failed: the one its handler had chosen.
THEOREM NoConnectionLeaks == Spec => []NothingLeaks
<1>1. IInv /\ (\A c \in Clients : Left(c)) => NothingLeaks
  BY InvImpliesOpenIsOwned DEF Left, NothingLeaks
<1>2. QED
  BY <1>1, InductiveInvariant, OnlyTheChosen, PTL

\* A connection nobody handles any more has no attempt under way and no slot of
\* cfproxyAttemptSem, and of its sockets one at the most is not closed or being
\* closed: a WebSocket on which something has failed.  Once all are in that
\* state, every slot is free for the next one.
NothingStays ==
  /\ \A c \in Clients : handler[c] = NoHandler =>
       /\ \A d \in Domains : attempt[c][d] = "none"
       /\ \A p \in Paths : socket[c][p] \notin {"none", "closing"} =>
            /\ p \in Domains /\ socket[c][p] = "failed"
            /\ \A q \in Paths \ {p} : socket[c][q] \in {"none", "closing"}
  /\ (\A c \in Clients : handler[c] = NoHandler) => slots = 0

LEMMA InvImpliesNothingStays ==
  IInv /\ (\A c \in Clients : Left(c)) => NothingStays
<1> SUFFICES ASSUME IInv, \A c \in Clients : Left(c)
             PROVE  NothingStays
  OBVIOUS
<1>1. ASSUME NEW c \in Clients, handler[c] = NoHandler
      PROVE  /\ \A d \in Domains : attempt[c][d] = "none" /\ socket[c][d] # "open"
             /\ \A p \in Paths : socket[c][p] \notin {"none", "closing"} =>
                  /\ p \in Domains /\ socket[c][p] = "failed"
                  /\ \A q \in Paths \ {p} : socket[c][q] \in {"none", "closing"}
  <2>1. handler[c].step = "idle" /\ ~handler[c].drains
    BY <1>1 DEF NoHandler
  <2>2. Shape(handler[c], attempt[c], socket[c]) /\ handler[c] \in Handlers
    BY Here
  <2>3. \A d \in Domains : attempt[c][d] = "none" /\ socket[c][d] # "open"
    BY <2>1, <2>2, NothingOfNobody
  <2>4. socket[c][TCP] # "open"
    BY <2>1, <2>2 DEF Shape
  <2>5. \A p \in Paths : socket[c][p] \in {"none", "closing", "failed"}
    BY <2>3, <2>4, Here DEF Paths, Sockets
  <2>6. QED
    BY <2>3, <2>5 DEF Left, FailedIsTheChosen, Paths
<1>2. ASSUME \A c \in Clients : handler[c] = NoHandler
      PROVE  slots = 0
  <2>1. Holders = {}
    BY <1>1, <1>2 DEF Holders
  <2>2. QED
    BY <2>1, FS_EmptySet DEF IInv, SlotsHeld
<1>3. QED
  BY <1>1, <1>2 DEF NothingStays

\* A connection whose goroutines have all returned leaves at most one thing
\* behind: whatever won late, gave up or was cancelled, every socket is closed or
\* being closed, but for one WebSocket on which something has failed, and every
\* slot is back (tryCfproxyBaseDomain and its deferred release).
THEOREM EndedLeavesNothing == Spec => []NothingStays
  BY InvImpliesNothingStays, InductiveInvariant, OnlyTheChosen, PTL
=============================================================================
