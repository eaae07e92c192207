---------------------------- MODULE TelegramProxy ----------------------------
(***************************************************************************)
(* The built-in MTProto proxy: its start, stop and restart on one port, and *)
(* the connections Telegram makes to it.  Every connection is handled by a   *)
(* goroutine that looks for a way to the datacenter: through the active      *)
(* Cloudflare domain, then through the others, some of them at a time, and   *)
(* else by plain TCP.                                                        *)
(*                                                                          *)
(* No caller ever fills Options.DCOverrides, so handleClient never takes its *)
(* direct WebSocket: that branch, the pool of idle connections, FakeTLS and  *)
(* a Cloudflare domain of the user's own are left out.                       *)
(***************************************************************************)
EXTENDS Naturals, FiniteSets

CONSTANTS Clients,     \* Telegram's connections
          Defaults,    \* the built-in Cloudflare domains
          Published,   \* the domains the refreshed list adds
          Throttling,  \* bound: the domains that ever answer 429
          Parallel,    \* cfproxyFallbackParallel: attempts of one connection
          GlobalParallel, \* cfproxyGlobalParallel: attempts of all
          Transports,  \* those the user switches between
          MaxRuns      \* bound: times the proxy is started

Domains == Defaults \cup Published
TCP     == "tcp"
Paths   == Domains \cup {TCP}
None    == "none"
Runs    == 1..MaxRuns

ASSUME TelegramAssumption ==
  /\ Throttling \subseteq Domains /\ Defaults # {} /\ TCP \notin Domains /\ None \notin Paths
  /\ Transports \subseteq {"auto", "cf", "ws", "tcp"}
  /\ Parallel \in Nat \ {0} /\ GlobalParallel \in Nat \ {0} /\ MaxRuns \in Nat

UsesCloudflare(transport) == transport \in {"auto", "cf"}

VARIABLES
  control,        \* the Start or Stop that holds the mutexes
  running,        \* runCancel: the run that can be stopped, 0 for none
  started,        \* how many runs there have been
  transport,      \* what each run was started with
  ctx,            \* is the context of a run "live" or "cancelled"?
  server,         \* the goroutine runProxy of each run
  accepting,      \* runs whose accept loop still runs
  cfproxyEnabled, \* one for all runs, as the next three
  domains,        \* cfproxyDomains
  active,         \* activeCfDomain
  cooldown,       \* domains that answered 429 a short while ago
  slots,          \* attempts that hold cfproxyAttemptSem
  handler,        \* the goroutine of each connection
  attempt,        \* its attempts, one per domain
  socket          \* its connections to the outside

lifecycle == <<control, running, started, transport, ctx>>
servers   == <<server, accepting>>
shared    == <<cfproxyEnabled, domains, active>>
vars == <<lifecycle, servers, shared, cooldown, slots, handler, attempt, socket>>

Idle == [step |-> "idle", next |-> None]

\* "known" is the active domain the handler has read, "left" the domains it has
\* not heard of yet, "winner" the one it goes on with; "drains" says that a
\* goroutine stays behind to hear of the rest.
Handlers ==
  [step : {"idle", "hello", "choose", "cloudflare", "first", "race", "init", "tcp",
           "relay", "unwind"},
   run : Runs \cup {0}, known : Domains \cup {None}, left : SUBSET Domains,
   winner : Domains \cup {None}, drains : BOOLEAN]
NoHandler == [step |-> "idle", run |-> 0, known |-> None, left |-> {},
              winner |-> None, drains |-> FALSE]

\* "won" and "lost": the attempt has its result; "sent" and "empty": the result
\* is in the channel.
Attempts == {"none", "sem", "check", "slot", "dial", "upgrade", "won", "lost", "sent", "empty"}

\* "closing": left to a goroutine that closes it.  "failed": a read or a write of
\* the WebSocket has failed, or the other side has ended it; RawWebSocket.Close
\* then returns at once, and the connection under it is still there.
Sockets == {"none", "open", "closing", "failed"}

Holders == {p \in Clients \X Domains : attempt[p[1]][p[2]] \in {"dial", "upgrade"}}

TypeOK ==
  /\ control \in [step : {"idle", "stop", "start", "listen"}, next : Transports \cup {None}]
  /\ running \in 0..started /\ started \in 0..MaxRuns
  /\ transport \in [Runs -> Transports \cup {None}]
  /\ ctx \in [Runs -> {"live", "cancelled"}]
  /\ server \in [Runs -> {"none", "starting", "serving", "over"}]
  /\ accepting \subseteq {g \in Runs : server[g] = "serving"}
  /\ cfproxyEnabled \in BOOLEAN
  /\ domains \subseteq Domains /\ active \in Domains
  /\ cooldown \subseteq Domains
  /\ slots = Cardinality(Holders) /\ slots <= GlobalParallel
  /\ handler \in [Clients -> Handlers]
  /\ attempt \in [Clients -> [Domains -> Attempts]]
  /\ socket \in [Clients -> [Paths -> Sockets]]
  /\ Cardinality({g \in Runs : server[g] = "serving"}) <= 1
  /\ running # 0 => ctx[running] = "live"

Init ==
  /\ control = Idle /\ running = 0 /\ started = 0
  /\ transport = [g \in Runs |-> None] /\ ctx = [g \in Runs |-> "live"]
  /\ server = [g \in Runs |-> "none"] /\ accepting = {}
  /\ cfproxyEnabled = TRUE /\ domains = Defaults /\ active \in Defaults
  /\ cooldown = {} /\ slots = 0
  /\ handler = [c \in Clients |-> NoHandler]
  /\ attempt = [c \in Clients |-> [d \in Domains |-> "none"]]
  /\ socket = [c \in Clients |-> [p \in Paths |-> "none"]]

-----------------------------------------------------------------------------
(* Start and Stop: one at a time, under the mutexes of Proxy and upstream. *)

Connections == <<slots, handler, attempt, socket>>

Cancel(g) == ctx' = [ctx EXCEPT ![g] = "cancelled"]

\* Mutant: the old run is dropped, not cancelled.
CallStartForgets(t) ==
  /\ control.step = "idle" /\ started < MaxRuns
  /\ control' = [step |-> IF running = 0 THEN "start" ELSE "stop", next |-> t]
  /\ running' = 0
  /\ UNCHANGED <<ctx, started, transport, servers, shared, cooldown, Connections>>

\* A Start stops what runs before it starts anew.
CallStart(t) ==
  /\ control.step = "idle" /\ started < MaxRuns
  /\ control' = [step |-> IF running = 0 THEN "start" ELSE "stop", next |-> t]
  /\ IF running = 0 THEN UNCHANGED ctx ELSE Cancel(running)
  /\ running' = 0
  /\ UNCHANGED <<started, transport, servers, shared, cooldown, Connections>>

CallStop ==
  /\ control.step = "idle" /\ running # 0
  /\ control' = [step |-> "stop", next |-> None]
  /\ Cancel(running) /\ running' = 0
  /\ UNCHANGED <<started, transport, servers, shared, cooldown, Connections>>

PortFree == \A g \in Runs : server[g] # "serving"

\* waitPortClosed: until the port refuses a connection, or for three seconds.
Stopped ==
  /\ control.step = "stop"
  /\ control' = IF control.next = None THEN Idle ELSE [control EXCEPT !.step = "start"]
  /\ cooldown' = {}
  /\ UNCHANGED <<running, started, transport, ctx, servers, shared, Connections>>

\* The list of domains is the built-in one and whatever the cache holds.
StartRun ==
  /\ control.step = "start"
  /\ started' = started + 1
  /\ transport' = [transport EXCEPT ![started'] = control.next]
  /\ server' = [server EXCEPT ![started'] = "starting"]
  /\ cfproxyEnabled' = UsesCloudflare(control.next)
  /\ domains' \in {Defaults, Domains} /\ active' \in domains'
  /\ cooldown' = {}
  /\ control' = [control EXCEPT !.step = "listen"]
  /\ UNCHANGED <<running, ctx, accepting, Connections>>

\* Whoever waits for this run in Start gets to know.
Signal(g, ok) ==
  IF control.step = "listen" /\ g = started
  THEN /\ control' = Idle
       /\ IF ok THEN running' = g /\ UNCHANGED ctx ELSE Cancel(g) /\ UNCHANGED running
  ELSE UNCHANGED <<control, running, ctx>>

Listen(g) ==
  /\ server[g] = "starting" /\ PortFree
  /\ server' = [server EXCEPT ![g] = "serving"] /\ accepting' = accepting \cup {g}
  /\ Signal(g, TRUE)
  /\ UNCHANGED <<started, transport, shared, cooldown, Connections>>

\* The port may be taken, by an earlier run of the proxy or by anybody else.
ListenFails(g) ==
  /\ server[g] = "starting"
  /\ server' = [server EXCEPT ![g] = "over"]
  /\ Signal(g, FALSE)
  /\ UNCHANGED <<started, transport, accepting, shared, cooldown, Connections>>

\* Five seconds without an answer.
StartTimesOut ==
  /\ control.step = "listen"
  /\ control' = Idle /\ Cancel(started)
  /\ UNCHANGED <<running, started, transport, servers, shared, cooldown, Connections>>

-----------------------------------------------------------------------------
(* runProxy *)

\* An error other than a timeout ends the loop for good; the port stays open.
AcceptFails(g) ==
  /\ g \in accepting
  /\ accepting' = accepting \ {g}
  /\ UNCHANGED <<lifecycle, server, shared, cooldown, Connections>>

\* runProxy then waits for its handlers, thirty seconds at most, and empties
\* the pool nobody has filled: nothing that shows.
CloseListener(g) ==
  /\ server[g] = "serving" /\ ctx[g] = "cancelled"
  /\ server' = [server EXCEPT ![g] = "over"] /\ accepting' = accepting \ {g}
  /\ UNCHANGED <<lifecycle, shared, cooldown, Connections>>

\* A list that was fetched replaces the old one; the active domain stays when
\* the list has it.
Refresh(g) ==
  /\ server[g] = "serving" /\ ctx[g] = "live"
  /\ domains' \in {Defaults, Domains} \ {domains}
  /\ IF active \in domains' THEN UNCHANGED active ELSE active' \in Defaults
  /\ UNCHANGED <<lifecycle, servers, cfproxyEnabled, cooldown, Connections>>

CooldownEnds(d) ==
  /\ d \in cooldown
  /\ cooldown' = cooldown \ {d}
  /\ UNCHANGED <<lifecycle, servers, shared, Connections>>

-----------------------------------------------------------------------------
(* handleClient *)

RunOf(c)      == handler[c].run
RunCancelled(c) == RunOf(c) # 0 /\ ctx[RunOf(c)] = "cancelled"
To(c, step) == handler' = [handler EXCEPT ![c].step = step]
Global == <<lifecycle, servers, shared>>

Finished(h) == IF h.drains THEN [h EXCEPT !.step = "idle"] ELSE NoHandler
Finish(c) == handler' = [handler EXCEPT ![c] = Finished(@)]

\* A connection whose goroutines have all ended stands for the next one.
Accept(c, g) ==
  /\ g \in accepting /\ handler[c] = NoHandler
  /\ \A p \in Paths : socket[c][p] = "none"
  /\ handler' = [handler EXCEPT ![c].step = "hello", ![c].run = g]
  /\ UNCHANGED <<Global, cooldown, slots, attempt, socket>>

\* Ten seconds for the first byte, five for the rest; HTTP and unknown
\* protocols are turned away, and so is the probe of waitPortClosed.
HelloFails(c) ==
  /\ handler[c].step = "hello" /\ Finish(c)
  /\ UNCHANGED <<Global, cooldown, slots, attempt, socket>>

Hello(c) ==
  /\ handler[c].step = "hello" /\ To(c, "choose")
  /\ UNCHANGED <<Global, cooldown, slots, attempt, socket>>

\* doFallback looks at the switch, and cfproxyFallback once more.
Choose(c) ==
  /\ handler[c].step = "choose"
  /\ To(c, IF cfproxyEnabled THEN "cloudflare" ELSE "tcp")
  /\ UNCHANGED <<Global, cooldown, slots, attempt, socket>>

CloudflareOff(c) ==
  /\ handler[c].step = "cloudflare" /\ ~cfproxyEnabled
  /\ To(c, "tcp")
  /\ UNCHANGED <<Global, cooldown, slots, attempt, socket>>

TryActive(c) ==
  /\ handler[c].step = "cloudflare" /\ cfproxyEnabled
  /\ handler' = [handler EXCEPT ![c].step = "first", ![c].known = active,
                                ![c].left = domains \ {active}]
  /\ attempt' = [attempt EXCEPT ![c][active] = "check"]
  /\ UNCHANGED <<Global, cooldown, slots, socket>>

-----------------------------------------------------------------------------
(* tryCfproxyBaseDomain, by the handler itself or by a goroutine of the race. *)

AttemptCancelled(c) == RunCancelled(c) \/ handler[c].winner # None
At(c, d, step) == attempt' = [attempt EXCEPT ![c][d] = step]
\* The goroutines of the race that are inside the semaphore of their handler.
Inside(c) ==
  {d \in Domains \ {handler[c].known} :
     attempt[c][d] \in {"check", "slot", "dial", "upgrade", "won", "lost"}}

EnterRace(c, d) ==
  /\ attempt[c][d] = "sem" /\ Cardinality(Inside(c)) < Parallel
  /\ At(c, d, "check")
  /\ UNCHANGED <<Global, cooldown, slots, handler, socket>>

\* Mutant: an attempt that is called off says nothing.
LeaveRaceSilently(c, d) ==
  /\ attempt[c][d] = "sem" /\ AttemptCancelled(c)
  /\ At(c, d, "none")
  /\ UNCHANGED <<Global, cooldown, slots, handler, socket>>

LeaveRace(c, d) ==
  /\ attempt[c][d] = "sem" /\ AttemptCancelled(c)
  /\ At(c, d, "empty")
  /\ UNCHANGED <<Global, cooldown, slots, handler, socket>>

CheckCooldown(c, d) ==
  /\ attempt[c][d] = "check"
  /\ At(c, d, IF d \in cooldown THEN "lost" ELSE "slot")
  /\ UNCHANGED <<Global, cooldown, slots, handler, socket>>

AcquireSlot(c, d) ==
  /\ attempt[c][d] = "slot" /\ slots < GlobalParallel
  /\ slots' = slots + 1
  /\ At(c, d, "dial")
  /\ UNCHANGED <<Global, cooldown, handler, socket>>

GiveUpSlot(c, d) ==
  /\ attempt[c][d] = "slot" /\ AttemptCancelled(c)
  /\ At(c, d, "lost")
  /\ UNCHANGED <<Global, cooldown, slots, handler, socket>>

\* Nothing is dialled under a cancelled context, but the upgrade that follows
\* only knows its deadlines.  The second try, by address, is one more of these.
Dial(c, d) ==
  /\ attempt[c][d] = "dial" /\ ~AttemptCancelled(c)
  /\ At(c, d, "upgrade")
  /\ UNCHANGED <<Global, cooldown, slots, handler, socket>>

Upgrade(c, d) ==
  /\ attempt[c][d] = "upgrade"
  /\ At(c, d, "won")
  /\ socket' = [socket EXCEPT ![c][d] = "open"]
  /\ slots' = slots - 1 /\ cooldown' = cooldown \ {d}
  /\ UNCHANGED <<Global, handler>>

\* Mutant: an attempt that fails keeps its slot.
AttemptFailsHolding(c, d) ==
  /\ attempt[c][d] \in {"dial", "upgrade"}
  /\ At(c, d, "lost")
  /\ UNCHANGED <<Global, slots, cooldown, handler, socket>>

AttemptFails(c, d) ==
  /\ attempt[c][d] \in {"dial", "upgrade"}
  /\ At(c, d, "lost")
  /\ slots' = slots - 1
  /\ UNCHANGED <<Global, cooldown, handler, socket>>

TooManyRequests(c, d) ==
  /\ attempt[c][d] = "upgrade" /\ d \in Throttling
  /\ At(c, d, "lost")
  /\ slots' = slots - 1
  /\ cooldown' = IF AttemptCancelled(c) THEN cooldown ELSE cooldown \cup {d}
  /\ UNCHANGED <<Global, handler, socket>>

\* The channel has room for every result.
Send(c, d) ==
  /\ handler[c].step # "first" /\ attempt[c][d] \in {"won", "lost"}
  /\ At(c, d, IF attempt[c][d] = "won" THEN "sent" ELSE "empty")
  /\ UNCHANGED <<Global, cooldown, slots, handler, socket>>

\* select takes either branch when the race is decided.
CloseLate(c, d) ==
  /\ handler[c].step # "first" /\ attempt[c][d] = "won" /\ AttemptCancelled(c)
  /\ At(c, d, "empty")
  /\ socket' = [socket EXCEPT ![c][d] = "closing"]
  /\ UNCHANGED <<Global, cooldown, slots, handler>>

CloseSocket(c, d) ==
  /\ socket[c][d] = "closing"
  /\ socket' = [socket EXCEPT ![c][d] = "none"]
  /\ UNCHANGED <<Global, cooldown, slots, handler, attempt>>

\* Go's collector closes what nobody refers to any more, in its own time.
Collect(c, d) ==
  /\ socket[c][d] = "failed"
  /\ socket' = [socket EXCEPT ![c][d] = "none"]
  /\ UNCHANGED <<Global, cooldown, slots, handler, attempt>>

-----------------------------------------------------------------------------
(* cfproxyFallback: the first attempt, the race, and what becomes of it. *)

FirstWins(c) ==
  /\ handler[c].step = "first" /\ attempt[c][handler[c].known] = "won"
  /\ handler' = [handler EXCEPT ![c].step = "init", ![c].winner = handler[c].known, ![c].left = {}]
  /\ At(c, handler[c].known, "none")
  /\ UNCHANGED <<Global, cooldown, slots, socket>>

\* Every other domain gets a goroutine.
FirstLoses(c) ==
  /\ handler[c].step = "first" /\ attempt[c][handler[c].known] = "lost"
  /\ To(c, IF handler[c].left = {} THEN "tcp" ELSE "race")
  /\ attempt' = [attempt EXCEPT ![c] = [d \in Domains |->
                   IF d \in handler[c].left THEN "sem" ELSE "none"]]
  /\ UNCHANGED <<Global, cooldown, slots, socket>>

\* Mutant: nobody stays for the answers that come after the first.
ReceiveWinnerLeaves(c, d) ==
  /\ handler[c].step = "race" /\ d \in handler[c].left /\ attempt[c][d] = "sent"
  /\ handler' = [handler EXCEPT ![c].step = "init", ![c].winner = d, ![c].left = {}]
  /\ At(c, d, "none")
  /\ active' = d
  /\ UNCHANGED <<lifecycle, servers, cfproxyEnabled, domains, cooldown, slots, socket>>

\* The first one to answer wins, becomes the active domain, and the context of
\* the others is cancelled; somebody stays to hear of them.
ReceiveWinner(c, d) ==
  /\ handler[c].step = "race" /\ d \in handler[c].left /\ attempt[c][d] = "sent"
  /\ handler' = [handler EXCEPT ![c].step = "init", ![c].winner = d, ![c].left = @ \ {d},
                                ![c].drains = handler[c].left # {d}]
  /\ At(c, d, "none")
  /\ active' = d
  /\ UNCHANGED <<lifecycle, servers, cfproxyEnabled, domains, cooldown, slots, socket>>

ReceiveNothing(c, d) ==
  /\ handler[c].step = "race" /\ d \in handler[c].left /\ attempt[c][d] = "empty"
  /\ handler' = [handler EXCEPT ![c].step = IF handler[c].left = {d} THEN "tcp" ELSE @,
                                ![c].left = @ \ {d}]
  /\ At(c, d, "none")
  /\ UNCHANGED <<Global, cooldown, slots, socket>>

\* The goroutine that stayed closes the connections that came too late.
Drain(c, d) ==
  /\ handler[c].drains /\ d \in handler[c].left /\ attempt[c][d] \in {"sent", "empty"}
  /\ LET rest == [handler[c] EXCEPT !.left = @ \ {d}, !.drains = handler[c].left # {d}]
     IN  handler' = [handler EXCEPT ![c] = IF rest.step = "idle" THEN Finished(rest) ELSE rest]
  /\ At(c, d, "none")
  /\ socket' = [socket EXCEPT ![c][d] = IF attempt[c][d] = "sent" THEN "closing" ELSE @]
  /\ UNCHANGED <<Global, cooldown, slots>>

SendInit(c) ==
  /\ handler[c].step = "init" /\ To(c, "relay")
  /\ UNCHANGED <<Global, cooldown, slots, attempt, socket>>

SendInitFails(c) ==
  /\ handler[c].step = "init" /\ To(c, "tcp")
  /\ socket' = [socket EXCEPT ![c][handler[c].winner] = "failed"]
  /\ UNCHANGED <<Global, cooldown, slots, attempt>>

-----------------------------------------------------------------------------
(* tcpFallback, bridgeWS and bridgeTCP *)

\* What the handler writes first is not looked at.
DialTCP(c) ==
  /\ handler[c].step = "tcp" /\ ~RunCancelled(c)
  /\ To(c, "relay")
  /\ socket' = [socket EXCEPT ![c][TCP] = "open"]
  /\ UNCHANGED <<Global, cooldown, slots, attempt>>

\* No address for this datacenter, no connection, or a cancelled context.
TCPFails(c) ==
  /\ handler[c].step = "tcp" /\ Finish(c)
  /\ UNCHANGED <<Global, cooldown, slots, attempt, socket>>

Carrier(c) == IF socket[c][TCP] = "open" THEN TCP ELSE handler[c].winner

\* Either side ends or fails, or says nothing for two minutes.
RelayEnds(c) ==
  /\ handler[c].step = "relay" /\ To(c, "unwind")
  /\ UNCHANGED <<Global, cooldown, slots, attempt, socket>>

RelayCancelled(c) ==
  /\ handler[c].step = "relay" /\ RunCancelled(c) /\ To(c, "unwind")
  /\ UNCHANGED <<Global, cooldown, slots, attempt, socket>>

\* A goroutine closes both sides once their context is cancelled.  A WebSocket it
\* only closes when nothing has failed on it: not when its own reading has ended
\* the relay, and perhaps not when that came at the same time.
Unwind(c) ==
  /\ handler[c].step = "unwind" /\ Finish(c)
  /\ \E left \in {"none"} \cup (IF Carrier(c) = TCP THEN {} ELSE {"failed"}) :
       socket' = [socket EXCEPT ![c][Carrier(c)] = left]
  /\ UNCHANGED <<Global, cooldown, slots, attempt>>

-----------------------------------------------------------------------------
AttemptStep(c, d) ==
  \/ EnterRace(c, d) \/ LeaveRace(c, d) \/ CheckCooldown(c, d)
  \/ AcquireSlot(c, d) \/ GiveUpSlot(c, d)
  \/ Dial(c, d) \/ Upgrade(c, d) \/ AttemptFails(c, d) \/ TooManyRequests(c, d)
  \/ Send(c, d) \/ CloseLate(c, d)

HandlerStep(c) ==
  \/ HelloFails(c) \/ Hello(c) \/ Choose(c) \/ CloudflareOff(c) \/ TryActive(c)
  \/ FirstWins(c) \/ FirstLoses(c)
  \/ \E d \in Domains : ReceiveWinner(c, d) \/ ReceiveNothing(c, d)
  \/ SendInit(c) \/ SendInitFails(c)
  \/ DialTCP(c) \/ TCPFails(c) \/ RelayCancelled(c) \/ Unwind(c)

Next ==
  \/ \E t \in Transports : CallStart(t)
  \/ CallStop \/ Stopped \/ StartRun \/ StartTimesOut
  \/ \E g \in Runs :
       \/ Listen(g) \/ ListenFails(g) \/ AcceptFails(g) \/ CloseListener(g) \/ Refresh(g)
       \/ \E c \in Clients : Accept(c, g)
  \/ \E d \in Domains : CooldownEnds(d)
  \/ \E c \in Clients :
       \/ HandlerStep(c) \/ RelayEnds(c)
       \/ \E d \in Domains :
            AttemptStep(c, d) \/ Drain(c, d) \/ CloseSocket(c, d) \/ Collect(c, d)

\* Every read and every dial has a deadline, and goroutines that can go on do.
Fairness ==
  \A c \in Clients :
    /\ WF_vars(HandlerStep(c))
    /\ \A d \in Domains : WF_vars(AttemptStep(c, d)) /\ WF_vars(Drain(c, d))

Spec == Init /\ [][Next]_vars /\ Fairness

-----------------------------------------------------------------------------
\* A connection that works is never forgotten: it carries a relay, or is about
\* to; or somebody will still get it, or close it (cfproxyFallback and the
\* goroutines it leaves behind).
OpenIsOwned(c, p) ==
  socket[c][p] = "open" =>
    \/ handler[c].step \in {"init", "relay", "unwind"} /\ p = Carrier(c)
    \/ p \in Domains /\ attempt[c][p] = "won"
    \/ /\ p \in Domains /\ attempt[c][p] = "sent" /\ p \in handler[c].left
       /\ handler[c].step = "race" \/ handler[c].drains

\* RawWebSocket.Close does leak: the WebSocket a relay has failed on is left to
\* the collector.  That is all that is: one of each connection of Telegram's at
\* the most, the one it had chosen, never one that came too late and never TCP.
FailedIsTheChosen(c, p) ==
  socket[c][p] = "failed" =>
    /\ p # TCP
    /\ handler[c] = NoHandler \/ p = handler[c].winner
    /\ \A q \in Paths \ {p} : socket[c][q] # "failed"

NothingLeaks == \A c \in Clients, p \in Paths : OpenIsOwned(c, p) /\ FailedIsTheChosen(c, p)

\* Whatever a restart and a connection do at the same time, a connection never
\* goes through Cloudflare unless the run that accepted it was started so,
\* although the switch is one for all runs (Start, doFallback).
PathAllowed ==
  \A c \in Clients, d \in Domains :
    socket[c][d] = "open" => UsesCloudflare(transport[RunOf(c)])

\* No connection looks for a way for ever, and none outlives the run it
\* belongs to (waitPortClosed and runProxy rely on it).
HandlersEnd ==
  \A c \in Clients :
    /\ handler[c].step \notin {"idle", "relay"} ~> handler[c].step \in {"idle", "relay"}
    /\ (handler[c].step = "relay" /\ RunCancelled(c)) ~> handler[c].step = "idle"
=============================================================================
