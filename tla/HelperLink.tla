----------------------------- MODULE HelperLink -----------------------------
(***************************************************************************)
(* The TUN switch: enableTun and disableTun of internal/app, the client and *)
(* the server of internal/ipc, and the helper's tunnel behind them, taken   *)
(* from TunnelService.                                                      *)
(*                                                                          *)
(* The client sends one request at a time on one connection, under a mutex, *)
(* and repeats it once on a new connection when the transport fails.  The   *)
(* server runs the requests of all its connections one at a time.  Both the *)
(* deadline of a call and the life of the helper may end at any point.      *)
(***************************************************************************)
EXTENDS Naturals, Sequences, FiniteSets

CONSTANTS Callers,  \* goroutines that flip the switch or disconnect
          Pollers,  \* goroutines that ask whether the helper is available
          Conns,    \* bound: sockets that exist at the same time
          NoConn,   \* the client has no connection
          NoThread, \* the client's mutex is free
          IdCount,  \* request IDs count modulo this
          Crashes,  \* bound: times the helper may die
          Timeouts  \* bound: times a deadline may pass

Threads == Callers \cup Pollers

ASSUME HelperLinkAssumption ==
  /\ Callers \cap Pollers = {}
  /\ NoConn \notin Conns /\ NoThread \notin Threads
  /\ IsFiniteSet(Conns)
  /\ IdCount \in Nat \ {0} /\ Crashes \in Nat /\ Timeouts \in Nat

VARIABLES status,    \* snapshot.Status: connected or disconnected
          toggle,    \* State.Toggles.Tun, on disk
          tunOn,     \* snapshot.TunOn
          pc,        \* per thread: next step
          op,        \* per thread: the method it calls
          leaving,   \* per thread: the call is Disconnect
          try,       \* per thread: first or second attempt
          expired,   \* threads whose deadline has passed
          clientMu,  \* Client.mutex
          link,      \* Client.connection
          lastID,    \* Client.nextID
          conn,      \* the sockets
          alive,     \* the helper runs
          routing,   \* the machine's policy: none, tunnel, or left by a helper
                     \* that died
          mismatch,  \* history: a call has read the answer to another one
          gaveUp,    \* history: an attempt has been given up at its deadline that
                     \* was to change the routing, or left its connection open
          unread,    \* history: the last disableTun could not read the settings
          crashes,   \* how often the helper has died
          timeouts   \* how often a call has run into its deadline

app     == <<status, toggle, tunOn>>
call    == <<op, leaving>>
client  == <<clientMu, link, lastID>>
history == <<mismatch, gaveUp, unread, crashes, timeouts>>
vars == <<status, toggle, tunOn, pc, op, leaving, try, expired, clientMu, link,
          lastID, conn, alive, routing, mismatch, gaveUp, unread, crashes, timeouts>>

Tunnel == INSTANCE TunnelService

Steps == {"idle", "lock", "dial", "send", "wait", "record", "forget", "stop"}
Requests  == [id : 0..(IdCount - 1), method : Tunnel!Methods]
Responses == [id : 0..(IdCount - 1), ok : BOOLEAN]

\* A socket: who still holds its ends, what the server has to read and what
\* the client has to read.
Closed == [held |-> FALSE, served |-> FALSE, in |-> <<>>, out |-> <<>>]

TypeOK ==
  /\ status \in {"CONNECTED", "DISCONNECTED"}
  /\ toggle \in BOOLEAN /\ tunOn \in BOOLEAN
  /\ pc \in [Threads -> Steps]
  /\ op \in [Threads -> Tunnel!Methods]
  /\ leaving \in [Threads -> BOOLEAN]
  /\ try \in [Threads -> 1..2]
  /\ expired \subseteq Threads
  /\ clientMu \in Threads \cup {NoThread}
  /\ link \in Conns \cup {NoConn}
  /\ lastID \in 0..(IdCount - 1)
  /\ \A k \in Conns : /\ conn[k].held \in BOOLEAN /\ conn[k].served \in BOOLEAN
                      /\ conn[k].in \in Seq(Requests)
                      /\ conn[k].out \in Seq(Responses)
  /\ alive \in BOOLEAN
  /\ routing \in {"none", "tunnel", "stale"}
  /\ mismatch \in BOOLEAN /\ gaveUp \in BOOLEAN /\ unread \in BOOLEAN
  /\ crashes \in 0..Crashes /\ timeouts \in 0..Timeouts

Init ==
  /\ status = "DISCONNECTED" /\ toggle = FALSE /\ tunOn = FALSE
  /\ pc = [t \in Threads |-> "idle"]
  /\ op = [t \in Threads |-> "hello"]
  /\ leaving = [t \in Threads |-> FALSE]
  /\ try = [t \in Threads |-> 1]
  /\ expired = {}
  /\ clientMu = NoThread /\ link = NoConn /\ lastID = 0
  /\ conn = [k \in Conns |-> Closed]
  /\ alive = TRUE /\ routing = "none"
  /\ mismatch = FALSE /\ gaveUp = FALSE /\ unread = FALSE
  /\ crashes = 0 /\ timeouts = 0

Goto(t, step) == pc' = [pc EXCEPT ![t] = step]

-----------------------------------------------------------------------------
(* The client: one call, from its mutex to its answer.                     *)

StartCall(t, method) ==
  /\ Goto(t, "lock")
  /\ op' = [op EXCEPT ![t] = method]
  /\ try' = [try EXCEPT ![t] = 1]

Acquire(t) ==
  /\ pc[t] = "lock" /\ clientMu = NoThread
  /\ clientMu' = t
  /\ lastID' = (lastID + 1) % IdCount
  /\ Goto(t, "dial")
  /\ UNCHANGED <<app, call, try, expired, link, conn, alive, routing, history>>

\* disableTun, or Disconnect, goes on after an answer or an error.
AfterDisable(t) == IF leaving[t] THEN "stop" ELSE "idle"

\* The call returns.  enableTun records a success and shows a failure;
\* disableTun records a success; an undone enableTun returns.
Return(t, ok) ==
  /\ clientMu' = NoThread
  /\ expired' = expired \ {t}
  /\ Goto(t, CASE op[t] = "tun_up"   /\ ok         -> "record"
               [] op[t] = "tun_up"   /\ ~ok        -> "idle"
               [] op[t] = "tun_down" /\ ok         -> "forget"
               [] op[t] = "tun_down" /\ ~ok        -> AfterDisable(t)
               [] op[t] = "hello"                  -> "idle")
  /\ tunOn' = (tunOn /\ ~(op[t] = "tun_up" /\ ~ok))
  /\ op' = [op EXCEPT ![t] = "hello"]
  /\ try' = [try EXCEPT ![t] = 1]
  /\ UNCHANGED <<status, toggle, leaving>>

\* The client lets go of its end; what it has not read is gone.
Drop(k) == [conn EXCEPT ![k].held = FALSE, ![k].out = <<>>]

GiveUp(t) ==
  gaveUp' = (gaveUp \/ (t \in expired /\ (op[t] # "hello" \/ (try[t] = 2 /\ link # NoConn))))

\* Mutants: the retry uses the connection that has just failed; the client
\* retries until it gets an answer; it retries twice.
LostKeepsConnection(t) ==
  \/ /\ try[t] = 1
     /\ try' = [try EXCEPT ![t] = 2]
     /\ Goto(t, "dial")
     /\ UNCHANGED <<app, call, expired, clientMu, link, conn>>
  \/ /\ try[t] = 2
     /\ Return(t, FALSE)
     /\ UNCHANGED <<link, conn>>

LostForever(t) ==
  /\ link' = NoConn
  /\ conn' = IF link = NoConn THEN conn ELSE Drop(link)
  /\ Goto(t, "dial")
  /\ UNCHANGED <<app, call, try, expired, clientMu>>

LostTwice(t) ==
  \/ /\ try[t] < 3
     /\ try' = [try EXCEPT ![t] = @ + 1]
     /\ link' = NoConn
     /\ conn' = IF link = NoConn THEN conn ELSE Drop(link)
     /\ Goto(t, "dial")
     /\ UNCHANGED <<app, call, expired, clientMu>>
  \/ /\ try[t] = 3
     /\ Return(t, FALSE)
     /\ UNCHANGED <<link, conn>>

\* A transport error.  The first closes the connection and is followed by a
\* second attempt; the second returns and closes nothing.
Lost(t) ==
  \/ /\ try[t] = 1
     /\ try' = [try EXCEPT ![t] = 2]
     /\ link' = NoConn
     /\ conn' = IF link = NoConn THEN conn ELSE Drop(link)
     /\ Goto(t, "dial")
     /\ UNCHANGED <<app, call, expired, clientMu>>
  \/ /\ try[t] = 2
     /\ Return(t, FALSE)
     /\ UNCHANGED <<link, conn>>

HasConnection(t) ==
  /\ pc[t] = "dial" /\ link # NoConn
  /\ Goto(t, "send")
  /\ UNCHANGED <<app, call, try, expired, client, conn, alive, routing, history>>

Dial(t) ==
  /\ pc[t] = "dial" /\ link = NoConn
  /\ alive /\ t \notin expired
  /\ \E k \in Conns :
       /\ conn[k] = Closed
       /\ conn' = [conn EXCEPT ![k].held = TRUE, ![k].served = TRUE]
       /\ link' = k
  /\ Goto(t, "send")
  /\ UNCHANGED <<app, call, try, expired, clientMu, lastID, alive, routing, history>>

DialFails(t) ==
  /\ pc[t] = "dial" /\ link = NoConn
  /\ ~alive \/ t \in expired
  /\ Lost(t) /\ GiveUp(t)
  /\ UNCHANGED <<lastID, alive, routing, mismatch, unread, crashes, timeouts>>

Send(t) ==
  /\ pc[t] = "send"
  /\ conn[link].served /\ t \notin expired
  /\ conn' = [conn EXCEPT ![link].in = Append(@, [id |-> lastID, method |-> op[t]])]
  /\ Goto(t, "wait")
  /\ UNCHANGED <<app, call, try, expired, client, alive, routing, history>>

SendFails(t) ==
  /\ pc[t] = "send"
  /\ ~conn[link].served \/ t \in expired
  /\ Lost(t) /\ GiveUp(t)
  /\ UNCHANGED <<lastID, alive, routing, mismatch, unread, crashes, timeouts>>

\* The client takes the next line for its answer and does not look at the ID.
Receive(t) ==
  /\ pc[t] = "wait" /\ t \notin expired
  /\ conn[link].out # <<>>
  /\ mismatch' = (mismatch \/ Head(conn[link].out).id # lastID)
  /\ Return(t, Head(conn[link].out).ok)
  /\ conn' = [conn EXCEPT ![link].out = Tail(@)]
  /\ UNCHANGED <<link, lastID, alive, routing, gaveUp, unread, crashes, timeouts>>

ReceiveFails(t) ==
  /\ pc[t] = "wait"
  /\ t \in expired \/ (~conn[link].served /\ conn[link].out = <<>>)
  /\ Lost(t) /\ GiveUp(t)
  /\ UNCHANGED <<lastID, alive, routing, mismatch, unread, crashes, timeouts>>

\* The deadline covers the wait for the mutex as well as both attempts.
Expire(t) ==
  /\ pc[t] \in {"lock", "wait"} /\ t \notin expired
  /\ timeouts < Timeouts
  /\ expired' = expired \cup {t}
  /\ timeouts' = timeouts + 1
  /\ UNCHANGED <<app, pc, call, try, client, conn, alive, routing, mismatch, gaveUp,
                 unread, crashes>>

-----------------------------------------------------------------------------
(* The controller.                                                         *)

Connect ==
  /\ status' = "CONNECTED"
  /\ UNCHANGED <<toggle, tunOn, pc, call, try, expired, client, conn, alive,
                 routing, history>>

\* enableTun, past its status and its settings.
SwitchOn(t) ==
  /\ pc[t] = "idle" /\ status = "CONNECTED"
  /\ StartCall(t, "tun_up")
  /\ leaving' = [leaving EXCEPT ![t] = FALSE]
  /\ UNCHANGED <<app, expired, client, conn, alive, routing, history>>

\* store.Update succeeds, then the switch is shown.
Record(t) ==
  /\ pc[t] = "record"
  /\ toggle' = TRUE /\ tunOn' = TRUE
  /\ Goto(t, "idle")
  /\ UNCHANGED <<status, call, try, expired, client, conn, alive, routing, history>>

\* Mutant: the error is returned and the tunnel stays.
RecordFailsOnly(t) ==
  /\ pc[t] = "record"
  /\ Goto(t, "idle")
  /\ UNCHANGED <<app, call, try, expired, client, conn, alive, routing, history>>

\* The toggle cannot be stored: take the tunnel down, whatever that answers.
RecordFails(t) ==
  /\ pc[t] = "record"
  /\ StartCall(t, "tun_down")
  /\ UNCHANGED <<app, leaving, expired, client, conn, alive, routing, history>>

\* disableTun, by itself or as the beginning of Disconnect.  Without a trace
\* of a tunnel it does not call the helper.
SwitchOff(t, disconnect) ==
  /\ pc[t] = "idle"
  /\ leaving' = [leaving EXCEPT ![t] = disconnect]
  /\ \/ /\ toggle \/ tunOn
        /\ StartCall(t, "tun_down")
     \/ /\ ~toggle /\ ~tunOn /\ disconnect
        /\ Goto(t, "stop")
        /\ UNCHANGED <<op, try>>
  /\ unread' = FALSE
  /\ UNCHANGED <<app, expired, client, conn, alive, routing, mismatch, gaveUp, crashes, timeouts>>

\* store.Load fails before anything is asked of the helper.  disableTun returns
\* the error, Disconnect logs it and goes on.
SwitchOffBlind(t, disconnect) ==
  /\ pc[t] = "idle"
  /\ leaving' = [leaving EXCEPT ![t] = disconnect]
  /\ Goto(t, IF disconnect THEN "stop" ELSE "idle")
  /\ unread' = TRUE
  /\ UNCHANGED <<app, op, try, expired, client, conn, alive, routing, mismatch, gaveUp,
                 crashes, timeouts>>

Forget(t) ==
  /\ pc[t] = "forget"
  /\ toggle' = FALSE /\ tunOn' = FALSE
  /\ Goto(t, AfterDisable(t))
  /\ UNCHANGED <<status, call, try, expired, client, conn, alive, routing, history>>

\* store.Update fails.
ForgetFails(t) ==
  /\ pc[t] = "forget"
  /\ Goto(t, AfterDisable(t))
  /\ UNCHANGED <<app, call, try, expired, client, conn, alive, routing, history>>

\* The rest of Disconnect: the snapshot starts over, the disk does not.
StopCore(t) ==
  /\ pc[t] = "stop"
  /\ status' = "DISCONNECTED" /\ tunOn' = FALSE
  /\ Goto(t, "idle")
  /\ leaving' = [leaving EXCEPT ![t] = FALSE]
  /\ UNCHANGED <<toggle, op, try, expired, client, conn, alive, routing, history>>

\* HelperAvailable, which the window asks for whenever it renders.
Poll(t) ==
  /\ pc[t] = "idle"
  /\ StartCall(t, "hello")
  /\ UNCHANGED <<app, leaving, expired, client, conn, alive, routing, history>>

-----------------------------------------------------------------------------
(* The helper.                                                             *)

\* One request of one connection, under the server's mutex.  What the client
\* sent before it closed is still read, and run; its answer cannot be
\* written, which ends the connection.
Serve(k) ==
  /\ conn[k].served /\ conn[k].in # <<>>
  /\ LET request == Head(conn[k].in) IN
       \E ok \in {TRUE, request.method # "tun_up"} :
         /\ Tunnel!Perform(request.method, ok)
         /\ conn' = [conn EXCEPT
              ![k].in = Tail(@),
              ![k].out = IF conn[k].held
                         THEN Append(@, [id |-> request.id, ok |-> ok]) ELSE @,
              ![k].served = conn[k].held]
  /\ UNCHANGED <<app, pc, call, try, expired, client, history>>

\* The server reads the end of a connection the client has closed.
Hangup(k) ==
  /\ conn[k].served /\ ~conn[k].held /\ conn[k].in = <<>>
  /\ conn' = [conn EXCEPT ![k].served = FALSE]
  /\ UNCHANGED <<app, pc, call, try, expired, client, alive, routing, history>>

\* The helper is killed: its policy stays, answers on the way can be read.
Crash ==
  /\ Tunnel!Crash
  /\ crashes < Crashes /\ crashes' = crashes + 1
  /\ conn' = [k \in Conns |-> [conn[k] EXCEPT !.served = FALSE, !.in = <<>>]]
  /\ UNCHANGED <<app, pc, call, try, expired, client, mismatch, gaveUp, unread, timeouts>>

\* CleanupStale, then the socket is opened.
Restart ==
  /\ Tunnel!Restart
  /\ UNCHANGED <<app, pc, call, try, expired, client, conn, history>>

-----------------------------------------------------------------------------
Call(t) ==
  \/ Acquire(t) \/ HasConnection(t) \/ Dial(t) \/ DialFails(t)
  \/ Send(t) \/ SendFails(t) \/ Receive(t) \/ ReceiveFails(t)

\* Everything a goroutine of the client does once its call has begun.
Proceed(t) ==
  Call(t) \/ Record(t) \/ RecordFails(t) \/ Forget(t) \/ ForgetFails(t) \/ StopCore(t)

Helper == \E k \in Conns : Serve(k) \/ Hangup(k)

Next ==
  \/ \E t \in Threads : Proceed(t) \/ Expire(t)
  \/ \E t \in Callers : SwitchOn(t) \/ (\E d \in BOOLEAN : SwitchOff(t, d) \/ SwitchOffBlind(t, d))
  \/ \E t \in Pollers : Poll(t)
  \/ Connect
  \/ Helper \/ Crash \/ Restart

Spec == Init /\ [][Next]_vars

\* Goroutines run and mutexes are handed over; a helper that runs answers.
\* Nothing is assumed of its life, nor that it is started again.
FairSpec ==
  /\ Spec
  /\ \A t \in Threads : SF_vars(Proceed(t))
  /\ \A k \in Conns : WF_vars(Serve(k) \/ Hangup(k))
-----------------------------------------------------------------------------
Quiet ==
  /\ alive
  /\ \A t \in Threads : pc[t] = "idle"
  /\ \A k \in Conns : conn[k].in = <<>>

\* "Routing must never outlive the core" (disableTun, Disconnect): once the
\* helper has nothing left to do, a disconnected machine's routing is its own
\* again, whichever write failed and whenever the helper died.  Two things may
\* leave the tunnel: the last disableTun could not read the settings, and then
\* the toggle on disk still says so and the next one takes it down; or a call
\* has been given up at its deadline.  It is about one caller at a time:
\* enableTun reads the status before its call and takes no lock, so a second
\* caller that switches the tunnel on while Disconnect is under way can have
\* the last word.
RoutingGoesWithCore ==
  Quiet /\ status = "DISCONNECTED" /\ routing = "tunnel" => (unread /\ toggle) \/ gaveUp

\* The client takes answers in the order they come and does not compare IDs:
\* still, no call gets the answer to another one, as long as the helper does
\* not die and calls are not cut off by their deadlines as well.
AnswersMatch == mismatch => crashes > 0 /\ timeouts > 0

\* Every call returns, also when the helper is gone for good: a second
\* attempt is the last, and the client's mutex is handed on.
CallsReturn == \A t \in Threads : (pc[t] # "idle") ~> (pc[t] = "idle")

\* The promise with nothing excepted, which a failed read of the settings breaks
\* (MCHelperLink_unread.cfg), and with that excepted, which a deadline breaks
\* (MCHelperLink_timeout.cfg).
RoutingNeverOutlivesCore == Quiet /\ status = "DISCONNECTED" => routing # "tunnel"
RoutingEndsWhenRead == unread \/ RoutingNeverOutlivesCore
=============================================================================
