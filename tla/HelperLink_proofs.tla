-------------------------- MODULE HelperLink_proofs --------------------------
(***************************************************************************)
(* Theorems about HelperLink, for every set of goroutines and of sockets    *)
(* and any number of crashes and of deadlines that pass.                    *)
(***************************************************************************)
EXTENDS HelperLink, SequenceTheorems, TLAPS

\* The switch is flipped by one goroutine at a time.
OneCaller == \E c \in Callers : Callers = {c}

-----------------------------------------------------------------------------
(* The inductive invariant.                                                *)

SocketsTyped ==
  conn \in [Conns -> [held : BOOLEAN, served : BOOLEAN, in : Seq(Requests), out : Seq(Responses)]]

InCall == {"dial", "send", "wait"}

\* The mutex, and what a thread that does not hold it is in.
Calling ==
  /\ \A t \in Threads :
       /\ pc[t] \in InCall <=> clientMu = t
       /\ pc[t] \in {"send", "wait"} => link # NoConn
       /\ try[t] = 2 => pc[t] \in InCall
       /\ pc[t] \in {"idle", "record", "forget", "stop"} => op[t] = "hello"
       /\ t \in Pollers => op[t] = "hello" /\ pc[t] \notin {"record", "forget", "stop"}
       /\ t \in Callers /\ op[t] = "hello" => pc[t] \notin InCall \cup {"lock"}
  /\ timeouts = 0 => expired = {}

\* While the helper lives, an attempt only fails because its deadline has passed,
\* and there is no time left for another.
Unbroken ==
  crashes = 0 =>
    /\ alive
    /\ link # NoConn => conn[link].served
    /\ \A t \in Threads : try[t] = 2 => t \in expired /\ pc[t] = "dial" /\ link = NoConn

\* Only the socket of the client has answers, and a dead one has no requests.
Ends ==
  \A k \in Conns :
    /\ conn[k].held <=> k = link
    /\ k # link => conn[k].out = <<>>
    /\ conn[k].served => alive
    /\ k = link /\ conn[k].in # <<>> => conn[k].served

\* What belongs to the call t is in: its request, its answer, or neither any more.
InFlight(t) ==
  \/ conn[link].in = <<[id |-> lastID, method |-> op[t]]>> /\ conn[link].out = <<>>
  \/ conn[link].in = <<>> /\ \E ok \in BOOLEAN : conn[link].out = <<[id |-> lastID, ok |-> ok]>>
  \/ conn[link].in = <<>> /\ conn[link].out = <<>> /\ ~conn[link].served

\* Answers cannot be mixed up: a death and a deadline have not come together, or
\* no attempt has been given up that leaves anything behind.
Sound == ~(crashes > 0 /\ timeouts > 0) \/ ~gaveUp

\* Then nothing of an earlier call is on the client's socket.
Answers ==
  Sound =>
    /\ ~mismatch
    /\ \A t \in Threads : pc[t] = "wait" => InFlight(t)
    /\ link # NoConn /\ (\A t \in Threads : pc[t] # "wait") =>
         conn[link].in = <<>> /\ conn[link].out = <<>>

\* A socket the client has left holds no request, or one that changes nothing.
Harmless(k) ==
  \/ conn[k].in = <<>>
  \/ conn[k].in # <<>> /\ Tail(conn[k].in) = <<>> /\ Head(conn[k].in).method = "hello"

\* As long as no call about the tunnel is given up, only a helper that lives and
\* that the client can reach has a tunnel, and an answer tells how it stands.
Told ==
  ~gaveUp =>
    /\ \A k \in Conns : k # link => Harmless(k)
    /\ routing = "tunnel" => alive /\ (link # NoConn => conn[link].served)
    /\ \A t \in Threads :
         pc[t] = "wait" /\ conn[link].in = <<>> /\ routing = "tunnel" =>
           /\ op[t] # "tun_down"
           /\ op[t] = "tun_up" /\ conn[link].out # <<>> => Head(conn[link].out).ok

\* What the one caller knows of the tunnel.
Known(t) ==
  ~gaveUp =>
    /\ pc[t] = "forget" => routing # "tunnel"
    /\ pc[t] = "stop" /\ routing = "tunnel" => toggle /\ unread
    /\ pc[t] = "idle" /\ routing = "tunnel" => toggle
    /\ status = "DISCONNECTED" =>
         /\ op[t] # "tun_up" /\ pc[t] # "record"
         /\ routing = "tunnel" => toggle /\ (unread \/ op[t] = "tun_down")

Linked == TypeOK /\ SocketsTyped /\ Calling /\ Unbroken /\ Ends /\ Answers /\ Told

IInv ==
  /\ Linked
  /\ OneCaller => \A t \in Callers : Known(t)

-----------------------------------------------------------------------------
(* Sequences of one element, and the sockets.                              *)

LEMMA OneElement ==
  ASSUME NEW x
  PROVE  /\ Append(<<>>, x) = <<x>> /\ <<x>> # <<>>
         /\ Head(<<x>>) = x /\ Tail(<<x>>) = <<>>
OBVIOUS

LEMMA Longer ==
  ASSUME NEW S, NEW s \in Seq(S), NEW x \in S
  PROVE  Append(s, x) \in Seq(S) /\ Append(s, x) # <<>>
BY AppendProperties, EmptySeq

LEMMA Shorter ==
  ASSUME NEW S, NEW s \in Seq(S), s # <<>>
  PROVE  Head(s) \in S /\ Tail(s) \in Seq(S)
BY HeadTailProperties

\* What the type invariant says of the variables, in the form the proofs use.
LEMMA Types ==
  ASSUME TypeOK, SocketsTyped
  PROVE  /\ pc \in [Threads -> Steps] /\ op \in [Threads -> {"tun_up", "tun_down", "hello"}]
         /\ try \in [Threads -> 1..2] /\ expired \subseteq Threads
         /\ clientMu \in Threads \cup {NoThread} /\ link \in Conns \cup {NoConn}
         /\ timeouts \in Nat /\ crashes \in Nat
         /\ \A k \in Conns : /\ conn[k].held \in BOOLEAN /\ conn[k].served \in BOOLEAN
                             /\ conn[k].in \in Seq(Requests) /\ conn[k].out \in Seq(Responses)
BY HelperLinkAssumption DEF TypeOK, SocketsTyped, Tunnel!Methods

LEMMA TypeLink ==
  ASSUME SocketsTyped
  PROVE  \A k \in Conns : /\ conn[k].held \in BOOLEAN /\ conn[k].served \in BOOLEAN
                          /\ conn[k].in \in Seq(Requests) /\ conn[k].out \in Seq(Responses)
BY DEF SocketsTyped

\* What the client drops keeps its requests and nothing else changes.
LEMMA Dropped ==
  ASSUME SocketsTyped, NEW k \in Conns
  PROVE  /\ Drop(k) \in [Conns -> [held : BOOLEAN, served : BOOLEAN, in : Seq(Requests), out : Seq(Responses)]]
         /\ \A j \in Conns \ {k} : Drop(k)[j] = conn[j]
         /\ Drop(k)[k].held = FALSE /\ Drop(k)[k].out = <<>>
         /\ Drop(k)[k].served = conn[k].served /\ Drop(k)[k].in = conn[k].in
<1>1. <<>> \in Seq(Responses)
  OBVIOUS
<1>2. QED
  BY <1>1 DEF SocketsTyped, Drop

-----------------------------------------------------------------------------
(* Outside of a call.                                                      *)

\* Between calls a thread changes nothing the call and the sockets depend on.
Outside(t) ==
  /\ pc[t] \in {"idle", "record", "forget", "stop"}
  /\ \E s \in {"idle", "stop"} :
       \/ Goto(t, s) /\ UNCHANGED <<op, try>> /\ (s = "idle" \/ t \in Callers)
       \/ \E m \in {"tun_up", "tun_down", "hello"} :
            StartCall(t, m) /\ (m = "hello" <=> t \in Pollers)
  /\ leaving' \in [Threads -> BOOLEAN]
  /\ status' \in {"CONNECTED", "DISCONNECTED"} /\ toggle' \in BOOLEAN /\ tunOn' \in BOOLEAN
  /\ unread' \in BOOLEAN
  /\ UNCHANGED <<expired, client, conn, alive, routing, mismatch, gaveUp, crashes, timeouts>>

LEMMA OutsideStep ==
  ASSUME Linked, NEW t \in Threads, Outside(t)
  PROVE  Linked'
<1> DEFINE s == pc'[t]
<1>1. /\ pc \in [Threads -> Steps] /\ op \in [Threads -> {"tun_up", "tun_down", "hello"}]
      /\ try \in [Threads -> 1..2]
  BY Types DEF Linked
<1>2. /\ pc' \in [Threads -> Steps] /\ op' \in [Threads -> {"tun_up", "tun_down", "hello"}]
      /\ try' \in [Threads -> 1..2]
      /\ \A u \in Threads \ {t} : pc'[u] = pc[u] /\ op'[u] = op[u] /\ try'[u] = try[u]
      /\ s \in {"idle", "stop", "lock"}
      /\ s = "lock" => try'[t] = 1 /\ (op'[t] = "hello" <=> t \in Pollers)
      /\ s # "lock" => try'[t] = try[t] /\ op'[t] = op[t]
      /\ s = "stop" => t \in Callers
  BY <1>1 DEF Outside, Goto, StartCall, Steps
<1>3. UNCHANGED <<expired, clientMu, link, lastID, conn, alive, routing, mismatch, gaveUp, crashes,
                  timeouts>>
  BY DEF Outside, client
<1>4. TypeOK'
  BY <1>2, <1>3 DEF Linked, TypeOK, Outside, Tunnel!Methods
<1>5. SocketsTyped'
  BY <1>3 DEF Linked, SocketsTyped
<1>6. pc[t] \notin InCall /\ s \notin InCall /\ pc[t] # "wait" /\ s # "wait"
  BY <1>2 DEF InCall, Outside
<1>7. Calling'
  BY <1>2, <1>3, <1>6, HelperLinkAssumption DEF Linked, Calling, Outside, InCall, Threads
<1>8. \A u \in Threads : try'[u] = 2 => try[u] = 2 /\ pc'[u] = pc[u]
  BY <1>2, <1>6 DEF Linked, Calling
<1>9. Unbroken'
  BY <1>3, <1>8 DEF Linked, Unbroken
<1>10. Ends'
  BY <1>3 DEF Linked, Ends
<1>11. \A u \in Threads : /\ pc'[u] = "wait" <=> pc[u] = "wait"
                          /\ pc[u] = "wait" => op'[u] = op[u]
  BY <1>2, <1>6
<1>12. Answers'
  BY <1>3, <1>11 DEF Linked, Answers, Sound, InFlight
<1>13. Told'
  BY <1>3, <1>11 DEF Linked, Told, Harmless
<1>14. QED
  BY <1>4, <1>5, <1>7, <1>9, <1>10, <1>12, <1>13 DEF Linked

-----------------------------------------------------------------------------
(* One call.                                                               *)

\* Who holds the mutex is the only one in a call.
LEMMA Holder ==
  ASSUME Calling, NEW t \in Threads, pc[t] \in InCall
  PROVE  clientMu = t /\ \A u \in Threads \ {t} : pc[u] \notin InCall /\ pc[u] # "wait" /\ try[u] # 2
BY DEF Calling, InCall

\* How a call returns.
LEMMA ReturnFacts ==
  ASSUME TypeOK, SocketsTyped, NEW t \in Threads, NEW ok \in BOOLEAN, Return(t, ok)
  PROVE  /\ pc' \in [Threads -> Steps] /\ op' \in [Threads -> {"tun_up", "tun_down", "hello"}]
         /\ try' \in [Threads -> 1..2] /\ expired' = expired \ {t} /\ clientMu' = NoThread
         /\ \A u \in Threads \ {t} : pc'[u] = pc[u] /\ op'[u] = op[u] /\ try'[u] = try[u]
         /\ op'[t] = "hello" /\ try'[t] = 1
         /\ op[t] = "hello" => pc'[t] = "idle" /\ tunOn' = tunOn
         /\ op[t] = "tun_up" /\ ok => pc'[t] = "record" /\ tunOn' = tunOn
         /\ op[t] = "tun_up" /\ ~ok => pc'[t] = "idle"
         /\ op[t] = "tun_down" /\ ok => pc'[t] = "forget" /\ tunOn' = tunOn
         /\ op[t] = "tun_down" /\ ~ok => pc'[t] \in {"idle", "stop"} /\ tunOn' = tunOn
         /\ UNCHANGED <<status, toggle, leaving>> /\ tunOn' \in BOOLEAN
<1>1. /\ pc \in [Threads -> Steps] /\ op \in [Threads -> {"tun_up", "tun_down", "hello"}]
      /\ try \in [Threads -> 1..2]
  BY Types
<1>2. /\ try' = [try EXCEPT ![t] = 1] /\ op' = [op EXCEPT ![t] = "hello"]
      /\ expired' = expired \ {t} /\ clientMu' = NoThread
      /\ UNCHANGED <<status, toggle, leaving>>
  BY DEF Return
<1>3. \E s \in Steps :
        /\ pc' = [pc EXCEPT ![t] = s]
        /\ op[t] = "hello" => s = "idle"
        /\ op[t] = "tun_up" /\ ok => s = "record"
        /\ op[t] = "tun_up" /\ ~ok => s = "idle"
        /\ op[t] = "tun_down" /\ ok => s = "forget"
        /\ op[t] = "tun_down" /\ ~ok => s \in {"idle", "stop"}
  BY <1>1 DEF Return, Goto, AfterDisable, Steps
<1>4. tunOn' = (tunOn /\ ~(op[t] = "tun_up" /\ ~ok)) /\ tunOn \in BOOLEAN
  BY DEF Return, TypeOK
<1>5. tunOn' \in BOOLEAN /\ (op[t] # "tun_up" \/ ok => tunOn' = tunOn)
  BY <1>4
<1>6. QED
  BY <1>1, <1>2, <1>3, <1>5

\* The mutex and the threads once a call has returned.
LEMMA ReturnStep ==
  ASSUME Linked, NEW t \in Threads, pc[t] \in InCall, NEW ok \in BOOLEAN, Return(t, ok),
         link' = link, timeouts' = timeouts
  PROVE  /\ Calling' /\ \A u \in Threads : pc'[u] # "wait" /\ try'[u] # 2
<1>1. /\ clientMu = t /\ \A u \in Threads \ {t} : pc[u] \notin InCall /\ pc[u] # "wait" /\ try[u] # 2
  BY Holder DEF Linked
<1>2. /\ clientMu' = NoThread /\ expired' = expired \ {t}
      /\ \A u \in Threads \ {t} : pc'[u] = pc[u] /\ op'[u] = op[u] /\ try'[u] = try[u]
      /\ op'[t] = "hello" /\ try'[t] = 1
      /\ pc'[t] \in {"idle", "record", "forget", "stop"}
      /\ op[t] = "hello" => pc'[t] = "idle"
  <2>1. op[t] \in {"tun_up", "tun_down", "hello"}
    BY Types DEF Linked
  <2>2. QED
    BY <2>1, ReturnFacts DEF Linked
<1>3. Calling'
  BY <1>1, <1>2, HelperLinkAssumption DEF Linked, Calling, InCall, Threads
<1>4. QED
  BY <1>1, <1>2, <1>3

\* Why a call can be lost: its deadline has passed, or the helper is not there.
Broken(t) ==
  /\ pc[t] \in InCall
  /\ \/ t \in expired
     \/ link = NoConn /\ ~alive
     \/ link # NoConn /\ ~conn[link].served /\ (pc[t] = "wait" => conn[link].out = <<>>)

\* The sockets after the first attempt.
LEMMA Abandon ==
  ASSUME TypeOK, SocketsTyped, link' = NoConn, conn' = IF link = NoConn THEN conn ELSE Drop(link)
  PROVE  /\ SocketsTyped'
         /\ \A k \in Conns : /\ conn'[k].in = conn[k].in /\ conn'[k].served = conn[k].served
                             /\ k # link => conn'[k].held = conn[k].held /\ conn'[k].out = conn[k].out
                             /\ k = link => conn'[k].held = FALSE /\ conn'[k].out = <<>>
<1>1. link \in Conns \cup {NoConn}
  BY Types
<1>2. CASE link = NoConn
  BY <1>2, HelperLinkAssumption DEF SocketsTyped
<1>3. CASE link # NoConn
  BY <1>1, <1>3, Dropped DEF SocketsTyped
<1>4. QED
  BY <1>2, <1>3

LEMMA LostStep ==
  ASSUME Linked, NEW t \in Threads, Broken(t), Lost(t), GiveUp(t),
         UNCHANGED <<lastID, alive, routing, mismatch, unread, crashes, timeouts>>
  PROVE  Linked'
<1>1. /\ pc \in [Threads -> Steps] /\ op \in [Threads -> {"tun_up", "tun_down", "hello"}]
      /\ try \in [Threads -> 1..2] /\ link \in Conns \cup {NoConn} /\ expired \subseteq Threads
      /\ NoConn \notin Conns
  BY Types, HelperLinkAssumption DEF Linked
<1>2. /\ UNCHANGED <<lastID, alive, routing, mismatch, unread, crashes, timeouts>>
      /\ gaveUp' \in BOOLEAN /\ (Sound' => Sound) /\ (~gaveUp' => ~gaveUp)
      /\ ~gaveUp' => t \notin expired \/ (op[t] = "hello" /\ (try[t] = 1 \/ link = NoConn))
  <2>1. UNCHANGED <<lastID, alive, routing, mismatch, unread, crashes, timeouts>>
    OBVIOUS
  <2>2. /\ gaveUp \in BOOLEAN /\ try[t] \in 1..2
        /\ gaveUp' = (gaveUp \/ (t \in expired /\ (op[t] # "hello" \/ (try[t] = 2 /\ link # NoConn))))
    BY <1>1 DEF GiveUp, Linked, TypeOK
  <2>3. /\ gaveUp' \in BOOLEAN /\ (~gaveUp' => ~gaveUp)
        /\ ~gaveUp' => t \notin expired \/ (op[t] = "hello" /\ (try[t] = 1 \/ link = NoConn))
    <3>1. gaveUp' \in BOOLEAN /\ (~gaveUp' => ~gaveUp)
      BY <2>2, Zenon
    <3>2. ~gaveUp' => ~(t \in expired /\ (op[t] # "hello" \/ (try[t] = 2 /\ link # NoConn)))
      BY <2>2, Zenon
    <3>3. QED
      BY <2>2, <3>1, <3>2
  <2>4. Sound' => Sound
    BY <2>1, <2>3 DEF Sound
  <2>5. QED
    BY <2>1, <2>3, <2>4
<1>3. clientMu = t /\ \A u \in Threads \ {t} : pc[u] \notin InCall /\ pc[u] # "wait" /\ try[u] # 2
  BY Holder DEF Linked, Broken
<1>4. crashes = 0 => t \in expired
  BY DEF Linked, Unbroken, Broken
<1>5. t \notin expired /\ link # NoConn => conn[link].in = <<>>
  BY <1>1 DEF Linked, Broken, Ends
<1>6. CASE try[t] = 1 /\ try' = [try EXCEPT ![t] = 2] /\ link' = NoConn
           /\ conn' = (IF link = NoConn THEN conn ELSE Drop(link)) /\ Goto(t, "dial")
           /\ UNCHANGED <<app, call, expired, clientMu>>
  <2>1. /\ SocketsTyped'
        /\ \A k \in Conns : /\ conn'[k].in = conn[k].in /\ conn'[k].served = conn[k].served
                            /\ k # link => conn'[k].held = conn[k].held /\ conn'[k].out = conn[k].out
                            /\ k = link => conn'[k].held = FALSE /\ conn'[k].out = <<>>
    BY <1>6, Abandon DEF Linked
  <2>2. /\ UNCHANGED <<status, toggle, tunOn, op, leaving, expired, clientMu>>
        /\ pc' = [pc EXCEPT ![t] = "dial"]
    BY <1>6 DEF app, call, Goto
  <2>3. TypeOK'
    <3>1. /\ pc' \in [Threads -> Steps] /\ try' \in [Threads -> 1..2] /\ link' \in Conns \cup {NoConn}
      BY <1>1, <1>6, <2>2 DEF Steps
    <3>2. \A k \in Conns : /\ conn'[k].held \in BOOLEAN /\ conn'[k].served \in BOOLEAN
                           /\ conn'[k].in \in Seq(Requests) /\ conn'[k].out \in Seq(Responses)
      BY <2>1 DEF SocketsTyped
    <3>3. QED
      BY <1>2, <2>2, <3>1, <3>2 DEF Linked, TypeOK
  <2>4. Calling'
    BY <1>1, <1>2, <1>3, <1>6, <2>2 DEF Linked, Calling, InCall
  <2>5. Unbroken'
    BY <1>1, <1>2, <1>3, <1>4, <1>6, <2>2 DEF Linked, Unbroken
  <2>6. Ends'
    BY <1>1, <1>2, <1>6, <2>1 DEF Linked, Ends
  <2>7. \A u \in Threads : pc'[u] # "wait"
    BY <1>1, <1>3, <2>2
  <2>8. Answers'
    BY <1>2, <1>6, <2>7 DEF Linked, Answers, Sound
  <2>9. Told'
    <3>1. SUFFICES ASSUME ~gaveUp'
                   PROVE  \A k \in Conns : Harmless(k)'
      BY <1>2, <1>6, <2>7 DEF Linked, Told, Harmless
    <3>2. \A k \in Conns \ {link} : Harmless(k)'
      BY <1>2, <2>1, <3>1 DEF Linked, Told, Harmless
    <3>3. ASSUME link # NoConn
          PROVE  Harmless(link)
      <4>1. CASE t \notin expired
        BY <1>5, <3>3, <4>1 DEF Harmless
      <4>2. CASE pc[t] # "wait"
        BY <1>2, <1>3, <3>1, <3>3, <4>2 DEF Linked, Answers, Sound, Harmless
      <4>3. CASE pc[t] = "wait" /\ op[t] = "hello"
        <5>1. InFlight(t)
          BY <1>2, <3>1, <4>3 DEF Linked, Answers, Sound
        <5>2. CASE conn[link].in = <<[id |-> lastID, method |-> op[t]]>>
          <6>1. /\ conn[link].in # <<>> /\ Tail(conn[link].in) = <<>>
                /\ Head(conn[link].in) = [id |-> lastID, method |-> op[t]]
            BY <5>2, OneElement
          <6>2. Head(conn[link].in).method = "hello"
            BY <4>3, <6>1
          <6>3. QED
            BY <6>1, <6>2 DEF Harmless
        <5>3. QED
          BY <5>1, <5>2 DEF InFlight, Harmless
      <4>4. QED
        BY <1>2, <3>1, <4>1, <4>2, <4>3
    <3>4. \A k \in Conns : k = link => Harmless(k)'
      BY <1>1, <2>1, <3>3 DEF Harmless
    <3>5. QED
      BY <3>2, <3>4
  <2>10. QED
    BY <2>1, <2>3, <2>4, <2>5, <2>6, <2>8, <2>9 DEF Linked
<1>7. CASE try[t] = 2 /\ Return(t, FALSE) /\ UNCHANGED <<link, conn>>
  <2>1. /\ Calling' /\ \A u \in Threads : pc'[u] # "wait" /\ try'[u] # 2
    BY <1>2, <1>7, ReturnStep DEF Broken
  <2>2. TypeOK'
    <3>1. /\ pc' \in [Threads -> Steps] /\ op' \in [Threads -> {"tun_up", "tun_down", "hello"}]
          /\ try' \in [Threads -> 1..2] /\ expired' \subseteq Threads /\ clientMu' = NoThread
          /\ UNCHANGED <<status, toggle, leaving>> /\ tunOn' \in BOOLEAN
      BY <1>1, <1>7, ReturnFacts DEF Linked
    <3>2. QED
      BY <1>2, <1>7, <3>1 DEF Linked, TypeOK, Tunnel!Methods
  <2>3. Unbroken'
    BY <1>2, <1>7, <2>1 DEF Linked, Unbroken
  <2>4. Ends'
    BY <1>2, <1>7 DEF Linked, Ends
  <2>5. Sound' /\ link # NoConn => conn[link].in = <<>> /\ conn[link].out = <<>>
    <3>1. SUFFICES ASSUME Sound', link # NoConn
                   PROVE  conn[link].in = <<>> /\ conn[link].out = <<>>
      OBVIOUS
    <3>2. crashes \in Nat /\ timeouts \in Nat
      BY Types DEF Linked
    <3>3. CASE crashes = 0
      BY <1>7, <3>1, <3>3 DEF Linked, Unbroken
    <3>4. t \notin expired \/ crashes = 0
      BY <1>2, <1>7, <3>1, <3>2 DEF Linked, Calling, Sound
    <3>5. CASE t \notin expired /\ pc[t] = "wait"
      BY <1>5, <3>1, <3>5 DEF Broken
    <3>6. CASE pc[t] # "wait"
      BY <1>2, <1>3, <3>1, <3>6 DEF Linked, Answers, Sound
    <3>7. QED
      BY <3>3, <3>4, <3>5, <3>6
  <2>6. Answers'
    BY <1>2, <1>7, <2>1, <2>5 DEF Linked, Answers, Sound
  <2>7. Told'
    BY <1>2, <1>7, <2>1 DEF Linked, Told, Harmless
  <2>8. SocketsTyped'
    BY <1>7 DEF Linked, SocketsTyped
  <2>9. QED
    BY <2>1, <2>2, <2>3, <2>4, <2>6, <2>7, <2>8 DEF Linked
<1>8. QED
  BY <1>6, <1>7 DEF Lost

LEMMA AcquireStep ==
  ASSUME Linked, NEW t \in Threads, Acquire(t)
  PROVE  Linked'
<1>1. /\ pc \in [Threads -> Steps] /\ try \in [Threads -> 1..2]
  BY Types DEF Linked
<1>2. /\ pc[t] = "lock" /\ clientMu = NoThread /\ clientMu' = t /\ pc' = [pc EXCEPT ![t] = "dial"]
      /\ lastID' = (lastID + 1) % IdCount
      /\ UNCHANGED <<status, toggle, tunOn, op, leaving, try, expired, link, conn, alive, routing,
                     mismatch, gaveUp, unread, crashes, timeouts>>
  BY DEF Acquire, Goto, app, call, history
<1>3. \A u \in Threads : pc[u] \notin InCall /\ pc[u] # "wait" /\ pc'[u] # "wait" /\ try[u] # 2
  BY <1>1, <1>2, HelperLinkAssumption DEF Linked, Calling, InCall
<1>4. TypeOK'
  <2>1. lastID' \in 0..(IdCount - 1)
    BY <1>2, HelperLinkAssumption DEF Linked, TypeOK
  <2>2. pc' \in [Threads -> Steps]
    BY <1>1, <1>2 DEF Steps
  <2>3. QED
    BY <1>2, <2>1, <2>2 DEF Linked, TypeOK
<1>5. Calling'
  BY <1>1, <1>2, <1>3, HelperLinkAssumption DEF Linked, Calling, InCall
<1>6. Unbroken'
  BY <1>2, <1>3 DEF Linked, Unbroken
<1>7. Ends' /\ SocketsTyped'
  BY <1>2 DEF Linked, Ends, SocketsTyped
<1>8. Answers'
  BY <1>2, <1>3 DEF Linked, Answers, Sound
<1>9. Told'
  BY <1>2, <1>3 DEF Linked, Told, Harmless
<1>10. QED
  BY <1>4, <1>5, <1>6, <1>7, <1>8, <1>9 DEF Linked

LEMMA HasConnectionStep ==
  ASSUME Linked, NEW t \in Threads, HasConnection(t)
  PROVE  Linked'
<1>1. /\ pc \in [Threads -> Steps] /\ try \in [Threads -> 1..2]
  BY Types DEF Linked
<1>2. /\ pc[t] = "dial" /\ link # NoConn /\ pc' = [pc EXCEPT ![t] = "send"]
      /\ UNCHANGED <<status, toggle, tunOn, op, leaving, try, expired, clientMu, link, lastID, conn,
                     alive, routing, mismatch, gaveUp, unread, crashes, timeouts>>
  BY DEF HasConnection, Goto, app, call, client, history
<1>3. \A u \in Threads : pc[u] # "wait" /\ pc'[u] # "wait" /\ (u # t => try[u] # 2)
  BY <1>1, <1>2, Holder DEF Linked, InCall
<1>4. TypeOK'
  <2>1. pc' \in [Threads -> Steps]
    BY <1>1, <1>2 DEF Steps
  <2>2. QED
    BY <1>2, <2>1 DEF Linked, TypeOK
<1>5. Calling'
  BY <1>1, <1>2 DEF Linked, Calling, InCall
<1>6. Unbroken'
  BY <1>2, <1>3 DEF Linked, Unbroken
<1>7. Ends' /\ SocketsTyped'
  BY <1>2 DEF Linked, Ends, SocketsTyped
<1>8. Answers'
  BY <1>2, <1>3 DEF Linked, Answers, Sound
<1>9. Told'
  BY <1>2, <1>3 DEF Linked, Told, Harmless
<1>10. QED
  BY <1>4, <1>5, <1>6, <1>7, <1>8, <1>9 DEF Linked

LEMMA DialStep ==
  ASSUME Linked, NEW t \in Threads, Dial(t)
  PROVE  Linked'
<1>1. /\ pc \in [Threads -> Steps] /\ try \in [Threads -> 1..2] /\ NoConn \notin Conns
      /\ link \in Conns \cup {NoConn}
  BY Types, HelperLinkAssumption DEF Linked
<1>2. PICK k \in Conns : /\ conn[k] = Closed /\ link' = k
                         /\ conn' = [conn EXCEPT ![k].held = TRUE, ![k].served = TRUE]
  BY DEF Dial
<1>3. /\ pc[t] = "dial" /\ link = NoConn /\ alive /\ t \notin expired /\ pc' = [pc EXCEPT ![t] = "send"]
      /\ UNCHANGED <<status, toggle, tunOn, op, leaving, try, expired, clientMu, lastID,
                     alive, routing, mismatch, gaveUp, unread, crashes, timeouts>>
  BY DEF Dial, Goto, app, call, history
<1>4. \A u \in Threads : pc[u] # "wait" /\ pc'[u] # "wait" /\ (u # t => try[u] # 2)
  BY <1>1, <1>3, Holder DEF Linked, InCall
<1>5. SocketsTyped'
  BY <1>2 DEF Linked, SocketsTyped
<1>6. /\ conn'[k].held = TRUE /\ conn'[k].served = TRUE /\ conn'[k].in = <<>> /\ conn'[k].out = <<>>
      /\ \A j \in Conns \ {k} : conn'[j] = conn[j]
  BY <1>2 DEF Linked, SocketsTyped, Closed
<1>7. TypeOK'
  <2>1. pc' \in [Threads -> Steps]
    BY <1>1, <1>3 DEF Steps
  <2>2. \A j \in Conns : /\ conn'[j].held \in BOOLEAN /\ conn'[j].served \in BOOLEAN
                         /\ conn'[j].in \in Seq(Requests) /\ conn'[j].out \in Seq(Responses)
    BY <1>5 DEF SocketsTyped
  <2>3. QED
    BY <1>2, <1>3, <2>1, <2>2 DEF Linked, TypeOK
<1>8. Calling'
  BY <1>1, <1>2, <1>3 DEF Linked, Calling, InCall
<1>9. Unbroken'
  BY <1>2, <1>3, <1>4, <1>6 DEF Linked, Unbroken
<1>10. Ends'
  BY <1>1, <1>2, <1>3, <1>6 DEF Linked, Ends
<1>11. Answers'
  BY <1>2, <1>3, <1>4, <1>6 DEF Linked, Answers, Sound
<1>12. Told'
  <2>1. SUFFICES ASSUME ~gaveUp
                 PROVE  /\ \A j \in Conns : j # link' => Harmless(j)'
                        /\ routing' = "tunnel" => alive' /\ (link' # NoConn => conn'[link'].served)
    BY <1>3, <1>4 DEF Told
  <2>2. \A j \in Conns : j # k => Harmless(j)
    BY <1>1, <1>3, <2>1 DEF Linked, Told
  <2>3. \A j \in Conns : j # k => Harmless(j)'
    BY <1>6, <2>2 DEF Harmless
  <2>4. conn'[link'].served
    BY <1>2, <1>6
  <2>5. alive'
    BY <1>3
  <2>6. QED
    BY <1>2, <2>3, <2>4, <2>5
<1>13. QED
  BY <1>5, <1>7, <1>8, <1>9, <1>10, <1>11, <1>12 DEF Linked

LEMMA SendStep ==
  ASSUME Linked, NEW t \in Threads, Send(t)
  PROVE  Linked'
<1> DEFINE request == [id |-> lastID, method |-> op[t]]
<1>1. /\ pc \in [Threads -> Steps] /\ op \in [Threads -> {"tun_up", "tun_down", "hello"}]
      /\ try \in [Threads -> 1..2] /\ link \in Conns \cup {NoConn} /\ NoConn \notin Conns
  BY Types, HelperLinkAssumption DEF Linked
<1>2. /\ pc[t] = "send" /\ conn[link].served /\ t \notin expired /\ pc' = [pc EXCEPT ![t] = "wait"]
      /\ conn' = [conn EXCEPT ![link].in = Append(@, request)]
      /\ UNCHANGED <<status, toggle, tunOn, op, leaving, try, expired, clientMu, link, lastID,
                     alive, routing, mismatch, gaveUp, unread, crashes, timeouts>>
  BY DEF Send, Goto, app, call, client, history
<1>3. link \in Conns
  BY <1>1, <1>2 DEF Linked, Calling
<1>4. \A u \in Threads : pc[u] # "wait" /\ (u # t => pc'[u] # "wait" /\ try[u] # 2)
  BY <1>1, <1>2, Holder DEF Linked, InCall
<1>5. request \in Requests /\ conn[link].in \in Seq(Requests)
  BY <1>1, <1>3 DEF Linked, TypeOK, SocketsTyped, Requests, Tunnel!Methods
<1>6. Append(conn[link].in, request) \in Seq(Requests) /\ Append(conn[link].in, request) # <<>>
  <2> HIDE DEF request
  <2>1. QED
    BY <1>5, Longer
<1>7. conn[link].in = <<>> => Append(conn[link].in, request) = <<request>>
  BY OneElement
<1> HIDE DEF request
<1>8. SocketsTyped'
  BY <1>2, <1>3, <1>6 DEF Linked, SocketsTyped
<1>9. /\ conn'[link].held = conn[link].held /\ conn'[link].served = conn[link].served
      /\ conn'[link].out = conn[link].out /\ conn'[link].in = Append(conn[link].in, request)
      /\ \A j \in Conns \ {link} : conn'[j] = conn[j]
  BY <1>2, <1>3 DEF Linked, SocketsTyped
<1>10. TypeOK'
  <2>1. pc' \in [Threads -> Steps]
    BY <1>1, <1>2 DEF Steps
  <2>2. \A j \in Conns : /\ conn'[j].held \in BOOLEAN /\ conn'[j].served \in BOOLEAN
                         /\ conn'[j].in \in Seq(Requests) /\ conn'[j].out \in Seq(Responses)
    BY <1>8 DEF SocketsTyped
  <2>3. QED
    BY <1>2, <2>1, <2>2 DEF Linked, TypeOK
<1>11. Calling'
  BY <1>1, <1>2 DEF Linked, Calling, InCall
<1>12. Unbroken'
  BY <1>2, <1>4, <1>9 DEF Linked, Unbroken
<1>13. Ends'
  BY <1>2, <1>3, <1>9 DEF Linked, Ends
<1>14. Answers'
  <2>1. SUFFICES ASSUME Sound
                 PROVE  ~mismatch /\ InFlight(t)'
    BY <1>2, <1>1, <1>4 DEF Answers, Sound
  <2>2. conn[link].in = <<>> /\ conn[link].out = <<>> /\ ~mismatch
    BY <1>1, <1>3, <1>4, <2>1 DEF Linked, Answers, Sound
  <2>3. conn'[link].in = <<request>> /\ conn'[link].out = <<>>
    BY <1>7, <1>9, <2>2
  <2>4. QED
    BY <1>2, <2>2, <2>3 DEF InFlight, request
<1>15. Told'
  BY <1>2, <1>3, <1>4, <1>6, <1>9 DEF Linked, Told, Harmless
<1>16. QED
  BY <1>8, <1>10, <1>11, <1>12, <1>13, <1>14, <1>15 DEF Linked

LEMMA ReceiveStep ==
  ASSUME Linked, NEW t \in Threads, Receive(t)
  PROVE  /\ Linked'
         /\ Sound => conn[link].in = <<>>
<1> DEFINE ok == Head(conn[link].out).ok
<1>1. /\ pc \in [Threads -> Steps] /\ op \in [Threads -> {"tun_up", "tun_down", "hello"}]
      /\ try \in [Threads -> 1..2] /\ link \in Conns \cup {NoConn} /\ NoConn \notin Conns
      /\ expired \subseteq Threads
  BY Types, HelperLinkAssumption DEF Linked
<1>2. /\ pc[t] = "wait" /\ conn[link].out # <<>> /\ Return(t, ok)
      /\ mismatch' = (mismatch \/ Head(conn[link].out).id # lastID)
      /\ conn' = [conn EXCEPT ![link].out = Tail(@)]
      /\ UNCHANGED <<link, lastID, alive, routing, gaveUp, unread, crashes, timeouts>>
  BY DEF Receive
<1>3. link \in Conns
  BY <1>1, <1>2 DEF Linked, Calling
<1>4. /\ Head(conn[link].out) \in Responses /\ Tail(conn[link].out) \in Seq(Responses)
  BY <1>2, <1>3, TypeLink, Shorter DEF Linked
<1>5. ok \in BOOLEAN
  BY <1>4 DEF Responses
<1> HIDE DEF ok
<1>6. SocketsTyped'
  BY <1>2, <1>3, <1>4 DEF Linked, SocketsTyped
<1>7. /\ conn'[link].held = conn[link].held /\ conn'[link].served = conn[link].served
      /\ conn'[link].in = conn[link].in /\ conn'[link].out = Tail(conn[link].out)
      /\ \A j \in Conns \ {link} : conn'[j] = conn[j]
  BY <1>2, <1>3 DEF Linked, SocketsTyped
<1>8. Calling' /\ \A u \in Threads : pc'[u] # "wait" /\ try'[u] # 2
  BY <1>2, <1>5, ReturnStep DEF InCall
<1>9. TypeOK'
  <2>1. /\ pc' \in [Threads -> Steps] /\ op' \in [Threads -> {"tun_up", "tun_down", "hello"}]
        /\ try' \in [Threads -> 1..2] /\ expired' \subseteq Threads /\ clientMu' = NoThread
        /\ UNCHANGED <<status, toggle, leaving>> /\ tunOn' \in BOOLEAN
    BY <1>1, <1>2, <1>5, ReturnFacts DEF Linked
  <2>2. mismatch' \in BOOLEAN
    BY <1>2 DEF Linked, TypeOK
  <2>3. \A j \in Conns : /\ conn'[j].held \in BOOLEAN /\ conn'[j].served \in BOOLEAN
                         /\ conn'[j].in \in Seq(Requests) /\ conn'[j].out \in Seq(Responses)
    BY <1>6 DEF SocketsTyped
  <2>4. QED
    BY <1>2, <2>1, <2>2, <2>3 DEF Linked, TypeOK, Tunnel!Methods
<1>10. Unbroken'
  BY <1>2, <1>7, <1>8 DEF Linked, Unbroken
<1>11. Ends'
  BY <1>2, <1>3, <1>7 DEF Linked, Ends
<1>12. Sound =>
         /\ conn[link].in = <<>> /\ Tail(conn[link].out) = <<>> /\ mismatch' = FALSE
  <2>1. SUFFICES ASSUME Sound
                 PROVE  conn[link].in = <<>> /\ Tail(conn[link].out) = <<>> /\ mismatch' = FALSE
    OBVIOUS
  <2>2. mismatch = FALSE /\ InFlight(t)
    BY <1>2, <2>1 DEF Linked, Answers, TypeOK
  <2>3. conn[link].in = <<>> /\ \E b \in BOOLEAN : conn[link].out = <<[id |-> lastID, ok |-> b]>>
    BY <1>2, <2>2 DEF InFlight
  <2>4. Tail(conn[link].out) = <<>> /\ Head(conn[link].out).id = lastID
    BY <2>3, OneElement
  <2>5. QED
    BY <1>2, <2>2, <2>3, <2>4
<1>13. Answers'
  BY <1>2, <1>7, <1>8, <1>12 DEF Answers, Sound
<1>14. Told'
  BY <1>2, <1>3, <1>7, <1>8 DEF Linked, Told, Harmless
<1>15. QED
  BY <1>6, <1>8, <1>9, <1>10, <1>11, <1>12, <1>13, <1>14 DEF Linked

LEMMA FailStep ==
  ASSUME Linked, NEW t \in Threads, DialFails(t) \/ SendFails(t) \/ ReceiveFails(t)
  PROVE  Linked' /\ Broken(t) /\ Lost(t) /\ GiveUp(t)
<1>1. Lost(t) /\ GiveUp(t) /\ UNCHANGED <<lastID, alive, routing, mismatch, unread, crashes, timeouts>>
  BY DEF DialFails, SendFails, ReceiveFails
<1>2. Broken(t)
  BY DEF Broken, DialFails, SendFails, ReceiveFails, InCall, Linked, Calling
<1>3. QED
  BY <1>1, <1>2, LostStep

\* A deadline that passes changes nothing until its call looks at it.
LEMMA ExpireStep ==
  ASSUME Linked, NEW t \in Threads, Expire(t)
  PROVE  Linked'
<1>1. timeouts \in Nat /\ timeouts' = timeouts + 1 /\ timeouts < Timeouts
  BY Types DEF Linked, Expire
<1>2. /\ expired' = expired \cup {t}
      /\ UNCHANGED <<status, toggle, tunOn, pc, op, leaving, try, clientMu, link, lastID, conn,
                     alive, routing, mismatch, gaveUp, unread, crashes>>
  BY DEF Expire, app, call, client
<1>3. TypeOK' /\ SocketsTyped'
  BY <1>1, <1>2, HelperLinkAssumption DEF Linked, TypeOK, SocketsTyped
<1>4. Calling' /\ Unbroken' /\ Ends' /\ Told'
  BY <1>1, <1>2 DEF Linked, Calling, Unbroken, Ends, Told, Harmless
<1>5. Sound' => Sound
  BY <1>1, <1>2 DEF Sound
<1>6. Answers'
  BY <1>2, <1>5 DEF Linked, Answers, InFlight
<1>7. QED
  BY <1>3, <1>4, <1>6 DEF Linked

-----------------------------------------------------------------------------
(* The helper.                                                             *)

\* What running a request leaves on its socket.
LEMMA Served ==
  ASSUME Linked, NEW k \in Conns, Serve(k)
  PROVE  /\ alive /\ conn[k].served /\ conn[k].in # <<>> /\ SocketsTyped'
         /\ \A j \in Conns \ {k} : conn'[j] = conn[j]
         /\ conn'[k].in = Tail(conn[k].in) /\ conn'[k].held = conn[k].held /\ conn'[k].served = conn[k].held
         /\ ~conn[k].held => conn'[k].out = conn[k].out
         /\ \E ok \in BOOLEAN :
              /\ routing' = Tunnel!Outcome(Head(conn[k].in).method, ok)
              /\ conn[k].held =>
                   conn'[k].out = Append(conn[k].out, [id |-> Head(conn[k].in).id, ok |-> ok])
         /\ Head(conn[k].in) \in Requests
         /\ UNCHANGED <<alive, status, toggle, tunOn, pc, op, leaving, try, expired, clientMu, link,
                        lastID, mismatch, gaveUp, unread, crashes, timeouts>>
<1> DEFINE request == Head(conn[k].in)
<1>1. conn[k].served /\ conn[k].in # <<>>
  BY DEF Serve
<1>2. PICK ok \in BOOLEAN :
        /\ Tunnel!Perform(request.method, ok)
        /\ conn' = [conn EXCEPT
              ![k].in = Tail(@),
              ![k].out = IF conn[k].held
                         THEN Append(@, [id |-> request.id, ok |-> ok]) ELSE @,
              ![k].served = conn[k].held]
  <2>1. PICK ok \in {TRUE, request.method # "tun_up"} :
        /\ Tunnel!Perform(request.method, ok)
        /\ conn' = [conn EXCEPT
              ![k].in = Tail(@),
              ![k].out = IF conn[k].held
                         THEN Append(@, [id |-> request.id, ok |-> ok]) ELSE @,
              ![k].served = conn[k].held]
    BY DEF Serve
  <2>2. ok \in BOOLEAN
    BY <2>1
  <2>3. QED
    BY <2>1, <2>2
<1>3. request \in Requests /\ Tail(conn[k].in) \in Seq(Requests)
  BY <1>1, TypeLink, Shorter DEF Linked
<1>4. [id |-> request.id, ok |-> ok] \in Responses
  BY <1>3 DEF Requests, Responses
<1>5. Append(conn[k].out, [id |-> request.id, ok |-> ok]) \in Seq(Responses)
  BY <1>4, TypeLink, Longer DEF Linked
<1>6. SocketsTyped'
  <2>1. conn \in [Conns -> [held : BOOLEAN, served : BOOLEAN, in : Seq(Requests), out : Seq(Responses)]]
    BY DEF Linked, SocketsTyped
  <2>2. PICK new \in Seq(Responses) :
          conn' = [conn EXCEPT ![k].in = Tail(@), ![k].out = new, ![k].served = conn[k].held]
    <3>1. CASE conn[k].held
      BY <1>2, <1>5, <3>1, <2>1
    <3>2. CASE ~conn[k].held
      BY <1>2, <2>1, <3>2
    <3>3. QED
      BY <3>1, <3>2
  <2>3. conn[k] \in [held : BOOLEAN, served : BOOLEAN, in : Seq(Requests), out : Seq(Responses)]
    BY <2>1
  <2>4. conn'[k] = [conn[k] EXCEPT !.in = Tail(conn[k].in), !.out = new, !.served = conn[k].held]
    BY <2>1, <2>2
  <2>5. conn'[k] \in [held : BOOLEAN, served : BOOLEAN, in : Seq(Requests), out : Seq(Responses)]
    BY <1>3, <2>3, <2>4
  <2>6. conn' = [conn EXCEPT ![k] = conn'[k]]
    BY <2>1, <2>2
  <2>7. QED
    BY ONLY <2>1, <2>5, <2>6 DEF SocketsTyped
<1>7. /\ \A j \in Conns \ {k} : conn'[j] = conn[j]
      /\ conn'[k].in = Tail(conn[k].in) /\ conn'[k].held = conn[k].held /\ conn'[k].served = conn[k].held
      /\ ~conn[k].held => conn'[k].out = conn[k].out
      /\ conn[k].held => conn'[k].out = Append(conn[k].out, [id |-> request.id, ok |-> ok])
  BY <1>2 DEF Linked, SocketsTyped
<1>8. alive /\ UNCHANGED alive /\ routing' = Tunnel!Outcome(request.method, ok)
  BY <1>2 DEF Tunnel!Perform
<1>9. UNCHANGED <<status, toggle, tunOn, pc, op, leaving, try, expired, clientMu, link,
                  lastID, mismatch, gaveUp, unread, crashes, timeouts>>
  BY DEF Serve, app, call, client, history
<1>10. QED
  BY <1>1, <1>3, <1>6, <1>7, <1>8, <1>9

LEMMA OutcomeFacts ==
  ASSUME NEW m \in Tunnel!Methods, NEW ok \in BOOLEAN, routing \in {"none", "tunnel", "stale"}
  PROVE  /\ Tunnel!Outcome(m, ok) \in {"none", "tunnel", "stale"}
         /\ Tunnel!Outcome(m, ok) = "tunnel" =>
              m # "tun_down" /\ (m = "tun_up" => ok) /\ (m = "hello" => routing = "tunnel")
BY DEF Tunnel!Methods, Tunnel!Outcome

\* Of the client's socket the helper runs nothing but the request somebody waits for.
LEMMA ServedRequest ==
  ASSUME Linked, NEW k \in Conns, Serve(k), Sound, k = link
  PROVE  \E t \in Threads :
           /\ pc[t] = "wait" /\ conn[k].in = <<[id |-> lastID, method |-> op[t]]>>
           /\ conn[k].out = <<>>
<1>1. conn[k].in # <<>> /\ link # NoConn
  BY Served, HelperLinkAssumption
<1>2. PICK t \in Threads : pc[t] = "wait"
  BY <1>1 DEF Linked, Answers, Sound
<1>3. InFlight(t)
  BY <1>2 DEF Linked, Answers, Sound
<1>4. QED
  BY <1>1, <1>2, <1>3 DEF InFlight

LEMMA ServeStep ==
  ASSUME Linked, NEW k \in Conns, Serve(k)
  PROVE  /\ Linked'
         /\ ~gaveUp /\ routing' = "tunnel" =>
              routing = "tunnel" \/ \E t \in Threads : pc[t] = "wait" /\ op[t] = "tun_up"
<1> DEFINE request == Head(conn[k].in)
           answer(ok) == [id |-> request.id, ok |-> ok]
<1>1. /\ alive /\ conn[k].served /\ conn[k].in # <<>> /\ SocketsTyped'
      /\ \A j \in Conns \ {k} : conn'[j] = conn[j]
      /\ conn'[k].in = Tail(conn[k].in) /\ conn'[k].held = conn[k].held /\ conn'[k].served = conn[k].held
      /\ ~conn[k].held => conn'[k].out = conn[k].out
      /\ request \in Requests
  BY Served
<1>2. UNCHANGED <<alive, status, toggle, tunOn, pc, op, leaving, try, expired, clientMu, link,
                  lastID, mismatch, gaveUp, unread, crashes, timeouts>>
  BY Served
<1>3. PICK ok \in BOOLEAN :
        /\ routing' = Tunnel!Outcome(request.method, ok)
        /\ conn[k].held => conn'[k].out = Append(conn[k].out, answer(ok))
  BY Served
<1>4. /\ routing' \in {"none", "tunnel", "stale"}
      /\ routing' = "tunnel" => /\ request.method # "tun_down" /\ (request.method = "tun_up" => ok)
                                /\ request.method = "hello" => routing = "tunnel"
  BY <1>1, <1>3, OutcomeFacts DEF Linked, TypeOK, Requests
<1>5. link \in Conns \cup {NoConn} /\ NoConn \notin Conns /\ op \in [Threads -> {"tun_up", "tun_down", "hello"}]
  BY Types, HelperLinkAssumption DEF Linked
<1>6. TypeOK'
  <2>1. \A j \in Conns : /\ conn'[j].held \in BOOLEAN /\ conn'[j].served \in BOOLEAN
                         /\ conn'[j].in \in Seq(Requests) /\ conn'[j].out \in Seq(Responses)
    BY <1>1 DEF SocketsTyped
  <2>2. QED
    BY <1>2, <1>4, <2>1 DEF Linked, TypeOK
<1>7. Calling'
  BY <1>2 DEF Linked, Calling
<1>8. conn[k].held <=> k = link
  BY DEF Linked, Ends
<1>9. Unbroken'
  BY <1>1, <1>2, <1>5, <1>8 DEF Linked, Unbroken
<1>10. Ends'
  BY <1>1, <1>2, <1>8 DEF Linked, Ends
<1>11. CASE k # link
  <2>1. ~gaveUp => Tail(conn[k].in) = <<>> /\ (routing' = "tunnel" => routing = "tunnel")
    <3>1. ~gaveUp => Harmless(k)
      BY <1>11 DEF Linked, Told
    <3>2. QED
      BY <1>1, <1>4, <3>1 DEF Harmless
  <2>2. link # NoConn => link \in Conns \ {k}
    BY <1>5, <1>11
  <2>3. link # NoConn => conn'[link] = conn[link]
    BY <1>1, <2>2
  <2>4. \A t \in Threads : pc[t] = "wait" => link # NoConn
    BY DEF Linked, Calling
  <2>5. Answers'
    BY <1>2, <2>3, <2>4 DEF Linked, Answers, Sound, InFlight
  <2>6. Told'
    <3>1. SUFFICES ASSUME ~gaveUp
                   PROVE  Told'
      BY <1>2 DEF Told
    <3>2. \A j \in Conns : j # link => Harmless(j)'
      <4>1. Harmless(k)'
        BY <1>1, <2>1, <3>1 DEF Harmless
      <4>2. \A j \in Conns \ {k} : j # link => Harmless(j)'
        BY <1>1, <3>1 DEF Linked, Told, Harmless
      <4>3. QED
        BY <4>1, <4>2
    <3>3. QED
      BY <1>1, <1>2, <2>1, <2>3, <2>4, <3>1, <3>2 DEF Linked, Told
  <2>7. QED
    BY <1>1, <1>6, <1>7, <1>9, <1>10, <2>1, <2>5, <2>6 DEF Linked
<1>12. CASE k = link /\ Sound
  <2>1. PICK t \in Threads : /\ pc[t] = "wait" /\ conn[k].in = <<[id |-> lastID, method |-> op[t]]>>
                             /\ conn[k].out = <<>>
    BY <1>12, ServedRequest
  <2>2. request = [id |-> lastID, method |-> op[t]] /\ Tail(conn[k].in) = <<>>
    BY <2>1, OneElement
  <2>3. request.method = op[t] /\ answer(ok) = [id |-> lastID, ok |-> ok]
    BY <2>2
  <2>4. conn'[k].in = <<>> /\ conn'[k].out = <<[id |-> lastID, ok |-> ok]>>
    <3>1. conn'[k].out = Append(<<>>, [id |-> lastID, ok |-> ok])
      BY <1>3, <1>8, <1>12, <2>1, <2>3
    <3>2. QED
      BY <1>1, <2>2, <3>1, OneElement
  <2>5. \A u \in Threads : pc[u] = "wait" => u = t
    BY <2>1 DEF Linked, Calling, InCall
  <2> HIDE DEF request, answer
  <2>6. InFlight(t)'
    BY <1>2, <1>12, <2>4 DEF InFlight
  <2>7. Answers'
    BY <1>2, <1>12, <2>1, <2>5, <2>6 DEF Linked, Answers, Sound
  <2>8. Head(conn'[k].out) = [id |-> lastID, ok |-> ok]
    BY <2>4, OneElement
  <2>9. Head(conn'[k].out).ok = ok
    BY <2>8
  <2>10. routing' = "tunnel" => /\ op[t] # "tun_down" /\ (op[t] = "tun_up" => ok)
                                /\ op[t] = "tun_up" \/ routing = "tunnel"
    BY <1>4, <1>5, <2>3
  <2>11. Told'
    <3>1. SUFFICES ASSUME ~gaveUp
                   PROVE  Told'
      BY <1>2 DEF Told
    <3>2. \A j \in Conns : j # link => Harmless(j)'
      BY <1>1, <1>2, <1>12, <3>1 DEF Linked, Told, Harmless
    <3>3. link # NoConn /\ conn'[link].served
      BY <1>1, <1>5, <1>8, <1>12
    <3>4. \A u \in Threads : pc[u] = "wait" /\ routing' = "tunnel" =>
            op[u] # "tun_down" /\ (op[u] = "tun_up" => Head(conn'[link].out).ok)
      BY <1>12, <2>5, <2>9, <2>10
    <3>5. /\ link' = link /\ pc' = pc /\ op' = op /\ alive'
      BY <1>1, <1>2
    <3>6. \A j \in Conns : j # link' => Harmless(j)'
      BY <3>2, <3>5
    <3>7. QED
      BY <3>3, <3>4, <3>5, <3>6 DEF Told
  <2>12. QED
    BY <1>1, <1>6, <1>7, <1>9, <1>10, <2>1, <2>7, <2>10, <2>11 DEF Linked
<1>13. CASE k = link /\ ~Sound
  <2>1. Answers' /\ Told' /\ gaveUp
    BY <1>2, <1>13 DEF Answers, Told, Sound
  <2>2. QED
    BY <1>1, <1>6, <1>7, <1>9, <1>10, <2>1 DEF Linked
<1>14. QED
  BY <1>11, <1>12, <1>13

LEMMA HangupStep ==
  ASSUME Linked, NEW k \in Conns, Hangup(k)
  PROVE  Linked'
<1>1. /\ conn[k].served /\ ~conn[k].held /\ conn' = [conn EXCEPT ![k].served = FALSE]
      /\ UNCHANGED <<status, toggle, tunOn, pc, op, leaving, try, expired, clientMu, link,
                     lastID, alive, routing, mismatch, gaveUp, unread, crashes, timeouts>>
  BY DEF Hangup, app, call, client, history
<1>2. k # link
  BY <1>1 DEF Linked, Ends
<1>3. SocketsTyped'
  BY <1>1 DEF Linked, SocketsTyped
<1>4. /\ \A j \in Conns : /\ conn'[j].held = conn[j].held /\ conn'[j].in = conn[j].in /\ conn'[j].out = conn[j].out
                          /\ conn'[j].served => conn[j].served
                          /\ j # k => conn'[j].served = conn[j].served
  BY <1>1 DEF Linked, SocketsTyped
<1>5. link # NoConn => link \in Conns
  BY Types DEF Linked
<1>6. TypeOK'
  <2>1. \A j \in Conns : /\ conn'[j].held \in BOOLEAN /\ conn'[j].served \in BOOLEAN
                         /\ conn'[j].in \in Seq(Requests) /\ conn'[j].out \in Seq(Responses)
    BY <1>3 DEF SocketsTyped
  <2>2. UNCHANGED <<status, toggle, tunOn, pc, op, leaving, try, expired, clientMu, link,
                    lastID, alive, routing, mismatch, gaveUp, unread, crashes, timeouts>>
    BY <1>1
  <2>3. QED
    BY <2>1, <2>2 DEF Linked, TypeOK
<1>7. Calling'
  BY <1>1 DEF Linked, Calling
<1>8. Unbroken' /\ Ends'
  BY <1>1, <1>2, <1>4, <1>5 DEF Linked, Unbroken, Ends
<1>9. \A t \in Threads : pc[t] = "wait" => link # NoConn
  BY DEF Linked, Calling
<1>10. Answers'
  <2>1. link # NoConn => /\ conn'[link].in = conn[link].in /\ conn'[link].out = conn[link].out
                         /\ conn'[link].served = conn[link].served
    BY <1>2, <1>4, <1>5
  <2>2. \A t \in Threads : pc[t] = "wait" => (InFlight(t) <=> InFlight(t)')
    BY <1>1, <1>9, <2>1 DEF InFlight
  <2>3. QED
    BY <1>1, <2>1, <2>2 DEF Linked, Answers, Sound
<1>11. Told'
  <2>1. link # NoConn => /\ conn'[link].in = conn[link].in /\ conn'[link].out = conn[link].out
                         /\ conn'[link].served = conn[link].served
    BY <1>2, <1>4, <1>5
  <2>2. \A j \in Conns : conn'[j].in = conn[j].in
    BY <1>4
  <2>3. QED
    BY <1>1, <1>9, <2>1, <2>2 DEF Linked, Told, Harmless
<1>12. QED
  BY <1>3, <1>6, <1>7, <1>8, <1>10, <1>11 DEF Linked

LEMMA CrashStep ==
  ASSUME Linked, Crash
  PROVE  Linked' /\ routing' # "tunnel"
<1>1. /\ alive /\ alive' = FALSE /\ routing' = "stale" /\ crashes < Crashes /\ crashes' = crashes + 1
      /\ conn' = [k \in Conns |-> [conn[k] EXCEPT !.served = FALSE, !.in = <<>>]]
      /\ UNCHANGED <<status, toggle, tunOn, pc, op, leaving, try, expired, clientMu, link,
                     lastID, mismatch, gaveUp, unread, timeouts>>
  BY DEF Crash, Tunnel!Crash, app, call, client
<1>2. crashes \in Nat /\ timeouts \in Nat /\ crashes' # 0 /\ crashes' > 0
  <2>1. crashes \in Nat /\ timeouts \in Nat
    BY Types DEF Linked
  <2>2. crashes' = crashes + 1
    BY <1>1
  <2>3. QED
    BY <2>1, <2>2
<1>3. SocketsTyped'
  <2>1. <<>> \in Seq(Requests)
    OBVIOUS
  <2>2. QED
    BY <1>1, <2>1 DEF Linked, SocketsTyped
<1>4. \A j \in Conns : /\ conn'[j].held = conn[j].held /\ conn'[j].out = conn[j].out
                       /\ conn'[j].served = FALSE /\ conn'[j].in = <<>>
  BY <1>1 DEF Linked, SocketsTyped
<1>5. link # NoConn => link \in Conns
  BY Types DEF Linked
<1>6. TypeOK'
  <2>1. \A j \in Conns : /\ conn'[j].held \in BOOLEAN /\ conn'[j].served \in BOOLEAN
                         /\ conn'[j].in \in Seq(Requests) /\ conn'[j].out \in Seq(Responses)
    BY <1>3 DEF SocketsTyped
  <2>2. crashes' \in 0..Crashes
    <3>1. crashes < Crashes /\ crashes' = crashes + 1
      BY <1>1
    <3>2. QED
      BY <1>2, <3>1, HelperLinkAssumption
  <2>3. QED
    BY <1>1, <2>1, <2>2 DEF Linked, TypeOK
<1>7. Calling'
  BY <1>1 DEF Linked, Calling
<1>8. Unbroken' /\ Ends'
  BY <1>1, <1>2, <1>4, ZenonT(40) DEF Linked, Unbroken, Ends
<1>9. \A t \in Threads : pc[t] = "wait" => link # NoConn
  BY DEF Linked, Calling
<1>10. Answers'
  <2>1. SUFFICES ASSUME Sound'
                 PROVE  Answers'
    BY DEF Answers
  <2>2. Sound
    BY <1>1, <1>2, <2>1 DEF Sound
  <2>3. ASSUME NEW t \in Threads, pc[t] = "wait"
        PROVE  InFlight(t)'
    <3>1. InFlight(t) /\ link # NoConn
      BY <1>9, <2>2, <2>3 DEF Linked, Answers
    <3>2. conn'[link].in = <<>> /\ conn'[link].served = FALSE /\ conn'[link].out = conn[link].out
      BY <1>4, <1>5, <3>1
    <3>3. QED
      BY <1>1, <3>1, <3>2 DEF InFlight
  <2>4. link # NoConn /\ (\A t \in Threads : pc[t] # "wait") =>
          conn'[link].in = <<>> /\ conn'[link].out = <<>>
    BY <1>4, <1>5, <2>2 DEF Linked, Answers
  <2>5. QED
    BY <1>1, <2>2, <2>3, <2>4 DEF Linked, Answers
<1>11. Told'
  BY <1>1, <1>4 DEF Told, Harmless
<1>12. QED
  BY <1>1, <1>3, <1>6, <1>7, <1>8, <1>10, <1>11 DEF Linked

LEMMA RestartStep ==
  ASSUME Linked, Restart
  PROVE  Linked' /\ routing' # "tunnel"
<1>1. /\ ~alive /\ alive' = TRUE /\ routing' = "none"
      /\ UNCHANGED <<status, toggle, tunOn, pc, op, leaving, try, expired, clientMu, link,
                     lastID, conn, mismatch, gaveUp, unread, crashes, timeouts>>
  BY DEF Restart, Tunnel!Restart, app, call, client, history
<1>2. TypeOK' /\ SocketsTyped'
  BY <1>1 DEF Linked, TypeOK, SocketsTyped
<1>3. Calling' /\ Unbroken' /\ Ends' /\ Told'
  BY <1>1 DEF Linked, Calling, Unbroken, Ends, Told, Harmless
<1>4. Answers'
  BY <1>1 DEF Linked, Answers, Sound, InFlight
<1>5. QED
  BY <1>1, <1>2, <1>3, <1>4 DEF Linked

-----------------------------------------------------------------------------
(* The switch.                                                             *)

\* What a goroutine does around its calls keeps the links as they are.
LEMMA SwitchStep ==
  ASSUME Linked, NEW t \in Threads,
         \/ t \in Callers /\ (SwitchOn(t) \/ \E d \in BOOLEAN : SwitchOff(t, d) \/ SwitchOffBlind(t, d))
         \/ t \in Pollers /\ Poll(t)
         \/ Record(t) \/ RecordFails(t) \/ Forget(t) \/ ForgetFails(t) \/ StopCore(t)
  PROVE  Linked'
<1>1. /\ leaving \in [Threads -> BOOLEAN] /\ status \in {"CONNECTED", "DISCONNECTED"}
      /\ toggle \in BOOLEAN /\ tunOn \in BOOLEAN /\ unread \in BOOLEAN
  BY DEF Linked, TypeOK
<1>2. AfterDisable(t) \in {"idle", "stop"}
  BY DEF AfterDisable
<1>3. t \in Pollers <=> t \notin Callers
  BY HelperLinkAssumption DEF Threads
<1>4. pc[t] \in {"record", "forget", "stop"} => t \in Callers
  BY <1>3 DEF Linked, Calling
<1>5. CASE t \in Callers /\ SwitchOn(t)
  BY <1>1, <1>3, <1>5, OutsideStep DEF SwitchOn, Outside, app, history
<1>6. CASE t \in Callers /\ \E d \in BOOLEAN : SwitchOff(t, d) \/ SwitchOffBlind(t, d)
  <2>1. PICK d \in BOOLEAN : SwitchOff(t, d) \/ SwitchOffBlind(t, d)
    BY <1>6
  <2>2. leaving' \in [Threads -> BOOLEAN]
    BY <1>1, <2>1 DEF SwitchOff, SwitchOffBlind
  <2>3. Outside(t)
    <3>1. CASE SwitchOff(t, d)
      BY <1>1, <1>3, <1>6, <2>2, <3>1 DEF SwitchOff, Outside, app, history
    <3>2. CASE SwitchOffBlind(t, d)
      BY <1>1, <1>3, <1>6, <2>2, <3>2 DEF SwitchOffBlind, Outside, app, history
    <3>3. QED
      BY <2>1, <3>1, <3>2
  <2>4. QED
    BY <2>3, OutsideStep
<1>7. CASE t \in Pollers /\ Poll(t)
  BY <1>1, <1>7, OutsideStep DEF Poll, Outside, app, history
<1>8. CASE Record(t)
  BY <1>1, <1>8, OutsideStep DEF Record, Outside, call, history
<1>9. CASE RecordFails(t)
  BY <1>1, <1>3, <1>4, <1>9, OutsideStep DEF RecordFails, Outside, app, history
<1>10. CASE Forget(t)
  BY <1>1, <1>2, <1>4, <1>10, OutsideStep DEF Forget, Outside, call, history
<1>11. CASE ForgetFails(t)
  BY <1>1, <1>2, <1>4, <1>11, OutsideStep DEF ForgetFails, Outside, call, app, history
<1>12. CASE StopCore(t)
  <2>1. leaving' \in [Threads -> BOOLEAN]
    BY <1>1, <1>12 DEF StopCore
  <2>2. Outside(t)
    BY <1>1, <1>12, <2>1 DEF StopCore, Outside, history
  <2>3. QED
    BY <2>2, OutsideStep
<1>13. QED
  BY <1>5, <1>6, <1>7, <1>8, <1>9, <1>10, <1>11, <1>12

LEMMA ConnectStep ==
  ASSUME Linked, Connect
  PROVE  Linked'
<1>1. /\ status' = "CONNECTED"
      /\ UNCHANGED <<toggle, tunOn, pc, op, leaving, try, expired, clientMu, link, lastID, conn,
                     alive, routing, mismatch, gaveUp, unread, crashes, timeouts>>
  BY DEF Connect, call, client, history
<1>2. TypeOK' /\ SocketsTyped'
  BY <1>1 DEF Linked, TypeOK, SocketsTyped
<1>3. Calling' /\ Unbroken' /\ Ends' /\ Told'
  BY <1>1 DEF Linked, Calling, Unbroken, Ends, Told, Harmless
<1>4. Answers'
  BY <1>1 DEF Linked, Answers, Sound, InFlight
<1>5. QED
  BY <1>2, <1>3, <1>4 DEF Linked

LEMMA StutterStep ==
  ASSUME Linked, UNCHANGED vars
  PROVE  Linked'
<1>1. TypeOK' /\ SocketsTyped'
  BY DEF vars, Linked, TypeOK, SocketsTyped
<1>2. Calling' /\ Unbroken' /\ Ends' /\ Told'
  BY DEF vars, Linked, Calling, Unbroken, Ends, Told, Harmless
<1>3. Answers'
  BY DEF vars, Linked, Answers, Sound, InFlight
<1>4. QED
  BY <1>1, <1>2, <1>3 DEF Linked

\* Any number of callers.
LEMMA LinkedStep ==
  ASSUME Linked, [Next]_vars
  PROVE  Linked'
<1>1. CASE UNCHANGED vars
  BY <1>1, StutterStep
<1>2. ASSUME NEW t \in Threads, Call(t)
      PROVE  Linked'
  BY <1>2, AcquireStep, HasConnectionStep, DialStep, SendStep, ReceiveStep, FailStep DEF Call
<1>3. ASSUME NEW t \in Threads, Proceed(t) \/ Expire(t)
      PROVE  Linked'
  BY <1>2, <1>3, SwitchStep, ExpireStep DEF Proceed
<1>4. ASSUME NEW t \in Callers, SwitchOn(t) \/ \E d \in BOOLEAN : SwitchOff(t, d) \/ SwitchOffBlind(t, d)
      PROVE  Linked'
  BY <1>4, SwitchStep DEF Threads
<1>5. ASSUME NEW t \in Pollers, Poll(t)
      PROVE  Linked'
  BY <1>5, SwitchStep DEF Threads
<1>6. CASE Helper
  BY <1>6, ServeStep, HangupStep DEF Helper
<1>7. QED
  BY <1>1, <1>3, <1>4, <1>5, <1>6, ConnectStep, CrashStep, RestartStep DEF Next

\* What a caller knows of the tunnel stays true as long as nothing of it changes.
LEMMA KnownKept ==
  ASSUME NEW c \in Callers, Known(c), UNCHANGED <<pc[c], op[c], toggle, status, unread>>,
         gaveUp => gaveUp', routing' = "tunnel" => routing = "tunnel"
  PROVE  Known(c)'
BY DEF Known

\* The one caller is the thread that makes the step, or a thread it leaves alone.
LEMMA OwnStep ==
  ASSUME Linked, OneCaller, NEW c \in Callers, Known(c), NEW t \in Threads, t = c \/ t \in Pollers,
         Proceed(t) \/ Expire(t) \/ (t \in Pollers /\ Poll(t))
  PROVE  Known(c)'
<1>1. /\ pc \in [Threads -> Steps] /\ op \in [Threads -> {"tun_up", "tun_down", "hello"}]
      /\ c \in Threads /\ (t = c <=> t \notin Pollers) /\ c \notin Pollers
  BY Types, HelperLinkAssumption DEF Linked, Threads
<1>2. pc[t] \in {"record", "forget", "stop"} => t = c
  BY <1>1 DEF Linked, Calling
<1>3. CASE Expire(t)
  BY <1>3 DEF Known, Expire, app, call
<1>4. CASE t \in Pollers /\ Poll(t)
  <2>1. pc'[c] = pc[c] /\ op'[c] = op[c] /\ UNCHANGED <<toggle, status, unread, gaveUp, routing>>
    BY <1>1, <1>4 DEF Poll, StartCall, Goto, app, history
  <2>2. QED
    BY <2>1, KnownKept
<1>5. CASE Acquire(t) \/ HasConnection(t) \/ Dial(t) \/ Send(t)
  <2>1. /\ op' = op /\ UNCHANGED <<toggle, status, unread, gaveUp, routing>>
        /\ \E s \in {"dial", "send", "wait"} : pc' = [pc EXCEPT ![t] = s]
    BY <1>5 DEF Acquire, HasConnection, Dial, Send, Goto, app, call, history
  <2>2. pc'[c] = pc[c] \/ pc'[c] \in {"dial", "send", "wait"}
    BY <1>1, <2>1
  <2>3. QED
    BY <2>1, <2>2 DEF Known
<1>6. CASE Receive(t)
  <2> DEFINE ok == Head(conn[link].out).ok
  <2>1. /\ pc[t] = "wait" /\ conn[link].out # <<>> /\ Return(t, ok)
        /\ UNCHANGED <<link, routing, gaveUp, unread>>
    BY <1>6 DEF Receive
  <2>2. link \in Conns
    BY <2>1, Types DEF Linked, Calling
  <2>3. ok \in BOOLEAN
    <3>1. Head(conn[link].out) \in Responses
      BY <2>1, <2>2, TypeLink, Shorter DEF Linked
    <3>2. QED
      BY <3>1 DEF Responses
  <2>4. ~gaveUp /\ routing = "tunnel" => op[t] # "tun_down" /\ (op[t] = "tun_up" => ok)
    <3>1. ~gaveUp => conn[link].in = <<>>
      BY <1>6, ReceiveStep DEF Sound
    <3>2. QED
      BY <2>1, <3>1 DEF Linked, Told, Harmless
  <2> HIDE DEF ok
  <2>5. /\ \A u \in Threads \ {t} : pc'[u] = pc[u] /\ op'[u] = op[u]
        /\ op'[t] = "hello"
        /\ op[t] = "hello" => tunOn' = tunOn
        /\ op[t] = "tun_up" /\ ok => pc'[t] = "record" /\ tunOn' = tunOn
        /\ op[t] = "tun_up" /\ ~ok => pc'[t] = "idle"
        /\ op[t] = "tun_down" /\ ok => pc'[t] = "forget" /\ tunOn' = tunOn
        /\ op[t] = "tun_down" /\ ~ok => pc'[t] \in {"idle", "stop"} /\ tunOn' = tunOn
        /\ UNCHANGED <<status, toggle>>
    BY <2>1, <2>3, ReturnFacts DEF Linked
  <2>6. CASE t \in Pollers
    <3>1. op[t] = "hello"
      BY <2>6 DEF Linked, Calling
    <3>2. pc'[c] = pc[c] /\ op'[c] = op[c] /\ tunOn' = tunOn
      BY <1>1, <2>5, <2>6, <3>1
    <3>3. QED
      BY <2>1, <2>5, <3>2, KnownKept
  <2>7. CASE t = c
    <3>1. op[c] \in {"tun_up", "tun_down"}
      BY <1>1, <2>1, <2>7 DEF Linked, Calling, InCall
    <3>2. QED
      BY <2>1, <2>3, <2>4, <2>5, <2>7, <3>1 DEF Known
  <2>8. QED
    BY <2>6, <2>7
<1>7. CASE DialFails(t) \/ SendFails(t) \/ ReceiveFails(t)
  <2>1. Broken(t) /\ Lost(t) /\ GiveUp(t)
    BY <1>7, FailStep
  <2>2. UNCHANGED <<routing, unread>> /\ (gaveUp => gaveUp')
    BY <1>7, <2>1 DEF DialFails, SendFails, ReceiveFails, GiveUp
  <2>3. ~gaveUp' /\ op[t] # "hello" => routing # "tunnel"
    BY <2>1, <2>2 DEF Linked, Broken, Told, GiveUp
  <2>4. CASE UNCHANGED <<app, call>> /\ Goto(t, "dial")
    <3>1. op' = op /\ UNCHANGED <<toggle, status>> /\ (pc'[c] = pc[c] \/ pc'[c] = "dial")
      BY <1>1, <2>4 DEF app, call, Goto
    <3>2. QED
      BY <2>2, <3>1 DEF Known
  <2>5. CASE Return(t, FALSE)
    <3>1. /\ \A u \in Threads \ {t} : pc'[u] = pc[u] /\ op'[u] = op[u]
          /\ op'[t] = "hello" /\ pc'[t] \in {"idle", "forget", "stop"}
          /\ UNCHANGED <<status, toggle>>
      BY <1>1, <2>5, ReturnFacts DEF Linked
    <3>2. CASE t = c
      <4>1. op[c] # "hello"
        BY <1>1, <2>1, <3>2 DEF Linked, Calling, Broken, InCall
      <4>2. QED
        BY <1>1, <2>2, <2>3, <3>1, <3>2, <4>1 DEF Known
    <3>3. CASE t # c
      BY <1>1, <2>2, <3>1, <3>3, KnownKept
    <3>4. QED
      BY <3>2, <3>3
  <2>6. QED
    BY <2>1, <2>4, <2>5 DEF Lost
<1>8. CASE t = c /\ (Record(t) \/ RecordFails(t))
  <2>1. /\ pc[c] = "record" /\ UNCHANGED <<status, routing, gaveUp, unread>>
        /\ \/ pc'[c] = "idle" /\ toggle' = TRUE
           \/ pc'[c] = "lock" /\ op'[c] = "tun_down"
    BY <1>1, <1>8 DEF Record, RecordFails, StartCall, Goto, app, history
  <2>2. ~gaveUp => status # "DISCONNECTED"
    BY <2>1 DEF Known
  <2>3. QED
    BY <2>1, <2>2 DEF Known
<1>9. CASE t = c /\ (Forget(t) \/ ForgetFails(t) \/ StopCore(t))
  <2>1. /\ UNCHANGED <<routing, gaveUp, unread>> /\ pc'[c] \in {"idle", "stop"} /\ op'[c] = op[c]
        /\ \/ pc[c] = "forget" /\ status' = status
           \/ pc[c] = "stop" /\ pc'[c] = "idle" /\ toggle' = toggle
    BY <1>1, <1>9 DEF Forget, ForgetFails, StopCore, Goto, AfterDisable, call, app, history
  <2>2. op[c] = "hello"
    BY <1>1, <2>1 DEF Linked, Calling
  <2>3. QED
    BY <2>1, <2>2 DEF Known
<1>10. Record(t) \/ RecordFails(t) \/ Forget(t) \/ ForgetFails(t) \/ StopCore(t) => t = c
  BY <1>2 DEF Record, RecordFails, Forget, ForgetFails, StopCore
<1>11. QED
  BY <1>3, <1>4, <1>5, <1>6, <1>7, <1>8, <1>9, <1>10 DEF Proceed, Call

\* The caller flips the switch or disconnects.
LEMMA FlipStep ==
  ASSUME Linked, NEW c \in Callers, Known(c),
         SwitchOn(c) \/ \E d \in BOOLEAN : SwitchOff(c, d) \/ SwitchOffBlind(c, d)
  PROVE  Known(c)'
<1>1. /\ pc \in [Threads -> Steps] /\ op \in [Threads -> {"tun_up", "tun_down", "hello"}] /\ c \in Threads
  BY Types DEF Linked, Threads
<1>2. pc[c] = "idle" /\ op[c] = "hello" /\ UNCHANGED <<status, toggle, routing, gaveUp>>
  BY <1>1 DEF SwitchOn, SwitchOff, SwitchOffBlind, app, history, Linked, Calling
<1>3. \/ status = "CONNECTED" /\ pc'[c] = "lock"
      \/ pc'[c] = "lock" /\ op'[c] = "tun_down"
      \/ ~toggle /\ pc'[c] = "stop" /\ op'[c] = op[c]
      \/ unread' /\ pc'[c] \in {"idle", "stop"} /\ op'[c] = op[c]
  BY <1>1 DEF SwitchOn, SwitchOff, SwitchOffBlind, StartCall, Goto
<1>4. QED
  BY <1>2, <1>3 DEF Known

\* The helper runs what is asked of it: the caller's own request, or one that
\* leaves the tunnel alone.
LEMMA HelperStep ==
  ASSUME Linked, OneCaller, NEW c \in Callers, Known(c), Helper
  PROVE  Known(c)'
<1>1. c \in Threads /\ op \in [Threads -> {"tun_up", "tun_down", "hello"}]
  BY Types DEF Linked, Threads
<1>2. UNCHANGED <<status, toggle, unread, pc, op, gaveUp>>
  BY DEF Helper, Serve, Hangup, app, call, history
<1>3. ASSUME NEW k \in Conns, Hangup(k)
      PROVE  Known(c)'
  <2>1. routing' = routing
    BY <1>3 DEF Hangup
  <2>2. QED
    BY <1>2, <2>1, KnownKept
<1>4. ASSUME NEW k \in Conns, Serve(k)
      PROVE  Known(c)'
  <2>1. SUFFICES ASSUME ~gaveUp, routing' = "tunnel", routing # "tunnel"
                 PROVE  Known(c)'
    <3>1. CASE gaveUp
      BY <1>2, <3>1 DEF Known
    <3>2. CASE ~(routing' = "tunnel" /\ routing # "tunnel")
      BY <1>2, <3>2, KnownKept
    <3>3. QED
      BY <3>1, <3>2
  <2>2. PICK t \in Threads : pc[t] = "wait" /\ op[t] = "tun_up"
    BY <1>4, <2>1, ServeStep
  <2>3. t = c
    BY <2>2 DEF Linked, Calling, OneCaller, Threads
  <2>4. QED
    BY <1>2, <2>2, <2>3 DEF Known
<1>5. QED
  BY <1>3, <1>4 DEF Helper

\* Without the tunnel there is nothing a caller has to know.
LEMMA NoTunnelStep ==
  ASSUME NEW c \in Callers, Known(c), Crash \/ Restart \/ Connect \/ UNCHANGED vars
  PROVE  Known(c)'
<1>1. CASE UNCHANGED vars
  BY <1>1 DEF Known, vars
<1>2. CASE Connect
  BY <1>2 DEF Known, Connect, call, history
<1>3. CASE Crash \/ Restart
  <2>1. routing' # "tunnel" /\ UNCHANGED <<status, toggle, unread, pc, op, gaveUp>>
    BY <1>3 DEF Crash, Restart, Tunnel!Crash, Tunnel!Restart, app, call, history
  <2>2. QED
    BY <2>1 DEF Known
<1>4. QED
  BY <1>1, <1>2, <1>3

LEMMA KnownStep ==
  ASSUME Linked, OneCaller, NEW c \in Callers, Known(c), [Next]_vars
  PROVE  Known(c)'
<1>1. ASSUME NEW t \in Threads, Proceed(t) \/ Expire(t)
      PROVE  Known(c)'
  <2>1. t = c \/ t \in Pollers
    BY DEF Threads, OneCaller
  <2>2. QED
    BY <1>1, <2>1, OwnStep
<1>2. ASSUME NEW t \in Callers, SwitchOn(t) \/ \E d \in BOOLEAN : SwitchOff(t, d) \/ SwitchOffBlind(t, d)
      PROVE  Known(c)'
  BY <1>2, FlipStep DEF OneCaller
<1>3. ASSUME NEW t \in Pollers, Poll(t)
      PROVE  Known(c)'
  BY <1>3, OwnStep DEF Threads
<1>4. QED
  BY <1>1, <1>2, <1>3, HelperStep, NoTunnelStep DEF Next

-----------------------------------------------------------------------------
(* The theorems.                                                           *)

LEMMA Begins ==
  ASSUME Init
  PROVE  IInv
<1>1. TypeOK /\ SocketsTyped
  <2>1. <<>> \in Seq(Requests) /\ <<>> \in Seq(Responses)
    OBVIOUS
  <2>2. SocketsTyped
    BY <2>1 DEF Init, SocketsTyped, Closed
  <2>3. lastID \in 0..(IdCount - 1) /\ crashes \in 0..Crashes /\ timeouts \in 0..Timeouts
    BY HelperLinkAssumption DEF Init
  <2>4. \A k \in Conns : /\ conn[k].held \in BOOLEAN /\ conn[k].served \in BOOLEAN
                         /\ conn[k].in \in Seq(Requests) /\ conn[k].out \in Seq(Responses)
    BY <2>2 DEF SocketsTyped
  <2>5. /\ pc \in [Threads -> Steps] /\ op \in [Threads -> Tunnel!Methods]
        /\ leaving \in [Threads -> BOOLEAN] /\ try \in [Threads -> 1..2]
    BY DEF Init, Steps, Tunnel!Methods
  <2>6. QED
    BY <2>2, <2>3, <2>4, <2>5 DEF Init, TypeOK
<1>2. Calling
  BY HelperLinkAssumption DEF Init, Calling, InCall
<1>3. Unbroken /\ Ends /\ Answers /\ Told
  BY HelperLinkAssumption DEF Init, Unbroken, Ends, Answers, Sound, Told, Harmless, Closed
<1>4. \A c \in Callers : Known(c)
  BY DEF Init, Known, Threads
<1>5. QED
  BY <1>1, <1>2, <1>3, <1>4 DEF IInv, Linked

\* The invariant holds of every state of the switch.
THEOREM InductiveInvariant == Spec => []IInv
<1>1. Init => IInv
  BY Begins
<1>2. IInv /\ [Next]_vars => IInv'
  <2>1. SUFFICES ASSUME IInv, [Next]_vars
                 PROVE  IInv'
    OBVIOUS
  <2>2. Linked'
    BY <2>1, LinkedStep DEF IInv
  <2>3. OneCaller => \A c \in Callers : Known(c)'
    BY <2>1, KnownStep DEF IInv
  <2>4. QED
    BY <2>2, <2>3 DEF IInv, OneCaller
<1>3. QED
  BY <1>1, <1>2, PTL DEF Spec

\* Every variable of the client, the sockets and the helper keeps its type:
\* a second attempt is the last, and IDs stay within their range.
THEOREM TypeCorrect == Spec => []TypeOK
<1>1. IInv => TypeOK
  BY DEF IInv, Linked
<1>2. QED
  BY <1>1, InductiveInvariant, PTL

\* The client of internal/ipc reads the next line as its answer: as long as the
\* helper's death and a passed deadline do not come together, it is the answer to
\* the request it has sent, with any number of callers and of either alone.
THEOREM AnswersBelong == Spec => []AnswersMatch
<1>1. IInv => AnswersMatch
  BY DEF IInv, Linked, Answers, Sound, AnswersMatch
<1>2. QED
  BY <1>1, InductiveInvariant, PTL

\* While one goroutine at a time flips the switch, whichever write failed and
\* however often the helper died, a Disconnect that is through leaves a tunnel only
\* where an attempt was given up at its deadline, or where disableTun could not
\* read the settings; the toggle on disk then still says that it is there.
THEOREM RoutingFollows == OneCaller => (Spec => []RoutingGoesWithCore)
<1>1. SUFFICES ASSUME OneCaller
               PROVE  Spec => []RoutingGoesWithCore
  OBVIOUS
<1>2. IInv => RoutingGoesWithCore
  <2>1. SUFFICES ASSUME IInv, Quiet, status = "DISCONNECTED", routing = "tunnel", ~gaveUp
                 PROVE  unread /\ toggle
    BY DEF RoutingGoesWithCore
  <2>2. PICK c \in Callers : TRUE
    BY <1>1 DEF OneCaller
  <2>3. Known(c) /\ op[c] = "hello"
    BY <1>1, <2>1 DEF IInv, Quiet, Linked, Calling, Threads
  <2>4. QED
    BY <2>1, <2>3 DEF Known
<1>3. QED
  BY <1>2, InductiveInvariant, PTL

\* A step of the switch, of the protocol or of the helper is one step of the
\* service, or the routing stays as it is.
LEMMA ServiceStep ==
  ASSUME TypeOK, [Next]_vars
  PROVE  [Tunnel!Next]_<<alive, routing>>
<1>1. ASSUME NEW k \in Conns, Serve(k)
      PROVE  Tunnel!Next
  <2>1. Head(conn[k].in) \in Requests
    BY <1>1 DEF Serve, TypeOK
  <2>2. PICK ok \in {TRUE, Head(conn[k].in).method # "tun_up"} :
          Tunnel!Perform(Head(conn[k].in).method, ok)
    BY <1>1 DEF Serve
  <2>3. ok \in BOOLEAN
    OBVIOUS
  <2>4. Head(conn[k].in).method \in Tunnel!Methods
    BY <2>1 DEF Requests
  <2>5. QED
    BY <2>2, <2>3, <2>4 DEF Tunnel!Next
<1>2. CASE Crash
  BY <1>2 DEF Crash, Tunnel!Next
<1>3. CASE Restart
  BY <1>3 DEF Restart, Tunnel!Next
<1>4. ASSUME NEW t \in Threads, Call(t)
      PROVE  UNCHANGED <<alive, routing>>
  BY <1>4 DEF Call, Acquire, HasConnection, Dial, DialFails, Send, SendFails, Receive, ReceiveFails
<1>5. ASSUME NEW t \in Threads, Proceed(t) \/ Expire(t)
      PROVE  UNCHANGED <<alive, routing>>
  BY <1>4, <1>5 DEF Proceed, Record, RecordFails, Forget, ForgetFails, StopCore, Expire
<1>6. ASSUME NEW t \in Threads, SwitchOn(t) \/ (\E d \in BOOLEAN : SwitchOff(t, d) \/ SwitchOffBlind(t, d)) \/ Poll(t)
      PROVE  UNCHANGED <<alive, routing>>
  BY <1>6 DEF SwitchOn, SwitchOff, SwitchOffBlind, Poll
<1>7. ASSUME NEW k \in Conns, Hangup(k)
      PROVE  UNCHANGED <<alive, routing>>
  BY <1>7 DEF Hangup
<1>8. CASE Connect \/ UNCHANGED vars
  BY <1>8 DEF Connect, vars
<1>9. QED
  BY <1>1, <1>2, <1>3, <1>5, <1>6, <1>7, <1>8 DEF Next, Helper, Threads

\* Whatever the clients send, repeat and abandon, what becomes of the routing
\* is a behaviour of TunnelService: requests of several connections run one at a
\* time (Server.dispatch in internal/ipc), so the tunnels, which implement that
\* service, may stand behind the switch.
THEOREM RoutingIsService == Spec => Tunnel!Spec
<1>1. Init => Tunnel!Init
  BY DEF Init, Tunnel!Init
<1>2. TypeOK /\ [Next]_vars => [Tunnel!Next]_<<alive, routing>>
  BY ServiceStep
<1>3. QED
  BY <1>1, <1>2, TypeCorrect, PTL DEF Spec, Tunnel!Spec
=============================================================================
