------------------------------ MODULE Settings ------------------------------
(***************************************************************************)
(* The settings file and those who change it: the window and the traffic    *)
(* meter in one process, and sa05ctl in others.  Everybody                  *)
(* goes through Store.Update, which loads the file, changes one thing and   *)
(* saves the whole; only the load and the save exclude each other.  An      *)
(* import also waits for the network between the subscription it merges     *)
(* with and the update; a selection reconnects a tunnel that is up.         *)
(*                                                                         *)
(* A profile is its identity and the server it names (Remarks).            *)
(***************************************************************************)
EXTENDS Naturals, Sequences

CONSTANTS Callers,   \* goroutines of the window, the tray and deep links
          Tools,     \* runs of sa05ctl; the traffic meter writes like one
          Documents, \* the lists of profiles a provider may return
          Urls,
          Modulus    \* bound: changes outside the subscription are counted modulo this

Monitor == "monitor" \* whatever reconnects a requested tunnel
Users   == Callers \cup Tools
Threads == Users \cup {Monitor}
None    == "none"

ASSUME SettingsAssumption ==
  /\ Callers \cap Tools = {} /\ Monitor \notin Users /\ None \notin Threads
  /\ \A d \in Documents : d \in Seq([id : STRING, remarks : STRING]) /\ d # <<>>
  /\ Modulus \in Nat \ {0}
  /\ None \notin Urls

Profiles == UNION {{d[i] : i \in DOMAIN d} : d \in Documents}
Ids      == {p.id : p \in Profiles}

Subscriptions ==
  [url : Urls \cup {None}, profiles : Documents \cup {<<>>}, active : Ids \cup {None}]
\* All that is not the subscription (the secret and the transport for Telegram,
\* the theme, the switches, the usage) is one counter of its changes.
Files == [sub : Subscriptions, other : 0..(Modulus - 1)]

NoSubscription == [url |-> None, profiles |-> <<>>, active |-> None]
Defaults == [sub |-> NoSubscription, other |-> 0]

VARIABLES file,       \* the settings file
          job,        \* the call each thread is in
          status,     \* snapshot.Status
          shown,      \* snapshot.ProfileID
          core,       \* the profile the core runs
          connectMu,  \* the thread inside Connect
          last,       \* history: every field as its last writer wanted it, as
                      \* long as no two updates overlapped
          overlapped, \* history: two updates ran at once
          late        \* history: a reconnect was on its way during a Disconnect

connection == <<status, shown, core, connectMu>>
history    == <<last, overlapped, late>>
vars == <<file, job, connection, history>>

Steps == {"idle", "fetch", "measure", "choose", "load", "save", "apply", "publish",
          "connect", "start"}
Values == Ids \cup Urls \cup {None}

\* What a call does next, what its update changes and to what (a Connect: the
\* profile it starts), the subscription it has read or made of what it has
\* read, and the file as it is going to save it.
Jobs ==
  [step : Steps, field : {"sub", "active", "other", None},
   value : Values, sub : Subscriptions, doc : Files]
NoJob ==
  [step |-> "idle", field |-> None, value |-> None,
   sub |-> NoSubscription, doc |-> Defaults]

TypeOK ==
  /\ file \in Files /\ last \in Files
  /\ job \in [Threads -> Jobs]
  /\ status \in {"disconnected", "connecting", "connected", "error"}
  /\ shown \in Ids \cup {None} /\ core \in Ids \cup {None}
  /\ connectMu \in Threads \cup {None}
  /\ \A t \in Threads : job[t].step = "start" => connectMu = t
  /\ overlapped \in BOOLEAN /\ late \in BOOLEAN

Init ==
  /\ file = Defaults /\ last = Defaults
  /\ job = [t \in Threads |-> NoJob]
  /\ status = "disconnected" /\ shown = None /\ core = None /\ connectMu = None
  /\ overlapped = FALSE /\ late = FALSE
-----------------------------------------------------------------------------
(* Subscription.                                                           *)

Authorized(sub) == sub.url # None /\ sub.profiles # <<>>
Holds(sub, id)  == \E i \in DOMAIN sub.profiles : sub.profiles[i].id = id

\* The position of the first profile of a kind.
First(profiles, Is(_)) ==
  CHOOSE i \in DOMAIN profiles :
    Is(profiles[i]) /\ \A j \in 1..(i - 1) : ~Is(profiles[j])

\* Authorized subscriptions only; falls back to the first profile.
ActiveIndex(sub) ==
  IF Holds(sub, sub.active) THEN First(sub.profiles, LAMBDA p : p.id = sub.active) ELSE 1
ActiveProfile(sub) == sub.profiles[ActiveIndex(sub)]

\* Mutant: only the identity counts, which changes with any byte of a profile.
CarryById(previous, profiles, url) ==
  IF previous.url = url /\ \E i \in DOMAIN profiles : profiles[i].id = previous.active
  THEN previous.active ELSE profiles[1].id

\* carryActiveProfile: the same profile, else the same server, else the first.
CarryActive(previous, profiles, url) ==
  LET SameId(p)     == p.id = previous.active
      SameServer(p) == /\ previous.profiles # <<>>
                       /\ p.remarks = ActiveProfile(previous).remarks
      Some(Is(_))   == \E i \in DOMAIN profiles : Is(profiles[i])
  IN  CASE previous.url = url /\ Some(SameId) -> previous.active
        [] previous.url = url /\ ~Some(SameId) /\ Some(SameServer)
             -> profiles[First(profiles, SameServer)].id
        [] OTHER -> profiles[1].id
-----------------------------------------------------------------------------
(* Store.Update.                                                           *)

At(t, s)  == job[t].step = s
Go(t, s)  == job' = [job EXCEPT ![t].step = s]
Return(t) == job' = [job EXCEPT ![t] = NoJob]
Then(t, s, v) ==
  job' = [job EXCEPT ![t] = [NoJob EXCEPT !.step = s, !.field = job[t].field, !.value = v]]

\* A call begins: what it wants to change and to what, and what it reads.
Call(t, s, f, v, sub) ==
  /\ At(t, "idle")
  /\ job' = [job EXCEPT ![t] =
               [NoJob EXCEPT !.step = s, !.field = f, !.value = v, !.sub = sub]]
Ask(t, s, f, v) == Call(t, s, f, v, NoSubscription)

Mutated(state, t) ==
  CASE job[t].field = "sub"    -> [state EXCEPT !.sub = job[t].sub]
    [] job[t].field = "active" -> [state EXCEPT !.sub.active = job[t].value]
    [] job[t].field = "other"  -> [state EXCEPT !.other = (@ + 1) % Modulus]

\* Mutant: what cannot be read is replaced by defaults.
UpdateLoadUnread(t) ==
  /\ At(t, "load")
  /\ job' = [job EXCEPT ![t] =
               [NoJob EXCEPT !.step = "save", !.field = job[t].field, !.doc = Mutated(Defaults, t)]]
  /\ overlapped' = (overlapped \/ \E u \in Threads : At(u, "save"))
  /\ last' = IF overlapped' THEN Defaults ELSE last
  /\ UNCHANGED <<file, connection, late>>

\* Store.Update loads the file and changes it in memory.
UpdateLoad(t) ==
  /\ At(t, "load")
  /\ job' = [job EXCEPT ![t] =
               [NoJob EXCEPT !.step = "save", !.field = job[t].field, !.doc = Mutated(file, t)]]
  /\ overlapped' = (overlapped \/ \E u \in Threads : At(u, "save"))
  /\ last' = IF overlapped' THEN Defaults ELSE last
  /\ UNCHANGED <<file, connection, late>>

\* A caller that has selected a profile applies it.
AfterSave(t) ==
  IF t \in Callers /\ job[t].field = "active" THEN Then(t, "apply", job[t].doc.sub.active)
                                              ELSE Return(t)

\* last with the field of t's update as t saves it.
LastWith(t) ==
  CASE job[t].field = "sub"    -> [last EXCEPT !.sub = job[t].doc.sub]
    [] job[t].field = "active" -> [last EXCEPT !.sub.active = job[t].doc.sub.active]
    [] job[t].field = "other"  -> [last EXCEPT !.other = (@ + 1) % Modulus]

\* The new file is renamed over the old one: there is no half-written file.
UpdateSave(t) ==
  /\ At(t, "save")
  /\ file' = job[t].doc /\ last' = IF overlapped THEN last ELSE LastWith(t)
  /\ AfterSave(t)
  /\ UNCHANGED <<connection, overlapped, late>>

\* The temporary file cannot be written or renamed; it is removed.
SaveFails(t) ==
  /\ At(t, "save")
  /\ Return(t)
  /\ UNCHANGED <<file, connection, history>>
-----------------------------------------------------------------------------
(* ImportSubscription, and sa05ctl import.                                 *)

Import(t, url) ==
  /\ Call(t, "fetch", "sub", url, file.sub)
  /\ UNCHANGED <<file, connection, history>>

\* No connection, a bad status, a document too long or with one bad profile.
FetchFails(t) ==
  /\ At(t, "fetch")
  /\ Return(t)
  /\ UNCHANGED <<file, connection, history>>

\* 304 to the ETag of the subscription that was read.
NotModified(t) ==
  /\ At(t, "fetch") /\ Authorized(job[t].sub) /\ job[t].sub.url = job[t].value
  /\ job' = [job EXCEPT ![t].value = None, ![t].step = "load"]
  /\ UNCHANGED <<file, connection, history>>

Fetched(t) ==
  /\ At(t, "fetch")
  /\ \E profiles \in Documents :
       LET url == job[t].value
       IN  job' = [job EXCEPT
             ![t].sub = [url |-> url, profiles |-> profiles,
                         active |-> CarryActive(job[t].sub, profiles, url)],
             ![t].value = None, ![t].step = "load"]
  /\ UNCHANGED <<file, connection, history>>
-----------------------------------------------------------------------------
(* SelectProfile, CycleProfile, SelectFastest, and sa05ctl use.             *)

Select(t, id) ==
  /\ Ask(t, "choose", "active", id)
  /\ UNCHANGED <<file, connection, history>>

\* CycleProfile, one step forward or back.
Cycle(t) ==
  LET count   == Len(file.sub.profiles)
      current == ActiveIndex(file.sub)
  IN  /\ count >= 2
      /\ \E next \in {current % count, (current + count - 2) % count} :
           Ask(t, "choose", "active", file.sub.profiles[next + 1].id)
      /\ UNCHANGED <<file, connection, history>>

\* PingProfiles starts a core for each profile, so it takes a while.
Measure(t) ==
  /\ file.sub.profiles # <<>>
  /\ Call(t, "measure", "active", None, file.sub)
  /\ UNCHANGED <<file, connection, history>>

\* Each profile is started as a core of its own and probed through it: any of
\* them may answer, as fast as the network lets it.
MeasureAll(profiles) == SUBSET DOMAIN profiles

\* The fastest is selected, if one has answered.
Measured(t) ==
  /\ At(t, "measure")
  /\ \E answered \in MeasureAll(job[t].sub.profiles) :
       IF answered = {} THEN Return(t)
       ELSE \E i \in answered : Then(t, "choose", job[t].sub.profiles[i].id)
  /\ UNCHANGED <<file, connection, history>>

\* An unknown profile is refused; the window leaves the selected one alone.
Worthwhile(t) ==
  /\ Holds(file.sub, job[t].value)
  /\ t \in Callers => file.sub.active # job[t].value

Choose(t) ==
  /\ At(t, "choose")
  /\ IF Worthwhile(t) THEN Go(t, "load") ELSE Return(t)
  /\ UNCHANGED <<file, connection, history>>

Requested == status # "disconnected"

Apply(t) ==
  /\ At(t, "apply")
  /\ Go(t, IF Requested THEN "connect" ELSE "publish")
  /\ UNCHANGED <<file, connection, history>>

Publish(t) ==
  /\ At(t, "publish")
  /\ shown' = job[t].value
  /\ Return(t)
  /\ UNCHANGED <<file, status, core, connectMu, history>>
-----------------------------------------------------------------------------
(* The other writers.                                                      *)

\* A caller's Toggle, SetTheme, SetTelegramTransport or TelegramLink, a tool's
\* tg-link, or flushUsage.
Change(t) ==
  /\ Ask(t, "load", "other", None)
  /\ UNCHANGED <<file, connection, history>>
-----------------------------------------------------------------------------
(* Connect and Disconnect, as far as the profile goes.                     *)

CallConnect(t) ==
  /\ t = Monitor => Requested
  /\ Ask(t, "connect", None, None)
  /\ UNCHANGED <<file, connection, history>>

NotAuthorized(t) ==
  /\ At(t, "connect") /\ connectMu = None /\ ~Authorized(file.sub)
  /\ status' = "error"
  /\ Return(t)
  /\ UNCHANGED <<file, shown, core, connectMu, history>>

\* Mutant: the profile is read before the lock is taken.
ConnectBeginUnlocked(t) ==
  /\ At(t, "connect") /\ Authorized(file.sub)
  /\ connectMu' = t
  /\ status' = "connecting" /\ shown' = ActiveProfile(file.sub).id
  /\ job' = [job EXCEPT ![t].value = shown', ![t].step = "start"]
  /\ UNCHANGED <<file, core, history>>

ConnectBegin(t) ==
  /\ At(t, "connect") /\ connectMu = None /\ Authorized(file.sub)
  /\ connectMu' = t
  /\ status' = "connecting" /\ shown' = ActiveProfile(file.sub).id
  /\ job' = [job EXCEPT ![t].value = shown', ![t].step = "start"]
  /\ UNCHANGED <<file, core, history>>

\* The core runs, or does not, or was not even stopped for want of assets.
Start(t) ==
  /\ At(t, "start")
  /\ \/ core' = job[t].value /\ status' = "connected"
     \/ core' = None /\ status' = "error"
     \/ UNCHANGED core /\ status' = "error"
  /\ connectMu' = None
  /\ Return(t)
  /\ UNCHANGED <<file, shown, history>>

Disconnect(t) ==
  /\ At(t, "idle") /\ connectMu = None
  /\ core' = None /\ status' = "disconnected" /\ shown' = None
  /\ late' = (late \/ At(Monitor, "connect"))
  /\ UNCHANGED <<file, job, connectMu, last, overlapped>>
-----------------------------------------------------------------------------
(* Deaths: what is in memory goes, the file stays as it is.                *)

Forget(T) ==
  /\ job' = [t \in Threads |-> IF t \in T THEN NoJob ELSE job[t]]
  /\ UNCHANGED file

Interrupted(t) ==
  /\ ~At(t, "idle") /\ Forget({t})
  /\ UNCHANGED <<connection, history>>

Crash ==
  /\ Forget(Threads \ Tools)
  /\ core' = None /\ status' = "disconnected" /\ shown' = None /\ connectMu' = None
  /\ UNCHANGED history

User(t) ==
  \/ UpdateLoad(t) \/ UpdateSave(t) \/ SaveFails(t)
  \/ \E url \in Urls : Import(t, url)
  \/ FetchFails(t) \/ NotModified(t) \/ Fetched(t)
  \/ \E id \in Ids : Select(t, id)
  \/ Choose(t) \/ Change(t)

Caller(t) ==
  \/ Cycle(t) \/ Measure(t) \/ Measured(t) \/ Apply(t) \/ Publish(t) \/ Disconnect(t)

Connects(t) == CallConnect(t) \/ NotAuthorized(t) \/ ConnectBegin(t) \/ Start(t)

Next ==
  \/ \E t \in Users : User(t)
  \/ \E t \in Callers : Caller(t)
  \/ \E t \in Callers \cup {Monitor} : Connects(t)
  \/ \E t \in Tools : Interrupted(t)
  \/ Crash

Spec == Init /\ [][Next]_vars
-----------------------------------------------------------------------------
\* Nobody's change is lost as long as no two updates overlap, whatever failed
\* to be saved and whoever died: every field is as its last writer left it.
NothingLost == ~overlapped => file = last

\* A refresh of the same link stores what keeps the user on the server he used
\* when it began, if the provider still has it, though an identity changes with
\* any byte of a profile.
KeepsServer(before, after) ==
  LET old == ActiveProfile(before)
      new == ActiveProfile(after)
  IN  CASE Holds(after, old.id) -> new.id = old.id
        [] ~Holds(after, old.id) /\ (\E i \in DOMAIN after.profiles :
                                       after.profiles[i].remarks = old.remarks)
             -> new.remarks = old.remarks
        [] OTHER -> TRUE

RefreshKeepsServer ==
  [][\A t \in Users :
       LET before == job[t].sub
           after  == job'[t].sub
       IN  /\ At(t, "fetch") /\ job'[t].step = "load"
           /\ Authorized(before) /\ Holds(before, before.active) /\ before.url = after.url
           => KeepsServer(before, after)]_job

\* The server the window shows for a connection is the one the core runs, over
\* selections, reconnects, and changes of the file by other processes, as long
\* as one caller acts at a time and no reconnect outlives a Disconnect.
ShownIsRunning == ~late /\ status = "connected" /\ connectMu = None => shown = core
=============================================================================
