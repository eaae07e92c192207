--------------------------- MODULE Settings_proofs ---------------------------
(***************************************************************************)
(* Theorems about Settings, for every set of callers and tools and every    *)
(* set of documents a provider may return.                                  *)
(***************************************************************************)
EXTENDS Settings, FiniteSetTheorems, WellFoundedInduction, TLAPS

\* The window, the tray and the links, one after the other.
OneCaller == \A s, t \in Callers : s = t

\* ParseProfiles names a profile without a name after its place in the
\* document, and StableID does not look at the place: listed twice, such a
\* profile is two servers of one identity.  This says that no document has one.
NoUnnamedTwins ==
  \A d \in Documents : \A i, j \in DOMAIN d : d[i].id = d[j].id => d[i].remarks = d[j].remarks

-----------------------------------------------------------------------------
(* The inductive invariant.                                                *)

\* What the call j of t carries fits what it will do with it.
Fits(t, j) ==
  /\ j.step = "fetch" => j.field = "sub" /\ j.value \in Urls
  /\ j.step \in {"measure", "choose"} => j.field = "active"
  /\ j.step \in {"load", "save"} => j.field # None
  /\ j.step = "choose" \/ (j.step = "load" /\ j.field = "active") => j.value \in Ids \cup {None}
  /\ j.step \in {"apply", "publish", "start"} => j.value \in Ids \cup {None}
  /\ t \in Tools => j.step \notin {"apply", "publish", "connect", "start"}
  /\ t = Monitor => j.step \in {"idle", "connect", "start"}

\* What t is about to save is the file with t's own change.
Changed(t) ==
  CASE job[t].field = "sub"    -> [file EXCEPT !.sub = job[t].doc.sub]
    [] job[t].field = "active" -> [file EXCEPT !.sub.active = job[t].doc.sub.active]
    [] job[t].field = "other"  -> [file EXCEPT !.other = (@ + 1) % Modulus]

Alone ==
  ~overlapped =>
    /\ file = last
    /\ \A t, u \in Threads : At(t, "save") /\ At(u, "save") => t = u
    /\ \A t \in Threads : At(t, "save") => job[t].doc = Changed(t)

\* Who connects shows what he starts, and nobody else shows anything then.
Showing ==
  /\ connectMu # None => At(connectMu, "start") /\ status = "connecting"
  /\ status = "connecting" => connectMu # None
  /\ ~late =>
       /\ connectMu # None => shown = job[connectMu].value
       /\ status = "disconnected" => ~At(Monitor, "connect")
       /\ \A t \in Callers : At(t, "publish") => status = "disconnected"
       /\ status = "connected" => shown = core

IInv ==
  /\ TypeOK /\ \A t \in Threads : Fits(t, job[t])
  /\ Alone
  /\ OneCaller => Showing

-----------------------------------------------------------------------------
(* The subscription.                                                       *)

\* Every set of positions in a sequence has a least one.
LEMMA LeastIndex ==
  ASSUME NEW n \in Nat, NEW T \in SUBSET (1..n), T # {}
  PROVE  \E i \in T : \A j \in T : i <= j
<1> DEFINE Upto == {1..i : i \in T}
           R    == StrictSubsetOrdering(1..n)
<1>1. Upto \subseteq FiniteSubsetsOf(1..n)
  <2>1. ASSUME NEW i \in T
        PROVE  1..i \in FiniteSubsetsOf(1..n)
    BY FS_Interval DEF FiniteSubsetsOf
  <2>2. QED
    BY <2>1
<1>2. PICK x \in Upto : \A y \in Upto : <<y, x>> \notin R
  <2>1. Upto # {}
    OBVIOUS
  <2>2. IsWellFoundedOn(R, FiniteSubsetsOf(1..n))
    BY FS_StrictSubsetOrderingWellFounded
  <2> HIDE DEF Upto, R
  <2>3. QED
    BY <1>1, <2>1, <2>2, WFMin
<1>3. PICK i \in T : x = 1..i
  OBVIOUS
<1>4. ASSUME NEW j \in T
      PROVE  i <= j
  <2>1. SUFFICES ASSUME j < i
                 PROVE  FALSE
    OBVIOUS
  <2>2. 1..j \subseteq 1..i /\ i \in 1..i /\ i \notin 1..j
    BY <2>1
  <2>3. <<1..j, 1..i>> \in R
    BY <2>2 DEF StrictSubsetOrdering
  <2>4. QED
    BY <1>2, <1>3, <2>3
<1>5. QED
  BY <1>4

\* What the documents hold.
LEMMA DocumentFacts ==
  ASSUME NEW d \in Documents \cup {<<>>}
  PROVE  /\ d \in Seq([id : STRING, remarks : STRING]) /\ DOMAIN d = 1..Len(d) /\ Len(d) \in Nat
         /\ \A i \in DOMAIN d : d[i].id \in Ids
         /\ d # <<>> => 1 \in DOMAIN d
<1>1. d \in Seq([id : STRING, remarks : STRING])
  <2>1. CASE d \in Documents
    BY <2>1, SettingsAssumption
  <2>2. CASE d = <<>>
    BY <2>2
  <2>3. QED
    BY <2>1, <2>2
<1>2. DOMAIN d = 1..Len(d) /\ Len(d) \in Nat
  BY <1>1
<1>3. ASSUME NEW i \in DOMAIN d
      PROVE  d[i].id \in Ids
  <2>1. d \in Documents
    BY <1>3
  <2>2. d[i] \in Profiles
    BY <2>1 DEF Profiles
  <2>3. QED
    BY <2>2 DEF Ids
<1>4. d # <<>> => 1 \in DOMAIN d
  <2>1. d # <<>> => Len(d) # 0
    BY <1>1
  <2>2. QED
    BY <1>2, <2>1
<1>5. QED
  BY <1>1, <1>2, <1>3, <1>4

\* The active profile is one of the subscription, and the selected one if the
\* subscription has it.
LEMMA ActiveFacts ==
  ASSUME NEW sub \in Subscriptions, sub.profiles # <<>>
  PROVE  /\ ActiveIndex(sub) \in DOMAIN sub.profiles
         /\ ActiveProfile(sub).id \in Ids
         /\ Holds(sub, sub.active) => ActiveProfile(sub).id = sub.active
<1> DEFINE d == sub.profiles
           T == {i \in DOMAIN d : d[i].id = sub.active}
<1>1. /\ DOMAIN d = 1..Len(d) /\ Len(d) \in Nat /\ 1 \in DOMAIN d
      /\ \A i \in DOMAIN d : d[i].id \in Ids
  BY DocumentFacts DEF Subscriptions
<1>2. CASE Holds(sub, sub.active)
  <2>1. T # {} /\ T \subseteq 1..Len(d)
    BY <1>1, <1>2 DEF Holds
  <2>2. PICK i \in T : \A j \in T : i <= j
    BY <1>1, <2>1, LeastIndex
  <2>3. i \in DOMAIN d /\ d[i].id = sub.active /\ \A j \in 1..(i - 1) : ~(d[j].id = sub.active)
    BY <1>1, <2>2
  <2>4. ActiveIndex(sub) = CHOOSE k \in DOMAIN d :
          d[k].id = sub.active /\ \A j \in 1..(k - 1) : ~(d[j].id = sub.active)
    BY <1>2 DEF ActiveIndex, First
  <2>5. ActiveIndex(sub) \in DOMAIN d /\ d[ActiveIndex(sub)].id = sub.active
    BY <2>3, <2>4
  <2>6. QED
    BY <1>1, <2>5 DEF ActiveProfile
<1>3. CASE ~Holds(sub, sub.active)
  BY <1>1, <1>3 DEF ActiveIndex, ActiveProfile
<1>4. QED
  BY <1>2, <1>3

\* carryActiveProfile selects a profile of the new list: the selected one if
\* the list has it, else one with the name of the active one, if it has one.
LEMMA CarryFacts ==
  ASSUME NEW sub \in Subscriptions, NEW d \in Documents, NEW url \in Urls
  PROVE  /\ \E i \in DOMAIN d : d[i].id = CarryActive(sub, d, url)
         /\ sub.url = url /\ (\E i \in DOMAIN d : d[i].id = sub.active) =>
              CarryActive(sub, d, url) = sub.active
         /\ /\ sub.url = url /\ ~(\E i \in DOMAIN d : d[i].id = sub.active)
            /\ sub.profiles # <<>>
            /\ \E i \in DOMAIN d : d[i].remarks = ActiveProfile(sub).remarks
            => \E i \in DOMAIN d : /\ d[i].remarks = ActiveProfile(sub).remarks
                                   /\ d[i].id = CarryActive(sub, d, url)
<1> DEFINE name == ActiveProfile(sub).remarks
           T == {i \in DOMAIN d : d[i].remarks = name}
           same == \E i \in DOMAIN d : d[i].id = sub.active
           named == \E i \in DOMAIN d : sub.profiles # <<>> /\ d[i].remarks = name
<1>1. DOMAIN d = 1..Len(d) /\ Len(d) \in Nat /\ 1 \in DOMAIN d
  BY DocumentFacts, SettingsAssumption
<1>2. CASE sub.url = url /\ same
  BY <1>2 DEF CarryActive
<1>3. CASE sub.url = url /\ ~same /\ named
  <2>1. T # {} /\ T \subseteq 1..Len(d) /\ sub.profiles # <<>>
    BY <1>1, <1>3
  <2>2. PICK i \in T : \A j \in T : i <= j
    BY <1>1, <2>1, LeastIndex
  <2>3. i \in DOMAIN d /\ d[i].remarks = name /\ \A j \in 1..(i - 1) : ~(d[j].remarks = name)
    BY <1>1, <2>2
  <2> DEFINE first == CHOOSE k \in DOMAIN d :
                        /\ sub.profiles # <<>> /\ d[k].remarks = name
                        /\ \A j \in 1..(k - 1) : ~(sub.profiles # <<>> /\ d[j].remarks = name)
  <2>4. CarryActive(sub, d, url) = d[first].id
    BY <1>3 DEF CarryActive, First
  <2>5. first \in DOMAIN d /\ d[first].remarks = name
    BY <2>1, <2>3
  <2>6. QED
    BY <1>3, <2>4, <2>5
<1>4. CASE ~(sub.url = url /\ same) /\ ~(sub.url = url /\ ~same /\ named)
  <2>1. CarryActive(sub, d, url) = d[1].id
    BY <1>4 DEF CarryActive
  <2>2. QED
    BY <1>1, <1>4, <2>1
<1>5. QED
  BY <1>2, <1>3, <1>4

-----------------------------------------------------------------------------
(* Type correctness of what a call carries.                                *)

LEMMA DefaultsTyped ==
  NoSubscription \in Subscriptions /\ Defaults \in Files /\ NoJob \in Jobs
<1>1. NoSubscription \in Subscriptions
  BY DEF NoSubscription, Subscriptions
<1>2. Defaults \in Files
  BY <1>1, SettingsAssumption DEF Defaults, Files
<1>3. QED
  BY <1>1, <1>2 DEF NoJob, Jobs, Steps, Values

\* A call that moves on leaves the file, the connection and the others alone.
LEMMA JobStep ==
  ASSUME IInv, NEW t \in Threads, NEW j \in Jobs, Fits(t, j),
         job' = [job EXCEPT ![t] = j], UNCHANGED <<file, connection, history>>,
         j.step \notin {"save", "start"}, job[t].step # "start",
         j.step = "connect" => (t = Monitor => Requested),
         j.step = "publish" => job[t].step = "publish" \/ ~Requested
  PROVE  IInv'
<1>1. /\ file' = file /\ last' = last /\ status' = status /\ shown' = shown /\ core' = core
      /\ connectMu' = connectMu /\ overlapped' = overlapped /\ late' = late
  BY DEF connection, history
<1>2. /\ job' \in [Threads -> Jobs] /\ job'[t] = j
      /\ \A u \in Threads \ {t} : job'[u] = job[u]
  BY DEF IInv, TypeOK
<1>3. TypeOK'
  BY <1>1, <1>2 DEF IInv, TypeOK
<1>4. \A u \in Threads : Fits(u, job[u])'
  <2>1. \A u \in Threads : Fits(u, job'[u])
    BY <1>2 DEF IInv
  <2>2. QED
    BY <2>1 DEF Fits
<1>5. Alone'
  <2>1. \A u \in Threads : At(u, "save")' => At(u, "save") /\ job'[u] = job[u]
    BY <1>2 DEF At
  <2>2. QED
    BY <1>1, <2>1 DEF IInv, Alone, Changed
<1>6. (OneCaller => Showing)'
  <2>1. SUFFICES ASSUME OneCaller
                 PROVE  Showing'
    BY DEF OneCaller
  <2>2. Showing /\ connectMu \in Threads \cup {None}
    BY <2>1 DEF IInv, TypeOK
  <2>3. Monitor \in Threads /\ \A u \in Callers : u \in Threads
    BY DEF Threads, Users
  <2>4. connectMu # t \/ connectMu = None
    BY <2>2 DEF Showing, At
  <2>5. QED
    BY <1>1, <1>2, <2>2, <2>3, <2>4 DEF Showing, At, Requested
<1>7. QED
  BY <1>3, <1>4, <1>5, <1>6 DEF IInv

\* The facts about one thread most steps need.
LEMMA Here ==
  ASSUME IInv, NEW t \in Threads
  PROVE  /\ job[t] \in Jobs /\ Fits(t, job[t]) /\ job \in [Threads -> Jobs]
         /\ file \in Files /\ file.sub \in Subscriptions
         /\ job[t].sub \in Subscriptions /\ job[t].doc \in Files
         /\ (t = Monitor <=> t \notin Users) /\ (t \in Tools => t \notin Callers)
<1>1. job[t] \in Jobs /\ Fits(t, job[t]) /\ job \in [Threads -> Jobs] /\ file \in Files
  BY DEF IInv, TypeOK
<1>2. job[t].sub \in Subscriptions /\ job[t].doc \in Files /\ file.sub \in Subscriptions
  BY <1>1 DEF Jobs, Files
<1>3. QED
  BY <1>1, <1>2, SettingsAssumption DEF Threads

\* A call begins.
LEMMA CallStep ==
  ASSUME IInv, NEW t \in Threads, NEW s \in Steps \ {"save", "start", "publish"},
         NEW f \in {"sub", "active", "other", None}, NEW v \in Values,
         NEW sub \in Subscriptions, Call(t, s, f, v, sub),
         UNCHANGED <<file, connection, history>>,
         Fits(t, [step |-> s, field |-> f, value |-> v]),
         s = "connect" => (t = Monitor => Requested)
  PROVE  IInv'
<1> DEFINE j == [NoJob EXCEPT !.step = s, !.field = f, !.value = v, !.sub = sub]
<1>1. job' = [job EXCEPT ![t] = j] /\ job[t].step = "idle"
  BY DEF Call, At
<1>2. j \in Jobs /\ j.step = s /\ j.field = f /\ j.value = v
  BY DefaultsTyped DEF Jobs
<1>3. Fits(t, j)
  BY <1>2 DEF Fits
<1> HIDE DEF j
<1>4. QED
  BY <1>1, <1>2, <1>3, JobStep

LEMMA ReturnStep ==
  ASSUME IInv, NEW t \in Threads, Return(t), UNCHANGED <<file, connection, history>>,
         job[t].step # "start"
  PROVE  IInv'
<1>1. Fits(t, NoJob)
  BY DEF Fits, NoJob
<1>2. QED
  BY <1>1, JobStep, DefaultsTyped DEF Return, NoJob

LEMMA GoStep ==
  ASSUME IInv, NEW t \in Threads, NEW s \in Steps \ {"save", "start"}, Go(t, s),
         UNCHANGED <<file, connection, history>>, job[t].step # "start",
         Fits(t, [job[t] EXCEPT !.step = s]),
         s = "connect" => (t = Monitor => Requested),
         s = "publish" => ~Requested
  PROVE  IInv'
<1> DEFINE j == [job[t] EXCEPT !.step = s]
<1>1. j \in Jobs /\ j.step = s
  BY Here DEF Jobs
<1>2. job' = [job EXCEPT ![t] = j]
  BY DEF Go
<1>3. QED
  BY <1>1, <1>2, JobStep

-----------------------------------------------------------------------------
(* The calls that end in an update.                                        *)

\* The positions CycleProfile goes to are positions of the list.
LEMMA CyclePositions ==
  ASSUME NEW count \in Nat, count >= 2, NEW current \in 1..count
  PROVE  /\ (current % count) + 1 \in 1..count
         /\ ((current + count - 2) % count) + 1 \in 1..count
<1>1. current \in Nat /\ current + count - 2 \in Nat
  OBVIOUS
<1>2. \A n \in Nat : n % count \in 0..(count - 1)
  OBVIOUS
<1>3. QED
  BY <1>1, <1>2

LEMMA ImportKeeps ==
  ASSUME IInv, NEW t \in Users, NEW url \in Urls, Import(t, url)
  PROVE  IInv'
<1>1. t \in Threads /\ url \in Values /\ file.sub \in Subscriptions /\ t # Monitor
  BY Here, SettingsAssumption DEF Threads, Values
<1>2. QED
  BY <1>1, CallStep DEF Import, Fits, Steps

LEMMA SelectKeeps ==
  ASSUME IInv, NEW t \in Users, NEW id \in Ids, Select(t, id)
  PROVE  IInv'
<1>1. t \in Threads /\ id \in Values /\ t # Monitor
  BY SettingsAssumption DEF Threads, Values
<1>2. QED
  BY <1>1, CallStep, DefaultsTyped DEF Select, Ask, Fits, Steps

LEMMA CycleKeeps ==
  ASSUME IInv, NEW t \in Callers, Cycle(t)
  PROVE  IInv'
<1> DEFINE count == Len(file.sub.profiles)
           current == ActiveIndex(file.sub)
<1>1. PICK next \in {current % count, (current + count - 2) % count} :
        /\ count >= 2
        /\ Ask(t, "choose", "active", file.sub.profiles[next + 1].id)
        /\ UNCHANGED <<file, connection, history>>
  BY DEF Cycle
<1>2. t \in Threads /\ t # Monitor
  BY SettingsAssumption DEF Threads, Users
<1>3. file.sub \in Subscriptions
  BY <1>2, Here
<1>4. /\ DOMAIN file.sub.profiles = 1..count /\ count \in Nat
      /\ \A i \in DOMAIN file.sub.profiles : file.sub.profiles[i].id \in Ids
  BY <1>3, DocumentFacts DEF Subscriptions
<1>5. current \in 1..count
  <2>1. file.sub.profiles # <<>>
    BY <1>1
  <2>2. QED
    BY <1>3, <1>4, <2>1, ActiveFacts
<1> HIDE DEF count, current
<1>6. next + 1 \in 1..count
  BY <1>1, <1>4, <1>5, CyclePositions
<1> DEFINE id == file.sub.profiles[next + 1].id
<1>7. id \in Ids
  BY <1>4, <1>6
<1>8. id \in Values
  BY <1>7 DEF Values
<1>9. Ask(t, "choose", "active", id)
  BY <1>1
<1> HIDE DEF id
<1>10. QED
  BY <1>1, <1>2, <1>7, <1>8, <1>9, CallStep, DefaultsTyped DEF Ask, Fits, Steps

LEMMA MeasureKeeps ==
  ASSUME IInv, NEW t \in Callers, Measure(t)
  PROVE  IInv'
<1>1. t \in Threads /\ None \in Values /\ t # Monitor
  BY SettingsAssumption DEF Threads, Values, Users
<1>2. file.sub \in Subscriptions
  BY <1>1, Here
<1>3. QED
  BY <1>1, <1>2, CallStep DEF Measure, Fits, Steps

LEMMA ChangeKeeps ==
  ASSUME IInv, NEW t \in Users, Change(t)
  PROVE  IInv'
<1>1. t \in Threads /\ None \in Values /\ t # Monitor
  BY SettingsAssumption DEF Threads, Values, Users
<1>2. None # "other"
  BY DEF None
<1>3. QED
  BY <1>1, <1>2, CallStep, DefaultsTyped DEF Change, Ask, Fits, Steps

LEMMA CallConnectKeeps ==
  ASSUME IInv, NEW t \in Callers \cup {Monitor}, CallConnect(t)
  PROVE  IInv'
<1>1. t \in Threads /\ None \in Values /\ t \notin Tools
  BY SettingsAssumption DEF Threads, Values, Users
<1>2. QED
  BY <1>1, CallStep, DefaultsTyped DEF CallConnect, Ask, Fits, Steps

LEMMA FetchFailsKeeps ==
  ASSUME IInv, NEW t \in Users, FetchFails(t)
  PROVE  IInv'
  BY ReturnStep DEF FetchFails, At, Threads

LEMMA NotModifiedKeeps ==
  ASSUME IInv, NEW t \in Users, NotModified(t)
  PROVE  IInv'
<1> DEFINE j == [job[t] EXCEPT !.value = None, !.step = "load"]
<1>1. t \in Threads /\ t # Monitor
  BY SettingsAssumption DEF Threads
<1>2. /\ job[t].step = "fetch" /\ job' = [job EXCEPT ![t] = j]
      /\ UNCHANGED <<file, connection, history>>
  BY DEF NotModified, At
<1>3. j \in Jobs /\ j.step = "load" /\ j.field = "sub"
  BY <1>1, <1>2, Here DEF Jobs, Steps, Values, Fits
<1>4. Fits(t, j)
  BY <1>1, <1>3 DEF Fits, None
<1> HIDE DEF j
<1>5. QED
  BY <1>1, <1>2, <1>3, <1>4, JobStep

LEMMA FetchedKeeps ==
  ASSUME IInv, NEW t \in Users, Fetched(t)
  PROVE  IInv'
<1>1. t \in Threads /\ t # Monitor
  BY SettingsAssumption DEF Threads
<1>2. PICK profiles \in Documents :
        job' = [job EXCEPT
          ![t].sub = [url |-> job[t].value, profiles |-> profiles,
                      active |-> CarryActive(job[t].sub, profiles, job[t].value)],
          ![t].value = None, ![t].step = "load"]
  BY DEF Fetched
<1> DEFINE new == [url |-> job[t].value, profiles |-> profiles,
                   active |-> CarryActive(job[t].sub, profiles, job[t].value)]
           j == [job[t] EXCEPT !.sub = new, !.value = None, !.step = "load"]
<1>3. job[t].step = "fetch" /\ UNCHANGED <<file, connection, history>>
  BY DEF Fetched, At
<1>4. /\ job[t] \in Jobs /\ job[t].value \in Urls /\ job[t].field = "sub"
      /\ job[t].sub \in Subscriptions
  BY <1>1, <1>3, Here DEF Fits
<1>5. new \in Subscriptions
  <2>1. CarryActive(job[t].sub, profiles, job[t].value) \in Ids
    BY <1>4, CarryFacts, DocumentFacts
  <2>2. QED
    BY <1>4, <2>1 DEF Subscriptions
<1>6. job' = [job EXCEPT ![t] = j]
  BY <1>2
<1> HIDE DEF new
<1>7. j \in Jobs /\ j.step = "load" /\ j.field = "sub"
  BY <1>4, <1>5 DEF Jobs, Steps, Values
<1>8. Fits(t, j)
  BY <1>1, <1>7 DEF Fits, None
<1> HIDE DEF j
<1>9. QED
  BY <1>1, <1>3, <1>6, <1>7, <1>8, JobStep

\* A thread turns to its next step with a profile to select or to show.
LEMMA ThenStep ==
  ASSUME IInv, NEW t \in Threads, NEW s \in {"choose", "apply"}, NEW v \in Ids \cup {None},
         Then(t, s, v), UNCHANGED <<file, connection, history>>,
         job[t].field = "active", job[t].step # "start", t \in Callers
  PROVE  IInv'
<1> DEFINE j == [NoJob EXCEPT !.step = s, !.field = job[t].field, !.value = v]
<1>1. job' = [job EXCEPT ![t] = j]
  BY DEF Then
<1>2. j \in Jobs /\ j.step = s /\ j.field = "active" /\ j.value = v
  BY DefaultsTyped DEF Jobs, Steps, Values
<1>3. Fits(t, j)
  BY <1>2, SettingsAssumption DEF Fits, Users
<1> HIDE DEF j
<1>4. QED
  BY <1>1, <1>2, <1>3, JobStep

LEMMA MeasuredKeeps ==
  ASSUME IInv, NEW t \in Callers, Measured(t)
  PROVE  IInv'
<1>1. t \in Threads /\ job[t].step = "measure" /\ UNCHANGED <<file, connection, history>>
  BY DEF Measured, At, Threads, Users
<1>2. CASE Return(t)
  BY <1>1, <1>2, ReturnStep
<1>3. ASSUME NEW i \in DOMAIN job[t].sub.profiles,
             Then(t, "choose", job[t].sub.profiles[i].id)
      PROVE  IInv'
  <2>1. job[t].field = "active" /\ job[t].sub \in Subscriptions
    BY <1>1, Here DEF Fits
  <2>2. job[t].sub.profiles[i].id \in Ids
    BY <2>1, DocumentFacts DEF Subscriptions
  <2>3. QED
    BY <1>1, <1>3, <2>1, <2>2, ThenStep
<1>4. QED
  BY <1>2, <1>3 DEF Measured, MeasureAll

LEMMA ChooseKeeps ==
  ASSUME IInv, NEW t \in Users, Choose(t)
  PROVE  IInv'
<1>1. t \in Threads /\ t # Monitor /\ job[t].step = "choose"
      /\ UNCHANGED <<file, connection, history>>
  BY SettingsAssumption DEF Choose, At, Threads
<1>2. CASE Return(t)
  BY <1>1, <1>2, ReturnStep
<1>3. CASE Go(t, "load")
  <2>1. Fits(t, [job[t] EXCEPT !.step = "load"])
    BY <1>1, Here DEF Fits, Jobs, None
  <2>2. QED
    BY <1>1, <1>3, <2>1, GoStep DEF Steps
<1>4. QED
  BY <1>2, <1>3 DEF Choose

LEMMA ApplyKeeps ==
  ASSUME IInv, NEW t \in Callers, Apply(t)
  PROVE  IInv'
<1>1. t \in Threads /\ t # Monitor /\ t \notin Tools /\ job[t].step = "apply"
      /\ UNCHANGED <<file, connection, history>>
      /\ Go(t, IF Requested THEN "connect" ELSE "publish")
  BY SettingsAssumption DEF Apply, At, Threads, Users
<1>2. /\ Fits(t, [job[t] EXCEPT !.step = "connect"])
      /\ Fits(t, [job[t] EXCEPT !.step = "publish"])
  BY <1>1, Here DEF Fits, Jobs
<1>3. QED
  BY <1>1, <1>2, GoStep DEF Steps

-----------------------------------------------------------------------------
(* Store.Update.                                                           *)

\* The fields a file is made of.
LEMMA MutatedTyped ==
  ASSUME IInv, NEW t \in Threads, job[t].step = "load"
  PROVE  Mutated(file, t) \in Files
<1>1. file \in Files /\ file.sub \in Subscriptions /\ file.other \in 0..(Modulus - 1)
  BY Here DEF Files
<1>2. /\ job[t].sub \in Subscriptions /\ job[t].field \in {"sub", "active", "other"}
      /\ job[t].field = "active" => job[t].value \in Ids \cup {None}
  BY Here DEF Jobs, Fits
<1>3. CASE job[t].field = "sub"
  <2>1. Mutated(file, t) = [file EXCEPT !.sub = job[t].sub]
    BY <1>3 DEF Mutated
  <2>2. QED
    BY <1>1, <1>2, <2>1 DEF Files
<1>4. CASE job[t].field = "active"
  <2>1. Mutated(file, t) = [file EXCEPT !.sub = [file.sub EXCEPT !.active = job[t].value]]
    BY <1>1, <1>4 DEF Mutated
  <2>2. [file.sub EXCEPT !.active = job[t].value] \in Subscriptions
    BY <1>1, <1>2, <1>4 DEF Subscriptions
  <2>3. QED
    BY <1>1, <2>1, <2>2 DEF Files
<1>5. CASE job[t].field = "other"
  <2>1. Mutated(file, t) = [file EXCEPT !.other = (file.other + 1) % Modulus]
    BY <1>1, <1>5 DEF Mutated
  <2>2. (file.other + 1) % Modulus \in 0..(Modulus - 1)
    BY <1>1, SettingsAssumption
  <2>3. QED
    BY <1>1, <2>1, <2>2 DEF Files
<1>6. QED
  BY <1>2, <1>3, <1>4, <1>5

\* What was changed in memory is the file with one change.
LEMMA MutatedIsChanged ==
  ASSUME NEW f \in Files, NEW t \in Threads, NEW j \in Jobs,
         job' = [job EXCEPT ![t] = j], job \in [Threads -> Jobs], file' = f, file = f,
         j.field = job[t].field, j.doc = Mutated(f, t),
         job[t].field \in {"sub", "active", "other"}
  PROVE  j.doc = Changed(t)'
<1>1. job'[t] = j /\ f.sub \in Subscriptions /\ job[t].sub \in Subscriptions
  BY DEF Files, Jobs
<1>2. CASE job[t].field = "sub"
  <2>1. j.doc = [f EXCEPT !.sub = job[t].sub]
    BY <1>2 DEF Mutated
  <2>2. Changed(t)' = [f EXCEPT !.sub = j.doc.sub]
    BY <1>1, <1>2 DEF Changed
  <2>3. j.doc.sub = job[t].sub
    BY <2>1 DEF Files
  <2>4. QED
    BY <2>1, <2>2, <2>3
<1>3. CASE job[t].field = "active"
  <2>1. j.doc = [f EXCEPT !.sub = [f.sub EXCEPT !.active = job[t].value]]
    BY <1>3 DEF Mutated
  <2>2. Changed(t)' = [f EXCEPT !.sub = [f.sub EXCEPT !.active = j.doc.sub.active]]
    BY <1>1, <1>3 DEF Changed
  <2>3. j.doc.sub = [f.sub EXCEPT !.active = job[t].value]
    BY <2>1 DEF Files
  <2>4. j.doc.sub.active = job[t].value
    BY <1>1, <2>3 DEF Subscriptions
  <2>5. QED
    BY <2>1, <2>2, <2>4
<1>4. CASE job[t].field = "other"
  <2>1. j.doc = [f EXCEPT !.other = (f.other + 1) % Modulus]
    BY <1>4 DEF Mutated
  <2>2. Changed(t)' = [f EXCEPT !.other = (f.other + 1) % Modulus]
    BY <1>1, <1>4 DEF Changed
  <2>3. QED
    BY <2>1, <2>2
<1>5. QED
  BY <1>2, <1>3, <1>4

LEMMA UpdateLoadKeeps ==
  ASSUME IInv, NEW t \in Users, UpdateLoad(t)
  PROVE  IInv'
<1> DEFINE j == [NoJob EXCEPT !.step = "save", !.field = job[t].field, !.doc = Mutated(file, t)]
<1>1. /\ t \in Threads /\ t # Monitor /\ job[t].step = "load"
      /\ job' = [job EXCEPT ![t] = j]
      /\ UNCHANGED <<file, connection, late>>
      /\ last' = IF overlapped' THEN Defaults ELSE last
  BY SettingsAssumption DEF UpdateLoad, At, Threads
<1>2. overlapped' = (overlapped \/ \E u \in Threads : At(u, "save"))
  BY DEF UpdateLoad
<1>3. (overlapped \in BOOLEAN)'
  BY <1>2 DEF IInv, TypeOK
<1>4. ~overlapped' => ~overlapped /\ \A u \in Threads : ~At(u, "save")
  BY <1>2
<1>5. /\ job \in [Threads -> Jobs] /\ job[t] \in Jobs /\ file \in Files
      /\ Mutated(file, t) \in Files /\ job[t].field \in {"sub", "active", "other"}
  BY <1>1, Here, MutatedTyped DEF Fits, Jobs
<1>6. j \in Jobs /\ j.step = "save" /\ j.field = job[t].field /\ j.doc = Mutated(file, t)
  BY <1>5, DefaultsTyped DEF Jobs, Steps
<1> HIDE DEF j
<1>7. /\ job' \in [Threads -> Jobs] /\ job'[t] = j
      /\ \A u \in Threads \ {t} : job'[u] = job[u]
  BY <1>1, <1>5, <1>6
<1>8. /\ file' = file /\ status' = status /\ shown' = shown /\ core' = core
      /\ connectMu' = connectMu /\ late' = late
  BY <1>1 DEF connection
<1>9. TypeOK'
  BY <1>1, <1>3, <1>6, <1>7, <1>8, DefaultsTyped DEF IInv, TypeOK
<1>10. \A u \in Threads : Fits(u, job[u])'
  <2>1. Fits(t, j)
    BY <1>1, <1>5, <1>6 DEF Fits, None
  <2>2. \A u \in Threads : Fits(u, job'[u])
    BY <1>7, <2>1 DEF IInv
  <2>3. QED
    BY <2>2 DEF Fits
<1>11. Alone'
  <2>1. SUFFICES ASSUME ~overlapped'
                 PROVE  /\ file' = last'
                        /\ \A u \in Threads : At(u, "save")' => u = t
                        /\ job'[t].doc = Changed(t)'
    BY DEF Alone
  <2>2. file' = last'
    BY <1>1, <1>4, <1>8, <2>1 DEF IInv, Alone
  <2>3. \A u \in Threads : At(u, "save")' => u = t
    BY <1>4, <1>7, <2>1 DEF At
  <2>4. job'[t].doc = Changed(t)'
    BY <1>1, <1>5, <1>6, <1>7, <1>8, MutatedIsChanged
  <2>5. QED
    BY <2>2, <2>3, <2>4
<1>12. (OneCaller => Showing)'
  <2>1. SUFFICES ASSUME OneCaller
                 PROVE  Showing'
    BY DEF OneCaller
  <2>2. Showing /\ connectMu \in Threads \cup {None}
    BY <2>1 DEF IInv, TypeOK
  <2>3. Monitor \in Threads /\ \A u \in Callers : u \in Threads
    BY DEF Threads, Users
  <2>4. QED
    BY <1>1, <1>6, <1>7, <1>8, <2>2, <2>3 DEF Showing, At
<1>13. QED
  BY <1>9, <1>10, <1>11, <1>12 DEF IInv

\* What AfterSave leaves of a job.
LEMMA AfterSaveFacts ==
  ASSUME IInv, NEW t \in Users, job[t].step = "save", AfterSave(t)
  PROVE  /\ job' \in [Threads -> Jobs] /\ \A u \in Threads \ {t} : job'[u] = job[u]
         /\ job'[t].step \in {"idle", "apply"} /\ Fits(t, job'[t])
<1>1. /\ t \in Threads /\ t # Monitor /\ job[t] \in Jobs /\ job \in [Threads -> Jobs]
      /\ job[t].doc.sub.active \in Ids \cup {None} /\ (t \in Tools => t \notin Callers)
  BY Here DEF Threads, Files, Subscriptions
<1> DEFINE j == [NoJob EXCEPT !.step = "apply", !.field = job[t].field,
                              !.value = job[t].doc.sub.active]
<1>2. j \in Jobs /\ j.step = "apply" /\ j.value \in Ids \cup {None}
  BY <1>1, DefaultsTyped DEF Jobs, Steps, Values
<1>3. CASE t \in Callers /\ job[t].field = "active"
  <2>1. job' = [job EXCEPT ![t] = j]
    BY <1>3 DEF AfterSave, Then
  <2> HIDE DEF j
  <2>2. QED
    BY <1>1, <1>2, <1>3, <2>1 DEF Fits
<1>4. CASE ~(t \in Callers /\ job[t].field = "active")
  <2>1. job' = [job EXCEPT ![t] = NoJob] /\ NoJob \in Jobs
    BY <1>4, DefaultsTyped DEF AfterSave, Return
  <2>2. NoJob.step = "idle"
    BY DEF NoJob
  <2>3. QED
    BY <1>1, <2>1, <2>2 DEF Fits
<1>5. QED
  BY <1>3, <1>4

\* The step of one update that ends.
LEMMA SaveEnds ==
  ASSUME IInv, NEW t \in Users, job[t].step = "save",
         job' \in [Threads -> Jobs], \A u \in Threads \ {t} : job'[u] = job[u],
         job'[t].step \in {"idle", "apply"}, Fits(t, job'[t]),
         UNCHANGED <<connection, overlapped, late>>, file' \in Files, last' \in Files,
         ~overlapped => file' = last'
  PROVE  IInv'
<1>1. /\ status' = status /\ shown' = shown /\ core' = core
      /\ connectMu' = connectMu /\ late' = late /\ overlapped' = overlapped
  BY DEF connection
<1>2. t \in Threads /\ t # Monitor
  BY SettingsAssumption DEF Threads
<1>3. TypeOK'
  BY <1>1, <1>2 DEF IInv, TypeOK
<1>4. \A u \in Threads : Fits(u, job[u])'
  <2>1. \A u \in Threads : Fits(u, job'[u])
    BY DEF IInv
  <2>2. QED
    BY <2>1 DEF Fits
<1>5. Alone'
  <2>1. ~overlapped => \A u \in Threads : ~At(u, "save")'
    BY <1>2 DEF IInv, Alone, At
  <2>2. QED
    BY <1>1, <2>1 DEF Alone
<1>6. (OneCaller => Showing)'
  <2>1. SUFFICES ASSUME OneCaller
                 PROVE  Showing'
    BY DEF OneCaller
  <2>2. Showing /\ connectMu \in Threads \cup {None}
    BY <2>1 DEF IInv, TypeOK
  <2>3. Monitor \in Threads /\ \A u \in Callers : u \in Threads
    BY DEF Threads, Users
  <2>4. QED
    BY <1>1, <1>2, <2>2, <2>3 DEF Showing, At
<1>7. QED
  BY <1>3, <1>4, <1>5, <1>6 DEF IInv

LEMMA UpdateSaveKeeps ==
  ASSUME IInv, NEW t \in Users, UpdateSave(t)
  PROVE  IInv'
<1>1. /\ t \in Threads /\ job[t].step = "save" /\ AfterSave(t)
      /\ file' = job[t].doc /\ last' = IF overlapped THEN last ELSE LastWith(t)
      /\ UNCHANGED <<connection, overlapped, late>>
  BY DEF UpdateSave, At, Threads
<1>2. /\ job[t].doc \in Files /\ last \in Files
      /\ job[t].field \in {"sub", "active", "other"}
  BY <1>1, Here DEF Fits, Jobs, IInv, TypeOK
<1>3. ~overlapped => LastWith(t) = job[t].doc
  <2>1. SUFFICES ASSUME ~overlapped
                 PROVE  LastWith(t) = job[t].doc
    OBVIOUS
  <2>2. last = file /\ job[t].doc = Changed(t)
    BY <1>1, <2>1 DEF IInv, Alone, At
  <2>3. LastWith(t) = Changed(t)
    BY <1>2, <2>2 DEF LastWith, Changed
  <2>4. QED
    BY <2>2, <2>3
<1>4. last' \in Files /\ file' \in Files /\ (~overlapped => file' = last')
  BY <1>1, <1>2, <1>3
<1>5. QED
  BY <1>1, <1>4, AfterSaveFacts, SaveEnds

LEMMA SaveFailsKeeps ==
  ASSUME IInv, NEW t \in Users, SaveFails(t)
  PROVE  IInv'
  BY ReturnStep DEF SaveFails, At, Threads

-----------------------------------------------------------------------------
(* The connection.                                                         *)

\* A step of the connection of t, which leaves the files alone.
LEMMA ConnectionStep ==
  ASSUME IInv, NEW t \in Threads, NEW j \in Jobs, Fits(t, j), j.step \in {"idle", "start"},
         job' = [job EXCEPT ![t] = j], UNCHANGED <<file, last, overlapped>>,
         j.step = "start" => connectMu' = t,
         \A u \in Threads \ {t} : job[u].step = "start" => connectMu' = u,
         status' \in {"disconnected", "connecting", "connected", "error"},
         shown' \in Ids \cup {None}, core' \in Ids \cup {None},
         connectMu' \in Threads \cup {None}, (late \in BOOLEAN)',
         (OneCaller => Showing)'
  PROVE  IInv'
<1>1. job' \in [Threads -> Jobs] /\ job'[t] = j /\ \A u \in Threads \ {t} : job'[u] = job[u]
  BY DEF IInv, TypeOK
<1>2. TypeOK'
  BY <1>1 DEF IInv, TypeOK
<1>3. \A u \in Threads : Fits(u, job[u])'
  <2>1. \A u \in Threads : Fits(u, job'[u])
    BY <1>1 DEF IInv
  <2>2. QED
    BY <2>1 DEF Fits
<1>4. Alone'
  <2>1. \A u \in Threads : At(u, "save")' => At(u, "save") /\ job'[u] = job[u]
    BY <1>1 DEF At
  <2>2. QED
    BY <2>1 DEF IInv, Alone, Changed
<1>5. QED
  BY <1>2, <1>3, <1>4 DEF IInv

LEMMA NoJobFits ==
  ASSUME NEW t
  PROVE  NoJob \in Jobs /\ NoJob.step = "idle" /\ Fits(t, NoJob)
  BY DefaultsTyped DEF NoJob, Fits

LEMMA ConnectionTyped ==
  ASSUME IInv
  PROVE  /\ status \in {"disconnected", "connecting", "connected", "error"}
         /\ shown \in Ids \cup {None} /\ core \in Ids \cup {None}
         /\ connectMu \in Threads \cup {None}
         /\ \A t \in Threads : job[t].step = "start" => connectMu = t
         /\ Monitor \in Threads /\ None \notin Threads /\ Monitor \notin Users
         /\ Callers \subseteq Threads /\ Tools \subseteq Threads
         /\ OneCaller => Showing
  BY SettingsAssumption DEF IInv, TypeOK, At, Threads, Users

LEMMA PublishKeeps ==
  ASSUME IInv, NEW t \in Callers, Publish(t)
  PROVE  IInv'
<1>1. /\ t \in Threads /\ t # Monitor /\ job[t].step = "publish" /\ shown' = job[t].value
      /\ job' = [job EXCEPT ![t] = NoJob]
      /\ file' = file /\ status' = status /\ core' = core /\ connectMu' = connectMu
      /\ last' = last /\ overlapped' = overlapped /\ late' = late
  BY ConnectionTyped DEF Publish, Return, At, history, Users
<1>2. job[t].value \in Ids \cup {None} /\ job \in [Threads -> Jobs]
  BY <1>1, Here DEF Fits
<1>3. (late \in BOOLEAN)'
  BY <1>1 DEF IInv, TypeOK
<1>4. (OneCaller => Showing)'
  <2>1. SUFFICES ASSUME OneCaller
                 PROVE  Showing'
    BY DEF OneCaller
  <2>2. Showing /\ \A u \in Callers : u = t
    BY <2>1, ConnectionTyped DEF OneCaller
  <2>3. job'[t] = NoJob /\ \A u \in Threads \ {t} : job'[u] = job[u]
    BY <1>1, <1>2
  <2>4. QED
    BY <1>1, <2>2, <2>3, NoJobFits, ConnectionTyped DEF Showing, At
<1>5. QED
  BY <1>1, <1>2, <1>3, <1>4, NoJobFits, ConnectionTyped, ConnectionStep

LEMMA NotAuthorizedKeeps ==
  ASSUME IInv, NEW t \in Callers \cup {Monitor}, NotAuthorized(t)
  PROVE  IInv'
<1>1. /\ t \in Threads /\ job[t].step = "connect" /\ connectMu = None
      /\ status' = "error" /\ job' = [job EXCEPT ![t] = NoJob]
      /\ file' = file /\ shown' = shown /\ core' = core /\ connectMu' = connectMu
      /\ last' = last /\ overlapped' = overlapped /\ late' = late
  BY ConnectionTyped DEF NotAuthorized, Return, At, history
<1>2. (late \in BOOLEAN)' /\ job \in [Threads -> Jobs]
  BY <1>1 DEF IInv, TypeOK
<1>3. (OneCaller => Showing)'
  <2>1. SUFFICES ASSUME OneCaller
                 PROVE  Showing'
    BY DEF OneCaller
  <2>2. Showing /\ \A u, v \in Callers : u = v
    BY <2>1, ConnectionTyped DEF OneCaller
  <2>3. job'[t] = NoJob /\ \A u \in Threads \ {t} : job'[u] = job[u]
    BY <1>1, <1>2
  <2>4. ~late => \A u \in Callers : job'[u].step # "publish"
    BY <1>1, <2>2, <2>3, NoJobFits, ConnectionTyped DEF Showing, At, Users
  <2>5. QED
    BY <1>1, <2>2, <2>3, <2>4, NoJobFits, ConnectionTyped DEF Showing, At
<1>4. QED
  BY <1>1, <1>2, <1>3, NoJobFits, ConnectionTyped, ConnectionStep

LEMMA ConnectBeginKeeps ==
  ASSUME IInv, NEW t \in Callers \cup {Monitor}, ConnectBegin(t)
  PROVE  IInv'
<1> DEFINE id == ActiveProfile(file.sub).id
           j == [job[t] EXCEPT !.value = id, !.step = "start"]
<1>1. /\ t \in Threads /\ t \notin Tools /\ job[t].step = "connect" /\ connectMu = None
      /\ Authorized(file.sub) /\ connectMu' = t /\ status' = "connecting" /\ shown' = id
      /\ job' = [job EXCEPT ![t] = j]
      /\ file' = file /\ core' = core
      /\ last' = last /\ overlapped' = overlapped /\ late' = late
  BY ConnectionTyped, SettingsAssumption DEF ConnectBegin, At, history, Users
<1>2. id \in Ids
  BY <1>1, Here, ActiveFacts DEF Authorized
<1> HIDE DEF id
<1>3. j \in Jobs /\ j.step = "start" /\ j.value = id
  BY <1>1, <1>2, Here DEF Jobs, Steps, Values
<1> HIDE DEF j
<1>4. Fits(t, j)
  BY <1>1, <1>2, <1>3, Here DEF Fits
<1>5. (late \in BOOLEAN)' /\ job \in [Threads -> Jobs]
  BY <1>1 DEF IInv, TypeOK
<1>6. (OneCaller => Showing)'
  <2>1. SUFFICES ASSUME OneCaller
                 PROVE  Showing'
    BY DEF OneCaller
  <2>2. Showing /\ \A u, v \in Callers : u = v
    BY <2>1, ConnectionTyped DEF OneCaller
  <2>3. job'[t] = j /\ \A u \in Threads \ {t} : job'[u] = job[u]
    BY <1>1, <1>3, <1>5
  <2>4. ~late => \A u \in Callers : job'[u].step # "publish"
    BY <1>1, <1>3, <2>2, <2>3, ConnectionTyped DEF Showing, At, Users
  <2>5. QED
    BY <1>1, <1>3, <2>2, <2>3, <2>4, ConnectionTyped DEF Showing, At
<1>7. QED
  BY <1>1, <1>2, <1>3, <1>4, <1>5, <1>6, ConnectionTyped, ConnectionStep

LEMMA StartKeeps ==
  ASSUME IInv, NEW t \in Callers \cup {Monitor}, Start(t)
  PROVE  IInv'
<1>1. /\ t \in Threads /\ job[t].step = "start"
      /\ \/ core' = job[t].value /\ status' = "connected"
         \/ core' = None /\ status' = "error"
         \/ core' = core /\ status' = "error"
      /\ connectMu' = None /\ job' = [job EXCEPT ![t] = NoJob]
      /\ file' = file /\ shown' = shown
      /\ last' = last /\ overlapped' = overlapped /\ late' = late
  BY ConnectionTyped DEF Start, Return, At, history
<1>2. connectMu = t /\ \A u \in Threads \ {t} : job[u].step # "start"
  BY <1>1, ConnectionTyped
<1>3. job[t].value \in Ids \cup {None}
  BY <1>1, Here DEF Fits
<1>4. (late \in BOOLEAN)' /\ job \in [Threads -> Jobs]
  BY <1>1 DEF IInv, TypeOK
<1>5. (OneCaller => Showing)'
  <2>1. SUFFICES ASSUME OneCaller
                 PROVE  Showing'
    BY DEF OneCaller
  <2>2. Showing /\ \A u, v \in Callers : u = v
    BY <2>1, ConnectionTyped DEF OneCaller
  <2>3. job'[t] = NoJob /\ \A u \in Threads \ {t} : job'[u] = job[u]
    BY <1>1, <1>4
  <2>4. status = "connecting" /\ (~late => shown = job[t].value)
    BY <1>2, <2>2, ConnectionTyped DEF Showing
  <2>5. ~late => \A u \in Callers : job'[u].step # "publish"
    BY <1>1, <2>2, <2>3, <2>4, NoJobFits, ConnectionTyped DEF Showing, At
  <2>6. status' \in {"connected", "error"} /\ (status' = "connected" => core' = job[t].value)
    BY <1>1
  <2>7. QED
    BY <1>1, <2>3, <2>4, <2>5, <2>6, ConnectionTyped DEF Showing, At
<1>6. QED
  BY <1>1, <1>2, <1>3, <1>4, <1>5, NoJobFits, ConnectionTyped, ConnectionStep

LEMMA DisconnectKeeps ==
  ASSUME IInv, NEW t \in Callers, Disconnect(t)
  PROVE  IInv'
<1>1. /\ t \in Threads /\ connectMu = None
      /\ status' = "disconnected" /\ shown' = None /\ core' = None /\ connectMu' = connectMu
      /\ file' = file /\ job' = job /\ last' = last /\ overlapped' = overlapped
      /\ job[t].step = "idle"
  BY ConnectionTyped DEF Disconnect, At
<1>2. late' = (late \/ At(Monitor, "connect"))
  BY DEF Disconnect
<1>3. (late \in BOOLEAN)'
  BY <1>2 DEF IInv, TypeOK, At
<1>4. ~late' => ~At(Monitor, "connect")
  BY <1>2
<1>5. TypeOK' /\ Alone' /\ \A u \in Threads : Fits(u, job[u])'
  <2>1. TypeOK'
    BY <1>1, <1>3 DEF IInv, TypeOK, At
  <2>2. Alone'
    BY <1>1 DEF IInv, Alone, Changed, At
  <2>3. \A u \in Threads : Fits(u, job[u])'
    BY <1>1 DEF IInv
  <2>4. QED
    BY <2>1, <2>2, <2>3
<1>6. Showing'
  BY <1>1, <1>4 DEF Showing, At
<1>7. QED
  BY <1>5, <1>6 DEF IInv, OneCaller

\* A process dies, or several.
LEMMA ForgetFacts ==
  ASSUME IInv, NEW T \in SUBSET Threads, Forget(T)
  PROVE  /\ job' \in [Threads -> Jobs]
         /\ \A u \in T : job'[u] = NoJob
         /\ \A u \in Threads \ T : job'[u] = job[u]
         /\ \A u \in Threads : Fits(u, job[u])'
         /\ file' = file
<1>1. /\ job' = [u \in Threads |-> IF u \in T THEN NoJob ELSE job[u]]
      /\ file' = file /\ job \in [Threads -> Jobs] /\ NoJob \in Jobs
  BY DefaultsTyped DEF Forget, IInv, TypeOK
<1>2. /\ job' \in [Threads -> Jobs]
      /\ \A u \in T : job'[u] = NoJob
      /\ \A u \in Threads \ T : job'[u] = job[u]
  BY <1>1
<1>3. \A u \in Threads : Fits(u, job'[u])
  BY <1>2, NoJobFits DEF IInv
<1>4. QED
  BY <1>1, <1>2, <1>3 DEF Fits

\* Fewer calls than before: the files are as they were.
LEMMA AloneForget ==
  ASSUME IInv, NEW T \in SUBSET Threads, Forget(T), UNCHANGED history
  PROVE  Alone'
<1>1. \A u \in Threads : At(u, "save")' => At(u, "save") /\ job'[u] = job[u]
  BY ForgetFacts, NoJobFits DEF At
<1>2. file' = file /\ last' = last /\ overlapped' = overlapped
  BY ForgetFacts DEF history
<1>3. QED
  BY <1>1, <1>2 DEF IInv, Alone, Changed

LEMMA InterruptedKeeps ==
  ASSUME IInv, NEW t \in Tools, Interrupted(t)
  PROVE  IInv'
<1>1. /\ {t} \in SUBSET Threads /\ Forget({t}) /\ UNCHANGED history
      /\ status' = status /\ shown' = shown /\ core' = core /\ connectMu' = connectMu
      /\ last' = last /\ overlapped' = overlapped /\ late' = late /\ t # Monitor
      /\ t \notin Callers
  BY ConnectionTyped, SettingsAssumption DEF Interrupted, connection, history, Users
<1>2. /\ job' \in [Threads -> Jobs] /\ job'[t] = NoJob
      /\ \A u \in Threads \ {t} : job'[u] = job[u]
      /\ file' = file /\ \A u \in Threads : Fits(u, job[u])'
  BY <1>1, ForgetFacts
<1>3. TypeOK'
  BY <1>1, <1>2, NoJobFits DEF IInv, TypeOK, At
<1>4. Alone'
  BY <1>1, AloneForget
<1>5. (OneCaller => Showing)'
  <2>1. SUFFICES ASSUME OneCaller
                 PROVE  Showing'
    BY DEF OneCaller
  <2>2. Showing /\ connectMu # t
    BY <2>1, ConnectionTyped, Here DEF Showing, Fits, At
  <2>3. QED
    BY <1>1, <1>2, <2>2, ConnectionTyped DEF Showing, At
<1>6. QED
  BY <1>2, <1>3, <1>4, <1>5 DEF IInv

LEMMA CrashKeeps ==
  ASSUME IInv, Crash
  PROVE  IInv'
<1>1. /\ Threads \ Tools \in SUBSET Threads /\ Forget(Threads \ Tools) /\ UNCHANGED history
      /\ core' = None /\ status' = "disconnected" /\ shown' = None /\ connectMu' = None
      /\ last' = last /\ overlapped' = overlapped /\ late' = late
      /\ Monitor \notin Tools /\ \A u \in Callers : u \notin Tools
  BY ConnectionTyped, SettingsAssumption DEF Crash, history, Users
<1>2. /\ job' \in [Threads -> Jobs] /\ \A u \in Threads \ Tools : job'[u] = NoJob
      /\ \A u \in Tools : job'[u] = job[u]
      /\ file' = file /\ \A u \in Threads : Fits(u, job[u])'
  BY <1>1, ForgetFacts, ConnectionTyped
<1>3. \A u \in Threads : job'[u].step # "start"
  BY <1>2, NoJobFits, ConnectionTyped, Here DEF Fits
<1>4. TypeOK'
  <2>1. (\A t \in Threads : job[t].step = "start" => connectMu = t)'
    BY <1>3
  <2>2. file \in Files /\ last \in Files
    BY DEF IInv, TypeOK
  <2>3. file' \in Files /\ last' \in Files
    BY <1>1, <1>2, <2>2
  <2>4. (overlapped \in BOOLEAN)' /\ (late \in BOOLEAN)'
    <3>1. overlapped \in BOOLEAN /\ late \in BOOLEAN
      BY DEF IInv, TypeOK
    <3>2. QED
      BY ONLY <1>1, <3>1
  <2>5. QED
    BY <1>1, <1>2, <2>1, <2>3, <2>4 DEF TypeOK
<1>5. Alone'
  BY <1>1, AloneForget
<1>6. Showing'
  BY <1>1, <1>2, NoJobFits, ConnectionTyped DEF Showing, At
<1>7. QED
  BY <1>2, <1>4, <1>5, <1>6 DEF IInv

-----------------------------------------------------------------------------
(* The theorems.                                                           *)

LEMMA InitIInv ==
  ASSUME Init
  PROVE  IInv
<1>1. \A t \in Threads : job[t] = NoJob
  BY DEF Init
<1>2. TypeOK
  BY <1>1, NoJobFits, DefaultsTyped DEF Init, TypeOK, At
<1>3. \A t \in Threads : Fits(t, job[t])
  BY <1>1, NoJobFits
<1>4. Alone
  BY <1>1, NoJobFits DEF Init, Alone, At
<1>5. Showing
  <2>1. Monitor \in Threads /\ Callers \subseteq Threads
    BY DEF Threads, Users
  <2>2. QED
    BY <1>1, <2>1, NoJobFits DEF Init, Showing, At
<1>6. QED
  BY <1>2, <1>3, <1>4, <1>5 DEF IInv

LEMMA StepIInv ==
  IInv /\ [Next]_vars => IInv'
<1> SUFFICES ASSUME IInv, [Next]_vars
             PROVE  IInv'
  OBVIOUS
<1>1. ASSUME NEW t \in Users, User(t)
      PROVE  IInv'
  BY <1>1, UpdateLoadKeeps, UpdateSaveKeeps, SaveFailsKeeps, ImportKeeps, FetchFailsKeeps,
     NotModifiedKeeps, FetchedKeeps, SelectKeeps, ChooseKeeps, ChangeKeeps DEF User
<1>2. ASSUME NEW t \in Callers, Caller(t)
      PROVE  IInv'
  BY <1>2, CycleKeeps, MeasureKeeps, MeasuredKeeps, ApplyKeeps, PublishKeeps, DisconnectKeeps
     DEF Caller
<1>3. ASSUME NEW t \in Callers \cup {Monitor}, Connects(t)
      PROVE  IInv'
  BY <1>3, CallConnectKeeps, NotAuthorizedKeeps, ConnectBeginKeeps, StartKeeps DEF Connects
<1>4. ASSUME NEW t \in Tools, Interrupted(t)
      PROVE  IInv'
  BY <1>4, InterruptedKeeps
<1>5. CASE Crash
  BY <1>5, CrashKeeps
<1>6. CASE UNCHANGED vars
  <2>1. /\ file' = file /\ job' = job /\ status' = status /\ shown' = shown /\ core' = core
        /\ connectMu' = connectMu /\ last' = last /\ overlapped' = overlapped /\ late' = late
    BY <1>6 DEF vars, connection, history
  <2>2. TypeOK' /\ Alone' /\ Showing' = Showing
    BY <2>1 DEF IInv, TypeOK, Alone, Changed, At, Showing
  <2>3. QED
    BY <2>1, <2>2 DEF IInv, OneCaller
<1>7. QED
  BY <1>1, <1>2, <1>3, <1>4, <1>5, <1>6 DEF Next

\* The invariant holds in every reachable state, for any number of goroutines,
\* of tools and of documents.
THEOREM InductiveInvariant == Spec => []IInv
<1>1. Init => IInv
  BY InitIInv
<1>2. QED
  BY <1>1, StepIInv, PTL DEF Spec

\* The variables keep their types; whatever a provider returns, the selected
\* profile is always one of a document, and one thread at most starts a core.
THEOREM TypeCorrect == Spec => []TypeOK
<1>1. IInv => TypeOK
  BY DEF IInv
<1>2. QED
  BY <1>1, InductiveInvariant, PTL

\* As long as no two updates overlap, no goroutine and no process loses a
\* change another one has stored (Store.Update), however many there are.
THEOREM NoLostUpdate == Spec => []NothingLost
<1>1. IInv => NothingLost
  BY DEF IInv, Alone, NothingLost
<1>2. QED
  BY <1>1, InductiveInvariant, PTL

\* With one caller at a time, the server the window shows as connected is the
\* one the core runs, whatever the monitor and the tools do meanwhile.
THEOREM ShowsWhatRuns == OneCaller => (Spec => []ShownIsRunning)
<1> SUFFICES ASSUME OneCaller
             PROVE  Spec => []ShownIsRunning
  OBVIOUS
<1>1. IInv => ShownIsRunning
  BY DEF IInv, Showing, ShownIsRunning
<1>2. QED
  BY <1>1, InductiveInvariant, PTL

\* A refresh of a link keeps the user on his server: what Fetched stores is
\* what KeepsServer asks for.
LEMMA FetchedKeepsServer ==
  ASSUME NoUnnamedTwins, NEW before \in Subscriptions, NEW after \in Subscriptions,
         NEW d \in Documents, NEW url \in Urls,
         after.url = url, after.profiles = d, after.active = CarryActive(before, d, url),
         Authorized(before), Holds(before, before.active), before.url = after.url
  PROVE  KeepsServer(before, after)
<1> DEFINE old == ActiveProfile(before)
           new == ActiveProfile(after)
<1>1. d # <<>> /\ before.profiles # <<>>
  BY SettingsAssumption DEF Authorized
<1>2. Holds(after, after.active)
  BY CarryFacts DEF Holds
<1>3. old.id = before.active /\ new.id = after.active
  BY <1>1, <1>2, ActiveFacts
<1>4. CASE Holds(after, old.id)
  <2>1. after.active = before.active
    BY <1>3, <1>4, CarryFacts DEF Holds
  <2>2. QED
    BY <1>3, <1>4, <2>1 DEF KeepsServer
<1>5. CASE ~Holds(after, old.id) /\ \E i \in DOMAIN d : d[i].remarks = old.remarks
  <2>1. PICK i \in DOMAIN d : d[i].remarks = old.remarks /\ d[i].id = after.active
    BY <1>1, <1>3, <1>5, CarryFacts DEF Holds
  <2>2. ActiveIndex(after) \in DOMAIN d /\ new = d[ActiveIndex(after)]
    BY <1>1, ActiveFacts DEF ActiveProfile
  <2>3. new.remarks = old.remarks
    BY <1>3, <2>1, <2>2 DEF NoUnnamedTwins
  <2>4. QED
    BY <1>5, <2>3 DEF KeepsServer
<1>6. CASE ~Holds(after, old.id) /\ ~\E i \in DOMAIN d : d[i].remarks = old.remarks
  BY <1>6 DEF KeepsServer
<1>7. QED
  BY <1>4, <1>5, <1>6

LEMMA KeepsItself ==
  ASSUME NEW sub \in Subscriptions, Authorized(sub)
  PROVE  KeepsServer(sub, sub)
<1>1. ActiveIndex(sub) \in DOMAIN sub.profiles
  BY ActiveFacts DEF Authorized
<1>2. Holds(sub, ActiveProfile(sub).id)
  BY <1>1 DEF Holds, ActiveProfile
<1>3. QED
  BY <1>2 DEF KeepsServer

\* Only the end of a fetch goes from the fetch to the update.
LEMMA FetchEnds ==
  ASSUME IInv, NEW t \in Users, job[t].step = "fetch", job'[t].step = "load", [Next]_vars
  PROVE  NotModified(t) \/ Fetched(t)
<1>1. t \in Threads /\ job \in [Threads -> Jobs]
  BY DEF IInv, TypeOK, Threads
<1>2. ASSUME NEW u, u # t, NEW j, job' = [job EXCEPT ![u] = j]
      PROVE  FALSE
  BY <1>1, <1>2
<1>3. job' # job
  BY <1>1
<1>4. ASSUME Return(t)
      PROVE  FALSE
  BY <1>1, <1>4, NoJobFits DEF Return
<1>5. ASSUME NEW T, Forget(T)
      PROVE  FALSE
  BY <1>1, <1>5, NoJobFits DEF Forget
<1>6. ASSUME NEW u \in Users, User(u)
      PROVE  NotModified(t) \/ Fetched(t)
  <2>1. CASE u = t
    BY <1>4, <1>6, <2>1 DEF User, UpdateLoad, UpdateSave, SaveFails, Import, FetchFails,
       Select, Choose, Change, Ask, Call, At
  <2>2. CASE u # t
    <3>1. PICK j : job' = [job EXCEPT ![u] = j]
      <4>1. CASE UpdateLoad(u) \/ UpdateSave(u) \/ SaveFails(u)
        BY <4>1 DEF UpdateLoad, UpdateSave, SaveFails, AfterSave, Then, Return
      <4>2. CASE (\E url \in Urls : Import(u, url)) \/ FetchFails(u) \/ NotModified(u)
        BY <4>2 DEF Import, FetchFails, NotModified, Call, Return
      <4>3. CASE Fetched(u)
        BY <4>3 DEF Fetched
      <4>4. CASE (\E id \in Ids : Select(u, id)) \/ Choose(u) \/ Change(u)
        BY <4>4 DEF Select, Choose, Change, Ask, Call, Go, Return
      <4>5. QED
        BY <1>6, <4>1, <4>2, <4>3, <4>4 DEF User
    <3>2. QED
      BY <1>2, <2>2, <3>1
  <2>3. QED
    BY <2>1, <2>2
<1>7. ASSUME NEW u \in Callers, Caller(u)
      PROVE  FALSE
  <2>1. CASE u = t
    BY <1>1, <1>3, <1>7, <2>1, NoJobFits DEF Caller, Cycle, Measure, Measured, Apply, Publish, Disconnect,
       Ask, Call, At
  <2>2. CASE u # t
    <3>1. CASE Disconnect(u)
      BY <1>3, <3>1 DEF Disconnect
    <3>2. CASE Cycle(u) \/ Measure(u) \/ Measured(u) \/ Apply(u) \/ Publish(u)
      BY <1>2, <2>2, <3>2 DEF Cycle, Measure, Measured, Apply, Publish, Ask, Call, Then, Go, Return
    <3>3. QED
      BY <1>7, <3>1, <3>2 DEF Caller
  <2>3. QED
    BY <2>1, <2>2
<1>8. ASSUME NEW u \in Callers \cup {Monitor}, Connects(u)
      PROVE  FALSE
  <2>1. CASE u = t
    BY <1>8, <2>1 DEF Connects, CallConnect, NotAuthorized, ConnectBegin, Start, Ask, Call, At
  <2>2. CASE u # t
    BY <1>2, <1>8, <2>2 DEF Connects, CallConnect, NotAuthorized, ConnectBegin, Start, Ask, Call,
       Return
  <2>3. QED
    BY <2>1, <2>2
<1>9. QED
  BY <1>3, <1>5, <1>6, <1>7, <1>8 DEF Next, Interrupted, Crash, vars

\* A refresh of a link stores a list with the user's server selected, if the
\* provider still has it (carryActiveProfile), whatever changes the bytes of its
\* profile and whatever the file becomes meanwhile.
THEOREM RefreshStays == NoUnnamedTwins => (Spec => RefreshKeepsServer)
<1> SUFFICES ASSUME NoUnnamedTwins
             PROVE  Spec => RefreshKeepsServer
  OBVIOUS
<1> DEFINE Kept == \A t \in Users :
             LET before == job[t].sub
                 after  == job'[t].sub
             IN  /\ At(t, "fetch") /\ job'[t].step = "load"
                 /\ Authorized(before) /\ Holds(before, before.active) /\ before.url = after.url
                 => KeepsServer(before, after)
<1>1. IInv /\ [Next]_vars => [Kept]_job
  <2> SUFFICES ASSUME IInv, [Next]_vars, NEW t \in Users,
                      job[t].step = "fetch", job'[t].step = "load",
                      Authorized(job[t].sub), Holds(job[t].sub, job[t].sub.active),
                      job[t].sub.url = job'[t].sub.url
               PROVE  KeepsServer(job[t].sub, job'[t].sub)
    BY DEF At
  <2>1. /\ t \in Threads /\ job[t] \in Jobs /\ job \in [Threads -> Jobs]
        /\ job[t].sub \in Subscriptions
    BY Here DEF Threads
  <2>2. CASE NotModified(t)
    <3>1. job'[t].sub = job[t].sub
      BY <2>1, <2>2 DEF NotModified, Jobs
    <3>2. QED
      BY <2>1, <3>1, KeepsItself
  <2>3. CASE Fetched(t)
    <3> DEFINE url == job[t].value
               new(d) == [url |-> url, profiles |-> d, active |-> CarryActive(job[t].sub, d, url)]
    <3>1. PICK d \in Documents :
            job' = [job EXCEPT ![t].sub = new(d), ![t].value = None, ![t].step = "load"]
      BY <2>3 DEF Fetched
    <3>2. url \in Urls
      BY <2>1, Here DEF Fits
    <3>3. new(d) \in Subscriptions
      <4>1. CarryActive(job[t].sub, d, url) \in Ids
        BY <2>1, <3>2, CarryFacts, DocumentFacts
      <4>2. QED
        BY <3>2, <4>1 DEF Subscriptions
    <3>4. /\ new(d).url = url /\ new(d).profiles = d
          /\ new(d).active = CarryActive(job[t].sub, d, url)
      OBVIOUS
    <3> HIDE DEF new
    <3>5. job'[t].sub = new(d)
      BY <2>1, <3>1 DEF Jobs
    <3>6. QED
      BY <2>1, <3>2, <3>3, <3>4, <3>5, FetchedKeepsServer
  <2>4. QED
    BY <2>2, <2>3, FetchEnds DEF At
<1>2. QED
  BY <1>1, InductiveInvariant, PTL DEF Spec, RefreshKeepsServer
=============================================================================
