-------------------------- MODULE TunLinux_proofs --------------------------
(***************************************************************************)
(* Theorems about TunLinux, for every number of deaths of the helper.       *)
(***************************************************************************)
EXTENDS TunLinux, SequenceTheorems, TLAPS

RoutesOf(c) == {<<"tunnel", f>> : f \in c.captured}
                 \cup (IF c.killSwitch THEN {"blackhole"} \X Families ELSE {})
RulesOf(c)  == {"lan"} \cup c.captured

Resolver == {"dns", "backup", "overwrite", "fill"}
Undoing  == {"rules_off", "table_off", "dns_off", "restore", "device_off"}

\* Why the call is where it is.
Goals ==
  /\ pc \in {"idle", "dead"} => goal = "down"
  /\ pc \in {"open", "routes", "rules"} \cup Resolver => goal = "up"

\* No family under the kill-switch is steered to a table without a blackhole.
Guarded ==
  \A f \in rules \cap Families : config.killSwitch => <<"blackhole", f>> \in routes

\* Rules go first and routes next when a policy is undone, and a helper that
\* starts leaves the exceptions for the local networks.
Undone ==
  /\ pc \in {"table_off", "dns_off", "restore", "device_off"} =>
       rules \subseteq {"lan"} /\ (goal # "start" => rules = {})
  /\ pc \in {"dns_off", "restore", "device_off"} => routes = {}

\* Routes come before rules when one is made.
BringingUp ==
  /\ pc = "open" => ~link /\ routes = {} /\ rules = {}
  /\ pc \in {"routes", "rules"} => link /\ config = request /\ todo # <<>>
  /\ pc = "routes" => rules = {} /\ routes \cup Range(todo) = RoutesOf(request)
  /\ pc = "rules"  => rules \cup Range(todo) = RulesOf(request)
                        /\ routes = RoutesOf(request)
  /\ pc \in {"open", "routes", "rules", "dead"} => ~up
  /\ pc \in Resolver => up /\ config = request

\* A tunnel that is up is complete, and one that is down has left nothing that
\* matters.
Settled ==
  /\ pc \in {"idle"} \cup Resolver /\ up =>
       link /\ routes = RoutesOf(config) /\ rules = RulesOf(config)
  /\ pc = "idle" /\ ~up => Clean

\* What the helper remembers of the resolver.
Remembered ==
  /\ pc \in {"restore", "device_off", "open", "routes", "rules", "dead"} \cup Resolver =>
       dnsMode = ""
  /\ pc = "idle" /\ ~up => dnsMode = ""
  /\ dnsMode = "resolv.conf" \/ pc \in {"restore", "backup", "overwrite", "fill"} =>
       backup # "none"

\* The user's resolv.conf is in place or in the backup.
ResolverKept ==
  ~damaged =>
    /\ pc # "backup" => backup \in {"none", "original"}
    /\ backup = "none" => resolvConf = "original"
    /\ pc \in {"device_off", "open", "routes", "rules", "dns", "backup", "overwrite"} =>
         resolvConf = "original"
    /\ pc \in {"restore", "overwrite", "fill"} => backup = "original"
    /\ pc \in {"idle", "rules_off", "table_off", "dns_off"} /\ goal # "start" =>
         IF dnsMode = "resolv.conf" THEN backup = "original" ELSE resolvConf = "original"

IInv ==
  /\ TypeOK /\ Goals /\ Guarded /\ Undone /\ BringingUp /\ Settled
  /\ Remembered /\ ResolverKept
-----------------------------------------------------------------------------
(* Lists of routes and rules.                                              *)

Entries == AllRoutes \cup Destinations

\* What is left of a list once its head is in place.
LEMMA TakeHead ==
  ASSUME NEW s \in Seq(Entries), s # <<>>
  PROVE  /\ Head(s) \in Range(s) /\ Tail(s) \in Seq(Entries)
         /\ Range(s) = {Head(s)} \cup Range(Tail(s))
<1>1. /\ Tail(s) \in Seq(Entries) /\ Len(Tail(s)) = Len(s) - 1
      /\ \A i \in 1..Len(Tail(s)) : Tail(s)[i] = s[i + 1]
  BY HeadTailProperties
<1>2. Len(s) \in Nat \ {0} /\ Head(s) = s[1]
  BY EmptySeq DEF Head
<1>3. /\ Range(s) = {s[i] : i \in 1..Len(s)}
      /\ Range(Tail(s)) = {Tail(s)[i] : i \in 1..Len(Tail(s))}
  BY <1>1, RangeEquality
<1>4. Range(Tail(s)) = {s[i] : i \in 2..Len(s)}
  <2>1. \A i \in 1..Len(Tail(s)) : i + 1 \in 2..Len(s) /\ Tail(s)[i] = s[i + 1]
    BY <1>1, <1>2
  <2>2. \A i \in 2..Len(s) : i - 1 \in 1..Len(Tail(s)) /\ Tail(s)[i - 1] = s[i]
    BY <1>1, <1>2
  <2>3. QED
    BY <1>3, <2>1, <2>2
<1>5. \A i \in 1..Len(s) : i = 1 \/ i \in 2..Len(s)
  BY <1>2
<1>6. 1 \in 1..Len(s) /\ 2..Len(s) \subseteq 1..Len(s)
  BY <1>2
<1>7. QED
  BY <1>1, <1>2, <1>3, <1>4, <1>5, <1>6

\* The lists of Up hold what their definitions say of the configuration.
LEMMA Plans ==
  ASSUME NEW c \in Configs
  PROVE  /\ PlannedRoutes(c) \in Seq(Entries) /\ PlannedRoutes(c) # <<>>
         /\ Range(PlannedRoutes(c)) = RoutesOf(c)
         /\ PlannedRules(c) \in Seq(Entries) /\ PlannedRules(c) # <<>>
         /\ Range(PlannedRules(c)) = RulesOf(c)
<1> DEFINE t4 == <<<<"tunnel", "v4">>>>
           t6 == IF "v6" \in c.captured THEN <<<<"tunnel", "v6">>>> ELSE <<>>
           b  == IF c.killSwitch THEN <<<<"blackhole", "v4">>, <<"blackhole", "v6">>>> ELSE <<>>
           l4 == <<"lan", "v4">>
           l6 == IF "v6" \in c.captured THEN <<"v6">> ELSE <<>>
<1>1. c.killSwitch \in BOOLEAN /\ (c.captured = {"v4"} \/ c.captured = {"v4", "v6"})
  BY DEF Configs, Families
<1>2. /\ t4 \in Seq(Entries) /\ Range(t4) = {<<"tunnel", "v4">>} /\ t4 # <<>>
      /\ l4 \in Seq(Entries) /\ Range(l4) = {"lan", "v4"} /\ l4 # <<>>
  BY DEF Entries, AllRoutes, Families, Destinations, Range
<1>3. /\ t6 \in Seq(Entries)
      /\ Range(t6) = IF "v6" \in c.captured THEN {<<"tunnel", "v6">>} ELSE {}
  BY DEF Entries, AllRoutes, Families, Range
<1>4. /\ b \in Seq(Entries)
      /\ Range(b) = IF c.killSwitch THEN {<<"blackhole", "v4">>, <<"blackhole", "v6">>} ELSE {}
  <2> DEFINE b46 == <<<<"blackhole", "v4">>, <<"blackhole", "v6">>>>
  <2>1. b46 \in Seq(Entries)
    BY DEF Entries, AllRoutes, Families
  <2>2. Range(b46) = {<<"blackhole", "v4">>, <<"blackhole", "v6">>}
    BY DEF Range
  <2>3. <<>> \in Seq(Entries) /\ Range(<<>>) = {}
    BY DEF Range
  <2>4. QED
    BY <1>1, <2>1, <2>2, <2>3
<1>5. /\ l6 \in Seq(Entries) /\ Range(l6) = IF "v6" \in c.captured THEN {"v6"} ELSE {}
  BY DEF Entries, Families, Destinations, Range
<1>6. PlannedRoutes(c) = (t4 \o t6) \o b /\ PlannedRules(c) = l4 \o l6
  BY DEF PlannedRoutes, PlannedRules
<1> HIDE DEF t4, t6, b, l4, l6
<1>7. t4 \o t6 \in Seq(Entries) /\ Range(t4 \o t6) = Range(t4) \cup Range(t6)
  BY <1>2, <1>3, ConcatProperties, RangeConcatenation
<1>8. /\ (t4 \o t6) \o b \in Seq(Entries)
      /\ Range((t4 \o t6) \o b) = Range(t4) \cup Range(t6) \cup Range(b)
  <2>1. (t4 \o t6) \o b \in Seq(Entries)
    BY <1>4, <1>7, ConcatProperties
  <2>2. \A s \in Seq(Entries) : Range(s \o b) = Range(s) \cup Range(b)
    BY <1>4, RangeConcatenation
  <2>3. QED
    BY <1>7, <2>1, <2>2
<1>9. l4 \o l6 \in Seq(Entries) /\ Range(l4 \o l6) = Range(l4) \cup Range(l6)
  BY <1>2, <1>5, ConcatProperties, RangeConcatenation
<1>10. (t4 \o t6) \o b # <<>> /\ l4 \o l6 # <<>>
  BY <1>2, <1>3, <1>4, <1>5, <1>7, ConcatEqualIffEmpty
<1>11. Range(PlannedRoutes(c)) = RoutesOf(c)
  BY <1>1, <1>2, <1>3, <1>4, <1>6, <1>8 DEF RoutesOf, Families
<1>12. Range(PlannedRules(c)) = RulesOf(c)
  BY <1>1, <1>2, <1>5, <1>6, <1>9 DEF RulesOf
<1>13. QED
  BY <1>6, <1>8, <1>9, <1>10, <1>11, <1>12

\* The plan of a configuration is made of routes and destinations, and has a
\* blackhole for every family it steers under the kill-switch.
LEMMA PlanFacts ==
  ASSUME NEW c \in Configs
  PROVE  /\ RoutesOf(c) \subseteq AllRoutes /\ RulesOf(c) \subseteq Destinations
         /\ RulesOf(c) \cap Families = c.captured
         /\ c.killSwitch => \A f \in Families : <<"blackhole", f>> \in RoutesOf(c)
<1>1. c.captured \subseteq Families /\ c.killSwitch \in BOOLEAN
  BY DEF Configs, Families
<1>2. QED
  BY <1>1 DEF RoutesOf, RulesOf, AllRoutes, Destinations, Families

-----------------------------------------------------------------------------
(* The steps of a call.                                                    *)

\* A call begins where the last one has ended.
LEMMA CallsKeep == ASSUME IInv, CallUp \/ CallDown PROVE IInv'
<1> USE DEF IInv, CallUp, CallDown, Undo, memory, policy, files
<1>1. TypeOK'
  <2>1. Routing \in {"none", "tunnel", "stale", "mixed"}
    BY DEF Routing, Alive
  <2>2. QED
    BY <2>1 DEF TypeOK, Steps
<1>2. Goals' /\ Guarded' /\ Undone' /\ BringingUp' /\ Settled'
  BY DEF Goals, Guarded, Undone, BringingUp, Settled, Resolver
<1>3. Remembered' /\ ResolverKept'
  BY DEF Remembered, ResolverKept, Resolver, Goals
<1>4. QED
  BY <1>1, <1>2, <1>3

\* The policy goes before anything else, the rules first.
LEMMA UndoPolicyKeeps == ASSUME IInv, UndoRules \/ FlushTable PROVE IInv'
<1> USE DEF IInv, UndoRules, FlushTable, memory, files, history
<1>1. TypeOK'
  BY ZenonT(40) DEF TypeOK, Steps
<1>2. Goals' /\ Guarded' /\ Undone'
  BY DEF Goals, Guarded, Undone, Families, Resolver
<1>3. BringingUp' /\ Settled'
  BY DEF BringingUp, Settled, Resolver
<1>4. Remembered' /\ ResolverKept'
  BY DEF Remembered, ResolverKept, Resolver
<1>5. QED
  BY <1>1, <1>2, <1>3, <1>4

\* The resolver is given back from the backup that is there when it is needed.
LEMMA ResolverKeeps ==
  ASSUME IInv, KeepResolver \/ RestoreBegin \/ RestoreEnd \/ RestoreFails
  PROVE  IInv'
<1> USE DEF IInv, KeepResolver, RestoreBegin, RestoreEnd, RestoreFails, memory, policy, files, history
<1>1. ASSUME pc = "restore" PROVE damaged \/ backup = "original"
  BY <1>1 DEF ResolverKept
<1>2. TypeOK'
  <2>1. CASE RestoreEnd
    BY <2>1, ZenonT(40) DEF TypeOK, Steps, Contents, Remembered
  <2>2. CASE KeepResolver
    BY <2>2 DEF TypeOK, Steps
  <2>3. CASE RestoreBegin
    BY <2>3, ZenonT(40) DEF TypeOK, Steps, Contents
  <2>4. CASE RestoreFails
    BY <2>4 DEF TypeOK, Steps
  <2>5. QED
    BY <2>1, <2>2, <2>3, <2>4
<1>3. Goals' /\ Guarded' /\ Undone' /\ BringingUp' /\ Settled'
  BY DEF Goals, Guarded, Undone, BringingUp, Settled, Resolver
<1>4. Remembered' /\ ResolverKept'
  BY DEF Remembered, ResolverKept, Resolver, OwnsResolver
<1>5. QED
  BY <1>2, <1>3, <1>4

\* The device is the last to go.
LEMMA RemoveDeviceKeeps == ASSUME IInv, RemoveDevice PROVE IInv'
<1> USE DEF IInv, RemoveDevice, memory, policy, files, history
<1>1. TypeOK'
  BY DEF TypeOK, Steps
<1>2. Goals' /\ Guarded' /\ Undone' /\ BringingUp'
  BY DEF Goals, Guarded, Undone, BringingUp, Resolver, TypeOK
<1>3. Settled'
  BY DEF Settled, Undone, Clean, Resolver
<1>4. Remembered' /\ ResolverKept'
  BY DEF Remembered, ResolverKept, Resolver
<1>5. QED
  BY <1>1, <1>2, <1>3, <1>4

\* The plan is made from the request, and a device that is not there leaves
\* nothing else.
LEMMA OpenKeeps == ASSUME IInv, Open \/ OpenFails PROVE IInv'
<1> USE DEF IInv, Open, OpenFails, Undo, memory, files, history
<1>1. request \in Configs
  BY DEF TypeOK
<1>2. TypeOK'
  BY <1>1, Plans DEF TypeOK, Steps, Entries
<1>3. Goals' /\ Guarded' /\ Undone' /\ Settled'
  BY DEF Goals, Guarded, Undone, BringingUp, Settled, Resolver
<1>4. BringingUp'
  BY <1>1, Plans DEF BringingUp, Resolver
<1>5. Remembered' /\ ResolverKept'
  BY DEF Remembered, ResolverKept, Resolver
<1>6. QED
  BY <1>2, <1>3, <1>4, <1>5

\* Routes are added while there is no rule.
LEMMA AddRouteKeeps == ASSUME IInv, AddRoute PROVE IInv'
<1> USE DEF IInv, AddRoute, memory, files, history
<1>1. request \in Configs /\ todo \in Seq(Entries) /\ todo # <<>>
  BY DEF TypeOK, Entries, BringingUp
<1>2. /\ routes' \cup Range(Tail(todo)) = RoutesOf(request)
      /\ Tail(todo) \in Seq(Entries) /\ routes' \subseteq RoutesOf(request)
  BY <1>1, TakeHead DEF BringingUp
<1>3. Tail(todo) = <<>> => routes' = RoutesOf(request)
  <2>1. Range(<<>>) = {}
    BY DEF Range
  <2>2. QED
    BY <1>2, <2>1
<1>4. TypeOK'
  BY <1>1, <1>2, Plans, PlanFacts DEF TypeOK, Steps, Entries
<1>5. Goals' /\ Guarded' /\ Undone' /\ Settled'
  BY DEF Goals, Guarded, Undone, BringingUp, Settled, Resolver
<1>6. BringingUp'
  BY <1>1, <1>2, <1>3, Plans DEF BringingUp, Resolver
<1>7. Remembered' /\ ResolverKept'
  BY DEF Remembered, ResolverKept, Resolver
<1>8. QED
  BY <1>4, <1>5, <1>6, <1>7

\* A rule is added when every route is in place.
LEMMA AddRuleKeeps == ASSUME IInv, AddRule PROVE IInv'
<1> USE DEF IInv, AddRule, files, history
<1>1. request \in Configs /\ todo \in Seq(Entries) /\ todo # <<>>
  BY DEF TypeOK, Entries, BringingUp
<1>2. /\ rules' \cup Range(Tail(todo)) = RulesOf(request)
      /\ Tail(todo) \in Seq(Entries) /\ rules' \subseteq RulesOf(request)
  BY <1>1, TakeHead DEF BringingUp
<1>3. Tail(todo) = <<>> => rules' = RulesOf(request)
  <2>1. Range(<<>>) = {}
    BY DEF Range
  <2>2. QED
    BY <1>2, <2>1
<1>4. TypeOK'
  BY <1>1, <1>2, PlanFacts DEF TypeOK, Steps, Entries
<1>5. Goals' /\ Undone' /\ BringingUp'
  BY <1>2 DEF Goals, Undone, BringingUp, Resolver
<1>6. Guarded'
  BY <1>1, PlanFacts DEF Guarded, BringingUp
<1>7. Settled'
  BY <1>3 DEF Settled, BringingUp, Resolver
<1>8. Remembered' /\ ResolverKept'
  BY DEF Remembered, ResolverKept, Resolver
<1>9. QED
  BY <1>4, <1>5, <1>6, <1>7, <1>8

\* What fails is undone from the beginning.
LEMMA AddFailsKeeps == ASSUME IInv, AddFails PROVE IInv'
<1> USE DEF IInv, AddFails, Undo, memory, policy, files, history
<1>1. TypeOK' /\ Goals' /\ Guarded' /\ Undone'
  BY DEF TypeOK, Steps, Goals, Guarded, Undone, Resolver
<1>2. BringingUp' /\ Settled' /\ Remembered' /\ ResolverKept'
  BY DEF BringingUp, Settled, Remembered, ResolverKept, Resolver
<1>3. QED
  BY <1>1, <1>2

\* Writing resolv.conf ends the call, whether it succeeds or not, with the
\* user's own file in place or in the backup.
LEMMA WriteResolverKeeps ==
  ASSUME IInv,
         \/ Resolvectl \/ LeaveResolver \/ BackupBegin \/ BackupEnd \/ BackupFails
         \/ OverwriteBegin \/ OverwriteRefused \/ OverwriteEnd \/ OverwriteFails
  PROVE  IInv'
<1> USE DEF IInv, Finish, memory, policy, files, history
<1>1. ASSUME NEW mode \in {"", "resolvectl", "resolv.conf"},
             pc \in Resolver, Finish(mode),
             UNCHANGED damaged \/ damaged' = TRUE,
             backup' = backup, resolvConf' \in {resolvConf, "tunnel"},
             mode = "resolv.conf" => pc = "fill",
             mode # "resolv.conf" /\ ~damaged' => pc \in {"dns", "overwrite"} /\ resolvConf' = resolvConf
      PROVE  IInv'
  <2>1. TypeOK'
    <3>1. request.captured \subseteq Families
      BY DEF TypeOK, Configs, Families
    <3>2. QED
      BY <1>1, <3>1, ZenonT(40) DEF TypeOK, Steps, Contents
  <2>2. Goals' /\ Guarded' /\ Undone'
    BY <1>1 DEF Goals, Guarded, Undone, Resolver
  <2>3. BringingUp' /\ Settled'
    BY <1>1 DEF BringingUp, Settled, Resolver
  <2>4. Remembered'
    BY <1>1 DEF Remembered, BringingUp, Resolver
  <2>5. ResolverKept'
    <3> SUFFICES ASSUME ~damaged' PROVE ResolverKept'
      BY DEF ResolverKept
    <3>1. ~damaged
      BY <1>1 DEF TypeOK
    <3>2. CASE mode = "resolv.conf"
      BY <1>1, <3>1, <3>2 DEF ResolverKept, Resolver
    <3>3. CASE mode # "resolv.conf"
      BY <1>1, <3>1, <3>3 DEF ResolverKept, Resolver
    <3>4. QED
      BY <3>2, <3>3
  <2>6. QED
    BY <2>1, <2>2, <2>3, <2>4, <2>5
<1>2. CASE BackupBegin \/ BackupEnd \/ OverwriteBegin
  <2> USE <1>2 DEF BackupBegin, BackupEnd, OverwriteBegin
  <2>1. backup' \in Contents /\ resolvConf' \in Contents \ {"none"}
    BY DEF TypeOK, Contents
  <2>2. TypeOK' /\ Goals' /\ Guarded' /\ Undone'
    BY <2>1, ZenonT(40) DEF TypeOK, Steps, Goals, Guarded, Undone, Resolver
  <2>3. BringingUp' /\ Settled'
    BY DEF BringingUp, Settled, Resolver
  <2>4. Remembered' /\ ResolverKept'
    BY DEF Remembered, ResolverKept, Resolver, TypeOK, Contents
  <2>5. QED
    BY <2>2, <2>3, <2>4
<1>3. QED
  BY <1>1, <1>2 DEF Resolvectl, LeaveResolver, BackupFails, OverwriteRefused,
                    OverwriteEnd, OverwriteFails, Resolver

-----------------------------------------------------------------------------
(* The process.                                                            *)

\* The bound leaves room for a death that it allows.
LEMMA CountDeath ==
  ASSUME NEW n \in 0..Crashes, n < Crashes
  PROVE  n + 1 \in 0..Crashes
  BY TunLinuxAssumption

\* A death leaves the rules and the blackholes, so what was guarded still is.
LEMMA CrashKeeps == ASSUME IInv, Crash PROVE IInv'
<1> USE DEF IInv, Crash, files
<1>1. TypeOK'
  <2>1. crashes \in 0..Crashes /\ crashes < Crashes /\ crashes' = crashes + 1
    BY DEF TypeOK
  <2>2. crashes' \in 0..Crashes
    BY <2>1, CountDeath
  <2>3. damaged' \in BOOLEAN
    <3>1. damaged' = (damaged \/ pc = "backup")
      OBVIOUS
    <3>2. QED
      BY ONLY <3>1
  <2>4. todo' \in Seq(AllRoutes \cup Destinations)
    BY EmptySeq
  <2>5. QED
    BY <2>2, <2>3, <2>4 DEF TypeOK, Steps
<1>2. Goals' /\ Guarded' /\ Undone' /\ BringingUp' /\ Settled'
  BY DEF Goals, Guarded, Undone, BringingUp, Settled, Resolver
<1>3. Remembered'
  BY DEF Remembered, Resolver
<1>4. ResolverKept'
  BY DEF ResolverKept, Remembered, Resolver, TypeOK, Steps, Contents
<1>5. QED
  BY <1>1, <1>2, <1>3, <1>4

\* A helper that starts goes through the steps of Down.
LEMMA RestartKeeps == ASSUME IInv, Restart PROVE IInv'
<1> USE DEF IInv, Restart, Undo, memory, policy, files, history
<1>1. TypeOK' /\ Goals' /\ Guarded' /\ Undone'
  BY DEF TypeOK, Steps, Goals, Guarded, Undone, Resolver
<1>2. BringingUp' /\ Settled' /\ Remembered' /\ ResolverKept'
  BY DEF BringingUp, Settled, Remembered, ResolverKept, Resolver
<1>3. QED
  BY <1>1, <1>2

-----------------------------------------------------------------------------
(* What every reachable state satisfies.                                   *)

LEMMA NextKeeps == ASSUME IInv, [Next]_vars PROVE IInv'
<1>1. CASE TearDown
  BY <1>1, UndoPolicyKeeps, ResolverKeeps, RemoveDeviceKeeps DEF TearDown
<1>2. CASE BringUp
  BY <1>2, OpenKeeps, AddRouteKeeps, AddRuleKeeps, AddFailsKeeps, WriteResolverKeeps DEF BringUp
<1>3. CASE UNCHANGED vars
  <2> USE <1>3 DEF vars
  <2>1. TypeOK' /\ Goals' /\ Guarded' /\ Undone'
    BY ZenonT(40) DEF IInv, TypeOK, Goals, Guarded, Undone
  <2>2. BringingUp' /\ Settled' /\ Remembered' /\ ResolverKept'
    BY DEF IInv, BringingUp, Settled, Clean, Remembered, ResolverKept
  <2>3. QED
    BY <2>1, <2>2 DEF IInv
<1>4. QED
  BY <1>1, <1>2, <1>3, CallsKeep, CrashKeeps, RestartKeeps DEF Next

\* The invariant the theorems below rest on.
THEOREM InductiveInvariant == Spec => []IInv
<1>1. Init => IInv
  <2> SUFFICES ASSUME Init PROVE IInv
    OBVIOUS
  <2>1. TypeOK
    <3>1. 0 \in 0..Crashes
      BY TunLinuxAssumption
    <3>2. request \in Configs
      BY DEF Init, Configs, Families
    <3>3. QED
      BY <3>1, <3>2, EmptySeq DEF Init, TypeOK, Steps, Contents
  <2>2. Goals /\ Guarded /\ Undone /\ BringingUp /\ Settled
    BY DEF Init, Goals, Guarded, Undone, BringingUp, Settled, Clean, Resolver
  <2>3. Remembered /\ ResolverKept
    BY DEF Init, Remembered, ResolverKept, Resolver
  <2>4. QED
    BY <2>1, <2>2, <2>3 DEF IInv
<1>2. IInv /\ [Next]_vars => IInv'
  BY NextKeeps
<1>3. QED
  BY <1>1, <1>2, PTL DEF Spec

\* The variables keep their types.
THEOREM TypeCorrect == Spec => []TypeOK
  BY InductiveInvariant, PTL DEF IInv

\* Under the kill-switch no steered family is ever left without a tunnel or a
\* blackhole, wherever Up or Down fails or the helper dies.
THEOREM NoLeak == Spec => []NoLeakOnDeath
<1>1. IInv => NoLeakOnDeath
  <2> SUFFICES ASSUME IInv, NEW f \in rules \cap Families, config.killSwitch
               PROVE  Path(f) # "direct"
    BY DEF NoLeakOnDeath
  <2>1. <<"blackhole", f>> \in routes
    BY DEF IInv, Guarded
  <2>2. Steered(f) /\ Family(f) = f
    BY DEF Steered, Family, Families
  <2>3. QED
    BY <2>1, <2>2 DEF Path
<1>2. QED
  BY <1>1, InductiveInvariant, PTL

\* No tunnel, no call: resolv.conf is the user's own, unless a file was cut
\* short.
THEOREM ResolverGivenBack == Spec => []ResolverRestored
<1>1. IInv => ResolverRestored
  BY DEF IInv, ResolverRestored, ResolverKept, Remembered, Goals
<1>2. QED
  BY <1>1, InductiveInvariant, PTL

-----------------------------------------------------------------------------
(* The refinement.                                                         *)

\* Between calls there is the whole tunnel or no policy at all.
LEMMA SettledRouting ==
  IInv /\ pc = "idle" => Alive /\ Routing = IF up THEN "tunnel" ELSE "none"
<1> SUFFICES ASSUME IInv, pc = "idle"
             PROVE  Alive /\ Routing = IF up THEN "tunnel" ELSE "none"
  OBVIOUS
<1> USE DEF IInv
<1>1. Alive
  BY DEF Alive, Goals
<1>2. CASE up
  <2>1. link /\ routes = RoutesOf(config) /\ rules = RulesOf(config)
    BY <1>2 DEF Settled
  <2>2. config.captured = {"v4"} \/ config.captured = Families
    BY DEF TypeOK, Configs
  <2>3. \A f \in Families : <<"tunnel", f>> \in routes <=> f \in config.captured
    BY <2>1 DEF RoutesOf
  <2>4. ASSUME NEW d \in Destinations
        PROVE  Path(d) = IF d \in config.captured THEN "tunnel" ELSE "direct"
    <3>1. CASE d = "lan"
      <4>1. ~Steered(d) /\ d \notin config.captured
        BY <2>1, <2>2, <3>1 DEF Steered, RulesOf, Families
      <4>2. QED
        BY <4>1 DEF Path
    <3>2. CASE d \in Families
      <4>1. Steered(d) <=> d \in config.captured
        BY <2>1, <3>2 DEF Steered, RulesOf, Families
      <4>2. Family(d) = d
        BY <3>2 DEF Family, Families
      <4>3. QED
        BY <2>3, <3>2, <4>1, <4>2 DEF Path
    <3>3. QED
      BY <3>1, <3>2 DEF Destinations
  <2>5. Captured
    BY <2>1, <2>4 DEF Captured
  <2>6. QED
    BY <1>1, <1>2, <2>5 DEF Routing
<1>3. CASE ~up
  BY <1>1, <1>3 DEF Settled, Routing
<1>4. QED
  BY <1>1, <1>2, <1>3

\* A step of a call is a stutter of the service until the call ends, and so is
\* every step of CleanupStale until the helper listens.
LEMMA StepRefines ==
  ASSUME IInv, [Next]_vars,
         (IInv /\ pc = "idle" => Alive /\ Routing = IF up THEN "tunnel" ELSE "none")'
  PROVE  Service!Next \/ UNCHANGED <<Alive, Routing>>
<1> USE DEF memory, policy, files, history
<1>1. IInv'
  BY NextKeeps
<1>2. CASE ~Alive /\ ~Alive'
  BY <1>2 DEF Routing, Alive
<1>3. CASE Alive /\ Alive' /\ pc # "idle" /\ pc' # "idle" /\ before' = before
  BY <1>3 DEF Routing
<1>4. CASE UNCHANGED vars
  BY <1>4 DEF vars, Alive, Routing, Captured, Clean, Path, Steered
<1>5. CASE CallUp \/ CallDown
  <2>1. Alive /\ Alive' /\ pc' # "idle" /\ before' = Routing
    BY <1>5 DEF CallUp, CallDown, Undo, Alive, IInv, Goals
  <2>2. QED
    BY <2>1 DEF Routing
<1>6. CASE Alive /\ pc' = "idle" /\ ~up'
  <2>1. Service!Perform("tun_down", TRUE)
    BY <1>1, <1>6 DEF Service!Perform, Service!Outcome
  <2>2. QED
    BY <2>1 DEF Service!Next, Service!Methods
<1>7. CASE Alive /\ pc' = "idle" /\ up'
  <2>1. Service!Perform("tun_up", TRUE)
    BY <1>1, <1>7 DEF Service!Perform, Service!Outcome
  <2>2. QED
    BY <2>1 DEF Service!Next, Service!Methods
<1>8. CASE ~Alive /\ pc' = "idle" /\ ~up'
  BY <1>1, <1>8 DEF Service!Next, Service!Restart
<1>9. CASE Alive /\ pc' = "dead"
  BY <1>9 DEF Service!Next, Service!Crash, Alive, Routing
<1>10. QED
  <2>1. CASE UndoRules \/ FlushTable \/ KeepResolver \/ RestoreBegin \/ RestoreEnd \/ RestoreFails
    BY <1>2, <1>3, <2>1 DEF UndoRules, FlushTable, KeepResolver, RestoreBegin,
                            RestoreEnd, RestoreFails, Alive
  <2>2. CASE RemoveDevice
    BY <1>3, <1>6, <1>8, <2>2 DEF RemoveDevice, Alive
  <2>3. CASE Open \/ OpenFails \/ AddRoute \/ AddRule \/ AddFails
             \/ BackupBegin \/ BackupEnd \/ OverwriteBegin
    BY <1>3, <2>3 DEF Open, OpenFails, AddRoute, AddRule, AddFails, BackupBegin,
                      BackupEnd, OverwriteBegin, Undo, Alive, IInv, Goals, Resolver
  <2>4. CASE \/ Resolvectl \/ LeaveResolver \/ BackupFails
             \/ OverwriteRefused \/ OverwriteEnd \/ OverwriteFails
    BY <1>7, <2>4 DEF Resolvectl, LeaveResolver, BackupFails, OverwriteRefused,
                      OverwriteEnd, OverwriteFails, Finish, Alive, IInv, Goals,
                      BringingUp, Resolver
  <2>5. CASE Crash
    BY <1>2, <1>9, <2>5 DEF Crash, Alive
  <2>6. CASE Restart
    BY <1>2, <2>6 DEF Restart, Undo, Alive
  <2>7. QED
    BY <1>4, <1>5, <2>1, <2>2, <2>3, <2>4, <2>5, <2>6 DEF Next, TearDown, BringUp

\* The kernel follows the abstract service in every behaviour: what a helper
\* that listens shows between two requests is the whole tunnel that was asked
\* for or no policy at all.
THEOREM Refines == Spec => Service!Spec
<1>1. Init => Service!Init
  BY DEF Init, Clean, Service!Init, Alive, Routing
<1>2. ASSUME IInv, [Next]_vars,
             (IInv /\ pc = "idle" => Alive /\ Routing = IF up THEN "tunnel" ELSE "none")'
      PROVE  [Service!Next]_<<Alive, Routing>>
  BY <1>2, StepRefines
<1>3. QED
  BY <1>1, <1>2, SettledRouting, InductiveInvariant, PTL DEF Spec, Service!Spec
=============================================================================
