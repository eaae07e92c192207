------------------------------- MODULE Traffic -------------------------------
(***************************************************************************)
(* The traffic of a day: the core counts what it carries from zero at every  *)
(* start, a goroutine per connection folds what is new into the settings     *)
(* file every minute, and Disconnect folds the rest.  A goroutine that is    *)
(* cancelled is not waited for.                                             *)
(*                                                                         *)
(* One direction stands for both, one accumulator for that of the day and    *)
(* that of the month.  The totals and rates the window shows are left out,   *)
(* and so is Shutdown, which does not take the lock of Connect.  What other *)
(* writers of the file do to it is in Settings.                             *)
(***************************************************************************)
EXTENDS Integers, FiniteSetsExt

CONSTANTS Meters, \* slots for the goroutines startTrafficMeter spawns
          Bytes,  \* bound: what is carried
          Days    \* bound: how many days pass

Caller   == "caller" \* whoever holds connectMu
None     == "none"
Flushers == Meters \cup {Caller}

ASSUME TrafficAssumption ==
  /\ IsFiniteSet(Meters)
  /\ Caller \notin Meters /\ None \notin Flushers
  /\ Bytes \in Nat /\ Days \in Nat \ {0}

VARIABLES
  core, counter,    \* does the core run, and what it has counted
  call,             \* where Connect or Disconnect is
  trafficStop,      \* the goroutine that Disconnect will cancel
  meter,            \* the goroutines: free, running or cancelled
  usageBase,        \* the counter when it was last folded
  flush,            \* the flushUsage each goroutine is in
  usage,            \* State.Usage
  today,
  carried,          \* history: everything the cores have carried
  past,             \* history: the usage of the days before
  lost,             \* history: what may go uncounted: a replaced core's tail, a failed save
  since,            \* history: carried since the Disconnect began
  fresh,            \* history: usageBase is of the core that runs
  behind            \* history: a flush has worked with an outdated reading

engine   == <<core, counter>>
meters   == <<trafficStop, meter>>
history  == <<past, lost, since>>
vars == <<engine, call, meters, usageBase, flush, usage, today, carried, history, fresh, behind>>

Usage  == [day : 1..Days, bytes : Nat]
\* "sound" is history: nothing has changed under the reading.
Flush  == [step : {"none", "lock", "load", "save"}, reading : Nat, delta : Nat,
           doc : Usage, sound : BOOLEAN]
NoFlush == [step |-> "none", reading |-> 0, delta |-> 0,
            doc |-> [day |-> 1, bytes |-> 0], sound |-> TRUE]

TypeOK ==
  /\ core \in BOOLEAN /\ counter \in 0..Bytes /\ (~core => counter = 0)
  /\ call \in {"idle", "start", "meter", "stop", "flush", "core"}
  /\ trafficStop \in Meters \cup {None}
  /\ meter \in [Meters -> {"free", "running", "cancelled"}]
  /\ \A m \in Meters : meter[m] = "running" <=> trafficStop = m
  /\ core /\ call \in {"idle", "start", "stop"} => trafficStop # None
  /\ usageBase \in 0..Bytes
  /\ flush \in [Flushers -> Flush]
  /\ usage \in Usage /\ today \in 1..Days
  /\ {carried, past, since} \subseteq Nat
  /\ lost \in Int  \* below zero once a late flush has counted something twice
  /\ {fresh, behind} \subseteq BOOLEAN

Init ==
  /\ core = FALSE /\ counter = 0 /\ call = "idle"
  /\ trafficStop = None /\ meter = [m \in Meters |-> "free"]
  /\ usageBase = 0 /\ flush = [f \in Flushers |-> NoFlush]
  /\ usage = [day |-> 1, bytes |-> 0] /\ today = 1
  /\ carried = 0 /\ past = 0 /\ lost = 0 /\ since = 0
  /\ fresh = TRUE /\ behind = FALSE

-----------------------------------------------------------------------------
\* Traffic(): the counters of the core that runs, or nothing without one.
TrafficNow == IF core THEN counter ELSE 0

\* What the core that runs has carried since it was last looked at.
Unflushed == IF fresh THEN counter - usageBase ELSE counter
\* What has been taken out of the counter and is not yet in the file.
InFlight(f) == IF flush[f].step \in {"load", "save"} THEN flush[f].delta ELSE 0
AllInFlight == SumFunction([f \in Flushers |-> InFlight(f)])

\* Whoever has read the counter and not yet taken the lock is late.
Unsound(fl) ==
  [f \in Flushers |-> IF fl[f].step = "lock" THEN [fl[f] EXCEPT !.sound = FALSE] ELSE fl[f]]

\* The core carries something.
Carry ==
  /\ core /\ carried < Bytes
  /\ counter' = counter + 1 /\ carried' = carried + 1
  /\ since' = since + 1
  /\ UNCHANGED <<core, call, meters, usageBase, flush, usage, today, past, lost, fresh, behind>>

NewDay ==
  /\ today < Days /\ today' = today + 1
  /\ UNCHANGED <<engine, call, meters, usageBase, flush, usage, carried, history, fresh, behind>>

-----------------------------------------------------------------------------
(* flushUsage, by a goroutine at a tick or by Disconnect.                   *)

At(f, step) == flush[f].step = step

\* Traffic() is read before the lock is taken.  A goroutine that is cancelled
\* may still take a tick.  The minute between two flushes is left out: a flush
\* may follow any other.
Read(f) ==
  /\ At(f, "none")
  /\ IF f = Caller THEN call = "flush" ELSE meter[f] # "free"
  /\ flush' = [flush EXCEPT ![f] = [NoFlush EXCEPT !.step = "lock", !.reading = TrafficNow]]
  /\ UNCHANGED <<engine, call, meters, usageBase, usage, today, carried, history, fresh, behind>>

\* Mutant: a core that has started again is not told from one that goes on.
DeltaSigned(reading) == reading - usageBase

\* A regression means that everything is new.
Delta(reading) == IF reading < usageBase THEN reading ELSE reading - usageBase

\* Whoever flushes goes on when it is done.
Done(f) ==
  /\ flush' = [flush EXCEPT ![f] = NoFlush]
  /\ call' = IF f = Caller THEN "core" ELSE call

Lock(f) ==
  /\ At(f, "lock")
  /\ LET reading == flush[f].reading
         others  == [Unsound(flush) EXCEPT
                       ![f] = [flush[f] EXCEPT !.step = "load", !.delta = Delta(reading)]]
     IN  /\ usageBase' = reading
         /\ IF Delta(reading) = 0
            THEN /\ flush' = [others EXCEPT ![f] = NoFlush]
                 /\ call' = IF f = Caller THEN "core" ELSE call
            ELSE flush' = others /\ UNCHANGED call
         /\ behind' = (\/ behind \/ ~flush[f].sound
                       \/ ~fresh /\ usageBase \in 1..reading)
  /\ fresh' = TRUE
  /\ UNCHANGED <<engine, meters, usage, today, carried, history>>

\* AddUsage, on the file as Update has loaded it.
AddUsage(current, day, delta) ==
  [day |-> day, bytes |-> delta + IF current.day = day THEN current.bytes ELSE 0]

Load(f) ==
  /\ At(f, "load")
  /\ flush' = [flush EXCEPT ![f].step = "save", ![f].doc = AddUsage(usage, today, flush[f].delta)]
  /\ behind' = (behind \/ \E g \in Flushers : At(g, "save"))
  /\ UNCHANGED <<engine, call, meters, usageBase, usage, today, carried, history, fresh>>

Save(f) ==
  /\ At(f, "save")
  /\ usage' = flush[f].doc
  /\ past' = past + IF usage'.day # usage.day THEN usage.bytes ELSE 0
  /\ Done(f)
  /\ UNCHANGED <<engine, meters, usageBase, today, carried, lost, since, fresh, behind>>

\* The file cannot be read or written: logged, and not tried again.
SaveFails(f) ==
  /\ flush[f].step \in {"load", "save"}
  /\ lost' = lost + flush[f].delta
  /\ Done(f)
  /\ UNCHANGED <<engine, meters, usageBase, usage, today, carried, past, since, fresh, behind>>

MeterEnds(m) ==
  /\ meter[m] = "cancelled" /\ At(m, "none")
  /\ meter' = [meter EXCEPT ![m] = "free"]
  /\ UNCHANGED <<engine, call, trafficStop, usageBase, flush, usage, today, carried, history,
                 fresh, behind>>

-----------------------------------------------------------------------------
(* Connect and Disconnect, under connectMu.                                *)

CallConnect ==
  /\ call = "idle" /\ call' = "start"
  /\ UNCHANGED <<engine, meters, usageBase, flush, usage, today, carried, history, fresh, behind>>

\* Engine.Start stops the old core first, and both under the lock that Traffic
\* waits for.  A configuration that is refused leaves the old core alone.
Start ==
  /\ call = "start"
  /\ core' \in BOOLEAN /\ counter' = 0
  /\ lost' = lost + Unflushed
  /\ flush' = Unsound(flush) /\ fresh' = FALSE
  /\ call' = IF core' THEN "meter" ELSE "idle"
  /\ UNCHANGED <<meters, usageBase, usage, today, carried, past, since, behind>>

StartRejected ==
  /\ call = "start" /\ call' = "idle"
  /\ UNCHANGED <<engine, meters, usageBase, flush, usage, today, carried, history, fresh, behind>>

\* Replaces the goroutine and starts to count from here.
Replaced(m) ==
  [n \in Meters |-> IF n = m THEN "running"
                    ELSE IF n = trafficStop THEN "cancelled" ELSE meter[n]]

\* Mutant: the base of the old connection stays.
StartMeterOldBase(m) ==
  /\ call = "meter" /\ meter[m] = "free"
  /\ trafficStop' = m /\ meter' = Replaced(m)
  /\ flush' = Unsound(flush)
  /\ call' = "idle" /\ fresh' = TRUE
  /\ UNCHANGED <<engine, usageBase, usage, today, carried, history, behind>>

StartMeter(m) ==
  /\ call = "meter" /\ meter[m] = "free"
  /\ trafficStop' = m /\ meter' = Replaced(m)
  /\ usageBase' = TrafficNow /\ lost' = lost + Unflushed
  /\ flush' = Unsound(flush)
  /\ call' = "idle" /\ fresh' = TRUE
  /\ UNCHANGED <<engine, usage, today, carried, past, since, behind>>

CallDisconnect ==
  /\ call = "idle" /\ call' = "stop"
  /\ since' = 0
  /\ UNCHANGED <<engine, meters, usageBase, flush, usage, today, carried, past, lost, fresh, behind>>

StopMeter ==
  /\ call = "stop"
  /\ trafficStop' = None
  /\ meter' = [m \in Meters |-> IF m = trafficStop THEN "cancelled" ELSE meter[m]]
  /\ call' = IF trafficStop = None THEN "core" ELSE "flush"
  /\ UNCHANGED <<engine, usageBase, flush, usage, today, carried, history, fresh, behind>>

\* What passes while Disconnect is on its way may be lost, and nothing else.
StopCore ==
  /\ call = "core" /\ call' = "idle"
  /\ core' = FALSE /\ counter' = 0
  /\ lost' = lost + Min({Unflushed, since})
  /\ flush' = Unsound(flush) /\ fresh' = FALSE
  /\ UNCHANGED <<meters, usageBase, usage, today, carried, past, since, behind>>

\* The client dies.
Crash ==
  /\ core' = FALSE /\ counter' = 0 /\ call' = "idle"
  /\ trafficStop' = None /\ meter' = [m \in Meters |-> "free"]
  /\ usageBase' = 0 /\ flush' = [f \in Flushers |-> NoFlush]
  /\ lost' = lost + Unflushed + AllInFlight
  /\ fresh' = TRUE
  /\ UNCHANGED <<usage, today, carried, past, since, behind>>

Next ==
  \/ Carry \/ NewDay
  \/ \E f \in Flushers : Read(f) \/ Lock(f) \/ Load(f) \/ Save(f) \/ SaveFails(f)
  \/ \E m \in Meters : MeterEnds(m) \/ StartMeter(m)
  \/ CallConnect \/ Start \/ StartRejected
  \/ CallDisconnect \/ StopMeter \/ StopCore
  \/ Crash

Spec == Init /\ [][Next]_vars

-----------------------------------------------------------------------------
\* Every byte is counted once, over restarts of the core, overlapping
\* goroutines and midnight: what was carried is in the file, on its way there,
\* still to be folded, or went with a core that was replaced, a flush that
\* failed, or a client that died.  A Disconnect loses nothing that had passed
\* before it.  This holds as long as every flush takes the lock before the
\* counter it has read, or its base, is replaced.
CountedOnce ==
  ~behind => past + usage.bytes + AllInFlight + Unflushed + lost = carried
=============================================================================
