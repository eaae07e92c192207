------------------------------ MODULE SysProxy ------------------------------
(***************************************************************************)
(* The system proxy: enableSystemProxy, disableSystemProxy and              *)
(* restoreSystemProxy of internal/app over the backends of                  *)
(* internal/sysproxy, which write the desktop's settings key by key.        *)
(*                                                                          *)
(* No lock covers these functions: the window, the tray, the watcher and    *)
(* the automatic connection run them in goroutines of their own.            *)
(***************************************************************************)
EXTENDS Naturals, Sequences, FiniteSets

CONSTANTS Callers,            \* goroutines that use the system proxy
          starter,            \* the goroutine that runs New
          Backends,           \* the controllers Detect may pick
          FaultsPerCall,      \* bound: writes that fail in one call
          UnreadPerCall,      \* bound: keys that cannot be read in one call
          NoSnapshot,         \* a nil snapshot
          Another             \* a snapshot of another desktop's settings

Threads == Callers \cup {starter}

\* What a key may hold: a mode, nothing, another client's value or SA05's.
Values == {"off", "manual", "unset", "foreign", "sa05"}

\* What may go wrong: calls overlap, the process dies while Enable has written
\* and nothing remembers how to undo it, a snapshot replaces another one, a
\* snapshot is not what was there, what Enable has written is not all undone,
\* two writes of a call fail.
Mishaps == {"overlap", "died", "again", "blind", "halfway", "twice"}

ASSUME SysProxyAssumption ==
  /\ starter \notin Callers
  /\ Backends \subseteq {"gnome", "kde", "wininet"}
  /\ FaultsPerCall \in Nat /\ UnreadPerCall \in Nat
  /\ NoSnapshot # Another
  /\ \A none \in {NoSnapshot, Another} :
       /\ none \notin [{"http", "socks", "bypass", "mode"} -> Values \cup {"absent"}]
       /\ none \notin [{"server", "bypass", "auto", "mode"} -> Values \cup {"absent"}]

VARIABLES backend,  \* the controller Detect picks on the desktop looked at
          ownMode,  \* mode of the desktop before SA05: off or manual
          elsewhere,\* the client runs in a session of another desktop
          desktop,  \* the settings of the desktop of backend
          disk,     \* State.SysProxy; State.Toggles.SystemProxy says whether
                    \* there is one
          status,   \* snapshot.Status: DISCONNECTED, CONNECTED or another
          shown,    \* snapshot.SystemProxyOn
          phase,    \* the process: down, starting (in New), up
          pc,       \* per thread: next step of its call
          at,       \* per thread: index of the next key it writes
          snap,     \* per thread: the snapshot it holds
          after,    \* per thread: what follows a restoration
          leaving,  \* per thread: the call is Disconnect
          faults,   \* per thread: writes that failed in this call
          failed,   \* per thread: switching off has an error to return
          mishaps   \* history: what has gone wrong so far

\* The keys in the order Enable writes them.  http and https, which get the
\* same value next to each other, are one key; so are host and port.
Assignments ==
  CASE backend \in {"gnome", "kde"} -> <<"http", "socks", "bypass", "mode">>
    [] backend = "wininet"          -> <<"server", "bypass", "auto", "mode">>

\* Mutant: the mode is restored with the other keys, in their order.
RestorationsInOrder ==
  CASE backend \in {"gnome", "kde"} -> <<"http", "socks", "bypass", "mode">>
    [] backend = "wininet"          -> <<"server", "bypass", "auto", "mode">>

\* The keys in the order Disable writes them: the mode goes first, and the
\* list of all keys, which gnome and kde walk then, begins with it again.
Restorations ==
  CASE backend = "gnome"       -> <<"mode", "mode", "bypass", "http", "socks">>
    [] backend = "kde"         -> <<"mode", "mode", "http", "socks", "bypass">>
    [] backend = "wininet"     -> <<"mode", "server", "bypass", "auto">>

Keys == {Assignments[i] : i \in 1..Len(Assignments)}
Addresses == Keys \cap {"http", "socks", "server"}

\* What SA05 writes.  An auto-configuration would win over it and is deleted.
Applied(key) ==
  CASE key = "mode" -> "manual"
    [] key = "auto" -> "unset"
    [] OTHER        -> "sa05"

\* The configuration of another client, which SA05 has to give back.
Original == [key \in Keys |-> IF key = "mode" THEN ownMode ELSE "foreign"]

Configurations == [Keys -> Values]

\* A key that was not read is absent.
Snapshots == [Keys -> Values \cup {"absent"}]

session == <<backend, ownMode, elsewhere>>
proxyVars == <<backend, ownMode, elsewhere, desktop, disk, status, shown, phase, pc, at, snap, after,
               leaving, faults, failed, mishaps>>
world == <<session, desktop, disk, status, shown, phase>>
locals == <<at, snap, after, leaving, faults, failed>>

Steps == {"idle", "apply", "persist", "show", "restore", "forget", "hide",
          "stop"}

ProxyTypeOK ==
  /\ backend \in Backends /\ ownMode \in {"off", "manual"}
  /\ elsewhere \in BOOLEAN
  /\ desktop \in Configurations
  /\ disk \in Snapshots \cup {NoSnapshot, Another}
  /\ status \in {"DISCONNECTED", "CONNECTED", "ERROR"}
  /\ shown \in BOOLEAN
  /\ phase \in {"down", "starting", "up"}
  /\ pc \in [Threads -> Steps]
  /\ at \in [Threads -> 1..5]
  /\ snap \in [Threads -> Snapshots \cup {NoSnapshot, Another}]
  /\ after \in [Threads -> {"idle", "forget"}]
  /\ leaving \in [Threads -> BOOLEAN]
  /\ faults \in [Threads -> 0..FaultsPerCall]
  /\ failed \in [Threads -> BOOLEAN]
  /\ mishaps \subseteq Mishaps

ProxyInit ==
  /\ backend \in Backends /\ ownMode \in {"off", "manual"} /\ elsewhere = FALSE
  /\ desktop = Original /\ disk = NoSnapshot
  /\ status = "DISCONNECTED" /\ shown = FALSE /\ phase = "up"
  /\ pc = [t \in Threads |-> "idle"]
  /\ at = [t \in Threads |-> 1]
  /\ snap = [t \in Threads |-> NoSnapshot]
  /\ after = [t \in Threads |-> "idle"]
  /\ leaving = [t \in Threads |-> FALSE]
  /\ faults = [t \in Threads |-> 0]
  /\ failed = [t \in Threads |-> FALSE]
  /\ mishaps = {}

Goto(t, step) == pc' = [pc EXCEPT ![t] = step]

\* The call is over: with or without an error, Disconnect goes on.
Finish(t) == Goto(t, IF leaving[t] THEN "stop" ELSE "idle")

\* The desktop looked at has its way back on disk.
Kept == disk \notin {NoSnapshot, Another}

Overlap(t) == IF \E s \in Threads \ {t} : pc[s] # "idle" THEN {"overlap"} ELSE {}

\* One more write of this call fails, with what else goes wrong then.
Fault(t, mishap) ==
  /\ faults[t] < FaultsPerCall
  /\ faults' = [faults EXCEPT ![t] = @ + 1]
  /\ mishaps' = mishaps \cup mishap \cup (IF faults[t] > 0 THEN {"twice"} ELSE {})

\* Disable(snapshot) begins.
StartRestoring(t, snapshot, step) ==
  /\ Goto(t, "restore")
  /\ at' = [at EXCEPT ![t] = 1]
  /\ snap' = [snap EXCEPT ![t] = snapshot]
  /\ after' = [after EXCEPT ![t] = step]
  /\ failed' = [failed EXCEPT ![t] = FALSE]

-----------------------------------------------------------------------------
(* enableSystemProxy.                                                      *)

\* What a key that could not be read is taken for.
Empty(key) == IF key = "mode" THEN "off" ELSE "unset"

\* The snapshots Enable may take of a configuration: gnome returns an error when
\* it cannot read a key; kde and wininet take the key for empty; kde goes on
\* without any key when it has no tool to read with.
Readings(configuration) ==
  {[key \in Keys |-> IF key \in unread THEN Empty(key) ELSE configuration[key]] :
     unread \in {keys \in SUBSET Keys :
                   Cardinality(keys) <= IF backend = "gnome" THEN 0 ELSE UnreadPerCall}}
  \cup (IF backend = "kde" THEN {[key \in Keys |-> "absent"]} ELSE {})

\* Enable of another desktop is over but for Persist.
EnableElsewhere(t) ==
  /\ elsewhere
  /\ snap' = [snap EXCEPT ![t] = Another]
  /\ mishaps' = mishaps \cup Overlap(t)
  /\ Goto(t, "persist")

\* Mutant: the snapshot is taken when the first key has been written.
CallEnableLateSnapshot(t) ==
  /\ phase = "up" /\ pc[t] = "idle"
  /\ status = "CONNECTED"
  /\ \/ /\ ~elsewhere
        /\ snap' = [snap EXCEPT ![t] =
                      [desktop EXCEPT ![Assignments[1]] = Applied(Assignments[1])]]
        /\ mishaps' = mishaps \cup Overlap(t)
        /\ Goto(t, "apply")
     \/ EnableElsewhere(t)
  /\ at' = [at EXCEPT ![t] = 1]
  /\ faults' = [faults EXCEPT ![t] = 0]
  /\ failed' = [failed EXCEPT ![t] = FALSE]
  /\ UNCHANGED <<world, after, leaving>>

\* Enable reads every key before it writes one.
CallEnable(t) ==
  /\ phase = "up" /\ pc[t] = "idle"
  /\ status = "CONNECTED"
  /\ \/ /\ ~elsewhere
        /\ \E snapshot \in Readings(desktop) :
             /\ snap' = [snap EXCEPT ![t] = snapshot]
             /\ mishaps' = mishaps \cup Overlap(t)
                             \cup (IF snapshot = desktop THEN {} ELSE {"blind"})
        /\ Goto(t, "apply")
     \/ EnableElsewhere(t)
  /\ at' = [at EXCEPT ![t] = 1]
  /\ faults' = [faults EXCEPT ![t] = 0]
  /\ failed' = [failed EXCEPT ![t] = FALSE]
  /\ UNCHANGED <<world, after, leaving>>

ApplyKey(t) ==
  /\ pc[t] = "apply"
  /\ desktop' = [desktop EXCEPT ![Assignments[at[t]]] = Applied(Assignments[at[t]])]
  /\ at' = [at EXCEPT ![t] = @ + 1]
  /\ Goto(t, IF at[t] = Len(Assignments) THEN "persist" ELSE "apply")
  /\ UNCHANGED <<session, disk, status, shown, phase, snap, after, leaving, faults, failed,
                 mishaps>>

\* wininet restores the snapshot only when the last write fails.
RollsBack(key) == backend \in {"gnome", "kde"} \/ key = "mode"

ApplyFails(t) ==
  /\ pc[t] = "apply"
  /\ \/ /\ RollsBack(Assignments[at[t]])
        /\ Fault(t, {})
        /\ StartRestoring(t, snap[t], "idle")
     \/ /\ ~RollsBack(Assignments[at[t]])
        /\ Fault(t, {"halfway"})
        /\ Goto(t, "idle")
        /\ UNCHANGED <<at, snap, after, failed>>
  /\ UNCHANGED <<world, leaving>>

Persist(t) ==
  /\ pc[t] = "persist"
  /\ disk' = snap[t]
  /\ mishaps' = mishaps \cup (IF disk \in {NoSnapshot, snap[t]} THEN {} ELSE {"again"})
  /\ Goto(t, "show")
  /\ UNCHANGED <<session, desktop, status, shown, phase, locals>>

\* Nothing would remember how to undo this: revert now.
PersistFails(t) ==
  /\ pc[t] = "persist"
  /\ Fault(t, {})
  /\ IF elsewhere
     THEN Goto(t, "idle") /\ UNCHANGED <<at, snap, after, failed>>
     ELSE StartRestoring(t, snap[t], "idle")
  /\ UNCHANGED <<world, leaving>>

Show(t) ==
  /\ pc[t] = "show"
  /\ shown' = TRUE
  /\ Goto(t, "idle")
  /\ UNCHANGED <<session, desktop, disk, status, phase, locals, mishaps>>

-----------------------------------------------------------------------------
(* disableSystemProxy, from the toggle, from Disconnect and from New.      *)

\* The settings are read first; those of another desktop are left alone.  Any
\* error before the first write ends the call.
StartDisabling(t, over) ==
  /\ faults' = [faults EXCEPT ![t] = 0]
  /\ \/ /\ disk = NoSnapshot \/ (disk = Another /\ elsewhere)
        /\ Goto(t, "forget")
        /\ failed' = [failed EXCEPT ![t] = FALSE]
        /\ UNCHANGED <<at, snap, after>>
     \/ /\ Kept /\ ~elsewhere
        /\ StartRestoring(t, disk, "forget")
     \/ /\ FaultsPerCall > 0 \/ (disk = Another /\ ~elsewhere) \/ (Kept /\ elsewhere)
        /\ Goto(t, over)
        /\ failed' = [failed EXCEPT ![t] = TRUE]
        /\ UNCHANGED <<at, snap, after>>

CallDisable(t) ==
  /\ phase = "up" /\ pc[t] = "idle"
  /\ StartDisabling(t, "idle")
  /\ mishaps' = mishaps \cup Overlap(t)
  /\ leaving' = [leaving EXCEPT ![t] = FALSE]
  /\ UNCHANGED world

\* Disconnect logs an error and goes on.
DisconnectDisables(t) ==
  /\ phase = "up" /\ pc[t] = "idle"
  /\ StartDisabling(t, "stop")
  /\ mishaps' = mishaps \cup Overlap(t)
  /\ leaving' = [leaving EXCEPT ![t] = TRUE]
  /\ UNCHANGED world

\* Disable goes on past a failure, and returns the first one.
FinishRestoring(t, failure) ==
  IF at[t] < Len(Restorations) THEN Goto(t, "restore")
  ELSE IF failure THEN Finish(t)
  ELSE IF after[t] = "forget" THEN Goto(t, "forget")
  ELSE Finish(t)

\* Mutant: the index runs past the last key.
NextKeyPast(t) == at' = [at EXCEPT ![t] = @ + 1]

NextKey(t) ==
  at' = [at EXCEPT ![t] = IF @ < Len(Restorations) THEN @ + 1 ELSE 1]

\* The value a key gets: one that is absent from the snapshot is skipped.
Restored(t, key) ==
  IF snap[t][key] = "absent" THEN desktop[key] ELSE snap[t][key]

RestoreKey(t) ==
  /\ pc[t] = "restore"
  /\ desktop' = [desktop EXCEPT ![Restorations[at[t]]] = Restored(t, Restorations[at[t]])]
  /\ NextKey(t)
  /\ FinishRestoring(t, failed[t])
  /\ UNCHANGED <<session, disk, status, shown, phase, snap, after, leaving, faults, failed,
                 mishaps>>

\* What is lost when a write fails: the error of a call that undoes Enable is
\* dropped.
Lost(t) == IF after[t] = "idle" THEN {"halfway"} ELSE {}

\* Mutant: the failure is not returned.
RestoreFailsUnnoticed(t) ==
  /\ pc[t] = "restore" /\ snap[t][Restorations[at[t]]] # "absent"
  /\ Fault(t, Lost(t))
  /\ NextKey(t)
  /\ FinishRestoring(t, FALSE)
  /\ UNCHANGED <<world, snap, after, leaving, failed>>

RestoreFails(t) ==
  /\ pc[t] = "restore" /\ snap[t][Restorations[at[t]]] # "absent"
  /\ Fault(t, Lost(t))
  /\ failed' = [failed EXCEPT ![t] = TRUE]
  /\ NextKey(t)
  /\ FinishRestoring(t, TRUE)
  /\ UNCHANGED <<world, snap, after, leaving>>

Forget(t) ==
  /\ pc[t] = "forget"
  /\ disk' = NoSnapshot
  /\ Goto(t, "hide")
  /\ UNCHANGED <<session, desktop, status, shown, phase, locals, mishaps>>

ForgetFails(t) ==
  /\ pc[t] = "forget"
  /\ Fault(t, {})
  /\ failed' = [failed EXCEPT ![t] = TRUE]
  /\ Finish(t)
  /\ UNCHANGED <<world, at, snap, after, leaving>>

Hide(t) ==
  /\ pc[t] = "hide"
  /\ shown' = FALSE
  /\ Finish(t)
  /\ UNCHANGED <<session, desktop, disk, status, phase, locals, mishaps>>

\* Disconnect stops the core and clears the snapshot.
DisconnectGoesOn(t) ==
  /\ pc[t] = "stop"
  /\ status' = "DISCONNECTED" /\ shown' = FALSE
  /\ leaving' = [leaving EXCEPT ![t] = FALSE]
  /\ Goto(t, "idle")
  /\ UNCHANGED <<session, desktop, disk, phase, at, snap, after, faults, failed, mishaps>>

-----------------------------------------------------------------------------
(* The rest of the program, and the process itself.                        *)

Connect ==
  /\ phase = "up"
  /\ status' = "CONNECTED"
  /\ UNCHANGED <<session, desktop, disk, shown, phase, pc, locals, mishaps>>

CoreFails ==
  /\ status = "CONNECTED"
  /\ status' = "ERROR"
  /\ UNCHANGED <<session, desktop, disk, shown, phase, pc, locals, mishaps>>

\* Enable has written, or may have, and not yet persisted or undone it.
Enabling(t) ==
  \/ pc[t] = "apply" \/ (pc[t] = "persist" /\ ~elsewhere)
  \/ pc[t] = "restore" /\ after[t] = "idle"

\* The process dies; the settings and the disk stay.  The next one may run in a
\* session of another desktop.
ProcessDies ==
  /\ phase # "down"
  /\ phase' = "down" /\ status' = "DISCONNECTED" /\ shown' = FALSE
  /\ pc' = [t \in Threads |-> "idle"]
  /\ at' = [t \in Threads |-> 1]
  /\ snap' = [t \in Threads |-> NoSnapshot]
  /\ after' = [t \in Threads |-> "idle"]
  /\ leaving' = [t \in Threads |-> FALSE]
  /\ faults' = [t \in Threads |-> 0]
  /\ failed' = [t \in Threads |-> FALSE]
  /\ mishaps' = mishaps \cup
                  (IF ~Kept /\ \E t \in Threads : Enabling(t) THEN {"died"} ELSE {})
  /\ elsewhere' \in IF backend = "wininet" THEN {FALSE} ELSE BOOLEAN
  /\ UNCHANGED <<backend, ownMode, desktop, disk>>

\* Mutant: New does not call restoreSystemProxy.
RestartOnly ==
  /\ phase = "down"
  /\ phase' = "up"
  /\ UNCHANGED <<session, desktop, disk, status, shown, pc, locals, mishaps>>

\* New: restoreSystemProxy has something to do only if the disk says so.
Restart ==
  /\ phase = "down"
  /\ \/ /\ disk = NoSnapshot
        /\ phase' = "up"
        /\ UNCHANGED <<pc, locals>>
     \/ /\ disk # NoSnapshot
        /\ phase' = "starting"
        /\ StartDisabling(starter, "idle")
        /\ UNCHANGED leaving
  /\ UNCHANGED <<session, desktop, disk, status, shown, mishaps>>

\* New returns, also when the settings were not restored.
Started ==
  /\ phase = "starting" /\ pc[starter] = "idle"
  /\ phase' = "up"
  /\ UNCHANGED <<session, desktop, disk, status, shown, pc, locals, mishaps>>

Enable(t)  == \/ ApplyKey(t) \/ ApplyFails(t) \/ Persist(t) \/ PersistFails(t)
              \/ Show(t)
Disable(t) == \/ RestoreKey(t) \/ RestoreFails(t) \/ Forget(t) \/ ForgetFails(t)
              \/ Hide(t) \/ DisconnectGoesOn(t)

ProxyNext ==
  \/ \E t \in Callers : CallEnable(t) \/ CallDisable(t) \/ DisconnectDisables(t)
  \/ \E t \in Threads : Enable(t) \/ Disable(t)
  \/ Connect \/ CoreFails
  \/ ProcessDies \/ Restart \/ Started

ProxySpec == ProxyInit /\ [][ProxyNext]_proxyVars
-----------------------------------------------------------------------------
Quiet == phase = "up" /\ \A t \in Threads : pc[t] = "idle"

\* None of these has gone wrong.
Without(kinds) == mishaps \cap kinds = {}

\* What can cost the desktop its own configuration: each is a way the code
\* loses it, and the claim of the next three properties is that there is no
\* other one.  A write that fails while the proxy is switched off is not among
\* them, nor is a call that ends before its first write, a death while the way
\* back is on disk, or an Enable that is undone.
Lossy == {"overlap", "died", "again", "blind", "halfway"}

\* Whatever was switched on, switched on again, switched off, failed half-way
\* or died: when the desktop's way back is not remembered and nothing runs, the
\* desktop has its own configuration back.
OffMeansOriginal ==
  Without(Lossy) /\ Quiet /\ ~Kept => desktop = Original

\* The switch is shown on only while a way back is remembered on disk, and what
\* is remembered is the configuration of before SA05, never one that SA05 has
\* already changed.
WayBackIsKept ==
  /\ Without({"overlap"}) /\ shown /\ (\A t \in Threads : pc[t] # "hide") => disk # NoSnapshot
  /\ Without(Lossy) /\ Kept => disk = Original

\* Enable undoes what it has written, whichever write fails.
UndoesFailures == \A key \in Keys : RollsBack(key)

\* A session that used no proxy never sees one with a part of SA05's
\* addresses: neither while they are written, nor while they are restored,
\* nor when one write of a call fails.
NeverMixed ==
  UndoesFailures /\ Without({"overlap", "blind", "twice"})
    /\ ownMode = "off" /\ desktop["mode"] = "manual"
    => \A key \in Addresses : desktop[key] = "sa05"

\* DISCONNECTED with nothing running: the desktop does not point at the
\* ports of a core that is gone, because "the system proxy and the tunnel go
\* with it" or because New has restored the settings.  If it still does,
\* switching off has returned an error, and the way back is still on disk.
ProxyGoesWithCore ==
  Without(Lossy) /\ Quiet /\ status = "DISCONNECTED"
    => desktop = Original \/ (disk = Original /\ \E t \in Threads : failed[t])
=============================================================================
