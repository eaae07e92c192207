----------------------------- MODULE MCSysProxy -----------------------------
(***************************************************************************)
(* SysProxy for TLC, and what the code claims and does not do.             *)
(***************************************************************************)
EXTENDS SysProxy

CONSTANTS c1

\* A behaviour is followed until a second kind of mishap, and further as long as
\* NeverMixed still says something.
Followed == Cardinality(mishaps) <= 1 \/ Without({"overlap", "blind", "twice"})

\* What a call leaves behind when it is over makes no difference to the next one:
\* every call sets these before it uses them.
Alive ==
  <<backend, ownMode, elsewhere, desktop, disk, status, shown, phase, pc, leaving, failed, mishaps,
    [t \in Threads |->
       CASE pc[t] = "apply"   -> <<at[t], snap[t], faults[t]>>
         [] pc[t] = "persist" -> <<snap[t], faults[t]>>
         [] pc[t] = "restore" -> <<at[t], snap[t], after[t], faults[t]>>
         [] pc[t] = "forget"  -> <<faults[t]>>
         [] OTHER             -> <<>>]>>
-----------------------------------------------------------------------------
\* "Turning SA05 off has to give that client its settings back - even after a
\* crash", with nothing but one kind of mishap on the way.
GivesBack(kind) == mishaps \subseteq {kind} /\ Quiet /\ ~Kept => desktop = Original

\* Not after a death in Enable, not when a recovery of the network has called
\* Enable again, not when the snapshot was taken with errors, and not when
\* WinINET fails half-way.
AfterDeath      == GivesBack("died")
AfterRecovery   == GivesBack("again")
AfterMisreading == GivesBack("blind")
AfterHalf       == GivesBack("halfway")

\* "The system proxy and the tunnel go with it": not when the settings cannot be
\* read.
GoesWithDisconnect ==
  mishaps = {} /\ Quiet /\ status = "DISCONNECTED" => desktop = Original
=============================================================================
