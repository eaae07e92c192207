------------------------------ MODULE Updater ------------------------------
(***************************************************************************)
(* Self-update.  A check stores the release the feed offers when it is      *)
(* newer than the running one; an install downloads its archive, verifies   *)
(* the signature, unpacks the executables it knows and renames them over    *)
(* the installed ones, one after the other.  Nothing keeps two installs     *)
(* apart, and the client may end between any two steps.                     *)
(*                                                                         *)
(* A development build never checks and is left out, like the temporary     *)
(* directory a client leaves behind that ends within an install.            *)
(***************************************************************************)
EXTENDS Naturals, Sequences, SequencesExt

CONSTANTS Calls,      \* InstallUpdate calls that may run at the same time
          Releases,   \* what has been published, in this order
          Platforms

Client   == "sa05"
binaryNames == <<Client, "sa05ctl">>
Binaries == Range(binaryNames)

\* The part after '-' is a number here, 0 when there is none.
Versions == [major : Nat, minor : Nat, patch : Nat, preRelease : Nat]

ASSUME UpdaterAssumption ==
  /\ Releases \in Seq([version : Versions, binaries : SUBSET Binaries]) /\ Releases # <<>>
  /\ Platforms \subseteq {"unix", "windows"}

Tags    == DOMAIN Releases
File    == [release : Tags \cup {0}, whole : BOOLEAN]
Missing == [release |-> 0, whole |-> FALSE]

VARIABLES platform,
          up,       \* the client runs
          running,  \* the release that runs, or ran last
          image,    \* where the running executable is by now
          pending,  \* pendingUpdate, 0 for nil
          exe,      \* the installed executables
          old,      \* Windows: the ones moved aside, "<name>.old"
          job,      \* the install each call is in
          cut       \* history: an install has ended between the two renames of
                    \* the client, and none has put it in place since

disk == <<exe, old, image, cut>>
vars == <<platform, up, running, pending, disk, job>>

\* "installed" and "failed" are the results of calls that are over; "alone" is
\* history: no other install has run beside this one.
Jobs ==
  [step : {"failed", "installed", "download", "unpack", "clear", "aside", "move"},
   release : Tags \cup {0}, whole : BOOLEAN, left : Seq(Binaries), alone : BOOLEAN]
NoJob ==
  [step |-> "failed", release |-> 0, whole |-> FALSE, left |-> <<>>, alone |-> TRUE]

Over(c) == job[c].step \in {"failed", "installed"}

TypeOK ==
  /\ platform \in Platforms
  /\ up \in BOOLEAN /\ running \in Tags
  /\ pending \in Tags \cup {0}
  /\ exe \in [Binaries -> File] /\ old \in [Binaries -> File]
  /\ platform = "unix" => old = [b \in Binaries |-> Missing]
  /\ image \in {"exe", "old", "unlinked"}
  /\ cut \in BOOLEAN
  /\ job \in [Calls -> Jobs]
  /\ \A c \in Calls : job[c].step \in {"clear", "aside", "move"} <=> job[c].left # <<>>
  /\ ~up => pending = 0 /\ \A c \in Calls : Over(c)

Init ==
  /\ platform \in Platforms
  /\ up = TRUE /\ running = 1 /\ image = "exe"
  /\ pending = 0
  /\ \E ctl \in {Missing, [release |-> 1, whole |-> TRUE]} :
       exe = [b \in Binaries |-> IF b = Client THEN [release |-> 1, whole |-> TRUE] ELSE ctl]
  /\ old = [b \in Binaries |-> Missing]
  /\ job = [c \in Calls |-> NoJob]
  /\ cut = FALSE

-----------------------------------------------------------------------------
\* Mutant: any version with a suffix is newer than the same without one.
NewerThanSuffix(v, other) ==
  \/ v.major > other.major
  \/ v.major = other.major /\ v.minor > other.minor
  \/ v.major = other.major /\ v.minor = other.minor /\ v.patch > other.patch
  \/ /\ v.major = other.major /\ v.minor = other.minor /\ v.patch = other.patch
     /\ v.preRelease > other.preRelease

NewerThan(v, other) ==
  \/ v.major > other.major
  \/ v.major = other.major /\ v.minor > other.minor
  \/ v.major = other.major /\ v.minor = other.minor /\ v.patch > other.patch
  \/ /\ v.major = other.major /\ v.minor = other.minor /\ v.patch = other.patch
     /\ v.preRelease # other.preRelease
     /\ v.preRelease = 0 \/ (other.preRelease # 0 /\ v.preRelease > other.preRelease)

\* A release as the feed describes it: the tag may be unreadable, the release a
\* draft, the archive of this platform or its signature absent.
Feed == [release : Tags, tag : BOOLEAN, draft : BOOLEAN, archive : BOOLEAN, signature : BOOLEAN]

Offers(release) ==
  /\ release.tag /\ ~release.draft
  /\ NewerThan(Releases[release.release].version, Releases[running].version)
  /\ release.archive /\ release.signature

\* A release may be withdrawn, so one check may find less than the one before;
\* one that finds nothing leaves what an earlier one found.
CheckUpdate ==
  /\ up
  /\ \E release \in Feed : Offers(release) /\ pending' = release.release
  /\ UNCHANGED <<platform, up, running, disk, job>>

-----------------------------------------------------------------------------
Goto(c, step) == [job EXCEPT ![c].step = step]
Failed(c) == [job EXCEPT ![c] = [NoJob EXCEPT !.alone = job[c].alone]]
Otherwise(rest) == UNCHANGED <<platform, up, running, pending>> /\ UNCHANGED rest

\* The call takes the update that is pending now, whatever its window offered.
CallInstall(c) ==
  /\ up /\ Over(c) /\ pending # 0
  /\ LET others == {d \in Calls \ {c} : ~Over(d)}
         new    == [NoJob EXCEPT !.step = "download", !.release = pending,
                                 !.alone = others = {}]
     IN  job' = [d \in Calls |-> IF d = c THEN new
                                 ELSE [job[d] EXCEPT !.alone = @ /\ d \notin others]]
  /\ Otherwise(disk)

\* No right to write, no connection, another status or size, a malformed
\* signature, a damaged archive, a full disk.
Fails(c) ==
  /\ job[c].step \in {"download", "unpack"}
  /\ job' = Failed(c)
  /\ Otherwise(disk)

\* The signature covers the digest of exactly the bytes that were published.
Verify(whole, genuine) == whole /\ genuine

Download(c) ==
  /\ job[c].step = "download"
  /\ \E whole, genuine \in BOOLEAN :
       job' = IF Verify(whole, genuine)
              THEN [job EXCEPT ![c].step = "unpack", ![c].whole = whole]
              ELSE Failed(c)
  /\ Otherwise(disk)

FirstStep == IF platform = "windows" THEN "clear" ELSE "move"

\* Only the names the updater knows are unpacked, and replaced in their order.
Found(archive) ==
  LET Entry(b) == IF b \in archive THEN <<b>> ELSE <<>>
  IN  Entry(binaryNames[1]) \o Entry(binaryNames[2])

Unpack(c) ==
  /\ job[c].step = "unpack"
  /\ LET found == Found(Releases[job[c].release].binaries)
     IN  job' = IF found = <<>> THEN Failed(c)
                ELSE [job EXCEPT ![c].step = FirstStep, ![c].left = found]
  /\ Otherwise(disk)

-----------------------------------------------------------------------------
(* replaceFile, for the first executable that is left *)

Name(c) == Head(job[c].left)

\* The client is the one to move into place, and on Windows is out of the way.
Between(c) == job[c].step = "move" /\ Name(c) = Client

\* Windows neither deletes nor overwrites the file a process runs from.
Locked(b, where) == platform = "windows" /\ up /\ b = Client /\ image = where

\* Removing the one moved aside by the last update may fail, and nobody looks.
Clear(c) ==
  /\ job[c].step = "clear"
  /\ \/ ~Locked(Name(c), "old") /\ old' = [old EXCEPT ![Name(c)] = Missing]
     \/ UNCHANGED old
  /\ job' = Goto(c, "aside")
  /\ Otherwise(<<exe, image, cut>>)

Aside(c) ==
  /\ job[c].step = "aside"
  /\ IF exe[Name(c)] = Missing
     THEN UNCHANGED disk
     ELSE /\ ~Locked(Name(c), "old")
          /\ old' = [old EXCEPT ![Name(c)] = exe[Name(c)]]
          /\ exe' = [exe EXCEPT ![Name(c)] = Missing]
          /\ image' = IF Name(c) = Client /\ image = "exe" THEN "old" ELSE image
          /\ UNCHANGED cut
  /\ job' = Goto(c, "move")
  /\ Otherwise(<<>>)

AsideFails(c) ==
  /\ job[c].step = "aside" /\ exe[Name(c)] # Missing
  /\ job' = Failed(c)
  /\ Otherwise(disk)

Following(c) ==
  IF Len(job[c].left) = 1
  THEN [job EXCEPT ![c].step = "installed", ![c].left = <<>>]
  ELSE [job EXCEPT ![c].step = FirstStep, ![c].left = Tail(@)]

\* The rename, after which a chmod that fails ends the install.
Move(c) ==
  /\ job[c].step = "move" /\ ~Locked(Name(c), "exe")
  /\ exe' = [exe EXCEPT ![Name(c)] = [release |-> job[c].release, whole |-> job[c].whole]]
  /\ image' = IF Name(c) = Client /\ image = "exe" THEN "unlinked" ELSE image
  /\ job' \in {Following(c), Failed(c)}
  /\ cut' = (cut /\ Name(c) # Client)
  /\ Otherwise(<<old>>)

\* Mutant: a binary that could not be renamed is skipped.
MoveFailsUnnoticed(c) ==
  /\ job[c].step = "move"
  /\ job' = Following(c)
  /\ Otherwise(disk)

MoveFails(c) ==
  /\ job[c].step = "move"
  /\ job' = Failed(c)
  /\ cut' = (cut \/ Between(c))
  /\ Otherwise(<<exe, old, image>>)

-----------------------------------------------------------------------------
(* The client ends, at any point, and is started from where it is installed. *)

Exit ==
  /\ up /\ up' = FALSE
  /\ pending' = 0 /\ job' = [c \in Calls |-> NoJob]
  /\ cut' = (cut \/ \E c \in Calls : Between(c))
  /\ UNCHANGED <<platform, running, exe, old, image>>

\* Mutant: started without looking whether there is something to start.
StartBlind ==
  /\ ~up
  /\ up' = TRUE /\ running' = exe[Client].release /\ image' = "exe"
  /\ UNCHANGED <<platform, pending, exe, old, job, cut>>

Start ==
  /\ ~up /\ exe[Client] # Missing
  /\ up' = TRUE /\ running' = exe[Client].release /\ image' = "exe"
  /\ UNCHANGED <<platform, pending, exe, old, job, cut>>

Next ==
  \/ CheckUpdate \/ Exit \/ Start
  \/ \E c \in Calls :
       \/ CallInstall(c) \/ Fails(c) \/ Download(c) \/ Unpack(c)
       \/ Clear(c) \/ Aside(c) \/ AsideFails(c) \/ Move(c) \/ MoveFails(c)

Spec == Init /\ [][Next]_vars

-----------------------------------------------------------------------------
\* What a start runs was verified and unpacked completely (replaceBinaries: "a
\* half-written binary is never visible").
Whole == \A b \in Binaries : exe[b] = Missing \/ exe[b].whole

\* It was not published before the release that runs now (NewerThan: "a release
\* candidate never replaces the release it precedes").
NoDowngrade == exe[Client] = Missing \/ exe[Client].release >= running

\* There is a client to start.  On Windows there is none while an install is
\* between its two renames, nor after one that failed or died there: then
\* nothing starts until somebody renames the file.
Startable ==
  exe[Client] # Missing
    \/ (platform = "windows" /\ (cut \/ \E c \in Calls : Between(c)))

\* What there is to rename then is the client that ran last, complete, however
\* many installs were begun or failed after the one that moved it aside.
Ran == [release |-> running, whole |-> TRUE]
Recoverable == exe[Client] = Missing => old[Client] = Ran

\* Whatever fails, whenever the client dies and however installs overlap
\* (Install, replaceFile): the client that can be started is complete and no
\* older than the one that ran last.  On Unix there always is one; on Windows
\* there is one unless an install ended between the two renames of the client,
\* and then the client that ran last is kept under its other name.
ClientIsKept == Whole /\ NoDowngrade /\ Startable /\ Recoverable

\* An install that ran by itself reports success only when everything its
\* archive holds is in place (replaceBinaries, UpdateView.Installed).
InstalledIsInPlace ==
  [][\A c \in Calls :
       ~Over(c) /\ job'[c].step = "installed" /\ job'[c].alone =>
         \A b \in Releases[job[c].release].binaries :
           exe'[b] = [release |-> job[c].release, whole |-> TRUE]]_vars

\* "The running binary is replaced atomically" (version.go:5): whenever the client
\* ends, it can be started again.  Not on Windows, see MCUpdater_atomic.cfg.
ReplacedAtomically == ~up => exe[Client] # Missing
=============================================================================
