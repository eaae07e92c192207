-------------------------- MODULE Updater_proofs --------------------------
(***************************************************************************)
(* Theorems about Updater, for every list of releases and every number of   *)
(* calls at the same time.                                                  *)
(***************************************************************************)
EXTENDS Updater, SequenceTheorems, TLAPS

Newer(r) == NewerThan(Releases[r].version, Releases[running].version)

\* What is pending or being installed is newer than the client that runs, and
\* whatever is past the signature is complete.
Genuine ==
  /\ pending # 0 => Newer(pending)
  /\ \A c \in Calls : ~Over(c) => job[c].release \in Tags /\ Newer(job[c].release)
  /\ \A c \in Calls : job[c].step \in {"unpack", "clear", "aside", "move"} => job[c].whole

\* The installed client is the one that runs, or newer.
NotOlder ==
  exe[Client] = Missing \/ exe[Client].release = running
    \/ (exe[Client].release \in Tags /\ Newer(exe[Client].release))

\* Windows: the file the client runs from is there, and still what was started.
Running ==
  /\ platform = "unix" => \A c \in Calls : job[c].step \notin {"clear", "aside"}
  /\ platform = "windows" /\ up =>
       /\ image \in {"exe", "old"}
       /\ image = "exe" => exe[Client] = Ran
       /\ image = "old" => old[Client] = Ran

Done(c) == [release |-> job[c].release, whole |-> TRUE]

\* An install that runs alone has put in place what it no longer has to.
InPlace ==
  \A c \in Calls :
    ~Over(c) /\ job[c].alone =>
      /\ \A d \in Calls \ {c} : Over(d)
      /\ job[c].step \in {"clear", "aside", "move"} =>
           \A b \in Releases[job[c].release].binaries :
             b \in Range(job[c].left) \/ exe[b] = Done(c)

IInv ==
  TypeOK /\ Whole /\ Startable /\ Recoverable /\ Genuine /\ NotOlder /\ Running /\ InPlace
-----------------------------------------------------------------------------
(* Lists of executables, releases and versions.                            *)

\* What is left of a list once its head is in place.
LEMMA TakeHead ==
  ASSUME NEW S, NEW s \in Seq(S), s # <<>>
  PROVE  /\ Head(s) \in S /\ Head(s) \in Range(s) /\ Tail(s) \in Seq(S)
         /\ Range(s) = {Head(s)} \cup Range(Tail(s))
         /\ Len(s) = 1 <=> Tail(s) = <<>>
         /\ Len(s) = 1 => Range(s) = {Head(s)}
<1>1. /\ Tail(s) \in Seq(S) /\ Len(Tail(s)) = Len(s) - 1
      /\ \A i \in 1..Len(Tail(s)) : Tail(s)[i] = s[i + 1]
  BY HeadTailProperties
<1>2. Len(s) \in Nat \ {0} /\ Head(s) = s[1] /\ Head(s) \in S
  BY EmptySeq, HeadTailProperties DEF Head
<1>3. /\ Range(s) = {s[i] : i \in 1..Len(s)}
      /\ Range(Tail(s)) = {Tail(s)[i] : i \in 1..Len(Tail(s))}
  BY <1>1, RangeEquality
<1>4. Range(Tail(s)) = {s[i] : i \in 2..Len(s)}
  <2>1. \A i \in 1..Len(Tail(s)) : i + 1 \in 2..Len(s) /\ Tail(s)[i] = s[i + 1]
    BY <1>1, <1>2
  <2>2. \A i \in 2..Len(s) : i - 1 \in 1..Len(Tail(s)) /\ Tail(s)[i - 1] = s[i]
    BY <1>1, <1>2
  <2>3. QED
    <3>1. Range(Tail(s)) \subseteq {s[i] : i \in 2..Len(s)}
      BY <1>3, <2>1
    <3>2. {s[i] : i \in 2..Len(s)} \subseteq Range(Tail(s))
      BY <1>3, <2>2
    <3>3. QED
      BY <3>1, <3>2
<1>5. Range(s) = {Head(s)} \cup Range(Tail(s))
  <2>1. \A i \in 1..Len(s) : i = 1 \/ i \in 2..Len(s)
    BY <1>2
  <2>2. 1 \in 1..Len(s) /\ 2..Len(s) \subseteq 1..Len(s)
    BY <1>2
  <2>3. QED
    BY <1>2, <1>3, <1>4, <2>1, <2>2
<1>6. Len(s) = 1 <=> Tail(s) = <<>>
  <2>1. Tail(s) # <<>> => Len(Tail(s)) \in Nat \ {0}
    BY <1>1, EmptySeq
  <2>2. Tail(s) = <<>> => Len(Tail(s)) = 0
    BY EmptySeq
  <2>3. QED
    BY <1>1, <1>2, <2>1, <2>2
<1>7. Len(s) = 1 => Range(Tail(s)) = {}
  BY <1>6 DEF Range
<1>8. QED
  BY <1>1, <1>2, <1>3, <1>5, <1>6, <1>7

\* The client and the command-line tool are all there is to install.
LEMMA BinariesAre == Binaries = {Client, "sa05ctl"}
  BY DEF Binaries, binaryNames, Range

\* What is unpacked is what the archive holds.
LEMMA FoundFacts ==
  ASSUME NEW archive \in SUBSET Binaries
  PROVE  Found(archive) \in Seq(Binaries) /\ Range(Found(archive)) = archive
<1> DEFINE Entry(b) == IF b \in archive THEN <<b>> ELSE <<>>
<1>1. \A b \in Binaries : Entry(b) \in Seq(Binaries)
                            /\ Range(Entry(b)) = IF b \in archive THEN {b} ELSE {}
  BY DEF Range
<1>2. Found(archive) = Entry(Client) \o Entry("sa05ctl")
  BY DEF Found, binaryNames
<1> HIDE DEF Entry
<1>3. Client \in Binaries /\ "sa05ctl" \in Binaries
  BY BinariesAre
<1>4. /\ Found(archive) \in Seq(Binaries)
      /\ Range(Found(archive)) = Range(Entry(Client)) \cup Range(Entry("sa05ctl"))
  BY <1>1, <1>2, <1>3, ConcatProperties, RangeConcatenation
<1>5. QED
  BY <1>1, <1>3, <1>4, BinariesAre

\* Releases are numbered from 1.
LEMMA ReleaseFacts ==
  /\ 1 \in Tags /\ Tags \subseteq Nat \ {0}
  /\ \A r \in Tags : Releases[r].version \in Versions /\ Releases[r].binaries \subseteq Binaries
<1> DEFINE Kind == [version : Versions, binaries : SUBSET Binaries]
<1>1. Releases \in Seq(Kind) /\ Releases # <<>>
  BY UpdaterAssumption
<1>2. Len(Releases) \in Nat \ {0} /\ Tags = 1..Len(Releases)
  BY <1>1, LenProperties, EmptySeq DEF Tags
<1>3. \A r \in Tags : Releases[r] \in Kind
  BY <1>1, <1>2, ElementOfSeq
<1>4. QED
  BY <1>2, <1>3

\* Precedence is a strict order of the versions, and a total one: any set of
\* releases can be listed from the oldest to the newest.
THEOREM PrecedenceIsAnOrder ==
  /\ \A v \in Versions : ~NewerThan(v, v)
  /\ \A u, v \in Versions : NewerThan(u, v) => ~NewerThan(v, u)
  /\ \A u, v, w \in Versions : NewerThan(u, v) /\ NewerThan(v, w) => NewerThan(u, w)
  /\ \A u, v \in Versions : u = v \/ NewerThan(u, v) \/ NewerThan(v, u)
<1>1. \A v \in Versions : /\ v.major \in Nat /\ v.minor \in Nat /\ v.patch \in Nat
                          /\ v.preRelease \in Nat
  BY DEF Versions
<1>2. \A v \in Versions : ~NewerThan(v, v)
  BY <1>1 DEF NewerThan
<1>3. \A u, v \in Versions : NewerThan(u, v) => ~NewerThan(v, u)
  BY <1>1 DEF NewerThan
<1>4. ASSUME NEW u \in Versions, NEW v \in Versions, NEW w \in Versions,
             NewerThan(u, v), NewerThan(v, w)
      PROVE  NewerThan(u, w)
  BY <1>1, <1>4 DEF NewerThan
<1>5. ASSUME NEW u \in Versions, NEW v \in Versions, u # v
      PROVE  NewerThan(u, v) \/ NewerThan(v, u)
  <2>1. \/ u.major # v.major \/ u.minor # v.minor \/ u.patch # v.patch
        \/ u.preRelease # v.preRelease
    BY <1>5 DEF Versions
  <2>2. QED
    BY <1>1, <2>1 DEF NewerThan
<1>6. QED
  BY <1>2, <1>3, <1>4, <1>5

-----------------------------------------------------------------------------
(* The steps that leave the disk alone.                                    *)

LEMMA NoJobType ==
  NoJob \in Jobs /\ NoJob.step = "failed" /\ NoJob.left = <<>> /\ NoJob.release = 0
  BY EmptySeq DEF NoJob, Jobs

\* There is still a client to start where none vanishes and whoever is between
\* its two renames goes on, puts it in place or leaves a trace.
LEMMA StartableStays ==
  ASSUME Startable, platform' = platform,
         exe'[Client] = exe[Client],
         cut => cut',
         \A d \in Calls : Between(d) => Between(d)' \/ cut'
  PROVE  Startable'
  BY DEF Startable

\* A check offers what is newer than the client that runs.
LEMMA CheckKeeps == ASSUME IInv, CheckUpdate PROVE IInv'
<1> USE DEF IInv, CheckUpdate, disk
<1>1. PICK release \in Feed : Offers(release) /\ pending' = release.release
  OBVIOUS
<1>2. pending' \in Tags /\ Newer(pending')
  BY <1>1 DEF Offers, Feed, Newer
<1>3. TypeOK'
  BY <1>2 DEF TypeOK, Over
<1>4. Genuine'
  BY <1>2 DEF Genuine, Newer, Over
<1>5. Startable'
  BY StartableStays DEF Between, Name
<1>6. Whole' /\ Recoverable' /\ NotOlder' /\ Running' /\ InPlace'
  BY DEF Whole, Recoverable, Ran, NotOlder, Newer, Running, InPlace, Over, Done
<1>7. QED
  BY <1>3, <1>4, <1>5, <1>6

\* The client ends within any number of installs.
LEMMA ExitKeeps == ASSUME IInv, Exit PROVE IInv'
<1> USE DEF IInv, Exit, disk
<1>1. \A c \in Calls : job'[c] = NoJob
  OBVIOUS
<1>2. TypeOK'
  BY <1>1, NoJobType DEF TypeOK, Over
<1>3. Genuine' /\ Running' /\ InPlace'
  BY <1>1, NoJobType DEF Genuine, Running, Ran, InPlace, Over
<1>4. Whole' /\ Startable' /\ Recoverable' /\ NotOlder'
  BY StartableStays DEF Whole, Recoverable, Ran, NotOlder, Newer
<1>5. QED
  BY <1>2, <1>3, <1>4

\* The client that starts is the one that is installed.
LEMMA StartKeeps == ASSUME IInv, Start PROVE IInv'
<1> USE DEF IInv, Start, disk
<1>1. exe[Client] \in File /\ exe[Client] # Missing /\ exe[Client].whole
  BY BinariesAre DEF TypeOK, Whole
<1>2. exe[Client].release \in Tags
  BY <1>1, BinariesAre DEF NotOlder, TypeOK
<1>3. \A c \in Calls : Over(c) /\ Over(c)'
  BY DEF TypeOK, Over
<1>4. TypeOK'
  BY <1>2, <1>3 DEF TypeOK
<1>5. Genuine' /\ Running' /\ InPlace'
  <2>1. Running'
    BY <1>1, ReleaseFacts DEF Running, Ran, TypeOK, File, Over
  <2>2. QED
    BY <1>1, <1>3, <2>1 DEF Genuine, InPlace, TypeOK, Over
<1>6. Whole' /\ Startable' /\ Recoverable' /\ NotOlder'
  BY DEF Whole, Startable, Recoverable, NotOlder
<1>7. QED
  BY <1>4, <1>5, <1>6

\* An install of what is pending is not alone beside another.
LEMMA CallInstallKeeps == ASSUME IInv, NEW c \in Calls, CallInstall(c) PROVE IInv'
<1> USE DEF IInv
<1> DEFINE others == {d \in Calls \ {c} : ~Over(d)}
<1>0. /\ UNCHANGED <<platform, up, running, pending, exe, old, image, cut>>
      /\ up /\ pending # 0
  BY DEF CallInstall, Otherwise, disk
<1>1. /\ job'[c] = [NoJob EXCEPT !.step = "download", !.release = pending,
                                 !.alone = others = {}]
      /\ \A d \in Calls \ {c} : job'[d] = [job[d] EXCEPT !.alone = @ /\ d \notin others]
  BY DEF TypeOK, CallInstall
<1>2. /\ job'[c] \in Jobs /\ job'[c].step = "download" /\ job'[c].release = pending
      /\ job'[c].left = <<>> /\ (job'[c].alone <=> others = {})
  BY <1>1, NoJobType DEF NoJob, Jobs, TypeOK
<1> HIDE DEF others
<1>3. ASSUME NEW d \in Calls \ {c}
      PROVE  /\ job'[d] \in Jobs /\ job'[d].step = job[d].step
             /\ job'[d].release = job[d].release /\ job'[d].left = job[d].left
             /\ job'[d].whole = job[d].whole
             /\ job'[d].alone => job[d].alone /\ d \notin others
  <2> DEFINE still == job[d].alone /\ d \notin others
  <2>1. job[d] \in Jobs /\ still \in BOOLEAN /\ job'[d] = [job[d] EXCEPT !.alone = still]
    BY <1>1, <1>3 DEF TypeOK
  <2>2. still => job[d].alone /\ d \notin others
    OBVIOUS
  <2> HIDE DEF still
  <2>3. QED
    BY <2>1, <2>2 DEF Jobs
<1>4. TypeOK'
  <2>1. job' = [d \in Calls |-> job'[d]]
    BY DEF TypeOK, CallInstall
  <2>2. job' \in [Calls -> Jobs]
    BY <1>2, <1>3, <2>1
  <2>3. \A d \in Calls : job'[d].step \in {"clear", "aside", "move"} <=> job'[d].left # <<>>
    BY <1>2, <1>3 DEF TypeOK
  <2>4. QED
    BY <1>0, <2>2, <2>3 DEF TypeOK
<1>5. Genuine'
  BY <1>0, <1>2, <1>3 DEF Genuine, Newer, Over, TypeOK
<1>6. InPlace'
  BY <1>0, <1>2, <1>3 DEF InPlace, Over, Done, others
<1>7. Running'
  BY <1>0, <1>2, <1>3 DEF Running, Ran
<1>8. Whole' /\ Startable' /\ Recoverable' /\ NotOlder'
  <2>1. \A d \in Calls : Between(d) => Between(d)'
    <3>1. job[c].step # "move"
      BY <1>0 DEF CallInstall, Over
    <3>2. QED
      BY <1>3, <3>1 DEF Between, Name
  <2>2. QED
    BY <1>0, <2>1, StartableStays DEF Whole, Recoverable, Ran, NotOlder, Newer
<1>9. QED
  BY <1>4, <1>5, <1>6, <1>7, <1>8

\* An install that fails is over.
LEMMA FailuresKeep ==
  ASSUME IInv, NEW c \in Calls, Fails(c) \/ AsideFails(c) \/ MoveFails(c)
  PROVE  IInv'
<1> USE DEF IInv
<1>1. /\ job'[c] = [NoJob EXCEPT !.alone = job[c].alone]
      /\ \A d \in Calls \ {c} : job'[d] = job[d]
      /\ job' = [job EXCEPT ![c] = job'[c]]
      /\ UNCHANGED <<platform, up, running, pending, exe, old, image>>
      /\ cut' \in BOOLEAN /\ (cut => cut') /\ (Between(c) => cut')
  <2>1. CASE Fails(c) \/ AsideFails(c)
    BY <2>1 DEF TypeOK, Fails, AsideFails, Failed, Otherwise, disk, Between
  <2>2. CASE MoveFails(c)
    BY <2>2 DEF TypeOK, MoveFails, Failed, Otherwise, Between
  <2>3. QED
    BY <2>1, <2>2
<1>2. /\ job'[c] \in Jobs /\ job'[c].step = "failed" /\ job'[c].left = <<>>
  BY <1>1, NoJobType, ZenonT(40) DEF NoJob, Jobs, TypeOK
<1>3. TypeOK'
  BY <1>1, <1>2, ZenonT(40) DEF TypeOK, Over
<1>4. Genuine' /\ Running'
  BY <1>1, <1>2 DEF Genuine, Newer, Running, Ran, Over
<1>5. InPlace'
  <2>1. ASSUME NEW d \in Calls, ~Over(d)', job'[d].alone
        PROVE  d # c /\ job'[d] = job[d] /\ ~Over(d) /\ job[d].alone
    BY <1>1, <1>2, <2>1 DEF Over
  <2>2. \A d \in Calls : Over(d) => Over(d)'
    BY <1>1, <1>2 DEF Over
  <2>3. QED
    BY <1>1, <2>1, <2>2 DEF InPlace, Done
<1>6. Whole' /\ Startable' /\ Recoverable' /\ NotOlder'
  <2>1. \A d \in Calls : Between(d) => Between(d)' \/ cut'
    BY <1>1 DEF Between, Name
  <2>2. QED
    BY <1>1, <2>1, StartableStays DEF Whole, Recoverable, Ran, NotOlder, Newer
<1>7. QED
  BY <1>3, <1>4, <1>5, <1>6

\* What passes the signature is complete.
LEMMA DownloadKeeps == ASSUME IInv, NEW c \in Calls, Download(c) PROVE IInv'
<1> USE DEF IInv, Download, Otherwise, disk
<1>1. PICK whole \in BOOLEAN, genuine \in BOOLEAN :
        job' = IF Verify(whole, genuine)
               THEN [job EXCEPT ![c].step = "unpack", ![c].whole = whole]
               ELSE Failed(c)
  OBVIOUS
<1>2. \A d \in Calls \ {c} : job'[d] = job[d]
  BY <1>1 DEF TypeOK, Failed
<1>3. CASE Verify(whole, genuine)
  <2>1. job'[c] = [job[c] EXCEPT !.step = "unpack", !.whole = whole] /\ whole
    BY <1>1, <1>3 DEF TypeOK, Verify
  <2>2. /\ job'[c] \in Jobs /\ job'[c].step = "unpack" /\ job'[c].whole
        /\ job'[c].left = <<>> /\ job'[c].release = job[c].release
        /\ job'[c].alone = job[c].alone
    BY <2>1 DEF TypeOK, Jobs
  <2>3. job' \in [Calls -> Jobs]
    BY <1>1, <1>3, <1>2, <2>2 DEF TypeOK
  <2>4. TypeOK'
    BY <1>2, <2>2, <2>3 DEF TypeOK, Over
  <2>5. Genuine' /\ Running' /\ InPlace'
    BY <1>2, <2>2, ZenonT(40) DEF Genuine, Newer, Running, Ran, InPlace, Over, Done
  <2>6. \A d \in Calls : Between(d) => Between(d)'
    BY <1>2 DEF Between, Name
  <2>7. QED
    BY <2>4, <2>5, <2>6, StartableStays DEF Whole, Recoverable, Ran, NotOlder, Newer
<1>4. CASE ~Verify(whole, genuine)
  <2>1. job'[c] = [NoJob EXCEPT !.alone = job[c].alone]
    BY <1>1, <1>4 DEF TypeOK, Failed
  <2>2. /\ job'[c] \in Jobs /\ job'[c].step = "failed" /\ job'[c].left = <<>>
    BY <2>1, NoJobType DEF NoJob, Jobs, TypeOK
  <2>3. TypeOK'
    BY <1>1, <1>2, <1>4, <2>2 DEF TypeOK, Over, Failed
  <2>4. Genuine' /\ Running' /\ InPlace'
    BY <1>2, <2>2 DEF Genuine, Newer, Running, Ran, InPlace, Over, Done
  <2>5. \A d \in Calls : Between(d) => Between(d)'
    BY <1>2 DEF Between, Name
  <2>6. QED
    BY <2>3, <2>4, <2>5, StartableStays DEF Whole, Recoverable, Ran, NotOlder, Newer
<1>5. QED
  BY <1>3, <1>4

\* What is unpacked is what the release holds, and all of it is left to do.
LEMMA UnpackKeeps == ASSUME IInv, NEW c \in Calls, Unpack(c) PROVE IInv'
<1> USE DEF IInv
<1> DEFINE found == Found(Releases[job[c].release].binaries)
<1>1. /\ UNCHANGED <<platform, up, running, pending, exe, old, image, cut>>
      /\ ~Over(c) /\ job[c].step = "unpack" /\ job[c].release \in Tags /\ job[c] \in Jobs
  BY DEF Unpack, Otherwise, disk, Genuine, Over, TypeOK
<1>2. found \in Seq(Binaries) /\ Range(found) = Releases[job[c].release].binaries
  BY <1>1, FoundFacts, ReleaseFacts
<1>3. job' = IF found = <<>> THEN Failed(c)
                             ELSE [job EXCEPT ![c].step = FirstStep, ![c].left = found]
  BY DEF Unpack
<1> HIDE DEF found
<1>4. job' = [job EXCEPT ![c] = job'[c]]
  BY <1>3 DEF Failed, TypeOK
<1>5. \/ /\ found = <<>> /\ job'[c] \in Jobs
         /\ job'[c].step = "failed" /\ job'[c].left = <<>>
      \/ /\ found # <<>> /\ job'[c] \in Jobs
         /\ job'[c].step = FirstStep /\ job'[c].left = found
         /\ job'[c].release = job[c].release /\ job'[c].whole = job[c].whole
         /\ job'[c].alone = job[c].alone
  <2>1. CASE found = <<>>
    <3>1. job'[c] = [NoJob EXCEPT !.alone = job[c].alone]
      BY <1>3, <2>1 DEF Failed, TypeOK
    <3>2. QED
      BY <1>1, <2>1, <3>1, NoJobType DEF NoJob, Jobs
  <2>2. CASE found # <<>>
    <3>1. job'[c] = [job[c] EXCEPT !.step = FirstStep, !.left = found]
      BY <1>3, <2>2 DEF TypeOK
    <3>2. FirstStep \in {"clear", "move"}
      BY DEF FirstStep
    <3>3. QED
      BY <1>1, <1>2, <2>2, <3>1, <3>2 DEF Jobs
  <2>3. QED
    BY <2>1, <2>2
<1>6. \A d \in Calls \ {c} : job'[d] = job[d]
  BY <1>4 DEF TypeOK
<1>7. FirstStep \in {"clear", "move"} /\ (FirstStep = "clear" => platform = "windows")
  BY DEF FirstStep
<1>8. TypeOK'
  BY <1>1, <1>4, <1>5, <1>6, <1>7 DEF TypeOK, Over
<1>9. Genuine' /\ Running'
  BY <1>1, <1>5, <1>6, <1>7 DEF Genuine, Newer, Running, Ran, Over
<1>10. InPlace'
  <2>1. ASSUME NEW d \in Calls, ~Over(d)'
        PROVE  ~Over(d) /\ job'[d].alone = job[d].alone /\ job'[d].release = job[d].release
    BY <1>1, <1>5, <1>6, <2>1 DEF Over
  <2>2. \A d \in Calls : Over(d) => Over(d)'
    BY <1>1, <1>6 DEF Over
  <2>3. ~Over(c)' => Range(job'[c].left) = Releases[job'[c].release].binaries
    BY <1>2, <1>5 DEF Over
  <2>4. QED
    BY <1>1, <1>6, <2>1, <2>2, <2>3 DEF InPlace, Done
<1>11. Whole' /\ Startable' /\ Recoverable' /\ NotOlder'
  <2>1. \A d \in Calls : Between(d) => Between(d)'
    BY <1>1, <1>6 DEF Between, Name
  <2>2. QED
    BY <1>1, <2>1, StartableStays DEF Whole, Recoverable, Ran, NotOlder, Newer
<1>12. QED
  BY <1>8, <1>9, <1>10, <1>11

-----------------------------------------------------------------------------
(* The steps of replaceFile.                                               *)

\* The first executable that is left is one of those there are.
LEMMA NameFacts ==
  ASSUME IInv, NEW c \in Calls, job[c].step \in {"clear", "aside", "move"}
  PROVE  /\ job[c] \in Jobs /\ job[c].left \in Seq(Binaries) /\ job[c].left # <<>>
         /\ Name(c) \in Binaries /\ Name(c) \in Range(job[c].left)
         /\ ~Over(c) /\ job[c].release \in Tags /\ Newer(job[c].release) /\ job[c].whole
         /\ up
<1>1. job[c] \in Jobs /\ job[c].left # <<>> /\ ~Over(c) /\ up
  BY DEF IInv, TypeOK, Over
<1>2. job[c].left \in Seq(Binaries)
  BY <1>1 DEF Jobs
<1>3. QED
  BY <1>1, <1>2, TakeHead DEF IInv, Genuine, Name

\* A call that goes on to its next step, with nothing else of it changed.
LEMMA GotoFacts ==
  ASSUME TypeOK, NEW c \in Calls, NEW step \in {"aside", "move"}, job' = Goto(c, step)
  PROVE  /\ job' = [job EXCEPT ![c] = job'[c]]
         /\ \A d \in Calls \ {c} : job'[d] = job[d]
         /\ job'[c] \in Jobs /\ job'[c].step = step
         /\ job'[c].release = job[c].release /\ job'[c].whole = job[c].whole
         /\ job'[c].left = job[c].left /\ job'[c].alone = job[c].alone
<1>1. job'[c] = [job[c] EXCEPT !.step = step] /\ job[c] \in Jobs
  BY DEF TypeOK, Goto
<1>2. job' = [job EXCEPT ![c] = job'[c]] /\ \A d \in Calls \ {c} : job'[d] = job[d]
  BY DEF TypeOK, Goto
<1>3. QED
  BY <1>1, <1>2 DEF Jobs

\* The executable that was moved aside is removed only where nothing runs from
\* it.
LEMMA ClearKeeps == ASSUME IInv, NEW c \in Calls, Clear(c) PROVE IInv'
<1> USE DEF IInv
<1>1. /\ UNCHANGED <<platform, up, running, pending, exe, image, cut>>
      /\ job[c].step = "clear" /\ platform = "windows"
      /\ \/ ~Locked(Name(c), "old") /\ old' = [old EXCEPT ![Name(c)] = Missing]
         \/ UNCHANGED old
  BY UpdaterAssumption DEF Clear, Otherwise, Running, TypeOK
<1>2. /\ job' = [job EXCEPT ![c] = job'[c]]
      /\ \A d \in Calls \ {c} : job'[d] = job[d]
      /\ job'[c] \in Jobs /\ job'[c].step = "aside"
      /\ job'[c].release = job[c].release /\ job'[c].whole = job[c].whole
      /\ job'[c].left = job[c].left /\ job'[c].alone = job[c].alone
  BY GotoFacts DEF Clear
<1>3. /\ Name(c) \in Binaries /\ ~Over(c) /\ up /\ job[c].left # <<>>
      /\ job[c].release \in Tags /\ Newer(job[c].release) /\ job[c].whole
  BY <1>1, NameFacts
<1>4. Missing \in File
  BY DEF Missing, File
<1>5. TypeOK'
  BY <1>1, <1>2, <1>3, <1>4 DEF TypeOK, Over
<1>6. old'[Client] = old[Client] \/ image = "exe"
  BY <1>1, <1>3, BinariesAre DEF Locked, Running, TypeOK
<1>7. Running' /\ Startable' /\ Recoverable'
  <2>1. \A d \in Calls : Between(d) => Between(d)'
    BY <1>1, <1>2 DEF Between, Name
  <2>2. Startable'
    BY <1>1, <2>1, StartableStays
  <2>3. Ran # Missing
    BY ReleaseFacts DEF Ran, Missing, TypeOK
  <2>4. QED
    BY <1>1, <1>2, <1>3, <1>6, <2>2, <2>3 DEF Running, Recoverable, Ran
<1>8. Genuine' /\ Whole' /\ NotOlder'
  BY <1>1, <1>2, <1>3 DEF Genuine, Newer, Over, Whole, NotOlder
<1>9. InPlace'
  BY <1>1, <1>2, <1>3 DEF InPlace, Over, Done
<1>10. QED
  BY <1>5, <1>7, <1>8, <1>9

\* The executable that is moved aside has to be replaced.
LEMMA AsideKeeps == ASSUME IInv, NEW c \in Calls, Aside(c) PROVE IInv'
<1> USE DEF IInv
<1>1. /\ UNCHANGED <<platform, up, running, pending>>
      /\ job[c].step = "aside" /\ platform = "windows"
  BY UpdaterAssumption DEF Aside, Otherwise, Running, TypeOK
<1>2. /\ job' = [job EXCEPT ![c] = job'[c]]
      /\ \A d \in Calls \ {c} : job'[d] = job[d]
      /\ job'[c] \in Jobs /\ job'[c].step = "move"
      /\ job'[c].release = job[c].release /\ job'[c].whole = job[c].whole
      /\ job'[c].left = job[c].left /\ job'[c].alone = job[c].alone
  BY GotoFacts DEF Aside
<1>3. /\ Name(c) \in Binaries /\ ~Over(c) /\ up /\ job[c].left # <<>>
      /\ job[c].release \in Tags /\ Newer(job[c].release) /\ job[c].whole
      /\ Name(c) \in Range(job[c].left)
  BY <1>1, NameFacts
<1>4. \A d \in Calls : Between(d) => Between(d)'
  BY <1>1, <1>2 DEF Between, Name
<1>5. CASE UNCHANGED <<exe, old, image, cut>>
  <2>1. TypeOK' /\ Running' /\ Startable' /\ Recoverable'
    BY <1>1, <1>2, <1>3, <1>5, <1>4, StartableStays DEF TypeOK, Over, Running, Recoverable, Ran
  <2>2. Genuine' /\ Whole' /\ NotOlder'
    BY <1>1, <1>2, <1>3, <1>5 DEF Genuine, Newer, Over, Whole, NotOlder
  <2>3. InPlace'
    BY <1>1, <1>2, <1>3, <1>5 DEF InPlace, Over, Done
  <2>4. QED
    BY <2>1, <2>2, <2>3
<1>6. CASE /\ exe[Name(c)] # Missing /\ ~Locked(Name(c), "old")
           /\ old' = [old EXCEPT ![Name(c)] = exe[Name(c)]]
           /\ exe' = [exe EXCEPT ![Name(c)] = Missing]
           /\ image' = IF Name(c) = Client /\ image = "exe" THEN "old" ELSE image
           /\ UNCHANGED cut
  <2>1. Missing \in File
    BY DEF Missing, File
  <2>2. \A b \in Binaries : exe'[b] = IF b = Name(c) THEN Missing ELSE exe[b]
    BY <1>6 DEF TypeOK
  <2>3. \A b \in Binaries : old'[b] = IF b = Name(c) THEN exe[b] ELSE old[b]
    BY <1>6 DEF TypeOK
  <2>4. TypeOK'
    BY <1>1, <1>2, <1>3, <1>6, <2>1 DEF TypeOK, Over
  <2>5. Client \in Binaries
    BY BinariesAre
  <2>6. Running' /\ Startable' /\ Recoverable'
    <3>1. Name(c) = Client => Between(c)'
      BY <1>2 DEF Between, Name
    <3>2. Startable'
      BY <1>1, <1>6, <1>4, <2>2, <2>5, <3>1 DEF Startable
    <3>3. Running' /\ Recoverable'
      BY <1>1, <1>2, <1>3, <1>6, <2>2, <2>3, <2>5 DEF Running, Recoverable, Ran, Locked
    <3>4. QED
      BY <3>2, <3>3
  <2>7. Genuine' /\ Whole' /\ NotOlder'
    BY <1>1, <1>2, <1>3, <2>2, <2>5, ZenonT(40) DEF Genuine, Newer, Over, Whole, NotOlder
  <2>8. InPlace'
    <3>1. ASSUME NEW d \in Calls, ~Over(d)', job'[d].alone PROVE d = c /\ ~Over(d) /\ job[d].alone
      BY <1>2, <1>3, <3>1 DEF InPlace, Over
    <3>2. \A b \in Releases[job[c].release].binaries : b \in Binaries
      BY <1>3, ReleaseFacts
    <3>3. QED
      BY <1>1, <1>2, <1>3, <2>2, <3>1, <3>2 DEF InPlace, Over, Done
  <2>9. QED
    BY <2>4, <2>6, <2>7, <2>8
<1>7. QED
  BY <1>5, <1>6 DEF Aside, disk

\* The renamed executable is complete and newer; what is left is the rest.
LEMMA MoveFacts ==
  ASSUME IInv, NEW c \in Calls, Move(c)
  PROVE  /\ UNCHANGED <<platform, up, running, pending, old>>
         /\ job[c].step = "move" /\ ~Locked(Name(c), "exe")
         /\ \A b \in Binaries : exe'[b] = IF b = Name(c) THEN Done(c) ELSE exe[b]
         /\ exe' \in [Binaries -> File]
         /\ image' = IF Name(c) = Client /\ image = "exe" THEN "unlinked" ELSE image
         /\ cut' = (cut /\ Name(c) # Client)
         /\ job' = [job EXCEPT ![c] = job'[c]]
         /\ \A d \in Calls \ {c} : job'[d] = job[d]
         /\ job'[c] \in Jobs
         /\ job'[c].step \in {"failed", "installed", FirstStep}
         /\ job'[c].step = "failed" => job'[c].left = <<>>
         /\ job'[c].step # "failed" =>
              /\ job'[c].release = job[c].release /\ job'[c].whole
              /\ job'[c].alone = job[c].alone
              /\ job'[c].step = "installed" <=> job'[c].left = <<>>
              /\ Range(job[c].left) = {Name(c)} \cup Range(job'[c].left)
<1>1. /\ UNCHANGED <<platform, up, running, pending, old>>
      /\ job[c].step = "move" /\ ~Locked(Name(c), "exe")
      /\ image' = IF Name(c) = Client /\ image = "exe" THEN "unlinked" ELSE image
      /\ cut' = (cut /\ Name(c) # Client)
  BY DEF Move, Otherwise
<1>2. /\ job[c] \in Jobs /\ job[c].left \in Seq(Binaries) /\ job[c].left # <<>>
      /\ Name(c) \in Binaries /\ job[c].release \in Tags /\ job[c].whole = TRUE
  <2>1. job[c] \in Jobs /\ job[c].whole
    BY <1>1, NameFacts
  <2>2. job[c].whole = TRUE
    BY <2>1 DEF Jobs
  <2>3. QED
    BY <1>1, <2>2, NameFacts
<1>3. exe' = [exe EXCEPT ![Name(c)] = Done(c)] /\ Done(c) \in File
  BY <1>2 DEF Move, Done, File
<1>4. /\ \A b \in Binaries : exe'[b] = IF b = Name(c) THEN Done(c) ELSE exe[b]
      /\ exe' \in [Binaries -> File]
  BY <1>2, <1>3 DEF IInv, TypeOK
<1>5. /\ Tail(job[c].left) \in Seq(Binaries)
      /\ Range(job[c].left) = {Name(c)} \cup Range(Tail(job[c].left))
      /\ Len(job[c].left) = 1 <=> Tail(job[c].left) = <<>>
  BY <1>2, TakeHead DEF Name
<1>6. CASE job' = Failed(c)
  <2>1. job'[c] = [NoJob EXCEPT !.alone = job[c].alone]
    BY <1>6 DEF Failed, IInv, TypeOK
  <2>2. job'[c] \in Jobs /\ job'[c].step = "failed" /\ job'[c].left = <<>>
    BY <1>2, <2>1, NoJobType DEF NoJob, Jobs
  <2>3. job' = [job EXCEPT ![c] = job'[c]] /\ \A d \in Calls \ {c} : job'[d] = job[d]
    BY <1>6 DEF Failed, IInv, TypeOK
  <2>4. QED
    BY <1>1, <1>4, <2>2, <2>3
<1>7. CASE job' = Following(c)
  <2>1. job' = [job EXCEPT ![c] = job'[c]] /\ \A d \in Calls \ {c} : job'[d] = job[d]
    BY <1>7 DEF Following, IInv, TypeOK
  <2>2. FirstStep \in {"clear", "move"}
    BY DEF FirstStep
  <2>3. job'[c] = IF Len(job[c].left) = 1
                  THEN [job[c] EXCEPT !.step = "installed", !.left = <<>>]
                  ELSE [job[c] EXCEPT !.step = FirstStep, !.left = Tail(job[c].left)]
    BY <1>7 DEF Following, IInv, TypeOK
  <2>4. /\ job'[c] \in Jobs /\ job'[c].release = job[c].release /\ job'[c].whole = TRUE
        /\ job'[c].alone = job[c].alone /\ job'[c].left = Tail(job[c].left)
        /\ job'[c].step = IF job'[c].left = <<>> THEN "installed" ELSE FirstStep
    <3>1. CASE Len(job[c].left) = 1
      <4>1. job'[c] = [job[c] EXCEPT !.step = "installed", !.left = <<>>]
        BY <2>3, <3>1
      <4>2. QED
        BY <1>2, <1>5, <3>1, <4>1, EmptySeq, ZenonT(40) DEF Jobs
    <3>2. CASE Len(job[c].left) # 1
      <4>1. job'[c] = [job[c] EXCEPT !.step = FirstStep, !.left = Tail(job[c].left)]
        BY <2>3, <3>2
      <4>2. QED
        BY <1>2, <1>5, <2>2, <3>2, <4>1 DEF Jobs
    <3>3. QED
      BY <3>1, <3>2
  <2>5. QED
    BY <1>1, <1>4, <1>5, <2>1, <2>2, <2>4
<1>8. QED
  BY <1>6, <1>7 DEF Move

\* The rename puts a complete, newer executable in place; on Windows the client
\* that runs has been moved out of its way.
LEMMA MoveKeeps == ASSUME IInv, NEW c \in Calls, Move(c) PROVE IInv'
<1>1. /\ UNCHANGED <<platform, up, running, pending, old>>
      /\ job[c].step = "move" /\ ~Locked(Name(c), "exe")
      /\ \A b \in Binaries : exe'[b] = IF b = Name(c) THEN Done(c) ELSE exe[b]
      /\ exe' \in [Binaries -> File]
      /\ image' = IF Name(c) = Client /\ image = "exe" THEN "unlinked" ELSE image
      /\ cut' = (cut /\ Name(c) # Client)
  BY MoveFacts
<1>2. /\ job' = [job EXCEPT ![c] = job'[c]]
      /\ \A d \in Calls \ {c} : job'[d] = job[d]
      /\ job'[c] \in Jobs
      /\ job'[c].step \in {"failed", "installed", FirstStep}
      /\ job'[c].step = "failed" => job'[c].left = <<>>
      /\ job'[c].step # "failed" =>
           /\ job'[c].release = job[c].release /\ job'[c].whole
           /\ job'[c].alone = job[c].alone
           /\ job'[c].step = "installed" <=> job'[c].left = <<>>
           /\ Range(job[c].left) = {Name(c)} \cup Range(job'[c].left)
  BY MoveFacts
<1>3. /\ Name(c) \in Binaries /\ ~Over(c) /\ up /\ job[c].left # <<>>
      /\ job[c].release \in Tags /\ Newer(job[c].release)
  BY <1>1, NameFacts
<1>4. FirstStep = IF platform = "windows" THEN "clear" ELSE "move"
  BY DEF FirstStep
<1>5. Done(c) # Missing /\ Done(c).whole /\ Done(c).release = job[c].release
  BY <1>3, ReleaseFacts DEF Done, Missing
<1> USE DEF IInv
<1>6. TypeOK'
  <2>1. \A d \in Calls : job'[d].step \in {"clear", "aside", "move"} <=> job'[d].left # <<>>
    BY <1>2, <1>4 DEF TypeOK
  <2>2. QED
    BY <1>1, <1>2, <1>3, <2>1 DEF TypeOK
<1>7. Client \in Binaries
  BY BinariesAre
<1>8. Running' /\ Startable' /\ Recoverable'
  <2>1. CASE Name(c) = Client
    <3>1. exe'[Client] # Missing
      BY <1>1, <1>5, <1>7, <2>1
    <3>2. QED
      BY <1>1, <1>2, <1>3, <1>4, <2>1, <3>1 DEF Running, Startable, Recoverable, Ran, Locked
  <2>2. CASE Name(c) # Client
    <3>1. \A d \in Calls : Between(d) => Between(d)'
      BY <1>2, <2>2 DEF Between, Name
    <3>2. Startable'
      BY <1>1, <1>7, <2>2, <3>1, StartableStays
    <3>3. QED
      BY <1>1, <1>2, <1>3, <1>4, <1>7, <2>2, <3>2 DEF Running, Recoverable, Ran
  <2>3. QED
    BY <2>1, <2>2
<1>9. Genuine'
  BY <1>1, <1>2, <1>3 DEF Genuine, Newer, Over
<1>10. Whole' /\ NotOlder'
  BY <1>1, <1>3, <1>5, <1>7 DEF Whole, NotOlder, Newer
<1>11. InPlace'
  <2>1. ASSUME NEW d \in Calls, ~Over(d)', job'[d].alone
        PROVE  d = c /\ job'[c].step # "failed" /\ job'[c].step # "installed"
    BY <1>2, <1>3, <2>1 DEF InPlace, Over
  <2>2. \A d \in Calls : Over(d) => Over(d)'
    BY <1>2, <1>3 DEF Over
  <2>3. \A b \in Releases[job[c].release].binaries : b \in Binaries
    BY <1>3, ReleaseFacts
  <2>4. QED
    <3> SUFFICES ASSUME ~Over(c)', job'[c].alone,
                        job'[c].step # "failed", job'[c].step # "installed"
                 PROVE  /\ \A d \in Calls \ {c} : Over(d)'
                        /\ \A b \in Releases[job[c].release].binaries :
                             b \in Range(job'[c].left) \/ exe'[b] = Done(c)
      BY <1>1, <1>2, <2>1, ZenonT(40) DEF InPlace, Done
    <3>1. \A d \in Calls \ {c} : Over(d)'
      BY <1>2, <1>3, <2>2 DEF InPlace
    <3>2. \A b \in Releases[job[c].release].binaries : b \in Range(job[c].left) \/ exe[b] = Done(c)
      BY <1>1, <1>2, <1>3 DEF InPlace
    <3>3. QED
      BY <1>1, <1>2, <2>3, <3>1, <3>2
<1>12. QED
  BY <1>6, <1>8, <1>9, <1>10, <1>11

-----------------------------------------------------------------------------
(* What every reachable state satisfies.                                   *)

LEMMA NextKeeps == ASSUME IInv, [Next]_vars PROVE IInv'
<1>1. CASE UNCHANGED vars
  <2> USE <1>1 DEF vars, disk, IInv
  <2>1. TypeOK' /\ Whole' /\ Startable' /\ Recoverable' /\ NotOlder'
    BY DEF TypeOK, Over, Whole, Startable, Between, Name, Recoverable, Ran, NotOlder, Newer
  <2>2. Genuine' /\ Running' /\ InPlace'
    BY DEF Genuine, Newer, Running, Ran, InPlace, Over, Done
  <2>3. QED
    BY <2>1, <2>2
<1>2. QED
  BY <1>1, CheckKeeps, ExitKeeps, StartKeeps, CallInstallKeeps, FailuresKeep,
     DownloadKeeps, UnpackKeeps, ClearKeeps, AsideKeeps, MoveKeeps DEF Next

\* The invariant the theorems below rest on.
THEOREM InductiveInvariant == Spec => []IInv
<1>1. Init => IInv
  <2> SUFFICES ASSUME Init PROVE IInv
    OBVIOUS
  <2>1. \A c \in Calls : Over(c) /\ job[c].left = <<>>
    BY NoJobType DEF Init, Over
  <2>2. [release |-> 1, whole |-> TRUE] \in File /\ Missing \in File
        /\ [release |-> 1, whole |-> TRUE] # Missing
    BY ReleaseFacts DEF File, Missing
  <2>3. /\ exe \in [Binaries -> File] /\ exe[Client] = [release |-> 1, whole |-> TRUE]
        /\ \A b \in Binaries : exe[b] = Missing \/ exe[b].whole
    <3>1. PICK ctl \in {Missing, [release |-> 1, whole |-> TRUE]} :
            exe = [b \in Binaries |-> IF b = Client THEN [release |-> 1, whole |-> TRUE] ELSE ctl]
      BY DEF Init
    <3>2. /\ [release |-> 1, whole |-> TRUE].whole
          /\ ctl \in File /\ (ctl = Missing \/ ctl.whole)
      <4>1. [release |-> 1, whole |-> TRUE].whole
        OBVIOUS
      <4>2. CASE ctl = Missing
        BY <2>2, <4>1, <4>2
      <4>3. CASE ctl = [release |-> 1, whole |-> TRUE]
        BY <2>2, <4>1, <4>3
      <4>4. QED
        BY <3>1, <4>2, <4>3
    <3>3. \A b \in Binaries : exe[b] = IF b = Client THEN [release |-> 1, whole |-> TRUE] ELSE ctl
      BY <3>1
    <3>4. Client \in Binaries
      BY BinariesAre
    <3>5. exe \in [Binaries -> File]
      BY <2>2, <3>1, <3>2
    <3>6. QED
      BY <3>2, <3>3, <3>4, <3>5
  <2>4. TypeOK
    BY <2>1, <2>2, <2>3, NoJobType, ReleaseFacts DEF Init, TypeOK, Over
  <2>5. Whole /\ Startable /\ Recoverable /\ NotOlder
    BY <2>2, <2>3, ReleaseFacts DEF Whole, Startable, Recoverable, Ran, NotOlder, Init
  <2>6. Genuine /\ Running /\ InPlace
    BY <2>1, <2>2, <2>3, NoJobType DEF Init, Genuine, Running, Ran, InPlace, Over
  <2>7. QED
    BY <2>4, <2>5, <2>6 DEF IInv
<1>2. IInv /\ [Next]_vars => IInv'
  BY NextKeeps
<1>3. QED
  BY <1>1, <1>2, PTL DEF Spec

\* The variables keep their types.
THEOREM TypeCorrect == Spec => []TypeOK
  BY InductiveInvariant, PTL DEF IInv

\* Releases is a list from the oldest to the newest.
Ascending ==
  \A i, j \in Tags : NewerThan(Releases[i].version, Releases[j].version) => i > j

\* Where the releases are listed in their order of precedence (and any can be,
\* by PrecedenceIsAnOrder), whatever fails and however many installs overlap, the
\* client that can be started is complete and no older; on Unix there is one at
\* any moment, on Windows unless an install is, or has ended, between the two
\* renames of the client, which then is kept under its other name.
THEOREM ClientSurvives == Ascending => (Spec => []ClientIsKept)
<1> SUFFICES ASSUME Ascending PROVE Spec => []ClientIsKept
  OBVIOUS
<1>1. IInv => ClientIsKept
  <2> SUFFICES ASSUME IInv PROVE ClientIsKept
    OBVIOUS
  <2>1. running \in Tags /\ Tags \subseteq Nat
    BY ReleaseFacts DEF IInv, TypeOK
  <2>2. NoDowngrade
    BY <2>1 DEF IInv, NotOlder, NoDowngrade, Newer, Ascending
  <2>3. QED
    BY <2>2 DEF IInv, ClientIsKept
<1>2. QED
  BY <1>1, InductiveInvariant, PTL

\* An install that ran by itself and reports success has put everything its
\* archive holds in place.
THEOREM SuccessIsComplete == Spec => InstalledIsInPlace
<1>1. ASSUME IInv, [Next]_vars, NEW c \in Calls,
             ~Over(c), job'[c].step = "installed", job'[c].alone
      PROVE  \A b \in Releases[job[c].release].binaries :
               exe'[b] = [release |-> job[c].release, whole |-> TRUE]
  <2>1. Move(c)
    <3>1. job[c].step # "installed"
      BY <1>1 DEF Over
    <3>2. CASE \E d \in Calls : CallInstall(d)
      <4>1. PICK d \in Calls : CallInstall(d)
        BY <3>2
      <4>2. /\ c = d => job'[c].step = "download"
            /\ c # d => \E alone \in BOOLEAN : job'[c] = [job[c] EXCEPT !.alone = alone]
        BY <4>1 DEF CallInstall, NoJob
      <4>3. c # d => job'[c].step = job[c].step
        <5> SUFFICES ASSUME c # d PROVE job'[c].step = job[c].step
          OBVIOUS
        <5>1. PICK alone \in BOOLEAN : job'[c] = [job[c] EXCEPT !.alone = alone]
          BY <4>2
        <5>2. job[c] \in Jobs
          BY <1>1 DEF IInv, TypeOK
        <5>3. QED
          BY <5>1, <5>2 DEF Jobs
      <4>4. QED
        BY <1>1, <3>1, <4>2, <4>3
    <3>3. CASE \E d \in Calls : Fails(d) \/ AsideFails(d) \/ MoveFails(d)
      BY <1>1, <3>1, <3>3 DEF Fails, AsideFails, MoveFails, Failed, NoJob, IInv, TypeOK
    <3>4. CASE \E d \in Calls : Download(d) \/ Unpack(d)
      <4>1. PICK d \in Calls : Download(d) \/ Unpack(d)
        BY <3>4
      <4>2. CASE Download(d)
        BY <1>1, <3>1, <4>2 DEF Download, Failed, NoJob, IInv, TypeOK, Jobs
      <4>3. CASE Unpack(d)
        BY <1>1, <3>1, <4>3 DEF Unpack, Failed, FirstStep, NoJob, IInv, TypeOK, Jobs
      <4>4. QED
        BY <4>1, <4>2, <4>3
    <3>5. CASE \E d \in Calls : Clear(d) \/ Aside(d)
      BY <1>1, <3>1, <3>5, ZenonT(40) DEF Clear, Aside, Goto, IInv, TypeOK, Jobs
    <3>6. CASE CheckUpdate \/ Exit \/ Start \/ UNCHANGED vars
      BY <1>1, <3>1, <3>6 DEF CheckUpdate, Exit, Start, NoJob, vars
    <3>7. CASE \E d \in Calls : Move(d)
      BY <1>1, <3>1, <3>7, MoveFacts
    <3>8. QED
      BY <1>1, <3>2, <3>3, <3>4, <3>5, <3>6, <3>7 DEF Next
  <2>2. /\ job[c].step = "move"
        /\ \A b \in Binaries : exe'[b] = IF b = Name(c) THEN Done(c) ELSE exe[b]
        /\ job[c].alone /\ Range(job[c].left) = {Name(c)} \cup Range(<<>>)
    BY <1>1, <2>1, MoveFacts
  <2>3. job[c].release \in Tags
    BY <1>1 DEF IInv, Genuine
  <2>4. Range(<<>>) = {}
    BY DEF Range
  <2>5. QED
    BY <1>1, <2>2, <2>3, <2>4, ReleaseFacts DEF IInv, InPlace, Done
<1>2. IInv /\ [Next]_vars =>
        [\A c \in Calls :
           ~Over(c) /\ job'[c].step = "installed" /\ job'[c].alone =>
             \A b \in Releases[job[c].release].binaries :
               exe'[b] = [release |-> job[c].release, whole |-> TRUE]]_vars
  BY <1>1
<1>3. QED
  BY <1>2, InductiveInvariant, PTL DEF Spec, InstalledIsInPlace
=============================================================================
