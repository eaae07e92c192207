---------------------------- MODULE Session_proofs ----------------------------
(***************************************************************************)
(* Theorems about the two parts of a session that live beside the core:     *)
(* Traffic, for every finite set of slots for goroutines, every amount of   *)
(* traffic and every number of days, and SysProxy, for every set of         *)
(* backends and of callers, every number of failures and every order of     *)
(* what goes wrong.  The two share no variable.                             *)
(***************************************************************************)
EXTENDS Traffic, SysProxy, FiniteSetTheorems, WellFoundedInduction, TLAPS

-----------------------------------------------------------------------------
(* The inductive invariant.                                                *)

\* Counters and what was read of them are within what was carried; Disconnect's
\* own flush is part of Disconnect.
Bounded ==
  /\ carried \in 0..Bytes /\ counter <= carried
  /\ \A f \in Flushers : flush[f].reading \in 0..Bytes
  /\ ~At(Caller, "none") => call = "flush"

\* A reading that is still good lies between the base and the counter.
GoodReadings ==
  /\ fresh => usageBase <= counter
  /\ \A f \in Flushers : At(f, "lock") /\ flush[f].sound =>
       flush[f].reading <= counter /\ (fresh => usageBase <= flush[f].reading)

\* Only one flush is about to save, and what it saves is the file with its delta.
OneSave ==
  /\ \A f, g \in Flushers : At(f, "save") /\ At(g, "save") => f = g
  /\ \A f \in Flushers : At(f, "save") =>
       flush[f].doc.bytes =
         flush[f].delta + IF flush[f].doc.day = usage.day THEN usage.bytes ELSE 0

\* What Disconnect has not folded when it stops the core came after it began.
TailIsNew ==
  /\ At(Caller, "lock") /\ flush[Caller].sound => counter - flush[Caller].reading <= since
  /\ flush[Caller].step \in {"load", "save"} \/ call = "core" => Unflushed <= since

IInv ==
  /\ TypeOK /\ Bounded
  /\ ~behind => GoodReadings /\ OneSave /\ TailIsNew
  /\ CountedOnce

-----------------------------------------------------------------------------
(* Sums over a finite set.                                                 *)

\* Every nonempty set of numbers has a least one.
LEMMA Least ==
  ASSUME NEW T \in SUBSET Nat, T # {}
  PROVE  \E i \in T : \A j \in T : i <= j
<1>1. PICK n \in T : TRUE
  OBVIOUS
<1> DEFINE U    == {i \in T : i <= n}
           Upto == {0..i : i \in U}
           R    == StrictSubsetOrdering(0..n)
<1>2. Upto \subseteq FiniteSubsetsOf(0..n)
  <2>1. ASSUME NEW i \in U
        PROVE  0..i \in FiniteSubsetsOf(0..n)
    BY FS_Interval DEF FiniteSubsetsOf
  <2>2. QED
    BY <2>1
<1>3. PICK x \in Upto : \A y \in Upto : <<y, x>> \notin R
  <2>1. Upto # {}
    BY <1>1
  <2>2. IsWellFoundedOn(R, FiniteSubsetsOf(0..n))
    <3>1. IsFiniteSet(0..n)
      BY FS_Interval
    <3>2. QED
      BY <3>1, FS_StrictSubsetOrderingWellFounded
  <2> HIDE DEF Upto, R
  <2>3. QED
    BY <1>2, <2>1, <2>2, WFMin
<1>4. PICK i \in U : x = 0..i
  OBVIOUS
<1>5. ASSUME NEW j \in T
      PROVE  i <= j
  <2>1. SUFFICES ASSUME j < i
                 PROVE  FALSE
    OBVIOUS
  <2>2. j \in U /\ 0..j \subseteq 0..i /\ i \in 0..i /\ i \notin 0..j /\ 0..i \subseteq 0..n
    BY <2>1
  <2>3. <<0..j, 0..i>> \in R
    BY <2>2 DEF StrictSubsetOrdering
  <2>4. QED
    BY <1>3, <1>4, <2>2, <2>3
<1>6. QED
  BY <1>5

\* Induction, over a set of numbers.
LEMMA AllNumbers ==
  ASSUME NEW G, 0 \in G, \A n \in Nat : n \in G => n + 1 \in G
  PROVE  \A n \in Nat : n \in G
<1> DEFINE T == {n \in Nat : n \notin G}
<1>1. SUFFICES ASSUME T # {}
               PROVE  FALSE
  OBVIOUS
<1>2. PICK i \in T : \A j \in T : i <= j
  BY <1>1, Least
<1>3. i # 0 /\ i - 1 \in Nat /\ i - 1 \notin T
  BY <1>2
<1>4. i - 1 + 1 \in G
  BY <1>3
<1>5. QED
  BY <1>3, <1>4

\* The recursion behind the community modules' sums.
Pick(s) == CHOOSE x \in s : TRUE
Summing(w, S, g) ==
  g = [s \in SUBSET S |-> IF s = {} THEN 0 ELSE w[Pick(s)] + g[s \ {Pick(s)}]]
Sums(w, S) == CHOOSE g : Summing(w, S, g)

LEMMA SumUnfolds ==
  ASSUME NEW w, NEW S
  PROVE  SumFunctionOnSet(w, S) = Sums(w, S)[S]
BY DEF SumFunctionOnSet, FoldFunctionOnSet, MapThenFoldSet, Summing, Sums, Pick

\* One element less.
LEMMA Smaller ==
  ASSUME NEW S, IsFiniteSet(S), NEW s \in SUBSET S, s # {}
  PROVE  /\ Pick(s) \in s /\ s \ {Pick(s)} \in SUBSET S
         /\ Cardinality(s) \in Nat /\ Cardinality(s) # 0
         /\ Cardinality(s \ {Pick(s)}) = Cardinality(s) - 1
<1>1. Pick(s) \in s
  BY DEF Pick
<1>2. IsFiniteSet(s)
  BY FS_Subset
<1>3. Cardinality(s \ {Pick(s)}) = Cardinality(s) - 1 /\ Cardinality(s) \in Nat
  BY <1>1, <1>2, FS_RemoveElement, FS_CardinalityType
<1>4. Cardinality(s) # 0
  BY <1>2, FS_EmptySet
<1>5. QED
  BY <1>1, <1>3, <1>4

\* The recursion has a solution: extend one for the sets of n elements at most.
LEMMA SumsExist ==
  ASSUME NEW S, IsFiniteSet(S), NEW w \in [S -> Int]
  PROVE  \E g \in [SUBSET S -> Int] : Summing(w, S, g)
<1> DEFINE Small(n)   == {s \in SUBSET S : Cardinality(s) <= n}
           Body(g, s) == IF s = {} THEN 0 ELSE w[Pick(s)] + g[s \ {Pick(s)}]
           Partial(n) == \E g \in [Small(n) -> Int] : \A s \in Small(n) : g[s] = Body(g, s)
           G          == {n \in Nat : Partial(n)}
<1>1. 0 \in G
  <2> DEFINE g == [s \in Small(0) |-> 0]
  <2>1. ASSUME NEW s \in Small(0)
        PROVE  s = {}
    <3>1. SUFFICES ASSUME s # {}
                   PROVE  FALSE
      OBVIOUS
    <3>2. Cardinality(s) \in Nat /\ Cardinality(s) # 0
      BY <3>1, Smaller
    <3>3. QED
      BY <3>2
  <2>2. g \in [Small(0) -> Int] /\ \A s \in Small(0) : g[s] = Body(g, s)
    BY <2>1
  <2>3. Partial(0)
    BY <2>2
  <2>4. QED
    BY <2>3
<1>2. ASSUME NEW n \in Nat, n \in G
      PROVE  n + 1 \in G
  <2>1. PICK g \in [Small(n) -> Int] : \A s \in Small(n) : g[s] = Body(g, s)
    BY <1>2
  <2> DEFINE h == [s \in Small(n + 1) |-> Body(g, s)]
  <2>2. ASSUME NEW s \in Small(n + 1), s # {}
        PROVE  Pick(s) \in S /\ s \ {Pick(s)} \in Small(n) /\ s \ {Pick(s)} \in Small(n + 1)
    <3>1. /\ Pick(s) \in s /\ s \ {Pick(s)} \in SUBSET S /\ Cardinality(s) \in Nat
          /\ Cardinality(s \ {Pick(s)}) = Cardinality(s) - 1
      BY <2>2, Smaller
    <3>2. QED
      BY <3>1
  <2>3. \A s \in Small(n) : s \in Small(n + 1)
    <3>1. ASSUME NEW s \in Small(n)
          PROVE  Cardinality(s) <= n + 1
      <4>1. Cardinality(s) \in Nat
        BY FS_Subset, FS_CardinalityType
      <4>2. QED
        BY <4>1
    <3>2. QED
      BY <3>1
  <2>4. h \in [Small(n + 1) -> Int]
    BY <2>2
  <2>5. \A s \in Small(n) : h[s] = g[s]
    BY <2>1, <2>3
  <2>6. \A s \in Small(n + 1) : h[s] = Body(h, s)
    BY <2>2, <2>5
  <2>7. Partial(n + 1)
    BY <2>4, <2>6
  <2>8. QED
    <3> HIDE DEF Partial
    <3>1. QED
      BY <2>7
<1>3. \A n \in Nat : Partial(n)
  <2> HIDE DEF Partial
  <2>1. \A n \in Nat : n \in G
    <3> HIDE DEF G
    <3>1. QED
      BY <1>1, <1>2, AllNumbers
  <2>2. QED
    BY <2>1
<1>4. Cardinality(S) \in Nat
  BY FS_CardinalityType
<1>5. Small(Cardinality(S)) = SUBSET S
  BY FS_Subset
<1>6. PICK g \in [SUBSET S -> Int] : \A s \in SUBSET S : g[s] = Body(g, s)
  BY <1>3, <1>4, <1>5, ZenonT(40)
<1>7. g = [s \in SUBSET S |-> Body(g, s)]
  BY <1>6
<1>8. QED
  BY <1>6, <1>7 DEF Summing

LEMMA SumsSolve ==
  ASSUME NEW S, IsFiniteSet(S), NEW w \in [S -> Int]
  PROVE  /\ Sums(w, S)[{}] = 0
         /\ \A s \in SUBSET S :
              s # {} => Sums(w, S)[s] = w[Pick(s)] + Sums(w, S)[s \ {Pick(s)}]
<1>1. Summing(w, S, Sums(w, S))
  BY SumsExist DEF Sums
<1> DEFINE g == Sums(w, S)
<1>2. g = [s \in SUBSET S |-> IF s = {} THEN 0 ELSE w[Pick(s)] + g[s \ {Pick(s)}]]
  BY <1>1 DEF Summing
<1> HIDE DEF g
<1>3. /\ g[{}] = 0
      /\ \A s \in SUBSET S : s # {} => g[s] = w[Pick(s)] + g[s \ {Pick(s)}]
  BY <1>2
<1>4. QED
  BY <1>3 DEF g

LEMMA SumsInt ==
  ASSUME NEW S, IsFiniteSet(S), NEW w \in [S -> Int]
  PROVE  \A s \in SUBSET S : Sums(w, S)[s] \in Int
<1> DEFINE g == Sums(w, S)
           G == {n \in Nat : \A s \in SUBSET S : Cardinality(s) = n => g[s] \in Int}
<1>1. g[{}] = 0 /\ \A s \in SUBSET S : s # {} => g[s] = w[Pick(s)] + g[s \ {Pick(s)}]
  BY SumsSolve
<1> HIDE DEF g
<1>2. 0 \in G
  <2>1. ASSUME NEW s \in SUBSET S, Cardinality(s) = 0
        PROVE  g[s] \in Int
    <3>1. s = {}
      BY <2>1, Smaller
    <3>2. QED
      BY <1>1, <3>1
  <2>2. QED
    BY <2>1
<1>3. ASSUME NEW n \in Nat, n \in G
      PROVE  n + 1 \in G
  <2>1. ASSUME NEW s \in SUBSET S, Cardinality(s) = n + 1
        PROVE  g[s] \in Int
    <3>1. CASE s = {}
      BY <1>1, <3>1
    <3>2. CASE s # {}
      <4>1. /\ Pick(s) \in s /\ s \ {Pick(s)} \in SUBSET S /\ Cardinality(s \ {Pick(s)}) = n
        BY <2>1, <3>2, Smaller
      <4>2. g[s \ {Pick(s)}] \in Int
        BY <1>3, <4>1
      <4>3. w[Pick(s)] \in Int
        BY <4>1
      <4>4. g[s] = w[Pick(s)] + g[s \ {Pick(s)}]
        BY <1>1, <3>2
      <4>5. QED
        BY <4>2, <4>3, <4>4
    <3>3. QED
      BY <3>1, <3>2
  <2>2. QED
    BY <2>1
<1>4. \A n \in Nat : n \in G
  <2> HIDE DEF G
  <2>1. QED
    BY <1>2, <1>3, AllNumbers
<1>5. \A s \in SUBSET S : Cardinality(s) \in Nat
  BY FS_Subset, FS_CardinalityType
<1>6. QED
  BY <1>4, <1>5 DEF g

\* One value changes.
LEMMA SumsChange ==
  ASSUME NEW S, IsFiniteSet(S), NEW v \in [S -> Int], NEW w \in [S -> Int], NEW x \in S,
         \A y \in S \ {x} : v[y] = w[y]
  PROVE  \A s \in SUBSET S : Sums(v, S)[s] = Sums(w, S)[s] + (IF x \in s THEN v[x] - w[x] ELSE 0)
<1> DEFINE a == Sums(v, S)
           b == Sums(w, S)
           G == {n \in Nat : \A s \in SUBSET S : Cardinality(s) = n =>
                               a[s] = b[s] + (IF x \in s THEN v[x] - w[x] ELSE 0)}
<1>1. a[{}] = 0 /\ \A s \in SUBSET S : s # {} => a[s] = v[Pick(s)] + a[s \ {Pick(s)}]
  BY SumsSolve
<1>2. b[{}] = 0 /\ \A s \in SUBSET S : s # {} => b[s] = w[Pick(s)] + b[s \ {Pick(s)}]
  BY SumsSolve
<1>3. \A s \in SUBSET S : a[s] \in Int /\ b[s] \in Int
  BY SumsInt
<1> HIDE DEF a, b
<1>4. 0 \in G
  <2>1. ASSUME NEW s \in SUBSET S, Cardinality(s) = 0
        PROVE  a[s] = b[s] + (IF x \in s THEN v[x] - w[x] ELSE 0)
    <3>1. s = {}
      BY <2>1, Smaller
    <3>2. x \notin s
      BY <3>1
    <3>3. a[s] = 0 /\ b[s] = 0
      BY <1>1, <1>2, <3>1
    <3>4. QED
      BY <3>2, <3>3
  <2>2. QED
    BY <2>1
<1>5. ASSUME NEW n \in Nat, n \in G
      PROVE  n + 1 \in G
  <2>1. ASSUME NEW s \in SUBSET S, Cardinality(s) = n + 1
        PROVE  a[s] = b[s] + (IF x \in s THEN v[x] - w[x] ELSE 0)
    <3>1. CASE s = {}
      BY <1>1, <1>2, <3>1
    <3>2. CASE s # {}
      <4> DEFINE p == Pick(s)
                 r == s \ {p}
      <4>1. p \in s /\ r \in SUBSET S /\ Cardinality(r) = n
        BY <2>1, <3>2, Smaller
      <4>2. a[s] = v[p] + a[r] /\ b[s] = w[p] + b[r]
        BY <1>1, <1>2, <3>2
      <4>3. x \in r <=> x \in s /\ x # p
        OBVIOUS
      <4> HIDE DEF p
      <4>4. a[r] = b[r] + (IF x \in r THEN v[x] - w[x] ELSE 0)
        BY <1>5, <4>1
      <4> HIDE DEF r
      <4>5. a[r] \in Int /\ b[r] \in Int /\ v[p] \in Int /\ w[p] \in Int /\ v[x] \in Int /\ w[x] \in Int
        BY <1>3, <4>1
      <4>6. CASE x = p
        BY <4>1, <4>2, <4>3, <4>4, <4>5, <4>6
      <4>7. CASE x # p
        <5>1. v[p] = w[p]
          BY <4>1, <4>7
        <5>2. QED
          BY <4>2, <4>3, <4>4, <4>5, <4>7, <5>1
      <4>8. QED
        BY <4>6, <4>7
    <3>3. QED
      BY <3>1, <3>2
  <2>2. QED
    BY <2>1
<1>6. \A n \in Nat : n \in G
  <2> HIDE DEF G
  <2>1. QED
    BY <1>4, <1>5, AllNumbers
<1>7. \A s \in SUBSET S : Cardinality(s) \in Nat
  BY FS_Subset, FS_CardinalityType
<1>8. QED
  BY <1>6, <1>7 DEF a, b

\* Nothing but zeros.
LEMMA SumsZero ==
  ASSUME NEW S, IsFiniteSet(S), NEW w \in [S -> Int], \A x \in S : w[x] = 0
  PROVE  \A s \in SUBSET S : Sums(w, S)[s] = 0
<1> DEFINE g == Sums(w, S)
           G == {n \in Nat : \A s \in SUBSET S : Cardinality(s) = n => g[s] = 0}
<1>1. g[{}] = 0 /\ \A s \in SUBSET S : s # {} => g[s] = w[Pick(s)] + g[s \ {Pick(s)}]
  BY SumsSolve
<1> HIDE DEF g
<1>2. 0 \in G
  <2>1. ASSUME NEW s \in SUBSET S, Cardinality(s) = 0
        PROVE  s = {}
    BY <2>1, Smaller
  <2>2. QED
    BY <1>1, <2>1
<1>3. ASSUME NEW n \in Nat, n \in G
      PROVE  n + 1 \in G
  <2>1. ASSUME NEW s \in SUBSET S, Cardinality(s) = n + 1
        PROVE  g[s] = 0
    <3>1. CASE s = {}
      BY <1>1, <3>1
    <3>2. CASE s # {}
      <4>1. /\ Pick(s) \in s /\ s \ {Pick(s)} \in SUBSET S /\ Cardinality(s \ {Pick(s)}) = n
        BY <2>1, <3>2, Smaller
      <4>2. g[s \ {Pick(s)}] = 0
        BY <1>3, <4>1
      <4>3. w[Pick(s)] = 0
        BY <4>1
      <4>4. QED
        BY <1>1, <3>2, <4>2, <4>3
    <3>3. QED
      BY <3>1, <3>2
  <2>2. QED
    BY <2>1
<1>4. \A n \in Nat : n \in G
  <2> HIDE DEF G
  <2>1. QED
    BY <1>2, <1>3, AllNumbers
<1>5. \A s \in SUBSET S : Cardinality(s) \in Nat
  BY FS_Subset, FS_CardinalityType
<1>6. QED
  BY <1>4, <1>5 DEF g

\* What the proofs use of SumFunction.
LEMMA SumOfFunction ==
  ASSUME NEW S, IsFiniteSet(S), NEW w \in [S -> Int]
  PROVE  /\ SumFunction(w) \in Int
         /\ (\A x \in S : w[x] = 0) => SumFunction(w) = 0
         /\ \A v \in [S -> Int], x \in S :
              (\A y \in S \ {x} : v[y] = w[y]) => SumFunction(v) = SumFunction(w) + v[x] - w[x]
<1>1. ASSUME NEW u \in [S -> Int]
      PROVE  SumFunction(u) = Sums(u, S)[S]
  BY SumUnfolds DEF SumFunction
<1>2. SumFunction(w) = Sums(w, S)[S] /\ SumFunction(w) \in Int
  BY <1>1, SumsInt
<1>3. (\A x \in S : w[x] = 0) => SumFunction(w) = 0
  BY <1>2, SumsZero
<1>4. ASSUME NEW v \in [S -> Int], NEW x \in S, \A y \in S \ {x} : v[y] = w[y]
      PROVE  SumFunction(v) = SumFunction(w) + v[x] - w[x]
  <2>1. Sums(v, S)[S] = Sums(w, S)[S] + (v[x] - w[x])
    BY <1>4, SumsChange
  <2>2. v[x] \in Int /\ w[x] \in Int
    OBVIOUS
  <2> HIDE DEF SumFunction
  <2>3. QED
    BY <1>1, <1>2, <2>1, <2>2
<1>5. QED
  BY <1>2, <1>3, <1>4

-----------------------------------------------------------------------------
(* What is on its way into the file.                                       *)

\* What the type invariant says, in the form the proofs use.
LEMMA Types ==
  ASSUME TypeOK
  PROVE  /\ counter \in Nat /\ usageBase \in Nat /\ usageBase \in 0..Bytes /\ Bytes \in Nat
         /\ flush \in [Flushers -> Flush]
         /\ \A f \in Flushers :
              /\ flush[f].step \in {"none", "lock", "load", "save"}
              /\ flush[f].reading \in Nat /\ flush[f].delta \in Nat
              /\ flush[f].doc \in Usage /\ flush[f].doc.day \in 1..Days /\ flush[f].doc.bytes \in Nat
              /\ flush[f].sound \in BOOLEAN
         /\ usage \in Usage /\ usage.day \in 1..Days /\ usage.bytes \in Nat
         /\ today \in 1..Days /\ carried \in Nat /\ past \in Nat /\ since \in Nat /\ lost \in Int
<1>1. counter \in Nat /\ usageBase \in Nat /\ Bytes \in Nat
  BY TrafficAssumption DEF TypeOK
<1>2. \A f \in Flushers : flush[f] \in Flush
  BY DEF TypeOK
<1>3. ASSUME NEW f \in Flushers
      PROVE  /\ flush[f].step \in {"none", "lock", "load", "save"}
             /\ flush[f].reading \in Nat /\ flush[f].delta \in Nat
             /\ flush[f].doc \in Usage /\ flush[f].doc.day \in 1..Days /\ flush[f].doc.bytes \in Nat
             /\ flush[f].sound \in BOOLEAN
  BY <1>2 DEF Flush, Usage
<1>4. carried \in Nat /\ past \in Nat /\ since \in Nat
  BY DEF TypeOK
<1>5. usage.day \in 1..Days /\ usage.bytes \in Nat
  BY DEF TypeOK, Usage
<1>6. QED
  BY <1>1, <1>3, <1>4, <1>5 DEF TypeOK

LEMMA FlushersFinite == IsFiniteSet(Flushers)
BY TrafficAssumption, FS_AddElement, FS_Singleton, FS_Union DEF Flushers

LEMMA Carries ==
  ASSUME NEW fl \in [Flushers -> Flush], NEW f \in Flushers
  PROVE  (IF fl[f].step \in {"load", "save"} THEN fl[f].delta ELSE 0) \in Int
<1>1. fl[f] \in Flush
  OBVIOUS
<1>2. fl[f].delta \in Nat
  BY <1>1 DEF Flush
<1>3. QED
  BY <1>2

LEMMA Delays ==
  ASSUME TypeOK
  PROVE  [f \in Flushers |-> InFlight(f)] \in [Flushers -> Int]
BY Types DEF InFlight

\* Nothing on its way, and one flush changing what it carries.
LEMMA NoFlight ==
  ASSUME TypeOK
  PROVE  /\ AllInFlight \in Int
         /\ (\A f \in Flushers : InFlight(f) = 0) => AllInFlight = 0
<1> DEFINE w == [f \in Flushers |-> InFlight(f)]
<1>1. w \in [Flushers -> Int]
  BY Delays
<1>2. \A f \in Flushers : w[f] = InFlight(f)
  OBVIOUS
<1>3. AllInFlight = SumFunction(w)
  BY DEF AllInFlight
<1> HIDE DEF w
<1>4. QED
  BY <1>1, <1>2, <1>3, FlushersFinite, SumOfFunction

LEMMA FlightMoves ==
  ASSUME TypeOK, TypeOK', NEW f \in Flushers, \A g \in Flushers \ {f} : InFlight(g)' = InFlight(g)
  PROVE  AllInFlight' = AllInFlight + InFlight(f)' - InFlight(f)
<1> DEFINE w == [g \in Flushers |-> InFlight(g)]
           v == [g \in Flushers |-> InFlight(g)']
<1>1. w \in [Flushers -> Int] /\ v \in [Flushers -> Int]
  BY Carries DEF TypeOK, InFlight
<1>2. \A g \in Flushers : w[g] = InFlight(g) /\ v[g] = InFlight(g)'
  OBVIOUS
<1>3. AllInFlight = SumFunction(w) /\ AllInFlight' = SumFunction(v)
  BY DEF AllInFlight
<1> HIDE DEF w, v
<1>4. QED
  BY <1>1, <1>2, <1>3, FlushersFinite, SumOfFunction

LEMMA EmptyFlight ==
  ASSUME TypeOK', \A g \in Flushers : InFlight(g)' = 0
  PROVE  AllInFlight' = 0
<1> DEFINE v == [g \in Flushers |-> InFlight(g)']
<1>1. v \in [Flushers -> Int] /\ \A g \in Flushers : v[g] = 0
  OBVIOUS
<1>2. AllInFlight' = SumFunction(v)
  BY DEF AllInFlight
<1> HIDE DEF v
<1>3. QED
  BY <1>1, <1>2, FlushersFinite, SumOfFunction

LEMMA FlightKept ==
  ASSUME TypeOK, TypeOK', \A g \in Flushers : InFlight(g)' = InFlight(g)
  PROVE  AllInFlight' = AllInFlight
<1>1. Caller \in Flushers
  BY DEF Flushers
<1>2. AllInFlight' = AllInFlight + InFlight(Caller)' - InFlight(Caller)
  BY <1>1, FlightMoves
<1>3. AllInFlight \in Int /\ InFlight(Caller) \in Int
  BY <1>1, NoFlight, Types DEF InFlight
<1>4. QED
  BY <1>1, <1>2, <1>3

-----------------------------------------------------------------------------
(* Steps between the flushes.                                              *)

\* Nothing is carried, read, folded or lost.
LEMMA AccountKept ==
  ASSUME IInv, TypeOK',
         UNCHANGED <<flush, counter, usageBase, fresh, usage, past, lost, carried, behind>>,
         ~At(Caller, "none") => call' = "flush" /\ since' = since,
         call' = "core" /\ ~behind => Unflushed <= since'
  PROVE  IInv'
<1>1. Bounded'
  BY DEF IInv, Bounded, At
<1>2. ~behind => GoodReadings' /\ OneSave'
  BY DEF IInv, GoodReadings, OneSave, At
<1>3. ~behind => TailIsNew'
  BY DEF IInv, TailIsNew, At, Unflushed
<1>4. CountedOnce'
  <2>1. \A g \in Flushers : InFlight(g)' = InFlight(g)
    BY DEF InFlight
  <2>2. AllInFlight' = AllInFlight
    BY <2>1, FlightKept DEF IInv
  <2>3. Unflushed' = Unflushed
    BY DEF Unflushed
  <2>4. QED
    BY <2>2, <2>3 DEF IInv, CountedOnce
<1>5. QED
  BY <1>1, <1>2, <1>3, <1>4 DEF IInv

LEMMA NewDayStep ==
  ASSUME IInv, NewDay
  PROVE  IInv'
<1>1. /\ today < Days /\ today' = today + 1
      /\ UNCHANGED <<core, counter, call, trafficStop, meter, usageBase, flush, usage, carried, past, lost,
                     since, fresh, behind>>
  BY DEF NewDay, engine, meters, history
<1>2. today' \in 1..Days
  BY <1>1, TrafficAssumption DEF IInv, TypeOK
<1>3. TypeOK'
  BY <1>1, <1>2 DEF IInv, TypeOK
<1>4. QED
  BY <1>1, <1>3, AccountKept DEF IInv, Bounded, TailIsNew

LEMMA MeterEndsStep ==
  ASSUME IInv, NEW m \in Meters, MeterEnds(m)
  PROVE  IInv'
<1>1. /\ meter[m] = "cancelled" /\ meter' = [meter EXCEPT ![m] = "free"]
      /\ UNCHANGED <<core, counter, call, trafficStop, usageBase, flush, usage, today, carried, past, lost,
                     since, fresh, behind>>
  BY DEF MeterEnds, engine, history
<1>2. meter' \in [Meters -> {"free", "running", "cancelled"}]
  BY <1>1 DEF IInv, TypeOK
<1>3. \A n \in Meters : meter'[n] = "running" <=> trafficStop' = n
  BY <1>1 DEF IInv, TypeOK
<1>4. TypeOK'
  BY <1>1, <1>2, <1>3 DEF IInv, TypeOK
<1>5. QED
  BY <1>1, <1>4, AccountKept DEF IInv, Bounded, TailIsNew

LEMMA CallStep ==
  ASSUME IInv, CallConnect \/ StartRejected \/ CallDisconnect
  PROVE  IInv'
<1>1. /\ UNCHANGED <<core, counter, trafficStop, meter, usageBase, flush, usage, today, carried, past, lost,
                     fresh, behind>>
      /\ call \in {"idle", "start"} /\ call' \in {"idle", "start", "stop"}
      /\ since' = since \/ since' = 0
  BY DEF CallConnect, StartRejected, CallDisconnect, engine, meters, history
<1>2. since' \in Nat
  BY <1>1, Types DEF IInv
<1>3. TypeOK'
  BY <1>1, <1>2 DEF IInv, TypeOK
<1>4. At(Caller, "none") /\ call' # "core"
  BY <1>1 DEF IInv, Bounded
<1>5. QED
  BY <1>1, <1>3, <1>4, AccountKept

LEMMA StopMeterStep ==
  ASSUME IInv, StopMeter
  PROVE  IInv'
<1>1. /\ call = "stop" /\ trafficStop' = None
      /\ meter' = [m \in Meters |-> IF m = trafficStop THEN "cancelled" ELSE meter[m]]
      /\ call' = IF trafficStop = None THEN "core" ELSE "flush"
      /\ UNCHANGED <<core, counter, usageBase, flush, usage, today, carried, past, lost, since, fresh, behind>>
  BY DEF StopMeter, engine, history
<1>2. /\ meter' \in [Meters -> {"free", "running", "cancelled"}]
      /\ \A m \in Meters : meter'[m] # "running" /\ trafficStop' # m
  BY <1>1, TrafficAssumption DEF IInv, TypeOK, Flushers
<1>3. call' \in {"core", "flush"}
  BY <1>1
<1>4. TypeOK'
  BY <1>1, <1>2, <1>3 DEF IInv, TypeOK
<1>5. At(Caller, "none")
  BY <1>1 DEF IInv, Bounded
<1>6. call' = "core" /\ ~behind => Unflushed <= since
  <2>1. SUFFICES ASSUME call' = "core", ~behind
                 PROVE  Unflushed <= since
    OBVIOUS
  <2>2. counter = 0
    BY <1>1, <2>1 DEF IInv, TypeOK
  <2>3. fresh => usageBase <= counter
    BY <2>1 DEF IInv, GoodReadings
  <2>4. QED
    BY <2>2, <2>3, Types DEF IInv, Unflushed
<1>7. QED
  BY <1>1, <1>4, <1>5, <1>6, AccountKept

LEMMA CarryStep ==
  ASSUME IInv, Carry
  PROVE  IInv'
<1>1. /\ core /\ carried < Bytes /\ counter' = counter + 1 /\ carried' = carried + 1 /\ since' = since + 1
      /\ UNCHANGED <<core, call, trafficStop, meter, usageBase, flush, usage, today, past, lost, fresh, behind>>
  BY DEF Carry, meters
<1>2. /\ counter \in Nat /\ carried \in Nat /\ since \in Nat /\ usageBase \in Nat /\ Bytes \in Nat /\ lost \in Int
      /\ past \in Nat /\ usage.bytes \in Nat
      /\ counter <= carried /\ carried \in 0..Bytes /\ \A f \in Flushers : flush[f].reading \in Nat
  BY Types DEF IInv, Bounded
<1>3. TypeOK'
  BY <1>1, <1>2 DEF IInv, TypeOK
<1>4. Bounded'
  BY <1>1, <1>2 DEF IInv, Bounded, At
<1>5. Unflushed' = Unflushed + 1 /\ Unflushed \in Int
  BY <1>1, <1>2 DEF Unflushed
<1>6. ~behind => GoodReadings' /\ OneSave'
  BY <1>1, <1>2 DEF IInv, GoodReadings, OneSave, At
<1>7. ~behind => TailIsNew'
  <2>1. Caller \in Flushers
    BY DEF Flushers
  <2>2. SUFFICES ASSUME ~behind
                 PROVE  TailIsNew'
    OBVIOUS
  <2>3. At(Caller, "lock") /\ flush[Caller].sound => counter - flush[Caller].reading <= since
    BY <2>2 DEF IInv, TailIsNew
  <2>4. At(Caller, "lock") /\ flush[Caller].sound => counter' - flush[Caller].reading <= since'
    BY <1>1, <1>2, <2>1, <2>3
  <2>5. flush[Caller].step \in {"load", "save"} \/ call = "core" => Unflushed' <= since'
    BY <1>1, <1>2, <1>5, <2>2 DEF IInv, TailIsNew
  <2>6. QED
    BY <1>1, <2>4, <2>5 DEF TailIsNew, At
<1>8. CountedOnce'
  <2>1. \A g \in Flushers : InFlight(g)' = InFlight(g)
    BY <1>1 DEF InFlight
  <2>2. AllInFlight' = AllInFlight /\ AllInFlight \in Int
    BY <1>3, <2>1, FlightKept, NoFlight DEF IInv
  <2>3. QED
    BY <1>1, <1>2, <1>5, <2>2 DEF IInv, CountedOnce
<1>9. QED
  BY <1>1, <1>3, <1>4, <1>6, <1>7, <1>8 DEF IInv

-----------------------------------------------------------------------------
(* The steps of a flush.                                                   *)

LEMMA NoFlushTyped ==
  /\ NoFlush \in Flush
  /\ NoFlush.step = "none" /\ NoFlush.reading = 0 /\ NoFlush.delta = 0
<1>1. 1 \in 1..Days /\ 0 \in Nat
  BY TrafficAssumption
<1>2. QED
  BY <1>1 DEF NoFlush, Flush, Usage

\* A record of a flush with other fields.
LEMMA ReadTyped ==
  ASSUME NEW x \in Flush, NEW r \in Nat
  PROVE  LET y == [x EXCEPT !.step = "lock", !.reading = r]
         IN  /\ y \in Flush /\ y.step = "lock" /\ y.reading = r /\ y.sound = x.sound
             /\ y.delta = x.delta
BY DEF Flush

LEMMA LockTyped ==
  ASSUME NEW x \in Flush, NEW d \in Nat
  PROVE  LET y == [x EXCEPT !.step = "load", !.delta = d]
         IN  y \in Flush /\ y.step = "load" /\ y.reading = x.reading /\ y.delta = d
BY DEF Flush

LEMMA UnsoundTyped ==
  ASSUME NEW fl \in [Flushers -> Flush]
  PROVE  /\ Unsound(fl) \in [Flushers -> Flush]
         /\ \A f \in Flushers :
              /\ Unsound(fl)[f].step = fl[f].step /\ Unsound(fl)[f].reading = fl[f].reading
              /\ Unsound(fl)[f].delta = fl[f].delta /\ Unsound(fl)[f].doc = fl[f].doc
              /\ fl[f].step = "lock" => ~Unsound(fl)[f].sound
<1>1. ASSUME NEW f \in Flushers
      PROVE  LET y == [fl[f] EXCEPT !.sound = FALSE]
             IN  /\ y \in Flush /\ y.step = fl[f].step /\ y.reading = fl[f].reading
                 /\ y.delta = fl[f].delta /\ y.doc = fl[f].doc /\ y.sound = FALSE
  BY DEF Flush
<1>2. QED
  BY <1>1 DEF Unsound

LEMMA ReadStep ==
  ASSUME IInv, NEW f \in Flushers, Read(f)
  PROVE  IInv'
<1>1. /\ At(f, "none") /\ (f = Caller => call = "flush")
      /\ flush' = [flush EXCEPT ![f] = [NoFlush EXCEPT !.step = "lock", !.reading = TrafficNow]]
      /\ UNCHANGED <<core, counter, call, trafficStop, meter, usageBase, usage, today, carried, past, lost,
                     since, fresh, behind>>
  BY DEF Read, engine, meters, history
<1>2. TrafficNow = counter /\ counter \in Nat /\ counter \in 0..Bytes
  BY Types DEF IInv, TypeOK, TrafficNow
<1>3. /\ flush' \in [Flushers -> Flush] /\ flush'[f].step = "lock" /\ flush'[f].reading = counter
      /\ \A g \in Flushers \ {f} : flush'[g] = flush[g]
  <2>1. LET y == [NoFlush EXCEPT !.step = "lock", !.reading = counter]
        IN  y \in Flush /\ y.step = "lock" /\ y.reading = counter
    BY <1>2, NoFlushTyped, ReadTyped
  <2>2. flush \in [Flushers -> Flush]
    BY Types DEF IInv
  <2>3. QED
    BY <1>1, <1>2, <2>1, <2>2
<1>4. TypeOK'
  BY <1>1, <1>3 DEF IInv, TypeOK
<1>5. Bounded'
  BY <1>1, <1>2, <1>3 DEF IInv, Bounded, At
<1>6. ASSUME ~behind
      PROVE  GoodReadings' /\ OneSave' /\ TailIsNew'
  <2>1. fresh => usageBase <= counter
    BY <1>6 DEF IInv, GoodReadings
  <2>2. GoodReadings'
    BY <1>1, <1>2, <1>3, <1>6, <2>1 DEF IInv, GoodReadings, At
  <2>3. OneSave'
    BY <1>1, <1>3, <1>6 DEF IInv, OneSave, At
  <2>4. At(Caller, "lock")' /\ flush'[Caller].sound => counter' - flush'[Caller].reading <= since'
    <3>1. CASE f = Caller
      <4>1. since \in Nat
        BY Types DEF IInv
      <4>2. QED
        BY <1>1, <1>2, <1>3, <3>1, <4>1
    <3>2. CASE f # Caller
      <4>1. flush'[Caller] = flush[Caller]
        BY <1>3, <3>2 DEF Flushers
      <4>2. QED
        BY <1>1, <1>6, <4>1 DEF IInv, TailIsNew, At
    <3>3. QED
      BY <3>1, <3>2
  <2>5. flush'[Caller].step \in {"load", "save"} => flush[Caller].step \in {"load", "save"}
    BY <1>3 DEF Flushers
  <2>6. Unflushed' = Unflushed
    BY <1>1 DEF Unflushed
  <2>7. TailIsNew'
    BY <1>1, <1>6, <2>4, <2>5, <2>6 DEF IInv, TailIsNew
  <2>8. QED
    BY <2>2, <2>3, <2>7
<1>7. CountedOnce'
  <2>1. \A g \in Flushers : InFlight(g)' = InFlight(g)
    BY <1>1, <1>3 DEF InFlight, At
  <2>2. AllInFlight' = AllInFlight
    BY <1>4, <2>1, FlightKept DEF IInv
  <2>3. Unflushed' = Unflushed
    BY <1>1 DEF Unflushed
  <2>4. QED
    BY <1>1, <2>2, <2>3 DEF IInv, CountedOnce
<1>8. QED
  BY <1>1, <1>4, <1>5, <1>6, <1>7 DEF IInv

\* What taking the lock does.
LEMMA LockFacts ==
  ASSUME IInv, NEW f \in Flushers, Lock(f)
  PROVE  LET r == flush[f].reading
             d == Delta(r)
         IN  /\ At(f, "lock") /\ r \in Nat /\ r \in 0..Bytes /\ d \in Nat
             /\ usageBase' = r /\ fresh' = TRUE
             /\ flush' \in [Flushers -> Flush]
             /\ \A g \in Flushers \ {f} :
                  /\ flush'[g].step = flush[g].step /\ flush'[g].reading = flush[g].reading
                  /\ flush'[g].delta = flush[g].delta /\ flush'[g].doc = flush[g].doc
                  /\ flush[g].step = "lock" => ~flush'[g].sound
             /\ d = 0 => flush'[f] = NoFlush /\ call' = IF f = Caller THEN "core" ELSE call
             /\ d # 0 => /\ flush'[f].step = "load" /\ flush'[f].reading = r /\ flush'[f].delta = d
                         /\ call' = call
             /\ UNCHANGED <<core, counter, trafficStop, meter, usage, today, carried, past, lost, since>>
<1> DEFINE r == flush[f].reading
           d == Delta(r)
           loaded == [flush[f] EXCEPT !.step = "load", !.delta = d]
           others == [Unsound(flush) EXCEPT ![f] = loaded]
<1>1. r \in Nat /\ r \in 0..Bytes /\ usageBase \in Nat /\ flush \in [Flushers -> Flush]
  BY Types DEF IInv, Bounded
<1>2. d \in Nat
  BY <1>1 DEF Delta
<1>3. /\ At(f, "lock") /\ usageBase' = r /\ fresh' = TRUE
      /\ d = 0 => flush' = [others EXCEPT ![f] = NoFlush] /\ call' = IF f = Caller THEN "core" ELSE call
      /\ d # 0 => flush' = others /\ call' = call
      /\ UNCHANGED <<core, counter, trafficStop, meter, usage, today, carried, past, lost, since>>
  BY DEF Lock, engine, meters, history
<1>4. loaded \in Flush /\ loaded.step = "load" /\ loaded.reading = r /\ loaded.delta = d
  <2> HIDE DEF d
  <2>1. flush[f] \in Flush
    BY <1>1
  <2>2. QED
    BY <1>2, <2>1, LockTyped
<1> HIDE DEF d, loaded
<1>5. /\ others \in [Flushers -> Flush] /\ others[f] = loaded
      /\ \A g \in Flushers \ {f} : others[g] = Unsound(flush)[g]
  BY <1>1, <1>4, UnsoundTyped
<1>6. \A g \in Flushers \ {f} :
        /\ others[g].step = flush[g].step /\ others[g].reading = flush[g].reading
        /\ others[g].delta = flush[g].delta /\ others[g].doc = flush[g].doc
        /\ flush[g].step = "lock" => ~others[g].sound
  BY <1>1, <1>5, UnsoundTyped
<1> HIDE DEF others
<1>7. /\ flush' \in [Flushers -> Flush]
      /\ \A g \in Flushers \ {f} : flush'[g] = others[g]
      /\ d = 0 => flush'[f] = NoFlush
      /\ d # 0 => flush'[f] = loaded
  BY <1>3, <1>5, NoFlushTyped
<1>8. QED
  BY <1>1, <1>2, <1>3, <1>4, <1>6, <1>7 DEF d

\* Whoever takes the lock in time folds what has not been folded yet.
LEMMA LockFolds ==
  ASSUME IInv, NEW f \in Flushers, Lock(f), ~behind'
  PROVE  LET r == flush[f].reading
         IN  ~behind /\ flush[f].sound /\ r <= counter /\ Unflushed = Delta(r) + (counter - r)
<1> DEFINE r == flush[f].reading
<1>1. behind' = (\/ behind \/ ~flush[f].sound
                 \/ ~fresh /\ usageBase \in 1..r)
  BY DEF Lock
<1>2. ~behind
  BY <1>1
<1>3. flush[f].sound
  BY <1>1
<1>4. ~(~fresh /\ usageBase \in 1..r)
  BY <1>1
<1>5. At(f, "lock")
  BY DEF Lock
<1>6. r <= counter /\ (fresh => usageBase <= r)
  BY <1>2, <1>3, <1>5 DEF IInv, GoodReadings
<1>7. r \in Nat /\ usageBase \in Nat /\ counter \in Nat
  BY Types DEF IInv
<1> HIDE DEF r
<1>8. Unflushed = Delta(r) + (counter - r)
  <2>1. CASE fresh
    BY <1>6, <1>7, <2>1 DEF Unflushed, Delta
  <2>2. CASE ~fresh
    BY <1>4, <1>7, <2>2 DEF Unflushed, Delta
  <2>3. QED
    BY <2>1, <2>2
<1>9. QED
  BY <1>2, <1>3, <1>6, <1>8 DEF r

LEMMA LockStep ==
  ASSUME IInv, NEW f \in Flushers, Lock(f)
  PROVE  IInv'
<1> DEFINE r == flush[f].reading
           d == Delta(r)
<1>1. /\ At(f, "lock") /\ r \in Nat /\ r \in 0..Bytes /\ d \in Nat
      /\ usageBase' = r /\ fresh' = TRUE
      /\ flush' \in [Flushers -> Flush]
      /\ \A g \in Flushers \ {f} :
           /\ flush'[g].step = flush[g].step /\ flush'[g].reading = flush[g].reading
           /\ flush'[g].delta = flush[g].delta /\ flush'[g].doc = flush[g].doc
           /\ flush[g].step = "lock" => ~flush'[g].sound
      /\ d = 0 => flush'[f] = NoFlush /\ call' = IF f = Caller THEN "core" ELSE call
      /\ d # 0 => flush'[f].step = "load" /\ flush'[f].reading = r /\ flush'[f].delta = d /\ call' = call
      /\ UNCHANGED <<core, counter, trafficStop, meter, usage, today, carried, past, lost, since>>
  BY LockFacts
<1>2. ~behind' => /\ ~behind /\ flush[f].sound /\ r <= counter /\ Unflushed = d + (counter - r)
  BY LockFolds
<1>3. behind' \in BOOLEAN
  BY DEF Lock
<1>4. NoFlush.step = "none" /\ NoFlush.reading = 0 /\ NoFlush.delta = 0
  BY NoFlushTyped
<1> HIDE DEF r, d
<1>5. counter \in Nat /\ since \in Nat /\ Bytes \in Nat /\ Caller \in Flushers
  BY Types DEF IInv, Flushers
<1>6. TypeOK'
  BY <1>1, <1>3 DEF IInv, TypeOK
<1>7. Bounded'
  <2>1. \A g \in Flushers : flush'[g].reading \in 0..Bytes
    BY <1>1, <1>4, <1>5 DEF IInv, Bounded
  <2>2. ~At(Caller, "none")' => call' = "flush"
    BY <1>1, <1>4, <1>5 DEF IInv, Bounded, At
  <2>3. QED
    BY <1>1, <2>1, <2>2 DEF IInv, Bounded
<1>8. Unflushed' = counter - r
  BY <1>1 DEF Unflushed
<1>9. \A g \in Flushers : At(g, "lock")' => ~flush'[g].sound
  BY <1>1, <1>4 DEF At
<1>10. ASSUME ~behind'
       PROVE  GoodReadings' /\ OneSave' /\ TailIsNew'
  <2>1. GoodReadings'
    BY <1>1, <1>2, <1>9, <1>10 DEF GoodReadings
  <2>2. \A g \in Flushers : At(g, "save")' => g # f /\ At(g, "save")
    BY <1>1, <1>4 DEF At
  <2>3. OneSave'
    BY <1>1, <1>2, <1>10, <2>2 DEF IInv, OneSave
  <2>4. f = Caller => counter - r <= since
    BY <1>1, <1>2, <1>10 DEF IInv, TailIsNew, r
  <2>5. flush[Caller].step \in {"load", "save"} \/ call = "core" => Unflushed <= since
    BY <1>2, <1>10 DEF IInv, TailIsNew
  <2>6. flush'[Caller].step \in {"load", "save"} \/ call' = "core" =>
          \/ f = Caller
          \/ flush[Caller].step \in {"load", "save"} \/ call = "core"
    BY <1>1, <1>5
  <2>7. Unflushed = d + (counter - r)
    BY <1>2, <1>10
  <2>8. flush'[Caller].step \in {"load", "save"} \/ call' = "core" => counter - r <= since
    BY <1>1, <1>5, <2>4, <2>5, <2>6, <2>7
  <2>9. TailIsNew'
    BY <1>1, <1>5, <1>8, <1>9, <2>8 DEF TailIsNew
  <2>10. QED
    BY <2>1, <2>3, <2>9
<1>11. CountedOnce'
  <2>1. \A g \in Flushers \ {f} : InFlight(g)' = InFlight(g)
    BY <1>1 DEF InFlight
  <2>2. InFlight(f) = 0 /\ InFlight(f)' = d
    BY <1>1, <1>4 DEF InFlight, At
  <2>3. AllInFlight' = AllInFlight + d /\ AllInFlight \in Int
    BY <1>1, <1>6, <2>1, <2>2, FlightMoves, NoFlight DEF IInv
  <2>4. past \in Nat /\ usage.bytes \in Nat /\ lost \in Int
    BY Types DEF IInv
  <2>5. ~behind' => past + usage.bytes + AllInFlight + Unflushed + lost = carried
    BY <1>2 DEF IInv, CountedOnce
  <2>6. QED
    BY <1>1, <1>2, <1>5, <1>8, <2>3, <2>4, <2>5 DEF CountedOnce
<1>12. QED
  BY <1>6, <1>7, <1>10, <1>11 DEF IInv

LEMMA SaveTyped ==
  ASSUME NEW x \in Flush, NEW u \in Usage
  PROVE  LET y == [[x EXCEPT !.step = "save"] EXCEPT !.doc = u]
         IN  /\ y \in Flush /\ y.step = "save" /\ y.reading = x.reading /\ y.delta = x.delta
             /\ y.doc = u /\ y.sound = x.sound
BY DEF Flush

LEMMA LoadStep ==
  ASSUME IInv, NEW f \in Flushers, Load(f)
  PROVE  IInv'
<1> DEFINE doc == AddUsage(usage, today, flush[f].delta)
<1>1. /\ At(f, "load")
      /\ flush' = [flush EXCEPT ![f].step = "save", ![f].doc = doc]
      /\ UNCHANGED <<core, counter, call, trafficStop, meter, usageBase, usage, today, carried, past, lost,
                     since, fresh>>
  BY DEF Load, engine, meters, history
<1>2. behind' = (behind \/ \E g \in Flushers : At(g, "save"))
  BY DEF Load
<1>3. /\ doc \in Usage /\ doc.day = today
      /\ doc.bytes = flush[f].delta + IF doc.day = usage.day THEN usage.bytes ELSE 0
  <2>1. flush[f].delta \in Nat /\ usage.bytes \in Nat /\ today \in 1..Days
    BY Types DEF IInv
  <2>2. QED
    BY <2>1 DEF AddUsage, Usage
<1> HIDE DEF doc
<1>4. /\ flush' \in [Flushers -> Flush]
      /\ flush'[f].step = "save" /\ flush'[f].reading = flush[f].reading
      /\ flush'[f].delta = flush[f].delta /\ flush'[f].doc = doc
      /\ \A g \in Flushers \ {f} : flush'[g] = flush[g]
  <2>1. flush \in [Flushers -> Flush]
    BY Types DEF IInv
  <2>2. flush' = [flush EXCEPT ![f] = [[flush[f] EXCEPT !.step = "save"] EXCEPT !.doc = doc]]
    BY <1>1, <2>1
  <2>3. LET y == [[flush[f] EXCEPT !.step = "save"] EXCEPT !.doc = doc]
        IN  /\ y \in Flush /\ y.step = "save" /\ y.reading = flush[f].reading /\ y.delta = flush[f].delta
            /\ y.doc = doc
    BY <1>3, <2>1, SaveTyped
  <2>4. QED
    BY <2>1, <2>2, <2>3
<1>5. behind' \in BOOLEAN
  BY <1>2
<1>6. TypeOK'
  BY <1>1, <1>4, <1>5 DEF IInv, TypeOK
<1>7. Bounded'
  <2>1. \A g \in Flushers : flush'[g].reading \in 0..Bytes
    BY <1>4 DEF IInv, Bounded
  <2>2. ~At(Caller, "none")' => call' = "flush"
    BY <1>1, <1>4 DEF IInv, Bounded, At, Flushers
  <2>3. QED
    BY <1>1, <2>1, <2>2 DEF IInv, Bounded
<1>8. ASSUME ~behind'
      PROVE  ~behind /\ \A g \in Flushers : ~At(g, "save")
  <2>1. ~behind
    BY <1>2, <1>8
  <2>2. ~ \E g \in Flushers : At(g, "save")
    BY <1>2, <1>8
  <2>3. QED
    BY <2>1, <2>2
<1>9. Unflushed' = Unflushed
  BY <1>1 DEF Unflushed
<1>10. ASSUME ~behind'
       PROVE  GoodReadings' /\ OneSave' /\ TailIsNew'
  <2>1. GoodReadings /\ TailIsNew
    BY <1>8, <1>10 DEF IInv
  <2>2. GoodReadings'
    BY <1>1, <1>4, <2>1 DEF GoodReadings, At
  <2>3. \A g \in Flushers : At(g, "save")' => g = f
    BY <1>4, <1>8, <1>10 DEF At
  <2>4. OneSave'
    BY <1>1, <1>3, <1>4, <2>3 DEF OneSave
  <2>5. f # Caller => flush'[Caller] = flush[Caller]
    BY <1>4 DEF Flushers
  <2>6. TailIsNew'
    BY <1>1, <1>4, <1>9, <2>1, <2>5 DEF TailIsNew, At
  <2>7. QED
    BY <2>2, <2>4, <2>6
<1>11. CountedOnce'
  <2>1. \A g \in Flushers : InFlight(g)' = InFlight(g)
    BY <1>1, <1>4 DEF InFlight, At
  <2>2. AllInFlight' = AllInFlight
    BY <1>6, <2>1, FlightKept DEF IInv
  <2>3. QED
    BY <1>1, <1>8, <1>9, <2>2 DEF IInv, CountedOnce
<1>12. QED
  BY <1>6, <1>7, <1>10, <1>11 DEF IInv

\* How a flush ends, with what it carried in the file or lost.
LEMMA DoneFacts ==
  ASSUME IInv, NEW f \in Flushers, Done(f)
  PROVE  /\ flush' \in [Flushers -> Flush] /\ flush'[f] = NoFlush
         /\ \A g \in Flushers \ {f} : flush'[g] = flush[g]
         /\ f # Caller => call' = call
         /\ f = Caller => call' = "core"
BY Types, NoFlushTyped DEF IInv, Done

LEMMA DoneStep ==
  ASSUME IInv, TypeOK', NEW f \in Flushers, Done(f), flush[f].step \in {"load", "save"},
         UNCHANGED <<core, counter, usageBase, carried, since, fresh, behind>>,
         ~behind => \A g \in Flushers \ {f} : At(g, "save") => usage' = usage,
         ~behind => past' + usage'.bytes + lost' = past + usage.bytes + lost + flush[f].delta
  PROVE  IInv'
<1>1. /\ flush' \in [Flushers -> Flush] /\ flush'[f] = NoFlush
      /\ \A g \in Flushers \ {f} : flush'[g] = flush[g]
      /\ f # Caller => call' = call
      /\ f = Caller => call' = "core"
  BY DoneFacts
<1>2. NoFlush.step = "none" /\ NoFlush.reading = 0 /\ NoFlush.delta = 0
  BY NoFlushTyped
<1>3. Bytes \in Nat /\ Caller \in Flushers
  BY TrafficAssumption DEF Flushers
<1>4. Bounded'
  <2>1. \A g \in Flushers : flush'[g].reading \in 0..Bytes
    BY <1>1, <1>2, <1>3 DEF IInv, Bounded
  <2>2. ~At(Caller, "none")' => call' = "flush"
    BY <1>1, <1>2, <1>3 DEF IInv, Bounded, At
  <2>3. QED
    BY <2>1, <2>2 DEF IInv, Bounded
<1>5. Unflushed' = Unflushed
  BY DEF Unflushed
<1>6. \A g \in Flushers : /\ At(g, "lock")' => At(g, "lock") /\ flush'[g] = flush[g]
                          /\ At(g, "save")' => At(g, "save") /\ flush'[g] = flush[g] /\ g # f
  BY <1>1, <1>2 DEF At
<1>7. ASSUME ~behind
      PROVE  GoodReadings' /\ OneSave' /\ TailIsNew'
  <2>1. GoodReadings /\ OneSave /\ TailIsNew
    BY <1>7 DEF IInv
  <2>2. GoodReadings'
    BY <1>6, <2>1 DEF GoodReadings
  <2>3. OneSave'
    BY <1>6, <1>7, <2>1 DEF OneSave
  <2>4. flush'[Caller].step \in {"load", "save"} \/ call' = "core" =>
          flush[Caller].step \in {"load", "save"} \/ call = "core"
    BY <1>1, <1>2, <1>3
  <2>5. TailIsNew'
    BY <1>3, <1>5, <1>6, <2>1, <2>4 DEF TailIsNew
  <2>6. QED
    BY <2>2, <2>3, <2>5
<1>8. CountedOnce'
  <2>1. \A g \in Flushers \ {f} : InFlight(g)' = InFlight(g)
    BY <1>1 DEF InFlight
  <2>2. InFlight(f) = flush[f].delta /\ InFlight(f)' = 0 /\ flush[f].delta \in Nat
    BY <1>1, <1>2, Types DEF IInv, InFlight
  <2>3. AllInFlight' = AllInFlight - flush[f].delta /\ AllInFlight \in Int
    BY <2>1, <2>2, FlightMoves, NoFlight DEF IInv
  <2>4. /\ past \in Nat /\ usage.bytes \in Nat /\ lost \in Int /\ counter \in Nat /\ usageBase \in Nat
    BY Types DEF IInv
  <2>5. past' \in Nat /\ usage'.bytes \in Nat /\ lost' \in Int
    BY DEF TypeOK, Usage
  <2>6. Unflushed \in Int
    BY <2>4 DEF Unflushed
  <2>7. SUFFICES ASSUME ~behind
                 PROVE  past' + usage'.bytes + AllInFlight' + Unflushed' + lost' = carried'
    BY DEF CountedOnce
  <2>8. past + usage.bytes + AllInFlight + Unflushed + lost = carried
    BY <2>7 DEF IInv, CountedOnce
  <2>9. past' + usage'.bytes + lost' = past + usage.bytes + lost + flush[f].delta
    BY <2>7
  <2>10. carried' = carried
    OBVIOUS
  <2>11. flush[f].delta \in Int /\ AllInFlight' \in Int
    BY <2>2, <2>3
  <2>12. PICK d \in Int : d = flush[f].delta
    BY <2>11
  <2>13. AllInFlight' = AllInFlight - d
    BY ONLY <2>3, <2>12
  <2>14. past' + usage'.bytes + lost' = past + usage.bytes + lost + d
    BY ONLY <2>9, <2>12
  <2>15. PICK b \in Int : b = usage'.bytes
    BY <2>5
  <2>16. PICK c \in Int : c = usage.bytes
    BY <2>4
  <2>17. past' + b + lost' = past + c + lost + d
    BY ONLY <2>14, <2>15, <2>16
  <2>18. PICK u \in Int : u = Unflushed
    BY <2>6
  <2>19. PICK a \in Int : a = AllInFlight
    BY <2>3
  <2>20. AllInFlight' = a - d /\ Unflushed' = u
    BY <1>5, <2>13, <2>18, <2>19
  <2>21. past + c + a + u + lost = carried
    BY ONLY <2>8, <2>16, <2>18, <2>19
  <2>22. past \in Int /\ lost \in Int /\ carried \in Int /\ past' \in Int /\ lost' \in Int
    BY <2>4, <2>5, Types DEF IInv
  <2>23. past' + b + (a - d) + u + lost' = carried'
    BY ONLY <2>10, <2>12, <2>15, <2>16, <2>17, <2>18, <2>19, <2>21, <2>22, SMTT(60)
  <2>24. QED
    BY ONLY <2>15, <2>20, <2>23
<1>9. QED
  BY <1>4, <1>7, <1>8 DEF IInv

LEMMA SaveStep ==
  ASSUME IInv, NEW f \in Flushers, Save(f)
  PROVE  IInv'
<1>1. /\ At(f, "save") /\ usage' = flush[f].doc /\ Done(f)
      /\ past' = past + IF usage'.day # usage.day THEN usage.bytes ELSE 0
      /\ UNCHANGED <<core, counter, trafficStop, meter, usageBase, today, carried, lost, since, fresh, behind>>
  BY DEF Save, engine, meters
<1>2. /\ flush[f].doc \in Usage /\ flush[f].doc.bytes \in Nat /\ flush[f].delta \in Nat
      /\ past \in Nat /\ usage.bytes \in Nat /\ lost \in Int
  BY Types DEF IInv
<1>3. past' \in Nat
  BY <1>1, <1>2
<1>4. flush' \in [Flushers -> Flush] /\ (call' = call \/ call' = "core")
  BY <1>1, DoneFacts
<1>5. TypeOK'
  BY <1>1, <1>2, <1>3, <1>4 DEF IInv, TypeOK
<1>6. ASSUME ~behind
      PROVE  /\ \A g \in Flushers \ {f} : ~At(g, "save")
             /\ past' + usage'.bytes + lost' = past + usage.bytes + lost + flush[f].delta
  <2>1. /\ flush[f].doc.bytes = flush[f].delta + IF flush[f].doc.day = usage.day THEN usage.bytes ELSE 0
        /\ \A g \in Flushers : At(g, "save") => g = f
    BY <1>1, <1>6 DEF IInv, OneSave
  <2>2. past' + usage'.bytes = past + usage.bytes + flush[f].delta
    BY <1>1, <1>2, <2>1
  <2>3. QED
    BY <1>1, <1>2, <1>3, <2>1, <2>2
<1>7. flush[f].step \in {"load", "save"}
  BY <1>1 DEF At
<1>8. QED
  BY <1>1, <1>5, <1>6, <1>7, DoneStep

LEMMA SaveFailsStep ==
  ASSUME IInv, NEW f \in Flushers, SaveFails(f)
  PROVE  IInv'
<1>1. /\ flush[f].step \in {"load", "save"} /\ lost' = lost + flush[f].delta /\ Done(f)
      /\ UNCHANGED <<core, counter, trafficStop, meter, usageBase, usage, today, carried, past, since, fresh,
                     behind>>
  BY DEF SaveFails, engine, meters
<1>2. flush[f].delta \in Nat /\ past \in Nat /\ usage.bytes \in Nat /\ lost \in Int
  BY Types DEF IInv
<1>3. flush' \in [Flushers -> Flush] /\ (call' = call \/ call' = "core")
  BY <1>1, DoneFacts
<1>4. TypeOK'
  BY <1>1, <1>2, <1>3 DEF IInv, TypeOK
<1>5. past' + usage'.bytes + lost' = past + usage.bytes + lost + flush[f].delta
  BY <1>1, <1>2
<1>6. QED
  BY <1>1, <1>4, <1>5, DoneStep

-----------------------------------------------------------------------------
(* The core starts and stops.                                              *)

\* Whoever has read and not taken the lock is late.
LEMMA LateFacts ==
  ASSUME IInv, flush' = Unsound(flush)
  PROVE  /\ flush' \in [Flushers -> Flush]
         /\ \A g \in Flushers :
              /\ flush'[g].step = flush[g].step /\ flush'[g].reading = flush[g].reading
              /\ flush'[g].delta = flush[g].delta /\ flush'[g].doc = flush[g].doc
              /\ At(g, "lock")' => ~flush'[g].sound
         /\ \A g \in Flushers : InFlight(g)' = InFlight(g)
<1>1. flush \in [Flushers -> Flush]
  BY Types DEF IInv
<1>2. /\ flush' \in [Flushers -> Flush]
      /\ \A g \in Flushers :
           /\ flush'[g].step = flush[g].step /\ flush'[g].reading = flush[g].reading
           /\ flush'[g].delta = flush[g].delta /\ flush'[g].doc = flush[g].doc
           /\ flush[g].step = "lock" => ~flush'[g].sound
  BY <1>1, UnsoundTyped
<1>3. QED
  BY <1>2 DEF At, InFlight

\* The counter or its base is replaced, outside of Disconnect's flush.
LEMMA ReplaceStep ==
  ASSUME IInv, TypeOK', flush' = Unsound(flush),
         UNCHANGED <<usage, today, carried, past, since, behind>>,
         counter' \in {0, counter}, fresh' => usageBase' = counter',
         call # "flush", call' # "core",
         ~behind => lost' = lost + Unflushed, Unflushed' = 0
  PROVE  IInv'
<1>1. /\ \A g \in Flushers :
           /\ flush'[g].step = flush[g].step /\ flush'[g].reading = flush[g].reading
           /\ flush'[g].delta = flush[g].delta /\ flush'[g].doc = flush[g].doc
           /\ At(g, "lock")' => ~flush'[g].sound
      /\ \A g \in Flushers : InFlight(g)' = InFlight(g)
  BY LateFacts
<1>2. /\ counter \in Nat /\ usageBase \in Nat /\ carried \in Nat /\ past \in Nat /\ usage.bytes \in Nat
      /\ lost \in Int
  BY Types DEF IInv
<1>3. Caller \in Flushers
  BY DEF Flushers
<1>4. flush[Caller].step = "none" /\ flush'[Caller].step = "none"
  BY <1>1, <1>3 DEF IInv, Bounded, At
<1>5. Bounded'
  <2>1. counter' <= carried'
    BY <1>2 DEF IInv, Bounded
  <2>2. QED
    BY <1>1, <1>4, <2>1 DEF IInv, Bounded, At
<1>6. ASSUME ~behind
      PROVE  GoodReadings' /\ OneSave' /\ TailIsNew'
  <2>1. GoodReadings'
    <3>1. counter' \in Nat
      BY <1>2
    <3>2. fresh' => usageBase' <= counter'
      BY <3>1
    <3>3. QED
      BY <1>1, <3>2 DEF GoodReadings
  <2>2. OneSave'
    BY <1>1, <1>6 DEF IInv, OneSave, At
  <2>3. TailIsNew'
    BY <1>4 DEF TailIsNew, At
  <2>4. QED
    BY <2>1, <2>2, <2>3
<1>7. CountedOnce'
  <2>1. SUFFICES ASSUME ~behind
                 PROVE  past' + usage'.bytes + AllInFlight' + Unflushed' + lost' = carried'
    BY DEF CountedOnce
  <2>2. AllInFlight' = AllInFlight /\ AllInFlight \in Int
    BY <1>1, FlightKept, NoFlight DEF IInv
  <2>3. past + usage.bytes + AllInFlight + Unflushed + lost = carried
    BY <2>1 DEF IInv, CountedOnce
  <2>4. Unflushed \in Int
    BY <1>2 DEF Unflushed
  <2>5. lost' = lost + Unflushed /\ Unflushed' = 0
    BY <2>1
  <2>6. QED
    BY <1>2, <2>2, <2>3, <2>4, <2>5
<1>8. QED
  BY <1>5, <1>6, <1>7 DEF IInv

LEMMA StartStep ==
  ASSUME IInv, Start
  PROVE  IInv'
<1>1. /\ call = "start" /\ core' \in BOOLEAN /\ counter' = 0 /\ lost' = lost + Unflushed
      /\ flush' = Unsound(flush) /\ fresh' = FALSE
      /\ call' = IF core' THEN "meter" ELSE "idle"
      /\ UNCHANGED <<trafficStop, meter, usageBase, usage, today, carried, past, since, behind>>
  BY DEF Start, meters
<1>2. flush' \in [Flushers -> Flush]
  BY <1>1, LateFacts
<1>3. lost' \in Int
  BY <1>1, Types DEF IInv, Unflushed
<1>4. call' \in {"meter", "idle"} /\ (core' => call' = "meter")
  BY <1>1
<1>5. TypeOK'
  <2>1. counter' \in 0..Bytes
    BY <1>1, TrafficAssumption
  <2>2. QED
    BY <1>1, <1>2, <1>3, <1>4, <2>1 DEF IInv, TypeOK
<1>6. Unflushed' = 0
  BY <1>1 DEF Unflushed
<1>7. QED
  BY <1>1, <1>4, <1>5, <1>6, ReplaceStep

LEMMA StartMeterStep ==
  ASSUME IInv, NEW m \in Meters, StartMeter(m)
  PROVE  IInv'
<1>1. /\ call = "meter" /\ meter[m] = "free" /\ trafficStop' = m /\ meter' = Replaced(m)
      /\ usageBase' = TrafficNow /\ lost' = lost + Unflushed
      /\ flush' = Unsound(flush) /\ call' = "idle" /\ fresh' = TRUE
      /\ UNCHANGED <<core, counter, usage, today, carried, past, since, behind>>
  BY DEF StartMeter, engine
<1>2. TrafficNow = counter /\ counter \in 0..Bytes /\ counter \in Nat
  BY Types DEF IInv, TypeOK, TrafficNow
<1>3. flush' \in [Flushers -> Flush]
  BY <1>1, LateFacts
<1>4. lost' \in Int
  BY <1>1, Types DEF IInv, Unflushed
<1>5. meter' \in [Meters -> {"free", "running", "cancelled"}]
  BY <1>1 DEF IInv, TypeOK, Replaced
<1>6. \A n \in Meters : meter'[n] = "running" <=> trafficStop' = n
  BY <1>1 DEF IInv, TypeOK, Replaced
<1>7. trafficStop' # None
  BY <1>1, TrafficAssumption DEF Flushers
<1>8. TypeOK'
  BY <1>1, <1>2, <1>3, <1>4, <1>5, <1>6, <1>7 DEF IInv, TypeOK
<1>9. Unflushed' = 0
  BY <1>1, <1>2 DEF Unflushed
<1>10. QED
  BY <1>1, <1>2, <1>8, <1>9, ReplaceStep

\* Disconnect has folded everything that passed before it.
LEMMA StopCoreStep ==
  ASSUME IInv, StopCore
  PROVE  IInv'
<1>1. /\ call = "core" /\ call' = "idle" /\ core' = FALSE /\ counter' = 0
      /\ lost' = lost + Min({Unflushed, since})
      /\ flush' = Unsound(flush) /\ fresh' = FALSE
      /\ UNCHANGED <<trafficStop, meter, usageBase, usage, today, carried, past, since, behind>>
  BY DEF StopCore, meters
<1>2. Unflushed \in Int /\ since \in Nat /\ lost \in Int
  BY Types DEF IInv, Unflushed
<1>3. /\ Min({Unflushed, since}) \in Int
      /\ Unflushed <= since => Min({Unflushed, since}) = Unflushed
  <2> DEFINE u == Unflushed
  <2>1. u \in Int
    BY <1>2
  <2> HIDE DEF u
  <2>2. \E x \in {u, since} : \A y \in {u, since} : x <= y
    BY <1>2, <2>1
  <2>3. /\ Min({u, since}) \in {u, since}
        /\ \A y \in {u, since} : Min({u, since}) <= y
    BY <2>2 DEF Min
  <2>4. Min({u, since}) \in Int /\ (u <= since => Min({u, since}) = u)
    BY <1>2, <2>1, <2>3
  <2>5. QED
    BY <2>4 DEF u
<1>4. flush' \in [Flushers -> Flush]
  BY <1>1, LateFacts
<1>5. TypeOK'
  <2>1. counter' \in 0..Bytes /\ lost' \in Int
    BY <1>1, <1>2, <1>3, TrafficAssumption
  <2>2. QED
    BY <1>1, <1>4, <2>1 DEF IInv, TypeOK
<1>6. Unflushed' = 0
  BY <1>1 DEF Unflushed
<1>7. ~behind => lost' = lost + Unflushed
  <2>1. ~behind => Unflushed <= since
    BY <1>1 DEF IInv, TailIsNew
  <2>2. QED
    BY <1>1, <1>3, <2>1
<1>8. QED
  BY <1>1, <1>5, <1>6, <1>7, ReplaceStep

LEMMA CrashStep ==
  ASSUME IInv, Crash
  PROVE  IInv'
<1>1. /\ core' = FALSE /\ counter' = 0 /\ call' = "idle"
      /\ trafficStop' = None /\ meter' = [m \in Meters |-> "free"]
      /\ usageBase' = 0 /\ flush' = [f \in Flushers |-> NoFlush]
      /\ lost' = lost + Unflushed + AllInFlight /\ fresh' = TRUE
      /\ UNCHANGED <<usage, today, carried, past, since, behind>>
  BY DEF Crash
<1>2. /\ Unflushed \in Int /\ lost \in Int /\ AllInFlight \in Int /\ past \in Nat /\ usage.bytes \in Nat
      /\ carried \in Nat /\ Bytes \in Nat
  BY Types, NoFlight DEF IInv, Unflushed
<1>3. /\ NoFlush \in Flush /\ NoFlush.step = "none" /\ NoFlush.reading = 0 /\ NoFlush.delta = 0
  BY NoFlushTyped
<1>4. TypeOK'
  <2>1. counter' \in 0..Bytes /\ usageBase' \in 0..Bytes /\ lost' \in Int
    BY <1>1, <1>2
  <2>2. flush' \in [Flushers -> Flush]
    BY <1>1, <1>3
  <2>3. meter' \in [Meters -> {"free", "running", "cancelled"}]
    BY <1>1
  <2>4. \A m \in Meters : meter'[m] # "running" /\ trafficStop' # m
    BY <1>1, TrafficAssumption DEF Flushers
  <2>5. QED
    BY <1>1, <2>1, <2>2, <2>3, <2>4 DEF IInv, TypeOK
<1>5. \A g \in Flushers : flush'[g] = NoFlush
  BY <1>1
<1>6. Caller \in Flushers
  BY DEF Flushers
<1>7. Bounded'
  BY <1>1, <1>2, <1>3, <1>5, <1>6 DEF IInv, Bounded, At
<1>8. GoodReadings' /\ OneSave' /\ TailIsNew'
  BY <1>1, <1>3, <1>5, <1>6 DEF GoodReadings, OneSave, TailIsNew, At
<1>9. CountedOnce'
  <2>1. Unflushed' = 0
    BY <1>1 DEF Unflushed
  <2>2. AllInFlight' = 0
    <3>1. \A g \in Flushers : InFlight(g)' = 0
      BY <1>3, <1>5 DEF InFlight
    <3>2. QED
      BY <1>4, <3>1, EmptyFlight
  <2>3. SUFFICES ASSUME ~behind
                 PROVE  past' + usage'.bytes + AllInFlight' + Unflushed' + lost' = carried'
    BY <1>1 DEF CountedOnce
  <2>4. past + usage.bytes + AllInFlight + Unflushed + lost = carried
    BY <2>3 DEF IInv, CountedOnce
  <2>5. QED
    BY <1>1, <1>2, <2>1, <2>2, <2>4
<1>10. QED
  BY <1>4, <1>7, <1>8, <1>9 DEF IInv

-----------------------------------------------------------------------------
(* The theorems.                                                           *)

LEMMA Begins ==
  ASSUME Init
  PROVE  IInv
<1>1. NoFlush \in Flush /\ NoFlush.step = "none" /\ NoFlush.reading = 0 /\ NoFlush.delta = 0
  BY NoFlushTyped
<1>2. \A g \in Flushers : flush[g] = NoFlush
  BY DEF Init
<1>3. TypeOK
  <2>1. usage \in Usage /\ 1 \in 1..Days /\ counter \in 0..Bytes /\ usageBase \in 0..Bytes
    BY TrafficAssumption DEF Init, Usage
  <2>2. flush \in [Flushers -> Flush] /\ meter \in [Meters -> {"free", "running", "cancelled"}]
    BY <1>1 DEF Init
  <2>3. \A m \in Meters : meter[m] # "running" /\ trafficStop # m
    BY TrafficAssumption DEF Init, Flushers
  <2>4. ~core /\ counter = 0 /\ call = "idle" /\ trafficStop = None
    BY DEF Init
  <2>5. {carried, past, since} \subseteq Nat /\ lost \in Int /\ {fresh, behind} \subseteq BOOLEAN
    <3>1. carried = 0 /\ past = 0 /\ since = 0 /\ lost = 0
      BY DEF Init
    <3>2. fresh = TRUE /\ behind = FALSE
      BY DEF Init
    <3>3. {fresh, behind} \subseteq BOOLEAN
      BY ONLY <3>2
    <3>4. {carried, past, since} \subseteq Nat /\ lost \in Int
      BY ONLY <3>1
    <3>5. QED
      BY ONLY <3>3, <3>4
  <2>6. today \in 1..Days /\ core \in BOOLEAN
    BY <2>1 DEF Init
  <2>7. \A m \in Meters : meter[m] = "running" <=> trafficStop = m
    BY <2>3
  <2>8. QED
    BY <2>1, <2>2, <2>4, <2>5, <2>6, <2>7 DEF TypeOK
<1>4. Caller \in Flushers
  BY DEF Flushers
<1>5. Bounded /\ GoodReadings /\ OneSave /\ TailIsNew
  BY <1>1, <1>2, <1>4, TrafficAssumption DEF Init, Bounded, GoodReadings, OneSave, TailIsNew, At, Unflushed
<1>6. CountedOnce
  <2>1. AllInFlight = 0
    BY <1>1, <1>2, <1>3, NoFlight DEF InFlight
  <2>2. Unflushed = 0
    BY DEF Init, Unflushed
  <2>3. usage.bytes = 0 /\ past = 0 /\ lost = 0 /\ carried = 0
    BY DEF Init
  <2>4. QED
    BY <2>1, <2>2, <2>3 DEF CountedOnce
<1>7. QED
  BY <1>3, <1>5, <1>6 DEF IInv

LEMMA StutterStep ==
  ASSUME IInv, UNCHANGED vars
  PROVE  IInv'
<1>1. UNCHANGED <<core, counter, call, trafficStop, meter, usageBase, flush, usage, today, carried, past,
                  lost, since, fresh, behind>>
  BY DEF vars, engine, meters, history
<1>2. TypeOK'
  BY <1>1 DEF IInv, TypeOK
<1>3. QED
  BY <1>1, <1>2, AccountKept DEF IInv, Bounded, TailIsNew

\* The invariant holds of every state of the meters.
THEOREM InductiveInvariant == Spec => []IInv
<1>1. Init => IInv
  BY Begins
<1>2. IInv /\ [Next]_vars => IInv'
  <2>1. SUFFICES ASSUME IInv, [Next]_vars
                 PROVE  IInv'
    OBVIOUS
  <2>2. CASE UNCHANGED vars
    BY <2>1, <2>2, StutterStep
  <2>3. ASSUME NEW f \in Flushers, Read(f) \/ Lock(f) \/ Load(f) \/ Save(f) \/ SaveFails(f)
        PROVE  IInv'
    BY <2>1, <2>3, ReadStep, LockStep, LoadStep, SaveStep, SaveFailsStep
  <2>4. ASSUME NEW m \in Meters, MeterEnds(m) \/ StartMeter(m)
        PROVE  IInv'
    BY <2>1, <2>4, MeterEndsStep, StartMeterStep
  <2>5. CASE Carry \/ NewDay \/ CallConnect \/ StartRejected \/ CallDisconnect
    BY <2>1, <2>5, CarryStep, NewDayStep, CallStep
  <2>6. CASE Start \/ StopMeter \/ StopCore \/ Crash
    BY <2>1, <2>6, StartStep, StopMeterStep, StopCoreStep, CrashStep
  <2>7. QED
    BY <2>1, <2>2, <2>3, <2>4, <2>5, <2>6 DEF Next
<1>3. QED
  BY <1>1, <1>2, PTL DEF Spec

\* Every variable keeps its type: one meter runs, the one Disconnect would
\* cancel, and a core that runs outside of Connect has it.
THEOREM TypeCorrect == Spec => []TypeOK
<1>1. IInv => TypeOK
  BY DEF IInv
<1>2. QED
  BY <1>1, InductiveInvariant, PTL

\* flushUsage counts every byte once, for any number of meters that were
\* cancelled and still flush, over restarts, failed saves, midnights and deaths
\* of the client, as long as no flush has worked with an outdated reading.
THEOREM NothingCountedTwice == Spec => []CountedOnce
<1>1. IInv => CountedOnce
  BY DEF IInv
<1>2. QED
  BY <1>1, InductiveInvariant, PTL

-----------------------------------------------------------------------------
(* The system proxy.                                                       *)

\* A call that writes is in a session of this desktop, has a snapshot of it, and
\* its index is within the list of keys.
Writing(t) ==
  /\ pc[t] \in {"apply", "restore"} => ~elsewhere
  /\ pc[t] \in {"apply", "persist", "restore"} => snap[t] \in Snapshots \/ (elsewhere /\ snap[t] = Another)
  /\ pc[t] = "apply" => at[t] \in 1..4
  /\ pc[t] = "restore" => at[t] \in 1..Len(Restorations)

ProxyTyped == ProxyTypeOK /\ \A t \in Threads : Writing(t)

LEMMA Lists ==
  ASSUME ProxyTypeOK
  PROVE  /\ backend \in {"gnome", "kde", "wininet"}
         /\ Len(Assignments) = 4 /\ Len(Restorations) \in 4..5
         /\ \A i \in 1..4 : Assignments[i] \in Keys
         /\ \A i \in 1..Len(Restorations) : Restorations[i] \in Keys
         /\ "mode" \in Keys
         /\ \A key \in Keys : \E i \in 1..Len(Restorations) : Restorations[i] = key
<1>1. backend \in {"gnome", "kde", "wininet"}
  BY SysProxyAssumption DEF ProxyTypeOK
<1>2. \A i \in 1..4 : i = 1 \/ i = 2 \/ i = 3 \/ i = 4
  OBVIOUS
<1>3. \A i \in 1..5 : i = 1 \/ i = 2 \/ i = 3 \/ i = 4 \/ i = 5
  OBVIOUS
<1>4. CASE backend \in {"gnome", "kde"}
  <2>1. Assignments = <<"http", "socks", "bypass", "mode">>
    BY <1>4 DEF Assignments
  <2>2. \A key \in {"http", "socks", "bypass", "mode"} : key \in Keys
    <3>1. Len(Assignments) = 4
      BY <2>1
    <3>2. /\ Assignments[1] = "http" /\ Assignments[2] = "socks"
          /\ Assignments[3] = "bypass" /\ Assignments[4] = "mode"
      BY <2>1
    <3>3. QED
      BY <3>1, <3>2 DEF Keys
  <2>3. \/ Restorations = <<"mode", "mode", "bypass", "http", "socks">>
        \/ Restorations = <<"mode", "mode", "http", "socks", "bypass">>
    BY <1>4 DEF Restorations
  <2>4. Len(Restorations) = 5
    BY <2>3
  <2>5. \A i \in 1..5 : Restorations[i] \in {"http", "socks", "bypass", "mode"}
    BY <1>3, <2>3
  <2>6. \A i \in 1..4 : Assignments[i] \in {"http", "socks", "bypass", "mode"}
    BY <1>2, <2>1
  <2>7. Keys = {"http", "socks", "bypass", "mode"}
    <3>1. Len(Assignments) = 4 /\ \A i \in 1..4 : Assignments[i] \in {"http", "socks", "bypass", "mode"}
      BY <2>1, <2>6
    <3>2. Keys \subseteq {"http", "socks", "bypass", "mode"}
      BY <3>1 DEF Keys
    <3>3. QED
      BY <2>2, <3>2
  <2>8. \A key \in Keys : \E i \in 1..5 : Restorations[i] = key
    <3>1. /\ Restorations[1] = "mode"
          /\ \/ Restorations[3] = "bypass" /\ Restorations[4] = "http" /\ Restorations[5] = "socks"
             \/ Restorations[3] = "http" /\ Restorations[4] = "socks" /\ Restorations[5] = "bypass"
      BY <2>3
    <3>2. 1 \in 1..5 /\ 3 \in 1..5 /\ 4 \in 1..5 /\ 5 \in 1..5
      OBVIOUS
    <3>3. QED
      BY <2>7, <3>1, <3>2
  <2>9. QED
    BY <1>1, <2>1, <2>2, <2>4, <2>5, <2>6, <2>8
<1>5. CASE backend = "wininet"
  <2>1. Assignments = <<"server", "bypass", "auto", "mode">>
    BY <1>5 DEF Assignments
  <2>2. \A key \in {"server", "bypass", "auto", "mode"} : key \in Keys
    <3>1. Len(Assignments) = 4
      BY <2>1
    <3>2. /\ Assignments[1] = "server" /\ Assignments[2] = "bypass"
          /\ Assignments[3] = "auto" /\ Assignments[4] = "mode"
      BY <2>1
    <3>3. QED
      BY <3>1, <3>2 DEF Keys
  <2>3. Restorations = <<"mode", "server", "bypass", "auto">>
    BY <1>5 DEF Restorations
  <2>4. Len(Restorations) = 4
    BY <2>3
  <2>5. \A i \in 1..4 : /\ Restorations[i] \in {"server", "bypass", "auto", "mode"}
                        /\ Assignments[i] \in {"server", "bypass", "auto", "mode"}
    BY <1>2, <2>1, <2>3
  <2>6. Keys = {"server", "bypass", "auto", "mode"}
    <3>1. Len(Assignments) = 4 /\ \A i \in 1..4 : Assignments[i] \in {"server", "bypass", "auto", "mode"}
      BY <2>1, <2>5
    <3>2. Keys \subseteq {"server", "bypass", "auto", "mode"}
      BY <3>1 DEF Keys
    <3>3. QED
      BY <2>2, <3>2
  <2>7. \A key \in Keys : \E i \in 1..4 : Restorations[i] = key
    <3>1. /\ Restorations[1] = "mode" /\ Restorations[2] = "server"
          /\ Restorations[3] = "bypass" /\ Restorations[4] = "auto"
      BY <2>3
    <3>2. 1 \in 1..4 /\ 2 \in 1..4 /\ 3 \in 1..4 /\ 4 \in 1..4
      OBVIOUS
    <3>3. QED
      BY <2>6, <3>1, <3>2
  <2>8. QED
    BY <1>1, <2>1, <2>2, <2>4, <2>5, <2>7
<1>6. QED
  BY <1>1, <1>4, <1>5
-----------------------------------------------------------------------------
(* What a step of one thread does, without the functions.                  *)

\* Nothing but the call of t moves on, in the session it began in.
OnlyCall(t) ==
  /\ backend' = backend /\ ownMode' = ownMode /\ elsewhere' = elsewhere
  /\ pc' = [pc EXCEPT ![t] = pc'[t]] /\ at' = [at EXCEPT ![t] = at'[t]]
  /\ snap' = [snap EXCEPT ![t] = snap'[t]] /\ after' = [after EXCEPT ![t] = after'[t]]
  /\ leaving' = [leaving EXCEPT ![t] = leaving'[t]]
  /\ faults' = [faults EXCEPT ![t] = faults'[t]] /\ failed' = [failed EXCEPT ![t] = failed'[t]]

\* What t goes to when its call is over.
Over(t) == IF leaving[t] THEN "stop" ELSE "idle"

\* t begins to restore the settings s, and to go on with step a.
Restores(t, s, a) ==
  /\ pc'[t] = "restore" /\ at'[t] = 1 /\ snap'[t] = s /\ after'[t] = a /\ failed'[t] = FALSE

\* t begins to switch off, or gives up and goes on with step over.
SwitchesOff(t, over) ==
  /\ faults'[t] = 0
  /\ \/ /\ disk = NoSnapshot \/ (disk = Another /\ elsewhere)
        /\ pc'[t] = "forget" /\ failed'[t] = FALSE
        /\ at'[t] = at[t] /\ snap'[t] = snap[t] /\ after'[t] = after[t]
     \/ Kept /\ ~elsewhere /\ Restores(t, disk, "forget")
     \/ /\ pc'[t] = over /\ failed'[t] = TRUE
        /\ at'[t] = at[t] /\ snap'[t] = snap[t] /\ after'[t] = after[t]

\* One more write of t fails, and more may go wrong with it.
Fails(t, mishap) ==
  /\ faults[t] < FaultsPerCall /\ faults'[t] = faults[t] + 1
  /\ mishaps' = mishaps \cup mishap \cup (IF faults[t] > 0 THEN {"twice"} ELSE {})

\* The next key, or what follows the last one.
NextRestoration(t) ==
  /\ at'[t] = IF at[t] < Len(Restorations) THEN at[t] + 1 ELSE 1
  /\ at[t] < Len(Restorations) => pc'[t] = "restore"
  /\ at[t] >= Len(Restorations) =>
       pc'[t] = IF ~failed'[t] /\ after[t] = "forget" THEN "forget" ELSE Over(t)

\* The snapshot that t takes, and what it costs.
Reads(t) ==
  \/ /\ ~elsewhere /\ pc'[t] = "apply" /\ snap'[t] \in Readings(desktop)
     /\ mishaps' = mishaps \cup Overlap(t) \cup (IF snap'[t] = desktop THEN {} ELSE {"blind"})
  \/ /\ elsewhere /\ pc'[t] = "persist" /\ snap'[t] = Another
     /\ mishaps' = mishaps \cup Overlap(t)

LEMMA CallEnableFacts ==
  ASSUME ProxyTypeOK, NEW t \in Threads, CallEnable(t)
  PROVE  /\ OnlyCall(t)
         /\ phase = "up" /\ pc[t] = "idle" /\ status = "CONNECTED"
         /\ Reads(t) /\ at'[t] = 1 /\ faults'[t] = 0 /\ failed'[t] = FALSE
         /\ after'[t] = after[t] /\ leaving'[t] = leaving[t]
         /\ desktop' = desktop /\ disk' = disk /\ status' = status /\ shown' = shown
         /\ phase' = phase
<1>1. /\ phase = "up" /\ pc[t] = "idle" /\ status = "CONNECTED"
      /\ at' = [at EXCEPT ![t] = 1] /\ faults' = [faults EXCEPT ![t] = 0]
      /\ failed' = [failed EXCEPT ![t] = FALSE]
      /\ UNCHANGED <<world, after, leaving>>
  BY DEF CallEnable
<1>2. CASE ~elsewhere
  <2>1. PICK snapshot \in Readings(desktop) :
          /\ snap' = [snap EXCEPT ![t] = snapshot] /\ pc' = [pc EXCEPT ![t] = "apply"]
          /\ mishaps' = mishaps \cup Overlap(t) \cup (IF snapshot = desktop THEN {} ELSE {"blind"})
    BY <1>2 DEF CallEnable, EnableElsewhere, Goto
  <2>2. snap'[t] = snapshot /\ pc'[t] = "apply"
    BY <2>1 DEF ProxyTypeOK
  <2>3. Reads(t)
    BY <1>2, <2>1, <2>2 DEF Reads
  <2>4. QED
    BY <1>1, <2>1, <2>2, <2>3 DEF ProxyTypeOK, session, world, OnlyCall
<1>3. CASE elsewhere
  <2>1. /\ snap' = [snap EXCEPT ![t] = Another] /\ pc' = [pc EXCEPT ![t] = "persist"]
        /\ mishaps' = mishaps \cup Overlap(t)
    BY <1>3 DEF CallEnable, EnableElsewhere, Goto
  <2>2. snap'[t] = Another /\ pc'[t] = "persist"
    BY <2>1 DEF ProxyTypeOK
  <2>3. Reads(t)
    BY <1>3, <2>1, <2>2 DEF Reads
  <2>4. QED
    BY <1>1, <2>1, <2>2, <2>3 DEF ProxyTypeOK, session, world, OnlyCall
<1>4. QED
  BY <1>2, <1>3

LEMMA StartDisablingFacts ==
  ASSUME ProxyTypeOK, NEW t \in Threads, NEW over, StartDisabling(t, over)
  PROVE  /\ SwitchesOff(t, over)
         /\ pc' = [pc EXCEPT ![t] = pc'[t]] /\ at' = [at EXCEPT ![t] = at'[t]]
         /\ snap' = [snap EXCEPT ![t] = snap'[t]] /\ after' = [after EXCEPT ![t] = after'[t]]
         /\ faults' = [faults EXCEPT ![t] = faults'[t]] /\ failed' = [failed EXCEPT ![t] = failed'[t]]
<1>1. faults' = [faults EXCEPT ![t] = 0]
  BY DEF StartDisabling
<1>2. CASE /\ disk = NoSnapshot \/ (disk = Another /\ elsewhere)
           /\ pc' = [pc EXCEPT ![t] = "forget"] /\ failed' = [failed EXCEPT ![t] = FALSE]
           /\ UNCHANGED <<at, snap, after>>
  BY <1>1, <1>2 DEF ProxyTypeOK, SwitchesOff
<1>3. CASE Kept /\ ~elsewhere /\ StartRestoring(t, disk, "forget")
  BY <1>1, <1>3 DEF ProxyTypeOK, SwitchesOff, StartRestoring, Restores, Goto
<1>4. CASE /\ pc' = [pc EXCEPT ![t] = over] /\ failed' = [failed EXCEPT ![t] = TRUE]
           /\ UNCHANGED <<at, snap, after>>
  BY <1>1, <1>4 DEF ProxyTypeOK, SwitchesOff
<1>5. QED
  BY <1>2, <1>3, <1>4 DEF StartDisabling, Goto

LEMMA CallDisableFacts ==
  ASSUME ProxyTypeOK, NEW t \in Threads, CallDisable(t)
  PROVE  /\ OnlyCall(t)
         /\ phase = "up" /\ pc[t] = "idle" /\ SwitchesOff(t, "idle") /\ leaving'[t] = FALSE
         /\ mishaps' = mishaps \cup Overlap(t)
         /\ desktop' = desktop /\ disk' = disk /\ status' = status /\ shown' = shown
         /\ phase' = phase
<1>1. StartDisabling(t, "idle")
  BY DEF CallDisable
<1>2. QED
  BY <1>1, StartDisablingFacts DEF CallDisable, ProxyTypeOK, session, world, OnlyCall

LEMMA DisconnectDisablesFacts ==
  ASSUME ProxyTypeOK, NEW t \in Threads, DisconnectDisables(t)
  PROVE  /\ OnlyCall(t)
         /\ phase = "up" /\ pc[t] = "idle" /\ SwitchesOff(t, "stop") /\ leaving'[t] = TRUE
         /\ mishaps' = mishaps \cup Overlap(t)
         /\ desktop' = desktop /\ disk' = disk /\ status' = status /\ shown' = shown
         /\ phase' = phase
<1>1. StartDisabling(t, "stop")
  BY DEF DisconnectDisables
<1>2. QED
  BY <1>1, StartDisablingFacts DEF DisconnectDisables, ProxyTypeOK, session, world, OnlyCall

LEMMA ApplyKeyFacts ==
  ASSUME ProxyTypeOK, NEW t \in Threads, ApplyKey(t)
  PROVE  /\ OnlyCall(t)
         /\ pc[t] = "apply" /\ at'[t] = at[t] + 1
         /\ pc'[t] = IF at[t] = Len(Assignments) THEN "persist" ELSE "apply"
         /\ desktop' = [desktop EXCEPT ![Assignments[at[t]]] = Applied(Assignments[at[t]])]
         /\ snap'[t] = snap[t] /\ after'[t] = after[t] /\ leaving'[t] = leaving[t]
         /\ faults'[t] = faults[t] /\ failed'[t] = failed[t] /\ mishaps' = mishaps
         /\ disk' = disk /\ status' = status /\ shown' = shown /\ phase' = phase
  BY DEF ApplyKey, ProxyTypeOK, Goto, session, world, locals,
         OnlyCall

LEMMA ApplyFailsFacts ==
  ASSUME ProxyTypeOK, NEW t \in Threads, ApplyFails(t)
  PROVE  /\ OnlyCall(t)
         /\ pc[t] = "apply"
         /\ \/ Fails(t, {}) /\ RollsBack(Assignments[at[t]]) /\ Restores(t, snap[t], "idle")
            \/ /\ Fails(t, {"halfway"}) /\ ~RollsBack(Assignments[at[t]]) /\ pc'[t] = "idle"
               /\ at'[t] = at[t] /\ snap'[t] = snap[t] /\ after'[t] = after[t] /\ failed'[t] = failed[t]
         /\ leaving'[t] = leaving[t]
         /\ desktop' = desktop /\ disk' = disk /\ status' = status /\ shown' = shown
         /\ phase' = phase
  BY DEF ApplyFails, ProxyTypeOK, Goto, session, world, locals,
         OnlyCall, Restores, Fault, Fails, StartRestoring

LEMMA PersistFacts ==
  ASSUME ProxyTypeOK, NEW t \in Threads, Persist(t)
  PROVE  /\ OnlyCall(t)
         /\ pc[t] = "persist" /\ pc'[t] = "show" /\ disk' = snap[t]
         /\ mishaps' = mishaps \cup (IF disk \in {NoSnapshot, snap[t]} THEN {} ELSE {"again"})
         /\ at'[t] = at[t] /\ snap'[t] = snap[t] /\ after'[t] = after[t]
         /\ leaving'[t] = leaving[t] /\ faults'[t] = faults[t] /\ failed'[t] = failed[t]
         /\ desktop' = desktop /\ status' = status /\ shown' = shown /\ phase' = phase
  BY DEF Persist, ProxyTypeOK, Goto, session, world, locals, OnlyCall

LEMMA PersistFailsFacts ==
  ASSUME ProxyTypeOK, NEW t \in Threads, PersistFails(t)
  PROVE  /\ OnlyCall(t)
         /\ pc[t] = "persist" /\ Fails(t, {})
         /\ \/ ~elsewhere /\ Restores(t, snap[t], "idle")
            \/ /\ elsewhere /\ pc'[t] = "idle"
               /\ at'[t] = at[t] /\ snap'[t] = snap[t] /\ after'[t] = after[t] /\ failed'[t] = failed[t]
         /\ leaving'[t] = leaving[t]
         /\ desktop' = desktop /\ disk' = disk /\ status' = status /\ shown' = shown
         /\ phase' = phase
  BY DEF PersistFails, ProxyTypeOK, Goto, session, world, locals,
         OnlyCall, Restores, Fault, Fails, StartRestoring

LEMMA ShowFacts ==
  ASSUME ProxyTypeOK, NEW t \in Threads, Show(t)
  PROVE  /\ OnlyCall(t)
         /\ pc[t] = "show" /\ pc'[t] = "idle" /\ shown' = TRUE
         /\ at'[t] = at[t] /\ snap'[t] = snap[t] /\ after'[t] = after[t]
         /\ leaving'[t] = leaving[t] /\ faults'[t] = faults[t] /\ failed'[t] = failed[t]
         /\ desktop' = desktop /\ disk' = disk /\ status' = status /\ phase' = phase
         /\ mishaps' = mishaps
  BY DEF Show, ProxyTypeOK, Goto, session, world, locals, OnlyCall

LEMMA RestoreKeyFacts ==
  ASSUME ProxyTypeOK, NEW t \in Threads, RestoreKey(t)
  PROVE  /\ OnlyCall(t)
         /\ pc[t] = "restore" /\ NextRestoration(t)
         /\ desktop' = [desktop EXCEPT ![Restorations[at[t]]] = Restored(t, Restorations[at[t]])]
         /\ mishaps' = mishaps
         /\ snap'[t] = snap[t] /\ after'[t] = after[t] /\ leaving'[t] = leaving[t]
         /\ faults'[t] = faults[t] /\ failed'[t] = failed[t]
         /\ disk' = disk /\ status' = status /\ shown' = shown /\ phase' = phase
<1>1. Len(Restorations) \in Nat /\ at[t] \in Nat
  BY Lists DEF ProxyTypeOK
<1>2. NextKey(t) /\ leaving' = leaving /\ after' = after
  BY DEF RestoreKey, world
<1>3. FinishRestoring(t, failed[t])
  BY DEF RestoreKey
<1>4. failed'[t] <=> failed[t]
  <2>1. failed' = failed
    BY DEF RestoreKey
  <2>2. QED
    BY <2>1 DEF ProxyTypeOK
<1>5. at'[t] = IF at[t] < Len(Restorations) THEN at[t] + 1 ELSE 1
  BY <1>2 DEF NextKey, ProxyTypeOK
<1>6. at[t] < Len(Restorations) => pc'[t] = "restore"
  BY <1>3 DEF FinishRestoring, Goto, ProxyTypeOK
<1>7. at[t] >= Len(Restorations) => ~(at[t] < Len(Restorations))
  BY <1>1
<1>8. ASSUME ~(at[t] < Len(Restorations))
      PROVE  pc'[t] = IF ~failed'[t] /\ after[t] = "forget" THEN "forget" ELSE Over(t)
  <2>1. CASE failed'[t]
    BY <1>3, <1>4, <1>8, <2>1 DEF FinishRestoring, Finish, Goto, ProxyTypeOK, Over
  <2>2. CASE ~failed'[t]
    BY <1>3, <1>4, <1>8, <2>2 DEF FinishRestoring, Finish, Goto, ProxyTypeOK, Over
  <2>3. QED
    BY <2>1, <2>2
<1>9. NextRestoration(t)
  BY <1>5, <1>6, <1>7, <1>8 DEF NextRestoration
<1>10. QED
  BY <1>9 DEF RestoreKey, ProxyTypeOK, session, world, OnlyCall, NextKey,
              FinishRestoring, Finish, Goto

LEMMA RestoreFailsFacts ==
  ASSUME ProxyTypeOK, NEW t \in Threads, RestoreFails(t)
  PROVE  /\ OnlyCall(t)
         /\ pc[t] = "restore" /\ NextRestoration(t) /\ failed'[t] = TRUE
         /\ Fails(t, Lost(t))
         /\ snap'[t] = snap[t] /\ after'[t] = after[t] /\ leaving'[t] = leaving[t]
         /\ desktop' = desktop /\ disk' = disk /\ status' = status /\ shown' = shown
         /\ phase' = phase
<1>1. Len(Restorations) \in Nat /\ at[t] \in Nat
  BY Lists DEF ProxyTypeOK
<1>2. NextKey(t) /\ leaving' = leaving /\ after' = after
  BY DEF RestoreFails, world
<1>3. FinishRestoring(t, TRUE)
  BY DEF RestoreFails
<1>4. failed'[t] <=> TRUE
  <2>1. failed' = [failed EXCEPT ![t] = TRUE]
    BY DEF RestoreFails
  <2>2. QED
    BY <2>1 DEF ProxyTypeOK
<1>5. at'[t] = IF at[t] < Len(Restorations) THEN at[t] + 1 ELSE 1
  BY <1>2 DEF NextKey, ProxyTypeOK
<1>6. at[t] < Len(Restorations) => pc'[t] = "restore"
  BY <1>3 DEF FinishRestoring, Goto, ProxyTypeOK
<1>7. at[t] >= Len(Restorations) => ~(at[t] < Len(Restorations))
  BY <1>1
<1>8. ASSUME ~(at[t] < Len(Restorations))
      PROVE  pc'[t] = IF ~failed'[t] /\ after[t] = "forget" THEN "forget" ELSE Over(t)
  <2>1. CASE failed'[t]
    BY <1>3, <1>4, <1>8, <2>1 DEF FinishRestoring, Finish, Goto, ProxyTypeOK, Over
  <2>2. CASE ~failed'[t]
    BY <1>3, <1>4, <1>8, <2>2 DEF FinishRestoring, Finish, Goto, ProxyTypeOK, Over
  <2>3. QED
    BY <2>1, <2>2
<1>9. NextRestoration(t)
  BY <1>5, <1>6, <1>7, <1>8 DEF NextRestoration
<1>10. Fails(t, Lost(t))
  BY DEF RestoreFails, Fault, Fails, ProxyTypeOK
<1>11. QED
  BY <1>9, <1>10 DEF RestoreFails, ProxyTypeOK, session, world, OnlyCall, NextKey,
                     FinishRestoring, Finish, Goto, Fault

LEMMA ForgetFacts ==
  ASSUME ProxyTypeOK, NEW t \in Threads, Forget(t)
  PROVE  /\ OnlyCall(t)
         /\ pc[t] = "forget" /\ pc'[t] = "hide" /\ disk' = NoSnapshot
         /\ at'[t] = at[t] /\ snap'[t] = snap[t] /\ after'[t] = after[t]
         /\ leaving'[t] = leaving[t] /\ faults'[t] = faults[t] /\ failed'[t] = failed[t]
         /\ desktop' = desktop /\ status' = status /\ shown' = shown /\ phase' = phase
         /\ mishaps' = mishaps
  BY DEF Forget, ProxyTypeOK, Goto, session, world, locals, OnlyCall

LEMMA ForgetFailsFacts ==
  ASSUME ProxyTypeOK, NEW t \in Threads, ForgetFails(t)
  PROVE  /\ OnlyCall(t)
         /\ pc[t] = "forget" /\ pc'[t] = Over(t) /\ Fails(t, {}) /\ failed'[t] = TRUE
         /\ at'[t] = at[t] /\ snap'[t] = snap[t] /\ after'[t] = after[t]
         /\ leaving'[t] = leaving[t]
         /\ desktop' = desktop /\ disk' = disk /\ status' = status /\ shown' = shown
         /\ phase' = phase
  BY DEF ForgetFails, ProxyTypeOK, Goto, session, world, locals,
         OnlyCall, Over, Fault, Fails, Finish

LEMMA HideFacts ==
  ASSUME ProxyTypeOK, NEW t \in Threads, Hide(t)
  PROVE  /\ OnlyCall(t)
         /\ pc[t] = "hide" /\ pc'[t] = Over(t) /\ shown' = FALSE
         /\ at'[t] = at[t] /\ snap'[t] = snap[t] /\ after'[t] = after[t]
         /\ leaving'[t] = leaving[t] /\ faults'[t] = faults[t] /\ failed'[t] = failed[t]
         /\ desktop' = desktop /\ disk' = disk /\ status' = status /\ phase' = phase
         /\ mishaps' = mishaps
  BY DEF Hide, ProxyTypeOK, Goto, session, world, locals, OnlyCall,
         Over, Finish

LEMMA DisconnectGoesOnFacts ==
  ASSUME ProxyTypeOK, NEW t \in Threads, DisconnectGoesOn(t)
  PROVE  /\ OnlyCall(t)
         /\ pc[t] = "stop" /\ pc'[t] = "idle" /\ status' = "DISCONNECTED" /\ shown' = FALSE
         /\ leaving'[t] = FALSE
         /\ at'[t] = at[t] /\ snap'[t] = snap[t] /\ after'[t] = after[t]
         /\ faults'[t] = faults[t] /\ failed'[t] = failed[t]
         /\ desktop' = desktop /\ disk' = disk /\ phase' = phase
         /\ mishaps' = mishaps
  BY DEF DisconnectGoesOn, ProxyTypeOK, Goto, session, world, locals,
         OnlyCall

LEMMA RestartFacts ==
  ASSUME ProxyTypeOK, Restart
  PROVE  /\ OnlyCall(starter) /\ phase = "down" /\ mishaps' = mishaps
         /\ desktop' = desktop /\ disk' = disk /\ status' = status /\ shown' = shown
         /\ leaving'[starter] = leaving[starter]
         /\ \/ /\ disk = NoSnapshot /\ phase' = "up" /\ pc'[starter] = pc[starter]
               /\ at'[starter] = at[starter] /\ snap'[starter] = snap[starter]
               /\ after'[starter] = after[starter] /\ failed'[starter] = failed[starter]
               /\ faults'[starter] = faults[starter]
            \/ phase' = "starting" /\ disk # NoSnapshot /\ SwitchesOff(starter, "idle")
<1>1. /\ phase = "down" /\ mishaps' = mishaps /\ starter \in Threads
      /\ UNCHANGED <<session, desktop, disk, status, shown>>
  BY DEF Restart, Threads
<1>2. CASE disk = NoSnapshot /\ phase' = "up" /\ UNCHANGED <<pc, locals>>
  BY <1>1, <1>2 DEF ProxyTypeOK, session, locals, OnlyCall
<1>3. CASE disk # NoSnapshot /\ phase' = "starting" /\ StartDisabling(starter, "idle") /\ UNCHANGED leaving
  BY <1>1, <1>3, StartDisablingFacts DEF ProxyTypeOK, session, OnlyCall
<1>4. QED
  BY <1>2, <1>3 DEF Restart

-----------------------------------------------------------------------------
(* Types.                                                                  *)

LEMMA SameSession ==
  ASSUME backend' = backend, ownMode' = ownMode
  PROVE  /\ Keys' = Keys /\ Addresses' = Addresses
         /\ Assignments' = Assignments /\ Restorations' = Restorations
         /\ Original' = Original /\ Configurations' = Configurations /\ Snapshots' = Snapshots
         /\ (UndoesFailures' <=> UndoesFailures)
BY DEF Keys, Addresses, Assignments, Restorations, Original,
       Configurations, Snapshots, UndoesFailures, RollsBack

LEMMA OtherCalls ==
  ASSUME ProxyTypeOK, NEW t \in Threads, OnlyCall(t), NEW s \in Threads, s # t
  PROVE  /\ pc'[s] = pc[s] /\ at'[s] = at[s] /\ snap'[s] = snap[s] /\ after'[s] = after[s]
         /\ leaving'[s] = leaving[s] /\ faults'[s] = faults[s] /\ failed'[s] = failed[s]
BY DEF OnlyCall, ProxyTypeOK

CallTyped(t) ==
  /\ pc[t] \in Steps /\ at[t] \in 1..5 /\ snap[t] \in Snapshots \cup {NoSnapshot, Another}
  /\ after[t] \in {"idle", "forget"} /\ leaving[t] \in BOOLEAN
  /\ faults[t] \in 0..FaultsPerCall /\ failed[t] \in BOOLEAN
  /\ Writing(t)

SessionTyped ==
  /\ elsewhere \in BOOLEAN /\ mishaps \subseteq Mishaps
  /\ desktop \in Configurations /\ disk \in Snapshots \cup {NoSnapshot, Another}
  /\ status \in {"DISCONNECTED", "CONNECTED", "ERROR"} /\ shown \in BOOLEAN
  /\ phase \in {"down", "starting", "up"}

LEMMA Typed ==
  ASSUME ProxyTyped
  PROVE  SessionTyped /\ \A t \in Threads : CallTyped(t)
<1>1. SessionTyped
  BY DEF ProxyTyped, ProxyTypeOK, SessionTyped
<1>2. ASSUME NEW t \in Threads
      PROVE  CallTyped(t)
  BY DEF ProxyTyped, ProxyTypeOK, CallTyped
<1>3. QED
  BY <1>1, <1>2

LEMMA TypedStep ==
  ASSUME ProxyTyped, NEW t \in Threads, OnlyCall(t), SessionTyped', CallTyped(t)'
  PROVE  ProxyTyped'
<1>1. ProxyTypeOK
  BY DEF ProxyTyped
<1>2. ProxyTypeOK'
  <2>1. pc' \in [Threads -> Steps] /\ at' \in [Threads -> 1..5]
    BY <1>1 DEF OnlyCall, ProxyTypeOK, CallTyped
  <2>2. Snapshots' = Snapshots
    BY SameSession DEF OnlyCall
  <2>3. snap' \in [Threads -> (Snapshots \cup {NoSnapshot, Another})']
    BY <1>1, <2>2 DEF OnlyCall, ProxyTypeOK, CallTyped
  <2>4. after' \in [Threads -> {"idle", "forget"}] /\ faults' \in [Threads -> 0..FaultsPerCall]
    BY <1>1 DEF OnlyCall, ProxyTypeOK, CallTyped
  <2>5. leaving' \in [Threads -> BOOLEAN]
    <3>1. leaving'[t] \in BOOLEAN
      BY DEF CallTyped
    <3>2. leaving \in [Threads -> BOOLEAN] /\ leaving' = [leaving EXCEPT ![t] = leaving'[t]]
      BY <1>1 DEF OnlyCall, ProxyTypeOK
    <3>3. QED
      BY ONLY <3>1, <3>2
  <2>6. failed' \in [Threads -> BOOLEAN]
    <3>1. failed'[t] \in BOOLEAN
      BY DEF CallTyped
    <3>2. failed \in [Threads -> BOOLEAN] /\ failed' = [failed EXCEPT ![t] = failed'[t]]
      BY <1>1 DEF OnlyCall, ProxyTypeOK
    <3>3. QED
      BY ONLY <3>1, <3>2
  <2>7. backend' \in Backends /\ ownMode' \in {"off", "manual"}
    BY <1>1 DEF OnlyCall, ProxyTypeOK
  <2>8. QED
    BY <2>1, <2>3, <2>4, <2>5, <2>6, <2>7 DEF ProxyTypeOK, SessionTyped
<1>3. ASSUME NEW s \in Threads, s # t
      PROVE  Writing(s)'
  <2>1. Writing(s) /\ pc'[s] = pc[s] /\ at'[s] = at[s] /\ snap'[s] = snap[s]
    BY <1>1, <1>3, OtherCalls DEF ProxyTyped
  <2>2. /\ Restorations' = Restorations /\ Snapshots' = Snapshots
        /\ elsewhere' = elsewhere
    BY SameSession DEF OnlyCall
  <2>3. QED
    BY <2>1, <2>2 DEF Writing
<1>4. QED
  BY <1>2, <1>3 DEF ProxyTyped, CallTyped

ThreadStep(t) ==
  \/ t \in Callers /\ (CallEnable(t) \/ CallDisable(t) \/ DisconnectDisables(t))
  \/ Enable(t) \/ Disable(t)

LEMMA OneWrite ==
  ASSUME ProxyTypeOK, NEW key \in Keys, NEW v \in Values
  PROVE  [desktop EXCEPT ![key] = v] \in Configurations
BY DEF ProxyTypeOK, Configurations

LEMMA RestoringTyped ==
  ASSUME ProxyTypeOK, NEW t \in Threads, OnlyCall(t), ~elsewhere,
         NEW s \in Snapshots, NEW a \in {"idle", "forget"}, Restores(t, s, a),
         faults'[t] \in 0..FaultsPerCall, leaving'[t] \in BOOLEAN
  PROVE  CallTyped(t)'
<1>1. pc'[t] = "restore" /\ at'[t] = 1 /\ snap'[t] = s /\ after'[t] = a
  BY DEF Restores
<1>2. failed'[t] \in BOOLEAN
  BY DEF Restores
<1>3. Restorations' = Restorations /\ Snapshots' = Snapshots /\ ~elsewhere'
  BY SameSession DEF OnlyCall
<1>4. at'[t] \in 1..5 /\ at'[t] \in 1..Len(Restorations')
  <2>1. Len(Restorations') \in 4..5
    BY <1>3, Lists
  <2>2. \A n \in 4..5 : 1 \in 1..n
    OBVIOUS
  <2>3. 1 \in 1..Len(Restorations')
    BY <2>1, <2>2
  <2>4. QED
    BY <1>1, <2>3
<1>5. Writing(t)'
  BY <1>1, <1>3, <1>4 DEF Writing
<1>6. QED
  BY <1>1, <1>2, <1>3, <1>4, <1>5 DEF CallTyped, Steps

LEMMA MovingTyped ==
  ASSUME ProxyTypeOK, NEW t \in Threads, OnlyCall(t), CallTyped(t),
         pc'[t] \in Steps \ {"apply", "persist", "restore"},
         at'[t] = at[t], snap'[t] = snap[t], after'[t] = after[t],
         faults'[t] \in 0..FaultsPerCall, leaving'[t] \in BOOLEAN, failed'[t] \in BOOLEAN
  PROVE  CallTyped(t)'
<1>1. Snapshots' = Snapshots
  BY SameSession DEF OnlyCall
<1>2. Writing(t)'
  BY DEF Writing
<1>3. at'[t] \in 1..5 /\ snap'[t] \in (Snapshots \cup {NoSnapshot, Another})'
      /\ after'[t] \in {"idle", "forget"}
  BY <1>1 DEF CallTyped
<1>4. QED
  BY <1>2, <1>3 DEF CallTyped

LEMMA SwitchingTyped ==
  ASSUME ProxyTyped, NEW t \in Threads, OnlyCall(t),
         NEW over \in {"idle", "stop"}, SwitchesOff(t, over), leaving'[t] \in BOOLEAN
  PROVE  CallTyped(t)'
<1>1. ProxyTypeOK /\ SessionTyped /\ CallTyped(t)
  BY Typed DEF ProxyTyped
<1>2. faults'[t] = 0 /\ 0 \in 0..FaultsPerCall
  BY SysProxyAssumption DEF SwitchesOff
<1>3. ASSUME pc'[t] \in {"forget", over}, failed'[t] \in BOOLEAN,
             at'[t] = at[t], snap'[t] = snap[t], after'[t] = after[t]
      PROVE  CallTyped(t)'
  <2>1. pc'[t] \in Steps \ {"apply", "persist", "restore"} /\ faults'[t] \in 0..FaultsPerCall
    BY <1>2, <1>3 DEF Steps
  <2>2. QED
    BY <1>1, <1>3, <2>1, MovingTyped
<1>4. ASSUME Kept, ~elsewhere, Restores(t, disk, "forget")
      PROVE  CallTyped(t)'
  <2>1. disk \in Snapshots /\ faults'[t] \in 0..FaultsPerCall
    BY <1>1, <1>2, <1>4 DEF SessionTyped, Kept
  <2>2. QED
    BY <1>1, <1>4, <2>1, RestoringTyped
<1>5. QED
  BY <1>3, <1>4 DEF SwitchesOff

\* What Enable reads is a snapshot.
LEMMA ReadingsAreSnapshots ==
  ASSUME ProxyTypeOK
  PROVE  Readings(desktop) \subseteq Snapshots
<1>1. desktop \in [Keys -> Values]
  BY DEF ProxyTypeOK, Configurations
<1>2. \A key : Empty(key) \in Values
  BY DEF Empty, Values
<1>3. ASSUME NEW unread
      PROVE  [key \in Keys |-> IF key \in unread THEN Empty(key) ELSE desktop[key]] \in Snapshots
  BY <1>1, <1>2 DEF Snapshots
<1>4. [key \in Keys |-> "absent"] \in Snapshots
  BY DEF Snapshots
<1>5. QED
  BY <1>3, <1>4 DEF Readings

LEMMA ThreadTyped ==
  ASSUME ProxyTyped, NEW t \in Threads, ThreadStep(t)
  PROVE  ProxyTyped'
<1>1. ProxyTypeOK /\ SessionTyped /\ CallTyped(t)
  BY Typed DEF ProxyTyped
<1>2. SUFFICES OnlyCall(t) /\ SessionTyped' /\ CallTyped(t)'
  BY TypedStep
<1>3. /\ Len(Assignments) = 4 /\ Len(Restorations) \in 4..5
      /\ \A i \in 1..4 : Assignments[i] \in Keys
      /\ \A i \in 1..Len(Restorations) : Restorations[i] \in Keys
  BY <1>1, Lists
<1>4. FaultsPerCall \in Nat /\ 0 \in 0..FaultsPerCall
  BY SysProxyAssumption
<1>5. OnlyCall(t) => /\ Restorations' = Restorations /\ Configurations' = Configurations
                     /\ Snapshots' = Snapshots /\ elsewhere' = elsewhere
  BY SameSession DEF OnlyCall
<1>6. \A mishap \in SUBSET Mishaps : Fails(t, mishap) =>
        faults'[t] \in 0..FaultsPerCall /\ mishaps' \subseteq Mishaps
  <2>1. faults[t] \in 0..FaultsPerCall /\ mishaps \subseteq Mishaps
    BY <1>1 DEF CallTyped, SessionTyped
  <2>2. SUFFICES ASSUME NEW mishap \in SUBSET Mishaps, Fails(t, mishap)
                 PROVE  faults'[t] \in 0..FaultsPerCall /\ mishaps' \subseteq Mishaps
    OBVIOUS
  <2>3. faults'[t] \in 0..FaultsPerCall
    BY <1>4, <2>1, <2>2 DEF Fails
  <2>4. mishaps' \subseteq Mishaps
    BY <2>1, <2>2 DEF Fails, Mishaps
  <2>5. QED
    BY <2>3, <2>4
<1> USE DEF Steps, Writing
<1>7. CASE CallEnable(t)
  <2>1. /\ OnlyCall(t) /\ Reads(t) /\ at'[t] = 1 /\ faults'[t] = 0
        /\ after'[t] = after[t] /\ leaving'[t] = leaving[t] /\ desktop' = desktop /\ disk' = disk
        /\ status' = status /\ shown' = shown /\ phase' = phase
    BY <1>1, <1>7, CallEnableFacts
  <2>2. failed'[t] \in BOOLEAN
    BY <1>1, <1>7, CallEnableFacts
  <2>3. mishaps' \subseteq Mishaps
    BY <1>1, <2>1 DEF Reads, Overlap, Mishaps, SessionTyped
  <2>4. SessionTyped'
    BY <1>1, <1>5, <2>1, <2>3 DEF SessionTyped, OnlyCall
  <2>5. \/ ~elsewhere' /\ pc'[t] = "apply" /\ snap'[t] \in Snapshots
        \/ elsewhere' /\ pc'[t] = "persist" /\ snap'[t] = Another
    BY <1>1, <1>5, <2>1, ReadingsAreSnapshots DEF Reads
  <2>6. Writing(t)'
    BY <1>5, <2>1, <2>5
  <2>7. CallTyped(t)'
    BY <1>1, <1>4, <1>5, <2>1, <2>2, <2>5, <2>6 DEF CallTyped
  <2>8. QED
    BY <2>1, <2>4, <2>7
<1>8. ASSUME OnlyCall(t), NEW over \in {"idle", "stop"}, SwitchesOff(t, over), leaving'[t] \in BOOLEAN,
             desktop' = desktop, disk' = disk, status' = status, shown' = shown, phase' = phase,
             mishaps' = mishaps \cup Overlap(t)
      PROVE  SessionTyped' /\ CallTyped(t)'
  <2>1. SessionTyped'
    BY <1>1, <1>5, <1>8 DEF SessionTyped, Overlap, Mishaps
  <2>2. CallTyped(t)'
    BY <1>8, SwitchingTyped
  <2>3. QED
    BY <2>1, <2>2
<1>9. CASE CallDisable(t)
  BY <1>1, <1>8, <1>9, CallDisableFacts
<1>10. CASE DisconnectDisables(t)
  BY <1>1, <1>8, <1>10, DisconnectDisablesFacts
<1>11. CASE ApplyKey(t)
  <2>1. Applied(Assignments[at[t]]) \in Values
    BY DEF Applied, Values
  <2>2. at[t] \in 1..4 /\ Assignments[at[t]] \in Keys
    BY <1>1, <1>3, <1>11, ApplyKeyFacts DEF CallTyped
  <2>3. desktop' \in Configurations
    BY <1>1, <1>11, <2>1, <2>2, ApplyKeyFacts, OneWrite
  <2>4. QED
    BY <1>1, <1>3, <1>5, <1>11, <2>2, <2>3, ApplyKeyFacts DEF SessionTyped, CallTyped
<1>12. CASE ApplyFails(t)
  <2>1. OnlyCall(t) /\ SessionTyped' /\ faults'[t] \in 0..FaultsPerCall /\ leaving'[t] \in BOOLEAN
    <3>1. faults'[t] \in 0..FaultsPerCall /\ mishaps' \subseteq Mishaps
      BY <1>1, <1>6, <1>12, ApplyFailsFacts DEF Mishaps
    <3>2. QED
      BY <1>1, <1>5, <1>12, <3>1, ApplyFailsFacts DEF SessionTyped, CallTyped
  <2>2. ~elsewhere /\ snap[t] \in Snapshots
    BY <1>1, <1>12, ApplyFailsFacts DEF CallTyped
  <2>3. CASE Restores(t, snap[t], "idle")
    BY <1>1, <2>1, <2>2, <2>3, RestoringTyped
  <2>4. CASE pc'[t] = "idle" /\ at'[t] = at[t] /\ snap'[t] = snap[t] /\ after'[t] = after[t]
             /\ failed'[t] = failed[t]
    <3>1. failed'[t] \in BOOLEAN
      BY <1>1, <2>4 DEF CallTyped
    <3>2. QED
      BY <1>1, <1>5, <2>1, <2>4, <3>1 DEF CallTyped
  <2>5. QED
    BY <1>1, <1>12, <2>1, <2>3, <2>4, ApplyFailsFacts
<1>13. CASE Persist(t)
  <2>1. snap[t] \in Snapshots \cup {NoSnapshot, Another} /\ mishaps' \subseteq Mishaps
    BY <1>1, <1>13, PersistFacts DEF CallTyped, SessionTyped, Mishaps
  <2>2. QED
    BY <1>1, <1>3, <1>5, <1>13, <2>1, PersistFacts DEF SessionTyped, CallTyped
<1>14. CASE PersistFails(t)
  <2>1. OnlyCall(t) /\ SessionTyped' /\ faults'[t] \in 0..FaultsPerCall /\ leaving'[t] \in BOOLEAN
    <3>1. faults'[t] \in 0..FaultsPerCall /\ mishaps' \subseteq Mishaps
      BY <1>1, <1>6, <1>14, PersistFailsFacts
    <3>2. QED
      BY <1>1, <1>5, <1>14, <3>1, PersistFailsFacts DEF SessionTyped, CallTyped
  <2>2. CASE ~elsewhere /\ Restores(t, snap[t], "idle")
    <3>1. snap[t] \in Snapshots
      BY <1>1, <1>14, <2>2, PersistFailsFacts DEF CallTyped
    <3>2. QED
      BY <1>1, <2>1, <2>2, <3>1, RestoringTyped
  <2>3. CASE pc'[t] = "idle" /\ at'[t] = at[t] /\ snap'[t] = snap[t] /\ after'[t] = after[t]
             /\ failed'[t] = failed[t]
    <3>1. failed'[t] \in BOOLEAN
      BY <1>1, <2>3 DEF CallTyped
    <3>2. QED
      BY <1>1, <1>5, <2>1, <2>3, <3>1 DEF CallTyped
  <2>4. QED
    BY <1>1, <1>14, <2>1, <2>2, <2>3, PersistFailsFacts
<1>15. CASE Show(t)
  BY <1>1, <1>3, <1>5, <1>15, ShowFacts DEF SessionTyped, CallTyped
<1>16. NextRestoration(t) /\ at[t] \in 1..Len(Restorations) =>
         /\ at'[t] \in 1..Len(Restorations) /\ at'[t] \in 1..5
         /\ pc'[t] \in {"restore", "forget", "stop", "idle"}
  BY <1>3 DEF NextRestoration, Over
<1>17. CASE RestoreKey(t)
  <2>1. at[t] \in 1..Len(Restorations) /\ snap[t] \in Snapshots /\ ~elsewhere
    BY <1>1, <1>17, RestoreKeyFacts DEF CallTyped
  <2>2. /\ Restorations[at[t]] \in Keys
        /\ Restored(t, Restorations[at[t]]) \in Values
    BY <1>1, <1>3, <2>1 DEF Snapshots, Configurations, Restored, SessionTyped
  <2>3. desktop' \in Configurations
    BY <1>1, <1>17, <2>2, RestoreKeyFacts, OneWrite
  <2>4. QED
    BY <1>1, <1>5, <1>16, <1>17, <2>1, <2>3, RestoreKeyFacts DEF SessionTyped, CallTyped
<1>18. CASE RestoreFails(t)
  <2>1. at[t] \in 1..Len(Restorations) /\ snap[t] \in Snapshots /\ ~elsewhere
    BY <1>1, <1>18, RestoreFailsFacts DEF CallTyped
  <2>2. faults'[t] \in 0..FaultsPerCall /\ mishaps' \subseteq Mishaps
    <3>1. Fails(t, Lost(t)) /\ Lost(t) \in SUBSET Mishaps
      BY <1>1, <1>18, RestoreFailsFacts DEF Lost, Mishaps
    <3>2. QED
      BY <1>6, <3>1
  <2>3. SessionTyped'
    BY <1>1, <1>5, <1>18, <2>2, RestoreFailsFacts DEF SessionTyped
  <2>4. /\ OnlyCall(t) /\ NextRestoration(t) /\ pc[t] = "restore"
        /\ snap'[t] = snap[t] /\ after'[t] = after[t] /\ leaving'[t] = leaving[t]
    BY <1>1, <1>18, RestoreFailsFacts
  <2>5. failed'[t] \in BOOLEAN
    BY <1>1, <1>18, RestoreFailsFacts
  <2>6. /\ at'[t] \in 1..Len(Restorations) /\ at'[t] \in 1..5
        /\ pc'[t] \in {"restore", "forget", "stop", "idle"}
    BY <1>16, <2>1, <2>4
  <2>7. Writing(t)'
    BY <1>5, <2>1, <2>4, <2>6
  <2>8. CallTyped(t)'
    BY <1>1, <1>5, <2>1, <2>2, <2>4, <2>5, <2>6, <2>7 DEF CallTyped
  <2>9. QED
    BY <2>3, <2>4, <2>8
<1>19. CASE Forget(t)
  BY <1>1, <1>3, <1>5, <1>19, ForgetFacts DEF SessionTyped, CallTyped
<1>20. CASE ForgetFails(t)
  <2>1. faults'[t] \in 0..FaultsPerCall /\ mishaps' \subseteq Mishaps
    BY <1>1, <1>6, <1>20, ForgetFailsFacts
  <2>2. QED
    BY <1>1, <1>3, <1>5, <1>20, <2>1, ForgetFailsFacts DEF SessionTyped, CallTyped, Over
<1>21. CASE Hide(t)
  BY <1>1, <1>3, <1>5, <1>21, HideFacts DEF SessionTyped, CallTyped, Over
<1>22. CASE DisconnectGoesOn(t)
  BY <1>1, <1>3, <1>5, <1>22, DisconnectGoesOnFacts DEF SessionTyped, CallTyped
<1>23. QED
  BY <1>7, <1>9, <1>10, <1>11, <1>12, <1>13, <1>14, <1>15, <1>17, <1>18, <1>19, <1>20, <1>21,
     <1>22 DEF ThreadStep, Enable, Disable

\* The calls stay where they are.
CallsWait ==
  /\ backend' = backend /\ ownMode' = ownMode /\ elsewhere' = elsewhere
  /\ pc' = pc /\ at' = at /\ snap' = snap /\ after' = after /\ leaving' = leaving
  /\ faults' = faults /\ failed' = failed /\ mishaps' = mishaps

LEMMA ProgramFacts ==
  /\ Connect => CallsWait /\ phase = "up" /\ phase' = phase /\ status' = "CONNECTED"
                      /\ desktop' = desktop /\ disk' = disk /\ shown' = shown
  /\ CoreFails => CallsWait /\ phase' = phase /\ status = "CONNECTED" /\ status' = "ERROR"
                        /\ desktop' = desktop /\ disk' = disk /\ shown' = shown
  /\ Started => CallsWait /\ phase = "starting" /\ phase' = "up" /\ pc[starter] = "idle"
                      /\ desktop' = desktop /\ disk' = disk /\ shown' = shown /\ status' = status
  /\ UNCHANGED proxyVars => CallsWait /\ phase' = phase /\ desktop' = desktop /\ disk' = disk
                             /\ shown' = shown /\ status' = status
BY DEF Connect, CoreFails, Started, proxyVars, session, locals, CallsWait

LEMMA ProcessDiesFacts ==
  ASSUME ProcessDies
  PROVE  /\ backend' = backend /\ ownMode' = ownMode /\ desktop' = desktop /\ disk' = disk
         /\ phase # "down" /\ phase' = "down" /\ status' = "DISCONNECTED" /\ shown' = FALSE
         /\ elsewhere' \in BOOLEAN
         /\ mishaps' = mishaps \cup
                         (IF ~Kept /\ \E t \in Threads : Enabling(t) THEN {"died"} ELSE {})
         /\ pc' = [t \in Threads |-> "idle"] /\ at' = [t \in Threads |-> 1]
         /\ snap' = [t \in Threads |-> NoSnapshot] /\ after' = [t \in Threads |-> "idle"]
         /\ leaving' = [t \in Threads |-> FALSE] /\ faults' = [t \in Threads |-> 0]
         /\ failed' = [t \in Threads |-> FALSE]
BY DEF ProcessDies, session

LEMMA StepCases ==
  ASSUME [ProxyNext]_proxyVars
  PROVE  \/ \E t \in Threads : ThreadStep(t)
         \/ Connect \/ CoreFails \/ Started \/ UNCHANGED proxyVars
         \/ ProcessDies \/ Restart
BY DEF ProxyNext, ThreadStep, Threads

LEMMA WaitTyped ==
  ASSUME ProxyTyped, CallsWait, SessionTyped'
  PROVE  ProxyTyped'
<1>1. Snapshots' = Snapshots /\ Configurations' = Configurations /\ Restorations' = Restorations
  BY SameSession DEF CallsWait
<1>2. ProxyTypeOK'
  BY <1>1 DEF ProxyTyped, ProxyTypeOK, CallsWait, SessionTyped
<1>3. \A t \in Threads : Writing(t)'
  BY <1>1 DEF ProxyTyped, CallsWait, Writing
<1>4. QED
  BY <1>2, <1>3 DEF ProxyTyped

LEMMA StepTyped ==
  ASSUME ProxyTyped, [ProxyNext]_proxyVars
  PROVE  ProxyTyped'
<1>1. ProxyTypeOK /\ SessionTyped
  BY Typed DEF ProxyTyped
<1>2. backend' = backend /\ ownMode' = ownMode =>
        Configurations' = Configurations /\ Snapshots' = Snapshots
  BY SameSession
<1>3. ASSUME NEW t \in Threads, ThreadStep(t)
      PROVE  ProxyTyped'
  BY <1>3, ThreadTyped
<1>4. ASSUME Connect \/ CoreFails \/ Started \/ UNCHANGED proxyVars
      PROVE  ProxyTyped'
  <2>1. CallsWait /\ SessionTyped'
    BY <1>1, <1>2, <1>4, ProgramFacts DEF SessionTyped, CallsWait
  <2>2. QED
    BY <2>1, WaitTyped
<1>5. ASSUME ProcessDies
      PROVE  ProxyTyped'
  <2>1. SessionTyped'
    BY <1>1, <1>2, <1>5, ProcessDiesFacts DEF SessionTyped, Mishaps
  <2>2. \A t \in Threads : Writing(t)'
    BY <1>5, ProcessDiesFacts DEF Writing
  <2>3. FaultsPerCall \in Nat
    BY SysProxyAssumption
  <2>4. pc' \in [Threads -> Steps] /\ at' \in [Threads -> 1..5]
        /\ after' \in [Threads -> {"idle", "forget"}]
    BY <1>5, ProcessDiesFacts DEF Steps
  <2>5. snap' \in [Threads -> (Snapshots \cup {NoSnapshot, Another})']
    BY <1>2, <1>5, ProcessDiesFacts
  <2>6. /\ leaving' \in [Threads -> BOOLEAN] /\ failed' \in [Threads -> BOOLEAN]
        /\ faults' \in [Threads -> 0..FaultsPerCall]
    <3>1. leaving' = [t \in Threads |-> FALSE] /\ failed' = [t \in Threads |-> FALSE]
      BY <1>5, ProcessDiesFacts
    <3>2. leaving' \in [Threads -> BOOLEAN]
      BY ONLY <3>1
    <3>3. failed' \in [Threads -> BOOLEAN]
      BY ONLY <3>1
    <3>4. faults' \in [Threads -> 0..FaultsPerCall]
      BY <1>5, <2>3, ProcessDiesFacts
    <3>5. QED
      BY <3>2, <3>3, <3>4
  <2>7. backend' \in Backends /\ ownMode' \in {"off", "manual"}
    BY <1>1, <1>5, ProcessDiesFacts DEF ProxyTypeOK
  <2>8. QED
    BY <2>1, <2>2, <2>4, <2>5, <2>6, <2>7 DEF ProxyTyped, ProxyTypeOK, SessionTyped
<1>6. ASSUME Restart
      PROVE  ProxyTyped'
  <2>1. SessionTyped' /\ OnlyCall(starter) /\ starter \in Threads
    BY <1>1, <1>2, <1>6, RestartFacts DEF SessionTyped, OnlyCall, Threads
  <2>2. CallTyped(starter) /\ leaving[starter] \in BOOLEAN
    BY <2>1, Typed DEF CallTyped
  <2>3. leaving'[starter] = leaving[starter]
    BY <1>1, <1>6, RestartFacts
  <2>4. leaving'[starter] \in BOOLEAN
    BY <2>2, <2>3
  <2>5. CASE SwitchesOff(starter, "idle")
    <3>1. CallTyped(starter)'
      BY <2>1, <2>4, <2>5, SwitchingTyped
    <3>2. QED
      BY <2>1, <3>1, TypedStep
  <2>6. CASE phase' = "up"
    <3>1. CallsWait
      BY <1>6, <2>6 DEF Restart, CallsWait, session, locals
    <3>2. QED
      BY <2>1, <3>1, WaitTyped
  <2>7. QED
    BY <1>1, <1>6, <2>5, <2>6, RestartFacts
<1>7. QED
  BY <1>3, <1>4, <1>5, <1>6, StepCases

-----------------------------------------------------------------------------
(* One call at a time.                                                     *)

\* Unless two calls have overlapped, at most one is under way.  Callers run while
\* the process is up, and New returns before the first one.
Lone ==
  /\ Without({"overlap"}) => \A s, t \in Threads : pc[s] # "idle" /\ pc[t] # "idle" => s = t
  /\ phase = "up" => pc[starter] = "idle"
  /\ phase # "up" => \A c \in Callers : pc[c] = "idle"
  /\ phase = "down" => pc[starter] = "idle"

\* What has gone wrong stays so.
LEMMA MishapsStay ==
  ASSUME ProxyTypeOK, [ProxyNext]_proxyVars
  PROVE  mishaps \subseteq mishaps'
<1>1. ASSUME NEW t \in Threads, t \in Callers /\ (CallEnable(t) \/ CallDisable(t) \/ DisconnectDisables(t))
      PROVE  mishaps \subseteq mishaps'
  BY <1>1, CallEnableFacts, CallDisableFacts, DisconnectDisablesFacts DEF Reads
<1>2. ASSUME NEW t \in Threads, Enable(t)
      PROVE  mishaps \subseteq mishaps'
  BY <1>2, ApplyKeyFacts, ApplyFailsFacts, PersistFacts, PersistFailsFacts, ShowFacts DEF Enable, Fails
<1>3. ASSUME NEW t \in Threads, Disable(t)
      PROVE  mishaps \subseteq mishaps'
  BY <1>3, RestoreKeyFacts, RestoreFailsFacts, ForgetFacts, ForgetFailsFacts, HideFacts,
     DisconnectGoesOnFacts DEF Disable, Fails
<1>4. CASE Connect \/ CoreFails \/ Started \/ UNCHANGED proxyVars
  BY <1>4, ProgramFacts DEF CallsWait
<1>5. CASE ProcessDies
  BY <1>5, ProcessDiesFacts
<1>6. CASE Restart
  BY <1>6, RestartFacts
<1>7. QED
  BY <1>1, <1>2, <1>3, <1>4, <1>5, <1>6, StepCases DEF ThreadStep

LEMMA StillWithout ==
  ASSUME ProxyTypeOK, [ProxyNext]_proxyVars, NEW kinds, Without(kinds)'
  PROVE  Without(kinds)
BY MishapsStay DEF Without

LEMMA ThreadSteps ==
  ASSUME NEW t \in Threads, ThreadStep(t)
  PROVE  ProxyNext
BY DEF ProxyNext, ThreadStep

LEMMA WhoMoves ==
  ASSUME ProxyTypeOK, NEW t \in Threads, ThreadStep(t)
  PROVE  /\ OnlyCall(t) /\ phase' = phase
         /\ pc[t] # "idle" \/ (t \in Callers /\ phase = "up")
         /\ status' = status \/ status' = "DISCONNECTED"
<1>1. CASE t \in Callers /\ (CallEnable(t) \/ CallDisable(t) \/ DisconnectDisables(t))
  BY <1>1, CallEnableFacts, CallDisableFacts, DisconnectDisablesFacts
<1>2. CASE Enable(t)
  BY <1>2, ApplyKeyFacts, ApplyFailsFacts, PersistFacts, PersistFailsFacts, ShowFacts DEF Enable
<1>3. CASE Disable(t)
  BY <1>3, RestoreKeyFacts, RestoreFailsFacts, ForgetFacts, ForgetFailsFacts, HideFacts,
     DisconnectGoesOnFacts DEF Disable
<1>4. QED
  BY <1>1, <1>2, <1>3 DEF ThreadStep

LEMMA OthersIdle ==
  ASSUME ProxyTypeOK, Lone, NEW t \in Threads, ThreadStep(t), Without({"overlap"})'
  PROVE  /\ \A s \in Threads : s # t => pc[s] = "idle" /\ pc'[s] = "idle"
         /\ IF t = starter THEN phase = "starting" ELSE phase = "up"
<1>1. /\ OnlyCall(t) /\ phase' = phase
      /\ pc[t] # "idle" \/ (t \in Callers /\ phase = "up")
  BY WhoMoves
<1>2. starter \notin Callers /\ starter \in Threads /\ \A s \in Threads : s \in Callers \/ s = starter
  BY SysProxyAssumption DEF Threads
<1>3. Without({"overlap"})
  BY ThreadSteps, StillWithout
<1>4. \A s \in Threads : s # t => pc[s] = "idle"
  <2>1. CASE pc[t] # "idle"
    BY <1>3, <2>1 DEF Lone
  <2>2. CASE pc[t] = "idle"
    <3>1. CallEnable(t) \/ CallDisable(t) \/ DisconnectDisables(t)
      <4>1. ~Enable(t)
        BY <2>2, ApplyKeyFacts, ApplyFailsFacts, PersistFacts, PersistFailsFacts, ShowFacts DEF Enable
      <4>2. ~Disable(t)
        BY <2>2, RestoreKeyFacts, RestoreFailsFacts, ForgetFacts, ForgetFailsFacts, HideFacts,
           DisconnectGoesOnFacts DEF Disable
      <4>3. QED
        BY <4>1, <4>2 DEF ThreadStep
    <3>2. Overlap(t) \subseteq mishaps'
      BY <3>1, CallEnableFacts, CallDisableFacts, DisconnectDisablesFacts DEF Reads
    <3>3. QED
      BY <3>2 DEF Overlap, Without
  <2>3. QED
    BY <2>1, <2>2
<1>5. \A s \in Threads : s # t => pc'[s] = pc[s]
  BY <1>1, OtherCalls
<1>6. IF t = starter THEN phase = "starting" ELSE phase = "up"
  BY <1>1, <1>2 DEF Lone, ProxyTypeOK
<1>7. QED
  BY <1>4, <1>5, <1>6

LEMMA StepLone ==
  ASSUME ProxyTyped, Lone, [ProxyNext]_proxyVars
  PROVE  Lone'
<1>1. ProxyTypeOK /\ starter \in Threads /\ starter \notin Callers
  BY SysProxyAssumption DEF ProxyTyped, Threads
<1>2. ASSUME NEW t \in Threads, ThreadStep(t)
      PROVE  Lone'
  <2>1. OnlyCall(t) /\ phase' = phase /\ (pc[t] # "idle" \/ (t \in Callers /\ phase = "up"))
    BY <1>1, <1>2, WhoMoves
  <2>2. \A s \in Threads : s # t => pc'[s] = pc[s]
    BY <1>1, <2>1, OtherCalls
  <2>3. /\ phase' = "up" => pc'[starter] = "idle"
        /\ phase' # "up" => \A c \in Callers : pc'[c] = "idle"
        /\ phase' = "down" => pc'[starter] = "idle"
    BY <1>1, <2>1, <2>2 DEF Lone, Threads
  <2>4. Without({"overlap"})' => \A s \in Threads : s # t => pc'[s] = "idle"
    BY <1>1, <1>2, OthersIdle
  <2>5. QED
    BY <2>3, <2>4 DEF Lone
<1>3. CASE Connect \/ CoreFails \/ Started \/ UNCHANGED proxyVars
  BY <1>3, ProgramFacts DEF Lone, CallsWait, Without
<1>4. CASE ProcessDies
  BY <1>1, <1>4, ProcessDiesFacts DEF Lone, Threads
<1>5. CASE Restart
  <2>1. OnlyCall(starter) /\ phase = "down"
    BY <1>1, <1>5, RestartFacts
  <2>2. \A s \in Threads : s # starter => pc'[s] = pc[s] /\ pc[s] = "idle"
    BY <1>1, <2>1, OtherCalls DEF Lone, Threads
  <2>3. pc[starter] = "idle"
    BY <2>1 DEF Lone
  <2>4. phase' = "starting" \/ (phase' = "up" /\ pc'[starter] = pc[starter])
    BY <1>1, <1>5, RestartFacts
  <2>5. QED
    BY <1>1, <2>2, <2>3, <2>4 DEF Lone, Threads
<1>6. QED
  BY <1>2, <1>3, <1>4, <1>5, StepCases

\* The switch is shown only if a way back is remembered.
Remembered == Without({"overlap"}) =>
  /\ shown /\ (\A t \in Threads : pc[t] # "hide") => disk # NoSnapshot
  /\ \A t \in Threads : pc[t] = "show" => disk # NoSnapshot

\* The same for a call t when no other one is under way.
Keeps(t) ==
  /\ shown /\ pc[t] # "hide" => disk # NoSnapshot
  /\ pc[t] = "show" => disk # NoSnapshot

LEMMA NotASnapshot ==
  ASSUME ProxyTypeOK
  PROVE  NoSnapshot \notin Snapshots /\ Another \notin Snapshots /\ NoSnapshot # Another
<1>1. \A i \in 1..4 : i = 1 \/ i = 2 \/ i = 3 \/ i = 4
  OBVIOUS
<1>2. CASE backend \in {"gnome", "kde"}
  <2>1. Assignments = <<"http", "socks", "bypass", "mode">>
    BY <1>2 DEF Assignments
  <2>2. Keys = {"http", "socks", "bypass", "mode"}
    BY <1>1, <2>1 DEF Keys
  <2>3. QED
    BY <2>2, SysProxyAssumption DEF Snapshots
<1>3. CASE backend = "wininet"
  <2>1. Assignments = <<"server", "bypass", "auto", "mode">>
    BY <1>3 DEF Assignments
  <2>2. Keys = {"server", "bypass", "auto", "mode"}
    BY <1>1, <2>1 DEF Keys
  <2>3. QED
    BY <2>2, SysProxyAssumption DEF Snapshots
<1>4. QED
  BY <1>2, <1>3, Lists, SysProxyAssumption

LEMMA ThreadKeeps ==
  ASSUME ProxyTyped, NEW t \in Threads, ThreadStep(t), Keeps(t)
  PROVE  Keeps(t)'
<1>1. ProxyTypeOK
  BY DEF ProxyTyped
<1>2. CASE t \in Callers /\ (CallEnable(t) \/ CallDisable(t) \/ DisconnectDisables(t))
  <2>1. /\ pc[t] = "idle" /\ shown' = shown /\ disk' = disk
        /\ pc'[t] \in {"apply", "persist", "forget", "restore", "idle", "stop"}
    <3>1. CASE CallEnable(t)
      BY <1>1, <3>1, CallEnableFacts DEF Reads
    <3>2. CASE CallDisable(t)
      BY <1>1, <3>2, CallDisableFacts DEF SwitchesOff, Restores
    <3>3. CASE DisconnectDisables(t)
      BY <1>1, <3>3, DisconnectDisablesFacts DEF SwitchesOff, Restores
    <3>4. QED
      BY <1>2, <3>1, <3>2, <3>3
  <2>2. QED
    BY <2>1 DEF Keeps
<1>3. CASE ApplyKey(t) \/ ApplyFails(t) \/ PersistFails(t)
  BY <1>1, <1>3, ApplyKeyFacts, ApplyFailsFacts, PersistFailsFacts DEF Keeps, Restores
<1>4. CASE Persist(t)
  <2>1. snap[t] \in Snapshots \cup {Another} /\ disk' = snap[t]
    BY <1>1, <1>4, PersistFacts DEF ProxyTyped, Writing
  <2>2. QED
    BY <1>1, <2>1, NotASnapshot DEF Keeps
<1>5. CASE Show(t)
  BY <1>1, <1>5, ShowFacts DEF Keeps
<1>6. CASE RestoreKey(t) \/ RestoreFails(t)
  <2>1. pc[t] = "restore" /\ NextRestoration(t) /\ shown' = shown /\ disk' = disk
    BY <1>1, <1>6, RestoreKeyFacts, RestoreFailsFacts
  <2>2. Len(Restorations) \in Nat /\ at[t] \in Nat
    <3>1. Len(Restorations) \in 4..5
      BY <1>1, Lists
    <3>2. at[t] \in 1..5
      BY <1>1 DEF ProxyTypeOK
    <3>3. QED
      BY <3>1, <3>2
  <2>3. pc'[t] # "hide" /\ pc'[t] # "show"
    BY <2>1, <2>2 DEF NextRestoration, Over
  <2>4. QED
    BY <2>1, <2>3 DEF Keeps
<1>7. CASE Forget(t) \/ ForgetFails(t)
  BY <1>1, <1>7, ForgetFacts, ForgetFailsFacts DEF Keeps, Over
<1>8. CASE Hide(t) \/ DisconnectGoesOn(t)
  BY <1>1, <1>8, HideFacts, DisconnectGoesOnFacts DEF Keeps, Over
<1>9. QED
  BY <1>2, <1>3, <1>4, <1>5, <1>6, <1>7, <1>8 DEF ThreadStep, Enable, Disable

LEMMA StepRemembered ==
  ASSUME ProxyTyped, Lone, Remembered, [ProxyNext]_proxyVars
  PROVE  Remembered'
<1>1. ProxyTypeOK /\ starter \in Threads
  BY DEF ProxyTyped, Threads
<1>2. SUFFICES ASSUME Without({"overlap"})'
               PROVE  Remembered'
  BY DEF Remembered
<1>3. Without({"overlap"})
  BY <1>1, <1>2, StillWithout
<1>4. ASSUME NEW t \in Threads, ThreadStep(t)
      PROVE  Remembered'
  <2>1. \A s \in Threads : s # t => pc[s] = "idle" /\ pc'[s] = "idle"
    BY <1>1, <1>2, <1>4, OthersIdle
  <2>2. Keeps(t)
    BY <1>3, <2>1 DEF Remembered, Keeps
  <2>3. Keeps(t)'
    BY <1>4, <2>2, ThreadKeeps
  <2>4. QED
    BY <2>1, <2>3 DEF Remembered, Keeps
<1>5. CASE Connect \/ CoreFails \/ Started \/ UNCHANGED proxyVars
  BY <1>3, <1>5, ProgramFacts DEF Remembered, CallsWait
<1>6. CASE ProcessDies
  BY <1>1, <1>6, ProcessDiesFacts DEF Remembered
<1>7. CASE Restart
  <2>1. OnlyCall(starter) /\ phase = "down" /\ disk' = disk /\ shown' = shown
    BY <1>1, <1>7, RestartFacts
  <2>2. \A s \in Threads : pc[s] = "idle" /\ (s # starter => pc'[s] = pc[s])
    BY <1>1, <2>1, OtherCalls DEF Lone, Threads
  <2>3. pc'[starter] \in {"idle", "forget", "restore"}
    BY <1>1, <1>7, <2>2, RestartFacts DEF SwitchesOff, Restores
  <2>4. QED
    BY <1>1, <1>3, <2>1, <2>2, <2>3 DEF Remembered
<1>8. QED
  BY <1>4, <1>5, <1>6, <1>7, StepCases
-----------------------------------------------------------------------------
(* The backends that undo what they have written.                          *)

LEMMA UndoingBackends ==
  ASSUME ProxyTypeOK, UndoesFailures
  PROVE  /\ Keys = {"http", "socks", "bypass", "mode"}
         /\ Addresses = {"http", "socks"}
         /\ Len(Assignments) = 4
         /\ Assignments[1] = "http" /\ Assignments[2] = "socks"
         /\ Assignments[3] = "bypass" /\ Assignments[4] = "mode"
         /\ Len(Restorations) = 5
         /\ Restorations[1] = "mode" /\ Restorations[2] = "mode"
         /\ \A i \in 3..5 : Restorations[i] \in {"http", "socks", "bypass"}
         /\ \A key \in Keys : \E i \in 1..5 : Restorations[i] = key
         /\ \A key : RollsBack(key)
<1>1. backend \in {"gnome", "kde", "wininet"}
  BY Lists
<1>2. backend # "wininet"
  <2>1. SUFFICES ASSUME backend = "wininet"
                 PROVE  FALSE
    OBVIOUS
  <2>2. Assignments = <<"server", "bypass", "auto", "mode">>
    BY <2>1 DEF Assignments
  <2>3. Len(Assignments) = 4 /\ Assignments[1] = "server"
    BY <2>2
  <2>4. "server" \in Keys
    BY <2>3 DEF Keys
  <2>5. QED
    BY <2>1, <2>4 DEF UndoesFailures, RollsBack
<1>3. backend \in {"gnome", "kde"}
  BY <1>1, <1>2
<1>4. \A i \in 1..4 : i = 1 \/ i = 2 \/ i = 3 \/ i = 4
  OBVIOUS
<1>5. Assignments = <<"http", "socks", "bypass", "mode">>
  BY <1>3 DEF Assignments
<1>6. /\ Len(Assignments) = 4
      /\ Assignments[1] = "http" /\ Assignments[2] = "socks"
      /\ Assignments[3] = "bypass" /\ Assignments[4] = "mode"
  BY <1>5
<1>7. Keys = {"http", "socks", "bypass", "mode"}
  BY <1>4, <1>6 DEF Keys
<1>8. Addresses = {"http", "socks"}
  BY <1>7 DEF Addresses
<1>9. \/ Restorations = <<"mode", "mode", "bypass", "http", "socks">>
      \/ Restorations = <<"mode", "mode", "http", "socks", "bypass">>
  BY <1>3 DEF Restorations
<1>10. \A i \in 3..5 : i = 3 \/ i = 4 \/ i = 5
  OBVIOUS
<1>11. /\ Len(Restorations) = 5
       /\ Restorations[1] = "mode" /\ Restorations[2] = "mode"
       /\ \/ /\ Restorations[3] = "bypass" /\ Restorations[4] = "http"
             /\ Restorations[5] = "socks"
          \/ /\ Restorations[3] = "http" /\ Restorations[4] = "socks"
             /\ Restorations[5] = "bypass"
  BY <1>9
<1>12. \A i \in 3..5 : Restorations[i] \in {"http", "socks", "bypass"}
  BY <1>10, <1>11
<1>13. 1 \in 1..5 /\ 3 \in 1..5 /\ 4 \in 1..5 /\ 5 \in 1..5
  OBVIOUS
<1>14. \A key \in Keys : \E i \in 1..5 : Restorations[i] = key
  BY <1>7, <1>11, <1>13
<1>15. \A key : RollsBack(key)
  BY <1>3 DEF RollsBack
<1>16. QED
  BY <1>6, <1>7, <1>8, <1>11, <1>12, <1>14, <1>15

LEMMA WrittenKey ==
  ASSUME ProxyTypeOK, NEW key \in Keys, NEW v, desktop' = [desktop EXCEPT ![key] = v]
  PROVE  \A k \in Keys : desktop'[k] = IF k = key THEN v ELSE desktop[k]
BY DEF ProxyTypeOK, Configurations

-----------------------------------------------------------------------------
(* A session that used no proxy.                                           *)

Sa(configuration) == \A key \in Addresses : configuration[key] = "sa05"
Unused == UndoesFailures /\ ownMode = "off"

\* A configuration with the proxy on, set or remembered, has all the addresses,
\* and while one is remembered with the proxy on, nothing takes them away.
Whole ==
  /\ desktop["mode"] = "manual" => Sa(desktop)
  /\ Kept => disk \in Configurations
  /\ Kept /\ disk["mode"] = "manual" => Sa(disk) /\ Sa(desktop)

\* So has the configuration a call goes back to; the mode is written last when
\* it switches on and first when it switches off, where the second write of it
\* makes up for a failure of the first.
WholeCall(t) ==
  /\ pc[t] = "persist" /\ elsewhere => snap[t] = Another
  /\ pc[t] \in {"apply", "persist", "restore"} /\ snap[t] # Another =>
       /\ snap[t] \in Configurations
       /\ snap[t]["mode"] = "manual" => Sa(snap[t]) /\ Sa(desktop)
       /\ Kept /\ disk["mode"] = "manual" => Sa(snap[t])
       /\ pc[t] = "apply" =>
            \A i \in 1..4 : i < at[t] =>
              desktop[Assignments[i]] = Applied(Assignments[i])
       /\ pc[t] = "persist" => Sa(desktop)
       /\ pc[t] = "restore" /\ (at[t] > 2 \/ (at[t] = 2 /\ faults[t] = 0)) =>
            desktop["mode"] = snap[t]["mode"]

Confusing == {"overlap", "blind", "twice"}
Pure == Without(Confusing) /\ Unused => Whole /\ \A t \in Threads : WholeCall(t)

LEMMA MovingPure ==
  ASSUME ProxyTypeOK, NEW t \in Threads, Whole,
         backend' = backend, ownMode' = ownMode, desktop' = desktop,
         disk' = disk \/ disk' = NoSnapshot, pc'[t] \notin {"apply", "persist", "restore"}
  PROVE  Whole' /\ WholeCall(t)'
<1>1. Addresses' = Addresses /\ Configurations' = Configurations
  BY SameSession
<1>2. QED
  BY <1>1 DEF Whole, WholeCall, Sa, Kept

LEMMA SwitchingOffPure ==
  ASSUME ProxyTypeOK, NEW t \in Threads, NEW over \in {"idle", "stop"}, SwitchesOff(t, over), Whole,
         backend' = backend, ownMode' = ownMode, desktop' = desktop, disk' = disk
  PROVE  Whole' /\ WholeCall(t)'
<1>1. Addresses' = Addresses /\ Configurations' = Configurations
  BY SameSession
<1>2. CASE pc'[t] \in {"forget", over}
  BY <1>2, MovingPure
<1>3. CASE Kept /\ Restores(t, disk, "forget") /\ faults'[t] = 0
  <2>1. /\ pc'[t] = "restore" /\ at'[t] = 1 /\ snap'[t] = disk
    BY <1>3 DEF Restores
  <2>2. Whole'
    BY <1>1 DEF Whole, Sa, Kept
  <2>3. WholeCall(t)'
    BY <1>1, <1>3, <2>1 DEF Whole, WholeCall, Sa, Kept
  <2>4. QED
    BY <2>2, <2>3
<1>4. QED
  BY <1>2, <1>3 DEF SwitchesOff

LEMMA RollingBackPure ==
  ASSUME ProxyTyped, NEW t \in Threads, Whole, WholeCall(t),
         pc[t] \in {"apply", "persist"}, ~elsewhere, Restores(t, snap[t], "idle"),
         backend' = backend, ownMode' = ownMode, desktop' = desktop, disk' = disk
  PROVE  Whole' /\ WholeCall(t)'
<1>1. Addresses' = Addresses /\ Configurations' = Configurations
  BY SameSession
<1>2. snap[t] # Another
  BY NotASnapshot DEF ProxyTyped, Writing
<1>3. pc'[t] = "restore" /\ at'[t] = 1 /\ snap'[t] = snap[t]
  BY DEF Restores
<1>4. Whole'
  BY <1>1 DEF Whole, Sa, Kept
<1>5. WholeCall(t)'
  BY <1>1, <1>2, <1>3 DEF WholeCall, Sa, Kept
<1>6. QED
  BY <1>4, <1>5

LEMMA ApplyKeyPure ==
  ASSUME ProxyTyped, Unused, NEW t \in Threads, Whole, WholeCall(t),
         ApplyKey(t)
  PROVE  Whole' /\ WholeCall(t)'
<1>1. ProxyTypeOK /\ UndoesFailures
  BY DEF ProxyTyped, Unused
<1>2. /\ pc[t] = "apply" /\ at[t] \in 1..4 /\ at'[t] = at[t] + 1
      /\ pc'[t] = IF at[t] = 4 THEN "persist" ELSE "apply"
      /\ snap'[t] = snap[t] /\ disk' = disk /\ snap[t] # Another /\ elsewhere' = elsewhere /\ ~elsewhere
  <2>1. /\ pc[t] = "apply" /\ at'[t] = at[t] + 1 /\ snap'[t] = snap[t] /\ disk' = disk
        /\ pc'[t] = IF at[t] = Len(Assignments) THEN "persist" ELSE "apply"
        /\ elsewhere' = elsewhere
    BY <1>1, ApplyKeyFacts DEF OnlyCall
  <2>2. Len(Assignments) = 4
    BY <1>1, Lists
  <2>3. at[t] \in 1..4 /\ ~elsewhere /\ snap[t] \in Snapshots
    BY <2>1 DEF ProxyTyped, Writing
  <2>4. snap[t] # Another
    BY <1>1, <2>3, NotASnapshot
  <2>5. QED
    BY <2>1, <2>2, <2>3, <2>4
<1> DEFINE key == Assignments[at[t]]
<1>3. key \in Keys
  BY <1>1, <1>2, Lists
<1>4. \A k \in Keys :
        desktop'[k] = IF k = key THEN Applied(key) ELSE desktop[k]
  <2>1. desktop' = [desktop EXCEPT ![key] = Applied(key)]
    BY <1>1, ApplyKeyFacts
  <2> HIDE DEF key
  <2>2. QED
    BY <1>1, <1>3, <2>1, WrittenKey
<1>5. /\ Addresses' = Addresses /\ Assignments' = Assignments
      /\ Configurations' = Configurations /\ (Kept' <=> Kept)
  BY <1>1, <1>2, ApplyKeyFacts, SameSession DEF OnlyCall, Kept
<1>6. /\ Keys = {"http", "socks", "bypass", "mode"}
      /\ Addresses = {"http", "socks"}
      /\ Assignments[1] = "http" /\ Assignments[2] = "socks"
      /\ Assignments[3] = "bypass" /\ Assignments[4] = "mode"
  BY <1>1, UndoingBackends
<1>7. /\ Applied("http") = "sa05" /\ Applied("socks") = "sa05"
      /\ Applied("bypass") = "sa05" /\ Applied("mode") = "manual"
  BY DEF Applied
<1>8. Sa(desktop) => Sa(desktop)'
  BY <1>4, <1>5, <1>6, <1>7 DEF Sa
<1>9. \A i \in 1..4 : i = 1 \/ i = 2 \/ i = 3 \/ i = 4
  OBVIOUS
<1>10. \A i \in 1..4 : i < at'[t] => desktop'[Assignments[i]] = Applied(Assignments[i])
  <2>1. SUFFICES ASSUME NEW i \in 1..4, i < at'[t]
                 PROVE  desktop'[Assignments[i]] = Applied(Assignments[i])
    OBVIOUS
  <2>2. Assignments[i] \in Keys
    BY <1>6, <1>9
  <2>3. CASE i = at[t]
    BY <1>4, <2>2, <2>3
  <2>4. CASE i # at[t]
    <3>1. i < at[t]
      BY <1>2, <2>1, <2>4
    <3>2. Assignments[i] # key
      BY <1>2, <1>6, <1>9, <2>4
    <3>3. QED
      BY <1>2, <1>4, <2>2, <3>1, <3>2 DEF WholeCall
  <2>5. QED
    BY <2>3, <2>4
<1>11. at[t] = 4 => Sa(desktop)'
  <2>1. at[t] = 4 => desktop'["http"] = "sa05" /\ desktop'["socks"] = "sa05"
    BY <1>2, <1>6, <1>7, <1>10
  <2>2. QED
    BY <1>5, <1>6, <2>1 DEF Sa
<1>12. at[t] # 4 => desktop'["mode"] = desktop["mode"]
  BY <1>2, <1>4, <1>6, <1>9
<1>13. desktop'["mode"] = "manual" => Sa(desktop)'
  BY <1>8, <1>11, <1>12 DEF Whole
<1>14. Sa(snap[t]) => (Sa(snap[t]))'
  BY <1>2, <1>5 DEF Sa
<1>15. Kept' /\ disk'["mode"] = "manual" => Sa(disk)' /\ Sa(desktop)'
  BY <1>2, <1>5, <1>8 DEF Whole, Sa
<1>16. Whole'
  BY <1>2, <1>5, <1>13, <1>15 DEF Whole
<1>17. snap'[t]["mode"] = "manual" => (Sa(snap[t]))' /\ Sa(desktop)'
  BY <1>2, <1>8, <1>14 DEF WholeCall
<1>18. Kept' /\ disk'["mode"] = "manual" => (Sa(snap[t]))'
  BY <1>2, <1>5, <1>14 DEF WholeCall
<1>19. pc'[t] = "persist" => Sa(desktop)'
  BY <1>2, <1>11
<1>20. pc'[t] # "restore"
  BY <1>2
<1>21. snap'[t] \in Configurations' /\ ~elsewhere'
  BY <1>2, <1>5 DEF WholeCall
<1>22. WholeCall(t)'
  BY <1>5, <1>10, <1>17, <1>18, <1>19, <1>20, <1>21 DEF WholeCall
<1>23. QED
  BY <1>16, <1>22

LEMMA RestoreKeyPure ==
  ASSUME ProxyTyped, Unused, NEW t \in Threads, Whole, WholeCall(t),
         RestoreKey(t)
  PROVE  Whole' /\ WholeCall(t)'
<1>1. ProxyTypeOK /\ UndoesFailures
  BY DEF ProxyTyped, Unused
<1>2. /\ pc[t] = "restore" /\ NextRestoration(t) /\ at[t] \in 1..5
      /\ snap'[t] = snap[t] /\ disk' = disk /\ snap[t] # Another
      /\ snap[t] \in Configurations
  BY <1>1, RestoreKeyFacts, UndoingBackends, NotASnapshot DEF ProxyTyped, Writing, WholeCall
<1>3. /\ Keys = {"http", "socks", "bypass", "mode"}
      /\ Addresses = {"http", "socks"} /\ Len(Restorations) = 5
      /\ Restorations[1] = "mode" /\ Restorations[2] = "mode"
      /\ \A i \in 3..5 : Restorations[i] \in {"http", "socks", "bypass"}
  BY <1>1, UndoingBackends
<1> DEFINE key == Restorations[at[t]]
<1>4. key \in Keys
  BY <1>1, <1>2, <1>3, Lists
<1>5. \A k \in Keys : desktop'[k] = IF k = key THEN snap[t][key] ELSE desktop[k]
  <2>1. snap[t][key] \in Values
    BY <1>2, <1>4 DEF Configurations
  <2>2. Restored(t, key) = snap[t][key]
    BY <2>1 DEF Restored, Values
  <2>3. desktop' = [desktop EXCEPT ![key] = snap[t][key]]
    BY <1>1, <2>2, RestoreKeyFacts
  <2> HIDE DEF key
  <2>4. QED
    BY <1>1, <1>4, <2>3, WrittenKey
<1>6. /\ Addresses' = Addresses /\ Configurations' = Configurations
      /\ Kept' <=> Kept
  BY <1>1, <1>2, RestoreKeyFacts, SameSession DEF OnlyCall, Kept
<1>7. desktop'["mode"] = snap[t]["mode"]
  <2>1. CASE at[t] \in 1..2
    <3>1. key = "mode"
      BY <1>3, <2>1
    <3>2. QED
      BY <1>3, <1>5, <3>1
  <2>2. CASE at[t] \in 3..5
    <3>1. key # "mode"
      BY <1>3, <2>2
    <3>2. desktop["mode"] = snap[t]["mode"]
      BY <1>2, <2>2 DEF WholeCall
    <3>3. QED
      BY <1>3, <1>5, <3>1, <3>2
  <2>3. QED
    BY <1>2, <2>1, <2>2
<1>8. Sa(desktop) /\ Sa(snap[t]) => Sa(desktop)'
  BY <1>3, <1>5, <1>6 DEF Sa
<1>9. Sa(snap[t]) => (Sa(snap[t]))'
  BY <1>2, <1>6 DEF Sa
<1>10. snap[t]["mode"] = "manual" => Sa(snap[t]) /\ Sa(desktop)
  BY <1>2 DEF WholeCall
<1>11. Kept' /\ disk'["mode"] = "manual" => Sa(disk)' /\ Sa(desktop)' /\ Sa(snap[t])
  BY <1>2, <1>6, <1>8 DEF Whole, WholeCall, Sa
<1>12. Whole'
  BY <1>2, <1>6, <1>7, <1>8, <1>10, <1>11 DEF Whole
<1>13. pc'[t] # "apply" /\ pc'[t] # "persist"
  BY <1>2, <1>3 DEF NextRestoration, Over
<1>14. WholeCall(t)'
  BY <1>2, <1>6, <1>7, <1>8, <1>9, <1>10, <1>11, <1>13 DEF WholeCall
<1>15. QED
  BY <1>12, <1>14

LEMMA RestoreFailsPure ==
  ASSUME ProxyTyped, Unused, NEW t \in Threads, Whole, WholeCall(t),
         RestoreFails(t), Without(Confusing)'
  PROVE  Whole' /\ WholeCall(t)'
<1>1. ProxyTypeOK /\ UndoesFailures
  BY DEF ProxyTyped, Unused
<1>2. /\ pc[t] = "restore" /\ NextRestoration(t) /\ at[t] \in 1..5 /\ Len(Restorations) = 5
      /\ snap'[t] = snap[t] /\ disk' = disk /\ desktop' = desktop
      /\ Fails(t, Lost(t)) /\ snap[t] # Another
  BY <1>1, RestoreFailsFacts, UndoingBackends, NotASnapshot DEF ProxyTyped, Writing
<1>3. faults[t] = 0 /\ faults'[t] = 1
  <2>1. faults[t] \in 0..FaultsPerCall /\ FaultsPerCall \in Nat
    BY <1>1, SysProxyAssumption DEF ProxyTypeOK
  <2>2. ~(faults[t] > 0)
    BY <1>2 DEF Fails, Without, Confusing
  <2>3. QED
    BY <1>2, <2>1, <2>2 DEF Fails
<1>4. /\ Addresses' = Addresses /\ Configurations' = Configurations
      /\ Kept' <=> Kept
  BY <1>1, <1>2, RestoreFailsFacts, SameSession DEF OnlyCall, Kept
<1>5. Whole'
  BY <1>2, <1>4 DEF Whole, Sa
<1>6. pc'[t] # "apply" /\ pc'[t] # "persist"
  BY <1>2 DEF NextRestoration, Over
<1>7. at'[t] > 2 => desktop["mode"] = snap[t]["mode"] \/ at[t] = 1
  BY <1>2, <1>3 DEF WholeCall, NextRestoration
<1>8. at[t] = 1 => at'[t] = 2
  BY <1>2 DEF NextRestoration
<1>9. pc'[t] = "restore" /\ (at'[t] > 2 \/ (at'[t] = 2 /\ faults'[t] = 0)) =>
        desktop'["mode"] = snap'[t]["mode"]
  BY <1>2, <1>3, <1>7, <1>8
<1>10. /\ snap'[t]["mode"] = "manual" => (Sa(snap[t]))' /\ Sa(desktop)'
       /\ Kept' /\ disk'["mode"] = "manual" => (Sa(snap[t]))'
  BY <1>2, <1>4 DEF WholeCall, Sa
<1>11. WholeCall(t)'
  BY <1>2, <1>4, <1>6, <1>9, <1>10 DEF WholeCall
<1>12. QED
  BY <1>5, <1>11

LEMMA PersistPure ==
  ASSUME ProxyTyped, NEW t \in Threads, Whole, WholeCall(t), Persist(t)
  PROVE  Whole' /\ WholeCall(t)'
<1>1. /\ pc[t] = "persist" /\ pc'[t] = "show" /\ disk' = snap[t] /\ desktop' = desktop
      /\ OnlyCall(t)
  BY PersistFacts DEF ProxyTyped
<1>2. Addresses' = Addresses /\ Configurations' = Configurations
  BY <1>1, SameSession DEF OnlyCall
<1>3. Kept' => snap[t] # Another
  BY <1>1 DEF Kept
<1>4. QED
  BY <1>1, <1>2, <1>3 DEF Whole, WholeCall, Sa

LEMMA CallEnablePure ==
  ASSUME ProxyTypeOK, NEW t \in Threads, Whole, CallEnable(t), Without(Confusing)'
  PROVE  Whole' /\ WholeCall(t)'
<1>1. /\ at'[t] = 1 /\ desktop' = desktop /\ disk' = disk /\ OnlyCall(t) /\ Reads(t)
  BY CallEnableFacts
<1>2. /\ Addresses' = Addresses /\ Configurations' = Configurations
      /\ Kept' <=> Kept
  BY <1>1, SameSession DEF OnlyCall, Kept
<1>3. \A i \in 1..4 : ~(i < at'[t])
  BY <1>1
<1>4. Whole'
  BY <1>1, <1>2 DEF Whole, Sa
<1>5. CASE pc'[t] = "persist" /\ snap'[t] = Another
  <2>1. WholeCall(t)'
    BY <1>5 DEF WholeCall
  <2>2. QED
    BY <1>4, <2>1
<1>6. CASE pc'[t] = "apply" /\ snap'[t] = desktop
  <2>1. snap'[t] \in Configurations'
    BY <1>2, <1>6 DEF ProxyTypeOK
  <2>2. QED
    BY <1>1, <1>2, <1>3, <1>6, <2>1 DEF Whole, WholeCall, Sa
<1>7. QED
  BY <1>1, <1>4, <1>5, <1>6 DEF Reads, Without, Confusing

LEMMA ThreadPure ==
  ASSUME ProxyTyped, Unused, NEW t \in Threads, Whole, WholeCall(t), ThreadStep(t),
         Without(Confusing)'
  PROVE  Whole' /\ WholeCall(t)'
<1>1. ProxyTypeOK /\ UndoesFailures
  BY DEF ProxyTyped, Unused
<1>2. CASE CallEnable(t)
  BY <1>1, <1>2, CallEnablePure
<1>3. CASE CallDisable(t) \/ DisconnectDisables(t)
  BY <1>1, <1>3, CallDisableFacts, DisconnectDisablesFacts, SwitchingOffPure DEF OnlyCall
<1>4. CASE ApplyKey(t)
  BY <1>4, ApplyKeyPure
<1>5. CASE ApplyFails(t)
  <2>1. /\ pc[t] = "apply" /\ Restores(t, snap[t], "idle") /\ OnlyCall(t) /\ ~elsewhere
        /\ desktop' = desktop /\ disk' = disk
    BY <1>1, <1>5, ApplyFailsFacts, UndoingBackends DEF ProxyTyped, Writing
  <2>2. QED
    BY <2>1, RollingBackPure DEF OnlyCall
<1>6. CASE PersistFails(t)
  <2>1. /\ pc[t] = "persist" /\ OnlyCall(t) /\ desktop' = desktop /\ disk' = disk
        /\ (~elsewhere /\ Restores(t, snap[t], "idle")) \/ pc'[t] = "idle"
    BY <1>1, <1>6, PersistFailsFacts
  <2>2. QED
    BY <1>1, <2>1, RollingBackPure, MovingPure DEF OnlyCall
<1>7. CASE Persist(t)
  BY <1>7, PersistPure
<1>8. CASE RestoreKey(t)
  BY <1>8, RestoreKeyPure
<1>9. CASE RestoreFails(t)
  BY <1>9, RestoreFailsPure
<1>10. CASE Show(t) \/ Forget(t) \/ ForgetFails(t) \/ Hide(t) \/ DisconnectGoesOn(t)
  <2>1. /\ OnlyCall(t) /\ desktop' = desktop /\ (disk' = disk \/ disk' = NoSnapshot)
        /\ pc'[t] \in {"idle", "hide", "stop"}
    BY <1>1, <1>10, ShowFacts, ForgetFacts, ForgetFailsFacts, HideFacts, DisconnectGoesOnFacts DEF Over
  <2>2. QED
    BY <1>1, <2>1, MovingPure DEF OnlyCall
<1>11. QED
  BY <1>2, <1>3, <1>4, <1>5, <1>6, <1>7, <1>8, <1>9, <1>10 DEF ThreadStep, Enable, Disable

LEMMA SameUnused ==
  ASSUME backend' = backend, ownMode' = ownMode
  PROVE  Unused' <=> Unused
BY SameSession DEF Unused

LEMMA StepPure ==
  ASSUME ProxyTyped, Lone, Pure, [ProxyNext]_proxyVars
  PROVE  Pure'
<1>1. ProxyTypeOK /\ starter \in Threads
  BY DEF ProxyTyped, Threads
<1>2. SUFFICES ASSUME Without(Confusing)'
               PROVE  Pure'
  BY DEF Pure
<1>3. Without(Confusing) /\ Without({"overlap"})'
  BY <1>1, <1>2, StillWithout DEF Without, Confusing
<1>4. ASSUME NEW t \in Threads, ThreadStep(t)
      PROVE  Pure'
  <2>1. \A s \in Threads : s # t => pc'[s] = "idle"
    BY <1>1, <1>3, <1>4, OthersIdle
  <2>2. Unused' <=> Unused
    BY <1>1, <1>4, WhoMoves, SameUnused DEF OnlyCall
  <2>3. Unused => Whole' /\ WholeCall(t)'
    BY <1>2, <1>3, <1>4, ThreadPure DEF Pure
  <2>4. \A s \in Threads : s # t => WholeCall(s)'
    BY <2>1 DEF WholeCall
  <2>5. QED
    BY <2>2, <2>3, <2>4 DEF Pure
<1>5. CASE Connect \/ CoreFails \/ Started \/ UNCHANGED proxyVars
  <2>1. CallsWait /\ desktop' = desktop /\ disk' = disk
    BY <1>5, ProgramFacts
  <2>2. /\ Unused' <=> Unused
        /\ Addresses' = Addresses /\ Assignments' = Assignments
        /\ Configurations' = Configurations /\ (Kept' <=> Kept)
    BY <2>1, SameUnused, SameSession DEF CallsWait, Kept
  <2>3. Whole => Whole'
    BY <2>1, <2>2 DEF Whole, Sa
  <2>4. \A t \in Threads : WholeCall(t) => WholeCall(t)'
    BY <2>1, <2>2 DEF CallsWait, WholeCall, Sa
  <2>5. QED
    BY <1>3, <2>2, <2>3, <2>4 DEF Pure
<1>6. CASE ProcessDies
  <2>1. /\ backend' = backend /\ ownMode' = ownMode /\ desktop' = desktop /\ disk' = disk
        /\ \A t \in Threads : pc'[t] = "idle"
    BY <1>6, ProcessDiesFacts
  <2>2. Unused' <=> Unused
    BY <2>1, SameUnused
  <2>3. Whole => Whole' /\ \A t \in Threads : WholeCall(t)'
    BY <1>1, <2>1, MovingPure DEF WholeCall
  <2>4. QED
    BY <1>3, <2>2, <2>3 DEF Pure
<1>7. CASE Restart
  <2>1. OnlyCall(starter) /\ phase = "down" /\ desktop' = desktop /\ disk' = disk
    BY <1>1, <1>7, RestartFacts
  <2>2. Unused' <=> Unused
    BY <2>1, SameUnused DEF OnlyCall
  <2>3. \A s \in Threads : s # starter => pc'[s] = "idle"
    BY <1>1, <2>1, OtherCalls DEF Lone, Threads
  <2>4. pc[starter] = "idle"
    BY <2>1 DEF Lone
  <2>5. Whole => Whole' /\ WholeCall(starter)'
    <3>1. CASE SwitchesOff(starter, "idle")
      BY <1>1, <2>1, <3>1, SwitchingOffPure DEF OnlyCall
    <3>2. CASE pc'[starter] = "idle"
      BY <1>1, <2>1, <3>2, MovingPure DEF OnlyCall
    <3>3. QED
      BY <1>1, <1>7, <2>4, <3>1, <3>2, RestartFacts
  <2>6. \A s \in Threads : s # starter => WholeCall(s)'
    BY <2>3 DEF WholeCall
  <2>7. QED
    BY <1>3, <2>2, <2>5, <2>6 DEF Pure
<1>8. QED
  BY <1>4, <1>5, <1>6, <1>7, StepCases

-----------------------------------------------------------------------------
(* The configuration of before SA05.                                       *)

\* What a call holds and has written, in terms of the original configuration.
Recoverable(t) ==
  /\ Enabling(t) /\ ~Kept => snap[t] = Original
  /\ pc[t] = "persist" /\ elsewhere => snap[t] = Another
  /\ leaving[t] => pc[t] \in {"restore", "forget", "hide", "stop"} /\ ~Enabling(t)
  /\ pc[t] = "restore" /\ after[t] = "forget" => Kept /\ snap[t] = Original
  /\ pc[t] = "restore" /\ after[t] = "idle" => ~failed[t]
  /\ pc[t] = "restore" /\ ~failed[t] /\ (after[t] = "forget" \/ ~Kept) =>
       \A j \in 1..Len(Restorations) : j < at[t] =>
         desktop[Restorations[j]] = Original[Restorations[j]]
  /\ pc[t] \in {"forget", "hide"} => desktop = Original
  /\ pc[t] = "stop" => desktop = Original \/ (Kept /\ failed[t])
  /\ status = "DISCONNECTED" => ~Enabling(t) /\ pc[t] \notin {"persist", "show"}

\* What is remembered is the original configuration, which is in place when
\* nothing is remembered and nothing is being switched on; without a core it is
\* in place, or switching off has returned an error and can be tried again.
WayBack ==
  /\ Kept => disk = Original
  /\ ~Kept /\ (\A t \in Threads : ~Enabling(t)) => desktop = Original
  /\ status = "DISCONNECTED" /\ phase # "down" /\ (\A t \in Threads : pc[t] = "idle") =>
       desktop = Original \/ (Kept /\ \E t \in Threads : failed[t])
  /\ phase # "up" => status = "DISCONNECTED"

Recovers == Without(Lossy) => WayBack /\ \A t \in Threads : Recoverable(t)

\* WayBack as one call sees it when no other one is under way.
OwnWayBack(t) ==
  /\ Kept => disk = Original
  /\ ~Kept /\ ~Enabling(t) => desktop = Original
  /\ status = "DISCONNECTED" /\ phase # "down" /\ pc[t] = "idle" =>
       desktop = Original \/ (Kept /\ \E u \in Threads : failed[u])

LEMMA OriginalIsRead ==
  ASSUME ProxyTypeOK
  PROVE  /\ Original \in Configurations
         /\ \A key \in Keys : Original[key] \in Values /\ Original[key] # "absent"
<1>1. \A key \in Keys : (IF key = "mode" THEN ownMode ELSE "foreign") \in Values
  BY DEF ProxyTypeOK, Values
<1>2. Original \in Configurations
  BY <1>1 DEF Original, Configurations
<1>3. \A key \in Keys : Original[key] \in Values
  BY <1>2 DEF Configurations
<1>4. "absent" \notin Values
  BY DEF Values
<1>5. QED
  BY <1>2, <1>3, <1>4

LEMMA AllRestored ==
  ASSUME ProxyTypeOK, ProxyTypeOK', backend' = backend, ownMode' = ownMode,
         \A j \in 1..Len(Restorations) : desktop'[Restorations[j]] = Original[Restorations[j]]
  PROVE  desktop' = Original
<1>1. \A key \in Keys : desktop'[key] = Original[key]
  BY Lists
<1>2. desktop' \in [Keys -> Values]
  BY SameSession DEF ProxyTypeOK, Configurations
<1>3. Original = [key \in Keys |-> Original[key]]
  BY DEF Original
<1>4. QED
  BY <1>1, <1>2, <1>3

LEMMA EnablingAfter ==
  ASSUME NEW t, pc'[t] \notin {"apply", "persist", "restore"}
  PROVE  ~Enabling(t)'
BY DEF Enabling

LEMMA SwitchingOffRecovers ==
  ASSUME ProxyTypeOK, NEW t \in Threads, NEW over \in {"idle", "stop"}, SwitchesOff(t, over),
         OwnWayBack(t), ~Enabling(t), over = "idle" => ~leaving'[t],
         backend' = backend, ownMode' = ownMode, desktop' = desktop, disk' = disk
  PROVE  OwnWayBack(t)' /\ Recoverable(t)'
<1>1. Original' = Original /\ Restorations' = Restorations /\ (Kept' <=> Kept)
  BY SameSession DEF Kept
<1>2. /\ Kept => disk = Original
      /\ ~Kept => desktop = Original
  BY DEF OwnWayBack
<1>3. CASE pc'[t] = "forget" /\ ~Kept
  <2>1. ~Enabling(t)'
    BY <1>3, EnablingAfter
  <2>2. OwnWayBack(t)'
    BY <1>1, <1>2, <1>3 DEF OwnWayBack
  <2>3. Recoverable(t)'
    BY <1>1, <1>2, <1>3, <2>1 DEF Recoverable
  <2>4. QED
    BY <2>2, <2>3
<1>4. CASE Kept /\ Restores(t, disk, "forget")
  <2>1. pc'[t] = "restore" /\ at'[t] = 1 /\ snap'[t] = Original /\ after'[t] = "forget"
    BY <1>2, <1>4 DEF Restores
  <2>2. ~failed'[t]
    BY <1>4 DEF Restores
  <2>3. ~Enabling(t)'
    BY <2>1 DEF Enabling
  <2>4. \A j \in 1..Len(Restorations) : ~(j < at'[t])
    BY <2>1
  <2>5. OwnWayBack(t)'
    BY <1>1, <1>2, <1>4, <2>1 DEF OwnWayBack
  <2>6. Recoverable(t)'
    BY <1>1, <1>4, <2>1, <2>2, <2>3, <2>4 DEF Recoverable
  <2>7. QED
    BY <2>5, <2>6
<1>5. CASE pc'[t] = over /\ failed'[t] = TRUE
  <2>1. failed'[t] /\ pc'[t] \in {"idle", "stop"} /\ (pc'[t] = "idle" => ~leaving'[t])
    BY <1>5
  <2>2. ~Enabling(t)'
    BY <2>1, EnablingAfter
  <2>3. desktop' = Original' \/ (Kept' /\ failed'[t])
    BY <1>1, <1>2, <2>1
  <2>4. OwnWayBack(t)'
    BY <1>1, <1>2, <2>3 DEF OwnWayBack
  <2>5. Recoverable(t)'
    BY <2>1, <2>2, <2>3 DEF Recoverable
  <2>6. QED
    BY <2>4, <2>5
<1>6. disk = NoSnapshot \/ (disk = Another /\ elsewhere) => ~Kept
  BY DEF Kept
<1>7. QED
  BY <1>3, <1>4, <1>5, <1>6 DEF SwitchesOff

\* A call ends, or is left with what follows the restoration.
LEMMA EndingRecovers ==
  ASSUME NEW t \in Threads, backend' = backend, ownMode' = ownMode,
         Kept' => disk' = Original, ~Kept' => desktop' = Original,
         pc'[t] \in {"idle", "stop", "forget", "hide"},
         pc'[t] = "idle" => ~leaving'[t],
         pc'[t] \in {"forget", "hide"} => desktop' = Original,
         pc'[t] = "stop" => desktop' = Original \/ failed'[t],
         pc'[t] = "idle" /\ status' = "DISCONNECTED" => desktop' = Original \/ failed'[t]
  PROVE  OwnWayBack(t)' /\ Recoverable(t)'
<1>1. Original' = Original
  BY SameSession
<1>2. ~Enabling(t)'
  BY EnablingAfter
<1>3. OwnWayBack(t)'
  BY <1>1, <1>2 DEF OwnWayBack
<1>4. Recoverable(t)'
  BY <1>1, <1>2 DEF Recoverable
<1>5. QED
  BY <1>3, <1>4

LEMMA CallEnableRecovers ==
  ASSUME ProxyTyped, NEW t \in Threads, OwnWayBack(t), Recoverable(t),
         CallEnable(t), Without(Lossy)'
  PROVE  OwnWayBack(t)' /\ Recoverable(t)'
<1>1. /\ OnlyCall(t) /\ pc[t] = "idle" /\ status = "CONNECTED" /\ Reads(t)
      /\ desktop' = desktop /\ disk' = disk /\ status' = status /\ leaving'[t] = leaving[t]
  BY CallEnableFacts DEF ProxyTyped
<1>2. Original' = Original /\ (Kept' <=> Kept) /\ elsewhere' = elsewhere
  BY <1>1, SameSession DEF OnlyCall, Kept
<1>3. /\ Kept => disk = Original
      /\ ~Kept => desktop = Original
      /\ ~leaving[t]
  BY <1>1 DEF OwnWayBack, Recoverable, Enabling
<1>4. CASE elsewhere /\ pc'[t] = "persist" /\ snap'[t] = Another
  <2>1. ~Enabling(t)'
    BY <1>2, <1>4 DEF Enabling
  <2>2. OwnWayBack(t)'
    BY <1>1, <1>2, <1>3, <1>4 DEF OwnWayBack
  <2>3. Recoverable(t)'
    BY <1>1, <1>3, <1>4, <2>1 DEF Recoverable
  <2>4. QED
    BY <2>2, <2>3
<1>5. CASE pc'[t] = "apply" /\ snap'[t] = desktop
  <2>1. Enabling(t)'
    BY <1>5 DEF Enabling
  <2>2. OwnWayBack(t)'
    BY <1>1, <1>2, <1>3, <1>5, <2>1 DEF OwnWayBack
  <2>3. Recoverable(t)'
    BY <1>1, <1>2, <1>3, <1>5 DEF Recoverable
  <2>4. QED
    BY <2>2, <2>3
<1>6. QED
  BY <1>1, <1>4, <1>5 DEF Reads, Without, Lossy

LEMMA ApplyKeyRecovers ==
  ASSUME ProxyTyped, NEW t \in Threads, OwnWayBack(t), Recoverable(t),
         ApplyKey(t)
  PROVE  OwnWayBack(t)' /\ Recoverable(t)'
<1>1. /\ OnlyCall(t) /\ pc[t] = "apply" /\ pc'[t] \in {"apply", "persist"}
      /\ snap'[t] = snap[t] /\ disk' = disk /\ status' = status /\ leaving'[t] = leaving[t]
  BY ApplyKeyFacts DEF ProxyTyped
<1>2. Original' = Original /\ (Kept' <=> Kept) /\ elsewhere' = elsewhere /\ ~elsewhere
  BY <1>1, SameSession DEF OnlyCall, Kept, ProxyTyped, Writing
<1>3. Enabling(t) /\ Enabling(t)'
  BY <1>1, <1>2 DEF Enabling
<1>4. status # "DISCONNECTED" /\ ~leaving[t] /\ (~Kept => snap[t] = Original)
  BY <1>1, <1>3 DEF Recoverable
<1>5. OwnWayBack(t)'
  BY <1>1, <1>2, <1>3 DEF OwnWayBack
<1>6. Recoverable(t)'
  BY <1>1, <1>2, <1>4 DEF Recoverable
<1>7. QED
  BY <1>5, <1>6

LEMMA RollingBackRecovers ==
  ASSUME ProxyTyped, NEW t \in Threads, OwnWayBack(t), Recoverable(t),
         ApplyFails(t) \/ PersistFails(t), Without(Lossy)'
  PROVE  OwnWayBack(t)' /\ Recoverable(t)'
<1>1. ProxyTypeOK
  BY DEF ProxyTyped
<1>2. /\ OnlyCall(t) /\ pc[t] \in {"apply", "persist"} /\ leaving'[t] = leaving[t]
      /\ desktop' = desktop /\ disk' = disk /\ status' = status
  BY <1>1, ApplyFailsFacts, PersistFailsFacts
<1>3. Original' = Original /\ Restorations' = Restorations /\ (Kept' <=> Kept)
  BY <1>2, SameSession DEF OnlyCall, Kept
<1>4. /\ status # "DISCONNECTED" /\ ~leaving[t]
      /\ Enabling(t) /\ ~Kept => snap[t] = Original
  BY <1>2 DEF Recoverable, Enabling
<1>5. \/ Restores(t, snap[t], "idle") /\ Enabling(t)
      \/ pc'[t] = "idle" /\ ~Enabling(t)
  <2>1. CASE ApplyFails(t)
    <3>1. pc[t] = "apply"
      BY <1>1, <2>1, ApplyFailsFacts
    <3>2. "halfway" \notin mishaps'
      BY DEF Without, Lossy
    <3>3. Restores(t, snap[t], "idle")
      BY <1>1, <2>1, <3>2, ApplyFailsFacts DEF Fails
    <3>4. QED
      BY <3>1, <3>3 DEF Enabling
  <2>2. CASE PersistFails(t)
    BY <1>1, <2>2, PersistFailsFacts DEF Enabling
  <2>3. QED
    BY <2>1, <2>2
<1>6. CASE Restores(t, snap[t], "idle") /\ Enabling(t)
  <2>1. /\ pc'[t] = "restore" /\ at'[t] = 1 /\ snap'[t] = snap[t] /\ after'[t] = "idle"
    BY <1>6 DEF Restores
  <2>2. ~failed'[t]
    BY <1>6 DEF Restores
  <2>3. Enabling(t)'
    BY <2>1 DEF Enabling
  <2>4. \A j \in 1..Len(Restorations) : ~(j < at'[t])
    BY <2>1
  <2>5. OwnWayBack(t)'
    BY <1>2, <1>3, <2>1, <2>3 DEF OwnWayBack
  <2>6. Recoverable(t)'
    BY <1>2, <1>3, <1>4, <1>6, <2>1, <2>2, <2>4 DEF Recoverable
  <2>7. QED
    BY <2>5, <2>6
<1>7. CASE pc'[t] = "idle" /\ ~Enabling(t)
  <2>1. /\ Kept' => disk' = Original
        /\ ~Kept' => desktop' = Original
    BY <1>2, <1>3, <1>7 DEF OwnWayBack
  <2>2. QED
    BY <1>2, <1>4, <1>7, <2>1, EndingRecovers DEF OnlyCall
<1>8. QED
  BY <1>5, <1>6, <1>7

LEMMA PersistRecovers ==
  ASSUME ProxyTyped, NEW t \in Threads, OwnWayBack(t), Recoverable(t),
         Persist(t), Without(Lossy)'
  PROVE  OwnWayBack(t)' /\ Recoverable(t)'
<1>1. ProxyTypeOK
  BY DEF ProxyTyped
<1>2. /\ OnlyCall(t) /\ pc[t] = "persist" /\ pc'[t] = "show" /\ disk' = snap[t]
      /\ desktop' = desktop /\ status' = status /\ leaving'[t] = leaving[t]
  BY <1>1, PersistFacts
<1>3. Original' = Original
  BY <1>2, SameSession DEF OnlyCall
<1>4. status # "DISCONNECTED" /\ ~leaving[t]
  BY <1>2 DEF Recoverable
<1>5. disk \in {NoSnapshot, snap[t]}
  <2>1. "again" \notin mishaps'
    BY DEF Without, Lossy
  <2>2. QED
    BY <1>1, <2>1, PersistFacts
<1>6. /\ Kept' => disk' = Original
      /\ ~Kept' => desktop' = Original
  <2>1. CASE elsewhere
    <3>1. snap[t] = Another /\ ~Enabling(t)
      BY <1>2, <2>1 DEF Recoverable, Enabling
    <3>2. ~Kept /\ ~Kept'
      BY <1>2, <1>5, <3>1 DEF Kept
    <3>3. QED
      BY <1>2, <3>1, <3>2 DEF OwnWayBack
  <2>2. CASE ~elsewhere
    <3>1. snap[t] \in Snapshots /\ Enabling(t)
      BY <1>2, <2>2 DEF ProxyTyped, Writing, Enabling
    <3>2. Kept'
      BY <1>1, <1>2, <3>1, NotASnapshot DEF Kept
    <3>3. snap[t] = Original
      BY <1>5, <3>1 DEF Recoverable, OwnWayBack, Kept
    <3>4. QED
      BY <1>2, <3>2, <3>3
  <2>3. QED
    BY <2>1, <2>2
<1>7. ~Enabling(t)'
  BY <1>2, EnablingAfter
<1>8. OwnWayBack(t)'
  BY <1>2, <1>3, <1>6 DEF OwnWayBack
<1>9. Recoverable(t)'
  BY <1>2, <1>4, <1>7 DEF Recoverable
<1>10. QED
  BY <1>8, <1>9

\* A restoration that goes on, or that has reached the last key.
LEMMA RestoringRecovers ==
  ASSUME ProxyTyped, ProxyTyped', NEW t \in Threads,
         OwnWayBack(t), Recoverable(t), OnlyCall(t), pc[t] = "restore", NextRestoration(t),
         disk' = disk, status' = status, snap'[t] = snap[t], after'[t] = after[t],
         leaving'[t] = leaving[t], failed'[t] => after[t] = "forget",
         ~failed'[t] /\ (after[t] = "forget" \/ ~Kept) =>
           \A j \in 1..Len(Restorations) : j <= at[t] =>
             desktop'[Restorations[j]] = Original[Restorations[j]]
  PROVE  OwnWayBack(t)' /\ Recoverable(t)'
<1>1. ProxyTypeOK /\ ProxyTypeOK'
  BY DEF ProxyTyped
<1>2. /\ Original' = Original /\ Restorations' = Restorations /\ (Kept' <=> Kept)
      /\ backend' = backend /\ ownMode' = ownMode
  BY SameSession DEF OnlyCall, Kept
<1>3. Len(Restorations) \in Nat /\ at[t] \in 1..Len(Restorations)
  BY <1>1, Lists DEF ProxyTyped, Writing
<1>4. after[t] \in {"idle", "forget"}
  BY <1>1 DEF ProxyTypeOK
<1>5. /\ Kept => disk = Original
      /\ after[t] = "forget" => Kept /\ snap[t] = Original
      /\ ~Kept => snap[t] = Original
  BY <1>4 DEF Recoverable, OwnWayBack, Enabling
<1>6. after[t] = "idle" => status # "DISCONNECTED" /\ ~leaving[t]
  BY DEF Recoverable, Enabling
<1>7. CASE at[t] < Len(Restorations)
  <2>1. pc'[t] = "restore" /\ at'[t] = at[t] + 1
    BY <1>7 DEF NextRestoration
  <2>2. \A j \in 1..Len(Restorations) : j < at'[t] => j <= at[t]
    BY <1>3, <2>1
  <2>3. ~failed'[t] /\ (after[t] = "forget" \/ ~Kept) =>
          \A j \in 1..Len(Restorations) : j < at'[t] =>
            desktop'[Restorations[j]] = Original[Restorations[j]]
    BY <2>2
  <2>4. Enabling(t)' <=> after[t] = "idle"
    BY <2>1 DEF Enabling
  <2>5. OwnWayBack(t)'
    BY <1>2, <1>4, <1>5, <2>1, <2>4 DEF OwnWayBack
  <2>6. /\ Enabling(t)' /\ ~Kept' => snap'[t] = Original'
        /\ leaving'[t] => ~Enabling(t)'
        /\ after'[t] = "forget" => Kept' /\ snap'[t] = Original'
        /\ after'[t] = "idle" => ~failed'[t]
        /\ status' = "DISCONNECTED" => ~Enabling(t)'
    BY <1>2, <1>5, <1>6, <2>4
  <2>7. ~failed'[t] /\ (after'[t] = "forget" \/ ~Kept') =>
          \A j \in 1..Len(Restorations') : j < at'[t] =>
            desktop'[Restorations'[j]] = Original'[Restorations'[j]]
    BY <1>2, <2>3
  <2>8. Recoverable(t)'
    BY <2>1, <2>6, <2>7 DEF Recoverable
  <2>9. QED
    BY <2>5, <2>8
<1>8. CASE at[t] = Len(Restorations)
  <2>1. pc'[t] = IF ~failed'[t] /\ after[t] = "forget" THEN "forget" ELSE Over(t)
    BY <1>3, <1>8 DEF NextRestoration
  <2>2. ~failed'[t] /\ (after[t] = "forget" \/ ~Kept) => desktop' = Original
    <3>1. \A j \in 1..Len(Restorations) : j <= at[t]
      BY <1>8
    <3>2. SUFFICES ASSUME ~failed'[t], after[t] = "forget" \/ ~Kept
                   PROVE  desktop' = Original
      OBVIOUS
    <3>3. \A j \in 1..Len(Restorations) : desktop'[Restorations[j]] = Original[Restorations[j]]
      BY <3>1, <3>2
    <3>4. QED
      BY <1>1, <1>2, <3>3, AllRestored
  <2>3. /\ Kept' => disk' = Original
        /\ ~Kept' => desktop' = Original
    BY <1>2, <1>5, <2>2
  <2>4. Over(t) \in {"idle", "stop"} /\ (Over(t) = "idle" => ~leaving[t]) /\ (Over(t) = "stop" => leaving[t])
    BY DEF Over
  <2>5. CASE failed'[t]
    <3>1. pc'[t] = Over(t)
      BY <2>1, <2>5
    <3>2. QED
      BY <1>2, <2>3, <2>4, <2>5, <3>1, EndingRecovers
  <2>6. CASE ~failed'[t] /\ after[t] = "forget"
    <3>1. pc'[t] = "forget" /\ desktop' = Original
      BY <2>1, <2>2, <2>6
    <3>2. QED
      BY <1>2, <2>3, <3>1, EndingRecovers
  <2>7. CASE ~failed'[t] /\ after[t] = "idle"
    <3>1. pc'[t] = "idle" /\ ~leaving[t] /\ status # "DISCONNECTED"
      BY <1>6, <2>1, <2>4, <2>7
    <3>2. QED
      BY <1>2, <2>3, <3>1, EndingRecovers
  <2>8. QED
    BY <1>4, <2>5, <2>6, <2>7
<1>9. QED
  BY <1>3, <1>7, <1>8

LEMMA RestoreKeyRecovers ==
  ASSUME ProxyTyped, ProxyTyped', NEW t \in Threads,
         OwnWayBack(t), Recoverable(t), RestoreKey(t)
  PROVE  OwnWayBack(t)' /\ Recoverable(t)'
<1>1. ProxyTypeOK
  BY DEF ProxyTyped
<1>2. /\ OnlyCall(t) /\ pc[t] = "restore" /\ NextRestoration(t) /\ disk' = disk
      /\ status' = status /\ snap'[t] = snap[t] /\ after'[t] = after[t] /\ leaving'[t] = leaving[t]
  BY <1>1, RestoreKeyFacts
<1>3. failed'[t] <=> failed[t]
  BY <1>1, RestoreKeyFacts
<1>4. /\ after[t] \in {"idle", "forget"} /\ at[t] \in 1..Len(Restorations)
      /\ Len(Restorations) \in Nat
  BY <1>1, <1>2, Lists DEF ProxyTypeOK, ProxyTyped, Writing
<1>5. failed'[t] => after[t] = "forget"
  BY <1>2, <1>3, <1>4 DEF Recoverable
<1> DEFINE key == Restorations[at[t]]
<1>6. \A j \in 1..Len(Restorations) : Restorations[j] \in Keys
  BY <1>1, Lists
<1>7. ASSUME ~failed'[t], after[t] = "forget" \/ ~Kept, NEW j \in 1..Len(Restorations), j <= at[t]
      PROVE  desktop'[Restorations[j]] = Original[Restorations[j]]
  <2>1. snap[t] = Original
    BY <1>2, <1>4, <1>7 DEF Recoverable, Enabling
  <2>2. key \in Keys
    BY <1>4, <1>6
  <2>3. Restored(t, key) = Original[key]
    BY <1>1, <2>1, <2>2, OriginalIsRead DEF Restored
  <2>4. desktop' = [desktop EXCEPT ![key] = Original[key]]
    BY <1>1, <2>3, RestoreKeyFacts
  <2>5. \A k \in Keys : desktop'[k] = IF k = key THEN Original[key] ELSE desktop[k]
    <3> HIDE DEF key
    <3>1. QED
      BY <1>1, <2>2, <2>4, WrittenKey
  <2>6. CASE j = at[t]
    BY <1>6, <2>5, <2>6
  <2>7. CASE j < at[t]
    <3>1. desktop[Restorations[j]] = Original[Restorations[j]]
      BY <1>2, <1>3, <1>7, <2>7 DEF Recoverable
    <3>2. QED
      BY <1>6, <2>5, <3>1
  <2>8. QED
    BY <1>4, <1>7, <2>6, <2>7
<1>8. QED
  BY <1>2, <1>5, <1>7, RestoringRecovers

LEMMA RestoreFailsRecovers ==
  ASSUME ProxyTyped, ProxyTyped', NEW t \in Threads, OwnWayBack(t), Recoverable(t),
         RestoreFails(t), Without(Lossy)'
  PROVE  OwnWayBack(t)' /\ Recoverable(t)'
<1>1. ProxyTypeOK
  BY DEF ProxyTyped
<1>2. /\ OnlyCall(t) /\ pc[t] = "restore" /\ NextRestoration(t) /\ disk' = disk
      /\ status' = status /\ snap'[t] = snap[t] /\ after'[t] = after[t] /\ leaving'[t] = leaving[t]
      /\ Fails(t, Lost(t))
  BY <1>1, RestoreFailsFacts
<1>3. failed'[t]
  BY <1>1, RestoreFailsFacts
<1>4. after[t] = "forget"
  <2>1. after[t] # "idle"
    BY <1>2 DEF Fails, Lost, Without, Lossy
  <2>2. QED
    BY <1>1, <2>1 DEF ProxyTypeOK
<1>5. QED
  BY <1>2, <1>3, <1>4, RestoringRecovers

LEMMA ThreadRecovers ==
  ASSUME ProxyTyped, ProxyTyped', NEW t \in Threads, OwnWayBack(t), Recoverable(t),
         ThreadStep(t), Without(Lossy)'
  PROVE  OwnWayBack(t)' /\ Recoverable(t)'
<1>1. ProxyTypeOK
  BY DEF ProxyTyped
<1>2. CASE CallEnable(t)
  BY <1>2, CallEnableRecovers
<1>3. CASE CallDisable(t)
  <2>1. /\ OnlyCall(t) /\ pc[t] = "idle" /\ SwitchesOff(t, "idle") /\ desktop' = desktop
        /\ disk' = disk /\ ~leaving'[t]
    BY <1>1, <1>3, CallDisableFacts
  <2>2. QED
    BY <1>1, <2>1, SwitchingOffRecovers DEF OnlyCall, Enabling
<1>4. CASE DisconnectDisables(t)
  <2>1. /\ OnlyCall(t) /\ pc[t] = "idle" /\ SwitchesOff(t, "stop") /\ desktop' = desktop
        /\ disk' = disk
    BY <1>1, <1>4, DisconnectDisablesFacts
  <2>2. QED
    BY <1>1, <2>1, SwitchingOffRecovers DEF OnlyCall, Enabling
<1>5. CASE ApplyKey(t)
  BY <1>5, ApplyKeyRecovers
<1>6. CASE ApplyFails(t) \/ PersistFails(t)
  BY <1>6, RollingBackRecovers
<1>7. CASE Persist(t)
  BY <1>7, PersistRecovers
<1>8. CASE RestoreKey(t)
  BY <1>8, RestoreKeyRecovers
<1>9. CASE RestoreFails(t)
  BY <1>9, RestoreFailsRecovers
<1>10. CASE Show(t)
  <2>1. /\ OnlyCall(t) /\ pc[t] = "show" /\ pc'[t] = "idle" /\ desktop' = desktop /\ disk' = disk
        /\ status' = status /\ leaving'[t] = leaving[t]
    BY <1>1, <1>10, ShowFacts
  <2>2. /\ Kept' => disk' = Original
        /\ ~Kept' => desktop' = Original
        /\ ~leaving[t] /\ status # "DISCONNECTED"
    BY <2>1 DEF Recoverable, OwnWayBack, Enabling, Kept
  <2>3. QED
    BY <2>1, <2>2, EndingRecovers DEF OnlyCall
<1>11. CASE Forget(t) \/ ForgetFails(t) \/ Hide(t)
  <2>1. /\ OnlyCall(t) /\ pc[t] \in {"forget", "hide"} /\ desktop' = desktop
        /\ disk' = disk \/ disk' = NoSnapshot
        /\ pc'[t] = "hide" \/ pc'[t] = Over(t)
        /\ leaving'[t] = leaving[t]
    BY <1>1, <1>11, ForgetFacts, ForgetFailsFacts, HideFacts
  <2>2. desktop = Original /\ (Kept => disk = Original)
    BY <2>1 DEF Recoverable, OwnWayBack
  <2>3. Kept' => disk' = Original
    BY <2>1, <2>2 DEF Kept
  <2>4. /\ pc'[t] \in {"hide", "idle", "stop"}
        /\ pc'[t] = "idle" => ~leaving'[t]
    BY <2>1 DEF Over
  <2>5. QED
    BY <2>1, <2>2, <2>3, <2>4, EndingRecovers DEF OnlyCall
<1>12. CASE DisconnectGoesOn(t)
  <2>1. /\ OnlyCall(t) /\ pc[t] = "stop" /\ pc'[t] = "idle" /\ desktop' = desktop /\ disk' = disk
        /\ ~leaving'[t]
    BY <1>1, <1>12, DisconnectGoesOnFacts
  <2>2. failed'[t] <=> failed[t]
    BY <1>1, <1>12, DisconnectGoesOnFacts
  <2>3. /\ desktop = Original \/ failed[t]
        /\ Kept' => disk' = Original
        /\ ~Kept' => desktop' = Original
    BY <2>1 DEF Recoverable, OwnWayBack, Enabling, Kept
  <2>4. QED
    BY <2>1, <2>2, <2>3, EndingRecovers DEF OnlyCall
<1>13. QED
  BY <1>2, <1>3, <1>4, <1>5, <1>6, <1>7, <1>8, <1>9, <1>10, <1>11, <1>12
     DEF ThreadStep, Enable, Disable

LEMMA IdleRecovers ==
  ASSUME NEW s, pc'[s] = "idle", ~leaving'[s]
  PROVE  Recoverable(s)' /\ ~Enabling(s)'
BY EnablingAfter DEF Recoverable

LEMMA OthersRecover ==
  ASSUME Recovers, Without(Lossy), ProxyTypeOK, NEW t \in Threads, OnlyCall(t),
         \A s \in Threads : s # t => pc[s] = "idle" /\ pc'[s] = "idle"
  PROVE  \A s \in Threads : s # t => Recoverable(s)' /\ ~Enabling(s)'
<1>1. \A s \in Threads : s # t => ~leaving[s]
  BY DEF Recovers, Recoverable
<1>2. \A s \in Threads : s # t => ~leaving'[s]
  BY <1>1 DEF OnlyCall, ProxyTypeOK
<1>3. QED
  BY <1>2, IdleRecovers

LEMMA StepRecovers ==
  ASSUME ProxyTyped, Lone, Recovers, [ProxyNext]_proxyVars
  PROVE  Recovers'
<1>1. ProxyTypeOK /\ ProxyTyped' /\ starter \in Threads
  BY StepTyped DEF ProxyTyped, Threads
<1>2. SUFFICES ASSUME Without(Lossy)'
               PROVE  WayBack' /\ \A s \in Threads : Recoverable(s)'
  BY DEF Recovers
<1>3. Without(Lossy) /\ Without({"overlap"})'
  BY <1>1, <1>2, StillWithout DEF Without, Lossy
<1>4. WayBack /\ \A s \in Threads : Recoverable(s)
  BY <1>3 DEF Recovers
<1>5. ASSUME NEW t \in Threads, ThreadStep(t)
      PROVE  WayBack' /\ \A s \in Threads : Recoverable(s)'
  <2>1. \A s \in Threads : s # t => pc[s] = "idle" /\ pc'[s] = "idle"
    BY <1>1, <1>3, <1>5, OthersIdle
  <2>2. OnlyCall(t) /\ phase' = phase
    BY <1>1, <1>5, WhoMoves
  <2>3. Original' = Original
    BY <2>2, SameSession DEF OnlyCall
  <2>4. OwnWayBack(t)
    <3>1. \A s \in Threads : s # t => ~Enabling(s)
      BY <2>1 DEF Enabling
    <3>2. ~Kept /\ ~Enabling(t) => desktop = Original
      BY <1>4, <3>1 DEF WayBack
    <3>3. status = "DISCONNECTED" /\ phase # "down" /\ pc[t] = "idle" =>
            desktop = Original \/ (Kept /\ \E u \in Threads : failed[u])
      <4>1. pc[t] = "idle" => \A s \in Threads : pc[s] = "idle"
        BY <2>1
      <4>2. QED
        BY <1>4, <4>1 DEF WayBack
    <3>4. Kept => disk = Original
      BY <1>4 DEF WayBack
    <3>5. QED
      BY <3>2, <3>3, <3>4 DEF OwnWayBack
  <2>5. OwnWayBack(t)' /\ Recoverable(t)'
    BY <1>1, <1>2, <1>4, <1>5, <2>4, ThreadRecovers
  <2>6. status' = status \/ status' = "DISCONNECTED"
    BY <1>1, <1>5, WhoMoves
  <2>7. \A s \in Threads : s # t => Recoverable(s)' /\ ~Enabling(s)'
    BY <1>1, <1>3, <2>1, <2>2, OthersRecover
  <2>8. ~Kept' /\ (\A s \in Threads : ~Enabling(s)') => desktop' = Original'
    BY <2>5 DEF OwnWayBack
  <2>9. Kept' => disk' = Original'
    BY <2>5 DEF OwnWayBack
  <2>10. status' = "DISCONNECTED" /\ phase' # "down" /\ (\A s \in Threads : pc'[s] = "idle") =>
           desktop' = Original' \/ (Kept' /\ \E s \in Threads : failed'[s])
    BY <2>5 DEF OwnWayBack
  <2>11. phase' # "up" => status' = "DISCONNECTED"
    BY <1>4, <2>2, <2>6 DEF WayBack
  <2>12. WayBack'
    BY <2>8, <2>9, <2>10, <2>11 DEF WayBack
  <2>13. QED
    BY <2>5, <2>7, <2>12
<1>6. CASE Connect \/ CoreFails \/ Started \/ UNCHANGED proxyVars
  <2>1. CallsWait /\ desktop' = desktop /\ disk' = disk
    BY <1>6, ProgramFacts
  <2>2. Original' = Original /\ Restorations' = Restorations /\ (Kept' <=> Kept)
    BY <2>1, SameSession DEF CallsWait, Kept
  <2>3. \A s \in Threads : Enabling(s)' <=> Enabling(s)
    BY <2>1 DEF CallsWait, Enabling
  <2>4. status' = "DISCONNECTED" => status = "DISCONNECTED"
    BY <1>6, ProgramFacts
  <2>5. phase' # "down" => phase # "down"
    BY <1>6, ProgramFacts
  <2>6. phase' # "up" => status' = "DISCONNECTED"
    BY <1>4, <1>6, ProgramFacts DEF WayBack
  <2>7. WayBack'
    BY <1>4, <2>1, <2>2, <2>3, <2>4, <2>5, <2>6 DEF WayBack, CallsWait
  <2>8. ASSUME NEW s \in Threads
        PROVE  Recoverable(s)'
    <3>1. Recoverable(s) /\ (Enabling(s)' <=> Enabling(s))
      BY <1>4, <2>3
    <3>2. /\ pc'[s] = pc[s] /\ at'[s] = at[s] /\ snap'[s] = snap[s] /\ after'[s] = after[s]
          /\ elsewhere' = elsewhere
      BY <2>1 DEF CallsWait
    <3>3. (failed'[s] <=> failed[s]) /\ (leaving'[s] <=> leaving[s])
      BY <2>1 DEF CallsWait
    <3>4. QED
      BY <2>1, <2>2, <2>4, <3>1, <3>2, <3>3 DEF Recoverable
  <2>9. QED
    BY <2>7, <2>8
<1>7. CASE ProcessDies
  <2>1. /\ backend' = backend /\ ownMode' = ownMode /\ desktop' = desktop /\ disk' = disk
        /\ phase' = "down" /\ status' = "DISCONNECTED"
        /\ \A s \in Threads : pc'[s] = "idle" /\ ~leaving'[s]
    BY <1>7, ProcessDiesFacts
  <2>2. Original' = Original /\ (Kept' <=> Kept)
    BY <2>1, SameSession DEF Kept
  <2>3. ~Kept => \A s \in Threads : ~Enabling(s)
    BY <1>2, <1>7, ProcessDiesFacts DEF Without, Lossy
  <2>4. WayBack'
    BY <1>4, <2>1, <2>2, <2>3 DEF WayBack
  <2>5. \A s \in Threads : Recoverable(s)'
    BY <2>1, IdleRecovers
  <2>6. QED
    BY <2>4, <2>5
<1>8. CASE Restart
  <2>1. /\ OnlyCall(starter) /\ phase = "down" /\ desktop' = desktop /\ disk' = disk
        /\ status' = status /\ leaving'[starter] = leaving[starter]
    BY <1>1, <1>8, RestartFacts
  <2>2. Original' = Original /\ (Kept' <=> Kept)
    BY <2>1, SameSession DEF OnlyCall, Kept
  <2>3. \A s \in Threads : pc[s] = "idle" /\ ~Enabling(s) /\ (s # starter => pc'[s] = "idle")
    BY <1>1, <2>1, OtherCalls DEF Lone, Threads, Enabling
  <2>4. ~leaving'[starter]
    BY <1>1, <1>4, <2>1, <2>3 DEF Recoverable
  <2>5. /\ status = "DISCONNECTED" /\ (Kept => disk = Original) /\ (~Kept => desktop = Original)
    BY <1>4, <2>1, <2>3 DEF WayBack
  <2>6. \A s \in Threads : s # starter => Recoverable(s)' /\ ~Enabling(s)'
    BY <1>1, <1>3, <2>1, <2>3, OthersRecover
  <2>7. CASE SwitchesOff(starter, "idle")
    <3>1. OwnWayBack(starter)
      BY <2>1, <2>3, <2>5 DEF OwnWayBack
    <3>2. OwnWayBack(starter)' /\ Recoverable(starter)'
      BY <1>1, <2>1, <2>3, <2>4, <2>7, <3>1, SwitchingOffRecovers DEF OnlyCall
    <3>3. WayBack'
      BY <1>1, <2>1, <2>2, <2>5, <3>2 DEF WayBack, OwnWayBack
    <3>4. QED
      BY <2>6, <3>2, <3>3
  <2>8. CASE disk = NoSnapshot /\ pc'[starter] = pc[starter]
    <3>1. Recoverable(starter)'
      BY <1>1, <2>3, <2>4, <2>8, IdleRecovers
    <3>2. desktop' = Original' /\ ~Kept'
      BY <2>1, <2>2, <2>5, <2>8 DEF Kept
    <3>3. WayBack'
      BY <2>1, <2>5, <3>2 DEF WayBack
    <3>4. QED
      BY <2>6, <3>1, <3>3
  <2>9. QED
    BY <1>1, <1>8, <2>7, <2>8, RestartFacts
<1>9. QED
  BY <1>5, <1>6, <1>7, <1>8, StepCases

-----------------------------------------------------------------------------
(* The theorems.                                                           *)

LEMMA ProxyBegins ==
  ASSUME ProxyInit
  PROVE  ProxyTyped /\ Lone /\ Remembered /\ Pure /\ Recovers
<1>1. /\ backend \in Backends /\ ownMode \in {"off", "manual"} /\ elsewhere = FALSE
      /\ desktop = Original /\ disk = NoSnapshot /\ ~Kept
      /\ status = "DISCONNECTED" /\ shown = FALSE /\ phase = "up"
      /\ FaultsPerCall \in Nat /\ mishaps = {}
  BY SysProxyAssumption DEF ProxyInit, Kept
<1>2. \A t \in Threads : pc[t] = "idle" /\ ~leaving[t]
  BY DEF ProxyInit
<1>3. Original \in Configurations
  <2>1. \A key \in Keys : (IF key = "mode" THEN ownMode ELSE "foreign") \in Values
    BY <1>1 DEF Values
  <2>2. QED
    BY <2>1 DEF Original, Configurations
<1>4. /\ pc \in [Threads -> Steps] /\ at \in [Threads -> 1..5]
      /\ snap \in [Threads -> Snapshots \cup {NoSnapshot, Another}]
      /\ after \in [Threads -> {"idle", "forget"}]
      /\ faults \in [Threads -> 0..FaultsPerCall]
  BY <1>1 DEF ProxyInit, Steps
<1>5. leaving = [t \in Threads |-> FALSE] /\ failed = [t \in Threads |-> FALSE]
  BY DEF ProxyInit
<1>6. leaving \in [Threads -> BOOLEAN]
  BY ONLY <1>5
<1>7. failed \in [Threads -> BOOLEAN]
  BY ONLY <1>5
<1>8. ProxyTypeOK
  BY <1>1, <1>3, <1>4, <1>6, <1>7 DEF ProxyTypeOK
<1>9. ProxyTyped
  BY <1>2, <1>8 DEF ProxyTyped, Writing
<1>10. Lone
  BY <1>1, <1>2 DEF Lone, Threads
<1>11. Remembered
  BY <1>1, <1>2 DEF Remembered
<1>12. Pure
  <2>1. SUFFICES ASSUME Unused
                 PROVE  Whole
    BY <1>2 DEF Pure, WholeCall
  <2>2. "mode" \in Keys
    BY <1>8, Lists
  <2>3. desktop["mode"] = "off"
    BY <1>1, <2>1, <2>2 DEF Unused, Original
  <2>4. QED
    BY <1>1, <2>3 DEF Whole
<1>13. Recovers
  <2>1. WayBack
    BY <1>1 DEF WayBack
  <2>2. \A t \in Threads : Recoverable(t)
    BY <1>1, <1>2 DEF Recoverable, Enabling
  <2>3. QED
    BY <2>1, <2>2 DEF Recovers
<1>14. QED
  BY <1>9, <1>10, <1>11, <1>12, <1>13

\* The keys that Enable and Disable write are within the lists, and a call
\* that writes has a snapshot of the settings it would put back, however many
\* calls run at once and wherever the process dies.
THEOREM ProxyTypeCorrect ==
  ProxySpec => []ProxyTypeOK
<1>1. ProxyInit => ProxyTyped
  BY ProxyBegins
<1>2. ProxyTyped /\ [ProxyNext]_proxyVars => ProxyTyped'
  BY StepTyped
<1>3. ProxyTyped => ProxyTypeOK
  BY DEF ProxyTyped
<1>4. QED
  BY <1>1, <1>2, <1>3, PTL DEF ProxySpec

\* While calls do not overlap the switch is shown on only while a way back is on
\* disk, whatever fails, wherever the process dies, however often Enable is
\* called, and whatever was read of the settings: the first half of
\* WayBackIsKept.
THEOREM ShownIsRemembered ==
  ProxySpec => []Remembered
<1>1. ProxyInit => ProxyTyped /\ Lone /\ Remembered
  BY ProxyBegins
<1>2. ProxyTyped /\ Lone /\ Remembered /\ [ProxyNext]_proxyVars => ProxyTyped' /\ Lone' /\ Remembered'
  BY StepTyped, StepLone, StepRemembered
<1>3. QED
  BY <1>1, <1>2, PTL DEF ProxySpec

\* A session that used no proxy never sees one with a part of SA05's addresses:
\* wherever the process dies, however often Enable is called, and whichever one
\* write of a call fails.
THEOREM NeverHalf ==
  ProxySpec => []NeverMixed
<1>1. ProxyInit => ProxyTyped /\ Lone /\ Pure
  BY ProxyBegins
<1>2. ProxyTyped /\ Lone /\ Pure /\ [ProxyNext]_proxyVars => ProxyTyped' /\ Lone' /\ Pure'
  BY StepTyped, StepLone, StepPure
<1>3. Pure => NeverMixed
  BY DEF Pure, Unused, Whole, Sa, NeverMixed, Confusing
<1>4. QED
  BY <1>1, <1>2, <1>3, PTL DEF ProxySpec

\* As long as nothing of Lossy has happened, what is remembered on disk, and what
\* a call of Enable or Disable would write back, is the configuration of before
\* SA05; the next three theorems rest on it.
THEOREM AlwaysRecovers ==
  ProxySpec => [](Lone /\ Remembered /\ Recovers)
<1>1. ProxyInit => ProxyTyped /\ Lone /\ Remembered /\ Recovers
  BY ProxyBegins
<1>2. ProxyTyped /\ Lone /\ Remembered /\ Recovers /\ [ProxyNext]_proxyVars
        => ProxyTyped' /\ Lone' /\ Remembered' /\ Recovers'
  BY StepTyped, StepLone, StepRemembered, StepRecovers
<1>3. QED
  BY <1>1, <1>2, PTL DEF ProxySpec

\* The five mishaps of Lossy are all there is: without them, the desktop has its
\* own configuration back as soon as its way back is not remembered and nothing
\* runs, however often the proxy was switched on and off, failed to, or the
\* process died.
THEOREM OffIsOriginal ==
  ProxySpec => []OffMeansOriginal
<1>1. Recovers => OffMeansOriginal
  BY DEF Recovers, WayBack, OffMeansOriginal, Quiet, Enabling
<1>2. QED
  BY <1>1, AlwaysRecovers, PTL

\* Something is remembered as long as the switch is shown on and calls do not
\* overlap; it is the configuration of before SA05 as long as nothing of Lossy
\* has happened.
THEOREM WayBackAlwaysKept ==
  ProxySpec => []WayBackIsKept
<1>1. Remembered /\ Recovers => WayBackIsKept
  BY DEF Remembered, Recovers, WayBack, WayBackIsKept
<1>2. QED
  BY <1>1, AlwaysRecovers, PTL

\* With the core gone and nothing running the desktop does not point at its
\* ports, unless switching off has returned an error, and then it can still be
\* given back: failed writes and settings that cannot be read included.
THEOREM GoesWithCore ==
  ProxySpec => []ProxyGoesWithCore
<1>1. Recovers => ProxyGoesWithCore
  BY DEF Recovers, WayBack, ProxyGoesWithCore, Quiet
<1>2. QED
  BY <1>1, AlwaysRecovers, PTL
=============================================================================
