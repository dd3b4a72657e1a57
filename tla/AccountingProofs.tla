-------------------------- MODULE AccountingProofs --------------------------
(***************************************************************************)
(* What was read is not forgotten, for any gauges, any counters and any    *)
(* number of readings, and the largest value kept is the largest one read; *)
(* the processor time kept is the largest of what was read of it and of    *)
(* the sum over the processors; and a record that was put together is read *)
(* again as it was written.                                                *)
(*                                                                         *)
(* What makes these inductive: of each processor the largest time read is  *)
(* kept, so that the sum only grows; the total is at each step the largest *)
(* of the totals, of system and user together, and of that sum; and of a   *)
(* graphics processor only its name is ever kept.                          *)
(***************************************************************************)
EXTENDS Accounting, FiniteSetTheorems, TLAPS

---------------------------------------------------------------------------
(* Sums over finite sets *)

Pick(s) == CHOOSE x \in s : TRUE

\* The library's sum is the value at S of a function g on the subsets of S.
Adds(g, f, S) ==
  g = [s \in SUBSET S |-> IF s = {} THEN 0 ELSE f[Pick(s)] + g[s \ {Pick(s)}]]

\* f[x] tokens for each member x of S: their number is the sum.
Tokens(f, S) == UNION {{x} \X (1 .. f[x]) : x \in S}

\* The sum of the model.
SumOn(f, S) == MapThenSumSet(LAMBDA x : f[x], S)

NatOn(f, S) == IsFiniteSet(S) /\ \A x \in S : f[x] \in Nat

LEMMA AddsOnce ==
  ASSUME NEW f, NEW S, IsFiniteSet(S), NEW g, NEW h, Adds(g, f, S), Adds(h, f, S)
  PROVE  g = h
<1> DEFINE B == {T \in SUBSET S : g[T] # h[T]}
           R == StrictSubsetOrdering(S)
<1>1. ASSUME B # {} PROVE FALSE
  <2>1. IsWellFoundedOn(R, SUBSET S) /\ B \subseteq SUBSET S
    BY FS_FiniteSubsetsOfFinite, FS_StrictSubsetOrderingWellFounded
  <2>2. PICK T \in B : \A U \in B : <<U, T>> \notin R
    <3> HIDE DEF B, R
    <3> QED  BY <1>1, <2>1, WFMin
  <2> DEFINE U == T \ {Pick(T)}
  <2>3. T # {}
    BY DEF Adds
  <2>4. Pick(T) \in T
    BY <2>3 DEF Pick
  <2>5. <<U, T>> \in R /\ U \in SUBSET S
    BY <2>4 DEF StrictSubsetOrdering
  <2>6. g[U] = h[U]
    BY <2>2, <2>5
  <2>7. g[T] = f[Pick(T)] + g[U] /\ h[T] = f[Pick(T)] + h[U]
    BY <2>3 DEF Adds
  <2> QED  BY <2>6, <2>7
<1>2. /\ g = [T \in SUBSET S |-> g[T]]
      /\ h = [T \in SUBSET S |-> h[T]]
  BY DEF Adds
<1> QED  BY <1>1, <1>2

LEMMA TokensFinite ==
  ASSUME NEW f, NEW S, NatOn(f, S)
  PROVE  /\ IsFiniteSet(Tokens(f, S)) /\ Cardinality(Tokens(f, S)) \in Nat
         /\ \A x \in S : IsFiniteSet({x} \X (1 .. f[x])) /\ Cardinality({x} \X (1 .. f[x])) = f[x]
<1> DEFINE Pile(x) == {x} \X (1 .. f[x])
           Piles   == {Pile(x) : x \in S}
<1>1. ASSUME NEW x \in S PROVE IsFiniteSet(Pile(x)) /\ Cardinality(Pile(x)) = f[x]
  <2>1. f[x] \in Nat
    BY DEF NatOn
  <2>2. IsFiniteSet({x}) /\ Cardinality({x}) = 1
    BY FS_Singleton
  <2>3. IsFiniteSet(1 .. f[x]) /\ Cardinality(1 .. f[x]) = f[x]
    BY <2>1, FS_Interval
  <2>4. IsFiniteSet(Pile(x)) /\ Cardinality(Pile(x)) = 1 * f[x]
    BY <2>2, <2>3, FS_Product
  <2> QED  BY <2>1, <2>4
<1>2. [x \in S |-> Pile(x)] \in Surjection(S, Piles)
  BY DEF Surjection
<1>3. IsFiniteSet(Piles)
  BY <1>2, FS_Surjection DEF NatOn
<1>4. IsFiniteSet(UNION Piles)
  BY <1>1, <1>3, FS_UNION
<1> QED  BY <1>1, <1>4, FS_CardinalityType DEF Tokens

LEMMA TokensOf ==
  ASSUME NEW f, NEW S, NatOn(f, S), NEW z \in S
  PROVE  Cardinality(Tokens(f, S)) = f[z] + Cardinality(Tokens(f, S \ {z}))
<1> DEFINE rest == Tokens(f, S \ {z})
           pile == {z} \X (1 .. f[z])
<1>1. Tokens(f, S) = rest \cup pile /\ rest \cap pile = {}
  BY DEF Tokens
<1>2. NatOn(f, S \ {z})
  BY FS_Subset DEF NatOn
<1>3. /\ IsFiniteSet(rest) /\ Cardinality(rest) \in Nat
      /\ IsFiniteSet(pile) /\ Cardinality(pile) = f[z] /\ f[z] \in Nat
  BY <1>2, TokensFinite DEF NatOn
<1> HIDE DEF rest, pile
<1>4. Cardinality(rest \cup pile) = Cardinality(rest) + Cardinality(pile) - Cardinality({})
  BY <1>1, <1>3, FS_Union
<1> QED  BY <1>1, <1>3, <1>4, FS_EmptySet DEF rest

LEMMA SumIsNumber ==
  ASSUME NEW f, NEW S, NatOn(f, S)
  PROVE  SumOn(f, S) = Cardinality(Tokens(f, S))
<1> DEFINE g == [T \in SUBSET S |-> Cardinality(Tokens(f, T))]
<1>1. \A T \in SUBSET S :
        g[T] = IF T = {} THEN 0 ELSE f[Pick(T)] + g[T \ {Pick(T)}]
  <2> SUFFICES ASSUME NEW T \in SUBSET S
               PROVE  g[T] = IF T = {} THEN 0 ELSE f[Pick(T)] + g[T \ {Pick(T)}]
    OBVIOUS
  <2>1. CASE T = {}
    BY <2>1, FS_EmptySet DEF Tokens
  <2>2. CASE T # {}
    <3>1. Pick(T) \in T /\ NatOn(f, T)
      BY <2>2, FS_Subset DEF Pick, NatOn
    <3> QED  BY <2>2, <3>1, TokensOf
  <2> QED  BY <2>1, <2>2
<1>2. Adds(g, f, S)
  BY <1>1 DEF Adds
<1>3. SumOn(f, S) = (CHOOSE h : Adds(h, f, S))[S]
  BY Zenon DEF SumOn, MapThenSumSet, MapThenFoldSet, Adds, Pick
<1>4. (CHOOSE h : Adds(h, f, S)) = g
  BY <1>2, AddsOnce DEF NatOn
<1> QED  BY <1>3, <1>4

LEMMA SumEmpty ==
  ASSUME NEW f
  PROVE  SumOn(f, {}) = 0
BY SumIsNumber, FS_EmptySet DEF Tokens, NatOn

LEMMA SumNat ==
  ASSUME NEW f, NEW S, NatOn(f, S)
  PROVE  SumOn(f, S) \in Nat
BY SumIsNumber, TokensFinite

LEMMA SumOne ==
  ASSUME NEW f, NEW S, NatOn(f, S), NEW z \in S
  PROVE  SumOn(f, S) = f[z] + SumOn(f, S \ {z})
BY SumIsNumber, TokensOf, FS_Subset DEF NatOn

LEMMA SumLeq ==
  ASSUME NEW f, NEW S, NEW g, NEW T, S \subseteq T, NatOn(f, S), NatOn(g, T),
         \A x \in S : f[x] <= g[x]
  PROVE  SumOn(f, S) <= SumOn(g, T)
<1>1. Tokens(f, S) \subseteq Tokens(g, T)
  BY DEF Tokens, NatOn
<1>2. IsFiniteSet(Tokens(g, T))
  BY TokensFinite
<1> QED  BY <1>1, <1>2, FS_Subset, SumIsNumber

LEMMA SumSame ==
  ASSUME NEW f, NEW g, NEW S, NatOn(f, S), \A x \in S : f[x] = g[x]
  PROVE  SumOn(f, S) = SumOn(g, S)
<1>1. Tokens(f, S) = Tokens(g, S)
  BY DEF Tokens
<1> QED  BY <1>1, SumIsNumber DEF NatOn

LEMMA SumTwo ==
  ASSUME NEW f, f["system"] \in Nat, f["user"] \in Nat
  PROVE  SumOn(f, {"system", "user"}) = f["system"] + f["user"]
<1>1. {"system", "user"} \ {"system"} = {"user"} /\ {"user"} \ {"user"} = {}
  OBVIOUS
<1>2. NatOn(f, {"system", "user"}) /\ NatOn(f, {"user"})
  <2>1. IsFiniteSet({"user"}) /\ IsFiniteSet({"user"} \cup {"system"})
    BY FS_Singleton, FS_AddElement
  <2>2. {"user"} \cup {"system"} = {"system", "user"}
    OBVIOUS
  <2> QED
    BY <2>1, <2>2 DEF NatOn
<1>3. SumOn(f, {"system", "user"}) = f["system"] + SumOn(f, {"user"})
  BY <1>1, <1>2, SumOne
<1>4. SumOn(f, {"user"}) = f["user"] + 0
  BY <1>1, <1>2, SumOne, SumEmpty
<1> QED
  BY <1>3, <1>4

---------------------------------------------------------------------------
(* The record *)

Covers(b, a) == a # None => b # None /\ a <= b

\* A record's gauges, counts and time are numbers or absent.
IsRecord(s) ==
  s = [cpu |-> s.cpu, cpus |-> s.cpus, gauge |-> s.gauge, grown |-> s.grown,
       time |-> s.time, gpus |-> s.gpus]
Sound(s) ==
  /\ IsRecord(s)
  /\ s.gauge \in [Gauges -> GaugeType]
  /\ s.grown \in [Growing -> Number]
  /\ s.time \in Number

KeptSound == Sound(session) /\ Sound(result)

\* max_none of two is one of them and not below either.
LEMMA MaxOfTwo ==
  ASSUME NEW a \in Number, NEW b \in Number
  PROVE  /\ max_none(a, b) \in Number
         /\ Covers(max_none(a, b), a)
         /\ Covers(max_none(a, b), b)
  BY NoneAssumption DEF max_none, Number, Covers

LEMMA FileNumbers == File \subseteq Number /\ Count \subseteq Number /\ None \in Number
  BY NumberAssumption DEF File, Count, Number

\* Putting two records together keeps them sound.
LEMMA UpdateSound ==
  ASSUME NEW a, NEW b, Sound(a), Sound(b)
  PROVE  Sound(Update(a, b))
<1> DEFINE u == Update(a, b)
<1>1. ASSUME NEW g \in Gauges PROVE u.gauge[g] \in GaugeType
  <2>1. a.gauge[g] \in GaugeType /\ b.gauge[g] \in GaugeType
    BY DEF Sound
  <2> DEFINE now == IF b.gauge[g].now = None THEN a.gauge[g].now ELSE b.gauge[g].now
             two == max_none(a.gauge[g].top, b.gauge[g].top)
  <2>2. u.gauge[g] = [now |-> now, top |-> max_none(two, now)]
    BY DEF Update, GaugeUpdate
  <2>3. now \in Number /\ a.gauge[g].top \in Number /\ b.gauge[g].top \in Number
    BY <2>1 DEF GaugeType
  <2>4. max_none(two, now) \in Number
    BY <2>3, MaxOfTwo
  <2> QED BY <2>2, <2>3, <2>4 DEF GaugeType
<1>2. ASSUME NEW g \in Growing PROVE u.grown[g] \in Number
  <2>1. u.grown[g] = max_none(a.grown[g], b.grown[g])
    BY DEF Update, GrownUpdate
  <2> QED BY <2>1, MaxOfTwo DEF Sound
<1>3. u.gauge = [g \in Gauges |-> u.gauge[g]] /\ u.grown = [g \in Growing |-> u.grown[g]]
  BY DEF Update, GrownUpdate
<1>4. IsRecord(u) /\ u.time \in Number
  BY MaxOfTwo DEF Update, IsRecord, Sound
<1> QED BY <1>1, <1>2, <1>3, <1>4 DEF Sound

\* The empty record is sound, and so is every reading.
LEMMA NoGaugeIs == NoGauge = [now |-> None, top |-> None] /\ NoGauge \in GaugeType
BY DEF NoGauge, Gauge, max_none, GaugeType, Number

LEMMA EmptySound == Sound(Empty)
  BY NoGaugeIs DEF Sound, IsRecord, Empty, Number

LEMMA BeyondNat == ASSUME NEW a \in Nat, NEW b \in Nat PROVE Beyond(a, b) \in Nat
BY DEF Beyond

LEMMA MemoryRead ==
  ASSUME NEW m \in Memory
  PROVE  ReadMemory(m).memory \in GaugeType /\ ReadMemory(m).swap \in GaugeType
<1> DEFINE top  == IF None \in {m.usage, m.max_usage} THEN None ELSE max_none(m.usage, m.max_usage)
           swap == IF None \in {m.usage, m.memsw} THEN None ELSE Beyond(m.memsw, m.usage)
           both == IF None \in {swap, top, m.max_memsw} THEN None
                   ELSE max_none(swap, Beyond(m.max_memsw, top))
<1>1. /\ m.usage \in Number /\ m.max_usage \in Number /\ m.memsw \in Number /\ m.max_memsw \in Number
      /\ None \in Number
  BY FileNumbers DEF Memory
<1>2. top \in Number
  BY <1>1, MaxOfTwo
<1>3. swap \in Number
  <2>1. CASE None \in {m.usage, m.memsw}
    BY <1>1, <2>1
  <2>2. CASE None \notin {m.usage, m.memsw}
    BY <1>1, <2>2, BeyondNat DEF Number
  <2> QED
    BY <2>1, <2>2
<1>4. both \in Number
  <2> HIDE DEF top, swap
  <2>1. CASE None \in {swap, top, m.max_memsw}
    BY <1>1, <2>1
  <2>2. CASE None \notin {swap, top, m.max_memsw}
    <3>1. Beyond(m.max_memsw, top) \in Number
      BY <1>1, <1>2, <2>2, BeyondNat DEF Number
    <3> QED
      BY <1>3, <2>2, <3>1, MaxOfTwo
  <2> QED
    BY <2>1, <2>2
<1>5. /\ ReadMemory(m).memory = [now |-> m.usage, top |-> top]
      /\ ReadMemory(m).swap = [now |-> swap, top |-> both]
  BY DEF ReadMemory
<1> HIDE DEF top, swap, both
<1> QED
  BY <1>1, <1>2, <1>3, <1>4, <1>5 DEF GaugeType

\* What a reading is made of.
LEMMA ReadingIs ==
  ASSUME NEW host \in Hosts, NEW r \in Readings[host]
  PROVE  \E c \in Cpuacct \cup {None}, m \in Memory \cup {None}, p \in Pids \cup {None} :
           r = groups_stats(c, m, p)
<1>1. PICK c \in Given(host, "cpuacct", Cpuacct), m \in Given(host, "memory", Memory),
           p \in Given(host, "pids", Pids) : r = groups_stats(c, m, p)
  BY DEF Readings
<1>2. c \in Cpuacct \cup {None} /\ m \in Memory \cup {None} /\ p \in Pids \cup {None}
  BY DEF Given
<1> QED
  BY <1>1, <1>2

LEMMA ReadingSound ==
  ASSUME NEW host \in Hosts, NEW r \in Readings[host]
  PROVE  Sound(r)
<1>1. PICK c \in Cpuacct \cup {None}, m \in Memory \cup {None}, p \in Pids \cup {None} :
        r = groups_stats(c, m, p)
  BY ReadingIs
<1> DEFINE read == [cpu |-> ReadTotal(c), cpus |-> ReadSplit(c),
                    gauge |-> [g \in Gauges |-> ReadGauge(g, m, p)],
                    grown |-> [g \in Growing |-> ReadFailures(g, m, p)],
                    time |-> None, gpus |-> Empty.gpus]
<1>2. /\ read.gauge = [g \in Gauges |-> ReadGauge(g, m, p)]
      /\ read.grown = [g \in Growing |-> ReadFailures(g, m, p)]
      /\ read.time = None /\ IsRecord(read)
  BY DEF IsRecord
<1>3. ASSUME NEW g \in Gauges PROVE ReadGauge(g, m, p) \in GaugeType
  <2>1. CASE g = "pids"
    <3>1. ReadGauge(g, m, p) = IF p = None THEN NoGauge ELSE [now |-> p.current, top |-> None]
      BY <2>1 DEF ReadGauge
    <3>2. p # None => [now |-> p.current, top |-> None] \in GaugeType
      BY FileNumbers DEF Pids, GaugeType
    <3> QED
      BY <3>1, <3>2, NoGaugeIs
  <2>2. CASE g \in {"memory", "swap"}
    <3>1. ReadGauge(g, m, p) = IF m = None THEN NoGauge ELSE ReadMemory(m)[g]
      BY <2>2 DEF ReadGauge
    <3>2. m # None => ReadMemory(m)[g] \in GaugeType
      <4>1. CASE g = "memory"
        BY <4>1, MemoryRead
      <4>2. CASE g = "swap"
        BY <4>2, MemoryRead
      <4> QED
        BY <2>2, <4>1, <4>2
    <3> QED
      BY <3>1, <3>2, NoGaugeIs
  <2> QED
    BY <2>1, <2>2 DEF Gauges
<1>4. ASSUME NEW g \in Growing PROVE ReadFailures(g, m, p) \in Number
  <2>1. (m # None => m.failcnt \in Number) /\ (p # None => p.events \in Number) /\ None \in Number
    BY FileNumbers DEF Memory, Pids
  <2> QED
    BY <2>1 DEF ReadFailures
<1>5. Sound(read)
  BY <1>2, <1>3, <1>4, FileNumbers DEF Sound
<1>6. Sound(Update(read, Empty)) /\ r = Update(read, Empty)
  BY <1>1, <1>5, EmptySound, UpdateSound DEF groups_stats
<1> QED BY <1>6

LEMMA TimedSound ==
  ASSUME NEW r, Sound(r), NEW t \in Count
  PROVE  Sound(Timed(r, t))
<1>1. t \in Number
  BY FileNumbers
<1>2. Sound([Empty EXCEPT !.time = t])
  BY <1>1, EmptySound DEF Sound, IsRecord, Empty
<1> QED BY <1>2, UpdateSound DEF Timed

LEMMA GpuSound ==
  ASSUME NEW names
  PROVE  Sound(gpu_stats(names))
  BY EmptySound DEF gpu_stats, Sound, IsRecord, Empty

LEMMA LoadSound ==
  ASSUME NEW s, Sound(s)
  PROVE  Sound(Load(s))
<1>1. ASSUME NEW g \in Gauges
      PROVE  Gauge(s.gauge[g].now, s.gauge[g].top) \in GaugeType
  BY MaxOfTwo DEF Sound, Gauge, GaugeType
<1> QED BY <1>1 DEF Load, Sound, IsRecord

LEMMA StoppedIs ==
  ASSUME KeptSound, NEW took \in Number
  PROVE  LET own == Stopped(took) IN
         /\ own.cpu = result.cpu /\ own.cpus = result.cpus /\ own.gauge = result.gauge
         /\ own.grown = result.grown /\ own.gpus = result.gpus /\ own.time = took /\ Sound(own)
  BY DEF Stopped, KeptSound, Sound, IsRecord

LEMMA SummedSound ==
  ASSUME KeptSound, NEW summary \in BOOLEAN, NEW took \in Number
  PROVE  Sound(Summed(summary, took))
<1>1. Sound(Stopped(took)) /\ Sound(Load(session))
  BY StoppedIs, LoadSound DEF KeptSound
<1>2. Sound(Update(Stopped(took), Load(session)))
  BY <1>1, UpdateSound
<1> QED
  BY <1>1, <1>2 DEF Summed

\* What a result is when it has been made up.
LEMMA MadeUpIs ==
  ASSUME NEW all, Sound(all), NEW clock \in Number
  PROVE  LET r == MadeUp(all, clock) IN
         /\ Sound(r) /\ r.cpu = all.cpu /\ r.cpus = all.cpus /\ r.grown = all.grown
         /\ r.gpus = all.gpus /\ r.time = first_none(all.time, clock)
         /\ \A g \in Gauges : r.gauge[g].top = all.gauge[g].top /\ r.gauge[g].now = None
<1> DEFINE r == MadeUp(all, clock)
<1>1. /\ IsRecord(r) /\ r.cpu = all.cpu /\ r.cpus = all.cpus /\ r.grown = all.grown /\ r.gpus = all.gpus
      /\ r.gauge = [g \in Gauges |-> [all.gauge[g] EXCEPT !.now = None]]
      /\ r.time = first_none(all.time, clock)
  <2> DEFINE gauges == [g \in Gauges |-> [all.gauge[g] EXCEPT !.now = None]]
             t == first_none(all.time, clock)
  <2>1. r = [all EXCEPT !.gauge = gauges, !.time = t]
    BY DEF MadeUp
  <2> HIDE DEF r, gauges, t
  <2>2. /\ IsRecord(r) /\ r.cpu = all.cpu /\ r.cpus = all.cpus /\ r.grown = all.grown
        /\ r.gpus = all.gpus /\ r.gauge = gauges /\ r.time = t
    BY <2>1 DEF Sound, IsRecord
  <2> QED
    BY <2>2 DEF gauges, t
<1> HIDE DEF r
<1>2. ASSUME NEW g \in Gauges
      PROVE  /\ r.gauge[g].top = all.gauge[g].top /\ r.gauge[g].now = None
             /\ r.gauge[g] \in GaugeType
  <2>1. all.gauge[g] \in GaugeType /\ r.gauge[g] = [all.gauge[g] EXCEPT !.now = None]
    BY <1>1 DEF Sound
  <2> QED
    BY <2>1, FileNumbers DEF GaugeType
<1>3. first_none(all.time, clock) \in Number
  BY DEF first_none, Sound
<1>4. Sound(r)
  BY <1>1, <1>2, <1>3 DEF Sound, IsRecord
<1> QED
  BY <1>1, <1>2, <1>4 DEF r

\* Every step keeps the records sound.
LEMMA StepKeeps ==
  ASSUME mounts \in Hosts, KeptSound, [Next]_vars
  PROVE  KeptSound'
<1>1. ASSUME NEW r \in Readings[mounts], NEW t \in Count, ObserverReads(Timed(r, t))
      PROVE  Sound(session') /\ Sound(result')
  <2>1. Sound(Timed(r, t))
    BY ReadingSound, TimedSound
  <2> QED BY <1>1, <2>1, UpdateSound DEF KeptSound, ObserverReads
<1>2. ASSUME NEW r \in Readings[mounts], WorkerReads(r)
      PROVE  Sound(session') /\ Sound(result')
  BY <1>2, ReadingSound, UpdateSound DEF KeptSound, WorkerReads
<1>3. ASSUME NEW names \in [Gpus -> Names], GpuReads(names)
      PROVE  Sound(session') /\ Sound(result')
  BY <1>3, GpuSound, UpdateSound DEF KeptSound, GpuReads
<1>4. ASSUME NEW summary \in BOOLEAN, NEW took \in File, NEW clock \in Count,
             MakeUp(summary, took, clock)
      PROVE  Sound(session') /\ Sound(result')
  <2>1. Sound(Summed(summary, took)) /\ clock \in Number
    BY FileNumbers, SummedSound
  <2>2. Sound(MadeUp(Summed(summary, took), clock))
    BY <2>1, MadeUpIs
  <2> QED BY <1>4, <2>2 DEF MakeUp, KeptSound
<1>5. CASE UNCHANGED vars
  BY <1>5 DEF KeptSound, vars
<1> QED BY <1>1, <1>2, <1>3, <1>4, <1>5 DEF Next, KeptSound

---------------------------------------------------------------------------
(* The largest value kept is the largest one read. *)

\* What is kept, beside what was read: now never exceeds the largest value.
Peaks(s, m) ==
  /\ Sound(s)
  /\ \A g \in Gauges  : s.gauge[g].top = m[g] /\ Covers(s.gauge[g].top, s.gauge[g].now)
  /\ \A g \in Growing : s.grown[g] = m[g]
  /\ s.time = m["time"]

\* No reading of the worker has a time: what Docker tells replaces nothing.
PInv == /\ mounts \in Hosts /\ (~ended => result.time = None)
        /\ Peaks(result, most["worker"]) /\ Peaks(session, most["observer"])
        /\ DOMAIN most = {"observer", "worker"} /\ most = [who \in DOMAIN most |-> most[who]]

\* Largest is the only number, or None, that is read and that covers what is read.
LEMMA LargestIs ==
  ASSUME NEW S \in SUBSET Number, NEW x \in Number, \A y \in S : Covers(x, y),
         x \in S \/ (x = None /\ S # {})
  PROVE  Largest(S) = x
<1>1. CASE x = None
  BY <1>1 DEF Largest, Covers
<1>2. CASE x # None
  <2>1. x \in S \ {None} /\ x \in Nat /\ \A y \in S \ {None} : y \in Nat /\ x >= y
    BY <1>2 DEF Covers, Number
  <2> DEFINE T == S \ {None}
  <2>2. \A z \in T : (\A y \in T : z >= y) => z = x
    BY <2>1
  <2>3. Max(T) = x
    BY <2>1, <2>2 DEF Max
  <2> QED
    BY <2>1, <2>3 DEF Largest
<1> QED
  BY <1>1, <1>2

LEMMA LargestOfThree ==
  ASSUME NEW a \in Number, NEW b \in Number, NEW c \in Number
  PROVE  Largest({a, b, c}) = max_none(max_none(a, b), c)
<1> DEFINE x == max_none(max_none(a, b), c)
<1>1. x \in Number /\ x \in {a, b, c} /\ Covers(x, a) /\ Covers(x, b) /\ Covers(x, c)
  BY NoneAssumption DEF max_none, Number, Covers
<1> HIDE DEF x
<1>2. {a, b, c} \in SUBSET Number /\ \A y \in {a, b, c} : Covers(x, y)
  BY <1>1
<1> QED
  BY <1>1, <1>2, LargestIs DEF x

\* What another record adds to a gauge and to a value that grows.
LEMMA UpdateTops ==
  ASSUME NEW a, NEW b, Sound(a), Sound(b)
  PROVE  /\ \A g \in Gauges :
              /\ Update(a, b).gauge[g].now =
                   IF b.gauge[g].now = None THEN a.gauge[g].now ELSE b.gauge[g].now
              /\ Update(a, b).gauge[g].top =
                   max_none(max_none(a.gauge[g].top, b.gauge[g].top),
                            IF b.gauge[g].now = None THEN a.gauge[g].now ELSE b.gauge[g].now)
         /\ \A g \in Growing : Update(a, b).grown[g] = max_none(a.grown[g], b.grown[g])
         /\ Update(a, b).time = max_none(a.time, b.time)
BY DEF Update, GaugeUpdate, GrownUpdate

\* A gauge that is covered stays so, and so is what it is put together with.
LEMMA GaugeTops ==
  ASSUME NEW at \in Number, NEW an \in Number, NEW bt \in Number, NEW bn \in Number, Covers(at, an)
  PROVE  LET now == IF bn = None THEN an ELSE bn
             top == max_none(max_none(at, bt), now)
         IN /\ top = max_none(max_none(at, bn), bt) /\ Covers(top, now)
            /\ Covers(bt, bn) => top = max_none(at, bt)
BY NoneAssumption DEF Number, Covers, max_none

LEMMA QuantityIs ==
  ASSUME NEW r
  PROVE  /\ \A g \in Gauges  : g \in Quantities /\ Quantity(r, g) = {r.gauge[g].now, r.gauge[g].top}
         /\ \A g \in Growing : g \in Quantities /\ Quantity(r, g) = {r.grown[g]}
         /\ "time" \in Quantities /\ Quantity(r, "time") = {r.time}
         /\ "time" \notin Gauges \cup Growing \cup Cpus
<1>1. ASSUME NEW g \in Gauges \cup Growing
      PROVE  g \in Quantities /\ g \notin {"usage", "system", "user", "time"} /\ g \notin Cpus
  BY FieldsAssumption DEF Quantities, Gauges, Growing
<1>2. ASSUME NEW g \in Gauges PROVE Quantity(r, g) = {r.gauge[g].now, r.gauge[g].top}
  BY <1>1, <1>2 DEF Quantity
<1>3. ASSUME NEW g \in Growing PROVE g \notin Gauges /\ Quantity(r, g) = {r.grown[g]}
  <2>1. g \notin Gauges
    BY DEF Gauges, Growing
  <2> QED
    BY <1>1, <2>1 DEF Quantity
<1>4. "time" \notin Gauges \cup Growing \cup Cpus
  BY FieldsAssumption DEF Gauges, Growing
<1>5. "time" \in Quantities /\ Quantity(r, "time") = {r.time}
  BY <1>4 DEF Quantity, Quantities
<1> QED
  BY <1>1, <1>2, <1>3, <1>4, <1>5

\* What Peaks says of one field.
LEMMA PeakFields ==
  ASSUME NEW s, NEW m, Peaks(s, m)
  PROVE  /\ \A g \in Gauges : /\ s.gauge[g].now \in Number /\ s.gauge[g].top \in Number
                              /\ m[g] = s.gauge[g].top /\ Covers(s.gauge[g].top, s.gauge[g].now)
         /\ \A g \in Growing : s.grown[g] \in Number /\ m[g] = s.grown[g]
         /\ s.time \in Number /\ m["time"] = s.time
BY DEF Peaks, Sound, GaugeType

\* A reading is taken down.
LEMMA ReadPeaks ==
  ASSUME NEW s, NEW m, NEW r, Peaks(s, m), Sound(r)
  PROVE  Peaks(Update(s, r), [q \in Quantities |-> Largest({m[q]} \cup Quantity(r, q))])
<1> DEFINE u == Update(s, r)
           note == [q \in Quantities |-> Largest({m[q]} \cup Quantity(r, q))]
<1>1. Sound(s) /\ Sound(u)
  BY UpdateSound DEF Peaks
<1>2. ASSUME NEW g \in Gauges
      PROVE  u.gauge[g].top = note[g] /\ Covers(u.gauge[g].top, u.gauge[g].now)
  <2> DEFINE a == s.gauge[g]
             b == r.gauge[g]
  <2>1. /\ a.now \in Number /\ a.top \in Number /\ m[g] = a.top /\ Covers(a.top, a.now)
        /\ b.now \in Number /\ b.top \in Number
    BY PeakFields DEF Sound, GaugeType
  <2>2. /\ u.gauge[g].now = IF b.now = None THEN a.now ELSE b.now
        /\ u.gauge[g].top = max_none(max_none(a.top, b.top), IF b.now = None THEN a.now ELSE b.now)
    BY <1>1, UpdateTops
  <2> HIDE DEF u, a, b
  <2>3. u.gauge[g].top = max_none(max_none(a.top, b.now), b.top) /\ Covers(u.gauge[g].top, u.gauge[g].now)
    BY <2>1, <2>2, GaugeTops
  <2>4. g \in Quantities /\ Quantity(r, g) = {b.now, b.top}
    BY QuantityIs DEF b
  <2>5. {m[g]} \cup Quantity(r, g) = {a.top, b.now, b.top}
    BY <2>1, <2>4
  <2>6. note[g] = Largest({a.top, b.now, b.top})
    BY <2>4, <2>5
  <2> QED
    BY <2>1, <2>3, <2>6, LargestOfThree
<1>3. ASSUME NEW g \in Growing PROVE u.grown[g] = note[g]
  <2>1. s.grown[g] \in Number /\ m[g] = s.grown[g] /\ r.grown[g] \in Number
    BY PeakFields DEF Sound
  <2>2. u.grown[g] = max_none(s.grown[g], r.grown[g])
    BY <1>1, UpdateTops
  <2>3. g \in Quantities /\ {m[g]} \cup Quantity(r, g) = {s.grown[g], r.grown[g], r.grown[g]}
    BY <2>1, QuantityIs
  <2>4. note[g] = Largest({s.grown[g], r.grown[g], r.grown[g]})
    BY <2>3
  <2>5. max_none(max_none(s.grown[g], r.grown[g]), r.grown[g]) = max_none(s.grown[g], r.grown[g])
    BY <2>1, NoneAssumption DEF max_none, Number
  <2> QED
    BY <2>1, <2>2, <2>4, <2>5, LargestOfThree
<1>4. u.time = note["time"]
  <2>1. s.time \in Number /\ m["time"] = s.time /\ r.time \in Number
    BY PeakFields DEF Sound
  <2>2. u.time = max_none(s.time, r.time)
    BY <1>1, UpdateTops
  <2>3. "time" \in Quantities /\ {m["time"]} \cup Quantity(r, "time") = {s.time, r.time, r.time}
    BY <2>1, QuantityIs
  <2>4. note["time"] = Largest({s.time, r.time, r.time})
    BY <2>3
  <2>5. max_none(max_none(s.time, r.time), r.time) = max_none(s.time, r.time)
    BY <2>1, NoneAssumption DEF max_none, Number
  <2> QED
    BY <2>1, <2>2, <2>4, <2>5, LargestOfThree
<1> QED
  BY <1>1, <1>2, <1>3, <1>4 DEF Peaks

\* A reading of graphics processors changes no peak.
LEMMA GpuPeaks ==
  ASSUME NEW s, NEW m, NEW names, Peaks(s, m)
  PROVE  Peaks(Update(s, gpu_stats(names)), m)
<1> DEFINE r == gpu_stats(names)
           u == Update(s, r)
<1>1. Sound(s) /\ Sound(r) /\ Sound(u)
  BY GpuSound, UpdateSound DEF Peaks
<1>2. /\ \A g \in Gauges : r.gauge[g].now = None /\ r.gauge[g].top = None
      /\ \A g \in Growing : r.grown[g] = None
      /\ r.time = None
  BY DEF gpu_stats, Empty, NoGauge, Gauge, max_none
<1>3. ASSUME NEW g \in Gauges
      PROVE  u.gauge[g].top = m[g] /\ Covers(u.gauge[g].top, u.gauge[g].now)
  <2>1. /\ u.gauge[g].now = s.gauge[g].now
        /\ u.gauge[g].top = max_none(max_none(s.gauge[g].top, None), s.gauge[g].now)
    BY <1>1, <1>2, UpdateTops
  <2> QED
    BY <2>1, PeakFields, NoneAssumption DEF max_none, Covers, Number
<1>4. ASSUME NEW g \in Growing PROVE u.grown[g] = m[g]
  <2>1. u.grown[g] = max_none(s.grown[g], None)
    BY <1>1, <1>2, UpdateTops
  <2> QED
    BY <2>1, PeakFields DEF max_none
<1>5. u.time = m["time"]
  <2>1. u.time = max_none(s.time, None)
    BY <1>1, <1>2, UpdateTops
  <2> QED
    BY <2>1, PeakFields DEF max_none
<1> QED
  BY <1>1, <1>3, <1>4, <1>5 DEF Peaks

\* A result is made up of what the worker and the observer have.
LEMMA MadeUpPeaks ==
  ASSUME KeptSound, PInv, NEW summary \in BOOLEAN, NEW took \in Number, NEW clock \in Number,
         MakeUp(summary, took, clock)
  PROVE  Peaks(result', most'["worker"])
<1> DEFINE own == Stopped(took)
           all == Summed(summary, took)
           mine == most["worker"]
           theirs == most["observer"]
           read(q) == {mine[q]} \cup (IF summary THEN {theirs[q]} ELSE {})
<1>1. /\ \A g \in Gauges : /\ result.gauge[g].now \in Number /\ result.gauge[g].top \in Number
                           /\ mine[g] = result.gauge[g].top
                           /\ Covers(result.gauge[g].top, result.gauge[g].now)
      /\ \A g \in Growing : result.grown[g] \in Number /\ mine[g] = result.grown[g]
      /\ mine["time"] = result.time
  BY PeakFields DEF PInv
<1>2. /\ \A g \in Gauges : /\ session.gauge[g].now \in Number /\ session.gauge[g].top \in Number
                           /\ theirs[g] = session.gauge[g].top
                           /\ Covers(session.gauge[g].top, session.gauge[g].now)
      /\ \A g \in Growing : session.grown[g] \in Number /\ theirs[g] = session.grown[g]
      /\ session.time \in Number /\ theirs["time"] = session.time
  BY PeakFields DEF PInv
<1>3. /\ own.gauge = result.gauge /\ own.grown = result.grown /\ own.time = took /\ Sound(own)
      /\ Sound(all) /\ result.time = None
  BY StoppedIs, SummedSound DEF MakeUp, PInv
<1>4. /\ Sound(result') /\ result'.grown = all.grown /\ result'.time = first_none(all.time, clock)
      /\ \A g \in Gauges : result'.gauge[g].top = all.gauge[g].top /\ result'.gauge[g].now = None
  <2>1. result' = MadeUp(all, clock) /\ Sound(all)
    BY <1>3 DEF MakeUp
  <2> HIDE DEF all
  <2> QED
    BY <2>1, MadeUpIs
<1>5. most'["worker"] = [q \in Quantities |->
         IF q = "time" THEN first_none(Largest(read(q) \cup {took}), clock) ELSE Largest(read(q))]
  BY DEF MakeUp, PInv
<1> HIDE DEF own
<1>6. CASE ~summary
  <2>1. all = own /\ \A q : read(q) = {mine[q]}
    BY <1>6 DEF Summed, own
  <2>2. ASSUME NEW g \in Gauges \cup Growing PROVE most'["worker"][g] = mine[g]
    <3>1. g \in Quantities /\ g # "time" /\ mine[g] \in Number
      BY <1>1, QuantityIs
    <3>2. most'["worker"][g] = Largest({mine[g], mine[g], mine[g]})
      BY <1>5, <2>1, <3>1
    <3>3. Largest({mine[g], mine[g], mine[g]}) = max_none(max_none(mine[g], mine[g]), mine[g])
      BY <3>1, LargestOfThree
    <3>4. max_none(max_none(mine[g], mine[g]), mine[g]) = mine[g]
      BY <3>1, NoneAssumption DEF max_none, Number
    <3> QED
      BY <3>2, <3>3, <3>4
  <2>3. result'.time = most'["worker"]["time"]
    <3>1. "time" \in Quantities /\ read("time") \cup {took} = {None, took, took}
      BY <1>1, <1>3, <2>1, QuantityIs
    <3>2. most'["worker"]["time"] = first_none(Largest({None, took, took}), clock)
      BY <1>5, <3>1
    <3>3. Largest({None, took, took}) = max_none(max_none(None, took), took)
      BY FileNumbers, LargestOfThree
    <3>4. max_none(max_none(None, took), took) = took
      BY NoneAssumption DEF max_none, Number
    <3> QED
      BY <1>3, <1>4, <2>1, <3>2, <3>3, <3>4
  <2>4. \A g \in Gauges : result'.gauge[g].top = most'["worker"][g]
    BY <1>1, <1>3, <1>4, <2>1, <2>2
  <2>5. \A g \in Growing : result'.grown[g] = most'["worker"][g]
    BY <1>1, <1>3, <1>4, <2>1, <2>2
  <2> QED
    BY <1>4, <2>3, <2>4, <2>5 DEF Peaks, Covers
<1>7. CASE summary
  <2> DEFINE other == Load(session)
  <2>1. all = Update(own, other) /\ Sound(other)
    BY <1>7, LoadSound DEF Summed, own, KeptSound
  <2>2. /\ \A g \in Gauges : /\ other.gauge[g].now = session.gauge[g].now
                             /\ other.gauge[g].top = max_none(session.gauge[g].top, session.gauge[g].now)
        /\ other.grown = session.grown /\ other.time = session.time
    BY DEF Load, Gauge
  <2>3. \A q : read(q) = {mine[q], theirs[q]}
    BY <1>7
  <2> HIDE DEF other
  <2>4. ASSUME NEW g \in Gauges \cup Growing
        PROVE  most'["worker"][g] = max_none(mine[g], theirs[g])
    <3>1. g \in Quantities /\ g # "time" /\ mine[g] \in Number /\ theirs[g] \in Number
      BY <1>1, <1>2, QuantityIs
    <3>2. most'["worker"][g] = Largest({mine[g], theirs[g], theirs[g]})
      BY <1>5, <2>3, <3>1
    <3>3. most'["worker"][g] = max_none(max_none(mine[g], theirs[g]), theirs[g])
      BY <3>1, <3>2, LargestOfThree
    <3>4. max_none(max_none(mine[g], theirs[g]), theirs[g]) = max_none(mine[g], theirs[g])
      BY <3>1, NoneAssumption DEF max_none, Number
    <3> QED
      BY <3>3, <3>4
  <2>5. ASSUME NEW g \in Gauges PROVE result'.gauge[g].top = most'["worker"][g]
    <3>1. other.gauge[g].now = session.gauge[g].now /\ other.gauge[g].top = session.gauge[g].top
      BY <1>2, <2>2, NoneAssumption DEF max_none, Covers, Number
    <3>2. all.gauge[g].top = max_none(max_none(result.gauge[g].top, session.gauge[g].top),
                               IF session.gauge[g].now = None THEN result.gauge[g].now ELSE session.gauge[g].now)
      BY <1>3, <2>1, <3>1, UpdateTops
    <3>3. all.gauge[g].top = max_none(mine[g], theirs[g])
      BY <1>1, <1>2, <3>2, GaugeTops
    <3> QED
      BY <1>4, <2>4, <3>3
  <2>6. ASSUME NEW g \in Growing PROVE result'.grown[g] = most'["worker"][g]
    <3>1. all.grown[g] = max_none(mine[g], theirs[g])
      BY <1>1, <1>2, <1>3, <2>1, <2>2, UpdateTops
    <3> QED
      BY <1>4, <2>4, <3>1
  <2>7. result'.time = most'["worker"]["time"]
    <3>1. "time" \in Quantities /\ read("time") \cup {took} = {None, session.time, took}
      <4>1. read("time") = {None, session.time}
        BY <1>1, <1>2, <1>3, <2>3
      <4> QED
        BY <4>1, QuantityIs
    <3>2. most'["worker"]["time"] = first_none(Largest({None, session.time, took}), clock)
      BY <1>5, <3>1
    <3>3. Largest({None, session.time, took}) = max_none(max_none(None, session.time), took)
      BY <1>2, FileNumbers, LargestOfThree
    <3>4. max_none(max_none(None, session.time), took) = max_none(took, session.time)
      BY <1>2, NoneAssumption DEF max_none, Number
    <3>5. all.time = max_none(took, session.time)
      BY <1>3, <2>1, <2>2, UpdateTops
    <3> QED
      BY <1>4, <3>2, <3>3, <3>4, <3>5
  <2> QED
    BY <1>4, <2>5, <2>6, <2>7 DEF Peaks, Covers
<1> QED
  BY <1>6, <1>7

LEMMA InitPeaks == Init => KeptSound /\ PInv
<1> SUFFICES ASSUME Init PROVE KeptSound /\ PInv
  OBVIOUS
<1>1. /\ most = [who \in {"observer", "worker"} |-> [q \in Quantities |-> None]]
      /\ session = Empty /\ result = Empty /\ mounts \in Hosts
  BY DEF Init
<1>2. /\ \A g \in Gauges : Empty.gauge[g].now = None /\ Empty.gauge[g].top = None
      /\ \A g \in Growing : Empty.grown[g] = None
      /\ Empty.time = None
  BY NoGaugeIs DEF Empty
<1>3. Peaks(Empty, [q \in Quantities |-> None])
  BY <1>2, EmptySound, QuantityIs DEF Peaks, Covers
<1> QED
  BY <1>1, <1>2, <1>3, EmptySound DEF KeptSound, PInv

\* No reading of the control groups has a time.
LEMMA ReadingTimeless ==
  ASSUME NEW host \in Hosts, NEW r \in Readings[host]
  PROVE  r.time = None
<1>1. PICK c \in Cpuacct \cup {None}, m \in Memory \cup {None}, p \in Pids \cup {None} :
        r = groups_stats(c, m, p)
  BY ReadingIs
<1> QED
  BY <1>1 DEF groups_stats, Update, Empty, max_none

LEMMA NextPeaks == KeptSound /\ PInv /\ [Next]_vars => KeptSound' /\ PInv'
<1> SUFFICES ASSUME KeptSound, PInv, [Next]_vars PROVE KeptSound' /\ PInv'
  OBVIOUS
<1>1. KeptSound' /\ mounts \in Hosts
  BY StepKeeps DEF PInv
<1>2. \A who \in {"observer", "worker"} : who \in DOMAIN most
  BY DEF PInv
<1>3. ASSUME NEW who \in {"observer", "worker"}, NEW r, Note(who, r)
      PROVE  /\ DOMAIN most' = {"observer", "worker"} /\ most' = [w \in DOMAIN most' |-> most'[w]]
             /\ most'[who] = [q \in Quantities |-> Largest({most[who][q]} \cup Quantity(r, q))]
             /\ \A w \in {"observer", "worker"} \ {who} : most'[w] = most[w]
  BY <1>2, <1>3 DEF Note, PInv
<1>4. ASSUME NEW r \in Readings[mounts], NEW t \in Count, ObserverReads(Timed(r, t)) PROVE PInv'
  <2>1. Sound(Timed(r, t))
    BY <1>1, ReadingSound, TimedSound
  <2> DEFINE s == Timed(r, t)
  <2> HIDE DEF s
  <2>2. /\ Sound(s) /\ session' = Update(session, s) /\ Note("observer", s) /\ result' = result
        /\ mounts' = mounts /\ ended' = ended
    BY <1>4, <2>1 DEF ObserverReads, s
  <2>3. /\ most'["observer"] = [q \in Quantities |-> Largest({most["observer"][q]} \cup Quantity(s, q))]
        /\ most'["worker"] = most["worker"]
    BY <1>3, <2>2
  <2>4. Peaks(Update(session, s), [q \in Quantities |-> Largest({most["observer"][q]} \cup Quantity(s, q))])
    BY <2>2, ReadPeaks DEF PInv
  <2>5. Peaks(session', most'["observer"])
    BY <2>2, <2>3, <2>4
  <2> QED
    BY <1>3, <2>2, <2>3, <2>5 DEF PInv
<1>5. ASSUME NEW r \in Readings[mounts], WorkerReads(r) PROVE PInv'
  <2>1. /\ Sound(r) /\ result' = Update(result, r) /\ Note("worker", r) /\ session' = session
        /\ mounts' = mounts /\ result'.time = None
    <3>1. Update(result, r).time = max_none(result.time, r.time) /\ result.time = None /\ r.time = None
      BY <1>1, <1>5, ReadingSound, ReadingTimeless, UpdateTops DEF WorkerReads, PInv, KeptSound
    <3> QED
      BY <1>1, <1>5, <3>1, ReadingSound DEF WorkerReads, max_none
  <2>2. /\ most'["worker"] = [q \in Quantities |-> Largest({most["worker"][q]} \cup Quantity(r, q))]
        /\ most'["observer"] = most["observer"]
    BY <1>3, <2>1
  <2>3. Peaks(Update(result, r), [q \in Quantities |-> Largest({most["worker"][q]} \cup Quantity(r, q))])
    BY <2>1, ReadPeaks DEF PInv
  <2>4. Peaks(result', most'["worker"])
    BY <2>1, <2>2, <2>3
  <2> QED
    BY <1>3, <2>1, <2>2, <2>4 DEF PInv
<1>6. ASSUME NEW names \in [Gpus -> Names], GpuReads(names) PROVE PInv'
  <2>1. gpu_stats(names).time = None /\ Sound(gpu_stats(names))
    BY GpuSound DEF gpu_stats, Empty
  <2>2. Update(result, gpu_stats(names)).time = max_none(result.time, None) /\ result.time = None
    BY <1>6, <2>1, UpdateTops DEF GpuReads, PInv, KeptSound
  <2>3. Update(result, gpu_stats(names)).time = None
    BY <2>2 DEF max_none
  <2> QED
    BY <1>6, <2>3, GpuPeaks DEF GpuReads, PInv
<1>7. ASSUME NEW summary \in BOOLEAN, NEW took \in File, NEW clock \in Count,
             MakeUp(summary, took, clock)
      PROVE  PInv'
  <2>1. took \in Number /\ clock \in Number
    BY FileNumbers
  <2>2. Peaks(result', most'["worker"])
    BY <1>7, <2>1, MadeUpPeaks
  <2>3. /\ most'["observer"] = most["observer"] /\ session' = session /\ mounts' = mounts /\ ended'
        /\ DOMAIN most' = {"observer", "worker"} /\ most' = [w \in DOMAIN most' |-> most'[w]]
    BY <1>7 DEF MakeUp, PInv
  <2> QED
    BY <2>2, <2>3 DEF PInv
<1>8. CASE UNCHANGED vars
  <2>1. result' = result /\ session' = session /\ most' = most /\ mounts' = mounts /\ ended' = ended
    BY <1>8 DEF vars
  <2> QED
    BY <1>1, <2>1 DEF PInv
<1> QED
  BY <1>1, <1>4, <1>5, <1>6, <1>7, <1>8 DEF Next

\* Whoever reads, in whatever order, with whatever unreadable: the largest value kept
\* of a gauge, and the value kept of what only grows, is the largest that was read,
\* in the result, too, that the worker makes up (limits.py:196-230, 304-306).
THEOREM PeaksKept == Spec => []PeaksAreMaxima
<1>1. KeptSound /\ PInv => PeaksAreMaxima
  BY DEF PInv, Peaks, PeaksAreMaxima, Books
<1>2. Spec => [](KeptSound /\ PInv)
  BY InitPeaks, NextPeaks, PTL DEF Spec
<1> QED
  BY <1>1, <1>2, PTL

---------------------------------------------------------------------------
(* Processor time *)

\* The largest time read of each processor, the processors that were read, and
\* the sum of their times.
Clocks(s) == [c \in Cpus |-> IF c \in DOMAIN s.cpus THEN s.cpus[c].usage ELSE None]
Used(k)   == {c \in Cpus : k[c] # None}
Split(k)  == [c \in Used(k) |-> [usage |-> k[c], system |-> None, user |-> None]]
Spent(k)  == IF Used(k) = {} THEN None ELSE SumOn(k, Used(k))

\* System and user time together.
Busy(s, u) == IF s = None THEN None ELSE s + u

\* Readings give system and user time both or neither, and only one time of each
\* processor; so nothing that is put together of them has more.
Timepiece(p) == /\ p = [usage |-> p.usage, system |-> p.system, user |-> p.user]
                /\ p.usage \in Number /\ p.system \in Number /\ p.user \in Number
                /\ p.user = None <=> p.system = None
Clocked(s) == Timepiece(s.cpu) /\ s.cpus = Split(Clocks(s)) /\ Clocks(s) \in [Cpus -> Number]

\* The total is never less than what it is made up of.
Whole(s) == s.cpu.usage = max_none(max_none(s.cpu.usage, Busy(s.cpu.system, s.cpu.user)), Spent(Clocks(s)))

LEMMA ClocksAre ==
  ASSUME NEW k \in [Cpus -> Number], NEW s, s.cpus = Split(k)
  PROVE  Clocks(s) = k
<1>1. ASSUME NEW c \in Cpus
      PROVE  (IF c \in DOMAIN s.cpus THEN s.cpus[c].usage ELSE None) = k[c]
  <2>1. CASE k[c] = None
    BY <2>1 DEF Split, Used
  <2>2. CASE k[c] # None
    BY <2>2 DEF Split, Used
  <2> QED
    BY <2>1, <2>2
<1> QED
  BY <1>1 DEF Clocks

LEMMA SpentIs ==
  ASSUME NEW k \in [Cpus -> Number]
  PROVE  /\ Spent(k) \in Number /\ NatOn(k, Used(k))
         /\ Used(k) # {} => Spent(k) = SumOn(k, Used(k)) /\ Spent(k) \in Nat
<1>1. NatOn(k, Used(k))
  BY FS_Subset, NumberAssumption DEF NatOn, Used, Number
<1>2. SumOn(k, Used(k)) \in Nat
  BY <1>1, SumNat
<1> QED
  BY <1>1, <1>2 DEF Spent, Number

\* More time of each processor is more time together.
LEMMA SpentGrows ==
  ASSUME NEW k \in [Cpus -> Number], NEW m \in [Cpus -> Number],
         \A c \in Cpus : Covers(m[c], k[c])
  PROVE  Covers(Spent(m), Spent(k))
<1>1. CASE Used(k) = {}
  BY <1>1 DEF Spent, Covers
<1>2. CASE Used(k) # {}
  <2>1. Used(k) \subseteq Used(m) /\ Used(m) # {} /\ \A c \in Used(k) : k[c] <= m[c]
    BY <1>2 DEF Used, Covers
  <2>2. SumOn(k, Used(k)) <= SumOn(m, Used(m))
    BY <2>1, SpentIs, SumLeq
  <2> QED
    BY <1>2, <2>1, <2>2, SpentIs, NoneAssumption DEF Covers
<1> QED
  BY <1>1, <1>2

\* What the model's sums come to.
LEMMA SumOfNone ==
  ASSUME NEW f, \A x \in DOMAIN f : f[x] = None
  PROVE  sum_none(f) = None
BY DEF sum_none

LEMMA BusyIs ==
  ASSUME NEW s \in Number, NEW u \in Number, u = None <=> s = None
  PROVE  /\ Busy(s, u) \in Number
         /\ Busy(s, u) = None <=> s = None
BY NoneAssumption DEF Busy, Number

\* More of both is more together.
LEMMA BusyGrows ==
  ASSUME NEW s \in Number, NEW u \in Number, u = None <=> s = None,
         NEW t \in Number, NEW v \in Number, v = None <=> t = None
  PROVE  LET st == max_none(s, t)  uv == max_none(u, v) IN
         /\ st \in Number /\ uv \in Number /\ (uv = None <=> st = None)
         /\ Covers(Busy(st, uv), Busy(s, u)) /\ Covers(Busy(st, uv), Busy(t, v))
<1> DEFINE st == max_none(s, t)
           uv == max_none(u, v)
<1>1. /\ st \in Number /\ uv \in Number
      /\ Covers(st, s) /\ Covers(st, t) /\ Covers(uv, u) /\ Covers(uv, v)
  BY MaxOfTwo
<1>2. uv = None <=> st = None
  BY NoneAssumption DEF max_none, Number
<1> HIDE DEF st, uv
<1>3. Covers(Busy(st, uv), Busy(s, u)) /\ Covers(Busy(st, uv), Busy(t, v))
  BY <1>1, <1>2, NoneAssumption DEF Covers, Busy, Number
<1> QED
  BY <1>1, <1>2, <1>3 DEF st, uv

LEMMA SumOfTimes ==
  ASSUME NEW s \in Number, NEW u \in Number, u = None <=> s = None
  PROVE  sum_none([f \in {"system", "user"} |-> IF f = "user" THEN u ELSE s]) = Busy(s, u)
<1> DEFINE f == [x \in {"system", "user"} |-> IF x = "user" THEN u ELSE s]
<1>1. f["system"] = s /\ f["user"] = u /\ DOMAIN f = {"system", "user"}
  OBVIOUS
<1> HIDE DEF f
<1>2. CASE s = None
  <2>1. sum_none(f) = None
    BY <1>1, <1>2, SumOfNone
  <2> QED
    BY <1>2, <2>1 DEF f, Busy
<1>3. CASE s # None
  <2>1. s \in Nat /\ u \in Nat
    BY <1>3 DEF Number
  <2>2. {x \in DOMAIN f : f[x] # None} = {"system", "user"}
    BY <1>1, <2>1, NoneAssumption
  <2>3. SumOn(f, {"system", "user"}) = s + u
    BY <1>1, <2>1, SumTwo
  <2>4. sum_none(f) = SumOn(f, {"system", "user"})
    BY <2>2, Zenon DEF sum_none, SumOn
  <2>5. Busy(s, u) = s + u
    BY <1>3 DEF Busy
  <2> QED
    BY <2>3, <2>4, <2>5 DEF f
<1> QED
  BY <1>2, <1>3

\* A counter is made of a total and of parts.
LEMMA CpuIs ==
  ASSUME NEW t \in Number, NEW s \in Number, NEW u \in Number, u = None <=> s = None
  PROVE  /\ Cpu(t, s, u) = [usage |-> max_none(t, Busy(s, u)), system |-> s, user |-> u]
         /\ Timepiece(Cpu(t, s, u))
<1>1. Cpu(t, s, u) = [usage |-> max_none(t, Busy(s, u)), system |-> s, user |-> u]
  BY SumOfTimes DEF Cpu
<1>2. max_none(t, Busy(s, u)) \in Number
  BY BusyIs, MaxOfTwo
<1> QED
  BY <1>1, <1>2 DEF Timepiece

LEMMA CpuUpdateIs ==
  ASSUME NEW a, NEW b, Timepiece(a), Timepiece(b)
  PROVE  /\ CpuUpdate(a, b) = [usage |-> max_none(max_none(a.usage, b.usage),
                                                 Busy(max_none(a.system, b.system), max_none(a.user, b.user))),
                               system |-> max_none(a.system, b.system),
                               user |-> max_none(a.user, b.user)]
         /\ Timepiece(CpuUpdate(a, b))
<1> DEFINE t == max_none(a.usage, b.usage)
           s == max_none(a.system, b.system)
           u == max_none(a.user, b.user)
<1>1. t \in Number
  BY MaxOfTwo DEF Timepiece
<1>2. s \in Number /\ u \in Number /\ (u = None <=> s = None)
  BY BusyGrows DEF Timepiece
<1>3. CpuUpdate(a, b) = Cpu(t, s, u)
  BY DEF CpuUpdate
<1> HIDE DEF t, s, u
<1>4. CpuUpdate(a, b) = [usage |-> max_none(t, Busy(s, u)), system |-> s, user |-> u]
      /\ Timepiece(CpuUpdate(a, b))
  BY <1>1, <1>2, <1>3, CpuIs
<1> QED
  BY <1>4 DEF t, s, u

LEMMA NoCpuIs ==
  /\ NoCpu = [usage |-> None, system |-> None, user |-> None]
  /\ Timepiece(NoCpu)
<1>1. None \in Number /\ max_none(None, None) = None /\ Busy(None, None) = None
  BY DEF Number, max_none, Busy
<1> QED
  BY <1>1, CpuIs DEF NoCpu

\* The sum over the processors.
LEMMA CpuSumIs ==
  ASSUME NEW k \in [Cpus -> Number]
  PROVE  /\ CpuSum(Split(k)) = [usage |-> Spent(k), system |-> None, user |-> None]
         /\ Timepiece(CpuSum(Split(k)))
<1> DEFINE f == [c \in DOMAIN Split(k) |-> Split(k)[c].usage]
           U == Used(k)
<1>1. /\ DOMAIN Split(k) = U
      /\ \A c \in U : /\ Split(k)[c].usage = k[c] /\ Split(k)[c].system = None
                      /\ Split(k)[c].user = None /\ k[c] # None
  BY DEF Split, Used
<1>2. DOMAIN f = U /\ \A c \in U : f[c] = k[c] /\ f[c] # None
  BY <1>1
<1>3. sum_none(f) = Spent(k)
  <2> HIDE DEF f
  <2>1. {c \in DOMAIN f : f[c] # None} = U
    BY <1>2
  <2>2. CASE U = {}
    BY <2>1, <2>2 DEF sum_none, Spent
  <2>3. CASE U # {}
    <3>1. sum_none(f) = SumOn(f, U)
      BY <2>1, <2>3, Zenon DEF sum_none, SumOn
    <3>2. NatOn(f, U) /\ \A c \in U : f[c] = k[c]
      BY <1>2, SpentIs DEF NatOn
    <3>3. SumOn(f, U) = SumOn(k, U)
      <4> HIDE DEF U
      <4> QED  BY <3>2, SumSame
    <3> QED
      BY <2>3, <3>1, <3>3 DEF Spent
  <2> QED
    BY <2>2, <2>3
<1>4. /\ sum_none([c \in DOMAIN Split(k) |-> Split(k)[c].system]) = None
      /\ sum_none([c \in DOMAIN Split(k) |-> Split(k)[c].user]) = None
  BY <1>1, SumOfNone
<1>5. CpuSum(Split(k)) = Cpu(Spent(k), None, None)
  BY <1>3, <1>4 DEF CpuSum
<1>6. Spent(k) \in Number /\ None \in Number /\ max_none(Spent(k), Busy(None, None)) = Spent(k)
  BY SpentIs DEF Number, max_none, Busy
<1> QED
  BY <1>5, <1>6, CpuIs

\* Two records put together: of each processor the larger time, of the total the
\* largest of what both have and of what it is made up of.
LEMMA Combine ==
  ASSUME NEW x \in Number, NEW b \in Number, NEW p \in Number
  PROVE  max_none(max_none(max_none(x, b), p), b) = max_none(max_none(x, b), p)
BY NoneAssumption DEF max_none, Number

LEMMA UpdateSplit ==
  ASSUME NEW k \in [Cpus -> Number], NEW m \in [Cpus -> Number]
  PROVE  LET both == [c \in Cpus |-> max_none(k[c], m[c])] IN
         both \in [Cpus -> Number] /\ CpusUpdate(Split(k), Split(m)) = Split(both)
<1> DEFINE both == [c \in Cpus |-> max_none(k[c], m[c])]
           of(j, c) == IF c \in DOMAIN Split(j) THEN Split(j)[c] ELSE NoCpu
           one(x) == [usage |-> x, system |-> None, user |-> None]
<1>1. both \in [Cpus -> Number]
  BY MaxOfTwo
<1>2. ASSUME NEW j \in [Cpus -> Number], NEW c \in Cpus PROVE of(j, c) = one(j[c]) /\ Timepiece(of(j, c))
  <2>1. of(j, c) = one(j[c])
    <3>1. CASE j[c] = None
      BY <3>1, NoCpuIs DEF Split, Used
    <3>2. CASE j[c] # None
      BY <3>2 DEF Split, Used
    <3> QED
      BY <3>1, <3>2
  <2>2. j[c] \in Number /\ None \in Number
    BY DEF Number
  <2> HIDE DEF of
  <2> QED
    BY <2>1, <2>2 DEF Timepiece
<1>3. DOMAIN Split(k) \cup DOMAIN Split(m) = Used(both)
  BY <1>1, NoneAssumption DEF Split, Used, max_none, Number
<1>4. ASSUME NEW c \in Cpus PROVE CpuUpdate(of(k, c), of(m, c)) = one(both[c])
  <2>1. /\ of(k, c) = one(k[c]) /\ Timepiece(of(k, c))
        /\ of(m, c) = one(m[c]) /\ Timepiece(of(m, c))
    BY <1>2
  <2> HIDE DEF of
  <2>2. CpuUpdate(of(k, c), of(m, c)) =
          [usage |-> max_none(max_none(k[c], m[c]), Busy(max_none(None, None), max_none(None, None))),
           system |-> max_none(None, None), user |-> max_none(None, None)]
    BY <2>1, CpuUpdateIs
  <2> QED
    BY <2>2 DEF max_none, Busy
<1>5. CpusUpdate(Split(k), Split(m)) = [c \in Used(both) |-> CpuUpdate(of(k, c), of(m, c))]
  BY <1>3 DEF CpusUpdate
<1>6. Used(both) \subseteq Cpus
  BY DEF Used
<1> HIDE DEF of, both
<1>7. CpusUpdate(Split(k), Split(m)) = [c \in Used(both) |-> one(both[c])]
  BY <1>4, <1>5, <1>6
<1> QED
  BY <1>1, <1>7 DEF Split, both

LEMMA UpdateClocks ==
  ASSUME NEW a, NEW b, Clocked(a), Clocked(b)
  PROVE  LET u == Update(a, b)  k == [c \in Cpus |-> max_none(Clocks(a)[c], Clocks(b)[c])] IN
         /\ k \in [Cpus -> Number] /\ Clocks(u) = k /\ Clocked(u)
         /\ u.cpu.system = max_none(a.cpu.system, b.cpu.system)
         /\ u.cpu.user = max_none(a.cpu.user, b.cpu.user)
         /\ u.cpu.usage = max_none(max_none(max_none(a.cpu.usage, b.cpu.usage),
                                            Busy(u.cpu.system, u.cpu.user)), Spent(k))
<1> DEFINE u == Update(a, b)
           k == [c \in Cpus |-> max_none(Clocks(a)[c], Clocks(b)[c])]
           x == CpuUpdate(a.cpu, b.cpu)
           sum == CpuSum(Split(k))
<1>1. k \in [Cpus -> Number] /\ CpusUpdate(a.cpus, b.cpus) = Split(k)
  BY UpdateSplit DEF Clocked
<1>2. u.cpus = Split(k) /\ u.cpu = CpuUpdate(x, sum)
  BY <1>1 DEF Update
<1>3. Clocks(u) = k
  <2> HIDE DEF u, k
  <2> QED  BY <1>1, <1>2, ClocksAre
<1>4. /\ Timepiece(x) /\ x.system = max_none(a.cpu.system, b.cpu.system)
      /\ x.user = max_none(a.cpu.user, b.cpu.user)
      /\ x.usage = max_none(max_none(a.cpu.usage, b.cpu.usage), Busy(x.system, x.user))
  BY CpuUpdateIs DEF Clocked
<1>5. Timepiece(sum) /\ sum = [usage |-> Spent(k), system |-> None, user |-> None] /\ Spent(k) \in Number
  <2> HIDE DEF k
  <2> QED  BY <1>1, CpuSumIs, SpentIs
<1> HIDE DEF u, k, x, sum
<1>6. /\ Timepiece(u.cpu)
      /\ u.cpu.system = max_none(x.system, None)
      /\ u.cpu.user = max_none(x.user, None)
      /\ u.cpu.usage = max_none(max_none(x.usage, Spent(k)),
                                Busy(max_none(x.system, None), max_none(x.user, None)))
  BY <1>2, <1>4, <1>5, CpuUpdateIs
<1>7. /\ max_none(x.system, None) = x.system /\ max_none(x.user, None) = x.user
      /\ max_none(a.cpu.usage, b.cpu.usage) \in Number /\ Busy(x.system, x.user) \in Number
  BY <1>4, MaxOfTwo, BusyIs DEF Clocked, Timepiece, max_none
<1>8. u.cpu.usage = max_none(max_none(max_none(a.cpu.usage, b.cpu.usage), Busy(x.system, x.user)), Spent(k))
  BY <1>4, <1>5, <1>6, <1>7, Combine
<1>9. u.cpu.system = x.system /\ u.cpu.user = x.user
  BY <1>6, <1>7
<1> QED
  BY <1>1, <1>2, <1>3, <1>4, <1>6, <1>8, <1>9 DEF Clocked, u, k

\* A record that was put together is read again as it was written.
LEMMA LoadClocks ==
  ASSUME NEW s, Clocked(s), Whole(s)
  PROVE  Load(s).cpu = s.cpu /\ Load(s).cpus = s.cpus
<1> DEFINE k == Clocks(s)
           cpus == [c \in DOMAIN s.cpus |-> Cpu(s.cpus[c].usage, s.cpus[c].system, s.cpus[c].user)]
           own == Cpu(s.cpu.usage, s.cpu.system, s.cpu.user)
           sum == CpuSum(Split(k))
<1>1. k \in [Cpus -> Number] /\ s.cpus = Split(k) /\ Timepiece(s.cpu)
  BY DEF Clocked
<1> HIDE DEF k
<1>2. ASSUME NEW c \in Used(k)
      PROVE  Cpu(s.cpus[c].usage, s.cpus[c].system, s.cpus[c].user) = Split(k)[c]
  <2>1. /\ s.cpus[c].usage = k[c] /\ s.cpus[c].system = None /\ s.cpus[c].user = None
        /\ k[c] \in Number /\ None \in Number
        /\ Split(k)[c] = [usage |-> k[c], system |-> None, user |-> None]
    BY <1>1 DEF Split, Used, Number
  <2>2. max_none(k[c], Busy(None, None)) = k[c]
    BY DEF max_none, Busy
  <2> QED
    BY <2>1, <2>2, CpuIs
<1>3. cpus = Split(k)
  <2>1. DOMAIN s.cpus = Used(k)
    BY <1>1 DEF Split
  <2>2. cpus = [c \in Used(k) |-> Split(k)[c]]
    BY <1>2, <2>1
  <2> QED
    BY <2>2 DEF Split
<1>4. /\ Timepiece(own) /\ own.usage = max_none(s.cpu.usage, Busy(s.cpu.system, s.cpu.user))
      /\ own.system = s.cpu.system /\ own.user = s.cpu.user
  BY <1>1, CpuIs DEF Timepiece
<1>5. Timepiece(sum) /\ sum = [usage |-> Spent(k), system |-> None, user |-> None] /\ Spent(k) \in Number
  BY <1>1, CpuSumIs, SpentIs
<1>6. Load(s).cpu = CpuUpdate(own, sum) /\ Load(s).cpus = Split(k)
  BY <1>3 DEF Load
<1> HIDE DEF own, sum
<1>7. CpuUpdate(own, sum) = [usage |-> max_none(max_none(own.usage, Spent(k)),
                                               Busy(max_none(own.system, None), max_none(own.user, None))),
                             system |-> max_none(own.system, None), user |-> max_none(own.user, None)]
  BY <1>4, <1>5, CpuUpdateIs
<1>8. max_none(own.system, None) = own.system /\ max_none(own.user, None) = own.user
  BY DEF max_none
<1>9. max_none(max_none(own.usage, Spent(k)), Busy(own.system, own.user)) = s.cpu.usage
  <2>1. s.cpu.usage \in Number /\ Busy(own.system, own.user) \in Number
    BY <1>1, <1>4, BusyIs DEF Timepiece
  <2>2. max_none(max_none(own.usage, Spent(k)), Busy(own.system, own.user)) = max_none(own.usage, Spent(k))
    BY <1>4, <1>5, <2>1, Combine
  <2> QED
    BY <1>4, <2>2 DEF Whole, k
<1>10. CpuUpdate(own, sum) = [usage |-> s.cpu.usage, system |-> s.cpu.system, user |-> s.cpu.user]
  BY <1>4, <1>7, <1>8, <1>9
<1> QED
  BY <1>1, <1>6, <1>10 DEF Timepiece

---------------------------------------------------------------------------
(* Readings *)

\* A record has a total if it has system and user time, and only then any time at all.
Complete(s) ==
  IF s.cpu.system = None THEN s.cpu.usage = None /\ Spent(Clocks(s)) = None
  ELSE s.cpu.usage # None

LEMMA EmptyClocked ==
  /\ Clocked(Empty) /\ \A c \in Cpus : Clocks(Empty)[c] = None
  /\ Empty.cpu.usage = None /\ Empty.cpu.system = None /\ Empty.cpu.user = None
  /\ Spent(Clocks(Empty)) = None
<1> DEFINE k == [c \in Cpus |-> None]
<1>1. k \in [Cpus -> Number] /\ Used(k) = {}
  BY DEF Number, Used
<1>2. Empty.cpus = Split(k) /\ Empty.cpu = NoCpu
  BY <1>1 DEF Empty, Split
<1>3. Clocks(Empty) = k
  <2> HIDE DEF k
  <2> QED  BY <1>1, <1>2, ClocksAre
<1> QED
  BY <1>1, <1>2, <1>3, NoCpuIs DEF Clocked, Spent

\* The total of a group, if there is a group.
LEMMA TotalRead ==
  ASSUME NEW c \in Cpuacct \cup {None}
  PROVE  /\ Timepiece(ReadTotal(c)) /\ (c = None => ReadTotal(c) = NoCpu)
         /\ c # None => ReadTotal(c).usage # None /\ ReadTotal(c).system # None
<1>1. CASE c = None
  BY <1>1, NoCpuIs DEF ReadTotal
<1>2. CASE c # None
  <2> DEFINE t == first_none(c.usage, 0)
  <2>1. t \in Nat /\ t \in Number
    BY <1>2, FileNumbers DEF Cpuacct, first_none, Number
  <2> HIDE DEF t
  <2>2. PICK s \in Nat, u \in Nat : ReadTotal(c) = Cpu(t, s, u)
    <3>1. CASE c.stat = None
      BY <1>2, <3>1 DEF ReadTotal, t
    <3>2. CASE c.stat # None
      <4>1. c.stat.system \in Nat /\ c.stat.user \in Nat
        BY <1>2, <3>2, NumberAssumption DEF Cpuacct, Count
      <4>2. ReadTotal(c) = Cpu(t, c.stat.system, c.stat.user)
        BY <1>2, <3>2 DEF ReadTotal, t
      <4> QED
        BY <4>1, <4>2
    <3> QED
      BY <3>1, <3>2
  <2>3. s \in Number /\ u \in Number /\ s # None /\ u # None
    BY NoneAssumption DEF Number
  <2>4. /\ Cpu(t, s, u) = [usage |-> max_none(t, Busy(s, u)), system |-> s, user |-> u]
        /\ Timepiece(Cpu(t, s, u))
    BY <2>1, <2>3, CpuIs
  <2>5. max_none(t, Busy(s, u)) # None
    BY <2>1, <2>3, NoneAssumption DEF max_none, Busy
  <2> QED
    BY <1>2, <2>2, <2>3, <2>4, <2>5
<1> QED
  BY <1>1, <1>2

\* The times of its processors.
LEMMA SplitRead ==
  ASSUME NEW c \in Cpuacct \cup {None}
  PROVE  \E k \in [Cpus -> Number] : /\ ReadSplit(c) = Split(k)
                                     /\ c = None => Used(k) = {}
<1>1. CASE c = None \/ c.percpu = None
  <2> DEFINE k == [i \in Cpus |-> None]
  <2>1. k \in [Cpus -> Number] /\ Used(k) = {}
    BY DEF Number, Used
  <2>2. ReadSplit(c) = Split(k)
    BY <1>1, <2>1 DEF ReadSplit, Split, Empty
  <2> QED
    BY <2>1, <2>2
<1>2. CASE c # None /\ c.percpu # None
  <2> DEFINE k == c.percpu
  <2>1. k \in [Cpus -> Number] /\ k \in [Cpus -> Count]
    BY <1>2, FileNumbers DEF Cpuacct
  <2>2. Used(k) = Cpus
    BY <2>1, NumberAssumption, NoneAssumption DEF Count, Used
  <2>3. ASSUME NEW i \in Cpus
        PROVE  Cpu(k[i], None, None) = [usage |-> k[i], system |-> None, user |-> None]
    <3>1. k[i] \in Number /\ None \in Number /\ max_none(k[i], Busy(None, None)) = k[i]
      BY <2>1 DEF Number, max_none, Busy
    <3> HIDE DEF k
    <3> QED
      BY <3>1, CpuIs
  <2>4. ReadSplit(c) = [i \in Cpus |-> Cpu(k[i], None, None)]
    BY <1>2 DEF ReadSplit
  <2> HIDE DEF k
  <2> QED
    BY <1>2, <2>1, <2>2, <2>3, <2>4 DEF Split
<1> QED
  BY <1>1, <1>2

LEMMA ReadingClocked ==
  ASSUME NEW host \in Hosts, NEW r \in Readings[host]
  PROVE  Clocked(r) /\ Complete(r) /\ r.gpus = Empty.gpus
<1>1. PICK c \in Cpuacct \cup {None}, m \in Memory \cup {None}, p \in Pids \cup {None} :
        r = groups_stats(c, m, p)
  BY ReadingIs
<1> DEFINE x == [cpu |-> ReadTotal(c), cpus |-> ReadSplit(c),
                 gauge |-> [g \in Gauges |-> ReadGauge(g, m, p)],
                 grown |-> [g \in Growing |-> ReadFailures(g, m, p)],
                 time |-> None, gpus |-> Empty.gpus]
<1>2. r = Update(x, Empty)
  BY <1>1 DEF groups_stats
<1>3. Timepiece(x.cpu) /\ x.cpu = ReadTotal(c)
  BY TotalRead
<1>4. PICK k \in [Cpus -> Number] : x.cpus = Split(k) /\ (c = None => Used(k) = {})
  BY SplitRead
<1>5. x.gpus = Empty.gpus /\ Empty.gpus = [n \in {} |-> Gpu(None, NoGauge)]
  BY DEF Empty
<1> HIDE DEF x
<1>6. Clocked(x) /\ Clocks(x) = k
  <2>1. Clocks(x) = k
    BY <1>4, ClocksAre
  <2> QED
    BY <1>3, <1>4, <2>1 DEF Clocked
<1>7. Clocked(Update(x, Empty))
  BY <1>6, EmptyClocked, UpdateClocks
<1>8. Update(x, Empty).gpus = Empty.gpus
  BY <1>5 DEF Update, GpusUpdate
<1>9. Complete(r)
  <2> DEFINE both == [i \in Cpus |-> max_none(Clocks(x)[i], Clocks(Empty)[i])]
  <2>1. /\ r.cpu.system = max_none(x.cpu.system, None) /\ both \in [Cpus -> Number]
        /\ r.cpu.usage = max_none(max_none(max_none(x.cpu.usage, None), Busy(r.cpu.system, r.cpu.user)), Spent(both))
    BY <1>2, <1>6, EmptyClocked, UpdateClocks
  <2>2. both = k /\ Clocks(r) = both
    <3>1. Clocks(r) = both
      BY <1>2, <1>6, EmptyClocked, UpdateClocks
    <3>2. both = k
      BY <1>6, EmptyClocked DEF max_none
    <3> QED
      BY <3>1, <3>2
  <2> HIDE DEF both
  <2>3. CASE c = None
    <3>1. x.cpu.system = None /\ x.cpu.usage = None /\ Spent(k) = None
      BY <1>3, <1>4, <2>3, TotalRead, NoCpuIs DEF Spent
    <3> QED
      BY <2>1, <2>2, <3>1 DEF Complete, max_none, Busy
  <2>4. CASE c # None
    <3>1. x.cpu.system # None /\ x.cpu.usage # None /\ x.cpu.usage \in Number
      BY <1>3, <2>4, TotalRead DEF Timepiece
    <3>2. Spent(k) \in Number /\ Clocked(r) /\ r.cpu.system # None
      BY <1>2, <1>7, <2>1, <3>1, SpentIs DEF max_none
    <3>3. Busy(r.cpu.system, r.cpu.user) \in Number
      BY <3>2, BusyIs DEF Clocked, Timepiece
    <3>4. \A a \in Number, b \in Number : a # None => max_none(a, b) \in Number /\ max_none(a, b) # None
      BY NoneAssumption DEF max_none, Number
    <3>5. max_none(x.cpu.usage, None) = x.cpu.usage
      BY DEF max_none
    <3> QED
      BY <2>1, <2>2, <3>1, <3>2, <3>3, <3>4, <3>5 DEF Complete
  <2> QED
    BY <2>3, <2>4
<1> QED
  BY <1>2, <1>7, <1>8, <1>9

LEMMA TimedClocked ==
  ASSUME NEW r, Clocked(r), Complete(r), r.gpus = Empty.gpus, NEW t
  PROVE  Clocked(Timed(r, t)) /\ Complete(Timed(r, t)) /\ Timed(r, t).gpus = Empty.gpus
<1> DEFINE e == [Empty EXCEPT !.time = t]
           u == Update(r, e)
           both == [c \in Cpus |-> max_none(Clocks(r)[c], Clocks(e)[c])]
<1>1. e.cpu = Empty.cpu /\ e.cpus = Empty.cpus /\ e.gpus = Empty.gpus
  BY DEF Empty
<1>2. Clocks(e) = Clocks(Empty) /\ Clocked(e)
  <2>1. Clocks(e) = Clocks(Empty)
    BY <1>1 DEF Clocks
  <2> QED
    BY <1>1, <2>1, EmptyClocked DEF Clocked
<1>3. u.gpus = Empty.gpus
  BY <1>1 DEF Update, GpusUpdate, Empty
<1>4. both = Clocks(r)
  <2>1. Clocks(r) = [c \in Cpus |-> Clocks(r)[c]]
    BY DEF Clocks
  <2>2. \A c \in Cpus : max_none(Clocks(r)[c], Clocks(e)[c]) = Clocks(r)[c]
    BY <1>2, EmptyClocked DEF max_none
  <2> QED
    BY <2>1, <2>2
<1> HIDE DEF e
<1>5. /\ Clocks(u) = both /\ Clocked(u)
      /\ u.cpu.system = max_none(r.cpu.system, None)
      /\ u.cpu.usage = max_none(max_none(max_none(r.cpu.usage, None), Busy(u.cpu.system, u.cpu.user)), Spent(both))
  BY <1>1, <1>2, EmptyClocked, UpdateClocks
<1> HIDE DEF u, both
<1>6. Complete(u)
  <2>1. u.cpu.system = r.cpu.system /\ max_none(r.cpu.usage, None) = r.cpu.usage
    BY <1>5 DEF max_none
  <2>2. CASE r.cpu.system = None
    BY <1>4, <1>5, <2>1, <2>2 DEF Complete, max_none, Busy
  <2>3. CASE r.cpu.system # None
    <3>1. /\ r.cpu.usage \in Number /\ r.cpu.usage # None /\ Spent(both) \in Number
          /\ Busy(u.cpu.system, u.cpu.user) \in Number
      BY <1>4, <1>5, <2>3, SpentIs, BusyIs DEF Complete, Clocked, Timepiece
    <3>2. \A a \in Number, b \in Number : a # None => max_none(a, b) \in Number /\ max_none(a, b) # None
      BY NoneAssumption DEF max_none, Number
    <3> QED
      BY <1>5, <2>1, <2>3, <3>1, <3>2 DEF Complete
  <2> QED
    BY <2>2, <2>3
<1> QED
  BY <1>3, <1>5, <1>6 DEF Timed, e, u

---------------------------------------------------------------------------
(* The whole record *)

\* What is kept, beside what was read: the total covers what it is made up of.
Clock(s, m) ==
  /\ Clocked(s)
  /\ \A c \in Cpus : m[c] = Clocks(s)[c]
  /\ m["usage"] \in Number /\ m["system"] = s.cpu.system /\ m["user"] = s.cpu.user
  /\ m["usage"] = None <=> m["system"] = None
  /\ s.cpu.usage = max_none(max_none(m["usage"], Busy(m["system"], m["user"])), Spent(Clocks(s)))

\* Of graphics processors only the names are kept.
Graphics(s) ==
  /\ DOMAIN s.gpus \subseteq Gpus
  /\ s.gpus = [n \in DOMAIN s.gpus |-> [name |-> s.gpus[n].name, gauge |-> NoGauge]]
  /\ \A n \in DOMAIN s.gpus : s.gpus[n].name \in Names \cup {None}

CInv == /\ Clock(result, most["worker"]) /\ Clock(session, most["observer"])
        /\ Graphics(result) /\ session.gpus = Empty.gpus
        /\ ended => \A g \in Gauges : result.gauge[g].now = None

LEMMA ClockParts ==
  ASSUME NEW s, NEW m, Clock(s, m)
  PROVE  /\ s.cpu.usage \in Number /\ Spent(Clocks(s)) \in Number
         /\ s.cpu.system \in Number /\ s.cpu.user \in Number
         /\ m["usage"] \in Number /\ m["system"] \in Number /\ m["user"] \in Number
         /\ m["user"] = None <=> m["system"] = None
         /\ Busy(m["system"], m["user"]) \in Number
         /\ \A c \in Cpus : m[c] \in Number
         /\ Whole(s)
<1>1. /\ s.cpu.usage \in Number /\ s.cpu.system \in Number /\ s.cpu.user \in Number
      /\ Clocks(s) \in [Cpus -> Number] /\ \A c \in Cpus : m[c] = Clocks(s)[c]
      /\ m["usage"] \in Number /\ m["system"] = s.cpu.system /\ m["user"] = s.cpu.user
      /\ s.cpu.user = None <=> s.cpu.system = None
      /\ s.cpu.usage = max_none(max_none(m["usage"], Busy(m["system"], m["user"])), Spent(Clocks(s)))
  BY DEF Clock, Clocked, Timepiece
<1>2. Spent(Clocks(s)) \in Number /\ Busy(m["system"], m["user"]) \in Number
  BY <1>1, SpentIs, BusyIs
<1>3. Whole(s)
  <2>1. \A a, b, c \in Number :
          max_none(max_none(a, b), c) = max_none(max_none(max_none(max_none(a, b), c), b), c)
    BY NoneAssumption DEF max_none, Number
  <2> QED
    BY <1>1, <1>2, <2>1 DEF Whole
<1> QED
  BY <1>1, <1>2, <1>3

\* Two totals, each the largest of what was read, of system and user together and
\* of the sum, make up a third; what it is made up of covers what they were.
LEMMA Totals ==
  ASSUME NEW mu \in Number, NEW mb \in Number, NEW k \in Number, NEW u \in Number,
         NEW busy \in Number, Covers(busy, mb), NEW all \in Number, Covers(all, k)
  PROVE  max_none(max_none(max_none(max_none(max_none(mu, mb), k), u), busy), all)
           = max_none(max_none(max_none(mu, u), busy), all)
<1>1. \A a, b \in Number : max_none(a, b) \in Number /\ max_none(a, b) = max_none(b, a)
  BY NoneAssumption DEF max_none, Number
<1>2. \A a, b, c \in Number : max_none(max_none(a, b), c) = max_none(a, max_none(b, c))
  BY NoneAssumption DEF max_none, Number
<1>3. max_none(k, all) = all /\ max_none(mb, busy) = busy
  BY NoneAssumption DEF max_none, Number, Covers
<1> DEFINE x == max_none(mu, u)
<1>4. max_none(max_none(max_none(mu, mb), k), u) = max_none(max_none(x, mb), k)
  BY <1>1, <1>2
<1>5. x \in Number
  BY <1>1
<1> HIDE DEF x
<1>6. max_none(max_none(max_none(max_none(x, mb), k), busy), all)
        = max_none(max_none(max_none(x, mb), busy), max_none(k, all))
  <2>1. max_none(x, mb) \in Number
    BY <1>1, <1>5
  <2>2. max_none(max_none(max_none(x, mb), k), busy) = max_none(max_none(max_none(x, mb), busy), k)
    BY <1>1, <1>2, <2>1
  <2>3. max_none(max_none(x, mb), busy) \in Number
    BY <1>1, <2>1
  <2> QED
    BY <1>2, <2>2, <2>3
<1>7. max_none(max_none(x, mb), busy) = max_none(x, busy)
  BY <1>2, <1>3, <1>5
<1> QED
  BY <1>3, <1>4, <1>6, <1>7 DEF x

LEMMA TimesIn ==
  ASSUME NEW r
  PROVE  /\ {"usage", "system", "user"} \cup Cpus \subseteq Quantities \ {"time"}
         /\ Quantity(r, "usage") = {r.cpu.usage} /\ Quantity(r, "system") = {r.cpu.system}
         /\ Quantity(r, "user") = {r.cpu.user}
         /\ \A c \in Cpus : Quantity(r, c) = IF c \in DOMAIN r.cpus THEN {r.cpus[c].usage} ELSE {}
<1>1. /\ {"usage", "system", "user"} \cup Cpus \subseteq Quantities \ {"time"}
      /\ \A c \in Cpus : c \notin {"usage", "system", "user", "time"} \cup Gauges
      /\ \A q \in {"usage", "system", "user"} : q \notin Cpus /\ q \notin Gauges
  BY FieldsAssumption DEF Quantities, Gauges
<1>2. Quantity(r, "usage") = {r.cpu.usage}
  BY <1>1 DEF Quantity
<1>3. Quantity(r, "system") = {r.cpu.system}
  BY <1>1 DEF Quantity
<1>4. Quantity(r, "user") = {r.cpu.user}
  BY <1>1 DEF Quantity
<1>5. ASSUME NEW c \in Cpus
      PROVE  Quantity(r, c) = IF c \in DOMAIN r.cpus THEN {r.cpus[c].usage} ELSE {}
  BY <1>1, <1>5 DEF Quantity
<1> QED
  BY <1>1, <1>2, <1>3, <1>4, <1>5

LEMMA LargestOfTwo ==
  ASSUME NEW a \in Number, NEW b \in Number
  PROVE  Largest({a, b}) = max_none(a, b) /\ Largest({a}) = a
<1>1. {a, b, b} = {a, b} /\ {a, a, a} = {a}
  OBVIOUS
<1>2. Largest({a, b, b}) = max_none(max_none(a, b), b) /\ Largest({a, a, a}) = max_none(max_none(a, a), a)
  BY LargestOfThree
<1>3. max_none(max_none(a, b), b) = max_none(a, b) /\ max_none(max_none(a, a), a) = a
  BY NoneAssumption DEF max_none, Number
<1> QED
  BY <1>1, <1>2, <1>3

\* A record put together with another one, and the larger of what was read for both.
LEMMA TakenDown ==
  ASSUME NEW s, NEW m, NEW r, Clock(s, m), Clocked(r), NEW n,
         \E x \in Number :
           /\ n["usage"] = max_none(m["usage"], x)
           /\ x = None <=> r.cpu.system = None
           /\ max_none(max_none(x, Busy(r.cpu.system, r.cpu.user)), Spent(Clocks(r)))
                = max_none(max_none(r.cpu.usage, Busy(r.cpu.system, r.cpu.user)), Spent(Clocks(r))),
         n["system"] = max_none(m["system"], r.cpu.system),
         n["user"] = max_none(m["user"], r.cpu.user),
         \A c \in Cpus : n[c] = max_none(m[c], Clocks(r)[c])
  PROVE  Clock(Update(s, r), n)
<1> DEFINE u == Update(s, r)
           k == Clocks(s)
           l == Clocks(r)
           both == [c \in Cpus |-> max_none(k[c], l[c])]
           mb == Busy(m["system"], m["user"])
           rb == Busy(r.cpu.system, r.cpu.user)
           busy == Busy(u.cpu.system, u.cpu.user)
<1>1. /\ Clocks(u) = both /\ Clocked(u) /\ both \in [Cpus -> Number]
      /\ u.cpu.system = max_none(s.cpu.system, r.cpu.system)
      /\ u.cpu.user = max_none(s.cpu.user, r.cpu.user)
      /\ u.cpu.usage = max_none(max_none(max_none(s.cpu.usage, r.cpu.usage), busy), Spent(both))
  <2>1. Clocked(s)
    BY DEF Clock
  <2> QED
    BY <2>1, UpdateClocks
<1>2. k \in [Cpus -> Number] /\ l \in [Cpus -> Number] /\ \A c \in Cpus : m[c] = k[c]
  BY DEF Clock, Clocked
<1>3. \A c \in Cpus : Covers(both[c], k[c]) /\ Covers(both[c], l[c])
  BY <1>2, MaxOfTwo
<1> HIDE DEF both, k, l, u
<1>4. Covers(Spent(both), Spent(k)) /\ Covers(Spent(both), Spent(l))
  BY <1>1, <1>2, <1>3, SpentGrows
<1>5. Spent(both) \in Number /\ Spent(k) \in Number /\ Spent(l) \in Number
  BY <1>1, <1>2, SpentIs
<1>6. PICK x \in Number :
        /\ n["usage"] = max_none(m["usage"], x)
        /\ x = None <=> r.cpu.system = None
        /\ max_none(max_none(x, rb), Spent(l)) = max_none(max_none(r.cpu.usage, rb), Spent(l))
  BY DEF l
<1>7. /\ m["usage"] \in Number /\ m["system"] \in Number /\ m["user"] \in Number
      /\ m["user"] = None <=> m["system"] = None
      /\ m["usage"] = None <=> m["system"] = None
      /\ r.cpu.usage \in Number /\ r.cpu.system \in Number /\ r.cpu.user \in Number
      /\ r.cpu.user = None <=> r.cpu.system = None
      /\ s.cpu.usage = max_none(max_none(m["usage"], mb), Spent(k))
      /\ m["system"] = s.cpu.system /\ m["user"] = s.cpu.user
  BY ClockParts DEF Clock, Clocked, Timepiece, k
<1>8. Covers(busy, mb) /\ Covers(busy, rb)
  BY <1>1, <1>7, BusyGrows
<1>9. mb \in Number /\ rb \in Number /\ busy \in Number
  BY <1>1, <1>7, BusyIs DEF Clocked, Timepiece
<1> DEFINE mu == m["usage"]
           ru == r.cpu.usage
           sum == Spent(both)
<1> HIDE DEF mb, rb, busy
<1>10. u.cpu.usage = max_none(max_none(max_none(mu, ru), busy), sum)
  <2> DEFINE old == Spent(k)
  <2>1. u.cpu.usage = max_none(max_none(max_none(max_none(max_none(mu, mb), old), ru), busy), sum)
    BY <1>1, <1>7
  <2>2. /\ mu \in Number /\ ru \in Number /\ sum \in Number /\ old \in Number /\ Covers(sum, old)
    BY <1>4, <1>5, <1>7
  <2> HIDE DEF mu, ru, sum, old
  <2>3. max_none(max_none(max_none(max_none(max_none(mu, mb), old), ru), busy), sum)
          = max_none(max_none(max_none(mu, ru), busy), sum)
    BY <1>8, <1>9, <2>2, Totals
  <2> QED
    BY <2>1, <2>3
<1>11. max_none(max_none(max_none(mu, ru), busy), sum) = max_none(max_none(max_none(mu, x), busy), sum)
  <2>1. \A a, b \in Number : max_none(a, b) \in Number /\ max_none(a, b) = max_none(b, a)
    BY NoneAssumption DEF max_none, Number
  <2>2. \A a, b, c \in Number : max_none(max_none(a, b), c) = max_none(a, max_none(b, c))
    BY NoneAssumption DEF max_none, Number
  <2>3. max_none(Spent(l), sum) = sum /\ max_none(rb, busy) = busy
    BY <1>4, <1>5, <1>8, <1>9, NoneAssumption DEF max_none, Number, Covers
  <2> DEFINE l2 == Spent(l)
  <2>4. ASSUME NEW y \in Number
        PROVE  max_none(max_none(max_none(mu, y), busy), sum)
                 = max_none(mu, max_none(busy, max_none(max_none(max_none(y, rb), l2), sum)))
    <3> HIDE DEF mu, l2, sum
    <3>1. mu \in Number /\ l2 \in Number /\ sum \in Number /\ max_none(l2, sum) = sum
      BY <1>5, <1>7, <2>3 DEF mu, l2, sum
    <3>2. max_none(max_none(max_none(y, rb), l2), sum) = max_none(max_none(y, rb), sum)
      <4>1. max_none(y, rb) \in Number
        BY <1>9, <2>1
      <4> QED
        BY <2>2, <3>1, <4>1
    <3>3. max_none(busy, max_none(max_none(y, rb), sum)) = max_none(max_none(y, busy), sum)
      <4>1. max_none(y, rb) \in Number
        BY <1>9, <2>1
      <4>2. max_none(busy, max_none(max_none(y, rb), sum)) = max_none(max_none(max_none(y, rb), busy), sum)
        BY <1>9, <2>1, <2>2, <3>1, <4>1
      <4>3. max_none(max_none(y, rb), busy) = max_none(y, busy)
        BY <1>9, <2>2, <2>3
      <4> QED
        BY <4>2, <4>3
    <3>4. max_none(max_none(max_none(mu, y), busy), sum) = max_none(mu, max_none(max_none(y, busy), sum))
      <4>1. max_none(y, busy) \in Number /\ max_none(max_none(mu, y), busy) = max_none(mu, max_none(y, busy))
        BY <1>9, <2>1, <2>2, <3>1
      <4> QED
        BY <2>2, <3>1, <4>1
    <3> QED
      BY <3>2, <3>3, <3>4
  <2>5. max_none(max_none(ru, rb), l2) = max_none(max_none(x, rb), l2)
    BY <1>6
  <2> HIDE DEF mu, l2, sum
  <2>6. ru \in Number
    BY <1>7
  <2> QED
    BY <2>4, <2>5, <2>6
<1>12. u.cpu.usage = max_none(max_none(n["usage"], busy), sum)
  BY <1>6, <1>10, <1>11
<1>13. n["usage"] \in Number /\ (n["usage"] = None <=> n["system"] = None)
  <2>1. \A a, b \in Number : max_none(a, b) \in Number /\ (max_none(a, b) = None <=> a = None /\ b = None)
    BY NoneAssumption DEF max_none, Number
  <2> QED
    BY <1>6, <1>7, <2>1
<1>14. n["system"] = u.cpu.system /\ n["user"] = u.cpu.user
  BY <1>1, <1>7
<1>15. \A c \in Cpus : n[c] = Clocks(u)[c]
  BY <1>1, <1>2 DEF both, l
<1>16. u.cpu.usage = max_none(max_none(n["usage"], Busy(n["system"], n["user"])), Spent(Clocks(u)))
  BY <1>1, <1>12, <1>14 DEF busy
<1> QED
  BY <1>1, <1>13, <1>14, <1>15, <1>16 DEF Clock, u

\* A reading is taken down.
LEMMA ReadClock ==
  ASSUME NEW s, NEW m, NEW r, Clock(s, m), Clocked(r), Complete(r)
  PROVE  Clock(Update(s, r), [q \in Quantities |-> Largest({m[q]} \cup Quantity(r, q))])
<1> DEFINE n == [q \in Quantities |-> Largest({m[q]} \cup Quantity(r, q))]
<1>1. /\ m["usage"] \in Number /\ m["system"] \in Number /\ m["user"] \in Number
      /\ \A c \in Cpus : m[c] \in Number
      /\ r.cpu.usage \in Number /\ r.cpu.system \in Number /\ r.cpu.user \in Number
      /\ Clocks(r) \in [Cpus -> Number] /\ r.cpus = Split(Clocks(r))
  BY ClockParts DEF Clocked, Timepiece
<1>2. /\ n["usage"] = max_none(m["usage"], r.cpu.usage) /\ n["system"] = max_none(m["system"], r.cpu.system)
      /\ n["user"] = max_none(m["user"], r.cpu.user)
  <2>1. /\ n["usage"] = Largest({m["usage"], r.cpu.usage}) /\ n["system"] = Largest({m["system"], r.cpu.system})
        /\ n["user"] = Largest({m["user"], r.cpu.user})
    <3>1. /\ {m["usage"]} \cup Quantity(r, "usage") = {m["usage"], r.cpu.usage}
          /\ {m["system"]} \cup Quantity(r, "system") = {m["system"], r.cpu.system}
          /\ {m["user"]} \cup Quantity(r, "user") = {m["user"], r.cpu.user}
          /\ "usage" \in Quantities /\ "system" \in Quantities /\ "user" \in Quantities
      BY TimesIn
    <3> QED
      BY <3>1
  <2> QED
    BY <1>1, <2>1, LargestOfTwo
<1>3. ASSUME NEW c \in Cpus PROVE n[c] = max_none(m[c], Clocks(r)[c])
  <2>1. c \in Quantities /\ Quantity(r, c) = IF c \in DOMAIN r.cpus THEN {r.cpus[c].usage} ELSE {}
    BY TimesIn
  <2>2. CASE c \in DOMAIN r.cpus
    <3>1. {m[c]} \cup Quantity(r, c) = {m[c], Clocks(r)[c]}
      BY <2>1, <2>2 DEF Clocks
    <3>2. n[c] = Largest({m[c], Clocks(r)[c]})
      BY <2>1, <3>1
    <3> QED
      BY <1>1, <3>2, LargestOfTwo
  <2>3. CASE c \notin DOMAIN r.cpus
    <3>1. Clocks(r)[c] = None /\ {m[c]} \cup Quantity(r, c) = {m[c]}
      BY <2>1, <2>3 DEF Clocks
    <3>2. n[c] = Largest({m[c]})
      BY <2>1, <3>1
    <3>3. n[c] = m[c]
      BY <1>1, <3>2, LargestOfTwo
    <3> QED
      BY <3>1, <3>3 DEF max_none
  <2> QED
    BY <2>2, <2>3
<1>4. r.cpu.usage = None <=> r.cpu.system = None
  BY DEF Complete
<1> HIDE DEF n
<1>5. Clock(Update(s, r), n)
  BY <1>1, <1>2, <1>3, <1>4, TakenDown
<1> QED
  BY <1>5 DEF n

---------------------------------------------------------------------------
(* Graphics processors *)

LEMMA MinIs ==
  ASSUME NEW S \in SUBSET Nat, S # {}
  PROVE  Min(S) \in S
<1>1. PICK R : IsWellFoundedOn(R, Nat) /\ \A y, x \in Nat : y < x => <<y, x>> \in R
  <2>1. \A y, x \in Nat : y < x => <<y, x>> \in OpToRel(<, Nat)
    BY Zenon DEF OpToRel
  <2> QED
    BY <2>1, NatLessThanWellFounded, Zenon
<1>2. PICK x \in S : \A y \in S : ~(<<y, x>> \in R)
  <2> DEFINE N == Nat
  <2>1. S \subseteq N /\ S # {} /\ IsWellFoundedOn(R, N)
    BY <1>1
  <2> HIDE DEF N
  <2> QED
    BY ONLY <2>1, WFMin
<1>3. ASSUME NEW y \in S PROVE x <= y
  <2>1. x \in Nat /\ y \in Nat /\ ~(y < x)
    BY <1>1, <1>2
  <2> QED
    BY <2>1
<1> QED
  BY <1>3 DEF Min

\* Only a name is kept of a reading, of the first processor.
LEMMA GraphicsKept ==
  ASSUME NEW a, NEW b, Graphics(a), DOMAIN b.gpus \subseteq Gpus,
         \A n \in DOMAIN b.gpus : b.gpus[n].name \in Names \cup {None}
  PROVE  Graphics(Update(a, b))
<1> DEFINE u == Update(a, b)
<1>1. u.gpus = GpusUpdate(a.gpus, b.gpus)
  BY DEF Update
<1>2. CASE DOMAIN b.gpus = {}
  <2>1. u.gpus = a.gpus
    BY <1>1, <1>2 DEF GpusUpdate
  <2> HIDE DEF u
  <2> QED
    BY <2>1 DEF Graphics, u
<1>3. CASE DOMAIN b.gpus # {}
  <2> DEFINE n == Min(DOMAIN b.gpus)
             old == IF n \in DOMAIN a.gpus THEN a.gpus[n] ELSE Gpu(None, NoGauge)
  <2>1. n \in DOMAIN b.gpus /\ n \in Gpus
    BY <1>3, MinIs, NumberAssumption
  <2>2. u.gpus = [m \in DOMAIN a.gpus \cup {n} |->
                    IF m = n THEN [old EXCEPT !.name = first_none(@, b.gpus[n].name)] ELSE a.gpus[m]]
    BY <1>1, <1>3 DEF GpusUpdate
  <2>3. old = [name |-> old.name, gauge |-> NoGauge] /\ old.name \in Names \cup {None}
    <3>1. CASE n \in DOMAIN a.gpus
      BY <3>1 DEF Graphics
    <3>2. CASE n \notin DOMAIN a.gpus
      BY <3>2 DEF Gpu
    <3> QED
      BY <3>1, <3>2
  <2> HIDE DEF n, old
  <2>4. [old EXCEPT !.name = first_none(@, b.gpus[n].name)]
          = [name |-> first_none(old.name, b.gpus[n].name), gauge |-> NoGauge]
    BY <2>3
  <2>5. first_none(old.name, b.gpus[n].name) \in Names \cup {None}
    BY <2>1, <2>3 DEF first_none
  <2>6. DOMAIN u.gpus = DOMAIN a.gpus \cup {n}
    BY <2>2
  <2>7. ASSUME NEW m \in DOMAIN u.gpus
        PROVE  u.gpus[m] = [name |-> u.gpus[m].name, gauge |-> NoGauge] /\ u.gpus[m].name \in Names \cup {None}
    <3>1. CASE m = n
      BY <2>2, <2>4, <2>5, <2>6, <3>1
    <3>2. CASE m # n
      <4>1. m \in DOMAIN a.gpus /\ u.gpus[m] = a.gpus[m]
        BY <2>2, <2>6, <2>7, <3>2
      <4> QED
        BY <4>1 DEF Graphics
    <3> QED
      BY <3>1, <3>2
  <2>8. u.gpus = [m \in DOMAIN u.gpus |-> u.gpus[m]]
    BY <2>2
  <2> HIDE DEF u
  <2>9. DOMAIN u.gpus \subseteq Gpus
    BY <2>1, <2>6 DEF Graphics
  <2> QED
    BY <2>7, <2>8, <2>9 DEF Graphics, u
<1> QED
  BY <1>2, <1>3

\* A reading of graphics processors has no time.
LEMMA GpuClock ==
  ASSUME NEW names \in [Gpus -> Names]
  PROVE  /\ \A s, m : Clock(s, m) => Clock(Update(s, gpu_stats(names)), m)
         /\ \A s : Graphics(s) => Graphics(Update(s, gpu_stats(names)))
<1> DEFINE r == gpu_stats(names)
<1>1. /\ r.cpu = Empty.cpu /\ r.cpus = Empty.cpus
      /\ r.gpus = [n \in Gpus |-> Gpu(names[n], Gauge(1, None))]
  BY DEF gpu_stats, Empty
<1> HIDE DEF r
<1>2. Clocked(r) /\ Clocks(r) = Clocks(Empty)
  BY <1>1, EmptyClocked DEF Clocked, Clocks
<1>3. /\ \A c \in Cpus : Clocks(r)[c] = None
      /\ r.cpu.usage = None /\ r.cpu.system = None /\ r.cpu.user = None /\ None \in Number
  BY <1>1, <1>2, EmptyClocked DEF Number
<1>4. ASSUME NEW s, NEW m, Clock(s, m) PROVE Clock(Update(s, r), m)
  <2>1. \A x : max_none(x, None) = x
    BY DEF max_none
  <2> QED
    BY <1>2, <1>3, <1>4, <2>1, TakenDown
<1>5. \A s : Graphics(s) => Graphics(Update(s, r))
  <2>1. DOMAIN r.gpus \subseteq Gpus /\ \A n \in DOMAIN r.gpus : r.gpus[n].name \in Names \cup {None}
    BY <1>1 DEF Gpu
  <2> QED
    BY <2>1, GraphicsKept
<1> QED
  BY <1>4, <1>5 DEF r

LEMMA NoGraphics ==
  ASSUME NEW a, NEW b, b.gpus = Empty.gpus
  PROVE  Update(a, b).gpus = a.gpus
<1>1. DOMAIN b.gpus = {}
  BY DEF Empty
<1> QED
  BY <1>1 DEF Update, GpusUpdate

---------------------------------------------------------------------------
(* The steps *)

LEMMA InitC == Init => CInv
<1> SUFFICES ASSUME Init PROVE CInv
  OBVIOUS
<1>1. /\ most["worker"] = [q \in Quantities |-> None] /\ most["observer"] = [q \in Quantities |-> None]
      /\ session = Empty /\ result = Empty /\ ~ended
  BY DEF Init
<1>2. Clock(Empty, [q \in Quantities |-> None])
  <2>1. {"usage", "system", "user"} \subseteq Quantities /\ Cpus \subseteq Quantities
    BY DEF Quantities
  <2> QED
    BY <2>1, EmptyClocked DEF Clock, Number, max_none, Busy
<1>3. Graphics(Empty)
  BY DEF Graphics, Empty
<1> QED
  BY <1>1, <1>2, <1>3 DEF CInv

\* The result is made up.
LEMMA MadeUpClock ==
  ASSUME KeptSound, PInv, CInv, NEW summary \in BOOLEAN, NEW took \in Number, NEW clock \in Number,
         MakeUp(summary, took, clock)
  PROVE  /\ Clock(result', most'["worker"]) /\ Graphics(result')
         /\ \A g \in Gauges : result'.gauge[g].now = None
<1> DEFINE own == Stopped(took)
           all == Summed(summary, took)
           mine == most["worker"]
           theirs == most["observer"]
           n == most'["worker"]
           r == Load(session)
<1>1. n = [q \in Quantities |->
         LET read == {mine[q]} \cup (IF summary THEN {theirs[q]} ELSE {}) IN
         IF q = "time" THEN first_none(Largest(read \cup {took}), clock) ELSE Largest(read)]
  BY DEF MakeUp, PInv
<1>2. ASSUME NEW q \in {"usage", "system", "user"} \cup Cpus
      PROVE  n[q] = Largest({mine[q]} \cup (IF summary THEN {theirs[q]} ELSE {}))
  <2>1. q \in Quantities /\ q # "time"
    BY TimesIn
  <2> QED
    BY <1>1, <2>1
<1>3. own.cpu = result.cpu /\ own.cpus = result.cpus /\ own.gpus = result.gpus
  BY StoppedIs
<1>4. Clock(own, mine) /\ Graphics(own)
  <2> HIDE DEF own
  <2>1. Clocks(own) = Clocks(result)
    BY <1>3 DEF Clocks
  <2>2. Clock(own, mine)
    BY <1>3, <2>1 DEF CInv, Clock, Clocked
  <2>3. Graphics(own)
    BY <1>3 DEF CInv, Graphics
  <2> QED
    BY <2>2, <2>3
<1>5. r.cpu = session.cpu /\ r.cpus = session.cpus /\ DOMAIN r.gpus = {}
  <2>1. Clocked(session) /\ Whole(session)
    BY ClockParts DEF CInv, Clock
  <2>2. DOMAIN session.gpus = {}
    BY DEF CInv, Empty
  <2>3. DOMAIN r.gpus = {}
    BY <2>2 DEF Load
  <2> QED
    BY <2>1, <2>3, LoadClocks
<1> HIDE DEF r
<1>6. Clocked(r) /\ Clocks(r) = Clocks(session)
  BY <1>5 DEF CInv, Clock, Clocked, Clocks
<1>7. /\ \A q \in {"usage", "system", "user"} \cup Cpus : mine[q] \in Number /\ theirs[q] \in Number
      /\ r.cpu.usage \in Number /\ r.cpu.system = theirs["system"] /\ r.cpu.user = theirs["user"]
      /\ Spent(Clocks(r)) \in Number /\ Busy(r.cpu.system, r.cpu.user) \in Number
      /\ r.cpu.usage = max_none(max_none(theirs["usage"], Busy(r.cpu.system, r.cpu.user)), Spent(Clocks(r)))
      /\ theirs["usage"] = None <=> theirs["system"] = None
      /\ \A c \in Cpus : Clocks(r)[c] = theirs[c]
  BY <1>5, <1>6, ClockParts DEF CInv, Clock
<1> HIDE DEF own, n
<1>8. Clock(all, n) /\ Graphics(all)
  <2>1. CASE ~summary
    <3>1. all = own /\ \A q \in {"usage", "system", "user"} \cup Cpus : n[q] = mine[q]
      <4>1. ASSUME NEW q \in {"usage", "system", "user"} \cup Cpus PROVE n[q] = mine[q]
        <5>1. n[q] = Largest({mine[q]})
          BY <1>2, <2>1
        <5> QED
          BY <1>7, <5>1, LargestOfTwo
      <4> QED
        BY <2>1, <4>1 DEF Summed, own
    <3> QED
      BY <1>4, <3>1 DEF Clock
  <2>2. CASE summary
    <3>1. all = Update(own, r)
      BY <2>2 DEF Summed, own, r
    <3>2. ASSUME NEW q \in {"usage", "system", "user"} \cup Cpus PROVE n[q] = max_none(mine[q], theirs[q])
      <4>1. n[q] = Largest({mine[q], theirs[q]})
        <5>1. {mine[q]} \cup {theirs[q]} = {mine[q], theirs[q]}
          OBVIOUS
        <5> QED
          BY <1>2, <2>2, <5>1
      <4> QED
        BY <1>7, <4>1, LargestOfTwo
    <3> HIDE DEF mine, theirs
    <3>3. max_none(max_none(theirs["usage"], Busy(r.cpu.system, r.cpu.user)), Spent(Clocks(r)))
            = max_none(max_none(r.cpu.usage, Busy(r.cpu.system, r.cpu.user)), Spent(Clocks(r)))
      <4>1. \A a, b, c \in Number : max_none(max_none(a, b), c) =
                                      max_none(max_none(max_none(max_none(a, b), c), b), c)
        BY NoneAssumption DEF max_none, Number
      <4> QED
        BY <1>7, <4>1
    <3>4. Clock(Update(own, r), n)
      <4>1. /\ n["usage"] = max_none(mine["usage"], theirs["usage"]) /\ theirs["usage"] \in Number
            /\ theirs["usage"] = None <=> r.cpu.system = None
            /\ n["system"] = max_none(mine["system"], r.cpu.system)
            /\ n["user"] = max_none(mine["user"], r.cpu.user)
            /\ \A c \in Cpus : n[c] = max_none(mine[c], Clocks(r)[c])
        BY <1>7, <3>2
      <4> QED
        BY <1>4, <1>6, <3>3, <4>1, TakenDown
    <3>5. Graphics(Update(own, r))
      BY <1>4, <1>5, GraphicsKept
    <3> QED
      BY <3>1, <3>4, <3>5
  <2> QED
    BY <2>1, <2>2
<1>9. /\ result'.cpu = all.cpu /\ result'.cpus = all.cpus /\ result'.gpus = all.gpus
      /\ \A g \in Gauges : result'.gauge[g].now = None
  <2>1. Sound(all)
    BY SummedSound
  <2>2. result' = MadeUp(all, clock)
    BY DEF MakeUp
  <2> HIDE DEF all
  <2> QED
    BY <2>1, <2>2, MadeUpIs
<1> HIDE DEF all
<1>10. Clock(result', n)
  <2>1. Clocks(result') = Clocks(all)
    BY <1>9 DEF Clocks
  <2> QED
    BY <1>8, <1>9, <2>1 DEF Clock, Clocked
<1>11. Graphics(result')
  BY <1>8, <1>9 DEF Graphics
<1> QED
  BY <1>9, <1>10, <1>11 DEF n

LEMMA NextC == KeptSound /\ PInv /\ CInv /\ [Next]_vars => CInv'
<1> SUFFICES ASSUME KeptSound, PInv, CInv, [Next]_vars PROVE CInv'
  OBVIOUS
<1>1. \A who \in {"observer", "worker"} : who \in DOMAIN most
  BY DEF PInv
<1>2. ASSUME NEW who \in {"observer", "worker"}, NEW r, Note(who, r)
      PROVE  /\ most'[who] = [q \in Quantities |-> Largest({most[who][q]} \cup Quantity(r, q))]
             /\ \A w \in {"observer", "worker"} \ {who} : most'[w] = most[w]
  BY <1>1, <1>2 DEF Note, PInv
<1>3. ASSUME NEW r \in Readings[mounts], NEW t \in Count, ObserverReads(Timed(r, t)) PROVE CInv'
  <2> DEFINE s == Timed(r, t)
  <2>1. Clocked(s) /\ Complete(s) /\ s.gpus = Empty.gpus
    <3>1. mounts \in Hosts
      BY DEF PInv
    <3> QED
      BY <3>1, ReadingClocked, TimedClocked
  <2> HIDE DEF s
  <2>2. /\ session' = Update(session, s) /\ Note("observer", s) /\ result' = result /\ ended' = ended
    BY <1>3 DEF ObserverReads, s
  <2>3. /\ most'["observer"] = [q \in Quantities |-> Largest({most["observer"][q]} \cup Quantity(s, q))]
        /\ most'["worker"] = most["worker"]
    BY <1>2, <2>2
  <2>4. Clock(Update(session, s), [q \in Quantities |-> Largest({most["observer"][q]} \cup Quantity(s, q))])
    BY <2>1, ReadClock DEF CInv
  <2>5. Update(session, s).gpus = Empty.gpus
    BY <2>1, NoGraphics DEF CInv
  <2> QED
    BY <2>2, <2>3, <2>4, <2>5 DEF CInv
<1>4. ASSUME NEW r \in Readings[mounts], WorkerReads(r) PROVE CInv'
  <2>1. Clocked(r) /\ Complete(r) /\ r.gpus = Empty.gpus
    BY ReadingClocked DEF PInv
  <2>2. result' = Update(result, r) /\ Note("worker", r) /\ session' = session /\ ~ended'
    BY <1>4 DEF WorkerReads
  <2>3. /\ most'["worker"] = [q \in Quantities |-> Largest({most["worker"][q]} \cup Quantity(r, q))]
        /\ most'["observer"] = most["observer"]
    BY <1>2, <2>2
  <2>4. Clock(Update(result, r), [q \in Quantities |-> Largest({most["worker"][q]} \cup Quantity(r, q))])
    BY <2>1, ReadClock DEF CInv
  <2>5. Graphics(Update(result, r))
    <3>1. DOMAIN r.gpus = {}
      BY <2>1 DEF Empty
    <3> QED
      BY <3>1, GraphicsKept DEF CInv
  <2> QED
    BY <2>2, <2>3, <2>4, <2>5 DEF CInv
<1>5. ASSUME NEW names \in [Gpus -> Names], GpuReads(names) PROVE CInv'
  BY <1>5, GpuClock DEF GpuReads, CInv
<1>6. ASSUME NEW summary \in BOOLEAN, NEW took \in File, NEW clock \in Count,
             MakeUp(summary, took, clock)
      PROVE  CInv'
  <2>1. took \in Number /\ clock \in Number
    BY FileNumbers
  <2>2. /\ Clock(result', most'["worker"]) /\ Graphics(result')
        /\ \A g \in Gauges : result'.gauge[g].now = None
    BY <1>6, <2>1, MadeUpClock
  <2>3. most'["observer"] = most["observer"] /\ session' = session
    BY <1>6 DEF MakeUp, PInv
  <2> QED
    BY <2>2, <2>3 DEF CInv
<1>7. CASE UNCHANGED vars
  <2>1. result' = result /\ session' = session /\ most' = most /\ ended' = ended
    BY <1>7 DEF vars
  <2>2. most'["worker"] = most["worker"] /\ most'["observer"] = most["observer"]
    BY <2>1
  <2> QED
    BY <2>1, <2>2 DEF CInv
<1> QED
  BY <1>3, <1>4, <1>5, <1>6, <1>7 DEF Next

LEMMA AccountsHold == Spec => [](KeptSound /\ PInv /\ CInv)
BY InitPeaks, NextPeaks, InitC, NextC, PTL DEF Spec

---------------------------------------------------------------------------
(* What it comes to *)

LEMMA RecordTypes ==
  ASSUME NEW s, NEW m, Sound(s), Clock(s, m), Graphics(s)
  PROVE  IsStats(s)
<1>1. s.cpu \in CpuType
  BY NoneAssumption DEF Clock, Clocked, Timepiece, CpuType, Number
<1>2. PartOf(s.cpus, Cpus, CpuType)
  <2> DEFINE k == Clocks(s)
  <2>1. s.cpus = Split(k) /\ k \in [Cpus -> Number] /\ None \in Number
    BY DEF Clock, Clocked, Number
  <2> HIDE DEF k
  <2>2. Used(k) \subseteq Cpus /\ Split(k) \in [Used(k) -> CpuType]
    BY <2>1 DEF Split, Used, CpuType
  <2> QED
    BY <2>1, <2>2 DEF PartOf, Split
<1>3. PartOf(s.gpus, Gpus, GpuType)
  BY NoGaugeIs DEF Graphics, PartOf, GpuType
<1> QED
  BY <1>1, <1>2, <1>3 DEF IsStats, Sound, IsRecord

LEMMA EmptyGraphics == ASSUME NEW s, s.gpus = Empty.gpus PROVE Graphics(s)
BY DEF Graphics, Empty

LEMMA NowBelowTop ==
  ASSUME NEW s, NEW m, Peaks(s, m)
  PROVE  \A g \in Gauges : s.gauge[g].now # None =>
           s.gauge[g].top # None /\ s.gauge[g].now <= s.gauge[g].top
BY DEF Peaks, Covers

LEMMA LoadedAsWritten ==
  ASSUME NEW s, NEW m, Peaks(s, m), Clock(s, m), Graphics(s)
  PROVE  Loads(s) /\ Load(s) = s
<1>1. Load(s).cpu = s.cpu /\ Load(s).cpus = s.cpus
  BY ClockParts, LoadClocks DEF Clock
<1>2. [g \in Gauges |-> Gauge(s.gauge[g].now, s.gauge[g].top)] = s.gauge
  <2>1. ASSUME NEW g \in Gauges
        PROVE  Gauge(s.gauge[g].now, s.gauge[g].top) = s.gauge[g]
    <3>1. /\ s.gauge[g] \in GaugeType /\ Covers(s.gauge[g].top, s.gauge[g].now)
      BY DEF Peaks, Sound
    <3>2. max_none(s.gauge[g].top, s.gauge[g].now) = s.gauge[g].top
      BY <3>1, NoneAssumption DEF GaugeType, Covers, max_none, Number
    <3> QED
      BY <3>1, <3>2 DEF Gauge, GaugeType
  <2>2. s.gauge = [g \in Gauges |-> s.gauge[g]]
    BY DEF Peaks, Sound
  <2> QED
    BY <2>1, <2>2
<1>3. [n \in DOMAIN s.gpus |-> Gpu(s.gpus[n].name, s.gpus[n].gauge)] = s.gpus
  <2>1. \A n \in DOMAIN s.gpus : s.gpus[n].gauge = NoGauge
    BY DEF Graphics
  <2>2. [n \in DOMAIN s.gpus |-> Gpu(s.gpus[n].name, s.gpus[n].gauge)] =
        [n \in DOMAIN s.gpus |-> [name |-> s.gpus[n].name, gauge |-> NoGauge]]
    BY <2>1 DEF Gpu
  <2> QED
    BY <2>2 DEF Graphics
<1>4. Load(s) = [cpu |-> s.cpu, cpus |-> s.cpus, gauge |-> s.gauge, grown |-> s.grown,
                 time |-> s.time, gpus |-> s.gpus]
  <2>1. Load(s) = [cpu |-> Load(s).cpu, cpus |-> Load(s).cpus, gauge |-> Load(s).gauge,
                   grown |-> Load(s).grown, time |-> Load(s).time, gpus |-> Load(s).gpus]
    BY DEF Load
  <2>2. Load(s).gauge = s.gauge /\ Load(s).grown = s.grown /\ Load(s).time = s.time /\ Load(s).gpus = s.gpus
    BY <1>2, <1>3 DEF Load
  <2> QED
    BY <1>1, <2>1, <2>2
<1>5. Loads(s)
  BY NoGaugeIs DEF Loads, Graphics
<1> QED
  BY <1>4, <1>5 DEF Peaks, Sound, IsRecord

LEMMA BookCovered ==
  ASSUME NEW s, NEW m, Clock(s, m), m["usage"] # None
  PROVE  LET split == {c \in Cpus : m[c] # None} IN
         s.cpu.usage = Largest({m["usage"], m["system"] + m["user"], MapThenSumSet(LAMBDA c : m[c], split)})
<1> DEFINE k == Clocks(s)
           split == {c \in Cpus : m[c] # None}
           busy == m["system"] + m["user"]
<1>1. split = Used(k)
  BY DEF Clock, Used
<1>2. m["usage"] \in Nat /\ k \in [Cpus -> Number]
  BY ClockParts DEF Number, Clock, Clocked
<1>3. Busy(m["system"], m["user"]) = busy /\ busy \in Nat
  <2>1. m["system"] \in Nat /\ m["user"] \in Nat
    BY ClockParts DEF Number, Clock
  <2>2. m["system"] # None
    BY DEF Clock
  <2> QED
    BY <2>1, <2>2 DEF Busy
<1>4. NatOn(k, split) /\ \A c \in split : k[c] = m[c]
  BY <1>1, <1>2, SpentIs DEF Clock, Used
<1> HIDE DEF split, k, busy
<1>5. SumOn(m, split) = SumOn(k, split) /\ SumOn(m, split) \in Nat
  BY <1>4, SumSame, SumNat
<1>6. s.cpu.usage = max_none(max_none(m["usage"], busy), Spent(k))
  BY <1>3 DEF Clock, k
<1>7. max_none(max_none(m["usage"], busy), Spent(k)) = max_none(max_none(m["usage"], busy), SumOn(m, split))
  <2>1. CASE Used(k) = {}
    <3>1. Spent(k) = None /\ SumOn(m, split) = 0
      BY <1>1, <2>1, SumEmpty DEF Spent
    <3> QED
      BY <1>2, <1>3, <3>1, NoneAssumption DEF max_none, Number
  <2>2. CASE Used(k) # {}
    BY <1>1, <1>5, <2>2 DEF Spent
  <2> QED
    BY <2>1, <2>2
<1>8. Largest({m["usage"], busy, SumOn(m, split)}) = max_none(max_none(m["usage"], busy), SumOn(m, split))
  BY <1>2, <1>3, <1>5, LargestOfThree DEF Number
<1>9. SumOn(m, split) = MapThenSumSet(LAMBDA c : m[c], split)
  BY Zenon DEF SumOn
<1> QED
  BY <1>6, <1>7, <1>8, <1>9 DEF split, busy

\* The types of what is kept, for any gauges, processors and readings; a present
\* value is never above the largest one, and a result that is made up has none.
THEOREM TypeCorrect == Spec => []TypeOK
<1>1. KeptSound /\ PInv /\ CInv => TypeOK
  <2> SUFFICES ASSUME KeptSound, PInv, CInv PROVE TypeOK
    OBVIOUS
  <2>1. IsStats(session) /\ IsStats(result)
    BY EmptyGraphics, RecordTypes DEF KeptSound, CInv
  <2>2. \A s \in {session, result} : \A g \in Gauges :
          s.gauge[g].now # None => s.gauge[g].top # None /\ s.gauge[g].now <= s.gauge[g].top
    BY NowBelowTop DEF PInv
  <2> QED
    BY <2>1, <2>2 DEF TypeOK, PInv, CInv
<1> QED
  BY <1>1, AccountsHold, PTL

\* Whoever reads, in whatever order, with whatever unreadable, and whenever the kernel
\* starts to count anew: the processor time kept is the largest of the totals read, of
\* the largest system and the largest user time together, and of the sum of the largest
\* times of each processor
\* (limits.py:157-168, 354-363).
THEOREM TimeAddsUp == Spec => []TimeIsCovered
<1>1. KeptSound /\ PInv /\ CInv => TimeIsCovered
  <2> SUFFICES ASSUME CInv PROVE TimeIsCovered
    OBVIOUS
  <2>1. \A b \in Books : Clock(b[1], b[2])
    BY DEF Books, CInv
  <2> QED
    BY <2>1, BookCovered DEF TimeIsCovered
<1> QED
  BY <1>1, AccountsHold, PTL

\* What the worker writes can be read by everyone who gets it, and reading gives back
\* what was written, to the observer's summary, too (limits.py:141-168, 313-352).
THEOREM ResultsCanBeRead == Spec => []ResultLoads
<1>1. KeptSound /\ PInv /\ CInv => ResultLoads
  BY EmptyGraphics, LoadedAsWritten DEF PInv, CInv, ResultLoads
<1> QED
  BY <1>1, AccountsHold, PTL

=============================================================================
