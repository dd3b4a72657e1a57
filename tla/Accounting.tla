----------------------------- MODULE Accounting -----------------------------
(***************************************************************************)
(* How statistics of a task come about: the observer puts readings of the  *)
(* session's control groups together (SessionRegistry.stats), the worker   *)
(* readings of the container's groups and of the graphics processors       *)
(* (stage0), and in the end what the observer had, which travels as JSON   *)
(* in the summary that stage2 writes.                                      *)
(*                                                                         *)
(* A reading is any the kernel can give: groups may be made anew, so that  *)
(* counters start from zero again, and any file may be unreadable.         *)
(***************************************************************************)
EXTENDS Stats

CONSTANTS MaxCount, \* bound: values of the kernel's counters and gauges
          Names,    \* of graphics processors
          Hosts     \* the sets of controllers that a machine may have mounted

ASSUME NumberAssumption == MaxCount \in Nat /\ Gpus \subseteq Nat /\ IsFiniteSet(Cpus)
ASSUME NoneAssumption   == None \notin Nat \cup Names

\* Processors have names of their own.
ASSUME FieldsAssumption ==
  Cpus \cap ({"usage", "system", "user", "time"} \cup Gauges \cup Growing) = {}

VARIABLES mounts,   \* mount_points of the machine's ControlGroupSystem
          session,  \* SessionRegistry.session_stats of the session
          result,   \* result.stats of stage0
          ended,    \* the result has been made up
          most      \* history: the largest values read, by who read them

vars == <<mounts, session, result, ended, most>>

---------------------------------------------------------------------------
\* What the files of a group say, each a number or None if it cannot be read.
\* pids.current is always a number: groups_stats lets what its reading raises
\* pass, and then there is no reading.
Count   == 0 .. MaxCount
File    == Count \cup {None}
Cpuacct == [usage : File, stat : [system : Count, user : Count] \cup {None},
            percpu : [Cpus -> Count] \cup {None}]
Memory  == [usage : File, max_usage : File, memsw : File, max_memsw : File, failcnt : File]
Pids    == [current : Count, events : File]

\* groups_stats, of a group that may not be there (None).  A file that cannot be read
\* leaves its field None, or 0 for processor time; so does a field that is reckoned
\* from another one that is missing.
ReadTotal(c) ==
  IF c = None THEN NoCpu
  ELSE IF c.stat = None THEN Cpu(first_none(c.usage, 0), 0, 0)
  ELSE Cpu(first_none(c.usage, 0), c.stat.system, c.stat.user)

ReadSplit(c) ==
  IF c = None \/ c.percpu = None THEN Empty.cpus
  ELSE [i \in Cpus |-> Cpu(c.percpu[i], None, None)]

Beyond(a, b) == IF a <= b THEN 0 ELSE a - b
ReadMemory(m) ==
  LET top  == IF None \in {m.usage, m.max_usage} THEN None ELSE max_none(m.usage, m.max_usage)
      swap == IF None \in {m.usage, m.memsw} THEN None ELSE Beyond(m.memsw, m.usage)
      both == IF None \in {swap, top, m.max_memsw} THEN None
              ELSE max_none(swap, Beyond(m.max_memsw, top))
  IN [memory |-> [now |-> m.usage, top |-> top], swap |-> [now |-> swap, top |-> both]]

ReadGauge(g, m, p) ==
  CASE g = "pids" -> IF p = None THEN NoGauge ELSE [now |-> p.current, top |-> None]
    [] OTHER      -> IF m = None THEN NoGauge ELSE ReadMemory(m)[g]  \* memory, swap

ReadFailures(g, m, p) ==
  IF g = "pids.events" THEN (IF p = None THEN None ELSE p.events)
  ELSE (IF m = None THEN None ELSE m.failcnt)

groups_stats(c, m, p) ==
  Update([cpu |-> ReadTotal(c), cpus |-> ReadSplit(c),
          gauge |-> [g \in Gauges |-> ReadGauge(g, m, p)],
          grown |-> [g \in Growing |-> ReadFailures(g, m, p)],
          time |-> None, gpus |-> Empty.gpus], Empty)

\* A group is read only if the process has one and its controller is mounted.
Given(host, c, files) == {None} \cup (IF c \in host THEN files ELSE {})
Readings ==
  [host \in Hosts |->
     {groups_stats(c, m, p) : c \in Given(host, "cpuacct", Cpuacct),
                              m \in Given(host, "memory", Memory), p \in Given(host, "pids", Pids)}]

\* gpu_stats loads what nvidia-smi says.
gpu_stats(names) ==
  [Empty EXCEPT !.gpus = [n \in Gpus |-> Gpu(names[n], Gauge(1, None))]]

\* Session.stats adds the time since the session was made.
Timed(stats, t) == Update(stats, [Empty EXCEPT !.time = t])

---------------------------------------------------------------------------
\* What a reference keeps: for each quantity, the largest number read.
Number         == Nat \cup {None}
Largest(set)   == LET n == set \ {None} IN IF n = {} THEN None ELSE Max(n)
Quantities     == {"usage", "system", "user", "time"} \cup Cpus \cup Gauges \cup Growing
Quantity(r, q) ==
  CASE q = "usage"   -> {r.cpu.usage}
    [] q = "system"  -> {r.cpu.system}
    [] q = "user"    -> {r.cpu.user}
    [] q = "time"    -> {r.time}
    [] q \in Cpus    -> IF q \in DOMAIN r.cpus THEN {r.cpus[q].usage} ELSE {}
    [] q \in Gauges  -> {r.gauge[q].now, r.gauge[q].top}
    [] OTHER         -> {r.grown[q]}  \* in Growing
Note(who, r) ==
  most' = [most EXCEPT ![who] = [q \in Quantities |-> Largest({@[q]} \cup Quantity(r, q))]]

Init ==
  /\ mounts \in Hosts
  /\ session = Empty /\ result = Empty /\ ended = FALSE
  /\ most = [who \in {"observer", "worker"} |-> [q \in Quantities |-> None]]

ObserverReads(r) ==
  /\ ~ended
  /\ session' = Update(session, r)
  /\ Note("observer", r)
  /\ UNCHANGED <<mounts, result, ended>>

\* One turn of stage0's loop; what the update with gpu_stats raises is dropped.
WorkerReads(r) ==
  /\ ~ended
  /\ result' = Update(result, r)
  /\ Note("worker", r)
  /\ UNCHANGED <<mounts, session, ended>>

GpuReads(names) ==
  /\ ~ended
  /\ result' = Update(result, gpu_stats(names))
  /\ UNCHANGED <<mounts, session, ended, most>>

\* The container has stopped: its time is the one Docker tells, which may be none.
\* The summary may be missing; then its statistics are.  If nobody has a time, it is
\* that of stage0's own clock.  Present values mean nothing any more.
Stopped(took) == [result EXCEPT !.time = took]

Summed(summary, took) ==
  IF summary THEN Update(Stopped(took), Load(session)) ELSE Stopped(took)

MadeUp(all, clock) ==
  [all EXCEPT !.gauge = [g \in Gauges |-> [@[g] EXCEPT !.now = None]],
              !.time = first_none(@, clock)]

MakeUp(summary, took, clock) ==
  /\ ~ended /\ ended' = TRUE
  /\ result' = MadeUp(Summed(summary, took), clock)
  /\ most' = [most EXCEPT !["worker"] = [q \in Quantities |->
       LET read == {@[q]} \cup (IF summary THEN {most["observer"][q]} ELSE {})
       IN IF q = "time" THEN first_none(Largest(read \cup {took}), clock) ELSE Largest(read)]]
  /\ UNCHANGED <<mounts, session>>

Next ==
  \/ \E r \in Readings[mounts], t \in Count : ObserverReads(Timed(r, t))
  \/ \E r \in Readings[mounts] : WorkerReads(r)
  \/ \E names \in [Gpus -> Names] : GpuReads(names)
  \/ \E summary \in BOOLEAN, took \in File, clock \in Count : MakeUp(summary, took, clock)

Spec == Init /\ [][Next]_vars

---------------------------------------------------------------------------
CpuType   == [usage : Number, system : Number, user : Number]
GaugeType == [now : Number, top : Number]
GpuType   == [name : Names \cup {None}, gauge : GaugeType]
PartOf(f, set, type) == DOMAIN f \subseteq set /\ f \in [DOMAIN f -> type]
IsStats(s) ==
  /\ s = [cpu |-> s.cpu, cpus |-> s.cpus, gauge |-> s.gauge, grown |-> s.grown,
          time |-> s.time, gpus |-> s.gpus]
  /\ s.cpu \in CpuType /\ PartOf(s.cpus, Cpus, CpuType)
  /\ s.gauge \in [Gauges -> GaugeType] /\ s.grown \in [Growing -> Number] /\ s.time \in Number
  /\ PartOf(s.gpus, Gpus, GpuType)

\* Types of what is kept; a present value is never above the largest, and a result
\* that is made up has none.
TypeOK ==
  /\ mounts \in Hosts /\ IsStats(session) /\ IsStats(result)
  /\ \A s \in {session, result} : \A g \in Gauges :
       s.gauge[g].now # None => s.gauge[g].top # None /\ s.gauge[g].now <= s.gauge[g].top
  /\ ended => \A g \in Gauges : result.gauge[g].now = None

Books == {<<result, most["worker"]>>} \cup (IF ended THEN {} ELSE {<<session, most["observer"]>>})

\* However readings of the observer and of the worker come in, fail in part and
\* are put together, and whenever the kernel starts to count anew: the largest value
\* kept of a gauge is the largest one read, and so are failures and the time
\* (limits.py:196-230, 354-371; stage0.py:241-259).
PeaksAreMaxima ==
  \A b \in Books :
    /\ \A g \in Gauges  : b[1].gauge[g].top = b[2][g]
    /\ \A g \in Growing : b[1].grown[g] = b[2][g]
    /\ b[1].time = b[2]["time"]

\* The processor time kept is the largest of the totals read, of the largest system
\* and the largest user time together, and of the sum of the largest time read of
\* each processor: the three are read apart and need not agree (limits.py:157-168).
TimeIsCovered ==
  \A b \in Books :
    LET split == {c \in Cpus : b[2][c] # None}
    IN b[2]["usage"] # None =>
         b[1].cpu.usage = Largest({b[2]["usage"], b[2]["system"] + b[2]["user"],
                                   MapThenSumSet(LAMBDA c : b[2][c], split)})

\* What the worker writes can be read by the foreman, the server and the client,
\* and nothing gets lost on the way.  A record with a GPU's memory usage could
\* not be read (limits.py:244, 263); none is written because GpuStats.update fails.
ResultLoads == Loads(result) /\ Load(result) = result /\ Load(session) = session
=============================================================================
