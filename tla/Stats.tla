------------------------------- MODULE Stats --------------------------------
(***************************************************************************)
(* KolejkaStats (src/kolejka/common/limits.py): what the observer and the  *)
(* worker keep of the readings they take of a running task, and how two    *)
(* such records are put together.                                          *)
(*                                                                         *)
(* The record has counters of processor time, for the whole group and for  *)
(* each processor; gauges (memory, swap, processes), each with its present *)
(* and its largest value; counts of failures; a time; and the gauges of    *)
(* graphics processors.  Instructions and cycles, which nothing ever       *)
(* reads, are left out.                                                    *)
(***************************************************************************)
EXTENDS Naturals, FiniteSets, FiniteSetsExt

CONSTANTS Cpus,  \* processors
          Gpus,  \* numbers of graphics processors
          None

Gauges  == {"memory", "swap", "pids"}
Growing == {"memory.failcnt", "pids.events"}  \* named for the files they are read from

---------------------------------------------------------------------------
\* max_none of two, sum_none over a function, first_none of two
max_none(a, b)   == IF a = None THEN b ELSE IF b = None THEN a ELSE IF a <= b THEN b ELSE a
first_none(a, b) == IF a = None THEN b ELSE a
sum_none(f) ==
  LET set == {x \in DOMAIN f : f[x] # None}
  IN IF set = {} THEN None ELSE MapThenSumSet(LAMBDA x : f[x], set)

\* The constructors; each ends by making the derived field right.
Cpu(usage, system, user) ==
  [usage |-> max_none(usage, sum_none([f \in {"system", "user"} |-> IF f = "user" THEN user ELSE system])),
   system |-> system, user |-> user]
Gauge(now, top) == [now |-> now, top |-> max_none(top, now)]
Gpu(name, gauge) == [name |-> name, gauge |-> gauge]

NoCpu   == Cpu(None, None, None)
NoGauge == Gauge(None, None)
Empty   == [cpu |-> NoCpu, cpus |-> [c \in {} |-> NoCpu], gauge |-> [g \in Gauges |-> NoGauge],
            grown |-> [g \in Growing |-> None], time |-> None,
            gpus |-> [n \in {} |-> Gpu(None, NoGauge)]]

---------------------------------------------------------------------------
CpuUpdate_Kept(a, b) ==
  [usage |-> max_none(a.usage, b.usage), system |-> max_none(a.system, b.system),
   user |-> max_none(a.user, b.user)]

CpuUpdate(a, b) ==
  Cpu(max_none(a.usage, b.usage), max_none(a.system, b.system), max_none(a.user, b.user))

\* CpusStats.add over the processors
CpuSum(cpus) ==
  Cpu(sum_none([c \in DOMAIN cpus |-> cpus[c].usage]),
      sum_none([c \in DOMAIN cpus |-> cpus[c].system]),
      sum_none([c \in DOMAIN cpus |-> cpus[c].user]))

GaugeUpdate_Kernel(a, b) ==
  [now |-> IF b.now = None THEN a.now ELSE b.now, top |-> max_none(a.top, b.top)]

\* The present value is replaced, unless there is none; the largest one stays.
GaugeUpdate(a, b) ==
  LET now == IF b.now = None THEN a.now ELSE b.now
  IN [now |-> now, top |-> max_none(max_none(a.top, b.top), now)]

CpusUpdate(a, b) ==
  [c \in DOMAIN a \cup DOMAIN b |->
     CpuUpdate(IF c \in DOMAIN a THEN a[c] ELSE NoCpu, IF c \in DOMAIN b THEN b[c] ELSE NoCpu)]

\* GpuStats.update reads self.memory, an attribute no GpuStats has: it raises
\* AttributeError after it set the name and before anything else.  The loop over
\* the graphics processors ends with its first turn.
GpusUpdate_All(a, b) ==
  [n \in DOMAIN a \cup DOMAIN b |-> IF n \in DOMAIN b THEN b[n] ELSE a[n]]

GpusUpdate(a, b) ==
  IF DOMAIN b = {} THEN a
  ELSE LET n == Min(DOMAIN b)
           old == IF n \in DOMAIN a THEN a[n] ELSE Gpu(None, NoGauge)
       IN [m \in DOMAIN a \cup {n} |->
             IF m = n THEN [old EXCEPT !.name = first_none(@, b[n].name)] ELSE a[m]]

GrownUpdate_Last(a, b) == [g \in Growing |-> first_none(b[g], a[g])]

GrownUpdate(a, b) == [g \in Growing |-> max_none(a[g], b[g])]

\* KolejkaStats.update; gpus come last, so what they raise loses nothing else.
Update(a, b) ==
  LET cpus == CpusUpdate(a.cpus, b.cpus)
  IN [cpu   |-> CpuUpdate(CpuUpdate(a.cpu, b.cpu), CpuSum(cpus)),
      cpus  |-> cpus,
      gauge |-> [g \in Gauges |-> GaugeUpdate(a.gauge[g], b.gauge[g])],
      grown |-> GrownUpdate(a.grown, b.grown),
      time  |-> max_none(a.time, b.time),
      gpus  |-> GpusUpdate(a.gpus, b.gpus)]

---------------------------------------------------------------------------
\* load of a dump.  A GPU's largest memory usage is written with a unit and
\* read without: a record that has one cannot be loaded.
Loads(data) == \A n \in DOMAIN data.gpus : data.gpus[n].gauge.top = None
Load(data) ==
  LET cpus == [c \in DOMAIN data.cpus |->
                 Cpu(data.cpus[c].usage, data.cpus[c].system, data.cpus[c].user)]
  IN [cpu   |-> CpuUpdate(Cpu(data.cpu.usage, data.cpu.system, data.cpu.user), CpuSum(cpus)),
      cpus  |-> cpus,
      gauge |-> [g \in Gauges |-> Gauge(data.gauge[g].now, data.gauge[g].top)],
      grown |-> data.grown,
      time  |-> data.time,
      gpus  |-> [n \in DOMAIN data.gpus |-> Gpu(data.gpus[n].name, data.gpus[n].gauge)]]
=============================================================================
