------------------------------- MODULE Limits -------------------------------
(***************************************************************************)
(* KolejkaLimits (src/kolejka/common/limits.py): one value or None per     *)
(* dimension.  Dimensions the code treats alike are the members of a set:  *)
(* Consumed stands for cpus, memory, swap, pids, storage, workspace,       *)
(* perf_instructions, perf_cycles and cgroup_descendants, which tasks on a *)
(* node share; Capped for time, cgroup_depth and network (no = 0, yes = 1) *)
(* which bound each task by itself.                                        *)
(***************************************************************************)
EXTENDS Integers, FiniteSets, FiniteSetsExt, Functions

CONSTANTS Consumed, Capped, None

ASSUME DimensionsAssumption ==
  /\ Consumed \cap Capped = {}
  /\ {"gpus", "gpu_memory", "image"} \cap (Consumed \cup Capped) = {}

ASSUME NoneAssumption == None \notin Int

Dims      == Consumed \cup Capped \cup {"gpus", "gpu_memory", "image"}
Value     == Nat \cup {None}
LimitsSet == [Dims -> Value]

Least(a, b) == IF a <= b THEN a ELSE b

min_none(a, b) == IF a = None THEN b ELSE IF b = None THEN a ELSE Least(a, b)

min_none_is_min(a, b) == IF a = None \/ b = None THEN None ELSE Least(a, b)

\* Without GPUs there is no GPU memory to speak of.
Correct(l) == IF l["gpus"] \in {None, 0} THEN [l EXCEPT !["gpu_memory"] = None] ELSE l

Update(l, other) ==
  Correct([d \in Dims |-> IF d = "gpus" THEN min_none_is_min(l[d], other[d])
                                        ELSE min_none(l[d], other[d])])

\* A demand under a cap: a capped dimension must be declared.
Under(x, cap) == cap # None => x # None /\ x <= cap

Larger(a, b) == IF a >= b THEN a ELSE b

\* Tasks of one image share its storage: the largest declaration counts.
\* usage[i] is what has been counted for image i so far.
ImageAdd(d, usage) == Larger(usage[d.image], d.limits["image"]) - usage[d.image]

\* What is left of the resources, and counted for images, when a task with
\* description d is taken out of them.
Rest_KeepsGpus(d, resources, usage) ==
  [x \in Dims |->
     IF resources[x] = None THEN None
     ELSE IF x \in Consumed THEN resources[x] - d.limits[x]
     ELSE IF x = "image" THEN resources[x] - ImageAdd(d, usage)
     ELSE resources[x]]

Rest(d, resources, usage) ==
  [x \in Dims |->
     IF resources[x] = None THEN None
     ELSE IF x \in Consumed THEN resources[x] - d.limits[x]
     ELSE IF x = "gpus" /\ d.limits[x] # None THEN resources[x] - d.limits[x]
     ELSE IF x = "image" THEN resources[x] - ImageAdd(d, usage)
     ELSE resources[x]]

Usage(d, resources, usage) ==
  IF resources["image"] = None THEN usage
  ELSE [usage EXCEPT ![d.image] = Larger(@, d.limits["image"])]

\* What the tasks S, described by desc, declare in dimension x together.
Together(desc, S, x) ==
  LET Declared(t) == IF desc[t].limits[x] = None THEN 0 ELSE desc[t].limits[x]
      images == {desc[t].image : t \in S}
  IN  IF x = "image"
      THEN SumFunctionOnSet([i \in images |->
             Max({Declared(t) : t \in {s \in S : desc[s].image = i}})], images)
      ELSE SumFunctionOnSet([t \in S |-> Declared(t)], S)
=============================================================================
