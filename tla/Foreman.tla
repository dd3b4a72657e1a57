------------------------------ MODULE Foreman ------------------------------
(***************************************************************************)
(* A KOLEJKA foreman (src/kolejka/foreman/foreman.py): one node that asks  *)
(* the server for tasks, runs them in batches that fit the node, each task *)
(* in a process of its own, and sends their results back.                  *)
(*                                                                         *)
(* The foreman's loop is sequential: packing and image management are one  *)
(* action per turn.  The processes of a batch run concurrently.  Anything  *)
(* outside the foreman may fail (server, docker, disk, a worker that hangs *)
(* past its limits): such a step is a fault and is recorded as one.        *)
(***************************************************************************)
EXTENDS Limits, Sequences

CONSTANTS Tasks, Images,
          Descriptions,  \* limits, image and exclusive flag of a task
          Nodes,         \* limits of the foreman's configuration, one of these
          Concurency,    \* concurency of the foreman's configuration
          NCpus, NGpus,  \* what the machine has
          ImageSize,     \* size of each image once it is pulled
          MaxFaults      \* bound: faults in a behaviour

Description == [limits : LimitsSet, image : Images, exclusive : BOOLEAN]

ASSUME ForemanAssumption ==
  /\ "cpus" \in Consumed /\ "time" \in Capped
  /\ Descriptions \subseteq Description
  /\ Nodes \subseteq LimitsSet
  /\ Concurency \in Nat \ {0} /\ NCpus \in Nat \ {0} /\ NGpus \in Nat
  /\ ImageSize \in [Images -> Nat]
  /\ MaxFaults \in Nat \ {0}

VARIABLES node,    \* limits of the foreman's configuration
          desc,    \* description of each task received
          fate,    \* what became of each task
          pc,      \* where the foreman's loop is
          tasks,   \* dequeued tasks not yet in a batch
          batch,   \* local variables of the batch being packed or run
          child,   \* where the process of each task is
          hung,    \* tasks whose stage0 will not end
          images,  \* images on the node
          faults   \* how many faults there were

vars == <<node, desc, fate, pc, tasks, batch, child, hung, images, faults>>

Fates  == {"unseen", "held", "answered", "dropped"}
Steps  == {"none", "setup", "stage0", "put", "ended"}

\* at: the offsets given to each task's process; refused: history, images that docker
\* was asked to remove and did not.
NoBatch == [children |-> {}, resources |-> Correct(node),
            image_usage |-> [i \in Images |-> 0], cpus_offset |-> 0, gpus_offset |-> 0,
            timeout |-> None, at |-> [t \in Tasks |-> [cpus |-> 0, gpus |-> 0]],
            refused |-> {}]

Init ==
  /\ node \in Nodes
  /\ desc = [t \in Tasks |-> None]
  /\ fate = [t \in Tasks |-> "unseen"]
  /\ pc = "ask"
  /\ tasks = <<>>
  /\ batch = NoBatch
  /\ child = [t \in Tasks |-> "none"]
  /\ hung = {}
  /\ images = {}
  /\ faults = 0

Held == {t \in Tasks : fate[t] = "held"}

Fault == faults < MaxFaults /\ faults' = faults + 1

\* The handler around the loop's body drops whatever was dequeued; the server
\* goes on counting these tasks as assigned to this foreman.
Raise == /\ fate' = [t \in Tasks |-> IF t \in Held THEN "dropped" ELSE fate[t]]
         /\ pc' = "ask"
         /\ tasks' = <<>>
         /\ batch' = NoBatch

---------------------------------------------------------------------------
(* Asking for tasks.  What Dequeue shows of the server's answer is what    *)
(* the foreman relies on.                                                  *)

Fitting(d, s) ==
  LET S == {s[i] : i \in DOMAIN s}  offer == Correct(node) IN
  /\ \A x \in Consumed \cup {"gpus", "image"} :
       offer[x] # None => Together(d, S, x) <= offer[x]
  /\ \A x \in Consumed \cup Capped \cup {"image"}, t \in S : Under(d[t].limits[x], offer[x])
  /\ \A t \in S : d[t].limits["gpus"] \notin {None, 0} =>
       offer["gpus"] # None /\ Under(d[t].limits["gpu_memory"], offer["gpu_memory"])
  /\ \A t \in S : d[t].exclusive => S = {t}

Answer == {s \in UNION {[1 .. n -> {t \in Tasks : fate[t] = "unseen"}] : n \in 1 .. Concurency + 1} :
             \A i, j \in DOMAIN s : i # j => s[i] # s[j]}

Receive(s, d) ==
  LET S == {s[i] : i \in DOMAIN s} IN
  /\ pc = "ask"
  /\ Fitting(d, s)
  /\ desc' = [t \in Tasks |-> IF t \in S THEN d[t] ELSE desc[t]]
  /\ fate' = [t \in Tasks |-> IF t \in S THEN "held" ELSE fate[t]]
  /\ tasks' = s
  /\ pc' = "volume"
  /\ UNCHANGED <<node, batch, child, hung, images, faults>>

\* The server has no task for the node: ask again after an interval.
Sleep == pc = "ask" /\ UNCHANGED vars

\* check_python_volume()
CheckVolume ==
  /\ pc = "volume"
  /\ \/ pc' = "pack" /\ UNCHANGED <<fate, tasks, batch, faults>>
     \/ Fault /\ Raise
  /\ UNCHANGED <<node, desc, child, hung, images>>

---------------------------------------------------------------------------
(* Packing a batch                                                         *)

\* task.limits.update(limits)
Updated(t) == [desc[t] EXCEPT !.limits = Update(@, node)]

Lim(t) == Updated(t).limits

Shares_Strict(t) == \A x \in Consumed : batch.resources[x] # None =>
                      Lim(t)[x] # None /\ Lim(t)[x] < batch.resources[x]

Shares(t) == \A x \in Consumed : Under(Lim(t)[x], batch.resources[x])

\* After the update a task has a limit wherever the node has one, and no
\* higher one: time, network and cgroup_depth need no test.
Fits(t) ==
  LET l == Lim(t)  R == batch.resources IN
  /\ Shares(t)
  /\ l["gpus"] \notin {None, 0} => /\ R["gpus"] # None /\ l["gpus"] <= R["gpus"]
                                   /\ Under(l["gpu_memory"], R["gpu_memory"])
  /\ R["image"] # None => ImageAdd(Updated(t), batch.image_usage) <= R["image"]

MayJoin(t) ==
  /\ Cardinality(batch.children) < Concurency
  /\ ~(desc[t].exclusive /\ batch.children # {})
  /\ Fits(t)

Shorter(l, timeout) ==
  IF l["time"] = None THEN -1
  ELSE IF timeout = None THEN l["time"] ELSE Least(l["time"], timeout)

\* -1 stands for no limit, but the next timed task overwrites it.
Longer(l, timeout) ==
  IF l["time"] = None THEN -1
  ELSE IF timeout = None THEN l["time"] ELSE Larger(l["time"], timeout)

NextOffset_Same(offset, n) == offset

NextOffset_Back(offset, n) == offset - n

NextOffset(offset, n) == offset + n

Joined(t) ==
  LET l == Lim(t)  b == batch IN
  [children    |-> b.children \cup {t},
   resources   |-> Rest(Updated(t), b.resources, b.image_usage),
   image_usage |-> Usage(Updated(t), b.resources, b.image_usage),
   cpus_offset |-> NextOffset(b.cpus_offset, l["cpus"]),
   gpus_offset |-> IF b.resources["gpus"] # None /\ l["gpus"] # None
                   THEN NextOffset(b.gpus_offset, l["gpus"]) ELSE b.gpus_offset,
   timeout     |-> Longer(l, b.timeout),
   at          |-> [b.at EXCEPT ![t] = [cpus |-> b.cpus_offset, gpus |-> b.gpus_offset]],
   refused     |-> b.refused]

\* cpus_offset += None raises: neither the task nor the node limits cpus.
Add ==
  /\ pc = "pack" /\ tasks # <<>> /\ MayJoin(Head(tasks))
  /\ LET t == Head(tasks) IN
     IF Lim(t)["cpus"] = None
     THEN Raise
     ELSE /\ batch' = Joined(t)
          /\ tasks' = Tail(tasks)
          /\ pc' = IF desc[t].exclusive THEN "images" ELSE "pack"
          /\ UNCHANGED fate
  /\ UNCHANGED <<node, desc, child, hung, images, faults>>

Close ==
  /\ pc = "pack" /\ ~(tasks # <<>> /\ MayJoin(Head(tasks)))
  /\ pc' = "images"
  /\ UNCHANGED <<node, desc, fate, tasks, batch, child, hung, images, faults>>

---------------------------------------------------------------------------
(* manage_images, then the processes of the batch are started              *)

SizeOf(S) == SumFunctionOnSet([i \in S |-> ImageSize[i]], S)

Necessary == {desc[t].image : t \in batch.children}
Priority  == images \cap {desc[tasks[i]].image : i \in DOMAIN tasks}

\* What the batch leaves of the room for images (assert free_size >= 0).
FreeSize == node["image"] - SumFunctionOnSet(batch.image_usage, Necessary)

\* Images are kept in random order as long as they fit, those of the tasks
\* that come next before the others.
Kept_All(K) == K = images \ Necessary

Kept(K) ==
  /\ K \subseteq images \ Necessary
  /\ SizeOf(K) <= FreeSize
  /\ \A i \in (images \ Necessary) \ K : SizeOf(K) + ImageSize[i] > FreeSize
  /\ \A i \in (Priority \ Necessary) \ K : SizeOf(K \cap Priority) + ImageSize[i] > FreeSize

\* assert image_size <= size: a pulled image is no larger than declared.
AsDeclared == \A i \in Necessary : ImageSize[i] <= batch.image_usage[i]

StartAll == child' = [t \in Tasks |-> IF t \in batch.children THEN "setup" ELSE child[t]]

\* An image that docker does not remove stays, and nobody notices: L of them.
Manage(K, L) ==
  /\ pc = "images" /\ node["image"] # None
  /\ Kept(K) /\ AsDeclared
  /\ L \subseteq images \ (K \cup Necessary)
  /\ images' = K \cup Necessary \cup L
  /\ batch' = [batch EXCEPT !.refused = L]
  /\ IF L = {} THEN UNCHANGED faults ELSE Fault
  /\ pc' = "run"
  /\ StartAll
  /\ UNCHANGED <<node, desc, fate, tasks, hung>>

\* A pull fails, or an image is larger than its task says: after some removals and
\* some pulls.
ManageFails(K, L, P) ==
  /\ pc = "images" /\ node["image"] # None
  /\ Kept(K) /\ L \subseteq images \ (K \cup Necessary)
  /\ images \cap Necessary \subseteq P /\ P \subseteq Necessary
  /\ images' = K \cup L \cup P
  /\ \/ Fault
     \/ L = {} /\ ~AsDeclared /\ faults' = Least(faults + 1, MaxFaults)
  /\ Raise
  /\ UNCHANGED <<node, desc, child, hung>>

\* The node does not limit images: docker pulls them as tasks need them.
NoManage ==
  /\ pc = "images" /\ node["image"] = None
  /\ pc' = "run" /\ StartAll
  /\ UNCHANGED <<node, desc, fate, tasks, batch, hung, images, faults>>

---------------------------------------------------------------------------
(* foreman_single: the process of one task                                 *)

Goes(t, step, next) == child[t] = step /\ child' = [child EXCEPT ![t] = next]

\* Mount, task_get, commit.
Setup(t) ==
  /\ Goes(t, "setup", "stage0")
  /\ UNCHANGED <<node, desc, fate, pc, tasks, batch, hung, images, faults>>

Stage0Ends(t) ==
  /\ t \notin hung
  /\ Goes(t, "stage0", "put")
  /\ UNCHANGED <<node, desc, fate, pc, tasks, batch, hung, images, faults>>

Put(t) ==
  /\ Goes(t, "put", "ended")
  /\ fate' = [fate EXCEPT ![t] = "answered"]
  /\ UNCHANGED <<node, desc, pc, tasks, batch, hung, images, faults>>

\* An exception in the process ends it without a result.
Fails(t) ==
  /\ Goes(t, "setup", "ended") \/ Goes(t, "put", "ended")
  /\ fate' = [fate EXCEPT ![t] = "dropped"]
  /\ Fault
  /\ UNCHANGED <<node, desc, pc, tasks, batch, hung, images>>

Hangs(t) ==
  /\ child[t] = "stage0" /\ t \notin hung
  /\ hung' = hung \cup {t}
  /\ Fault
  /\ UNCHANGED <<node, desc, fate, pc, tasks, batch, child, images>>

\* stage0 takes up to 10 + 2 * time of a timed task and any time of another;
\* the batch waits 10 + 2 * timeout, or, when the timeout is -1, not at all.
\* stage0's own clock starts after it has pulled the image, that of the batch before
\* (stage0.py:207): a pull that takes longer than the margin is a Hang here.
Outlasts_Never(t) == FALSE

Outlasts(t) ==
  \/ t \in hung
  \/ Lim(t)["time"] # None => batch.timeout < Lim(t)["time"]

\* system_reset() reboots the node; its disk keeps the images.
Reset(t) ==
  /\ child[t] = "stage0" /\ Outlasts(t)
  /\ Raise
  /\ child' = [s \in Tasks |-> IF child[s] = "none" THEN "none" ELSE "ended"]
  /\ hung' = {}
  /\ UNCHANGED <<node, desc, images, faults>>

Join ==
  /\ pc = "run"
  /\ \A t \in batch.children : child[t] = "ended"
  /\ pc' = IF tasks = <<>> THEN "ask" ELSE "pack"
  /\ batch' = NoBatch
  /\ UNCHANGED <<node, desc, fate, tasks, child, hung, images, faults>>

---------------------------------------------------------------------------
Batch ==
  \/ Add \/ Close \/ NoManage \/ Join
  \/ \E K, L \in SUBSET Images :
       Manage(K, L) \/ \E P \in SUBSET Images : ManageFails(K, L, P)

Process(t) == Setup(t) \/ Stage0Ends(t) \/ Put(t) \/ Fails(t) \/ Reset(t)

Next ==
  \/ Sleep
  \/ \E s \in Answer : \E d \in [{s[i] : i \in DOMAIN s} -> Descriptions] : Receive(s, d)
  \/ CheckVolume
  \/ Batch
  \/ \E t \in Tasks : Process(t) \/ Hangs(t)

Spec == Init /\ [][Next]_vars

\* The loop and every process run on; a worker that is not hung ends.
FairSpec == Spec /\ WF_vars(CheckVolume \/ Batch) /\ \A t \in Tasks : WF_vars(Process(t))

---------------------------------------------------------------------------
(* Properties                                                              *)

BatchType ==
  [children : SUBSET Tasks, resources : [Dims -> Nat \cup {None}],
   image_usage : [Images -> Nat], cpus_offset : Nat, gpus_offset : Nat,
   timeout : Nat \cup {-1, None}, at : [Tasks -> [cpus : Nat, gpus : Nat]],
   refused : SUBSET Images]

\* The foreman's variables keep their types; what packing leaves of the node
\* never falls below zero, though foreman.py:202-224 only subtracts.
TypeOK ==
  /\ node \in Nodes
  /\ desc \in [Tasks -> Description \cup {None}]
  /\ fate \in [Tasks -> Fates]
  /\ pc \in {"ask", "volume", "pack", "images", "run"}
  /\ tasks \in Seq(Tasks)
  /\ batch \in BatchType
  /\ child \in [Tasks -> Steps]
  /\ hung \in SUBSET Tasks
  /\ images \in SUBSET Images
  /\ faults \in 0 .. MaxFaults

\* The configuration limits cpus and time; the machine has what it says.
WithinMeans   == node["cpus"] # None /\ node["time"] # None
WithinMachine == node["cpus"] <= NCpus /\ (node["gpus"] # None => node["gpus"] <= NGpus)

Running == {t \in Tasks : child[t] \in {"setup", "stage0", "put"}}

\* limited_cpuset and limited_gpuset: consecutive ones, going round.
Slots(offset, n, total) == {(offset + i) % total : i \in 0 .. Least(n, total) - 1}

CpusOf(t) == Slots(batch.at[t].cpus, Lim(t)["cpus"], NCpus)
GpusOf(t) == IF Lim(t)["gpus"] \in {None, 0} \/ NGpus = 0 THEN {}
             ELSE Slots(batch.at[t].gpus, Lim(t)["gpus"], NGpus)

\* On a node configured within its means no two running tasks share a cpu or
\* a gpu (cgroups.py:94, gpu.py:28), each has as many as it asked for, and an
\* exclusive task runs by itself; no more run than are configured.
RunApart ==
  /\ WithinMeans /\ WithinMachine => \A t, u \in Running :
       /\ Cardinality(CpusOf(t)) = Lim(t)["cpus"]
       /\ t # u => CpusOf(t) \cap CpusOf(u) = {} /\ GpusOf(t) \cap GpusOf(u) = {}
  /\ \A t \in Running : desc[t].exclusive => Running = {t}
  /\ Cardinality(Running) <= Concurency

\* A batch is never empty: were the first task left not to fit an empty node,
\* the loop of foreman.py:150 would turn for ever.  It fits, whatever the server
\* sends, because the task's limits are cut to the node's before the test.
BatchNotEmpty == pc = "images" => batch.children # {}

\* While tasks run, the images of the batch are on the node, and with all those that
\* were kept beside them they fit the room configured for images; only one that docker
\* refused to remove is too many (images.py:34 does not look at what docker says).
\* manage_images never meets its assertion on the free size.
ImagesFit ==
  node["image"] # None =>
    /\ pc = "images" => FreeSize >= 0
    /\ pc = "run" => /\ Necessary \subseteq images
                     /\ SizeOf(images \ batch.refused) <= node["image"]

\* README.md:77: a foreman "downloads pending tasks from the server, runs
\* them, and sends results back to the server".  As long as nothing outside
\* the foreman fails, no task is lost between its dequeue and its result.
NothingDropped == faults = 0 => \A t \in Tasks : fate[t] # "dropped"

\* That holds on a node whose configuration limits cpus and time: packing does
\* not raise, images are as large as declared or cost a fault, and no batch is
\* waited for less than one of its tasks may take (foreman.py:145-258).
DropsNothingWithinMeans == WithinMeans => NothingDropped

\* Every dequeued task is answered or dropped in the end: no batch blocks the
\* foreman, whatever hangs.
EveryTaskEnds == \A t \in Tasks : fate[t] = "held" ~> fate[t] \in {"answered", "dropped"}
=============================================================================
