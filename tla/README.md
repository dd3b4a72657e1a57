# Formal models of KOLEJKA

KOLEJKA is a small computing grid: clients submit tasks (a folder of files and a
description) to a server, foremen on the nodes of the grid take tasks that fit their
node, run each in a container under an observer, and send the results back.  This
directory holds TLA+ models of the system, the TLC configurations that check them on
small instances, and TLAPS proofs of their most important invariants.  Everything is
translated from the Python source; `PROJECT.json` names the lines behind each definition.

Run `tlc -config X.cfg M.tla` for a model and `tlapm M.tla` for a module of proofs.

## 1. The system

| Component | State | Operations | What makes it correct |
|---|---|---|---|
| Server: tasks and results (`server/task`) | tables `task`, `result`, their file lists | POST, GET, DELETE of tasks and results | one result per task, by a user the task was assigned to; no answered task is lost or replaced |
| Server: queue (`server/queue`) | column `assignee`, `time_assign` | `dequeue`, management command `unassign`, `stats` (read only) | one holder at a time; what is handed out fits the foreman; nobody starves |
| Server: blob store (`server/blob`) | rows of blobs and references, files under `blob/<hash>` | upload, refer, GET/HEAD, DELETE | references, rows and files stay together |
| Server: roles (`server/default`) | groups and permissions | signals that fill the groups | constants of the models |
| Limits (`common/limits.py`) | one value or None per dimension | `update`, `correct`, tests of demand against cap | None never means zero by mistake |
| Foreman (`foreman`) | dequeued tasks, batch, offsets, images of the node | dequeue, pack, manage images, run, reset | batches fit the node, running tasks are apart, every task ends |
| Statistics (`common/limits.py`, `common/cgroups.py`, `common/gpu.py`) | one record per session and per result | readings, `update`, `load` | the largest values are never forgotten, whatever a reading lacks |
| Worker (`worker`) | container, mounted directory, result | stage0 (outside), stage2 (inside) | the exit code is this run's, success means a whole result, timed tasks end |
| Observer (`observer`) | sessions, statistics, control groups | open, attach, detach, limits, stats, freeze, kill, close, clean-up | threads without a lock lose no session, no statistics and no process |
| Client (`client`) | files and their references | `blob_put`, `task_put`, `dequeue`, `task_get`, `result_put`, `result_get`, polling | who submits a task ends with its own output, whatever connections break |

The client and the foreman call the server over HTTP; the server's requests share the
database and the blob directory; the foreman starts one process per task, which calls the
worker's stage0, which talks to the observer over a Unix socket and to docker.

**What is hard.**  No view but `dequeue` is a transaction, and `ATOMIC_REQUESTS` is off,
so every SQL statement commits by itself: requests interleave statement by statement, rows
read early are saved late (`Model.save()` updates by primary key and *inserts* when there
is nothing to update), and a handler that dies leaves what it wrote.  A task may be
unassigned while its answer is on its way.  Files are renamed between two statements on
rows.  Packing exists twice, in `dequeue` and in the foreman, on limits where `None` and
`0` differ in every dimension.  Any exception in the foreman drops whatever it holds, and
one late task reboots the node.  The observer serves every request in a thread of its own
against a periodic clean-up, without a lock, on control groups that processes fork into
meanwhile.  stage0 does not notice that `docker run` failed and leaves its container behind
when it raises.  `PROJECT.json` lists these hazards at their lines with
the properties that cover them.

## 2. Modules

| Module | Models | EXTENDS |
|---|---|---|
| `TaskLifecycle` | abstract specification: the life of tasks with indivisible requests | – |
| `TaskQueue` | `server/task`, `server/queue`, statement by statement | – (instantiates `TaskLifecycle`) |
| `ContentStore` | abstract specification: stored contents and references with indivisible steps | – |
| `BlobStore` | `server/blob`, statement by statement, with files | – (instantiates `ContentStore`) |
| `Limits` | `KolejkaLimits`, and the arithmetic of packing that `dequeue` and the foreman share | community modules |
| `Dequeue` | one call of `dequeue`, one action per turn of its loop | `Limits` |
| `Foreman` | `foreman.py`: the loop, and one process per task | `Limits` |
| `Observer` | `observer/server.py`: the registry, its threads, the control groups and the processes in them | – |
| `Stats` | `KolejkaStats` as operators | community modules |
| `Accounting` | what the observer and stage0 do with readings of a running task | `Stats` |
| `Worker` | `worker/stage0.py` and `worker/stage2.py` around one container | – |
| `Client` | `client/client.py` between execute and a foreman's process, with the server's requests as single steps | – (instantiates `TaskLifecycle`) |
| `MC*` | constants of the instances | the model |
| `TaskQueueProofs`, `DequeueProofs`, `BlobStoreProofs`, `ForemanProofs`, `AccountingProofs`, `WorkerProofs`, `ClientProofs`, `ObserverProofs` | theorems | the model, `TLAPS` |

`Client` composes what the others promise: `Dequeue` of it is `HandOut` of `TaskQueue`,
`PostResult` and `GiveRef` are the POST of a result, `Stage0` is what `Worker` ships: the
code 0 and all the output; another code with what there is of it, when the command or stage2
failed or the task was killed for its time; no code and what there is, when Docker failed;
or nothing at all, when stage0 did.  `Worker` has
the sessions of `Observer` in the two facts it depends on (is the time of the session
enforced, are its other limits), `Foreman` takes what `Dequeue` shows of an answer.

### TaskQueue and TaskLifecycle
`task`, `result` and `ref` are the tables: functions from keys to rows, `None` is NULL,
and a row that is not there keeps a place with `state` "unused" or "deleted" (`id` 0 for
results, whose primary keys count up in `nextId`).  `req[h]` is what handler `h` is doing:
`pc` names the statement it executes next and the other fields are the local variables it
still uses, in particular `owner`, a column it read earlier.  `PostResult`,
`CheckResultFile`, `CreateResult`, `SaveResult`, `GiveRef`, `AddResultFile` and
`ResultPosted` are the statements of one POST of a result (`task/views.py:161-197`) in
order; tasks, reads and deletes are split in the same way.  `HandOut` is the whole of
`dequeue`, which runs `@transaction.atomic` on a database that serialises (the configured
sqlite); on a database at READ COMMITTED two calls could hand out one task.  It leaves
open which waiting tasks are chosen; `Dequeue` shows what it relies on (`HandsOutWaiting`).
`Unassign` is one UPDATE of all overdue tasks.  Accounts stay: deleting one (through Django's
admin) deletes its tasks and empties `assignee` and the author of results (`models.py:15, 20,
34`), which is outside of the model.  `Die(h)` ends a request between any two
statements.  `assigned` and `late` are history variables no action reads.

`TaskLifecycle` is the promise: a task has at most one holder, is taken back only while
unanswered, gets at most one result at a time and only from a user that held it (or one
trusted with `task.add_result`).  `ImplementsLifecycle` states that `TaskQueue` implements
it under `stage`, `holder`, `holders`, `verdict` := the columns and `assigned`.

### BlobStore and ContentStore
`blob[b]` is the primary key of the row of content `b` (0: none), `file` the files in the
store, `ref` the references.  `SaveRow` and `WriteRef` are `Model.save()` with the
foreign key the database enforces.  `Upload`, `GetOrCreate`, `Place`, `Activate` and
`SaveNewRef` are the statements of an upload; `Place` is the rename between two statements
on rows.  `deleted` and `broken` are histories: references whose DELETE was answered, and
contents whose upload died before the rename.  A deleted row keeps its other fields as
history: what the reference was made for.

`ContentStore` is the promise: what was once stored stays stored, a content is listed only
when it is stored or due to be, a content with a live reference is not unlisted, and a
reference leads to one content for ever, also after it was deleted and brought back.
`ImplementsStore` states that `BlobStore` implements it under `listed`, `stored`, `due`,
`made`, `live` := rows, files, uploads on their way to the rename, and references.

### Dequeue and Limits
Dimensions the code treats alike are members of a set: `Consumed` (cpus, memory, swap, ...)
are subtracted, `Capped` (time, cgroup_depth, network) compared; `gpus`, `gpu_memory` and
`image` have rules of their own and names of their own.  `call` holds the local variables
of `dequeue`; `rest` is what the loop has not seen of the first `Window` (100) waiting
tasks.  `Take` and `Skip` are one turn each, `Commit` the end of the transaction.

### Foreman
The loop is sequential: `pc` says where it is, `batch` holds its local variables.  `Receive`
takes any answer the server may give; `Fitting` restates what `Dequeue`'s `FitsTogether`,
`ExclusiveAlone` and `HandsOutWaiting` show of it.  `Add` is one turn of the packing loop,
`Close` its end, `Manage` and `ManageFails` are `manage_images` (the random order in which
images are kept is an arbitrary choice among the outcomes it can have; `batch.refused` are the
images docker would not remove, which `remove_docker_image` does not notice), and `Setup`,
`Stage0Ends`, `Put`, `Fails`, `Reset` are the process of one task.  `Raise` is the `except`
around the loop's body.  Steps that need something outside the foreman to fail are faults and
counted.  `Reset` is `system_reset()`: every process ends, every task held is lost, the disk
keeps its images.  `node` is the configuration, chosen once.  `Outlasts` says when a task's
stage0 can still be alive as its join times out: it hangs, it has no time limit, or the batch
waits less than the task may take (the timeout -1 waits not at all).  stage0's clock starts
with `docker run`, the join's before the image is pulled: a pull longer than the margin is
among `Hangs`.

### Observer
`sessions` is the dictionary of the registry, its values positions in `object`, the list of
all `Session` objects ever made (two objects may have one id, one after the other); `stored`
is `session_stats`.  `dirs`, `frozen`, `capped` and `at` are the control group file system:
groups that exist, those frozen, those with limits, and where each process is.  Of the seven
controllers two matter apart, `pids` (it lists a session) and `freezer`; the others are
written together with them.  A thread's `pc` names its next access to the registry, to a
file or to a process, and `cid` the session it is about: `CleanSteps` are the clean-up each
request begins with (`list`, `n` and `work` are its loops).  `Test` and `Count` are the two
steps of `Session.finished`: the group it lists may be removed between them, and the
exception ends the request.  `Sweep` lists the statistics that are old, all at once; `Drop`
tests for each whether its session is registered by then, and `Delete` removes it, new as it
may be by now, or raises when another thread was faster.  `MakeSteps` make the groups and
the `Session`, `MoveSteps` are attach and detach, `CloseSteps` `SessionRegistry.close`, with
kill and freeze within it.  `close` says why a session is closed, and so where `Return` goes
on: a clean-up tests a session it closed for its time again, one it found finished it leaves,
a request is answered.  An exception ends the request (`Raise`), or is caught by close
(`AfterKill`).  `Fresh` has ids of new sessions be new uuids.  `bound` and `limited` are
histories: the session a process is in since before any close of it began, and the ids that
were given limits.

### Stats and Accounting
`Update` and `Load` are `KolejkaStats.update` and `load`.  A record has counters of
processor time (for the group and per processor), gauges with a present and a largest value
(memory, swap, processes), values that only grow (failures), and graphics processors.  `GpusUpdate`
keeps what `GpuStats.update` leaves behind when it raises, which it always does.
`groups_stats` makes a reading of the files of a group: the total of processor time, system
and user time, and that of each processor come from three files, memory and processes from
others.  Any file may be unreadable but `pids.current`, which the code reads outside of a
`try`: without it there is no reading.  `ObserverReads` and `WorkerReads` take any reading of
a machine on which the controllers `mounts` are mounted; `MakeUp` puts the summary of stage2
into the result of stage0, whose time is the container's (`Stopped`), or else stage0's own
(`MadeUp`).

### Worker
`box` is the container with the task's name, `link` in it the observer's socket as it was
bound into it at start (`mount`: it was there when stage0 looked, before the pull), `dir` the
mounted result directory, `session` which limits the box's session enforces.  `stage0` names
the next part of stage0: `Inspect` and `KillLate` are a turn of its loop, `Raise` any
exception or death, which leaves the container.  `Start`, `Limit`, `Exec`, `Returns`, `Stop`,
`Collect`, `Summary` are stage2 in order.  `failed` says whether Docker or stage0 itself
failed in this run.  `Run` may fail after the container was created: it is then found with an
exit code of Docker's, or with the 0 of a container that was never started, which the model
tells apart from a command's (`Void`).

stage2 exits with 0 where the observer's path is not there (`stage2.py:133-135`, `179-182`).
The caller of the first has just found the path to be there (`300-307`, `Start`: otherwise it
gives up with 1, or goes without when nothing is limited), so that this one is not reached.  `Lost` has the other, taken only if `link = "none"`, which
no container with a session comes to: stage0 binds the socket itself into the container
(`stage0.py:94-98`), and a bind mount keeps its path although the file is unlinked on the
node, so an observer that stops leaves a path that is there and that nobody answers
(`Severed`), and stage2 raises (exit code 1).  Were the directory of the socket mounted
instead (the mutant `Severed_Gone`), `SuccessMeansComplete` would fail.  If the socket
disappears between stage0's test and `docker run`, Docker makes a directory of its path
(`Mounted`): stage2 cannot connect either, and no observer can start there until somebody
removes it (`observer = "blocked"`).

### Client
`proc[p]` is what a process does: the files it has, the references it knows, those still to
treat.  A GET is retried by the adapter (`max_retries`), a POST is not, so every POST either
is answered, is done but not answered (`Answered`), or is not done (`Cut`).  `raised` are
processes that met an exception on a connection that held, `gone` whether anybody deleted a
reference.  A reference of an earlier submission may be in a task's description, existing,
deleted, or somebody else's.  Contents are terms: `Out(n, ins, part)` is file `n` that running
on the files `ins` made, the whole of it or what there was.  `holders` of a task is a history:
who it was ever given to.

`ImplementsLifecycle` states that clients, foremen and the server together go through the
life cycle of `TaskLifecycle`, where the verdict of a task is what its result says with the
*contents* behind its files: no reuse, transfer or deletion of references may change it.

## 3. What TLC checks

| Run | Instance | States | Properties |
|---|---|---|---|
| `queue_files` | 1 task, 1 file, client, 2 workers, 2 requests at once, 2 results | 112 469 | `TypeOK`, `ResultByAssignee`, `AnsweredWaitsOnlyIfLate`, `ImplementsLifecycle` |
| `dequeue_packing` | 4 tasks of 9 kinds, 2 kinds of nodes, window 3 | 746 407 | `TypeOK`, `FitsTogether`, `ExclusiveAlone`, `HandsOutWaiting`, `PassedOverDoNotFit` |
| `dequeue_progress` | 4 tasks of 4 kinds, 1 kind of nodes, window 3 | 315 026 | `EventuallyHandedOut` |
| `blob_store` | 2 contents, 2 references, 2 requests, 3 rows | 2 148 445 | `TypeOK`, `ReferencesLead`, `ListedIsServable`, `ImplementsStore` |
| `foreman_batches` | 3 tasks of 7 kinds, 3 images, 3 configurations of the node, 2 at once, 1 fault | 242 560 | `TypeOK`, `RunApart`, `BatchNotEmpty`, `ImagesFit`, `DropsNothingWithinMeans`, `EveryTaskEnds` |
| `observer` | 1 session, creator and child, a request and the scheduler's at once | 2 626 508 | `TypeOK`, `BoundProcessesDie`, `FirstSessionKept`, `StatsOutliveGroups` |
| `stats` | one controller mounted, 2 processors, 2 graphics processors, values 0 and 1 | 25 524 | `TypeOK`, `PeaksAreMaxima`, `TimeIsCovered`, `ResultLoads` |
| `worker` | 2 runs of a task, 2 faults | 30 076 | `TypeOK`, `SuccessMeansComplete`, `CodeIsOfThisRun`, `AnswersUnlessDockerFails`, `TaskUnderLimits`, `TimedRunsEnd` |
| `client` | 2 clients (one may not view others' references), 2 workers, 1 file in, 1 out, 1 task that may be killed or fail, 1 fault | 376 312 | `TypeOK`, `EndToEnd`, `FailsOnlyByFault`, `PostedEnds`, `ImplementsLifecycle` |
| `blob_delete` | 1 content, 1 reference, 2 requests | – | `DeletedStaysDeleted` is violated |
| `foreman_no_time` | a node that does not limit time | – | `NothingDropped` is violated |
| `observer_reopen` | 1 id, 2 session objects | – | `LimitsStick` is violated |

**The properties.**
* `ResultByAssignee`: whatever happens between the check of the assignee and the insertion of
  the result, its author once held the task.
* `AnsweredWaitsOnlyIfLate`: an answered task is back in the queue only after a late answer.
  That it *can* be (and is handed out again) is what the code does: `dequeue` does not look at
  results.
* `ReferencesLead`, `ListedIsServable`: a reference always leads to the row it was made for; a
  listed content is servable unless its upload is between row and rename or died there.
* `ImplementsStore`: the races of uploads, reads and deletes that save rows they read long ago
  come to no more than `ContentStore` allows; in particular a reference that a late `save()`
  inserts again leads to the content it had, never to one uploaded since.
* `FitsTogether`, `ExclusiveAlone`, `PassedOverDoNotFit`, `EventuallyHandedOut`: the loop of
  `dequeue` tests tasks one by one, and these say what that gives for the answer as a whole
  and for the queue (`FitsTogether` in every dimension that is subtracted, in number and
  memory of graphics processors, and in images, each counted once).  The last needs the
  precondition `InSight`: a hundred tasks no node can run hide the rest of the queue.
* `RunApart`, `BatchNotEmpty`, `ImagesFit`: cpu and gpu sets of running tasks are disjoint, as
  long as the node is configured with no more than its machine has (sets go round); a batch
  always takes a task (else the inner loop would turn for ever), whatever the server sends,
  since a task's limits are cut to the node's before they are tested; the images a batch needs
  are there while it runs, and fit the room for images with all others, but for those docker
  refused to remove.
* `DropsNothingWithinMeans`, `EveryTaskEnds`: without a fault a node whose configuration
  limits cpus and time loses no task; whatever fails and whatever the configuration lacks,
  none stays for ever.
* `FirstSessionKept`, `StatsOutliveGroups`, `BoundProcessesDie`: however clean-ups and
  requests overlap, a session is closed only for a reason, its statistics survive it, and no
  process attached before its close began, and no child of one, outlives it.  They are about
  the first session of an id, because close goes by id, and about clients that do not freeze,
  thaw or kill while the session is closed (see "hazards").
* `PeaksAreMaxima`, `TimeIsCovered`, `ResultLoads`: the largest value kept is the largest
  read, of gauges, failures and time; the processor time kept is the largest of three: the
  totals read, the largest system and the largest user time together, and the sum of the
  largest time of each processor (so it may exceed every single reading when counters
  restart); what is written can be read.
* `SuccessMeansComplete`, `CodeIsOfThisRun`, `AnswersUnlessDockerFails`, `TaskUnderLimits`,
  `TimedRunsEnd`: what a result says is true of this run although containers are left behind,
  Docker fails, and the observer is lost between any two steps of stage2.  The one 0 that says
  nothing is Docker's for a container that it created and never started.
* `EndToEnd`, `FailsOnlyByFault`, `PostedEnds`: a client gets output of its own task, all of
  it when the code is 0, is refused nothing by what becomes of the task at workers, and gets
  it in the end.  An account of group Clients holds `blob.view_reference` and `blob.view_blob`
  (`server/default/apps.py`); one that does not may be refused a reference that the server has
  not given to it yet.
* `ImplementsLifecycle` (of `Client`): a lost answer of `dequeue`, a reclaim, a second foreman
  and a late answer never give a task two holders or two answers, nor an answer by somebody
  who never held it.

**Violations.**  Three runs show disagreements between code and documentation, described
under "findings" in `PROJECT.json`: a GET that overlaps a DELETE brings the reference back;
a task without a limit on time makes a foreman without one reboot the node (likewise a task
without a limit on cpus makes a foreman without one raise: `Add` of `Foreman`; both are None
unless configured); and a process that attaches to a session whose time is over runs without
any of its limits.

**Bounds.**  `MaxResult` and `MaxBlob` bound rows inserted: two let a row be deleted and
another inserted, which is what stale primary keys need.  `MaxReturn` bounds how often a task
is taken back, `MaxFaults` the faults of the foreman.  Two requests in flight are the least
for a race.  `blob_store` has two contents, so that a row or a reference could come to stand
for the other one, and three rows, so that one of them is made twice.  (An upload, a reader
and a delete may also meet in one row: with one content, three requests and two rows the same
properties hold on 440 298 states.) Two workers are enough for a task to be taken from one and
given to the other.  Requests of `TaskQueue` act on a task's rows alone; one dequeue or
unassign touches several tasks, for any number of which the invariants are proved (section
4).  A window of three with four tasks has a task out of sight. Three tasks with concurency
two are the most a server hands out (concurency + 1), which makes two batches.  Symmetry is
used for safety only, never with `EventuallyHandedOut` or `EveryTaskEnds`, and only over
values the configuration treats alike. Numbers are at most 3, with one dimension in each of
`Consumed` and `Capped`: dimensions of a set do not interact. `Observer`: `MaxObject` bounds
`Session` objects; two let an id come back, one is enough for races on a session.  Two threads
are the scheduler's and one of a client, the least for a race; a creator and a child it forks
are the least for an escape.  (With two clients' threads besides the scheduler's, and open,
attach and close only, the same properties hold on 1 897 955 states.)  `Accounting`: two
processors and two graphics processors make sums and a loop that stops early visible, and two
values make a reading fall behind the last.  A machine of the instance has one controller
mounted (`Hosts`), so that the combinations of files stay few: the pieces of a reading do not
meet in `Update`, and the theorems hold for any `Hosts`.  `Worker`: two runs are the least for
a leftover container, two faults let one run fail and the next meet an observer that is lost. 
`Client`: two workers let a task be handed out twice, two clients exchange references to equal
contents; one fault is any of a lost answer, a broken connection, a failed run, an early
reclaim or a deleted reference.  The task of one client (`Troubled`) may fail or be killed for
its time at no cost, that of the other is the whole and quick one.  The workers share a
foreman's account, so that one may answer for the other; with one client, foremen with
accounts of their own and three faults `ImplementsLifecycle` holds as well (432 186 states).

**Deadlock** is checked in every run but three: `stats` makes its result once, the runs of
`worker` are bounded, and the programs of `client` end.

**Fairness.**  Safety runs assume none.  `Dequeue!FairSpec` has a foreman ask again and
again, as `foreman.py:144-148` does in an endless loop with an interval, and a call run
through.  `Foreman!FairSpec` has the loop and each process make their next step: these are
statements of running processes; the calls to the server and docker among them end
because they are answered or fail.  A worker need not end (`Hangs`); that the foreman
survives this is `EveryTaskEnds`.  `Worker!FairSpec`
has stage0 go on (it is a running program; each call of docker returns) and its clock run;
neither the command, nor stage2, nor the observer is assumed to get anywhere.
`Client!FairSpec` has execute, the processes of the foreman and the handlers of the server
go on, and an operator reclaim a task nobody works on: the command `unassign` exists for
this, but nothing in the repository schedules it.  `TaskQueue`, `BlobStore`, `Observer` and
`Accounting` assume nothing.

## 4. What is proved

Every theorem holds for all values of the constants that meet the assumptions named in the
modules.  Those say that `None` and names that mean different things differ
(`NoneAssumption` of each module, `VerdictAssumption`, `NamesAssumption`,
`FieldsAssumption`), that bounds are numbers (`BoundAssumption`, `NumberAssumption`), that
dimensions, roles and inputs are what the code declares (`DimensionsAssumption`,
`InputAssumption`, `ForemanAssumption`, `RolesAssumption`), and, in `Client`, that who may
dequeue may read references, as `apps.py:13` gives both to group Processors
(`WorkersAssumption`).

| Theorem | States |
|---|---|
| `TaskQueueProofs!TypeCorrect`, `ResultAuthorship`, `LateAnswers` | `TypeOK`, `ResultByAssignee`, `AnsweredWaitsOnlyIfLate` |
| `TaskQueueProofs!Refinement` | `ImplementsLifecycle` |
| `DequeueProofs!TypeCorrect`, `Exclusion`, `HandOutBound`, `OldestFirst`, `FitsAsAWhole` | `TypeOK`, `ExclusiveAlone`, `HandsOutWaiting`, `PassedOverDoNotFit`, `FitsTogether` |
| `BlobStoreProofs!TypeCorrect`, `ReferencesAlwaysLead`, `ListedCanBeServed` | `TypeOK`, `ReferencesLead`, `ListedIsServable` |
| `BlobStoreProofs!Refinement` | `ImplementsStore` |
| `ForemanProofs!TypeCorrect`, `BatchesProgress`, `TasksRunApart`, `NothingIsDropped`, `ImagesHaveRoom` | `TypeOK`, `BatchNotEmpty`, `RunApart`, `DropsNothingWithinMeans`, `ImagesFit` |
| `AccountingProofs!TypeCorrect`, `PeaksKept`, `TimeAddsUp`, `ResultsCanBeRead` | `TypeOK`, `PeaksAreMaxima`, `TimeIsCovered`, `ResultLoads` |
| `WorkerProofs!TypeCorrect`, `SuccessIsComplete`, `CodeBelongsToRun`, `AlwaysAnswers`, `NeverUnlimited` | `TypeOK`, `SuccessMeansComplete`, `CodeIsOfThisRun`, `AnswersUnlessDockerFails`, `TaskUnderLimits` |
| `ClientProofs!TypeCorrect`, `ResultsAreOnesOwn`, `BlameIsKnown` | `TypeOK`, `EndToEnd`, `FailsOnlyByFault` |
| `ClientProofs!Refinement` | `ImplementsLifecycle` |
| `ObserverProofs!TypeCorrect`, `SessionsAreKept`, `StatsOutlive` | `TypeOK`, `FirstSessionKept`, `StatsOutliveGroups` |
| `ObserverProofs!BoundDie` | `BoundProcessesDie`, when `Requests` has no kill, freeze or thaw |

Every invariant, action property and refinement a passing run checks is the conclusion of a
theorem, `BoundProcessesDie` under the hypothesis named.  Each theorem has the same shape:
`Init` implies an inductive invariant, every action preserves it (one step per action), and a
temporal step combines them.  What the invariants add:

* **TaskQueue.**  `ResultByAssignee` is not inductive: a request past the check of the
  assignee records a result later.  `IInv` adds `RequestsOK` (the user of a request that is
  past the check was assigned its task once, or is a grader, and the locals it still uses
  have their types), `FreshKeys` (no two requests create one task) and `RowsOK` (a row that
  is not there has neither assignee nor result; a current assignee is among the
  `assigned`).  `AnsweredWaitsOnlyIfLate` is preserved because `Unassign` skips answered
  tasks and whoever records a result for a task he does not hold puts it into `late`.
  `Refinement` goes statement by statement over the same invariant: the statements that
  commit a task, a result or an assignee are the steps of `TaskLifecycle`, all others and
  `Die` are stutters.  `SaveResult`, which updates by primary key, records only where there is
  no result: the insertion it may turn into is `InsertRecords`.
* **Sums.**  `Dequeue`, `Foreman` and `Accounting` add numbers over finite sets with
  `MapThenSumSet`, which is recursive.  `SumIsNumber` says that such a sum is the number of
  elements of a set of tokens, `f[x]` of them for each `x`, so that facts on cardinality
  replace induction: adding a member (`SumAdd`), comparing (`SumLeq`), replacing
  (`SumSame`, `SumUnion`).  Each of the three modules of proofs states what it needs.
* **Dequeue.**  An exclusive task empties `rest`, which is why none can join it; the tasks
  taken came from `rest`, which was waiting when the call began, and the transaction keeps
  it so; what is left never grows, and image usage grows by as much as the image room
  shrinks, so a task that did not fit does not fit later.  `FitsTogether` compares the sum of
  an answer with the offer, while the loop only ever subtracts: `Ledger` says that shares
  taken and rest add up to the offer, that image usage is the largest of each image's tasks,
  that all images together and what is left of their room make up the room, and that no task
  is taken twice.
* **BlobStore.**  A primary key stands for one content for ever: rows, references and what
  a request has read of a row that is gone by now all agree on it (`Knows`, `KeysOK`,
  `Leads`), so the row that `Model.save()` inserts again is the row its references were made
  for.  `Servable` says for each listed content whose upload accounts for a missing file.
  `Refinement` needs the same of references: what a request recalls of one agrees with what
  it was made for, also after the row was deleted (`Bound`, `Recalls`, `MadeOK`), so that
  inserting it again is `BringBack`, not `Make`.
* **Foreman.**  `Balance`: what was given to the tasks of a batch and what is left make up
  the node, although the code only ever subtracts.  `Placed`: places follow one another from
  zero.  Together they keep places within the machine, where going round a set cannot make
  two of them meet.  `Waited`: the batch's timeout is at least the time of each of its
  tasks, so nothing is late unless it hangs, which is a fault.  The proof showed that
  `RunApart` needs `WithinMachine`: a node configured with more cpus than its machine has
  gives two tasks the same ones.  `ImagesFit` follows from `Room`: what `Add` counted for the
  images of a batch and what it left make up the room configured; `manage_images` keeps only
  what fits the rest, so that its assertion on the free size is never met (`RoomIsLeft`).
* **Accounting.**  Lemmas on `max_none` give that `GaugeUpdate` and `GrownUpdate` return the
  larger of their arguments; the invariant says that both records and every reading are
  numbers or None, and that what is kept is what was the largest, book by book.
  `TimeIsCovered` is about three ways to know a group's time (its total, system and user
  together, the sum over its processors) that are merged apart: `Clock` says that of each
  processor the largest time read is kept and that the total is the largest of all three, and
  is preserved because the sum of maxima is never less than the maximum of sums.
  `ResultLoads` needs that of graphics processors only names are ever kept (`Graphics`).
* **Worker.**  What a container of this run has written is settled by the step it is at
  (`Written`); before `docker run` nothing of this run exists (`BeforeRun`); a container with a
  session never lost the path of its socket (`PathStays`), so that stage2's exit with 0 is not
  taken; unless something
  failed, the container that stage0 watches is its own (`FoundUnlessFailed`).
* **Client.**  The content behind a reference never changes and a reference is never used
  again, so it is enough to say process by process what its references and files are of
  (`Submits`, `Reads`, `Works`).  `FailsOnlyByFault` needs who owns what besides:
  new references are their worker's own until a request that records a result takes them
  (`Apart`), and before the first fault a worker has its task to itself (`Smooth`).
  `Refinement` adds `Held` (who has a task is among its holders); a step that writes neither
  task nor result is a stutter because references keep their contents (`SameVerdict`).
* **Observer.**  Threads read the registry in one step and act on it by id in a later one, so
  the invariant says what a thread may rely on in between.  While the first session of an id
  is registered it is the only one made of it (`Original`, `RegistryOK`): the session a
  clean-up found over or finished is still the one it closes by its id, or the first is gone
  already (`Aware`).  Only the thread that was asked to open an id makes its first session
  (`Opening`), because nobody else knows the id before (`Seen`).  `StatsOK`: whoever closes
  an original session has read its statistics.  For `BoundProcessesDie`, a session is
  `Whole` as long as no thread that closes it is past the signals; until then its groups
  exist, the running processes bound to it are in them (`ProcessesOK`), and once a thread
  that closes it has frozen the group it stays frozen, so no member can fork or leave after
  it is listed (`Fit`).  Closing threads each do this for themselves: the first past the
  signals has killed all of them.  A client's kill, freeze or thaw breaks exactly this,
  which is the theorem's hypothesis (`Undisturbed`) and the hazard at `server.py:229`.

Only model-checked: liveness (`EventuallyHandedOut`, `EveryTaskEnds`, `TimedRunsEnd`,
`PostedEnds`), because fairness and ENABLED are beyond the prover; and what the runs that
expect a violation refute.

## 5. What is not modelled

The image registry branch of `POST /task/task/` (`task/views.py:81-101`, off unless
configured), the result callback (fire and forget), `stats` of the queue, `lstask`;
`Blob.deactivate()` (nothing calls it); login and account commands (Django's), and the
deletion of accounts; parsing, printing and configuration; the parsing of kernel and driver
files; tmpfs mounts of the foreman and a crash of its own process; sessions of the observer
within sessions, and a restart of it seen from its clients (every secret is new); the
arguments of `docker run`; packaging, examples, migrations, admin classes.  Limits are natural
numbers: `parse.py` also accepts negative ones, which would add to what packing has left.  A
task that lacks a limit the foreman caps is skipped for ever: this is in `Dequeue` (`Under`).

In `Observer` the removal of a group is one step per controller, not one per directory and
process, and the busy loop that waits for FROZEN turns without being required to end.  In
`Worker` runs of one task do not overlap: a foreman joins its workers before it asks again.
In `Client` one request is one step of the server, except that references are given to the
owner one by one after the result is there.

## 6. Plan

1. What close still promises when clients kill, freeze or thaw at the same time, checked and
   proved: `BoundProcessesDie` holds without them only.
2. Sessions within sessions.
3. The login of the client, and requests after its session has expired.
