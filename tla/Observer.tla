------------------------------ MODULE Observer ------------------------------
(***************************************************************************)
(* The observer (src/kolejka/observer/server.py): a registry of sessions,  *)
(* each a control group per controller into which processes are moved and  *)
(* by which they are limited, measured, frozen and killed.                 *)
(*                                                                         *)
(* Every request has a thread of its own and the registry has no lock.     *)
(* Every request first cleans up finished sessions; a scheduler process    *)
(* sends one each second.  A thread's pc names its next access to the      *)
(* registry, to a file of the control group file system, or to a process;  *)
(* threads interleave between these steps.                                 *)
(***************************************************************************)
EXTENDS Naturals, Sequences, FiniteSets

CONSTANTS Ids,        \* session ids (fresh uuids)
          Procs,      \* processes that are observed, and their children
          Creators,   \* those alive from the start
          Threads,    \* threads of the server
          Scheduler,  \* the thread that serves the scheduler's HEAD requests
          Requests,   \* the requests clients make
          MaxObject,  \* bound: Session objects ever made
          None

Clean    == "head"
Commands == {"open", "start", "attach", "detach", "limits", "stats", "close",
             "kill", "freeze", "thaw"}

ASSUME ThreadAssumption  == Scheduler \in Threads /\ Creators \subseteq Procs
ASSUME RequestAssumption == Requests \subseteq Commands
ASSUME BoundAssumption   == MaxObject \in Nat

VARIABLES status,    \* of each process
          at,        \* its group, by controller: a session's, or None for the parent
          dirs,      \* the groups that exist, by controller
          frozen,    \* groups whose freezer.state is FROZEN
          capped,    \* groups whose files hold limits
          object,    \* Session objects, in the order they were made
          sessions,  \* SessionRegistry.sessions: 0, or an object, for each id
          stored,    \* SessionRegistry.session_stats
          known,     \* ids (and secrets) returned to clients
          thread,
          bound,     \* history: the Session a process is attached to, or 0
          limited    \* history: ids that were given limits

system   == <<status, at, dirs, frozen, capped>>
registry == <<object, sessions, stored, known>>
history  == <<bound, limited>>
vars     == <<system, registry, thread, history>>

---------------------------------------------------------------------------
\* Two of OBSERVER_CGROUPS matter apart: pids lists a session's processes,
\* freezer stops them.  Both are written in this order; freezer is the last.
Controllers == {"pids", "freezer"}

SessionObject == [id : Ids, creator : Procs, time : {"none", "runs", "over"}, late : BOOLEAN]

\* The steps of a clean-up, of making a session, of attach, detach, limits, stats,
\* and of close, with those of kill and freeze among them.
CleanSteps == {"sweep", "test", "members", "drop", "delete"}
MakeSteps  == {"makePids", "makeFreezer", "register"}
MoveSteps  == {"check", "intoPids", "intoFreezer", "leave", "outOfPids", "outOfFreezer"}
CloseSteps == {"stats", "find", "freeze", "wait", "list", "kill", "restore", "rewait",
               "thaw", "closePids", "closeFreezer", "forget"}
StepNames  == CleanSteps \cup MakeSteps \cup MoveSteps \cup CloseSteps \cup {"reopen", "limit", "tell"}

ASSUME NoneAssumption == None \notin Ids \cup Procs \cup Commands \cup {Clean} \cup StepNames

\* close: why the thread is closing session cid, if it is: the clean-up found its
\* time over or the session finished, or a request asked for it.
Thread == [op : Commands \cup {Clean, None}, by : Procs \cup {None}, id : Ids \cup {None},
           pc : StepNames \cup {None},
           cid : Ids \cup {None},         \* the session the steps are about
           close : {"no", "over", "finished", "asked"},
           list : SUBSET (1 .. MaxObject), n : 0 .. MaxObject, \* the loop of the clean-up
           work : SUBSET (Procs \cup Ids), back : BOOLEAN]

Idle == [op |-> None, by |-> None, id |-> None, pc |-> None, cid |-> None, close |-> "no",
         list |-> {}, n |-> 0, work |-> {}, back |-> FALSE]

Busy(t)     == thread[t].op # None
At(t, step) == Busy(t) /\ thread[t].pc = step
Goto(t, q)  == thread' = [thread EXCEPT ![t] = q]
Continue(t, step) == Goto(t, [thread[t] EXCEPT !.pc = step])
Answer(t)   == Goto(t, Idle)
Closing(t)  == thread[t].close # "no"

\* SessionRegistry.close begins by reading the statistics.
CloseBegins_NoStats == "find"
CloseBegins == "stats"

\* The first step of a request, once the clean-up is through.
FirstStep(op) ==
  IF op \in {"open", "start"} THEN "makePids"
  ELSE IF op \in {"kill", "freeze", "thaw"} THEN "find"
  ELSE IF op = "close" THEN CloseBegins
  ELSE [attach |-> "reopen", detach |-> "leave", limits |-> "limit", stats |-> "stats"][op]

Begin(t) ==
  LET q == thread[t] IN
  IF q.op = Clean THEN Answer(t)
  ELSE Goto(t, [q EXCEPT !.pc = FirstStep(q.op), !.cid = q.id, !.work = {},
                         !.close = IF q.op = "close" THEN "asked" ELSE "no"])

\* Where close returns to; the clean-up tests a session it closed for its time again.
Return(t) ==
  LET q == thread[t] IN
  Goto(t, IF q.close = "over" THEN [q EXCEPT !.pc = "test", !.close = "no"]
          ELSE IF q.close = "finished"
          THEN [q EXCEPT !.pc = "sweep", !.close = "no", !.cid = None, !.n = 0]
          ELSE Idle)

\* kill stops the processes before it lists them; thaw has nothing to stop.
AfterFind_Running(t) == IF Closing(t) \/ thread[t].op = "kill" THEN "list" ELSE thread[t].op
AfterFind(t) == IF ~Closing(t) /\ thread[t].op = "thaw" THEN "thaw" ELSE "freeze"

\* kill has ended or raised: close catches that and goes on.
AfterKill(t) == IF Closing(t) THEN Continue(t, "thaw") ELSE Answer(t)

Running(p)  == status[p] \in {"running", "killed"}
Members(i)  == {p \in Procs : Running(p) /\ at["pids"][p] = i}
Stopped(p)  == at["freezer"][p] \in frozen
Closers(i)  == {t \in Threads : Closing(t) /\ thread[t].cid = i}

Init ==
  /\ status = [p \in Procs |-> IF p \in Creators THEN "running" ELSE "unborn"]
  /\ at = [c \in Controllers |-> [p \in Procs |-> None]]
  /\ dirs = [c \in Controllers |-> {}]
  /\ frozen = {} /\ capped = {} /\ object = <<>>
  /\ sessions = [i \in Ids |-> 0]
  /\ stored = [i \in Ids |-> "none"]
  /\ known = {}
  /\ thread = [t \in Threads |-> Idle]
  /\ bound = [p \in Procs |-> 0] /\ limited = {}

---------------------------------------------------------------------------
(* Processes and time *)

Free(p) == status[p] = "running" /\ ~Stopped(p) /\ \A t \in Threads : thread[t].by # p

Fork(p, q) ==
  /\ Free(p) /\ status[q] = "unborn"
  /\ status' = [status EXCEPT ![q] = "running"]
  /\ at' = [c \in Controllers |-> [at[c] EXCEPT ![q] = at[c][p]]]
  /\ bound' = [bound EXCEPT ![q] = bound[p]]
  /\ UNCHANGED <<dirs, frozen, capped, registry, thread, limited>>

\* By itself, or because it was killed; a frozen process does neither.
Exit(p) ==
  /\ Running(p) /\ ~Stopped(p)
  /\ status[p] = "running" => Free(p)
  /\ status' = [status EXCEPT ![p] = "dead"]
  /\ at' = [c \in Controllers |-> [at[c] EXCEPT ![p] = None]]
  /\ bound' = [bound EXCEPT ![p] = 0]
  /\ UNCHANGED <<dirs, frozen, capped, registry, thread, limited>>

\* close_time < current_time
TimeOver(n) ==
  /\ object[n].time = "runs"
  /\ sessions[object[n].id] = n \/ \E t \in Threads : n \in thread[t].list
  /\ object' = [object EXCEPT ![n].time = "over", ![n].late = TRUE]
  /\ UNCHANGED <<system, sessions, stored, known, thread, history>>

\* 300 seconds since the last statistics of a session, which may be there still
Age(i) ==
  /\ stored[i] = "fresh"
  /\ stored' = [stored EXCEPT ![i] = "old"]
  /\ UNCHANGED <<system, object, sessions, known, thread, history>>

---------------------------------------------------------------------------
(* A request arrives; cmd checks its secret after the clean-up, but a      *)
(* secret once given stays valid.  A process makes one request at a time.  *)

\* The id of a new session is a new uuid.
Fresh(i) ==
  /\ \A n \in DOMAIN object : object[n].id # i
  /\ \A c \in Controllers : i \notin dirs[c]
  /\ \A t \in Threads : thread[t].id # i

CleanUp(q) == [q EXCEPT !.pc = "sweep", !.list = {n \in DOMAIN object : sessions[object[n].id] = n}]

Receive(t, op, p, i) ==
  /\ ~Busy(t) /\ t # Scheduler /\ Free(p) /\ op \in Requests
  /\ IF op \in {"open", "start"} THEN Fresh(i) ELSE i \in known
  /\ Goto(t, CleanUp([Idle EXCEPT !.op = op, !.by = p, !.id = i]))
  /\ UNCHANGED <<system, registry, history>>

Tick ==
  /\ ~Busy(Scheduler)
  /\ Goto(Scheduler, CleanUp([Idle EXCEPT !.op = Clean]))
  /\ UNCHANGED <<system, registry, history>>

\* The answer of open, or of an attach without an id, has the id and its secret.
Tell(t) ==
  /\ At(t, "tell")
  /\ known' = known \cup {thread[t].id}
  /\ Answer(t)
  /\ UNCHANGED <<system, object, sessions, stored, history>>

---------------------------------------------------------------------------
(* cleanup_finished *)

\* An assertion that fails or a file that is gone raises an exception: outside of close
\* it ends the request with status 500, or, during the clean-up, without an answer.
Raise(t) == Answer(t)

Old == {i \in Ids : stored[i] = "old"}

\* One turn of the loop: is the session's time over?  Then close it, by id.  After the
\* loop the statistics are listed, with their times.
Sweep(t) ==
  LET q == thread[t] IN
  /\ At(t, "sweep")
  /\ IF q.list # {}
     THEN \E n \in q.list :
            LET r == [q EXCEPT !.list = @ \ {n}, !.n = n, !.cid = object[n].id] IN
            Goto(t, IF object[n].time = "over" THEN [r EXCEPT !.close = "over", !.pc = CloseBegins]
                    ELSE [r EXCEPT !.pc = "test"])
     ELSE IF Old # {} THEN Goto(t, [q EXCEPT !.pc = "drop", !.work = Old])
     ELSE Begin(t)
  /\ UNCHANGED <<system, registry, history>>

\* Session.finished: the creator is gone and the group is empty, or there is none.
CreatorGone_Any(n) == TRUE
CreatorGone(n) == ~Running(object[n].creator)

Finish(t)  == Goto(t, [thread[t] EXCEPT !.close = "finished", !.pc = CloseBegins])
GoOn(t)    == Goto(t, [thread[t] EXCEPT !.pc = "sweep", !.cid = None, !.n = 0])

Test(t) ==
  /\ At(t, "test")
  /\ IF ~CreatorGone(thread[t].n) THEN GoOn(t)
     ELSE IF thread[t].cid \in dirs["pids"] THEN Continue(t, "members") ELSE Finish(t)
  /\ UNCHANGED <<system, registry, history>>

\* cgroup.procs was there a moment ago: another thread may have removed the group.
Count(t) ==
  /\ At(t, "members")
  /\ IF thread[t].cid \notin dirs["pids"] THEN Raise(t)
     ELSE IF Members(thread[t].cid) = {} THEN Finish(t) ELSE GoOn(t)
  /\ UNCHANGED <<system, registry, history>>

\* Of what was listed as more than 300 seconds old, the statistics of sessions that are
\* not there by now are deleted, however new these statistics are by now.
Drop(t) ==
  LET q == thread[t] IN
  /\ At(t, "drop")
  /\ IF q.work = {} THEN Begin(t)
     ELSE \E i \in q.work :
            LET r == [q EXCEPT !.work = @ \ {i}] IN
            Goto(t, IF sessions[i] # 0 THEN r ELSE [r EXCEPT !.pc = "delete", !.cid = i])
  /\ UNCHANGED <<system, registry, history>>

\* If another thread was faster, the KeyError ends this request.
Delete(t) ==
  LET q == thread[t] IN
  /\ At(t, "delete")
  /\ stored' = [stored EXCEPT ![q.cid] = "none"]
  /\ IF stored[q.cid] = "none" THEN Raise(t)
     ELSE Goto(t, [q EXCEPT !.pc = "drop", !.cid = None])
  /\ UNCHANGED <<system, object, sessions, known, history>>

---------------------------------------------------------------------------
(* open and attach                                                         *)

\* os.makedirs(..., exist_ok=True)
MakeGroup(t, step, c, next) ==
  /\ At(t, step)
  /\ IF Running(thread[t].by)
     THEN dirs' = [dirs EXCEPT ![c] = @ \cup {thread[t].cid}] /\ Continue(t, next)
     ELSE Raise(t) /\ UNCHANGED dirs
  /\ UNCHANGED <<status, at, frozen, capped, registry, history>>

\* self.sessions[session_id] = Session(...)
Register(t) ==
  LET q == thread[t] IN
  /\ At(t, "register") /\ Len(object) < MaxObject
  /\ object' = Append(object, [id |-> q.cid, creator |-> q.by, time |-> "none", late |-> FALSE])
  /\ sessions' = [sessions EXCEPT ![q.cid] = Len(object')]
  /\ Continue(t, IF q.op = "open" THEN "tell" ELSE "check")
  /\ UNCHANGED <<system, stored, known, history>>

\* SessionRegistry.attach makes the session anew when the id is not registered.
Reopen(t) ==
  /\ At(t, "reopen")
  /\ Continue(t, IF sessions[thread[t].cid] = 0 THEN "makePids" ELSE "check")
  /\ UNCHANGED <<system, registry, history>>

\* Session.attach: the process has to be in the session's parent groups.
CheckAttach(t) ==
  LET q == thread[t] IN
  /\ At(t, "check")
  /\ IF /\ sessions[q.cid] # 0 /\ Running(q.by)
        /\ \A c \in Controllers : at[c][q.by] = None
     THEN Continue(t, "intoPids") ELSE Raise(t)
  /\ UNCHANGED <<system, registry, history>>

\* The process id is written into the tasks file of one group.
Into(t, c) ==
  LET q == thread[t] IN
  /\ IF q.cid \in dirs[c] /\ Running(q.by)
     THEN /\ at' = [at EXCEPT ![c][q.by] = q.cid]
          /\ IF c = "pids" THEN Continue(t, "intoFreezer")
             ELSE IF q.op = "start" THEN Continue(t, "tell") ELSE Answer(t)
     ELSE Raise(t) /\ UNCHANGED at
  /\ UNCHANGED <<status, dirs, frozen, capped, registry, limited>>

IntoPids(t) == At(t, "intoPids") /\ Into(t, "pids") /\ UNCHANGED bound

IntoFreezer(t) ==
  LET q == thread[t] IN
  /\ At(t, "intoFreezer") /\ Into(t, "freezer")
  /\ bound' = IF sessions[q.cid] # 0 /\ Closers(q.cid) = {}
              THEN [bound EXCEPT ![q.by] = sessions[q.cid]] ELSE bound

\* Session.detach: out of the session's groups, into its parent's.
CheckDetach(t) ==
  LET q == thread[t] IN
  /\ At(t, "leave")
  /\ IF /\ sessions[q.cid] # 0 /\ Running(q.by)
        /\ \A c \in Controllers : at[c][q.by] \in {None, q.cid}
     THEN Continue(t, "outOfPids") /\ bound' = [bound EXCEPT ![q.by] = 0]
     ELSE Raise(t) /\ UNCHANGED bound
  /\ UNCHANGED <<system, registry, limited>>

OutOf(t, step, c) ==
  /\ At(t, step)
  /\ IF Running(thread[t].by)
     THEN /\ at' = [at EXCEPT ![c][thread[t].by] = None]
          /\ IF c = "pids" THEN Continue(t, "outOfFreezer") ELSE Answer(t)
     ELSE Raise(t) /\ UNCHANGED at
  /\ UNCHANGED <<status, dirs, frozen, capped, registry, history>>

\* Session.limits: limits with or without a time.
Limit(t, time) ==
  LET q == thread[t]  n == sessions[q.cid] IN
  /\ At(t, "limit")
  /\ IF n # 0 /\ q.cid \in dirs["pids"]
     THEN /\ capped' = capped \cup {q.cid}
          /\ limited' = limited \cup {q.cid}
          /\ object' = [object EXCEPT ![n].time = time]
     ELSE UNCHANGED <<capped, limited, object>>
  /\ Answer(t)
  /\ UNCHANGED <<status, at, dirs, frozen, sessions, stored, known, bound>>

---------------------------------------------------------------------------
(* stats, freeze, kill, close.  Exceptions of kill are caught in close,    *)
(* which goes on to thaw the group and to remove it.                       *)

\* SessionRegistry.stats; the first step of close, too, which ignores errors.
Stats(t) ==
  LET i == thread[t].cid IN
  /\ At(t, "stats")
  /\ stored' = IF sessions[i] # 0 /\ i \in dirs["pids"] THEN [stored EXCEPT ![i] = "fresh"] ELSE stored
  /\ IF sessions[i] # 0 /\ Closing(t) THEN Continue(t, "find") ELSE Return(t)
  /\ UNCHANGED <<system, object, sessions, known, history>>

\* self.sessions[session_id], where a KeyError is swallowed or there is nothing
\* to do; then kill remembers whether the group was frozen.
Find(t) ==
  LET i == thread[t].cid IN
  /\ At(t, "find")
  /\ IF sessions[i] = 0 THEN Return(t)
     ELSE Goto(t, [thread[t] EXCEPT !.back = i \in frozen, !.pc = AfterFind(t)])
  /\ UNCHANGED <<system, registry, history>>

\* A step on the freezer's files, which raises when the group is gone.
WithFreezer_Unchecked(t, step) == At(t, step)
WithFreezer(t, step) == At(t, step) /\ thread[t].cid \in dirs["freezer"]

NoFreezer(t) ==
  /\ \E step \in {"freeze", "wait", "restore", "rewait"} : At(t, step)
  /\ thread[t].cid \notin dirs["freezer"]
  /\ AfterKill(t)
  /\ UNCHANGED <<system, registry, history>>

Freeze(t) ==
  /\ WithFreezer(t, "freeze")
  /\ frozen' = frozen \cup {thread[t].cid}
  /\ Continue(t, "wait")
  /\ UNCHANGED <<status, at, dirs, capped, registry, history>>

\* The busy loop until the state reads FROZEN: it turns for ever when another
\* thread has thawed the group since.
Wait(t) ==
  /\ WithFreezer(t, "wait")
  /\ IF thread[t].cid \notin frozen THEN UNCHANGED thread
     ELSE IF Closing(t) \/ thread[t].op = "kill" THEN Continue(t, "list") ELSE Answer(t)
  /\ UNCHANGED <<system, registry, history>>

List(t) ==
  /\ At(t, "list")
  /\ Goto(t, [thread[t] EXCEPT !.work = Members(thread[t].cid), !.pc = "kill"])
  /\ UNCHANGED <<system, registry, history>>

Kill(t) ==
  /\ At(t, "kill")
  /\ status' = [p \in Procs |-> IF p \in thread[t].work /\ Running(p)
                                THEN "killed" ELSE status[p]]
  /\ Goto(t, [thread[t] EXCEPT !.work = {}, !.pc = "restore"])
  /\ UNCHANGED <<at, dirs, frozen, capped, registry, history>>

\* self.freeze(freeze=state): as it was before, also when another thread froze it.
Restore(t) ==
  LET q == thread[t] IN
  /\ WithFreezer(t, "restore")
  /\ \/ q.back  /\ frozen' = frozen \cup {q.cid} /\ Continue(t, "rewait")
     \/ ~q.back /\ frozen' = frozen \ {q.cid}    /\ AfterKill(t)
  /\ UNCHANGED <<status, at, dirs, capped, registry, history>>

WaitAgain(t) ==
  /\ WithFreezer(t, "rewait")
  /\ IF thread[t].cid \in frozen THEN AfterKill(t) ELSE UNCHANGED thread
  /\ UNCHANGED <<system, registry, history>>

Thaw(t) ==
  /\ At(t, "thaw")
  /\ frozen' = frozen \ {thread[t].cid}
  /\ IF Closing(t) THEN Continue(t, "closePids") ELSE Answer(t)
  /\ UNCHANGED <<status, at, dirs, capped, registry, history>>

\* groups_close for one controller.  What the group lists is written into the
\* parent's tasks file; the kernel takes one process id per write and refuses
\* more.  os.rmdir fails when processes are left; the error is only printed.
CloseGroup(t, step, c, next) ==
  LET i == thread[t].cid  left == {p \in Procs : Running(p) /\ at[c][p] = i} IN
  /\ At(t, step)
  /\ IF Cardinality(left) > 1
     THEN UNCHANGED <<at, dirs, frozen, capped>>
     ELSE /\ at' = [at EXCEPT ![c] = [p \in Procs |-> IF p \in left THEN None ELSE @[p]]]
          /\ dirs' = [dirs EXCEPT ![c] = @ \ {i}]
          /\ frozen' = IF c = "freezer" THEN frozen \ {i} ELSE frozen
          /\ capped' = IF c = "pids" THEN capped \ {i} ELSE capped
  /\ Continue(t, next)
  /\ UNCHANGED <<status, registry, history>>

\* del self.sessions[session_id], whichever object it is by now
Forget(t) ==
  /\ At(t, "forget")
  /\ sessions' = [sessions EXCEPT ![thread[t].cid] = 0]
  /\ Return(t)
  /\ UNCHANGED <<system, object, stored, known, history>>

---------------------------------------------------------------------------
Step(t) ==
  \/ Sweep(t) \/ Test(t) \/ Count(t) \/ Drop(t) \/ Delete(t)
  \/ MakeGroup(t, "makePids", "pids", "makeFreezer")
  \/ MakeGroup(t, "makeFreezer", "freezer", "register")
  \/ Register(t) \/ Reopen(t) \/ CheckAttach(t) \/ IntoPids(t) \/ IntoFreezer(t)
  \/ CheckDetach(t) \/ OutOf(t, "outOfPids", "pids") \/ OutOf(t, "outOfFreezer", "freezer")
  \/ \E time \in {"none", "runs"} : Limit(t, time)
  \/ Stats(t) \/ Find(t) \/ NoFreezer(t) \/ Freeze(t) \/ Wait(t)
  \/ List(t) \/ Kill(t) \/ Restore(t) \/ WaitAgain(t) \/ Thaw(t)
  \/ CloseGroup(t, "closePids", "pids", "closeFreezer")
  \/ CloseGroup(t, "closeFreezer", "freezer", "forget")
  \/ Forget(t) \/ Tell(t)

Next ==
  \/ \E p, q \in Procs : Fork(p, q)
  \/ \E p \in Procs : Exit(p)
  \/ \E n \in DOMAIN object : TimeOver(n)
  \/ \E i \in Ids : Age(i)
  \/ \E t \in Threads, op \in Commands, p \in Procs, i \in Ids : Receive(t, op, p, i)
  \/ Tick
  \/ \E t \in Threads : Step(t)

Spec == Init /\ [][Next]_vars

---------------------------------------------------------------------------
\* Types; only a group that exists is frozen or has limits.
TypeOK ==
  /\ status \in [Procs -> {"unborn", "running", "killed", "dead"}]
  /\ at \in [Controllers -> [Procs -> Ids \cup {None}]]
  /\ dirs \in [Controllers -> SUBSET Ids]
  /\ frozen \subseteq dirs["freezer"] /\ capped \subseteq dirs["pids"]
  /\ object \in Seq(SessionObject) /\ Len(object) <= MaxObject
  /\ sessions \in [Ids -> 0 .. Len(object)]
  /\ stored \in [Ids -> {"none", "fresh", "old"}] /\ known \subseteq Ids
  /\ thread \in [Threads -> Thread]
  /\ bound \in [Procs -> 0 .. Len(object)] /\ limited \subseteq Ids

\* The first Session object of an id; a later one can be closed by a clean-up
\* that was after its predecessor, because close goes by id.
First(n) == \A m \in 1 .. (n - 1) : object[m].id # object[n].id
Gone(n)  == sessions[object[n].id] = n /\ sessions'[object[n].id] # n

\* A session leaves the registry only when its time was over, when its creator
\* is gone, or by a close request: however clean-ups, which test and close in
\* separate steps (server.py:255-260), overlap with each other and with requests.
FirstSessionKept ==
  [][\A n \in DOMAIN object : First(n) /\ Gone(n) =>
       \/ object[n].late
       \/ ~Running(object[n].creator)
       \/ \E t \in Threads : thread[t].op = "close" /\ thread[t].id = object[n].id]_vars

\* Statistics are read before the group is removed: who asks after the end of a
\* session gets them, also when two threads close it at once (server.py:308-318).
StatsOutliveGroups ==
  [][\A n \in DOMAIN object : First(n) /\ Gone(n) => stored'[object[n].id] # "none"]_vars

\* No process whose attach was answered before a close began, and no child of
\* one, outlives the session: a group that is not frozen could fork between the
\* listing and the signals (server.py:217-229).  True when clients do not freeze,
\* thaw or kill the session at the same time.
BoundProcessesDie ==
  \A p \in Procs : \A n \in {bound[p]} \ {0} :
    First(n) /\ sessions[object[n].id] # n => status[p] \in {"killed", "dead"}

\* A process in the group of a session that was given limits is under limits.
\* attach makes a session that was closed anew, without them (server.py:273-276).
LimitsStick ==
  \A i \in limited : Members(i) # {} => i \in capped
=============================================================================
