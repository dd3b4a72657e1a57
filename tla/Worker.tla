------------------------------- MODULE Worker -------------------------------
(***************************************************************************)
(* The worker: stage0 (src/kolejka/worker/stage0.py) on the node, which    *)
(* runs a task in a Docker container and makes up its result, and stage2   *)
(* (stage2.py) in the container, which puts itself under the observer's    *)
(* limits, runs the task's command and collects files.                     *)
(*                                                                         *)
(* One task is run again and again, since stage0 may crash and leave its   *)
(* container behind.  The container has the name of the task, so there is  *)
(* at most one; runs do not overlap (a foreman joins its workers).         *)
(***************************************************************************)
EXTENDS Naturals

CONSTANTS MaxRuns,   \* bound: runs of stage0
          MaxFaults, \* bound: faults of stage0, Docker, stage2 and the observer
          None

ASSUME BoundAssumption == MaxRuns \in Nat \ {0} /\ MaxFaults \in Nat

VARIABLES want,      \* limits of the task and the node: is there a time, are there others?
          stage0, run,
          mount,     \* of the run: was the observer's socket there to be mounted?
          overtime,  \* of the run: more than the time limit and two seconds have passed
          box,       \* the container of the task's name, or None
          observer,  \* "up"; "dead", its socket left; "off"; "blocked", a directory in its place
          session,   \* limits of the box's session: is its time, are others enforced?
          dir,       \* what the box wrote into the directory mounted as result
          result,    \* what stage0 made up: exit code and files
          faults,    \* faults so far
          failed     \* of the run: Docker failed, or stage0 raised

node == <<stage0, run, mount, overtime, result>>
vars == <<want, node, box, observer, session, dir, faults, failed>>

Bool == {TRUE, FALSE}
Files == {"reserved", "stdout", "collected", "summary"}
NoSession == [time |-> FALSE, others |-> FALSE]
NoResult  == [code |-> None, files |-> {}]

\* Killed by a signal; what stage2 exits with when it raises or gives up; what Docker
\* says of a container that did not start.
Killed    == 137
Gave      == 1
Unstarted == 128
\* History: the code 0 of a container that was never even asked to start.
Void      == 256
Codes     == {0, Gave, Killed, Unstarted, Void, 2}  \* 2 is a failure of the task's command

Box == [run : 1 .. MaxRuns,
        step : {"start", "limit", "exec", "task", "stop", "collect", "summary", "exited"},
        link : {"none", "ok", "broken"}, \* the observer's path: not there; answers; does not
        holds : {"nothing", "session"},  \* stage2's variable observer
        code : Codes \cup {None}]        \* of the command, then of the container

ASSUME NoneAssumption == None \notin Nat /\ None \notin Box

Wants   == want.time \/ want.others
Alive   == box # None /\ box.step # "exited"
In(s)   == box # None /\ box.step = s
To(s)   == box' = [box EXCEPT !.step = s]
Ends(c) == box' = [box EXCEPT !.step = "exited", !.code = c]
Fault   == faults < MaxFaults /\ faults' = faults + 1
Fails   == Fault /\ failed' = TRUE
Fine    == UNCHANGED <<faults, failed>>

Limits == [time : Bool, others : Bool]

\* KolejkaLimits.update: limited where the task or the node says so
Merged(task, node0) == [time |-> task.time \/ node0.time, others |-> task.others \/ node0.others]

Init ==
  /\ \E task, node0 \in Limits : want = Merged(task, node0)
  /\ stage0 = "idle" /\ run = 0 /\ mount = FALSE /\ overtime = FALSE
  /\ box = None /\ observer \in {"up", "dead", "off"} /\ session = NoSession
  /\ dir = {} /\ result = NoResult
  /\ faults = 0 /\ failed = FALSE

---------------------------------------------------------------------------
(* stage0 *)

\* The description is read and merged with the node's limits, the temporary directory
\* is filled, the task's result directory in it, and the observer's socket is looked for.
Prepare ==
  /\ stage0 \in {"idle", "done", "crashed"} /\ run < MaxRuns
  /\ run' = run + 1 /\ mount' = (observer # "off") /\ overtime' = FALSE /\ failed' = FALSE
  /\ dir' = {}
  /\ stage0' = "pull"
  /\ UNCHANGED <<want, box, observer, session, result, faults>>

\* The storage driver is asked for, and the image is there or is pulled; a failure
\* of either ends the run here.
Pull ==
  /\ stage0 = "pull"
  /\ \/ stage0' = "clean" /\ Fine
     \/ stage0' = "crashed" /\ Fails
  /\ UNCHANGED <<want, run, mount, overtime, box, observer, session, dir, result>>

\* docker kill and docker rm --force of the name; their errors are ignored.
Clean ==
  \/ box' = None /\ session' = NoSession /\ Fine
  \/ box # None /\ UNCHANGED <<box, session>> /\ Fails

\* (a plausible bug: the container of an earlier run is not removed)
CleanBefore_None ==
  /\ stage0 = "clean" /\ stage0' = "reset"
  /\ UNCHANGED <<want, run, mount, overtime, result, observer, dir, box, session>> /\ Fine

CleanBefore ==
  /\ stage0 = "clean" /\ stage0' = "reset"
  /\ Clean
  /\ UNCHANGED <<want, run, mount, overtime, result, observer, dir>>

\* The result directory of an earlier run is removed.
Reset ==
  /\ stage0 = "reset" /\ stage0' = "run"
  /\ result' = NoResult
  /\ UNCHANGED <<want, run, mount, overtime, box, observer, session, dir>> /\ Fine

\* The socket is bound into the container by itself.  Docker makes a directory of a path
\* that is no longer there; no observer can bind its socket to that (http_socket.py:19).
Link    == IF ~mount THEN "none" ELSE IF observer = "up" THEN "ok" ELSE "broken"
Mounted == IF mount /\ observer = "off" THEN "blocked" ELSE observer

Creates(step, code) ==
  /\ box = None
  /\ box' = [run |-> run, step |-> step, link |-> Link, holds |-> "nothing", code |-> code]
  /\ session' = NoSession /\ observer' = Mounted

\* docker run --name: refused when the name is taken.  A failure is not noticed: the id
\* of the container is then empty, or that of one that was created and did not start.
Run ==
  /\ stage0 = "run" /\ stage0' = "watch"
  /\ \/ Creates("start", None) /\ Fine
     \/ (\E c \in {Unstarted, Void} : Creates("exited", c)) /\ Fails
     \/ box # None /\ UNCHANGED <<box, session, observer>> /\ Fine
     \/ Fails /\ UNCHANGED <<box, session, observer>>
  /\ UNCHANGED <<want, run, mount, overtime, result, dir>>

\* (a plausible bug: the container is looked up by its name)
Mine_ByName == box # None

\* Docker finds the container by the id that docker run printed.
Mine == box # None /\ box.run = run

\* One turn of the loop: inspect the container by its id.  When that fails, the
\* loop ends without an exit code, though the container may be running.
Inspect ==
  /\ stage0 = "watch"
  /\ \/ /\ Mine /\ ~Alive
        /\ result' = [result EXCEPT !.code = box.code]
        /\ stage0' = "ship" /\ Fine
     \/ /\ ~Mine
        /\ stage0' = "ship" /\ UNCHANGED result /\ Fine
     \/ /\ Mine /\ Alive
        /\ stage0' = "ship" /\ UNCHANGED result /\ Fails
  /\ UNCHANGED <<want, run, mount, overtime, box, observer, session, dir>>

\* (a plausible bug: the time is left to an observer that runs)
KillLate_Observed ==
  /\ stage0 = "watch" /\ Mine /\ Alive /\ want.time /\ overtime /\ observer # "up"
  /\ Ends(Killed)
  /\ UNCHANGED <<want, node, observer, session, dir>> /\ Fine

\* docker kill of the name, tried again each turn
KillLate ==
  /\ stage0 = "watch" /\ Mine /\ Alive /\ want.time /\ overtime
  /\ Ends(Killed)
  /\ UNCHANGED <<want, node, observer, session, dir>> /\ Fine

\* (a plausible bug: stage2's summary becomes a file of the result)
Ship_Summary ==
  /\ stage0 = "ship" /\ stage0' = "tidy"
  /\ result' = [result EXCEPT !.files = dir]
  /\ dir' = {}
  /\ UNCHANGED <<want, run, mount, overtime, box, observer, session>> /\ Fine

\* Everything in the directory becomes a file of the result, but the summary.
Ship ==
  /\ stage0 = "ship" /\ stage0' = "tidy"
  /\ result' = [result EXCEPT !.files = dir \ {"summary"}]
  /\ dir' = dir \cap {"summary"}
  /\ UNCHANGED <<want, run, mount, overtime, box, observer, session>> /\ Fine

\* Any exception of stage0, or its death, skips the last clean-up: the container
\* stays, running or not.
Raise ==
  /\ stage0 \in {"reset", "run", "watch", "ship", "tidy"}
  /\ stage0' = "crashed" /\ Fails
  /\ UNCHANGED <<want, run, mount, overtime, box, observer, session, dir, result>>

CleanAfter ==
  /\ stage0 = "tidy" /\ stage0' = "done"
  /\ Clean
  /\ UNCHANGED <<want, run, mount, overtime, result, observer, dir>>

TimePasses ==
  /\ stage0 = "watch" /\ ~overtime /\ overtime' = TRUE
  /\ UNCHANGED <<want, stage0, run, mount, result, box, observer, session, dir>> /\ Fine

---------------------------------------------------------------------------
(* stage2 in the container.  A container of a crashed run goes on; it has a *)
(* directory of its own.                                                    *)

Writes(files) == dir' = IF box.run = run THEN files ELSE dir

\* The reserved file, the description, and attach with a new session; without a
\* socket a task with limits is given up.
Start ==
  /\ In("start")
  /\ Writes(dir \cup {"reserved"})
  /\ \/ box.link = "none" /\ Wants /\ Ends(Gave)
     \/ box.link = "none" /\ ~Wants /\ To("exec")
     \/ box.link = "broken" /\ Ends(Gave)
     \/ box.link = "ok" /\ box' = [box EXCEPT !.step = "limit", !.holds = "session"]
  /\ UNCHANGED <<want, node, observer, session>> /\ Fine

\* (a plausible bug: limits are sent when the time is limited)
Sends_Time == want.time

\* limits are sent when there is another one than the time.
Sends == want.others

Limit ==
  /\ In("limit")
  /\ IF box.link = "ok"
     THEN /\ session' = IF Sends THEN [time |-> want.time, others |-> want.others] ELSE session
          /\ To("exec")
     ELSE UNCHANGED session /\ (IF Sends THEN Ends(Gave) ELSE To("exec"))
  /\ UNCHANGED <<want, node, observer, dir>> /\ Fine

Exec ==
  /\ In("exec") /\ To("task")
  /\ Writes(dir \cup {"stdout"})
  /\ UNCHANGED <<want, node, observer, session>> /\ Fine

\* The command may also run for ever.
Returns(c) ==
  /\ In("task")
  /\ box' = [box EXCEPT !.step = IF box.holds = "session" THEN "stop" ELSE "collect", !.code = c]
  /\ UNCHANGED <<want, node, observer, session, dir>> /\ Fine

\* What stage2 exits with when the observer cannot be reached any more: with 0 where the
\* path is not there (stage2.py:180-182), by raising where it cannot connect.
Lost == IF box.link = "none" THEN 0 ELSE Gave

\* observer_stop: stats, whose answer is read; detach and close, whose are not.
Stop ==
  /\ In("stop")
  /\ IF box.link = "ok" THEN To("collect") /\ session' = NoSession
     ELSE Ends(Lost) /\ UNCHANGED session
  /\ UNCHANGED <<want, node, observer, dir>> /\ Fine

Collect ==
  /\ In("collect") /\ To("summary")
  /\ Writes((dir \ {"reserved"}) \cup {"collected"})
  /\ UNCHANGED <<want, node, observer, session>> /\ Fine

\* The summary is written last; then stage2 exits with the command's code.
Summary ==
  /\ In("summary") /\ Ends(box.code)
  /\ Writes(dir \cup {"summary"})
  /\ UNCHANGED <<want, node, observer, session>> /\ Fine

\* An exception of stage2, on a full disk or an unreadable description.
Stage2Fails ==
  /\ Alive /\ box.step # "task" /\ Ends(Gave)
  /\ Fault
  /\ UNCHANGED <<want, node, observer, session, dir, failed>>

---------------------------------------------------------------------------
(* The observer *)

\* A session whose time is over is killed with all in it, stage2 too.
SessionOver ==
  /\ Alive /\ session.time /\ observer = "up"
  /\ Ends(Killed) /\ session' = NoSession
  /\ UNCHANGED <<want, node, observer, dir>> /\ Fine

\* A clean stop closes the sessions, with all in them, and removes the socket; a
\* crash does neither, and nobody enforces the time any more.  In a container the
\* socket is that of the observer it started with, and only that one has its session.

\* (a plausible bug: the directory of the socket is mounted, not the socket)
Severed_Gone == "none"

\* What an observer that ends leaves of its path in a container.  The mount keeps the
\* path, though the observer unlinks its socket on the node: it is there and answers no
\* more.  That is why stage2 never takes its exit with 0.
Severed == "broken"

Linked   == box # None /\ box.link = "ok"
Unlinked == IF Linked THEN [box EXCEPT !.link = Severed] ELSE box

ObserverStops ==
  /\ observer = "up" /\ observer' = "off" /\ Fault
  /\ session' = IF Linked THEN NoSession ELSE session
  /\ IF Linked /\ box.step \in {"limit", "exec", "task", "stop"}
     THEN Ends(Killed) ELSE box' = Unlinked
  /\ UNCHANGED <<want, node, dir, failed>>

ObserverDies ==
  /\ observer = "up" /\ observer' = "dead" /\ Fault
  /\ box' = Unlinked /\ session' = [session EXCEPT !.time = FALSE]
  /\ UNCHANGED <<want, node, dir, failed>>

ObserverStarts ==
  /\ observer \in {"dead", "off"} /\ observer' = "up"
  /\ UNCHANGED <<want, node, box, session, dir>> /\ Fine

---------------------------------------------------------------------------
Stage0 == CleanBefore \/ Reset \/ Run \/ Inspect \/ KillLate \/ Ship \/ CleanAfter
Stage2 == Start \/ Limit \/ Exec \/ (\E c \in {0, 2} : Returns(c)) \/ Stop \/ Collect \/ Summary
Next ==
  \/ Prepare \/ Pull \/ Stage0 \/ Raise \/ TimePasses
  \/ Stage2 \/ Stage2Fails
  \/ SessionOver \/ ObserverStops \/ ObserverDies \/ ObserverStarts

Spec == Init /\ [][Next]_vars

\* stage0 goes on by itself and its clock runs; neither the command, nor stage2,
\* nor the observer is assumed to get anywhere.
Fairness == WF_vars(Stage0 \/ Pull) /\ WF_vars(TimePasses)
FairSpec == Spec /\ Fairness

---------------------------------------------------------------------------
(* Properties *)

\* Types.
TypeOK ==
  /\ want \in Limits /\ session \in Limits
  /\ stage0 \in {"idle", "pull", "clean", "reset", "run", "watch", "ship", "tidy", "done", "crashed"}
  /\ run \in 0 .. MaxRuns /\ mount \in Bool /\ overtime \in Bool
  /\ box \in Box \cup {None}
  /\ observer \in {"up", "dead", "off", "blocked"}
  /\ dir \subseteq Files
  /\ result \in [code : Codes \cup {None}, files : SUBSET (Files \ {"summary"})]
  /\ faults \in 0 .. MaxFaults /\ failed \in Bool

\* A result that says 0 is whole: the task's output and the files to collect are
\* in it, and nothing of stage2's own (stage2.py 179-184, 357-425, stage0.py 242, 267-278).
\* Whatever goes wrong in the container, the code must not be 0.  The 0 that Docker shows
\* of a container it created and never started (Void) is the one that means nothing.
SuccessMeansComplete ==
  stage0 \in {"tidy", "done"} /\ result.code = 0 => result.files = {"stdout", "collected"}

\* The exit code stage0 reports is that of the container this run started, ended
\* for good, never of one that an earlier run of the task left behind (stage0.py
\* 71-76, 195-196, 208-247).
CodeIsOfThisRun ==
  stage0 \in {"ship", "tidy"} /\ result.code # None =>
    /\ box # None /\ box.run = run
    /\ box.step = "exited" /\ box.code = result.code

\* A run in which neither Docker nor stage0 failed ends with an exit code, whatever
\* an earlier run left behind and whatever stage2 and the observer do.
AnswersUnlessDockerFails == stage0 = "done" /\ ~failed => result.code # None

\* A task with a limit besides the time runs under it: without an observer that
\* takes the limits its command is not started (stage2.py 300-307, 145-175).
TaskUnderLimits == In("task") /\ want.others => session.others

\* stage0 does not watch a task with a time limit for ever: it is killed in the
\* end, though nobody else enforces the limit (stage0.py 223-249).
TimedRunsEnd == (stage0 = "watch" /\ want.time) ~> stage0 # "watch"
=============================================================================
