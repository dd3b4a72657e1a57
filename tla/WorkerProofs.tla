---------------------------- MODULE WorkerProofs ----------------------------
(***************************************************************************)
(* Proofs about Worker, for any number of runs of a task and any number of *)
(* faults of Docker, stage0, stage2 and the observer.                      *)
(*                                                                         *)
(* The argument: until docker run, nothing of this run exists; from then   *)
(* on, what a container of this run has written is settled by the step it  *)
(* is at, and a container of an earlier run writes elsewhere.  stage2      *)
(* finds the observer's path whenever it found it before.                  *)
(***************************************************************************)
EXTENDS Worker, TLAPS

\* Runs are counted from one, and no container is from a later run.
RunsOK ==
  /\ stage0 # "idle" => run >= 1
  /\ box # None => box.run <= run

\* Before docker run there is no container of this run, and nothing written.
BeforeRun ==
  stage0 \in {"pull", "clean", "reset", "run"} => (box # None => box.run < run) /\ dir = {}

\* No code is made up before the container is found to have ended.
NoCodeYet == stage0 \in {"run", "watch"} => result = NoResult

\* What the container of this run has written, by its step.
Written ==
  /\ box.step = "start" => dir = {}
  /\ box.step \in {"limit", "exec"} => dir = {"reserved"}
  /\ box.step \in {"task", "stop", "collect"} => dir = {"reserved", "stdout"}
  /\ box.step = "summary" => dir = {"stdout", "collected"}
  /\ box.step = "exited" /\ box.code = 0 => dir = {"stdout", "collected", "summary"}

WrittenByStep == stage0 \in {"watch", "ship"} /\ box # None /\ box.run = run => Written

\* Once its command has returned, a container has a code.
CodeOnceReturned == box # None /\ box.step \in {"stop", "collect", "summary", "exited"} => box.code # None

\* A container that opened a session has the observer's path, answering or not.
PathStays ==
  box # None => /\ box.holds = "session" => box.link # "none"
                /\ box.step = "stop" => box.holds = "session"

\* Unless something failed, docker run finds the name free and the container it
\* starts is there until its code has been read.
FoundUnlessFailed ==
  ~failed =>
    /\ stage0 \in {"reset", "run"} => box = None
    /\ stage0 = "watch" => Mine
    /\ stage0 \in {"ship", "tidy", "done"} => result.code # None

\* The limits are in force from before the command is started.
LimitedBeforeTask == In("exec") /\ want.others => session.others

IInv == /\ TypeOK /\ RunsOK /\ BeforeRun /\ NoCodeYet /\ WrittenByStep /\ CodeOnceReturned /\ PathStays
        /\ FoundUnlessFailed /\ LimitedBeforeTask /\ CodeIsOfThisRun /\ TaskUnderLimits /\ SuccessMeansComplete

USE DEF Files, Killed, Gave, Unstarted, Void

LEMMA CodeFacts == {0, 2, Gave, Killed, Unstarted, Void} = Codes /\ None \notin Codes
BY NoneAssumption DEF Codes

LEMMA InitIInv == Init => IInv
<1> SUFFICES ASSUME Init PROVE IInv
  OBVIOUS
<1>1. MaxRuns \in Nat /\ MaxFaults \in Nat
  BY BoundAssumption
<1>2. 0 \in 0 .. MaxRuns /\ 0 \in 0 .. MaxFaults
  BY <1>1
<1>3. NoSession \in Limits /\ NoResult \in [code : Codes \cup {None}, files : SUBSET (Files \ {"summary"})]
  BY DEF NoSession, NoResult, Limits, Bool
<1>4. want \in Limits
  <2>1. PICK task \in Limits, node0 \in Limits : want = Merged(task, node0)
    BY DEF Init
  <2>2. task.time \in BOOLEAN /\ task.others \in BOOLEAN /\ node0.time \in BOOLEAN /\ node0.others \in BOOLEAN
    BY DEF Limits, Bool
  <2>3. (task.time \/ node0.time) \in BOOLEAN /\ (task.others \/ node0.others) \in BOOLEAN
    BY Zenon
  <2>4. Bool = BOOLEAN
    BY Zenon DEF Bool
  <2> DEFINE t == task.time \/ node0.time
             o == task.others \/ node0.others
  <2>5. t \in Bool /\ o \in Bool /\ want = [time |-> t, others |-> o]
    BY <2>1, <2>3, <2>4, Zenon DEF Merged
  <2> HIDE DEF t, o
  <2> QED
    BY <2>5 DEF Limits
<1>5. TypeOK
  BY <1>2, <1>3, <1>4 DEF TypeOK, Init, Bool
<1> QED
  BY <1>5 DEF Init, IInv, RunsOK, BeforeRun, NoCodeYet, WrittenByStep, CodeOnceReturned, PathStays,
     FoundUnlessFailed, LimitedBeforeTask, CodeIsOfThisRun, TaskUnderLimits, SuccessMeansComplete, In

\* What a container is after each way it can change.
LEMMA BoxFacts ==
  ASSUME TypeOK, box # None
  PROVE  /\ box \in Box /\ box.run \in 1 .. MaxRuns /\ box.run \in Nat
         /\ box.code \in Codes \cup {None} /\ box.link \in {"none", "ok", "broken"}
         /\ box.holds \in {"nothing", "session"}
BY BoundAssumption DEF TypeOK, Box

LEMMA MovesOn ==
  ASSUME TypeOK, box # None, NEW s \in {"limit", "exec", "task", "collect", "summary"}, To(s)
  PROVE  /\ box' \in Box /\ box' # None
         /\ box'.run = box.run /\ box'.step = s /\ box'.link = box.link /\ box'.code = box.code
         /\ box'.holds = box.holds
<1>1. box' \in Box
  BY BoxFacts, CodeFacts DEF To, Box
<1> QED
  BY <1>1, BoxFacts, NoneAssumption DEF To, Box

LEMMA Exits ==
  ASSUME TypeOK, box # None, NEW c \in Codes \cup {None}, Ends(c)
  PROVE  /\ box' \in Box /\ box' # None
         /\ box'.run = box.run /\ box'.step = "exited" /\ box'.code = c
         /\ box'.link = box.link /\ box'.holds = box.holds
<1>1. box' \in Box
  BY BoxFacts DEF Ends, Box
<1> QED
  BY <1>1, BoxFacts, NoneAssumption DEF Ends, Box

LEMMA LosesLink ==
  ASSUME TypeOK, box # None
  PROVE  /\ Unlinked \in Box /\ Unlinked # None
         /\ Unlinked.run = box.run /\ Unlinked.step = box.step /\ Unlinked.code = box.code
         /\ Unlinked.holds = box.holds /\ (Unlinked.link = "none" => box.link = "none")
<1>1. Unlinked \in Box
  BY BoxFacts DEF Unlinked, Box, Severed
<1> QED
  BY <1>1, BoxFacts, NoneAssumption DEF Unlinked, Box, Severed

\* stage2 opens a session with the observer.
LEMMA Attaches ==
  ASSUME TypeOK, box # None, box' = [box EXCEPT !.step = "limit", !.holds = "session"]
  PROVE  /\ box' \in Box /\ box' # None
         /\ box'.run = box.run /\ box'.step = "limit" /\ box'.link = box.link /\ box'.code = box.code
<1>1. box' \in Box
  BY BoxFacts DEF Box
<1> QED
  BY <1>1, BoxFacts, NoneAssumption DEF Box

\* docker run makes a container that runs, or one that does not.
LEMMA Creation ==
  ASSUME TypeOK, RunsOK, stage0 # "idle", NEW s \in {"start", "exited"}, NEW c \in Codes \cup {None},
         Creates(s, c)
  PROVE  /\ box = None /\ box' \in Box /\ box' # None
         /\ box'.run = run /\ box'.step = s /\ box'.code = c /\ box'.holds = "nothing"
         /\ observer' \in {"up", "dead", "off", "blocked"}
         /\ session' = NoSession
<1>1. run \in 1 .. MaxRuns
  BY BoundAssumption DEF TypeOK, RunsOK
<1>2. Link \in {"none", "ok", "broken"} /\ observer' \in {"up", "dead", "off", "blocked"}
  BY DEF TypeOK, Link, Creates, Mounted
<1>3. box' \in Box
  BY <1>1, <1>2 DEF Creates, Box
<1> QED
  BY <1>2, <1>3, NoneAssumption DEF Creates

LEMMA CommandEnds ==
  ASSUME TypeOK, NEW c \in {0, 2}, Returns(c)
  PROVE  /\ box' \in Box /\ box' # None
         /\ box'.run = box.run /\ box'.step \in {"collect", "stop"} /\ box'.code = c
         /\ box'.link = box.link /\ box'.holds = box.holds
         /\ (box'.step = "stop" => box'.holds = "session")
<1>1. box # None /\ box \in Box
  BY BoxFacts DEF Returns, In
<1>2. PICK s \in {"collect", "stop"} : /\ box' = [box EXCEPT !.step = s, !.code = c]
                                       /\ s = "stop" => box.holds = "session"
  BY DEF Returns
<1>3. box' \in Box
  BY <1>1, <1>2, CodeFacts DEF Box
<1> QED
  BY <1>1, <1>2, <1>3, NoneAssumption DEF Box

\* Every step keeps the types.
LEMMA NextTypeOK == TypeOK /\ RunsOK /\ [Next]_vars => TypeOK'
<1> SUFFICES ASSUME TypeOK, RunsOK, [Next]_vars PROVE TypeOK'
  OBVIOUS
<1> USE DEF node, Bool
<1>1. /\ run \in Nat /\ MaxRuns \in Nat /\ faults \in Nat /\ MaxFaults \in Nat
      /\ NoSession \in Limits /\ NoResult \in [code : Codes \cup {None}, files : SUBSET (Files \ {"summary"})]
  BY BoundAssumption DEF TypeOK, NoSession, NoResult, Limits
<1>0. /\ 0 \in Codes /\ Gave \in Codes /\ Killed \in Codes /\ Unstarted \in Codes /\ Void \in Codes
      /\ None \notin Codes
  BY CodeFacts
<1>2. Fault => faults' \in 0 .. MaxFaults
  BY <1>1 DEF Fault, TypeOK
<1>3. (Fine \/ Fails) => faults' \in 0 .. MaxFaults /\ failed' \in Bool
  BY <1>2 DEF Fails, Fine, TypeOK
<1>4. CASE Prepare
  <2>1. run' \in 0 .. MaxRuns
    BY <1>1, <1>4 DEF Prepare
  <2> QED
    BY <1>4, <2>1 DEF TypeOK, Prepare
<1>5. CASE Pull
  BY <1>3, <1>5 DEF TypeOK, Pull
<1>6. CASE CleanBefore \/ CleanAfter
  BY <1>1, <1>3, <1>6 DEF TypeOK, CleanBefore, CleanAfter, Clean
<1>7. CASE Reset
  BY <1>1, <1>3, <1>7 DEF TypeOK, Reset
<1>8. CASE Run
  <2>1. CASE box = None /\ (\E s \in {"start", "exited"}, c \in Codes \cup {None} : Creates(s, c))
    <3>1. box' \in Box /\ session' \in Limits /\ observer' \in {"up", "dead", "off", "blocked"}
      <4>1. PICK s \in {"start", "exited"}, c \in Codes \cup {None} : Creates(s, c)
        BY <2>1
      <4>2. stage0 # "idle"
        BY <1>8 DEF Run
      <4> QED
        BY <1>1, <4>1, <4>2, Creation
    <3>2. UNCHANGED <<want, run, mount, overtime, result, dir>> /\ stage0' = "watch" /\ (Fine \/ Fails)
      BY <1>8 DEF Run
    <3> QED
      BY <1>3, <3>1, <3>2 DEF TypeOK
  <2>2. CASE UNCHANGED <<box, session, observer>>
    BY <1>1, <1>3, <1>8, <2>2 DEF TypeOK, Run
  <2> QED
    BY <1>0, <1>8, <2>1, <2>2 DEF Run, Creates
<1>9. CASE Inspect
  <2>1. box # None => box.code \in Codes \cup {None}
    BY BoxFacts DEF Box
  <2>2. result' \in [code : Codes \cup {None}, files : SUBSET (Files \ {"summary"})]
    BY <1>9, <2>1 DEF TypeOK, Inspect, Mine
  <2> QED
    BY <1>3, <1>9, <2>2 DEF TypeOK, Inspect
<1>10. CASE Ship
  <2>1. result' \in [code : Codes \cup {None}, files : SUBSET (Files \ {"summary"})]
    BY <1>10 DEF TypeOK, Ship
  <2> QED
    BY <1>3, <1>10, <2>1 DEF TypeOK, Ship
<1>11. CASE Raise \/ TimePasses
  BY <1>3, <1>11 DEF TypeOK, Raise, TimePasses
<1>12. CASE ObserverStarts
  BY <1>3, <1>12 DEF TypeOK, ObserverStarts
\* The steps of the container, its kill, and what the observer does to it.
<1>13. CASE KillLate \/ Stage2 \/ Stage2Fails \/ SessionOver \/ ObserverStops \/ ObserverDies
  <2>1. box' \in Box \cup {None}
    <3>1. CASE box = None
      BY <1>13, <3>1 DEF KillLate, Mine, Stage2, Start, Limit, Exec, Returns, Stop, Collect, Summary,
         Stage2Fails, SessionOver, Alive, In, ObserverStops, ObserverDies, Unlinked, Linked
    <3>2. CASE box # None
      <4>1. box \in Box /\ box.code \in Codes \cup {None}
        BY <3>2, BoxFacts DEF Box
      <4>2. \A c \in Codes \cup {None} : Ends(c) => box' \in Box
        BY <3>2, Exits
      <4>3. \A s \in {"limit", "exec", "task", "collect", "summary"} : To(s) => box' \in Box
        BY <3>2, MovesOn
      <4>4. Unlinked \in Box
        BY <3>2, LosesLink
      <4>5. \A c \in {0, 2} : Returns(c) => box' \in Box
        BY CommandEnds
      <4>6. box' = [box EXCEPT !.step = "limit", !.holds = "session"] => box' \in Box
        BY <3>2, Attaches
      <4> QED
        BY <1>0, <1>13, <4>1, <4>2, <4>3, <4>4, <4>5, <4>6 DEF KillLate, Stage2, Start, Limit, Exec, Stop, Lost,
           Collect, Summary, Stage2Fails, SessionOver, ObserverStops, ObserverDies
    <3> QED
      BY <3>1, <3>2
  <2>2. dir' \subseteq Files
    BY <1>13 DEF TypeOK, KillLate, Stage2, Start, Limit, Exec, Returns, Stop, Collect, Summary, Writes,
       Stage2Fails, SessionOver, ObserverStops, ObserverDies
  <2>3. session' \in Limits
    BY <1>1, <1>13 DEF TypeOK, KillLate, Stage2, Start, Limit, Exec, Returns, Stop, Collect, Summary,
       Stage2Fails, SessionOver, ObserverStops, ObserverDies, Limits
  <2>4. faults' \in 0 .. MaxFaults /\ failed' \in Bool /\ observer' \in {"up", "dead", "off", "blocked"}
    BY <1>2, <1>3, <1>13 DEF TypeOK, KillLate, Stage2, Start, Limit, Exec, Returns, Stop, Collect,
       Summary, Stage2Fails, SessionOver, ObserverStops, ObserverDies
  <2>5. UNCHANGED <<want, node>>
    BY <1>13 DEF KillLate, Stage2, Start, Limit, Exec, Returns, Stop, Collect, Summary,
       Stage2Fails, SessionOver, ObserverStops, ObserverDies
  <2> QED
    BY <2>1, <2>2, <2>3, <2>4, <2>5 DEF TypeOK
<1>14. CASE UNCHANGED vars
  BY <1>14 DEF TypeOK, vars
<1> QED
  BY <1>4, <1>5, <1>6, <1>7, <1>8, <1>9, <1>10, <1>11, <1>12, <1>13, <1>14 DEF Next, Stage0

\* Every step keeps the invariant.
LEMMA NextIInv == IInv /\ [Next]_vars => IInv'
<1> SUFFICES ASSUME IInv, [Next]_vars PROVE IInv'
  OBVIOUS
<1> USE DEF node, IInv
<1>1. TypeOK'
  BY NextTypeOK
<1>2. run \in Nat /\ run' \in Nat
  BY <1>1, BoundAssumption DEF TypeOK
<1>3. result \in [code : Codes \cup {None}, files : SUBSET (Files \ {"summary"})]
  BY DEF TypeOK
<1>4. /\ NoResult.code = None /\ None \notin Codes
      /\ 0 \in Codes /\ Gave \in Codes /\ Killed \in Codes /\ Unstarted \in Codes /\ Void \in Codes
  BY CodeFacts DEF NoResult
<1>5. box # None => box.run \in Nat
  BY BoxFacts
<1> USE DEF RunsOK, BeforeRun, NoCodeYet, WrittenByStep, Written, CodeOnceReturned, PathStays,
            FoundUnlessFailed, LimitedBeforeTask, CodeIsOfThisRun, TaskUnderLimits, SuccessMeansComplete, In, Mine, Fine, Fails
\* The steps of stage0.
<1>6. CASE Prepare
  BY <1>1, <1>2, <1>5, <1>6 DEF Prepare
<1>7. CASE Pull
  BY <1>1, <1>2, <1>7 DEF Pull
<1>8. CASE CleanBefore
  BY <1>1, <1>2, <1>8 DEF CleanBefore, Clean
<1>9. CASE CleanAfter
  BY <1>1, <1>2, <1>9 DEF CleanAfter, Clean
<1>10. CASE Reset
  BY <1>1, <1>2, <1>4, <1>10 DEF Reset
<1>11. CASE Run
  <2>1. CASE Creates("start", None) /\ Fine
    BY <1>1, <1>2, <1>11, <2>1, Creation DEF Run
  <2>2. CASE Fails /\ \E c \in {Unstarted, Void} : Creates("exited", c)
    <3>1. PICK c \in {Unstarted, Void} : Creates("exited", c)
      BY <2>2
    <3>2. c # None /\ c \in Codes /\ c # 0
      BY <1>4
    <3> QED
      BY <1>1, <1>2, <1>11, <2>2, <3>1, <3>2, Creation DEF Run
  <2>3. CASE UNCHANGED <<box, session>> /\ (box # None \/ Fails)
    BY <1>1, <1>2, <1>11, <2>3 DEF Run
  <2> QED
    BY <1>11, <2>1, <2>2, <2>3 DEF Run
<1>12. CASE Inspect
  BY <1>1, <1>2, <1>3, <1>4, <1>12 DEF Inspect, Alive
<1>13. CASE Ship
  <2>1. /\ stage0 = "ship" /\ stage0' = "tidy"
        /\ result'.code = result.code /\ result'.files = dir \ {"summary"}
        /\ UNCHANGED <<want, run, overtime, box, observer, session, faults, failed>>
    BY <1>3, <1>13 DEF Ship
  <2>2. SuccessMeansComplete'
    <3>1. SUFFICES ASSUME result.code = 0 PROVE dir \ {"summary"} = {"stdout", "collected"}
      BY <2>1
    <3>2. box # None /\ box.run = run /\ box.step = "exited" /\ box.code = 0
      BY <1>4, <2>1, <3>1
    <3>3. dir = {"stdout", "collected", "summary"}
      BY <2>1, <3>2
    <3> QED
      BY <3>3
  <2> QED
    BY <1>1, <1>2, <2>1, <2>2
<1>14. CASE Raise
  BY <1>1, <1>2, <1>14 DEF Raise
<1>15. CASE TimePasses
  BY <1>1, <1>2, <1>15 DEF TimePasses
<1>16. CASE KillLate
  BY <1>1, <1>2, <1>4, <1>16, Exits DEF KillLate, Alive
\* The steps of stage2.
<1>17. CASE Start
  BY <1>1, <1>2, <1>4, <1>17, MovesOn, Attaches, Exits DEF Start, Writes, Wants
<1>18. CASE Limit
  BY <1>1, <1>2, <1>4, <1>18, MovesOn, Exits DEF Limit, Sends
<1>19. CASE Exec
  BY <1>1, <1>2, <1>19, MovesOn DEF Exec, Writes
<1>20. CASE \E c \in {0, 2} : Returns(c)
  <2>1. PICK c \in {0, 2} : Returns(c)
    BY <1>20
  <2>2. box # None /\ box.step = "task" /\ UNCHANGED <<want, node, observer, session, dir, faults, failed>>
    BY <2>1 DEF Returns
  <2>3. /\ box' # None /\ box'.run = box.run
        /\ box'.step \in {"collect", "stop"} /\ box'.code # None
        /\ box'.link = box.link /\ box'.holds = box.holds /\ (box'.step = "stop" => box'.holds = "session")
    BY <1>4, <2>1, CommandEnds, CodeFacts
  <2> QED
    BY <1>1, <1>2, <2>2, <2>3
<1>21. CASE Stop
  BY <1>1, <1>2, <1>4, <1>21, MovesOn, Exits DEF Stop, Lost
<1>22. CASE Collect
  BY <1>1, <1>2, <1>22, MovesOn DEF Collect, Writes
<1>23. CASE Summary
  <2>1. box # None /\ box.step = "summary" /\ box.code # None
    BY <1>23 DEF Summary
  <2>2. /\ box' # None /\ box'.run = box.run /\ box'.step = "exited" /\ box'.code = box.code
        /\ box'.link = box.link /\ box'.holds = box.holds
    BY <1>23, <2>1, BoxFacts, Exits DEF Summary
  <2>3. UNCHANGED <<want, node, observer, session, faults, failed>>
    BY <1>23 DEF Summary
  <2>4. dir' = IF box.run = run THEN dir \cup {"summary"} ELSE dir
    BY <1>23 DEF Summary, Writes
  <2> QED
    BY <1>1, <1>2, <2>1, <2>2, <2>3, <2>4
<1>24. CASE Stage2Fails
  BY <1>1, <1>2, <1>4, <1>24, Exits DEF Stage2Fails, Alive
\* The observer.
<1>25. CASE SessionOver
  BY <1>1, <1>2, <1>4, <1>25, Exits DEF SessionOver, Alive
<1>26. CASE ObserverStops
  <2>1. UNCHANGED <<want, node, dir, failed>> /\ (~Linked => session' = session)
    BY <1>26 DEF ObserverStops
  <2>2. CASE box = None
    BY <1>1, <1>2, <1>26, <2>1, <2>2 DEF ObserverStops, Linked, Unlinked
  <2>3. CASE Linked /\ box.step \in {"limit", "exec", "task", "stop"}
    <3>1. /\ box # None /\ box' # None /\ box'.run = box.run /\ box'.step = "exited" /\ box'.code = Killed
          /\ box'.link = box.link /\ box'.holds = box.holds
      BY <1>4, <1>26, <2>3, Exits DEF ObserverStops, Linked
    <3> QED
      BY <1>1, <1>2, <1>4, <2>1, <2>3, <3>1
  <2>4. CASE box # None /\ ~(Linked /\ box.step \in {"limit", "exec", "task", "stop"})
    <3>1. /\ box' # None /\ box'.run = box.run /\ box'.step = box.step /\ box'.code = box.code
          /\ box'.holds = box.holds /\ (box'.link = "none" => box.link = "none")
      BY <1>26, <2>4, LosesLink DEF ObserverStops
    <3> QED
      BY <1>1, <1>2, <2>1, <2>4, <3>1
  <2> QED
    BY <2>2, <2>3, <2>4 DEF Linked
<1>27. CASE ObserverDies
  <2>1. UNCHANGED <<want, node, dir, failed>> /\ session'.others = session.others
    BY <1>27 DEF ObserverDies, TypeOK, Limits
  <2>2. CASE box = None
    BY <1>1, <1>2, <1>27, <2>1, <2>2 DEF ObserverDies, Linked, Unlinked
  <2>3. CASE box # None
    <3>1. /\ box' # None /\ box'.run = box.run /\ box'.step = box.step /\ box'.code = box.code
          /\ box'.holds = box.holds /\ (box'.link = "none" => box.link = "none")
      BY <1>27, <2>3, LosesLink DEF ObserverDies
    <3> QED
      BY <1>1, <1>2, <2>1, <2>3, <3>1
  <2> QED
    BY <2>2, <2>3
<1>28. CASE ObserverStarts
  BY <1>1, <1>2, <1>28 DEF ObserverStarts
<1>29. CASE UNCHANGED vars
  BY <1>1, <1>29 DEF vars
<1> QED
  BY <1>6, <1>7, <1>8, <1>9, <1>10, <1>11, <1>12, <1>13, <1>14, <1>15, <1>16, <1>17,
     <1>18, <1>19, <1>20, <1>21, <1>22, <1>23, <1>24, <1>25, <1>26, <1>27, <1>28, <1>29 DEF Next, Stage0, Stage2

LEMMA Invariance == Spec => []IInv
BY InitIInv, NextIInv, PTL DEF Spec

---------------------------------------------------------------------------
\* The types, for any bounds.
THEOREM TypeCorrect == Spec => []TypeOK
<1>1. IInv => TypeOK
  BY DEF IInv
<1> QED
  BY <1>1, Invariance, PTL

\* A result that says 0 is whole (stage2.py 357-425, stage0.py 242, 267-278):
\* whatever an earlier run left behind, and whatever fails.
THEOREM SuccessIsComplete == Spec => []SuccessMeansComplete
<1>1. IInv => SuccessMeansComplete
  BY DEF IInv
<1> QED
  BY <1>1, Invariance, PTL

\* The code stage0 reports is that of the container it started, ended for good
\* (stage0.py 71-76, 195-196, 208-247).
THEOREM CodeBelongsToRun == Spec => []CodeIsOfThisRun
<1>1. IInv => CodeIsOfThisRun
  BY DEF IInv
<1> QED
  BY <1>1, Invariance, PTL

\* Only Docker or stage0 can leave a run without an exit code: neither an earlier
\* run, nor stage2, nor the observer can (stage0.py 71-76, 208-247).
THEOREM AlwaysAnswers == Spec => []AnswersUnlessDockerFails
<1>1. IInv => AnswersUnlessDockerFails
  BY DEF IInv, FoundUnlessFailed, AnswersUnlessDockerFails
<1> QED
  BY <1>1, Invariance, PTL

\* A command that has a limit besides the time never runs without it, whenever
\* the observer stops, dies or starts (stage2.py 300-307, 145-175).
THEOREM NeverUnlimited == Spec => []TaskUnderLimits
<1>1. IInv => TaskUnderLimits
  BY DEF IInv
<1> QED
  BY <1>1, Invariance, PTL

=============================================================================
