-------------------------- MODULE TaskQueueProofs --------------------------
(***************************************************************************)
(* Proofs about TaskQueue, for every number of tasks, references, users    *)
(* and handlers.                                                           *)
(***************************************************************************)
EXTENDS TaskQueue, TLAPS

\* What a request in flight knows about the rows it will write.
RequestOK(q) ==
  /\ q.pc \in TaskPCs \cup ResultPCs \cup {"deleteTask", "deleteResult"}
       => q.task \in Tasks /\ q.user \in Users
  /\ q.pc \in {"saveRef", "deleteRef", "addResultFile"} => q.ref \in Refs
  /\ q.pc = "checkTaskFiles" => task[q.task].state = "unused"
  /\ q.pc \in ResultPCs \cup {"addTaskFiles", "deleteTask", "deleteResult"}
       => task[q.task].state # "unused"
  /\ q.pc \in ResultPCs
       => q.outcome \in Outcomes /\ q.user \in assigned[q.task] \cup Graders
  /\ q.pc \in (ResultPCs \ {"checkResultFiles"}) \cup {"deleteResult"} => q.id # 0

RequestsOK == \A h \in Handlers : RequestOK(req[h])

\* Two requests never create the same task.
FreshKeys ==
  \A g, h \in Handlers : g # h /\ req[g].pc = "checkTaskFiles" /\ req[h].pc = "checkTaskFiles"
                           => req[g].task # req[h].task

\* What the rows of one task say about each other.
RowsOK ==
  \A t \in Tasks :
    /\ ~Present(t) => task[t].assignee = None /\ ~Resolved(t)
    /\ task[t].assignee # None => task[t].assignee \in assigned[t]
    /\ Resolved(t) => result[t].user \in Users /\ result[t].outcome \in Outcomes

IInv == TypeOK /\ RequestsOK /\ FreshKeys /\ RowsOK
          /\ ResultByAssignee /\ AnsweredWaitsOnlyIfLate

LEMMA InitInv == Init => IInv
BY NoneAssumption, BoundAssumption
DEF Init, IInv, TypeOK, RequestsOK, RequestOK, FreshKeys, RowsOK, ResultByAssignee, AnsweredWaitsOnlyIfLate,
    TaskRow, ResultRow, RefRow, Request, Stages, NoTask, NoResult, Idle, TaskPCs, ResultPCs,
    OtherPCs, Present, Resolved, Waiting

\* The shapes of rows and requests, expanded in every step.
USE DEF TaskRow, ResultRow, RefRow, Request, Stages, TaskPCs, ResultPCs, OtherPCs,
        Reply, Start, Goto, Present, Resolved, Exists, tables

\* Blank rows and the idle request, as far as later proofs need them.
LEMMA Blank ==
  /\ Idle \in Request /\ NoTask \in TaskRow /\ NoResult \in ResultRow
  /\ Idle.pc = "idle"
  /\ NoTask.assignee = None
  /\ NoResult.id = 0
BY BoundAssumption DEF Idle, NoTask, NoResult

\* The row a result handler writes.
LEMMA RowOfType ==
  ASSUME NEW q \in Request, NEW id \in 0 .. MaxResult
  PROVE  /\ RowOf(q, id) \in ResultRow
         /\ RowOf(q, id).id = id
         /\ RowOf(q, id).user = q.user
         /\ RowOf(q, id).outcome = q.outcome
         /\ RowOf(q, id).declared = q.refs
BY DEF RowOf

\* Every statement of every request leaves the tables well typed.
LEMMA NextTypeOK == TypeOK /\ RequestsOK /\ [Next]_vars => TypeOK'
<1> SUFFICES ASSUME TypeOK, RequestsOK, [Next]_vars PROVE TypeOK'
  OBVIOUS
<1>1. task \in [Tasks -> TaskRow]
  BY DEF TypeOK
<1>2. result \in [Tasks -> ResultRow]
  BY DEF TypeOK
<1>3. ref \in [Refs -> RefRow]
  BY DEF TypeOK
<1>4. nextId \in 1 .. MaxResult + 1
  BY DEF TypeOK
<1>5. req \in [Handlers -> Request]
  BY DEF TypeOK
<1>6. assigned \in [Tasks -> SUBSET Users]
  BY DEF TypeOK
<1>7. late \in SUBSET Tasks
  BY DEF TypeOK
<1>8. ASSUME NEW r \in Refs, NEW u \in Users, Upload(r, u) PROVE TypeOK'
  <2>1. ref' \in [Refs -> RefRow]
    BY <1>3, <1>8 DEF Upload
  <2> QED
    BY <1>1, <1>2, <1>4, <1>5, <1>6, <1>7, <1>8, <2>1 DEF Upload, TypeOK
<1>9. ASSUME NEW h \in Handlers, NEW r \in Refs, NEW u \in Users,
             ReadRef(h, r, u) PROVE TypeOK'
  <2>1. [Idle EXCEPT !.pc = "saveRef", !.user = u, !.ref = r, !.owner = ref[r].user] \in Request
    BY <1>3, Blank
  <2>2. req' \in [Handlers -> Request]
    BY <1>5, <2>1, <1>9 DEF ReadRef
  <2> QED
    BY <1>1, <1>2, <1>3, <1>4, <1>6, <1>7, <1>9, <2>2 DEF ReadRef, TypeOK
<1>10. ASSUME NEW h \in Handlers, NEW r \in Refs, NEW u \in Users,
             AskDeleteRef(h, r, u) PROVE TypeOK'
  <2>1. [Idle EXCEPT !.pc = "deleteRef", !.user = u, !.ref = r] \in Request
    BY Blank
  <2>2. req' \in [Handlers -> Request]
    BY <1>5, <2>1, <1>10 DEF AskDeleteRef
  <2> QED
    BY <1>1, <1>2, <1>3, <1>4, <1>6, <1>7, <1>10, <2>2 DEF AskDeleteRef, TypeOK
<1>11. ASSUME NEW h \in Handlers, SaveRef(h) PROVE TypeOK'
  <2>1. ref' \in [Refs -> RefRow]
    BY <1>3, <1>5, <1>11 DEF SaveRef
  <2>2. req' \in [Handlers -> Request]
    BY <1>5, <1>11, Blank DEF SaveRef
  <2> QED
    BY <1>1, <1>2, <1>4, <1>6, <1>7, <1>11, <2>1, <2>2 DEF SaveRef, TypeOK
<1>12. ASSUME NEW h \in Handlers, DeleteRef(h) PROVE TypeOK'
  <2>1. ref' \in [Refs -> RefRow]
    BY <1>3, <1>12 DEF DeleteRef
  <2>2. task' \in [Tasks -> TaskRow]
    BY <1>1, <1>12 DEF DeleteRef
  <2>3. result' \in [Tasks -> ResultRow]
    BY <1>2, <1>12 DEF DeleteRef
  <2>4. req' \in [Handlers -> Request]
    BY <1>5, <1>12, Blank DEF DeleteRef
  <2> QED
    BY <1>4, <1>6, <1>7, <1>12, <2>1, <2>2, <2>3, <2>4 DEF DeleteRef, TypeOK
<1>13. ASSUME NEW h \in Handlers, NEW u \in Users, NEW t \in Tasks, NEW F \in SUBSET Refs,
             PostTask(h, u, t, F) PROVE TypeOK'
  <2>1. [Idle EXCEPT !.pc = "checkTaskFiles", !.user = u, !.task = t, !.refs = F, !.todo = F] \in Request
    BY Blank
  <2>2. req' \in [Handlers -> Request]
    BY <1>5, <2>1, <1>13 DEF PostTask
  <2> QED
    BY <1>1, <1>2, <1>3, <1>4, <1>6, <1>7, <1>13, <2>2 DEF PostTask, TypeOK
<1>14. ASSUME NEW h \in Handlers, NEW r \in Refs, CheckTaskFile(h, r) PROVE TypeOK'
  <2>1. [req[h] EXCEPT !.todo = @ \ {r}] \in Request
    BY <1>5
  <2>2. req' \in [Handlers -> Request]
    BY <1>5, <2>1, <1>14, Blank DEF CheckTaskFile
  <2> QED
    BY <1>1, <1>2, <1>3, <1>4, <1>6, <1>7, <1>14, <2>2 DEF CheckTaskFile, TypeOK
<1>15. ASSUME NEW h \in Handlers, NEW r \in Refs, AddTaskFile(h, r) PROVE TypeOK'
  <2>1. [req[h] EXCEPT !.todo = @ \ {r}] \in Request
    BY <1>5
  <2>2. [task EXCEPT ![req[h].task].files = @ \cup {r}] \in [Tasks -> TaskRow]
    BY <1>1
  <2>3. req' \in [Handlers -> Request]
    BY <1>5, <2>1, <2>2, <1>15, Blank DEF AddTaskFile
  <2>4. task' \in [Tasks -> TaskRow]
    BY <1>1, <2>1, <2>2, <1>15 DEF AddTaskFile
  <2> QED
    BY <1>2, <1>3, <1>4, <1>6, <1>7, <1>15, <2>3, <2>4 DEF AddTaskFile, TypeOK
<1>16. ASSUME NEW h \in Handlers, SaveTask(h) PROVE TypeOK'
  <2>1. [NoTask EXCEPT !.state = "present", !.user = req[h].user] \in TaskRow
    BY <1>5, Blank
  <2>2. [req[h] EXCEPT !.pc = "addTaskFiles", !.todo = req[h].refs] \in Request
    BY <1>5
  <2>3. task' \in [Tasks -> TaskRow]
    BY <1>1, <2>1, <2>2, <1>16 DEF SaveTask
  <2>4. req' \in [Handlers -> Request]
    BY <1>5, <2>1, <2>2, <1>16 DEF SaveTask
  <2> QED
    BY <1>2, <1>3, <1>4, <1>6, <1>7, <1>16, <2>3, <2>4 DEF SaveTask, TypeOK
<1>17. ASSUME NEW h \in Handlers, TaskPosted(h) PROVE TypeOK'
  <2>1. req' \in [Handlers -> Request]
    BY <1>5, <1>17, Blank DEF TaskPosted
  <2> QED
    BY <1>1, <1>2, <1>3, <1>4, <1>6, <1>7, <1>17, <2>1 DEF TaskPosted, TypeOK
<1>18. ASSUME NEW u \in Users, NEW S \in SUBSET Tasks, HandOut(u, S) PROVE TypeOK'
  <2>1. task' \in [Tasks -> TaskRow]
    BY <1>1, <1>18 DEF HandOut
  <2>2. assigned' \in [Tasks -> SUBSET Users]
    BY <1>6, <1>18 DEF HandOut
  <2> QED
    BY <1>2, <1>3, <1>4, <1>5, <1>7, <1>18, <2>1, <2>2 DEF HandOut, TypeOK
<1>19. ASSUME NEW t \in Tasks, BecomeOverdue(t) PROVE TypeOK'
  <2>1. task' \in [Tasks -> TaskRow]
    BY <1>1, <1>19 DEF BecomeOverdue
  <2> QED
    BY <1>2, <1>3, <1>4, <1>5, <1>6, <1>7, <1>19, <2>1 DEF BecomeOverdue, TypeOK
<1>20. ASSUME Unassign PROVE TypeOK'
  <2>1. task' \in [Tasks -> TaskRow]
    BY <1>1, <1>20 DEF Unassign
  <2> QED
    BY <1>2, <1>3, <1>4, <1>5, <1>6, <1>7, <1>20, <2>1 DEF Unassign, TypeOK
<1>21. ASSUME NEW h \in Handlers, NEW u \in Users, NEW t \in Tasks, NEW d \in Outcomes, NEW F \in SUBSET Refs,
             PostResult(h, u, t, d, F) PROVE TypeOK'
  <2>1. [Idle EXCEPT !.pc = "checkResultFiles", !.user = u, !.task = t, !.outcome = d, !.refs = F, !.todo = F, !.owner = task[t].user] \in Request
    BY <1>1, Blank
  <2>2. req' \in [Handlers -> Request]
    BY <1>5, <2>1, <1>21 DEF PostResult
  <2> QED
    BY <1>1, <1>2, <1>3, <1>4, <1>6, <1>7, <1>21, <2>2 DEF PostResult, TypeOK
<1>22. ASSUME NEW h \in Handlers, NEW r \in Refs, CheckResultFile(h, r) PROVE TypeOK'
  <2>1. [req[h] EXCEPT !.todo = @ \ {r}] \in Request
    BY <1>5
  <2>2. req' \in [Handlers -> Request]
    BY <1>5, <2>1, <1>22, Blank DEF CheckResultFile
  <2> QED
    BY <1>1, <1>2, <1>3, <1>4, <1>6, <1>7, <1>22, <2>2 DEF CheckResultFile, TypeOK
<1>23. ASSUME NEW h \in Handlers, NEW r \in Refs, GiveRef(h, r) PROVE TypeOK'
  <2>1. [req[h] EXCEPT !.pc = "addResultFile", !.ref = r] \in Request
    BY <1>5
  <2>2. ref' \in [Refs -> RefRow]
    BY <1>3, <1>5, <1>23 DEF GiveRef
  <2>3. req' \in [Handlers -> Request]
    BY <1>5, <2>1, <1>23 DEF GiveRef
  <2> QED
    BY <1>1, <1>2, <1>4, <1>6, <1>7, <1>23, <2>2, <2>3 DEF GiveRef, TypeOK
<1>24. ASSUME NEW h \in Handlers, CreateResult(h) PROVE TypeOK'
  <2> DEFINE q == req[h]
  <2>1. q \in Request /\ q.task \in Tasks
    BY <1>5, <1>24 DEF CreateResult, RequestsOK, RequestOK
  <2>2. result[q.task].id \in 0 .. MaxResult
    BY <1>2, <2>1
  <2>3. nextId <= MaxResult => nextId \in 0 .. MaxResult /\ nextId + 1 \in 1 .. MaxResult + 1
    BY <1>4, BoundAssumption
  <2>4. nextId <= MaxResult => RowOf(q, nextId) \in ResultRow
    BY <2>1, <2>3, RowOfType
  <2>5. result' \in [Tasks -> ResultRow]
    BY <1>2, <1>24, <2>1, <2>4 DEF CreateResult
  <2>6. nextId' \in 1 .. MaxResult + 1
    BY <1>4, <1>24, <2>3 DEF CreateResult
  <2>7. \A p \in Request : [req EXCEPT ![h] = p] \in [Handlers -> Request]
    BY <1>5
  <2>8. req' \in [Handlers -> Request]
    <3>1. [q EXCEPT !.pc = "saveResult", !.id = result[q.task].id] \in Request
      BY <2>1, <2>2
    <3>2. nextId <= MaxResult => [q EXCEPT !.pc = "saveResult", !.id = nextId] \in Request
      BY <2>1, <2>3
    <3> HIDE DEF Request
    <3> QED
      BY <1>24, <2>7, <3>1, <3>2, Blank DEF CreateResult
  <2>9. late' \in SUBSET Tasks
    BY <1>7, <1>24, <2>1 DEF CreateResult, NoteLate
  <2> QED
    BY <1>1, <1>3, <1>6, <1>24, <2>5, <2>6, <2>8, <2>9 DEF CreateResult, TypeOK
<1>25. ASSUME NEW h \in Handlers, SaveResult(h) PROVE TypeOK'
  <2> DEFINE q == req[h]
  <2>1. q \in Request /\ q.task \in Tasks
    BY <1>5, <1>25 DEF SaveResult, RequestsOK, RequestOK
  <2>2. RowOf(q, q.id) \in ResultRow
    BY <2>1, RowOfType
  <2>3. result' \in [Tasks -> ResultRow]
    BY <1>2, <1>25, <2>1, <2>2 DEF SaveResult
  <2>4. [q EXCEPT !.pc = "giveRefs", !.todo = q.refs] \in Request
    BY <2>1
  <2>5. req' \in [Handlers -> Request]
    <3> HIDE DEF Request
    <3> QED
      BY <1>5, <1>25, <2>4, Blank DEF SaveResult
  <2>6. late' \in SUBSET Tasks
    BY <1>7, <1>25, <2>1 DEF SaveResult, NoteLate
  <2> QED
    BY <1>1, <1>3, <1>4, <1>6, <1>25, <2>3, <2>5, <2>6 DEF SaveResult, TypeOK
<1>26. ASSUME NEW h \in Handlers, AddResultFile(h) PROVE TypeOK'
  <2> DEFINE q == req[h]
  <2>1. q \in Request /\ q.task \in Tasks /\ q.ref \in Refs
    BY <1>5, <1>26 DEF AddResultFile, RequestsOK, RequestOK
  <2>2. [result EXCEPT ![q.task].files = @ \cup {q.ref}] \in [Tasks -> ResultRow]
    BY <1>2, <2>1
  <2>3. result' \in [Tasks -> ResultRow]
    BY <1>2, <1>26, <2>2 DEF AddResultFile
  <2>4. [q EXCEPT !.pc = "giveRefs", !.todo = @ \ {q.ref}, !.ref = None] \in Request
    BY <2>1
  <2>5. req' \in [Handlers -> Request]
    <3> HIDE DEF Request
    <3> QED
      BY <1>5, <1>26, <2>4, Blank DEF AddResultFile
  <2> QED
    BY <1>1, <1>3, <1>4, <1>6, <1>7, <1>26, <2>3, <2>5 DEF AddResultFile, TypeOK
<1>27. ASSUME NEW h \in Handlers, ResultPosted(h) PROVE TypeOK'
  <2>1. req' \in [Handlers -> Request]
    BY <1>5, <1>27, Blank DEF ResultPosted
  <2> QED
    BY <1>1, <1>2, <1>3, <1>4, <1>6, <1>7, <1>27, <2>1 DEF ResultPosted, TypeOK
<1>28. ASSUME NEW h \in Handlers, NEW u \in Users, NEW t \in Tasks,
             AskDeleteResult(h, u, t) PROVE TypeOK'
  <2>1. [Idle EXCEPT !.pc = "deleteResult", !.user = u, !.task = t, !.id = result[t].id] \in Request
    BY <1>2, Blank
  <2>2. req' \in [Handlers -> Request]
    BY <1>5, <2>1, <1>28 DEF AskDeleteResult
  <2> QED
    BY <1>1, <1>2, <1>3, <1>4, <1>6, <1>7, <1>28, <2>2 DEF AskDeleteResult, TypeOK
<1>29. ASSUME NEW h \in Handlers, NEW u \in Users, NEW t \in Tasks,
             AskDeleteTask(h, u, t) PROVE TypeOK'
  <2>1. [Idle EXCEPT !.pc = "deleteTask", !.user = u, !.task = t] \in Request
    BY Blank
  <2>2. req' \in [Handlers -> Request]
    BY <1>5, <2>1, <1>29 DEF AskDeleteTask
  <2> QED
    BY <1>1, <1>2, <1>3, <1>4, <1>6, <1>7, <1>29, <2>2 DEF AskDeleteTask, TypeOK
<1>30. ASSUME NEW h \in Handlers, DeleteResult(h) PROVE TypeOK'
  <2>1. result' \in [Tasks -> ResultRow]
    BY <1>2, <1>30, Blank DEF DeleteResult
  <2>2. late' \in SUBSET Tasks
    BY <1>7, <1>30 DEF DeleteResult
  <2>3. req' \in [Handlers -> Request]
    BY <1>5, <1>30, Blank DEF DeleteResult
  <2> QED
    BY <1>1, <1>3, <1>4, <1>6, <1>30, <2>1, <2>2, <2>3 DEF DeleteResult, TypeOK
<1>31. ASSUME NEW h \in Handlers, DeleteTask(h) PROVE TypeOK'
  <2>1. [NoTask EXCEPT !.state = "deleted"] \in TaskRow
    BY Blank
  <2>2. task' \in [Tasks -> TaskRow]
    BY <1>1, <2>1, <1>31 DEF DeleteTask
  <2>3. result' \in [Tasks -> ResultRow]
    BY <1>2, <1>31, Blank DEF DeleteTask
  <2>4. late' \in SUBSET Tasks
    BY <1>7, <1>31 DEF DeleteTask
  <2>5. req' \in [Handlers -> Request]
    BY <1>5, <1>31, Blank DEF DeleteTask
  <2> QED
    BY <1>3, <1>4, <1>6, <1>31, <2>2, <2>3, <2>4, <2>5 DEF DeleteTask, TypeOK
<1>32. ASSUME NEW h \in Handlers, Die(h) PROVE TypeOK'
  <2>1. req' \in [Handlers -> Request]
    BY <1>5, <1>32, Blank DEF Die
  <2> QED
    BY <1>1, <1>2, <1>3, <1>4, <1>6, <1>7, <1>32, <2>1 DEF Die, TypeOK
<1>33. CASE UNCHANGED vars
  BY <1>33 DEF vars, TypeOK
<1> QED
  BY <1>8, <1>9, <1>10, <1>11, <1>12, <1>13, <1>14, <1>15, <1>16, <1>17, <1>18, <1>19, <1>20, <1>21, <1>22, <1>23, <1>24, <1>25, <1>26, <1>27, <1>28, <1>29, <1>30, <1>31, <1>32, <1>33
  DEF Next, RefStep, TaskStep, QueueStep, ResultStep, DeleteStep

---------------------------------------------------------------------------
\* Only handler h moves.
Alone(h) == \A g \in Handlers \ {h} : req'[g] = req[g]

\* The columns the invariants speak of are not written.
SameRows ==
  /\ \A t \in Tasks :
       /\ task'[t].state = task[t].state /\ task'[t].assignee = task[t].assignee
       /\ result'[t].id = result[t].id /\ result'[t].user = result[t].user
       /\ result'[t].outcome = result[t].outcome
  /\ assigned' = assigned /\ late' = late

\* Handler h, unless it begins a POST, creates no task it did not before.
KeepsKey(h) ==
  req'[h].pc = "checkTaskFiles" => req[h].pc = "checkTaskFiles" /\ req'[h].task = req[h].task

\* The requests of the other handlers stay sound when keys stay used or
\* unused and users are only added to those a task was assigned to.
LEMMA OthersOK ==
  ASSUME NEW h \in Handlers, RequestsOK, Alone(h), RequestOK(req[h])',
         \A t \in Tasks : /\ task'[t].state = "unused" <=> task[t].state = "unused"
                          /\ assigned[t] \subseteq assigned'[t]
  PROVE  RequestsOK'
<1> SUFFICES ASSUME NEW g \in Handlers PROVE RequestOK(req[g])'
  BY DEF RequestsOK
<1>1. CASE g = h
  BY <1>1
<1>2. CASE g # h
  <2>1. req'[g] = req[g] /\ RequestOK(req[g])
    BY <1>2 DEF Alone, RequestsOK
  <2> QED
    BY <2>1 DEF RequestOK
<1> QED
  BY <1>1, <1>2

LEMMA KeysOK ==
  ASSUME NEW h \in Handlers, FreshKeys, Alone(h), KeepsKey(h)
  PROVE  FreshKeys'
BY DEF FreshKeys, Alone, KeepsKey

\* A statement that writes none of those columns keeps what is said of rows.
LEMMA RowsKept ==
  ASSUME SameRows, RowsOK, ResultByAssignee, AnsweredWaitsOnlyIfLate
  PROVE  RowsOK' /\ ResultByAssignee' /\ AnsweredWaitsOnlyIfLate'
BY DEF SameRows, RowsOK, ResultByAssignee, AnsweredWaitsOnlyIfLate, Waiting

\* ... and so the whole invariant, when the request itself stays sound.
LEMMA QuietStep ==
  ASSUME IInv, TypeOK', SameRows, NEW h \in Handlers, Alone(h), KeepsKey(h), RequestOK(req[h])'
  PROVE  IInv'
<1>1. RequestsOK'
  BY OthersOK DEF IInv, SameRows
<1> QED
  BY <1>1, KeysOK, RowsKept DEF IInv

\* A statement outside any request that writes rows of the task table only.
LEMMA TableStep ==
  ASSUME IInv, TypeOK', req' = req,
         \A t \in Tasks : /\ task'[t].state = task[t].state
                          /\ assigned[t] \subseteq assigned'[t],
         RowsOK', ResultByAssignee', AnsweredWaitsOnlyIfLate'
  PROVE  IInv'
<1>1. RequestsOK' /\ FreshKeys'
  BY DEF IInv, RequestsOK, RequestOK, FreshKeys
<1> QED
  BY <1>1 DEF IInv

\* Every statement preserves the inductive invariant.
LEMMA NextIInv == IInv /\ [Next]_vars => IInv'
<1> SUFFICES ASSUME IInv, [Next]_vars PROVE IInv'
  OBVIOUS
<1>1. TypeOK'
  BY NextTypeOK DEF IInv
<1>2. task \in [Tasks -> TaskRow] /\ result \in [Tasks -> ResultRow]
  BY DEF IInv, TypeOK
<1>3. req \in [Handlers -> Request] /\ assigned \in [Tasks -> SUBSET Users]
  BY DEF IInv, TypeOK
<1>4. RequestsOK /\ FreshKeys /\ RowsOK /\ ResultByAssignee /\ AnsweredWaitsOnlyIfLate
  BY DEF IInv
<1>5. ASSUME NEW r \in Refs, NEW u \in Users, Upload(r, u) PROVE IInv'
  <2>1. SameRows /\ req' = req
    BY <1>5 DEF Upload, SameRows
  <2> QED
    BY <1>1, <1>4, <2>1, TableStep, RowsKept DEF SameRows
<1>6. ASSUME NEW h \in Handlers, NEW r \in Refs, NEW u \in Users, ReadRef(h, r, u) PROVE IInv'
  <2>1. Alone(h) /\ KeepsKey(h) /\ SameRows
    BY <1>2, <1>3, <1>6, Blank DEF ReadRef, Alone, KeepsKey, SameRows
  <2>2. RequestOK(req[h])'
    BY <1>2, <1>3, <1>4, <1>6, Blank DEF ReadRef, RequestsOK, RequestOK
  <2> QED
    BY <1>1, <2>1, <2>2, QuietStep
<1>7. ASSUME NEW h \in Handlers, NEW r \in Refs, NEW u \in Users,
             AskDeleteRef(h, r, u) PROVE IInv'
  <2>1. Alone(h) /\ KeepsKey(h) /\ SameRows
    BY <1>2, <1>3, <1>7, Blank DEF AskDeleteRef, Alone, KeepsKey, SameRows
  <2>2. RequestOK(req[h])'
    BY <1>2, <1>3, <1>4, <1>7, Blank DEF AskDeleteRef, RequestsOK, RequestOK
  <2> QED
    BY <1>1, <2>1, <2>2, QuietStep
<1>8. ASSUME NEW h \in Handlers, SaveRef(h) PROVE IInv'
  <2>1. Alone(h) /\ KeepsKey(h) /\ SameRows
    BY <1>2, <1>3, <1>8, Blank DEF SaveRef, Alone, KeepsKey, SameRows
  <2>2. RequestOK(req[h])'
    BY <1>2, <1>3, <1>4, <1>8, Blank DEF SaveRef, RequestsOK, RequestOK
  <2> QED
    BY <1>1, <2>1, <2>2, QuietStep
<1>9. ASSUME NEW h \in Handlers, DeleteRef(h) PROVE IInv'
  <2>1. Alone(h) /\ KeepsKey(h) /\ SameRows
    BY <1>2, <1>3, <1>9, Blank DEF DeleteRef, Alone, KeepsKey, SameRows
  <2>2. RequestOK(req[h])'
    BY <1>2, <1>3, <1>4, <1>9, Blank DEF DeleteRef, RequestsOK, RequestOK
  <2> QED
    BY <1>1, <2>1, <2>2, QuietStep
<1>10. ASSUME NEW h \in Handlers, NEW u \in Users, NEW t \in Tasks, NEW F \in SUBSET Refs,
             PostTask(h, u, t, F) PROVE IInv'
  <2>1. SameRows /\ Alone(h)
    BY <1>3, <1>10 DEF PostTask, SameRows, Alone
  <2>2. req'[h].task = t /\ \A g \in Handlers : req[g].task # t
    BY <1>3, <1>10, Blank DEF PostTask
  <2>3. RequestOK(req[h])'
    BY <1>2, <1>3, <1>10, Blank DEF PostTask, RequestOK
  <2>4. RequestsOK'
    BY <1>4, <2>1, <2>3, OthersOK DEF SameRows
  <2>5. FreshKeys'
    BY <1>4, <2>1, <2>2 DEF FreshKeys, Alone
  <2> QED
    BY <1>1, <1>4, <2>1, <2>4, <2>5, RowsKept DEF IInv
<1>11. ASSUME NEW h \in Handlers, NEW r \in Refs, CheckTaskFile(h, r) PROVE IInv'
  <2>1. Alone(h) /\ KeepsKey(h) /\ SameRows
    BY <1>2, <1>3, <1>11, Blank DEF CheckTaskFile, Alone, KeepsKey, SameRows
  <2>2. RequestOK(req[h])'
    BY <1>2, <1>3, <1>4, <1>11, Blank DEF CheckTaskFile, RequestsOK, RequestOK
  <2> QED
    BY <1>1, <2>1, <2>2, QuietStep
<1>12. ASSUME NEW h \in Handlers, NEW r \in Refs, AddTaskFile(h, r) PROVE IInv'
  <2>1. Alone(h)
    BY <1>3, <1>12 DEF AddTaskFile, Alone
  <2>2. SameRows
    BY <1>2, <1>12 DEF AddTaskFile, SameRows
  <2>3. CASE req'[h] = Idle
    <3>1. KeepsKey(h) /\ RequestOK(req[h])'
      BY <2>3, Blank DEF KeepsKey, RequestOK
    <3> QED
      BY <1>1, <2>1, <2>2, <3>1, QuietStep
  <2>4. CASE req'[h] = [req[h] EXCEPT !.todo = @ \ {r}]
    <3>1. /\ req'[h].pc = "addTaskFiles" /\ req[h].pc = "addTaskFiles"
          /\ req'[h].task = req[h].task /\ req'[h].user = req[h].user
      BY <1>3, <1>12, <2>4 DEF AddTaskFile
    <3>2. KeepsKey(h) /\ RequestOK(req[h])'
      BY <1>4, <2>2, <3>1 DEF KeepsKey, RequestsOK, RequestOK, SameRows
    <3> QED
      BY <1>1, <2>1, <2>2, <3>2, QuietStep
  <2> QED
    BY <1>3, <1>12, <2>3, <2>4 DEF AddTaskFile
<1>13. ASSUME NEW h \in Handlers, SaveTask(h) PROVE IInv'
  <2> DEFINE t == req[h].task
  <2>1. /\ t \in Tasks /\ task[t].state = "unused" /\ req[h].user \in Users
        /\ req[h].pc = "checkTaskFiles"
    BY <1>4, <1>13 DEF SaveTask, RequestsOK, RequestOK
  <2>2. /\ Alone(h) /\ req'[h].pc = "addTaskFiles" /\ req'[h].task = t
        /\ req'[h].user = req[h].user
    BY <1>3, <1>13 DEF SaveTask, Alone
  <2>3. /\ \A x \in Tasks \ {t} : task'[x] = task[x]
        /\ task'[t].state = "present" /\ task'[t].assignee = None
        /\ result' = result /\ assigned' = assigned /\ late' = late
    BY <1>2, <1>13, <2>1, Blank DEF SaveTask
  <2>4. ASSUME NEW g \in Handlers PROVE RequestOK(req[g])'
    <3>1. CASE g = h
      BY <2>1, <2>2, <2>3, <3>1 DEF RequestOK
    <3>2. CASE g # h
      <4>1. req'[g] = req[g] /\ RequestOK(req[g])
        BY <1>4, <2>2, <3>2 DEF Alone, RequestsOK
      <4>2. req[g].pc = "checkTaskFiles" => req[g].task # t
        BY <1>4, <2>1, <3>2 DEF FreshKeys
      <4> QED
        BY <2>1, <2>3, <4>1, <4>2 DEF RequestOK
    <3> QED
      BY <3>1, <3>2
  <2>5. FreshKeys'
    BY <1>4, <2>2, KeysOK DEF KeepsKey
  <2>6. ~Resolved(t)
    BY <1>4, <2>1 DEF RowsOK
  <2>7. RowsOK' /\ ResultByAssignee' /\ AnsweredWaitsOnlyIfLate'
    BY <1>4, <2>3, <2>6 DEF RowsOK, ResultByAssignee, AnsweredWaitsOnlyIfLate, Waiting
  <2> QED
    BY <1>1, <2>4, <2>5, <2>7 DEF IInv, RequestsOK
<1>14. ASSUME NEW h \in Handlers, TaskPosted(h) PROVE IInv'
  <2>1. Alone(h) /\ KeepsKey(h) /\ SameRows
    BY <1>2, <1>3, <1>14, Blank DEF TaskPosted, Alone, KeepsKey, SameRows
  <2>2. RequestOK(req[h])'
    BY <1>2, <1>3, <1>4, <1>14, Blank DEF TaskPosted, RequestsOK, RequestOK
  <2> QED
    BY <1>1, <2>1, <2>2, QuietStep
<1>15. ASSUME NEW u \in Users, NEW S \in SUBSET Tasks, HandOut(u, S) PROVE IInv'
  <2>1. /\ \A x \in Tasks : /\ task'[x].state = task[x].state
                            /\ task'[x].assignee = IF x \in S THEN u ELSE task[x].assignee
                            /\ assigned'[x] = IF x \in S THEN assigned[x] \cup {u}
                                                         ELSE assigned[x]
        /\ result' = result /\ req' = req /\ late' = late /\ \A x \in S : Present(x)
    BY <1>2, <1>15 DEF HandOut, Waiting
  <2>2. RowsOK' /\ ResultByAssignee'
    BY <1>4, <2>1 DEF RowsOK, ResultByAssignee
  <2>3. AnsweredWaitsOnlyIfLate'
    BY <1>4, <2>1, NoneAssumption DEF AnsweredWaitsOnlyIfLate, Waiting
  <2> QED
    BY <1>1, <2>1, <2>2, <2>3, TableStep
<1>16. ASSUME NEW t \in Tasks, BecomeOverdue(t) PROVE IInv'
  <2>1. SameRows /\ req' = req
    BY <1>2, <1>16 DEF BecomeOverdue, SameRows
  <2> QED
    BY <1>1, <1>4, <2>1, TableStep, RowsKept DEF SameRows
<1>17. ASSUME Unassign PROVE IInv'
  <2>1. /\ \A x \in Tasks : /\ task'[x].state = task[x].state
                            /\ task'[x].assignee = IF Overdue(x) THEN None ELSE task[x].assignee
        /\ result' = result /\ req' = req /\ late' = late /\ assigned' = assigned
    BY <1>2, <1>17 DEF Unassign
  <2>2. RowsOK' /\ ResultByAssignee'
    BY <1>4, <2>1 DEF RowsOK, ResultByAssignee
  <2>3. AnsweredWaitsOnlyIfLate'
    BY <1>4, <2>1 DEF AnsweredWaitsOnlyIfLate, Waiting, Overdue
  <2> QED
    BY <1>1, <2>1, <2>2, <2>3, TableStep
<1>18. ASSUME NEW h \in Handlers, NEW u \in Users, NEW t \in Tasks, NEW d \in Outcomes, NEW F \in SUBSET Refs,
             PostResult(h, u, t, d, F) PROVE IInv'
  <2>1. Alone(h) /\ SameRows
    BY <1>3, <1>18 DEF PostResult, Alone, SameRows
  <2>2. /\ req'[h].pc = "checkResultFiles" /\ req'[h].task = t /\ req'[h].user = u
        /\ req'[h].outcome = d
    BY <1>3, <1>18, Blank DEF PostResult
  <2>3. Present(t) /\ u \in assigned[t] \cup Graders
    BY <1>4, <1>18, NoneAssumption DEF PostResult, MayAnswer, RowsOK
  <2>4. KeepsKey(h) /\ RequestOK(req[h])'
    BY <2>1, <2>2, <2>3 DEF KeepsKey, RequestOK, SameRows
  <2> QED
    BY <1>1, <2>1, <2>4, QuietStep
<1>19. ASSUME NEW h \in Handlers, NEW r \in Refs, CheckResultFile(h, r) PROVE IInv'
  <2>1. Alone(h) /\ SameRows
    BY <1>3, <1>19 DEF CheckResultFile, Alone, SameRows
  <2>2. CASE req'[h] = Idle
    <3>1. KeepsKey(h) /\ RequestOK(req[h])'
      BY <2>2, Blank DEF KeepsKey, RequestOK
    <3> QED
      BY <1>1, <2>1, <3>1, QuietStep
  <2>3. CASE req'[h] = [req[h] EXCEPT !.todo = @ \ {r}]
    <3>1. /\ req'[h].pc = "checkResultFiles" /\ req[h].pc = "checkResultFiles"
          /\ req'[h].task = req[h].task /\ req'[h].user = req[h].user
          /\ req'[h].outcome = req[h].outcome
      BY <1>3, <1>19, <2>3 DEF CheckResultFile
    <3>2. KeepsKey(h) /\ RequestOK(req[h])'
      BY <1>4, <2>1, <3>1 DEF KeepsKey, RequestsOK, RequestOK, SameRows
    <3> QED
      BY <1>1, <2>1, <3>2, QuietStep
  <2> QED
    BY <1>3, <1>19, <2>2, <2>3 DEF CheckResultFile
<1>20. ASSUME NEW h \in Handlers, NEW r \in Refs, GiveRef(h, r) PROVE IInv'
  <2>1. Alone(h) /\ KeepsKey(h) /\ SameRows
    BY <1>2, <1>3, <1>20, Blank DEF GiveRef, Alone, KeepsKey, SameRows
  <2>2. RequestOK(req[h])'
    BY <1>2, <1>3, <1>4, <1>20, Blank DEF GiveRef, RequestsOK, RequestOK
  <2> QED
    BY <1>1, <2>1, <2>2, QuietStep
<1>21. ASSUME NEW h \in Handlers, CreateResult(h) PROVE IInv'
  <2> DEFINE q == req[h]  t == q.task
  <2>1. /\ q \in Request /\ t \in Tasks /\ q.user \in Users /\ q.outcome \in Outcomes
        /\ q.user \in assigned[t] \cup Graders /\ task[t].state # "unused"
        /\ q.pc = "checkResultFiles"
    BY <1>3, <1>4, <1>21 DEF CreateResult, RequestsOK, RequestOK
  <2>2. Alone(h) /\ task' = task /\ assigned' = assigned
    BY <1>3, <1>21 DEF CreateResult, Alone
  <2>3. CASE /\ SameResult(t, q)
             /\ Goto(h, [q EXCEPT !.pc = "saveResult", !.id = result[t].id])
             /\ UNCHANGED <<result, nextId, late>>
    <3>1. SameRows
      BY <2>2, <2>3 DEF SameRows
    <3>2. /\ req'[h].pc = "saveResult" /\ req'[h].task = t /\ req'[h].user = q.user
          /\ req'[h].outcome = q.outcome /\ req'[h].id # 0
      BY <1>3, <1>4, <2>1, <2>3 DEF SameResult, RequestsOK, RequestOK
    <3>3. KeepsKey(h) /\ RequestOK(req[h])'
      BY <2>1, <2>2, <3>2 DEF KeepsKey, RequestOK
    <3> QED
      BY <1>1, <2>2, <3>1, <3>3, QuietStep
  <2>4. CASE /\ ~Resolved(t) /\ Present(t) /\ nextId <= MaxResult
             /\ result' = [result EXCEPT ![t] = RowOf(q, nextId)]
             /\ nextId' = nextId + 1
             /\ Goto(h, [q EXCEPT !.pc = "saveResult", !.id = nextId])
             /\ NoteLate(t, q.user)
    <3>0. nextId # 0 /\ nextId \in 0 .. MaxResult
      BY <2>4, BoundAssumption DEF IInv, TypeOK
    <3>1. /\ \A x \in Tasks \ {t} : result'[x] = result[x]
          /\ result'[t].id # 0 /\ result'[t].user = q.user /\ result'[t].outcome = q.outcome
      BY <1>2, <2>1, <2>4, <3>0, RowOfType
    <3>2. late \subseteq late' /\ (task[t].assignee # q.user => t \in late')
      BY <2>4 DEF NoteLate
    <3>3. RowsOK'
      BY <1>4, <2>1, <2>2, <2>4, <3>1 DEF RowsOK
    <3>4. ResultByAssignee'
      BY <1>4, <2>1, <2>2, <3>1 DEF ResultByAssignee
    <3>5. AnsweredWaitsOnlyIfLate'
      BY <1>4, <2>1, <2>2, <3>1, <3>2, NoneAssumption DEF AnsweredWaitsOnlyIfLate, Waiting
    <3>6. /\ req'[h].pc = "saveResult" /\ req'[h].task = t /\ req'[h].user = q.user
          /\ req'[h].outcome = q.outcome /\ req'[h].id # 0
      BY <1>3, <2>1, <2>4, <3>0
    <3>7. KeepsKey(h) /\ RequestOK(req[h])'
      BY <2>1, <2>2, <3>6 DEF KeepsKey, RequestOK
    <3>8. RequestsOK' /\ FreshKeys'
      BY <1>4, <2>2, <3>7, OthersOK, KeysOK
    <3> QED
      BY <1>1, <3>3, <3>4, <3>5, <3>8 DEF IInv
  <2>5. CASE /\ ~SameResult(t, q) /\ (Resolved(t) \/ ~Present(t))
             /\ Reply(h)
             /\ UNCHANGED <<result, nextId, late>>
    <3>1. SameRows /\ req'[h] = Idle
      BY <1>3, <2>2, <2>5 DEF SameRows
    <3>2. KeepsKey(h) /\ RequestOK(req[h])'
      BY <3>1, Blank DEF KeepsKey, RequestOK
    <3> QED
      BY <1>1, <2>2, <3>1, <3>2, QuietStep
  <2> QED
    BY <1>21, <2>3, <2>4, <2>5 DEF CreateResult
<1>22. ASSUME NEW h \in Handlers, SaveResult(h) PROVE IInv'
  <2> DEFINE q == req[h]  t == q.task
  <2>1. /\ q \in Request /\ t \in Tasks /\ q.user \in Users /\ q.outcome \in Outcomes
        /\ q.user \in assigned[t] \cup Graders /\ task[t].state # "unused"
        /\ q.pc = "saveResult"
    BY <1>3, <1>4, <1>22 DEF SaveResult, RequestsOK, RequestOK
  <2>2. Alone(h) /\ task' = task /\ assigned' = assigned
    BY <1>3, <1>22 DEF SaveResult, Alone
  <2>3. q.id # 0
    BY <1>4, <2>1 DEF RequestsOK, RequestOK
  <2>4. CASE /\ result[t].id = q.id
             /\ UNCHANGED <<result, late>>
             /\ Goto(h, [q EXCEPT !.pc = "giveRefs", !.todo = q.refs])
    <3>1. SameRows
      BY <2>2, <2>4 DEF SameRows
    <3>2. /\ req'[h].pc = "giveRefs" /\ req'[h].task = t /\ req'[h].user = q.user
          /\ req'[h].outcome = q.outcome /\ req'[h].id # 0
      BY <1>3, <2>1, <2>3, <2>4
    <3>3. KeepsKey(h) /\ RequestOK(req[h])'
      BY <2>1, <2>2, <3>2 DEF KeepsKey, RequestOK
    <3> QED
      BY <1>1, <2>2, <3>1, <3>3, QuietStep
  <2>5. CASE /\ ~Resolved(t) /\ Present(t)
             /\ result' = [result EXCEPT ![t] = RowOf(q, q.id)]
             /\ NoteLate(t, q.user)
             /\ Goto(h, [q EXCEPT !.pc = "giveRefs", !.todo = q.refs])
    <3>1. /\ \A x \in Tasks \ {t} : result'[x] = result[x]
          /\ result'[t].id # 0 /\ result'[t].user = q.user /\ result'[t].outcome = q.outcome
      BY <1>2, <2>1, <2>5, <2>3, RowOfType
    <3>2. late \subseteq late' /\ (task[t].assignee # q.user => t \in late')
      BY <2>5 DEF NoteLate
    <3>3. RowsOK'
      BY <1>4, <2>1, <2>2, <2>5, <3>1 DEF RowsOK
    <3>4. ResultByAssignee'
      BY <1>4, <2>1, <2>2, <3>1 DEF ResultByAssignee
    <3>5. AnsweredWaitsOnlyIfLate'
      BY <1>4, <2>1, <2>2, <3>1, <3>2, NoneAssumption DEF AnsweredWaitsOnlyIfLate, Waiting
    <3>6. /\ req'[h].pc = "giveRefs" /\ req'[h].task = t /\ req'[h].user = q.user
          /\ req'[h].outcome = q.outcome /\ req'[h].id # 0
      BY <1>3, <2>1, <2>5, <2>3
    <3>7. KeepsKey(h) /\ RequestOK(req[h])'
      BY <2>1, <2>2, <3>6 DEF KeepsKey, RequestOK
    <3>8. RequestsOK' /\ FreshKeys'
      BY <1>4, <2>2, <3>7, OthersOK, KeysOK
    <3> QED
      BY <1>1, <3>3, <3>4, <3>5, <3>8 DEF IInv
  <2>6. CASE /\ result[t].id # q.id /\ (Resolved(t) \/ ~Present(t))
             /\ Reply(h)
             /\ UNCHANGED <<result, late>>
    <3>1. SameRows /\ req'[h] = Idle
      BY <1>3, <2>2, <2>6 DEF SameRows
    <3>2. KeepsKey(h) /\ RequestOK(req[h])'
      BY <3>1, Blank DEF KeepsKey, RequestOK
    <3> QED
      BY <1>1, <2>2, <3>1, <3>2, QuietStep
  <2> QED
    BY <1>22, <2>4, <2>5, <2>6 DEF SaveResult
<1>23. ASSUME NEW h \in Handlers, AddResultFile(h) PROVE IInv'
  <2> DEFINE q == req[h]  t == q.task
  <2>1. /\ q \in Request /\ t \in Tasks /\ q.user \in Users /\ q.outcome \in Outcomes
        /\ q.user \in assigned[t] \cup Graders /\ task[t].state # "unused"
        /\ q.pc = "addResultFile"
    BY <1>3, <1>4, <1>23 DEF AddResultFile, RequestsOK, RequestOK
  <2>2. Alone(h) /\ task' = task /\ assigned' = assigned
    BY <1>3, <1>23 DEF AddResultFile, Alone
  <2>3. q.id # 0 /\ q.ref \in Refs
    BY <1>4, <2>1 DEF RequestsOK, RequestOK
  <2>4. SameRows
    <3>1. CASE result' = result
      BY <1>23, <2>2, <3>1 DEF AddResultFile, SameRows
    <3>2. CASE result' = [result EXCEPT ![t].files = @ \cup {q.ref}]
      BY <1>2, <1>23, <2>1, <2>2, <3>2 DEF AddResultFile, SameRows
    <3> QED
      BY <1>23, <3>1, <3>2 DEF AddResultFile
  <2>5. CASE req'[h] = Idle
    <3>1. KeepsKey(h) /\ RequestOK(req[h])'
      BY <2>5, Blank DEF KeepsKey, RequestOK
    <3> QED
      BY <1>1, <2>2, <2>4, <3>1, QuietStep
  <2>6. CASE req'[h] = [q EXCEPT !.pc = "giveRefs", !.todo = @ \ {q.ref}, !.ref = None]
    <3>1. /\ req'[h].pc = "giveRefs" /\ req'[h].task = t /\ req'[h].user = q.user
          /\ req'[h].outcome = q.outcome /\ req'[h].id # 0
      BY <2>1, <2>3, <2>6
    <3>2. KeepsKey(h) /\ RequestOK(req[h])'
      BY <2>1, <2>2, <3>1 DEF KeepsKey, RequestOK
    <3> QED
      BY <1>1, <2>2, <2>4, <3>2, QuietStep
  <2> QED
    BY <1>3, <1>23, <2>5, <2>6 DEF AddResultFile
<1>24. ASSUME NEW h \in Handlers, ResultPosted(h) PROVE IInv'
  <2>1. Alone(h) /\ KeepsKey(h) /\ SameRows
    BY <1>2, <1>3, <1>24, Blank DEF ResultPosted, Alone, KeepsKey, SameRows
  <2>2. RequestOK(req[h])'
    BY <1>2, <1>3, <1>4, <1>24, Blank DEF ResultPosted, RequestsOK, RequestOK
  <2> QED
    BY <1>1, <2>1, <2>2, QuietStep
<1>25. ASSUME NEW h \in Handlers, NEW u \in Users, NEW t \in Tasks,
             AskDeleteResult(h, u, t) PROVE IInv'
  <2>1. Alone(h) /\ KeepsKey(h) /\ SameRows
    BY <1>2, <1>3, <1>25, Blank DEF AskDeleteResult, Alone, KeepsKey, SameRows
  <2>2. RequestOK(req[h])'
    BY <1>2, <1>3, <1>4, <1>25, Blank DEF AskDeleteResult, RequestsOK, RequestOK
  <2> QED
    BY <1>1, <2>1, <2>2, QuietStep
<1>26. ASSUME NEW h \in Handlers, NEW u \in Users, NEW t \in Tasks,
             AskDeleteTask(h, u, t) PROVE IInv'
  <2>1. Alone(h) /\ KeepsKey(h) /\ SameRows
    BY <1>2, <1>3, <1>26, Blank DEF AskDeleteTask, Alone, KeepsKey, SameRows
  <2>2. RequestOK(req[h])'
    BY <1>2, <1>3, <1>4, <1>26, Blank DEF AskDeleteTask, RequestsOK, RequestOK
  <2> QED
    BY <1>1, <2>1, <2>2, QuietStep
<1>27. ASSUME NEW h \in Handlers, DeleteResult(h) PROVE IInv'
  <2> DEFINE t == req[h].task
  <2>1. t \in Tasks /\ task[t].state # "unused"
    BY <1>4, <1>27 DEF DeleteResult, RequestsOK, RequestOK
  <2>2. Alone(h) /\ req'[h] = Idle /\ assigned' = assigned
    BY <1>3, <1>27 DEF DeleteResult, Alone
  <2>3. /\ task' = task
        /\ \A x \in Tasks : /\ result'[x].id = 0 \/ result'[x] = result[x]
                            /\ x \in late /\ result'[x].id # 0 => x \in late'
    BY <1>2, <1>27, <2>1, Blank DEF DeleteResult
  <2>4. RequestOK(req[h])' /\ KeepsKey(h)
    BY <2>2, Blank DEF RequestOK, KeepsKey
  <2>5. RequestsOK' /\ FreshKeys'
    BY <1>4, <2>1, <2>2, <2>3, <2>4, OthersOK, KeysOK
  <2>6. RowsOK' /\ ResultByAssignee' /\ AnsweredWaitsOnlyIfLate'
    BY <1>4, <2>2, <2>3 DEF RowsOK, ResultByAssignee, AnsweredWaitsOnlyIfLate, Waiting
  <2> QED
    BY <1>1, <2>5, <2>6 DEF IInv
<1>28. ASSUME NEW h \in Handlers, DeleteTask(h) PROVE IInv'
  <2> DEFINE t == req[h].task
  <2>1. t \in Tasks /\ task[t].state # "unused"
    BY <1>4, <1>28 DEF DeleteTask, RequestsOK, RequestOK
  <2>2. Alone(h) /\ req'[h] = Idle /\ assigned' = assigned
    BY <1>3, <1>28 DEF DeleteTask, Alone
  <2>3. /\ \A x \in Tasks \ {t} : task'[x] = task[x] /\ result'[x] = result[x]
        /\ task'[t].state = "deleted" /\ task'[t].assignee = None /\ result'[t].id = 0
        /\ late' = late \ {t}
    BY <1>2, <1>28, <2>1, Blank DEF DeleteTask
  <2>4. RequestOK(req[h])' /\ KeepsKey(h)
    BY <2>2, Blank DEF RequestOK, KeepsKey
  <2>5. RequestsOK' /\ FreshKeys'
    BY <1>4, <2>1, <2>2, <2>3, <2>4, OthersOK, KeysOK
  <2>6. RowsOK' /\ ResultByAssignee' /\ AnsweredWaitsOnlyIfLate'
    BY <1>4, <2>2, <2>3 DEF RowsOK, ResultByAssignee, AnsweredWaitsOnlyIfLate, Waiting
  <2> QED
    BY <1>1, <2>5, <2>6 DEF IInv
<1>29. ASSUME NEW h \in Handlers, Die(h) PROVE IInv'
  <2>1. Alone(h) /\ KeepsKey(h) /\ SameRows
    BY <1>2, <1>3, <1>29, Blank DEF Die, Alone, KeepsKey, SameRows
  <2>2. RequestOK(req[h])'
    BY <1>2, <1>3, <1>4, <1>29, Blank DEF Die, RequestsOK, RequestOK
  <2> QED
    BY <1>1, <2>1, <2>2, QuietStep
<1>30. CASE UNCHANGED vars
  BY <1>30 DEF vars, IInv, TypeOK, RequestsOK, RequestOK, FreshKeys, RowsOK,
     ResultByAssignee, AnsweredWaitsOnlyIfLate, Waiting
<1> QED
  BY <1>5, <1>6, <1>7, <1>8, <1>9, <1>10, <1>11, <1>12, <1>13, <1>14, <1>15, <1>16, <1>17,
     <1>18, <1>19, <1>20, <1>21, <1>22, <1>23, <1>24, <1>25, <1>26, <1>27, <1>28, <1>29, <1>30
  DEF Next, RefStep, TaskStep, QueueStep, ResultStep, DeleteStep

---------------------------------------------------------------------------
LEMMA Invariance == Spec => []IInv
<1>1. Init => IInv
  BY InitInv
<1>2. IInv /\ [Next]_vars => IInv'
  BY NextIInv
<1> QED
  BY <1>1, <1>2, PTL DEF Spec

\* The tables, the requests in flight and the histories keep their types,
\* whatever statements of whatever requests interleave (task/views.py,
\* queue/views.py, blob/views.py).
THEOREM TypeCorrect == Spec => []TypeOK
<1>1. IInv => TypeOK
  BY DEF IInv
<1> QED
  BY <1>1, Invariance, PTL

\* Every recorded result is by a user the task was once assigned to, or by a
\* holder of task.add_result (task/views.py:172 and 188).
THEOREM ResultAuthorship == Spec => []ResultByAssignee
<1>1. IInv => ResultByAssignee
  BY DEF IInv
<1> QED
  BY <1>1, Invariance, PTL

\* An answered task waits for a worker again only when its answer was late
\* (unassign.py:18, queue/views.py:36).
THEOREM LateAnswers == Spec => []AnsweredWaitsOnlyIfLate
<1>1. IInv => AnsweredWaitsOnlyIfLate
  BY DEF IInv
<1> QED
  BY <1>1, Invariance, PTL

---------------------------------------------------------------------------
(* The refinement: what a statement does to the life cycle of the tasks.   *)

\* A statement the life cycle does not see.
SameView ==
  /\ \A t \in Tasks : /\ task'[t].state = task[t].state
                      /\ task'[t].assignee = task[t].assignee
                      /\ VerdictOf(t)' = VerdictOf(t)
  /\ assigned' = assigned

LEMMA Stutter == SameView => UNCHANGED Lifecycle!vars
BY DEF SameView, Lifecycle!vars

\* References are not part of the life cycle, nor is what a request has read.
LEMMA TablesStutter ==
  ASSUME task' = task, result' = result, assigned' = assigned
  PROVE  UNCHANGED Lifecycle!vars
BY Stutter DEF SameView, VerdictOf

\* Inserting the row of a result for a task without one records its verdict.
LEMMA InsertRecords ==
  ASSUME IInv, NEW q \in Request, q.task \in Tasks, q.user \in Users, q.outcome \in Outcomes,
         q.user \in assigned[q.task] \cup Graders,
         NEW id \in (0 .. MaxResult) \ {0},
         ~Resolved(q.task), Present(q.task),
         result' = [result EXCEPT ![q.task] = RowOf(q, id)],
         task' = task, assigned' = assigned
  PROVE  Lifecycle!Next
<1> DEFINE t == q.task
           v == [user |-> q.user, outcome |-> q.outcome, declared |-> q.refs]
<1>1. result \in [Tasks -> ResultRow]
  BY DEF IInv, TypeOK
<1>2. v \in Verdicts
  BY DEF Verdicts
<1>3. VerdictOf(t) = None /\ VerdictOf(t)' = v
  BY <1>1, RowOfType DEF VerdictOf
<1>4. \A x \in Tasks \ {t} : VerdictOf(x)' = VerdictOf(x)
  BY <1>1 DEF VerdictOf
<1>5. Lifecycle!Record(t, v)
  BY <1>3, <1>4 DEF Lifecycle!Record
<1> QED
  BY <1>2, <1>5 DEF Lifecycle!Next

\* Every statement of every request is a step of the life cycle or none.
LEMMA StepRefines == IInv /\ [Next]_vars => [Lifecycle!Next]_(Lifecycle!vars)
<1> SUFFICES ASSUME IInv, [Next]_vars PROVE Lifecycle!Next \/ UNCHANGED Lifecycle!vars
  OBVIOUS
<1>1. task \in [Tasks -> TaskRow] /\ result \in [Tasks -> ResultRow]
  BY DEF IInv, TypeOK
<1>2. req \in [Handlers -> Request] /\ assigned \in [Tasks -> SUBSET Users]
  BY DEF IInv, TypeOK
<1>3. RequestsOK /\ RowsOK
  BY DEF IInv
<1>4. CASE RefStep
  <2>1. ASSUME NEW h \in Handlers, DeleteRef(h) PROVE UNCHANGED Lifecycle!vars
    <3>1. task'= [t \in Tasks |-> [task[t] EXCEPT !.files = @ \ {req[h].ref}]]
      BY <2>1 DEF DeleteRef
    <3>2. result' = [t \in Tasks |-> [result[t] EXCEPT !.files = @ \ {req[h].ref}]]
      BY <2>1 DEF DeleteRef
    <3>3. SameView
      BY <1>1, <2>1, <3>1, <3>2 DEF DeleteRef, SameView, VerdictOf
    <3> QED
      BY <3>3, Stutter
  <2> QED
    BY <1>4, <2>1, TablesStutter DEF RefStep, Upload, ReadRef, AskDeleteRef, SaveRef
<1>5. CASE TaskStep
  <2>1. ASSUME NEW h \in Handlers, NEW r \in Refs, AddTaskFile(h, r)
        PROVE  UNCHANGED Lifecycle!vars
    <3>1. SameView
      BY <1>1, <2>1 DEF AddTaskFile, SameView, VerdictOf
    <3> QED
      BY <3>1, Stutter
  <2>2. ASSUME NEW h \in Handlers, SaveTask(h) PROVE Lifecycle!Next
    <3>0. PICK t \in Tasks : t = req[h].task
      BY <1>3, <2>2 DEF SaveTask, RequestsOK, RequestOK
    <3>1. task[t].state = "unused"
      BY <1>3, <2>2, <3>0 DEF SaveTask, RequestsOK, RequestOK
    <3>2. task[t].assignee = None
      BY <1>3, <3>1 DEF RowsOK
    <3>3. /\ \A x \in Tasks \ {t} : task'[x] = task[x]
          /\ task'[t].state = "present" /\ task'[t].assignee = None
          /\ result' = result /\ assigned' = assigned
      BY <1>1, <2>2, <3>0, Blank DEF SaveTask
    <3>4. Lifecycle!Submit(t)
      BY <3>1, <3>2, <3>3 DEF Lifecycle!Submit, VerdictOf
    <3> QED
      BY <3>4 DEF Lifecycle!Next
  <2> QED
    BY <1>5, <2>1, <2>2, TablesStutter DEF TaskStep, PostTask, CheckTaskFile, TaskPosted
<1>6. CASE QueueStep
  <2>1. ASSUME NEW u \in Users, NEW S \in SUBSET Tasks, HandOut(u, S) PROVE Lifecycle!Next
    <3>1. \A x \in Tasks : /\ task'[x].state = task[x].state
                           /\ task'[x].assignee = IF x \in S THEN u ELSE task[x].assignee
      BY <1>1, <2>1 DEF HandOut
    <3>2. Lifecycle!HandOut(u, S)
      BY <2>1, <3>1 DEF HandOut, Waiting, VerdictOf, Lifecycle!HandOut
    <3> QED
      BY <3>2 DEF Lifecycle!Next
  <2>2. ASSUME NEW t \in Tasks, BecomeOverdue(t) PROVE UNCHANGED Lifecycle!vars
    <3>1. SameView
      BY <1>1, <2>2 DEF BecomeOverdue, SameView, VerdictOf
    <3> QED
      BY <3>1, Stutter
  <2>3. ASSUME Unassign PROVE Lifecycle!Next
    <3>1. \A x \in Tasks : /\ task'[x].state = task[x].state
                           /\ task'[x].assignee = IF Overdue(x) THEN None ELSE task[x].assignee
      BY <1>1, <2>3 DEF Unassign
    <3>2. PICK S \in SUBSET Tasks : S = {t \in Tasks : Overdue(t)}
      OBVIOUS
    <3>3. Lifecycle!Reclaim(S)
      BY <2>3, <3>1, <3>2 DEF Unassign, Overdue, VerdictOf, Lifecycle!Reclaim
    <3> QED
      BY <3>3 DEF Lifecycle!Next
  <2> QED
    BY <1>6, <2>1, <2>2, <2>3 DEF QueueStep
<1>7. CASE ResultStep
  <2>1. ASSUME NEW h \in Handlers, CreateResult(h)
        PROVE  Lifecycle!Next \/ UNCHANGED Lifecycle!vars
    <3>1. CASE result' = result
      BY <2>1, <3>1, TablesStutter DEF CreateResult
    <3>2. CASE result' # result
      <4>1. /\ req[h] \in Request /\ req[h].task \in Tasks /\ req[h].user \in Users
            /\ req[h].outcome \in Outcomes /\ req[h].user \in assigned[req[h].task] \cup Graders
        BY <1>2, <1>3, <2>1 DEF CreateResult, RequestsOK, RequestOK
      <4>2. /\ ~Resolved(req[h].task) /\ Present(req[h].task) /\ nextId <= MaxResult
            /\ result' = [result EXCEPT ![req[h].task] = RowOf(req[h], nextId)]
        BY <2>1, <3>2 DEF CreateResult
      <4>3. nextId \in (0 .. MaxResult) \ {0}
        BY <4>2, BoundAssumption DEF IInv, TypeOK
      <4> QED
        BY <2>1, <4>1, <4>2, <4>3, InsertRecords DEF CreateResult
    <3> QED
      BY <3>1, <3>2
  <2>2. ASSUME NEW h \in Handlers, SaveResult(h)
        PROVE  Lifecycle!Next \/ UNCHANGED Lifecycle!vars
    <3>1. CASE result' = result
      BY <2>2, <3>1, TablesStutter DEF SaveResult
    <3>2. CASE result' # result
      <4>1. /\ req[h] \in Request /\ req[h].task \in Tasks /\ req[h].user \in Users
            /\ req[h].outcome \in Outcomes /\ req[h].user \in assigned[req[h].task] \cup Graders
        BY <1>2, <1>3, <2>2 DEF SaveResult, RequestsOK, RequestOK
      <4>2. /\ ~Resolved(req[h].task) /\ Present(req[h].task)
            /\ result' = [result EXCEPT ![req[h].task] = RowOf(req[h], req[h].id)]
        BY <2>2, <3>2 DEF SaveResult
      <4>3. req[h].id \in (0 .. MaxResult) \ {0}
        BY <1>3, <2>2, <4>1 DEF SaveResult, RequestsOK, RequestOK
      <4> QED
        BY <2>2, <4>1, <4>2, <4>3, InsertRecords DEF SaveResult
    <3> QED
      BY <3>1, <3>2
  <2>3. ASSUME NEW h \in Handlers, AddResultFile(h) PROVE UNCHANGED Lifecycle!vars
    <3>1. CASE result' = result
      BY <2>3, <3>1, TablesStutter DEF AddResultFile
    <3>2. CASE result' = [result EXCEPT ![req[h].task].files = @ \cup {req[h].ref}]
      <4>1. SameView
        BY <1>1, <2>3, <3>2 DEF AddResultFile, SameView, VerdictOf
      <4> QED
        BY <4>1, Stutter
    <3> QED
      BY <2>3, <3>1, <3>2 DEF AddResultFile
  <2> QED
    BY <1>7, <2>1, <2>2, <2>3, TablesStutter
    DEF ResultStep, PostResult, CheckResultFile, GiveRef, ResultPosted
<1>8. CASE DeleteStep
  <2>1. ASSUME NEW h \in Handlers, DeleteResult(h)
        PROVE  Lifecycle!Next \/ UNCHANGED Lifecycle!vars
    <3>0. PICK t \in Tasks : t = req[h].task
      BY <1>3, <2>1 DEF DeleteResult, RequestsOK, RequestOK
    <3>1. CASE result[t].id = req[h].id
      <4>1. req[h].id # 0
        BY <1>3, <2>1 DEF DeleteResult, RequestsOK, RequestOK
      <4>2. Resolved(t) /\ Present(t)
        BY <1>3, <3>0, <3>1, <4>1 DEF RowsOK
      <4>3. /\ task' = task /\ assigned' = assigned
            /\ result' = [result EXCEPT ![t] = NoResult]
        BY <2>1, <3>0, <3>1 DEF DeleteResult
      <4>4. VerdictOf(t) # None
        <5>1. VerdictOf(t) \in Verdicts
          BY <1>1, <1>3, <4>2 DEF VerdictOf, Verdicts, RowsOK
        <5> QED
          BY <5>1, VerdictAssumption
      <4>5. VerdictOf(t)' = None /\ \A x \in Tasks \ {t} : VerdictOf(x)' = VerdictOf(x)
        BY <1>1, <4>3, Blank DEF VerdictOf
      <4>6. Lifecycle!Retract(t)
        <5>1. /\ task[t].state = "present" /\ task' = task /\ assigned' = assigned
          BY <4>2, <4>3
        <5>2. [x \in Tasks |-> VerdictOf(x)]' = [[x \in Tasks |-> VerdictOf(x)] EXCEPT ![t] = None]
          BY <4>5
        <5> QED
          BY <4>4, <5>1, <5>2 DEF Lifecycle!Retract
      <4> QED
        BY <4>6 DEF Lifecycle!Next
    <3>2. CASE result[t].id # req[h].id
      BY <2>1, <3>0, <3>2, TablesStutter DEF DeleteResult
    <3> QED
      BY <3>1, <3>2
  <2>2. ASSUME NEW h \in Handlers, DeleteTask(h)
        PROVE  Lifecycle!Next \/ UNCHANGED Lifecycle!vars
    <3>0. PICK t \in Tasks : t = req[h].task
      BY <1>3, <2>2 DEF DeleteTask, RequestsOK, RequestOK
    <3>1. task[t].state # "unused"
      BY <1>3, <2>2, <3>0 DEF DeleteTask, RequestsOK, RequestOK
    <3>2. /\ \A x \in Tasks \ {t} : task'[x] = task[x] /\ result'[x] = result[x]
          /\ task'[t].state = "deleted" /\ task'[t].assignee = None /\ result'[t].id = 0
          /\ assigned' = assigned
      BY <1>1, <2>2, <3>0, Blank DEF DeleteTask
    <3>3. CASE Present(t)
      <4>1. Lifecycle!Remove(t)
        BY <3>1, <3>2, <3>3 DEF VerdictOf, Lifecycle!Remove
      <4> QED
        BY <4>1 DEF Lifecycle!Next
    <3>4. CASE ~Present(t)
      <4>1. task[t].state = "deleted" /\ task[t].assignee = None /\ ~Resolved(t)
        BY <1>1, <1>3, <3>1, <3>4 DEF RowsOK
      <4>2. SameView
        BY <3>2, <4>1 DEF SameView, VerdictOf
      <4> QED
        BY <4>2, Stutter
    <3> QED
      BY <3>3, <3>4
  <2> QED
    BY <1>8, <2>1, <2>2, TablesStutter DEF DeleteStep, AskDeleteResult, AskDeleteTask
<1>9. ASSUME NEW h \in Handlers, Die(h) PROVE UNCHANGED Lifecycle!vars
  BY <1>9, TablesStutter DEF Die
<1>10. CASE UNCHANGED vars
  BY <1>10, TablesStutter DEF vars
<1> QED
  BY <1>4, <1>5, <1>6, <1>7, <1>8, <1>9, <1>10 DEF Next

LEMMA InitRefines == Init => Lifecycle!Init
BY Blank DEF Init, NoTask, NoResult, VerdictOf, Lifecycle!Init

\* The statements of any number of interleaved requests, dying anywhere, implement
\* the life cycle: one holder of a task at a time, no result replaced, none recorded
\* by a stranger, no answered task taken back (task/views.py, queue/views.py,
\* unassign.py).
THEOREM Refinement == Spec => ImplementsLifecycle
<1>1. Init => Lifecycle!Init
  BY InitRefines
<1>2. IInv /\ [Next]_vars => [Lifecycle!Next]_(Lifecycle!vars)
  BY StepRefines
<1> QED
  BY <1>1, <1>2, Invariance, PTL DEF Spec, ImplementsLifecycle, Lifecycle!Spec

=============================================================================
