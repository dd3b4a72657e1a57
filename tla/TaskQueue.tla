----------------------------- MODULE TaskQueue -----------------------------
(***************************************************************************)
(* The KOLEJKA server's tasks, results and the references they list, as    *)
(* the database tables of src/kolejka/server/task and .../queue.           *)
(*                                                                         *)
(* No view but dequeue runs in a transaction and ATOMIC_REQUESTS is off,   *)
(* so each SQL statement of a view commits by itself: a view is modelled   *)
(* as one action per statement, and any number of requests interleave.     *)
(* dequeue is @transaction.atomic on the serialisable database the         *)
(* settings configure: one action.  A handler may die between any two      *)
(* statements (exception, killed process): what it wrote stays.            *)
(* Accounts stay: deleting one would also delete its tasks, and set other  *)
(* columns that name it to NULL (task/models.py:15, 20, 34).               *)
(***************************************************************************)
EXTENDS Naturals, FiniteSets

CONSTANTS Tasks,       \* keys of tasks (fresh uuids)
          Refs,        \* keys of references (fresh uuids)
          Users,       \* accounts
          Submitters,  \* users holding task.add_task       (group Clients)
          Processors,  \* users holding task.process_task   (group Processors)
          Viewers,     \* users holding blob.view_reference
          Managers,    \* users holding the delete permissions
          Graders,     \* users holding task.add_result     (no group: superusers)
          Public,      \* references whose public flag is set
          Outcomes,    \* what a result description says, its files aside
          Handlers,    \* request handlers of the web server
          Concurency,  \* the number of tasks a foreman asks for (source's spelling)
          MaxResult,   \* bound: result rows ever inserted
          None         \* SQL NULL

Roles == <<Submitters, Processors, Viewers, Managers, Graders>>

ASSUME RolesAssumption == \A i \in DOMAIN Roles : Roles[i] \subseteq Users
ASSUME NoneAssumption  == None \notin Tasks \cup Refs \cup Users \cup Outcomes
ASSUME BoundAssumption == MaxResult \in Nat /\ Concurency \in Nat

VARIABLES task,     \* table task_task
          result,   \* table task_result, by its one-to-one task
          ref,      \* table blob_reference
          nextId,   \* next primary key of task_result
          req,      \* what each handler is doing
          assigned, \* history: users each task was ever assigned to
          late      \* history: tasks answered by a user no longer its assignee

tables == <<task, result, ref, nextId>>
vars   == <<task, result, ref, nextId, req, assigned, late>>

---------------------------------------------------------------------------
(* Rows.  A row not yet inserted or deleted keeps a place in the function. *)

Stages  == {"unused", "present", "deleted"}
TaskRow == [state : Stages, user : Users \cup {None}, assignee : Users \cup {None},
            overdue : BOOLEAN, files : SUBSET Refs]
RefRow  == [state : Stages, user : Users \cup {None}]

\* id = 0 stands for no row; description = <<outcome, declared>>.
ResultRow == [id : 0 .. MaxResult, user : Users \cup {None},
              outcome : Outcomes \cup {None}, declared : SUBSET Refs, files : SUBSET Refs]

NoTask   == [state |-> "unused", user |-> None, assignee |-> None,
             overdue |-> FALSE, files |-> {}]
NoResult == [id |-> 0, user |-> None, outcome |-> None, declared |-> {}, files |-> {}]

TaskPCs   == {"checkTaskFiles", "addTaskFiles"}
ResultPCs == {"checkResultFiles", "saveResult", "giveRefs", "addResultFile"}
OtherPCs  == {"deleteTask", "deleteResult", "deleteRef", "saveRef"}

\* todo: files still to be treated; refs: all files of the description;
\* owner: the user column of a row this handler read earlier.
Request == [pc : {"idle"} \cup TaskPCs \cup ResultPCs \cup OtherPCs,
            user : Users \cup {None}, task : Tasks \cup {None}, ref : Refs \cup {None},
            refs : SUBSET Refs, todo : SUBSET Refs, owner : Users \cup {None},
            outcome : Outcomes \cup {None}, id : 0 .. MaxResult]

Idle == [pc |-> "idle", user |-> None, task |-> None, ref |-> None, refs |-> {},
         todo |-> {}, owner |-> None, outcome |-> None, id |-> 0]

---------------------------------------------------------------------------
Present(t)  == task[t].state = "present"
Exists(r)   == ref[r].state = "present"
Resolved(t) == result[t].id # 0

Waiting_Any(t) == Present(t)

Waiting(t) == Present(t) /\ task[t].assignee = None

Goto(h, q)  == req' = [req EXCEPT ![h] = q]
Start(h, q) == req[h].pc = "idle" /\ Goto(h, q)
Reply(h)    == Goto(h, Idle)

Init ==
  /\ task = [t \in Tasks |-> NoTask]
  /\ result = [t \in Tasks |-> NoResult]
  /\ ref = [r \in Refs |-> [state |-> "unused", user |-> None]]
  /\ nextId = 1
  /\ req = [h \in Handlers |-> Idle]
  /\ assigned = [t \in Tasks |-> {}]
  /\ late = {}

---------------------------------------------------------------------------
(* References: uploaded (BlobStore has the steps), read, deleted.          *)

Upload(r, u) ==
  /\ ref[r].state = "unused"
  /\ ref' = [ref EXCEPT ![r] = [state |-> "present", user |-> u]]
  /\ UNCHANGED <<task, result, nextId, req, assigned, late>>

MayRead(r, u) == r \in Public \/ u \in Viewers \/ u = ref[r].user

\* GET and HEAD load the row now and save all its columns in a later statement.
ReadRef(h, r, u) ==
  /\ Exists(r) /\ MayRead(r, u)
  /\ Start(h, [Idle EXCEPT !.pc = "saveRef", !.user = u, !.ref = r, !.owner = ref[r].user])
  /\ UNCHANGED <<tables, assigned, late>>

\* Model.save(): UPDATE by primary key, INSERT when no row was updated.
SaveRef(h) ==
  /\ req[h].pc = "saveRef"
  /\ ref' = [ref EXCEPT ![req[h].ref] = [state |-> "present", user |-> req[h].owner]]
  /\ Reply(h)
  /\ UNCHANGED <<task, result, nextId, assigned, late>>

AskDeleteRef(h, r, u) ==
  /\ Exists(r) /\ MayRead(r, u) /\ (u \in Managers \/ u = ref[r].user)
  /\ Start(h, [Idle EXCEPT !.pc = "deleteRef", !.user = u, !.ref = r])
  /\ UNCHANGED <<tables, assigned, late>>

\* The delete cascades to the rows of both many-to-many tables.
DeleteRef(h) ==
  /\ req[h].pc = "deleteRef"
  /\ ref' = [ref EXCEPT ![req[h].ref] = [state |-> "deleted", user |-> None]]
  /\ task' = [t \in Tasks |-> [task[t] EXCEPT !.files = @ \ {req[h].ref}]]
  /\ result' = [t \in Tasks |-> [result[t] EXCEPT !.files = @ \ {req[h].ref}]]
  /\ Reply(h)
  /\ UNCHANGED <<nextId, assigned, late>>

---------------------------------------------------------------------------
(* POST /task/task/                                                        *)

\* The key is a fresh uuid4: unused, and not that of another request.
PostTask(h, u, t, F) ==
  /\ u \in Submitters
  /\ task[t].state = "unused" /\ \A g \in Handlers : req[g].task # t
  /\ Start(h, [Idle EXCEPT !.pc = "checkTaskFiles", !.user = u, !.task = t,
                           !.refs = F, !.todo = F])
  /\ UNCHANGED <<tables, assigned, late>>

CheckTaskFile(h, r) ==
  /\ req[h].pc = "checkTaskFiles" /\ r \in req[h].todo
  /\ IF Exists(r) /\ MayRead(r, req[h].user)
     THEN Goto(h, [req[h] EXCEPT !.todo = @ \ {r}])
     ELSE Reply(h)
  /\ UNCHANGED <<tables, assigned, late>>

\* From this statement on the task can be dequeued; its files come later.
SaveTask(h) ==
  /\ req[h].pc = "checkTaskFiles" /\ req[h].todo = {}
  /\ task' = [task EXCEPT ![req[h].task] =
                [NoTask EXCEPT !.state = "present", !.user = req[h].user]]
  /\ Goto(h, [req[h] EXCEPT !.pc = "addTaskFiles", !.todo = req[h].refs])
  /\ UNCHANGED <<result, ref, nextId, assigned, late>>

\* task.files.add(ref): the foreign keys fail when either row is gone.
AddTaskFile(h, r) ==
  /\ req[h].pc = "addTaskFiles" /\ r \in req[h].todo
  /\ IF Present(req[h].task) /\ Exists(r)
     THEN /\ task' = [task EXCEPT ![req[h].task].files = @ \cup {r}]
          /\ Goto(h, [req[h] EXCEPT !.todo = @ \ {r}])
     ELSE Reply(h) /\ UNCHANGED task
  /\ UNCHANGED <<result, ref, nextId, assigned, late>>

TaskPosted(h) ==
  /\ req[h].pc = "addTaskFiles" /\ req[h].todo = {}
  /\ Reply(h)
  /\ UNCHANGED <<tables, assigned, late>>

---------------------------------------------------------------------------
(* POST /queue/dequeue/ and the management command unassign                *)

\* The loop stops at len(tasks) > concurency: up to Concurency + 1 tasks.
\* Which waiting tasks fit the node is left open here (see Dequeue).
\* A task's result is not looked at.
HandOut(u, S) ==
  /\ u \in Processors
  /\ \A t \in S : Waiting(t)
  /\ Cardinality(S) <= Concurency + 1
  /\ task' = [t \in Tasks |-> IF t \in S THEN [task[t] EXCEPT !.assignee = u, !.overdue = FALSE]
                                         ELSE task[t]]
  /\ assigned' = [t \in Tasks |-> IF t \in S THEN assigned[t] \cup {u} ELSE assigned[t]]
  /\ UNCHANGED <<result, ref, nextId, req, late>>

\* time_assign falls behind now - options['time'].
BecomeOverdue(t) ==
  /\ Present(t) /\ task[t].assignee # None /\ ~task[t].overdue
  /\ task' = [task EXCEPT ![t].overdue = TRUE]
  /\ UNCHANGED <<result, ref, nextId, req, assigned, late>>

Overdue_Answered(t) == Present(t) /\ task[t].assignee # None /\ task[t].overdue

\* unassign.py selects the assigned tasks without a result, older than --time.
Overdue(t) == Present(t) /\ task[t].assignee # None /\ task[t].overdue /\ ~Resolved(t)

\* One UPDATE statement over all overdue tasks.
Unassign ==
  /\ \E t \in Tasks : Overdue(t)
  /\ task' = [t \in Tasks |-> IF Overdue(t)
                              THEN [task[t] EXCEPT !.assignee = None, !.overdue = FALSE]
                              ELSE task[t]]
  /\ UNCHANGED <<result, ref, nextId, req, assigned, late>>

---------------------------------------------------------------------------
(* POST /task/result/                                                      *)

MayAnswer_Any(t, u) == TRUE

MayAnswer(t, u) == u \in Graders \/ u = task[t].assignee

\* The task row is read once; its assignee is checked against this reading.
PostResult(h, u, t, d, F) ==
  /\ u \in Processors
  /\ Present(t) /\ MayAnswer(t, u)
  /\ Start(h, [Idle EXCEPT !.pc = "checkResultFiles", !.user = u, !.task = t, !.outcome = d,
                           !.refs = F, !.todo = F, !.owner = task[t].user])
  /\ UNCHANGED <<tables, assigned, late>>

CheckResultFile(h, r) ==
  /\ req[h].pc = "checkResultFiles" /\ r \in req[h].todo
  /\ IF Exists(r) /\ (r \in Public \/ req[h].user = ref[r].user)
     THEN Goto(h, [req[h] EXCEPT !.todo = @ \ {r}])
     ELSE Reply(h)
  /\ UNCHANGED <<tables, assigned, late>>

RowOf_Swapped(q, id) == [id |-> id, user |-> q.task, outcome |-> q.outcome,
                         declared |-> q.refs, files |-> {}]

RowOf(q, id) == [id |-> id, user |-> q.user, outcome |-> q.outcome,
                 declared |-> q.refs, files |-> {}]

SameResult(t, q) == /\ Resolved(t) /\ result[t].user = q.user
                    /\ result[t].outcome = q.outcome /\ result[t].declared = q.refs

\* Who answers after the task was taken from him makes it a late answer.
NoteLate(t, u) == late' = IF task[t].assignee = u THEN late ELSE late \cup {t}

\* get_or_create(task, user, description): found, inserted, or IntegrityError
\* (another result of the task, or the task is gone).
CreateResult(h) ==
  LET q == req[h]  t == q.task IN
  /\ q.pc = "checkResultFiles" /\ q.todo = {}
  /\ \/ /\ SameResult(t, q)
        /\ Goto(h, [q EXCEPT !.pc = "saveResult", !.id = result[t].id])
        /\ UNCHANGED <<result, nextId, late>>
     \/ /\ ~Resolved(t) /\ Present(t) /\ nextId <= MaxResult
        /\ result' = [result EXCEPT ![t] = RowOf(q, nextId)]
        /\ nextId' = nextId + 1
        /\ Goto(h, [q EXCEPT !.pc = "saveResult", !.id = nextId])
        /\ NoteLate(t, q.user)
     \/ /\ ~SameResult(t, q) /\ (Resolved(t) \/ ~Present(t))
        /\ Reply(h)
        /\ UNCHANGED <<result, nextId, late>>
  /\ UNCHANGED <<task, ref, assigned>>

\* result.save(): the row is written again; a row deleted since then is
\* inserted again under its old primary key.
SaveResult(h) ==
  LET q == req[h]  t == q.task IN
  /\ q.pc = "saveResult"
  /\ \/ /\ result[t].id = q.id
        /\ UNCHANGED <<result, late>>
        /\ Goto(h, [q EXCEPT !.pc = "giveRefs", !.todo = q.refs])
     \/ /\ ~Resolved(t) /\ Present(t)
        /\ result' = [result EXCEPT ![t] = RowOf(q, q.id)]
        /\ NoteLate(t, q.user)
        /\ Goto(h, [q EXCEPT !.pc = "giveRefs", !.todo = q.refs])
     \/ /\ result[t].id # q.id /\ (Resolved(t) \/ ~Present(t))
        /\ Reply(h)
        /\ UNCHANGED <<result, late>>
  /\ UNCHANGED <<task, ref, nextId, assigned>>

\* ref.user = task.user; ref.save(): INSERT again if the row was deleted.
GiveRef(h, r) ==
  /\ req[h].pc = "giveRefs" /\ r \in req[h].todo
  /\ ref' = [ref EXCEPT ![r] = [state |-> "present", user |-> req[h].owner]]
  /\ Goto(h, [req[h] EXCEPT !.pc = "addResultFile", !.ref = r])
  /\ UNCHANGED <<task, result, nextId, assigned, late>>

AddResultFile(h) ==
  LET q == req[h] IN
  /\ q.pc = "addResultFile"
  /\ IF result[q.task].id = q.id /\ Exists(q.ref)
     THEN /\ result' = [result EXCEPT ![q.task].files = @ \cup {q.ref}]
          /\ Goto(h, [q EXCEPT !.pc = "giveRefs", !.todo = @ \ {q.ref}, !.ref = None])
     ELSE Reply(h) /\ UNCHANGED result
  /\ UNCHANGED <<task, ref, nextId, assigned, late>>

ResultPosted(h) ==
  /\ req[h].pc = "giveRefs" /\ req[h].todo = {}
  /\ Reply(h)
  /\ UNCHANGED <<tables, assigned, late>>

---------------------------------------------------------------------------
(* DELETE of a result and of a task (rmtask deletes tasks the same way)    *)

AskDeleteResult(h, u, t) ==
  /\ Present(t) /\ Resolved(t) /\ (u = task[t].user \/ u \in Managers)
  /\ Start(h, [Idle EXCEPT !.pc = "deleteResult", !.user = u, !.task = t, !.id = result[t].id])
  /\ UNCHANGED <<tables, assigned, late>>

DeleteResult(h) ==
  LET t == req[h].task IN
  /\ req[h].pc = "deleteResult"
  /\ IF result[t].id = req[h].id
     THEN result' = [result EXCEPT ![t] = NoResult] /\ late' = late \ {t}
     ELSE UNCHANGED <<result, late>>
  /\ Reply(h)
  /\ UNCHANGED <<task, ref, nextId, assigned>>

AskDeleteTask(h, u, t) ==
  /\ Present(t) /\ (u = task[t].user \/ u \in Managers)
  /\ Start(h, [Idle EXCEPT !.pc = "deleteTask", !.user = u, !.task = t])
  /\ UNCHANGED <<tables, assigned, late>>

\* The result goes with its task (on_delete=CASCADE).
DeleteTask(h) ==
  LET t == req[h].task IN
  /\ req[h].pc = "deleteTask"
  /\ task' = [task EXCEPT ![t] = [NoTask EXCEPT !.state = "deleted"]]
  /\ result' = [result EXCEPT ![t] = NoResult]
  /\ late' = late \ {t}
  /\ Reply(h)
  /\ UNCHANGED <<ref, nextId, assigned>>

\* An exception ends the request, or the server process dies.
Die(h) ==
  /\ req[h].pc # "idle"
  /\ Reply(h)
  /\ UNCHANGED <<tables, assigned, late>>

---------------------------------------------------------------------------
RefStep ==
  \/ \E r \in Refs, u \in Users : Upload(r, u)
  \/ \E h \in Handlers, r \in Refs, u \in Users : ReadRef(h, r, u) \/ AskDeleteRef(h, r, u)
  \/ \E h \in Handlers : SaveRef(h) \/ DeleteRef(h)

TaskStep ==
  \/ \E h \in Handlers, u \in Users, t \in Tasks, F \in SUBSET Refs : PostTask(h, u, t, F)
  \/ \E h \in Handlers, r \in Refs : CheckTaskFile(h, r) \/ AddTaskFile(h, r)
  \/ \E h \in Handlers : SaveTask(h) \/ TaskPosted(h)

QueueStep ==
  \/ \E u \in Users, S \in SUBSET Tasks : HandOut(u, S)
  \/ \E t \in Tasks : BecomeOverdue(t)
  \/ Unassign

ResultStep ==
  \/ \E h \in Handlers, u \in Users, t \in Tasks, d \in Outcomes, F \in SUBSET Refs :
        PostResult(h, u, t, d, F)
  \/ \E h \in Handlers, r \in Refs : CheckResultFile(h, r) \/ GiveRef(h, r)
  \/ \E h \in Handlers : \/ CreateResult(h) \/ SaveResult(h)
                         \/ AddResultFile(h) \/ ResultPosted(h)

DeleteStep ==
  \/ \E h \in Handlers, u \in Users, t \in Tasks :
        AskDeleteResult(h, u, t) \/ AskDeleteTask(h, u, t)
  \/ \E h \in Handlers : DeleteResult(h) \/ DeleteTask(h)

Next == RefStep \/ TaskStep \/ QueueStep \/ ResultStep \/ DeleteStep
          \/ \E h \in Handlers : Die(h)

Spec == Init /\ [][Next]_vars

---------------------------------------------------------------------------
(* Properties                                                              *)

\* Every table, every request and both histories keep their types: each
\* column of task/models.py and blob/models.py holds a value of its field.
TypeOK ==
  /\ task \in [Tasks -> TaskRow]
  /\ result \in [Tasks -> ResultRow]
  /\ ref \in [Refs -> RefRow]
  /\ nextId \in 1 .. MaxResult + 1
  /\ req \in [Handlers -> Request]
  /\ assigned \in [Tasks -> SUBSET Users]
  /\ late \in SUBSET Tasks

\* A result is recorded only by a user its task was once assigned to, or by a
\* holder of task.add_result, although the check (task/views.py:172) and the
\* insertion (188) are different statements and the task may have been taken
\* away, answered and handed out again in between.
ResultByAssignee ==
  \A t \in Tasks : Resolved(t) => result[t].user \in assigned[t] \cup Graders

\* A task that has its result is back in the queue only when the answer came
\* late, from a user it had been taken from: unassign skips answered tasks, and
\* nothing else takes an assignee away.  (dequeue does hand such a task out
\* again: it does not look at results.)
AnsweredWaitsOnlyIfLate ==
  \A t \in Tasks : Waiting(t) /\ Resolved(t) => t \in late

Verdicts == [user : Users, outcome : Outcomes, declared : SUBSET Refs]

ASSUME VerdictAssumption == None \notin Verdicts

VerdictOf(t) == IF Resolved(t)
                THEN [user |-> result[t].user, outcome |-> result[t].outcome,
                      declared |-> result[t].declared]
                ELSE None

Lifecycle == INSTANCE TaskLifecycle WITH
               stage   <- [t \in Tasks |-> task[t].state],
               holder  <- [t \in Tasks |-> task[t].assignee],
               holders <- assigned,
               verdict <- [t \in Tasks |-> VerdictOf(t)]

\* The interleaved, failing requests implement the one-step life cycle: one
\* holder at a time, no result replaced, none recorded by a stranger, and no
\* answered task taken from its holder.
ImplementsLifecycle == Lifecycle!Spec

=============================================================================
