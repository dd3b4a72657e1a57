------------------------------- MODULE Client -------------------------------
(***************************************************************************)
(* KolejkaClient (src/kolejka/client/client.py) between its two users: the *)
(* program `kolejka-client execute', which submits a task and polls for    *)
(* its result, and foreman_single (src/kolejka/foreman/foreman.py), which  *)
(* gets a dequeued task, runs it and puts its result.                      *)
(*                                                                         *)
(* A request of the client is one step of the server here (TaskQueue and   *)
(* BlobStore have the statements of a view), except that a result is there *)
(* before its references are given to the owner of the task.  A connection *)
(* may break before or after the server did what it was asked: requests    *)
(* retries a GET, and a POST raises.                                       *)
(***************************************************************************)
EXTENDS Naturals, Sequences

CONSTANTS Clients,   \* runs of execute, each with a task of its own
          Workers,   \* processes of foremen
          Account,   \* the user each of them logs in as
          Viewers,   \* users holding blob.view_reference and blob.view_blob
          Inputs,    \* names of a task's files
          Outputs,   \* names of its result's files
          Troubled,  \* clients whose tasks may fail, or take more than their time
          MaxFaults, \* bound: broken connections, failed runs, early reclaims
          None

Procs == Clients \cup Workers
Names == Inputs \cup Outputs
Users == {Account[p] : p \in Procs}

ASSUME NamesAssumption == Inputs \cap Outputs = {} /\ Clients \cap Workers = {}
ASSUME BoundAssumption == MaxFaults \in Nat

\* Dequeueing takes task.process_task, which comes with group Processors, and so do
\* the two of Viewers (server/default/apps.py:13).
ASSUME WorkersAssumption == \A w \in Workers : Account[w] \in Viewers

\* An exit code is 0, or it is another one, which says less of the files (so does the 0
\* that Docker shows of a container that it never started: Worker's Void).
Codes == {"zero", "other", None}

\* holders: history, who the task was ever assigned to; left: references that the
\* request that recorded the result still has to give to the task's owner.
TaskSet   == [files : [Names -> Nat], assignee : Users \cup {None}, holders : SUBSET Users]
ResultSet == [files : [Names -> Nat], user : Users, code : Codes, left : SUBSET Nat]

ASSUME NoneAssumption ==
  /\ None \notin Names \cup Clients \cup Users \cup {"zero", "other"}
  /\ None \notin TaskSet /\ None \notin ResultSet

VARIABLES ref,    \* references, by key: the content of the blob, and the user or None
          task,   \* by client: the task, or None
          result, \* by client: the result of its task, or None
          proc,   \* what each process does
          faults,
          raised, \* clients refused something on a connection that held; workers too, as
                  \* long as nothing has failed
          gone    \* has a reference been deleted?

server == <<ref, task, result>>
vars   == <<server, proc, faults, raised, gone>>

\* Contents: what a client submits, and what running that makes of it: the whole output of
\* a run that ended with 0, or what there was of it in a run that ended otherwise.
In(c, n)          == <<c, n>>
Out(n, ins, part) == <<n, ins, part>>
Parts             == {"whole", "rest"}
Empty             == <<>>
NoFiles == [n \in Names |-> None]
NoRefs  == [n \in Names |-> 0]

\* files: contents in the local directory; refs: KolejkaFiles.File.reference;
\* todo: files still to be treated; up: the file whose blob the server lacks;
\* job: the worker's task; id, code: of the result.
Idle == [pc |-> "idle", files |-> NoFiles, refs |-> NoRefs, todo |-> {}, up |-> None,
         job |-> None, id |-> FALSE, code |-> None]

\* A file may come with a reference of an earlier submission, deleted by now or not.
Submitter(c, F) ==
  [Idle EXCEPT !.pc = "put", !.todo = Inputs,
               !.files = [n \in Names |-> IF n \in Inputs THEN In(c, n) ELSE None],
               !.refs = [n \in Names |-> IF n \in F THEN 1 ELSE 0]]

Init ==
  /\ task = [c \in Clients |-> None] /\ result = [c \in Clients |-> None]
  /\ faults = 0 /\ raised = {} /\ gone = FALSE
  /\ \E old \in Clients, n \in Inputs, u \in Users \cup {None} : \E F \in {{}, {n}} :
       /\ F = {} => u = None
       /\ ref = <<[content |-> In(old, n), user |-> u]>>
       /\ proc = [p \in Procs |-> IF p \in Workers THEN Idle
                                  ELSE Submitter(p, IF p = old THEN F ELSE {})]

At(p, pc)     == proc[p].pc = pc
Becomes(p, r) == proc' = [proc EXCEPT ![p] = r]
Ended(p)      == IF p \in Workers THEN Idle ELSE [proc[p] EXCEPT !.pc = "failed"]
Fault         == faults < MaxFaults /\ faults' = faults + 1 /\ UNCHANGED <<raised, gone>>
Fine          == UNCHANGED <<faults, raised, gone>>

\* check_response raises on any answer but OK; nobody catches that but execute
\* (404, below) and foreman_single, whose process ends.
Raises(p) ==
  /\ Becomes(p, Ended(p))
  /\ raised' = raised \cup (IF faults = 0 THEN {p} ELSE {p} \ Workers)
  /\ UNCHANGED <<server, faults, gone>>

\* The server did what a POST asked; the answer arrives or does not.
Answered(p, r) == (Becomes(p, r) /\ Fine) \/ (Becomes(p, Ended(p)) /\ Fault)

\* A connection that breaks before that, or whenever retries do not help.
Cut(p) ==
  /\ proc[p].pc \notin {"idle", "done", "failed"}
  /\ Becomes(p, Ended(p)) /\ Fault
  /\ UNCHANGED server

---------------------------------------------------------------------------
(* task_put and result_put: files first                                    *)

Exists(r)     == r \in DOMAIN ref /\ ref[r].user # None
MayRead(p, r) == Account[p] \in Viewers \/ ref[r].user = Account[p]
Blobs         == {ref[r].content : r \in DOMAIN ref}
Treat(p, n)   == At(p, "put") /\ n \in proc[p].todo /\ proc[p].up = None

\* blob_check of a reference that is there already
Check_Trusted(p, n) ==
  /\ Treat(p, n) /\ proc[p].refs[n] # 0
  /\ Becomes(p, [proc[p] EXCEPT !.todo = @ \ {n}])
  /\ UNCHANGED server /\ Fine

Check(p, n) ==
  /\ Treat(p, n) /\ proc[p].refs[n] # 0
  /\ LET r == proc[p].refs[n] IN
     \/ /\ ~Exists(r)
        /\ Becomes(p, [proc[p] EXCEPT !.refs[n] = 0]) /\ Fine /\ UNCHANGED server
     \/ /\ Exists(r) /\ MayRead(p, r)
        /\ Becomes(p, [proc[p] EXCEPT !.todo = @ \ {n}]) /\ Fine /\ UNCHANGED server
     \/ Exists(r) /\ ~MayRead(p, r) /\ Raises(p)

\* The server makes a new reference to the content for the user.
NewRef(p, n, content) ==
  /\ ref' = Append(ref, [content |-> content, user |-> Account[p]])
  /\ Answered(p, [proc[p] EXCEPT !.refs[n] = Len(ref) + 1, !.todo = @ \ {n}, !.up = None])
  /\ UNCHANGED <<task, result>>

\* blob_put: the hash is asked for first, and the file is sent only when the
\* server does not have it.
AskBlob(p, n) ==
  /\ Treat(p, n) /\ proc[p].refs[n] = 0
  /\ LET content == proc[p].files[n] IN
     \/ content \in Blobs /\ Account[p] \in Viewers /\ NewRef(p, n, content)
     \/ content \in Blobs /\ Account[p] \notin Viewers /\ Raises(p)
     \/ /\ content \notin Blobs
        /\ Becomes(p, [proc[p] EXCEPT !.up = n]) /\ Fine /\ UNCHANGED server

\* The file was read to its end for the hash: seek(0).
Sent_NoSeek(content) == Empty

Sent(content) == content

SendBlob(p) ==
  /\ At(p, "put") /\ proc[p].up # None
  /\ NewRef(p, proc[p].up, Sent(proc[p].files[proc[p].up]))

AllPut(p) == At(p, "put") /\ proc[p].todo = {}

PostTask_Taken(c) ==
  /\ c \in Clients /\ AllPut(c)
  /\ \/ /\ \A n \in Inputs : Exists(proc[c].refs[n]) /\ MayRead(c, proc[c].refs[n])
        /\ task' = [task EXCEPT ![c] = [files |-> proc[c].refs, assignee |-> Account[c],
                                      holders |-> {}]]
        /\ Answered(c, [proc[c] EXCEPT !.pc = "poll"])
        /\ UNCHANGED <<ref, result>>
     \/ /\ \E n \in Inputs : Exists(proc[c].refs[n]) => ~MayRead(c, proc[c].refs[n])
        /\ Raises(c)

PostTask(c) ==
  /\ c \in Clients /\ AllPut(c)
  /\ \/ /\ \A n \in Inputs : Exists(proc[c].refs[n]) /\ MayRead(c, proc[c].refs[n])
        /\ task' = [task EXCEPT ![c] = [files |-> proc[c].refs, assignee |-> None,
                                      holders |-> {}]]
        /\ Answered(c, [proc[c] EXCEPT !.pc = "poll"])
        /\ UNCHANGED <<ref, result>>
     \/ /\ \E n \in Inputs : Exists(proc[c].refs[n]) => ~MayRead(c, proc[c].refs[n])
        /\ Raises(c)

---------------------------------------------------------------------------
(* The foreman                                                             *)

Waiting(t) == task[t] # None /\ task[t].assignee = None

\* The task is assigned when the transaction commits, whether or not the answer
\* reaches the foreman.  (Dequeue and Foreman have batches of tasks.)
Dequeue(w, t) ==
  /\ At(w, "idle") /\ Waiting(t)
  /\ task' = [task EXCEPT ![t].assignee = Account[w], ![t].holders = @ \cup {Account[w]}]
  /\ Answered(w, [Idle EXCEPT !.pc = "get", !.job = t])
  /\ UNCHANGED <<ref, result>>

\* task_get; the assignee may see the task.
TaskGet(w) ==
  /\ At(w, "get")
  /\ LET t == proc[w].job IN
     IF task[t].assignee = Account[w]
     THEN /\ Becomes(w, [proc[w] EXCEPT !.pc = "fetch", !.refs = task[t].files, !.todo = Inputs])
          /\ Fine /\ UNCHANGED server
     ELSE Raises(w)

\* blob_get, of task_get and of result_get: execute goes on polling after a 404.
BlobGet(p, n) ==
  /\ At(p, "fetch") /\ n \in proc[p].todo
  /\ LET r == proc[p].refs[n] IN
     \/ /\ Exists(r) /\ MayRead(p, r)
        /\ Becomes(p, [proc[p] EXCEPT !.files[n] = ref[r].content, !.todo = @ \ {n}])
        /\ Fine /\ UNCHANGED server
     \/ Exists(r) /\ ~MayRead(p, r) /\ Raises(p)
     \/ ~Exists(r) /\ p \in Workers /\ Raises(p)
     \/ /\ ~Exists(r) /\ p \in Clients
        /\ Becomes(p, [proc[p] EXCEPT !.pc = "poll"]) /\ Fine /\ UNCHANGED server

Fetched(p) == At(p, "fetch") /\ proc[p].todo = {}

\* stage0 (Worker): all the output and the code 0; another code and what there is of it,
\* when the command failed, stage2 did, or the task was killed for its time; when Docker
\* fails, no code and what there is; when stage0 raises, an empty directory, so that the
\* result has not even the task's id.
Made(w, F, part, id, code) ==
  LET ins == [i \in Inputs |-> proc[w].files[i]]
  IN [proc[w] EXCEPT !.pc = "put", !.todo = F, !.id = id, !.code = code, !.refs = NoRefs,
                     !.files = [n \in Names |-> IF n \in F THEN Out(n, ins, part) ELSE None]]

Stage0(w) ==
  /\ w \in Workers /\ Fetched(w)
  /\ \/ Becomes(w, Made(w, Outputs, "whole", TRUE, "zero")) /\ Fine
     \/ /\ proc[w].job \in Troubled
        /\ \E F \in SUBSET Outputs : Becomes(w, Made(w, F, "rest", TRUE, "other")) /\ Fine
     \/ \E F \in SUBSET Outputs : Becomes(w, Made(w, F, "rest", TRUE, None)) /\ Fault
     \/ Becomes(w, Made(w, {}, "rest", FALSE, None)) /\ Fault
  /\ UNCHANGED server

\* A description without an id is of no task.
HasId(w) == proc[w].id

\* Its process ends, answered or not.  A second result of a task is refused.
PostResult(w) ==
  /\ w \in Workers /\ AllPut(w)
  /\ LET t == proc[w].job IN
     IF /\ HasId(w) /\ task[t].assignee = Account[w] /\ result[t] = None
        /\ \A n \in Outputs : proc[w].refs[n] # 0 => ref[proc[w].refs[n]].user = Account[w]
     THEN /\ result' = [result EXCEPT ![t] = [files |-> proc[w].refs, user |-> Account[w],
                                              code |-> proc[w].code,
                                              left |-> {proc[w].refs[n] : n \in Outputs} \ {0}]]
          /\ Becomes(w, Idle) /\ Fine
          /\ UNCHANGED <<ref, task>>
     ELSE Raises(w)

\* The request of PostResult goes on: a reference is given to the task's owner.
GiveRef(t, r) ==
  /\ result[t] # None /\ r \in result[t].left
  /\ ref' = [ref EXCEPT ![r].user = Account[t]]
  /\ result' = [result EXCEPT ![t].left = @ \ {r}]
  /\ UNCHANGED <<task, proc>> /\ Fine

HandlerDies(t) ==
  /\ result[t] # None /\ result[t].left # {}
  /\ result' = [result EXCEPT ![t].left = {}]
  /\ Fault /\ UNCHANGED <<ref, task, proc>>

\* blob_del of a reference by its user (or a manager), a task or result using it
DeleteRef(p, r) ==
  /\ Exists(r) /\ ref[r].user = Account[p]
  /\ ref' = [ref EXCEPT ![r].user = None]
  /\ faults < MaxFaults /\ faults' = faults + 1 /\ gone' = TRUE
  /\ UNCHANGED <<task, result, proc, raised>>

\* The operator's command, for tasks long assigned and not answered: one nobody
\* works on, or, as a fault, one whose worker is slow.
Lost(t) == \A w \in Workers : proc[w].job # t

Unassign_Answered(t) ==
  /\ task[t] # None /\ task[t].assignee # None /\ result[t] # None /\ Lost(t)
  /\ task' = [task EXCEPT ![t].assignee = None]
  /\ UNCHANGED <<ref, result, proc>> /\ Fine

Unassign(t) ==
  /\ task[t] # None /\ task[t].assignee # None /\ result[t] = None
  /\ task' = [task EXCEPT ![t].assignee = None]
  /\ UNCHANGED <<ref, result, proc>>
  /\ (Lost(t) /\ Fine) \/ (~Lost(t) /\ Fault)

---------------------------------------------------------------------------
(* execute goes on                                                         *)

\* result_get; before there is a result, 404 is caught, and execute sleeps.
ResultGet(c) ==
  /\ At(c, "poll") /\ result[c] # None
  /\ Becomes(c, [proc[c] EXCEPT !.pc = "fetch", !.code = result[c].code,
                                !.refs = result[c].files,
                                !.todo = {n \in Outputs : result[c].files[n] # 0}])
  /\ Fine /\ UNCHANGED server

Finish(c) ==
  /\ c \in Clients /\ Fetched(c)
  /\ Becomes(c, [proc[c] EXCEPT !.pc = "done"])
  /\ Fine /\ UNCHANGED server

Put(p)     == SendBlob(p) \/ \E n \in Names : Check(p, n) \/ AskBlob(p, n)
Execute(c) == Put(c) \/ PostTask(c) \/ ResultGet(c) \/ (\E n \in Names : BlobGet(c, n)) \/ Finish(c)
Work(w) ==
  \/ \E t \in Clients : Dequeue(w, t)
  \/ TaskGet(w) \/ (\E n \in Names : BlobGet(w, n)) \/ Stage0(w) \/ Put(w) \/ PostResult(w)
Give(t) == \E r \in DOMAIN ref : GiveRef(t, r)

Next ==
  \/ \E c \in Clients : Execute(c) \/ Give(c) \/ HandlerDies(c) \/ Unassign(c)
  \/ \E w \in Workers : Work(w)
  \/ \E p \in Procs : Cut(p) \/ \E r \in DOMAIN ref : DeleteRef(p, r)

Spec == Init /\ [][Next]_vars

\* Clients, workers and handlers run on; a task nobody works on is reclaimed.
Fairness ==
  /\ \A c \in Clients : WF_vars(Execute(c)) /\ WF_vars(Give(c)) /\ WF_vars(Lost(c) /\ Unassign(c))
  /\ \A w \in Workers : WF_vars(Work(w))
FairSpec == Spec /\ Fairness

---------------------------------------------------------------------------
(* Properties                                                              *)

Own(c, n, part) == Out(n, [i \in Inputs |-> In(c, i)], part)
Products == {Own(c, n, part) : c \in Clients, n \in Outputs, part \in Parts}
Contents == {In(c, n) : c \in Clients, n \in Inputs} \cup Products
Keys     == 0 .. Len(ref)

\* Types; a task is assigned to nobody but a foreman's account.
TypeOK ==
  /\ \A r \in DOMAIN ref : ref[r].user \in Users \cup {None}
  /\ task \in [Clients -> [files : [Names -> Keys],
                           assignee : {Account[w] : w \in Workers} \cup {None},
                           holders : SUBSET {Account[w] : w \in Workers}] \cup {None}]
  /\ result \in [Clients -> [files : [Names -> Keys], user : Users, code : Codes,
                             left : SUBSET Keys] \cup {None}]
  /\ proc \in [Procs -> [pc : {"idle", "put", "poll", "get", "fetch", "done", "failed"},
                         files : [Names -> Contents \cup {Empty, None}], refs : [Names -> Keys],
                         todo : SUBSET Names, up : Names \cup {None},
                         job : Clients \cup {None}, id : BOOLEAN, code : Codes]]
  /\ faults \in 0 .. MaxFaults
  /\ raised \subseteq Procs /\ gone \in BOOLEAN

\* What execute ends with is output of its own task run on its own files, and all of it
\* when the code is 0, through references made, reused, given and fetched one by one by
\* processes that may be cut off or overtaken anywhere, and runs that are killed
\* (client.py:130-168, 191-265, 437-451; foreman.py:84-115; stage0.py:241-279).
EndToEnd ==
  \A c \in Clients, n \in Outputs : At(c, "done") =>
    /\ proc[c].files[n] \in {Own(c, n, part) : part \in Parts} \cup {None}
    /\ proc[c].code = "zero" => proc[c].files[n] = Own(c, n, "whole")

\* An execute of an account of group Clients fails only by its own connection, or
\* when a reference was deleted, never by what becomes of the task at workers
\* (client.py:66-88, 442-451), and until something fails no worker is refused.
FailsOnlyByFault ==
  /\ \A c \in Clients \cap raised : gone \/ Account[c] \notin Viewers
  /\ raised \cap Workers = {}

\* What a result says: whose it is, its code, and the content of each file.
Verdicts == [user : {Account[w] : w \in Workers}, outcome : Codes,
             output : [Outputs -> Products \cup {Empty, None}]]

ASSUME VerdictAssumption == None \notin Verdicts

Content(r)   == IF r = 0 THEN None ELSE ref[r].content
VerdictOf(t) == IF result[t] = None THEN None
                ELSE [user |-> result[t].user, outcome |-> result[t].code,
                      output |-> [n \in Outputs |-> Content(result[t].files[n])]]

Stage   == [t \in Clients |-> IF task[t] = None THEN "unused" ELSE "present"]
Holder  == [t \in Clients |-> IF task[t] = None THEN None ELSE task[t].assignee]
Holders == [t \in Clients |-> IF task[t] = None THEN {} ELSE task[t].holders]
Verdict == [t \in Clients |-> VerdictOf(t)]

\* Clients, foremen and the server together keep the life cycle the server promises
\* of its tasks: one holder at a time, one answer, by a holder, and never another
\* content behind its files, whoever reclaims, reuses, gives or deletes references
\* (client.py:191-265, 267-306; foreman.py:84-115; queue/views.py, task/views.py).
Lifecycle == INSTANCE TaskLifecycle WITH
  Tasks <- Clients, Graders <- {},
  stage <- Stage, holder <- Holder, holders <- Holders, verdict <- Verdict

ImplementsLifecycle == Lifecycle!Spec

\* A posted task is answered in the end, and execute ends, though answers of
\* dequeue are lost (server/queue/views.py:111-113), workers end half-way and
\* tasks are handed out twice.  A deleted reference is the exception: of a task, it
\* fails every worker; of a result, it is polled for for ever (client.py:447).
PostedEnds == \A c \in Clients : At(c, "poll") ~> gone \/ proc[c].pc \in {"done", "failed"}
=============================================================================
