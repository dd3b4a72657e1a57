---------------------------- MODULE ClientProofs ----------------------------
(***************************************************************************)
(* Proofs about Client, for any number of submissions, workers and files,  *)
(* any accounts and any number of faults.                                  *)
(*                                                                         *)
(* The argument: the content behind a reference never changes and a        *)
(* reference is never used again, so what a process knows of a reference   *)
(* stays true whoever acts in between.  It is enough to say, process by    *)
(* process, what its references and files are of.                          *)
(*                                                                         *)
(* The life cycle: for the same reason what a result says never changes,   *)
(* whatever becomes of its references, so a step is seen only when it      *)
(* writes a task or a result; that who holds a task is among those it was  *)
(* ever given to (Held) is what a result's step needs.                     *)
(***************************************************************************)
EXTENDS Client, TLAPS

\* r refers, or referred, to this content.
Key(r, content) == r \in DOMAIN ref /\ ref[r].content = content

\* What running a client's submission may make, for a run with this code.
Product(n, c, code) == {Own(c, n, part) : part \in IF code = "zero" THEN {"whole"} ELSE Parts}

\* r refers, or referred, to such an output.
Makes(r, n, c, code) == r \in DOMAIN ref /\ ref[r].content \in Product(n, c, code)

Texts   == Contents \cup {Empty, None}
ProcSet == [pc : {"idle", "put", "poll", "get", "fetch", "done", "failed"},
            files : [Names -> Texts], refs : [Names -> Nat],
            todo : SUBSET Names, up : Names \cup {None},
            job : Clients \cup {None}, id : BOOLEAN, code : Codes]

\* What the server keeps: its types, and references that it made.
Kept ==
  /\ ref \in Seq([content : Texts, user : Users \cup {None}])
  /\ task \in [Clients -> TaskSet \cup {None}]
  /\ \A t \in Clients : task[t] # None =>
       /\ \A n \in Names : task[t].files[n] \in Keys
       /\ task[t].assignee \in {Account[w] : w \in Workers} \cup {None}
       /\ task[t].holders \subseteq {Account[w] : w \in Workers}
  /\ result \in [Clients -> ResultSet \cup {None}]
  /\ \A t \in Clients : result[t] # None =>
       (\A n \in Names : result[t].files[n] \in Keys) /\ result[t].left \subseteq Keys

\* The files of a task are those submitted, the files of a result their output.
TasksOK == \A t \in Clients : task[t] # None => \A n \in Inputs : Key(task[t].files[n], In(t, n))

ResultsOK == \A t \in Clients : result[t] # None =>
  \A n \in Outputs : /\ result[t].files[n] # 0 => Makes(result[t].files[n], n, t, result[t].code)
                     /\ result[t].code = "zero" => result[t].files[n] # 0

Server == Kept /\ TasksOK /\ ResultsOK

Counts == faults \in 0 .. MaxFaults /\ raised \subseteq Procs /\ gone \in BOOLEAN

\* A submission: its references are of its files, and a file without a reference
\* is still to be treated.
Submits(c) ==
  At(c, "put") =>
    /\ proc[c].todo \subseteq Inputs
    /\ \A n \in Inputs : /\ proc[c].files[n] = In(c, n)
                         /\ proc[c].refs[n] # 0 => Key(proc[c].refs[n], In(c, n))
                         /\ n \in proc[c].todo \/ proc[c].refs[n] # 0

\* A submission that fetches a result: what it has, or has a reference to, is the
\* output of its own task.
Reads(c) ==
  /\ \A n \in Outputs : proc[c].files[n] \in Product(n, c, None) \cup {None}
  /\ At(c, "fetch") \/ At(c, "done") =>
       /\ proc[c].todo \subseteq Outputs
       /\ At(c, "done") => proc[c].todo = {}
       /\ \A n \in Outputs :
            /\ n \in proc[c].todo => Makes(proc[c].refs[n], n, c, proc[c].code)
            /\ n \notin proc[c].todo /\ proc[c].code = "zero" => proc[c].files[n] \in Product(n, c, "zero")

\* A worker: what it fetches are its task's files, what it puts their output.
Works(w) ==
  LET t == proc[w].job IN
  /\ At(w, "idle") => t = None
  /\ ~At(w, "idle") => t \in Clients /\ task[t] # None
  /\ At(w, "fetch") =>
       /\ proc[w].todo \subseteq Inputs
       /\ \A n \in Inputs : /\ Key(proc[w].refs[n], In(t, n))
                            /\ n \in proc[w].todo \/ proc[w].files[n] = In(t, n)
  /\ At(w, "put") =>
       /\ proc[w].todo \subseteq Outputs
       /\ \A n \in Outputs :
            /\ n \in proc[w].todo => proc[w].files[n] \in Product(n, t, proc[w].code) /\ proc[w].refs[n] = 0
            /\ proc[w].refs[n] # 0 => Makes(proc[w].refs[n], n, t, proc[w].code)
            /\ proc[w].code = "zero" => n \in proc[w].todo \/ proc[w].refs[n] # 0

\* Who is where, and the file whose blob is being sent.
Place(p) ==
  /\ p \in Clients => proc[p].pc \in {"put", "poll", "fetch", "done", "failed"}
  /\ p \in Workers => proc[p].pc \in {"idle", "get", "fetch", "put"} /\ (At(p, "put") \/ proc[p].up = None)
  /\ At(p, "put") /\ proc[p].up # None => proc[p].up \in proc[p].todo /\ proc[p].refs[proc[p].up] = 0
  /\ \A n \in Names : proc[p].refs[n] \in Keys

Good(p) == Place(p) /\ (p \in Clients => Submits(p) /\ Reads(p)) /\ (p \in Workers => Works(p))

IInv == /\ Server /\ Counts
        /\ proc \in [Procs -> ProcSet] /\ \A p \in Procs : Good(p)

\* A client posts its task once.
Unposted == \A c \in Clients : At(c, "put") => task[c] = None

\* A reference that a submission relies on exists until one is deleted, and a
\* viewer's submission raises only then.
Relies(c) == At(c, "put") => \A n \in Inputs : n \in proc[c].todo \/ gone \/ Exists(proc[c].refs[n])

Blameless ==
  /\ \A c \in Clients \cap raised : gone \/ Account[c] \notin Viewers
  /\ raised \cap Workers = {}

\* The new references of a worker that puts a result are its own, until they are
\* left to the request that records the result.
Holds(w) == IF At(w, "put") THEN {proc[w].refs[n] : n \in Outputs} \ {0} ELSE {}

Apart == \A w \in Workers :
  /\ \A v \in Workers \ {w} : Holds(v) \cap Holds(w) = {}
  /\ \A t \in Clients : result[t] # None => Holds(w) \cap result[t].left = {}

\* Before the first fault a worker has its task to itself, and all it relies on.
TasksExist == \A t \in Clients, n \in Inputs : task[t] # None => Exists(task[t].files[n])

Settled == \A t \in Clients : result[t] # None =>
  /\ task[t] # None /\ task[t].assignee # None
  /\ \A w \in Workers : proc[w].job # t

Alone == \A w \in Workers : ~At(w, "idle") =>
  /\ task[proc[w].job].assignee = Account[w]
  /\ \A v \in Workers \ {w} : proc[v].job # proc[w].job

Serves(w) ==
  /\ At(w, "fetch") => \A n \in Inputs : Exists(proc[w].refs[n])
  /\ At(w, "put") => proc[w].id /\ \A r \in Holds(w) : ref[r].user = Account[w]

Smooth == faults = 0 => /\ TasksExist /\ Settled /\ Alone
                        /\ \A w \in Workers : Serves(w)

JInv == /\ IInv /\ Unposted /\ Apart /\ Smooth
        /\ (\A c \in Clients : Relies(c)) /\ Blameless

---------------------------------------------------------------------------
(* A step makes references, and tasks, but takes none away.                *)

RefsKept  == /\ Len(ref') >= Len(ref)
             /\ \A r \in DOMAIN ref : r \in DOMAIN ref' /\ ref'[r].content = ref[r].content
TasksKept == \A t \in Clients : task[t] # None => task'[t] # None

LEMMA ProcFields ==
  ASSUME proc \in [Procs -> ProcSet], NEW p \in Procs
  PROVE  /\ proc[p] \in ProcSet
         /\ proc[p].pc \in {"idle", "put", "poll", "get", "fetch", "done", "failed"}
         /\ proc[p].files \in [Names -> Texts] /\ proc[p].refs \in [Names -> Nat]
         /\ proc[p].todo \subseteq Names /\ proc[p].up \in Names \cup {None}
         /\ proc[p].job \in Clients \cup {None} /\ proc[p].id \in BOOLEAN
         /\ proc[p].code \in Codes
BY DEF ProcSet

LEMMA IdleFacts ==
  /\ Idle \in ProcSet /\ Idle.pc = "idle" /\ Idle.job = None /\ Idle.up = None
  /\ Idle.refs = NoRefs /\ \A n \in Names : Idle.refs[n] = 0
  /\ NoFiles \in [Names -> Texts] /\ NoRefs \in [Names -> Nat]
BY DEF Idle, ProcSet, NoFiles, NoRefs, Texts, Codes

LEMMA ProductFacts ==
  ASSUME NEW c \in Clients, NEW n \in Outputs, NEW code \in Codes
  PROVE  Product(n, c, code) \subseteq Product(n, c, None)
BY NoneAssumption DEF Product, Parts

\* Some process does something: the others are as they were.
LEMMA OthersGood ==
  ASSUME RefsKept, TasksKept, ref \in Seq([content : Texts, user : Users \cup {None}]),
         NEW p \in Procs, proc'[p] = proc[p], Good(p), ref' \in Seq([content : Texts, user : Users \cup {None}])
  PROVE  Good(p)'
<1>1. /\ proc[p].job \in Clients /\ task[proc[p].job] # None => task'[proc[p].job] # None
      /\ \A r, x : Key(r, x) => r \in DOMAIN ref' /\ ref'[r].content = x
      /\ Len(ref) \in Nat /\ Len(ref') \in Nat
  BY DEF RefsKept, TasksKept, Key, Makes
<1>2. \A r \in Keys : r \in 0 .. Len(ref')
  BY <1>1 DEF RefsKept, Keys
<1>3. Place(p)'
  BY <1>2 DEF Good, Place, At, Keys
<1>4. p \in Clients => Submits(p)' /\ Reads(p)'
  BY <1>1 DEF Good, Submits, Reads, At, Key, Makes
<1>5. p \in Workers => Works(p)'
  BY <1>1 DEF Good, Works, At, Key, Makes
<1> QED
  BY <1>3, <1>4, <1>5 DEF Good

\* A process that has ended is good whatever it was doing.
LEMMA EndedGood ==
  ASSUME proc \in [Procs -> ProcSet], NEW p \in Procs, proc'[p] = Ended(p), Good(p),
         Len(ref) \in Nat, Len(ref') \in Nat, Len(ref') >= Len(ref)
  PROVE  Ended(p) \in ProcSet /\ Good(p)'
<1>1. CASE p \in Workers
  <2>1. Ended(p) = Idle /\ p \notin Clients
    BY <1>1, NamesAssumption DEF Ended
  <2> QED
    BY <1>1, <2>1, IdleFacts DEF Good, Place, Works, At, Keys, Idle
<1>2. CASE p \notin Workers
  <2>1. Ended(p) = [proc[p] EXCEPT !.pc = "failed"]
    BY <1>2 DEF Ended
  <2>2. Ended(p) \in ProcSet /\ Ended(p).pc = "failed" /\ Ended(p).refs = proc[p].refs /\ Ended(p).files = proc[p].files
    BY <2>1, ProcFields DEF ProcSet
  <2>3. \A n \in Names : Ended(p).refs[n] \in 0 .. Len(ref')
    BY <2>2 DEF Good, Place, Keys
  <2> QED
    BY <1>2, <2>2, <2>3 DEF Good, Place, Submits, Reads, At, Keys
<1> QED
  BY <1>1, <1>2

\* The whole step, from what it makes of the process that takes it.
LEMMA Moves ==
  ASSUME IInv, NEW p \in Procs, NEW r, r \in ProcSet, Becomes(p, r), Server', Counts',
         RefsKept, TasksKept, Good(p)'
  PROVE  IInv'
<1>1. proc' \in [Procs -> ProcSet]
  BY DEF IInv, Becomes
<1>2. ASSUME NEW q \in Procs PROVE Good(q)'
  <2>1. CASE q = p
    BY <2>1
  <2>2. CASE q # p
    <3>1. proc'[q] = proc[q]
      BY <2>2 DEF IInv, Becomes
    <3> QED
      BY <1>2, <3>1, OthersGood DEF IInv, Server, Kept
  <2> QED
    BY <2>1, <2>2
<1> QED
  BY <1>1, <1>2 DEF IInv

LEMMA SameServer ==
  ASSUME Server, UNCHANGED server
  PROVE  Server' /\ RefsKept /\ TasksKept /\ Len(ref) \in Nat
BY DEF Server, Kept, TasksOK, ResultsOK, server, Key, Makes, Keys, RefsKept, TasksKept

LEMMA CountsKept ==
  ASSUME Counts, Fine \/ Fault
  PROVE  Counts'
BY BoundAssumption DEF Counts, Fine, Fault

LEMMA EndsKeeps ==
  ASSUME IInv, NEW p \in Procs, Becomes(p, Ended(p)), Server', Counts', RefsKept, TasksKept
  PROVE  IInv'
<1>1. proc'[p] = Ended(p) /\ Good(p) /\ Len(ref) \in Nat /\ Len(ref') \in Nat
  BY DEF IInv, Becomes, Server, Kept
<1>2. Ended(p) \in ProcSet /\ Good(p)'
  BY <1>1, EndedGood DEF IInv, RefsKept
<1> QED
  BY <1>2, Moves

LEMMA RaisesKeeps ==
  ASSUME IInv, NEW p \in Procs, Raises(p)
  PROVE  IInv'
<1>1. Server' /\ RefsKept /\ TasksKept
  BY SameServer DEF Raises, IInv
<1>2. Counts'
  BY DEF Raises, IInv, Counts
<1> QED
  BY <1>1, <1>2, EndsKeeps DEF Raises

\* A step that leaves the server alone.
LEMMA LocalKeeps ==
  ASSUME IInv, NEW p \in Procs, NEW r, r \in ProcSet, Becomes(p, r), Fine \/ Fault, UNCHANGED server, Good(p)'
  PROVE  IInv'
<1>1. Server' /\ RefsKept /\ TasksKept /\ Counts'
  BY SameServer, CountsKept DEF IInv
<1> QED
  BY <1>1, Moves

\* What the new reference of a process is to everybody.
LEMMA Appended ==
  ASSUME Server, NEW x \in Texts, NEW u \in Users \cup {None},
         ref' = Append(ref, [content |-> x, user |-> u]), UNCHANGED <<task, result>>
  PROVE  /\ Server' /\ RefsKept /\ TasksKept
         /\ Len(ref) \in Nat /\ Len(ref') = Len(ref) + 1 /\ Len(ref) + 1 \in DOMAIN ref'
         /\ ref'[Len(ref) + 1] = [content |-> x, user |-> u]
         /\ \A r \in DOMAIN ref : ref'[r] = ref[r]
<1> DEFINE new == [content |-> x, user |-> u]
           Refs == [content : Texts, user : Users \cup {None}]
<1>1. new \in Refs /\ ref \in Seq(Refs)
  BY DEF Server, Kept
<1> HIDE DEF new, Refs
<1>2. /\ ref' \in Seq(Refs) /\ Len(ref) \in Nat /\ Len(ref') = Len(ref) + 1
      /\ DOMAIN ref = 1 .. Len(ref) /\ DOMAIN ref' = 1 .. Len(ref) + 1
      /\ ref'[Len(ref) + 1] = new /\ \A r \in DOMAIN ref : ref'[r] = ref[r]
  BY <1>1 DEF new
<1>3. RefsKept /\ TasksKept
  BY <1>2 DEF RefsKept, TasksKept
<1>4. Kept'
  BY <1>2 DEF Kept, Server, Keys, Refs
<1>5. TasksOK' /\ ResultsOK'
  BY <1>2 DEF Server, TasksOK, ResultsOK, Key, Makes
<1> QED
  BY <1>2, <1>3, <1>4, <1>5 DEF Server, new

---------------------------------------------------------------------------
(* The steps. *)

LEMMA CheckKeeps == ASSUME IInv, NEW p \in Procs, NEW n \in Names, Check(p, n) PROVE IInv'
<1>1. /\ proc[p].pc = "put" /\ n \in proc[p].todo /\ proc[p].up = None /\ proc[p].refs[n] # 0
      /\ Good(p) /\ proc \in [Procs -> ProcSet] /\ proc[p] \in ProcSet
  BY ProcFields DEF Check, Treat, At, IInv
<1>2. p \in Clients
  BY <1>1 DEF Good, Works, At, Procs
<1>3. p \notin Workers
  BY <1>2, NamesAssumption
<1> DEFINE forget == [proc[p] EXCEPT !.refs[n] = 0]
           pass   == [proc[p] EXCEPT !.todo = @ \ {n}]
<1>4. CASE Becomes(p, forget) /\ Fine /\ UNCHANGED server
  <2>1. /\ forget \in ProcSet /\ forget.pc = "put" /\ forget.files = proc[p].files /\ forget.up = None
        /\ forget.todo = proc[p].todo /\ forget.refs = [proc[p].refs EXCEPT ![n] = 0]
    BY <1>1, ProcFields DEF ProcSet
  <2>2. proc'[p] = forget
    BY <1>1, <1>4 DEF Becomes
  <2>3. ref' = ref /\ Len(ref) \in Nat /\ proc[p].refs \in [Names -> Nat] /\ Inputs \subseteq Names
    <3>1. ref' = ref /\ Len(ref) \in Nat
      BY <1>4, SameServer DEF server, IInv
    <3>2. Inputs \subseteq Names
      BY DEF Names
    <3> QED
      BY <1>1, <3>1, <3>2, ProcFields
  <2> HIDE DEF forget
  <2>4. \A m \in Names : proc'[p].refs[m] = IF m = n THEN 0 ELSE proc[p].refs[m]
    BY <2>1, <2>2, <2>3
  <2>5. Place(p)'
    BY <1>1, <1>2, <1>3, <2>1, <2>2, <2>3, <2>4 DEF Good, Place, At, Keys
  <2>6. Submits(p)' /\ Reads(p)'
    BY <1>1, <1>2, <2>1, <2>2, <2>3, <2>4 DEF Good, Submits, Reads, At, Key, Makes
  <2>7. Good(p)'
    BY <1>3, <2>5, <2>6 DEF Good
  <2> QED
    BY <1>4, <2>1, <2>7, LocalKeeps
<1>5. CASE Becomes(p, pass) /\ Fine /\ UNCHANGED server
  <2>1. /\ pass \in ProcSet /\ pass.pc = "put" /\ pass.files = proc[p].files /\ pass.up = None
        /\ pass.todo = proc[p].todo \ {n} /\ pass.refs = proc[p].refs
    BY <1>1, ProcFields DEF ProcSet
  <2>2. proc'[p] = pass
    BY <1>1, <1>5 DEF Becomes
  <2>3. ref' = ref
    BY <1>5 DEF server
  <2> HIDE DEF pass
  <2>4. Good(p)'
    BY <1>1, <1>2, <1>3, <2>1, <2>2, <2>3 DEF Good, Place, Submits, Reads, At, Key, Makes, Keys
  <2> QED
    BY <1>5, <2>1, <2>4, LocalKeeps
<1>6. CASE Raises(p)
  BY <1>6, RaisesKeeps
<1> QED
  BY <1>4, <1>5, <1>6 DEF Check

\* A process that puts a file gets a reference to its content.
LEMMA NewRefKeeps ==
  ASSUME IInv, NEW p \in Procs, NEW n \in Names, proc[p].pc = "put", n \in proc[p].todo, proc[p].refs[n] = 0,
         NewRef(p, n, proc[p].files[n])
  PROVE  IInv'
<1>1. Good(p) /\ proc \in [Procs -> ProcSet] /\ proc[p] \in ProcSet
  BY ProcFields DEF IInv
<1>2. /\ Server' /\ RefsKept /\ TasksKept
      /\ Len(ref) \in Nat /\ Len(ref') = Len(ref) + 1 /\ Len(ref) + 1 \in DOMAIN ref'
      /\ ref'[Len(ref) + 1].content = proc[p].files[n]
      /\ \A r \in DOMAIN ref : r \in DOMAIN ref' /\ ref'[r] = ref[r]
  <2>1. proc[p].files[n] \in Texts /\ Account[p] \in Users \cup {None}
    BY <1>1, ProcFields DEF Users
  <2>2. ref' = Append(ref, [content |-> proc[p].files[n], user |-> Account[p]]) /\ UNCHANGED <<task, result>>
    BY DEF NewRef
  <2>3. /\ Server' /\ RefsKept /\ TasksKept
        /\ Len(ref) \in Nat /\ Len(ref') = Len(ref) + 1 /\ Len(ref) + 1 \in DOMAIN ref'
        /\ ref'[Len(ref) + 1] = [content |-> proc[p].files[n], user |-> Account[p]]
        /\ \A r \in DOMAIN ref : ref'[r] = ref[r]
    BY <2>1, <2>2, Appended DEF IInv
  <2> QED
    BY <2>3 DEF RefsKept
<1> DEFINE r == [proc[p] EXCEPT !.refs[n] = Len(ref) + 1, !.todo = @ \ {n}, !.up = None]
<1>3. CASE Becomes(p, r) /\ Fine
  <2>0. [proc[p].refs EXCEPT ![n] = Len(ref) + 1] \in [Names -> Nat] /\ proc[p].todo \ {n} \in SUBSET Names
    BY <1>1, <1>2, ProcFields
  <2>1. /\ r \in ProcSet /\ r.pc = "put" /\ r.files = proc[p].files /\ r.up = None /\ r.job = proc[p].job
        /\ r.todo = proc[p].todo \ {n} /\ r.refs = [proc[p].refs EXCEPT ![n] = Len(ref) + 1]
        /\ r.code = proc[p].code
    BY <1>1, <2>0 DEF ProcSet
  <2>2. proc'[p] = r /\ proc[p].refs \in [Names -> Nat]
    BY <1>1, <1>3, ProcFields DEF Becomes
  <2> HIDE DEF r
  <2>3. \A m \in Names : proc'[p].refs[m] = IF m = n THEN Len(ref) + 1 ELSE proc[p].refs[m]
    BY <2>1, <2>2
  <2>4. \A k \in Nat : k \in DOMAIN ref => k \in DOMAIN ref' /\ ref'[k].content = ref[k].content
    BY <1>2
  <2>5. Inputs \subseteq Names /\ Outputs \subseteq Names
    BY DEF Names
  <2>6. Place(p)'
    BY <1>1, <1>2, <2>1, <2>2, <2>3 DEF Good, Place, At, Keys
  <2>7. p \in Clients => Submits(p)' /\ Reads(p)'
    BY <1>1, <1>2, <2>1, <2>2, <2>3, <2>4, <2>5 DEF Good, Place, Submits, Reads, At, Key, Makes
  <2>8. ASSUME p \in Workers PROVE Works(p)'
    <3>1. proc[p].job \in Clients /\ task'[proc[p].job] # None
      BY <1>1, <1>2, <2>8 DEF Good, Works, At, TasksKept
    <3>2. proc[p].todo \subseteq Outputs /\ proc[p].files[n] \in Product(n, proc[p].job, proc[p].code)
      BY <1>1, <2>8 DEF Good, Works, At
    <3>3. ASSUME NEW m \in Outputs
          PROVE  /\ m \in proc[p].todo \ {n} => proc[p].files[m] \in Product(m, proc[p].job, proc[p].code) /\ proc'[p].refs[m] = 0
                 /\ proc'[p].refs[m] # 0 =>
                      proc'[p].refs[m] \in DOMAIN ref' /\ ref'[proc'[p].refs[m]].content \in Product(m, proc[p].job, proc[p].code)
                 /\ proc[p].code = "zero" => m \in proc[p].todo \ {n} \/ proc'[p].refs[m] # 0
      <4>1. CASE m = n
        BY <1>2, <2>3, <2>5, <3>2, <4>1
      <4>2. CASE m # n
        BY <1>1, <2>2, <2>3, <2>4, <2>5, <2>8, <4>2 DEF Good, Works, At, Makes
      <4> QED
        BY <4>1, <4>2
    <3> QED
      BY <2>1, <2>2, <3>1, <3>2, <3>3 DEF Works, At, Key, Makes
  <2>9. Good(p)'
    BY <2>6, <2>7, <2>8 DEF Good
  <2> QED
    BY <1>2, <1>3, <2>1, <2>9, Moves, CountsKept DEF IInv
<1>4. CASE Becomes(p, Ended(p)) /\ Fault
  BY <1>2, <1>4, EndsKeeps, CountsKept DEF IInv
<1> QED
  BY <1>3, <1>4 DEF NewRef, Answered

LEMMA AskBlobKeeps == ASSUME IInv, NEW p \in Procs, NEW n \in Names, AskBlob(p, n) PROVE IInv'
<1>1. /\ proc[p].pc = "put" /\ n \in proc[p].todo /\ proc[p].up = None /\ proc[p].refs[n] = 0
      /\ Good(p) /\ proc \in [Procs -> ProcSet] /\ proc[p] \in ProcSet
  BY ProcFields DEF AskBlob, Treat, At, IInv
<1>2. CASE NewRef(p, n, proc[p].files[n])
  BY <1>1, <1>2, NewRefKeeps
<1>3. CASE Raises(p)
  BY <1>3, RaisesKeeps
<1> DEFINE r == [proc[p] EXCEPT !.up = n]
<1>4. CASE Becomes(p, r) /\ Fine /\ UNCHANGED server
  <2>1. /\ r \in ProcSet /\ r.pc = "put" /\ r.files = proc[p].files /\ r.up = n /\ r.job = proc[p].job
        /\ r.todo = proc[p].todo /\ r.refs = proc[p].refs /\ r.code = proc[p].code
    BY <1>1, ProcFields DEF ProcSet
  <2>2. proc'[p] = r
    BY <1>1, <1>4 DEF Becomes
  <2>3. ref' = ref /\ task' = task
    BY <1>4 DEF server
  <2> HIDE DEF r
  <2>4. Place(p)'
    BY <1>1, <2>1, <2>2, <2>3 DEF Good, Place, At, Keys
  <2>5. p \in Clients => Submits(p)' /\ Reads(p)'
    BY <1>1, <2>1, <2>2, <2>3 DEF Good, Submits, Reads, At, Key, Makes
  <2>6. p \in Workers => Works(p)'
    BY <1>1, <2>1, <2>2, <2>3 DEF Good, Works, At, Key, Makes
  <2> QED
    BY <1>4, <2>1, <2>4, <2>5, <2>6, LocalKeeps DEF Good
<1> QED
  BY <1>2, <1>3, <1>4 DEF AskBlob

LEMMA SendBlobKeeps == ASSUME IInv, NEW p \in Procs, SendBlob(p) PROVE IInv'
<1>1. proc[p].pc = "put" /\ proc[p].up # None /\ Place(p) /\ proc[p].up \in Names
  BY ProcFields DEF SendBlob, At, IInv, Good
<1>2. NewRef(p, proc[p].up, proc[p].files[proc[p].up])
  BY DEF SendBlob, Sent
<1> QED
  BY <1>1, <1>2, NewRefKeeps DEF Place, At

LEMMA PostTaskKeeps == ASSUME IInv, NEW c \in Clients, PostTask(c) PROVE IInv'
<1>1. /\ proc[c].pc = "put" /\ proc[c].todo = {} /\ c \in Procs /\ c \notin Workers
      /\ Good(c) /\ proc \in [Procs -> ProcSet] /\ proc[c] \in ProcSet /\ proc[c].refs \in [Names -> Nat]
  BY ProcFields, NamesAssumption DEF PostTask, AllPut, At, IInv, Procs
<1> DEFINE new == [files |-> proc[c].refs, assignee |-> None, holders |-> {}]
           r   == [proc[c] EXCEPT !.pc = "poll"]
<1>2. CASE task' = [task EXCEPT ![c] = new] /\ Answered(c, r) /\ UNCHANGED <<ref, result>>
  <2>1. new \in TaskSet /\ new.files = proc[c].refs /\ new.assignee = None /\ new.holders = {}
    BY <1>1 DEF TaskSet
  <2>11. new # None
    BY <2>1, NoneAssumption
  <2>2. \A n \in Names : proc[c].refs[n] \in Keys
    BY <1>1 DEF Good, Place
  <2>3. \A n \in Inputs : Key(proc[c].refs[n], In(c, n))
    BY <1>1 DEF Good, Submits, At
  <2> HIDE DEF new
  <2>4. task' \in [Clients -> TaskSet \cup {None}] /\ task'[c] = new /\ \A t \in Clients \ {c} : task'[t] = task[t]
    BY <1>2, <2>1, <2>11 DEF IInv, Server, Kept
  <2>5. Kept'
    BY <1>2, <2>1, <2>2, <2>4 DEF IInv, Server, Kept, Keys
  <2>6. TasksOK' /\ ResultsOK'
    BY <1>2, <2>1, <2>3, <2>4 DEF IInv, Server, TasksOK, ResultsOK, Key, Makes
  <2>7. Server' /\ RefsKept /\ TasksKept /\ Counts'
    <3>1. Len(ref) \in Nat
      BY DEF IInv, Server, Kept
    <3>2. Counts'
      BY <1>2, CountsKept DEF IInv, Answered
    <3> QED
      BY <1>2, <2>1, <2>4, <2>5, <2>6, <2>11, <3>1, <3>2 DEF Server, RefsKept, TasksKept
  <2>8. r \in ProcSet /\ r.pc = "poll" /\ r.refs = proc[c].refs /\ r.files = proc[c].files
    BY <1>1, ProcFields DEF ProcSet
  <2> HIDE DEF r
  <2>9. CASE Becomes(c, r)
    <3>1. proc'[c] = r
      BY <1>1, <2>9 DEF Becomes
    <3>2. Good(c)'
      BY <1>1, <1>2, <2>2, <2>8, <3>1 DEF Good, Place, Submits, Reads, At, Keys
    <3> QED
      BY <1>1, <2>7, <2>8, <2>9, <3>2, Moves
  <2>10. CASE Becomes(c, Ended(c))
    BY <1>1, <2>7, <2>10, EndsKeeps
  <2> QED
    BY <1>2, <2>9, <2>10 DEF Answered
<1>3. CASE Raises(c)
  BY <1>1, <1>3, RaisesKeeps
<1> QED
  BY <1>2, <1>3 DEF PostTask

\* The row of a task says who holds it now, and who ever did.
LEMMA RowWritten ==
  ASSUME Server, NEW t \in Clients, task[t] # None, NEW new \in TaskSet,
         new.files = task[t].files, new.assignee \in {Account[w] : w \in Workers} \cup {None},
         new.holders \subseteq {Account[w] : w \in Workers},
         task' = [task EXCEPT ![t] = new], UNCHANGED <<ref, result>>
  PROVE  /\ Server' /\ RefsKept /\ TasksKept /\ Len(ref) \in Nat
         /\ task'[t] = new /\ new # None /\ \A s \in Clients \ {t} : task'[s] = task[s]
<1>1. task \in [Clients -> TaskSet \cup {None}] /\ Len(ref) \in Nat
  BY DEF Server, Kept
<1>2. new # None
  BY NoneAssumption
<1>3. task' \in [Clients -> TaskSet \cup {None}] /\ task'[t] = new /\ \A s \in Clients \ {t} : task'[s] = task[s]
  BY <1>1
<1>4. Kept' /\ TasksOK'
  BY <1>2, <1>3 DEF Server, Kept, TasksOK, Key, Makes, Keys
<1>5. ResultsOK'
  BY DEF Server, ResultsOK, Key, Makes
<1> QED
  BY <1>1, <1>2, <1>3, <1>4, <1>5 DEF Server, RefsKept, TasksKept

\* Giving a task to somebody.
LEMMA Assigned ==
  ASSUME Server, NEW t \in Clients, task[t] # None, NEW u \in {Account[w] : w \in Workers},
         task' = [task EXCEPT ![t].assignee = u, ![t].holders = @ \cup {u}],
         UNCHANGED <<ref, result>>
  PROVE  /\ Server' /\ RefsKept /\ TasksKept /\ Len(ref) \in Nat
         /\ task'[t] # None /\ task'[t].files = task[t].files /\ task'[t].assignee = u
         /\ task'[t].holders = task[t].holders \cup {u}
         /\ \A s \in Clients \ {t} : task'[s] = task[s]
<1>1. /\ task[t] \in TaskSet /\ u \in Users /\ task \in [Clients -> TaskSet \cup {None}]
      /\ task[t].holders \subseteq {Account[w] : w \in Workers}
  BY DEF Server, Kept, Users, Procs
<1> DEFINE new == [task[t] EXCEPT !.assignee = u, !.holders = @ \cup {u}]
<1>2. /\ new \in TaskSet /\ new.files = task[t].files /\ new.assignee = u
      /\ new.holders = task[t].holders \cup {u}
  BY <1>1 DEF TaskSet
<1>3. task' = [task EXCEPT ![t] = new]
  BY <1>1
<1> HIDE DEF new
<1>4. /\ new.assignee \in {Account[w] : w \in Workers} \cup {None}
      /\ new.holders \subseteq {Account[w] : w \in Workers}
  BY <1>1, <1>2
<1>5. /\ Server' /\ RefsKept /\ TasksKept /\ Len(ref) \in Nat
      /\ task'[t] = new /\ new # None /\ \A s \in Clients \ {t} : task'[s] = task[s]
  BY <1>2, <1>3, <1>4, RowWritten
<1> QED
  BY <1>2, <1>5

\* Taking it back.
LEMMA TakenBack ==
  ASSUME Server, NEW t \in Clients, task[t] # None,
         task' = [task EXCEPT ![t].assignee = None], UNCHANGED <<ref, result>>
  PROVE  /\ Server' /\ RefsKept /\ TasksKept /\ Len(ref) \in Nat
         /\ task'[t] # None /\ task'[t].files = task[t].files /\ task'[t].assignee = None
         /\ task'[t].holders = task[t].holders
         /\ \A s \in Clients \ {t} : task'[s] = task[s]
<1>1. /\ task[t] \in TaskSet /\ task \in [Clients -> TaskSet \cup {None}]
      /\ task[t].holders \subseteq {Account[w] : w \in Workers}
  BY DEF Server, Kept
<1> DEFINE new == [task[t] EXCEPT !.assignee = None]
<1>2. /\ new \in TaskSet /\ new.files = task[t].files /\ new.assignee = None
      /\ new.holders = task[t].holders
  BY <1>1 DEF TaskSet
<1>3. task' = [task EXCEPT ![t] = new]
  OBVIOUS
<1> HIDE DEF new
<1> QED
  BY <1>1, <1>2, <1>3, RowWritten

LEMMA DequeueKeeps == ASSUME IInv, NEW w \in Workers, NEW t \in Clients, Dequeue(w, t) PROVE IInv'
<1>1. w \in Procs /\ w \notin Clients /\ task[t] # None
  BY NamesAssumption DEF Procs, Dequeue, Waiting
<1>2. Server' /\ RefsKept /\ TasksKept /\ Len(ref) \in Nat /\ task'[t] # None
  <2>1. Server /\ Account[w] \in {Account[v] : v \in Workers}
    BY DEF IInv
  <2>2. task' = [task EXCEPT ![t].assignee = Account[w], ![t].holders = @ \cup {Account[w]}] /\ UNCHANGED <<ref, result>>
    BY DEF Dequeue
  <2> QED
    BY <1>1, <2>1, <2>2, Assigned
<1>3. Counts'
  BY CountsKept DEF IInv, Dequeue, Answered
<1> DEFINE r == [Idle EXCEPT !.pc = "get", !.job = t]
<1>4. r \in ProcSet /\ r.pc = "get" /\ r.job = t /\ r.up = None /\ r.refs = NoRefs /\ \A n \in Names : r.refs[n] = 0
  BY IdleFacts DEF ProcSet, Idle
<1> HIDE DEF r
<1>5. CASE Becomes(w, r)
  <2>1. proc'[w] = r /\ ref' = ref
    BY <1>1, <1>5 DEF Becomes, IInv, Dequeue
  <2>2. Good(w)'
    BY <1>1, <1>2, <1>4, <2>1 DEF Good, Place, Works, At, Keys
  <2> QED
    BY <1>1, <1>2, <1>3, <1>4, <1>5, <2>2, Moves
<1>6. CASE Becomes(w, Ended(w))
  BY <1>1, <1>2, <1>3, <1>6, EndsKeeps
<1> QED
  BY <1>5, <1>6 DEF Dequeue, Answered, r

LEMMA TaskGetKeeps == ASSUME IInv, NEW w \in Workers, TaskGet(w) PROVE IInv'
<1>1. w \in Procs /\ w \notin Clients /\ Good(w) /\ proc[w] \in ProcSet /\ proc[w].pc = "get"
  BY NamesAssumption, ProcFields DEF Procs, IInv, TaskGet, At
<1>2. PICK t \in Clients : t = proc[w].job /\ task[t] # None
  BY <1>1 DEF Good, Works, At
<1>3. /\ task[t].files \in [Names -> Nat] /\ \A n \in Names : task[t].files[n] \in Keys
      /\ \A n \in Inputs : Key(task[t].files[n], In(t, n))
  BY <1>2 DEF IInv, Server, Kept, TasksOK, TaskSet
<1> DEFINE r == [proc[w] EXCEPT !.pc = "fetch", !.refs = task[t].files, !.todo = Inputs]
<1>4. CASE Becomes(w, r) /\ Fine /\ UNCHANGED server
  <2>1. Inputs \in SUBSET Names
    BY DEF Names
  <2>2. r \in ProcSet /\ r.pc = "fetch" /\ r.job = t /\ r.refs = task[t].files /\ r.todo = Inputs /\ r.up = proc[w].up
    BY <1>1, <1>2, <1>3, <2>1, ProcFields DEF ProcSet
  <2> HIDE DEF r
  <2>3. proc'[w] = r /\ ref' = ref /\ task' = task
    BY <1>1, <1>4 DEF Becomes, IInv, server
  <2>4. Good(w)'
    BY <1>1, <1>2, <1>3, <2>2, <2>3 DEF Good, Place, Works, At, Keys, Key, Makes
  <2> QED
    BY <1>1, <1>4, <2>2, <2>4, LocalKeeps
<1>5. CASE Raises(w)
  BY <1>1, <1>5, RaisesKeeps
<1> QED
  BY <1>2, <1>4, <1>5 DEF TaskGet

LEMMA BlobGetKeeps == ASSUME IInv, NEW p \in Procs, NEW n \in Names, BlobGet(p, n) PROVE IInv'
<1>1. /\ Good(p) /\ proc[p] \in ProcSet /\ proc \in [Procs -> ProcSet]
      /\ proc[p].pc = "fetch" /\ n \in proc[p].todo
  BY ProcFields DEF IInv, BlobGet, At
<1> DEFINE got  == [proc[p] EXCEPT !.files[n] = ref[proc[p].refs[n]].content, !.todo = @ \ {n}]
           wait == [proc[p] EXCEPT !.pc = "poll"]
<1>2. CASE Becomes(p, got) /\ Exists(proc[p].refs[n]) /\ Fine /\ UNCHANGED server
  <2>1. ref[proc[p].refs[n]].content \in Texts
    <3> DEFINE Refs == [content : Texts, user : Users \cup {None}]
    <3>1. ref \in Seq(Refs) /\ proc[p].refs[n] \in DOMAIN ref
      BY <1>2 DEF Exists, IInv, Server, Kept
    <3>2. \A x \in Refs : x.content \in Texts
      OBVIOUS
    <3> HIDE DEF Refs
    <3>3. ref[proc[p].refs[n]] \in Refs
      BY <3>1
    <3> QED
      BY <3>2, <3>3
  <2>2. /\ [proc[p].files EXCEPT ![n] = ref[proc[p].refs[n]].content] \in [Names -> Texts]
        /\ proc[p].todo \ {n} \in SUBSET Names
    BY <1>1, <2>1, ProcFields
  <2>3. /\ got \in ProcSet /\ got.pc = "fetch" /\ got.up = proc[p].up /\ got.job = proc[p].job /\ got.refs = proc[p].refs
        /\ got.todo = proc[p].todo \ {n} /\ got.code = proc[p].code
        /\ got.files = [proc[p].files EXCEPT ![n] = ref[proc[p].refs[n]].content]
    BY <1>1, <2>2, ProcFields DEF ProcSet
  <2>4. proc'[p] = got /\ ref' = ref /\ task' = task /\ proc[p].files \in [Names -> Texts]
    BY <1>1, <1>2, ProcFields DEF Becomes, server
  <2>5. Inputs \subseteq Names /\ Outputs \subseteq Names
    BY DEF Names
  <2> HIDE DEF got
  <2>6. \A m \in Names : proc'[p].files[m] = IF m = n THEN ref[proc[p].refs[n]].content ELSE proc[p].files[m]
    BY <2>3, <2>4
  <2>7. Place(p)'
    BY <1>1, <2>3, <2>4 DEF Good, Place, At, Keys
  <2>8. ASSUME p \in Clients PROVE Submits(p)' /\ Reads(p)'
    <3>1. Submits(p)'
      BY <1>1, <2>3, <2>4 DEF Submits, At
    <3>2. Reads(p)
      BY <1>1, <2>8 DEF Good
    <3>3. proc[p].code \in Codes /\ n \in Outputs
      BY <1>1, <3>2, ProcFields DEF Reads, At
    <3>4. ref[proc[p].refs[n]].content \in Product(n, p, proc[p].code)
      BY <1>1, <3>2, <3>3 DEF Reads, At, Makes
    <3>5. ref[proc[p].refs[n]].content \in Product(n, p, None)
      BY <2>8, <3>3, <3>4, ProductFacts
    <3> QED
      BY <1>1, <2>3, <2>4, <2>5, <2>6, <3>1, <3>2, <3>4, <3>5 DEF Reads, At, Makes
  <2>9. p \in Workers => Works(p)'
    BY <1>1, <2>3, <2>4, <2>5, <2>6 DEF Good, Works, At, Key, Makes
  <2> QED
    BY <1>2, <2>3, <2>7, <2>8, <2>9, LocalKeeps DEF Good
<1>3. CASE Raises(p)
  BY <1>3, RaisesKeeps
<1>4. CASE p \in Clients /\ Becomes(p, wait) /\ Fine /\ UNCHANGED server
  <2>1. p \notin Workers
    BY <1>4, NamesAssumption
  <2>2. wait \in ProcSet /\ wait.pc = "poll" /\ wait.refs = proc[p].refs /\ wait.files = proc[p].files
    BY <1>1, ProcFields DEF ProcSet
  <2>3. proc'[p] = wait /\ ref' = ref
    BY <1>1, <1>4 DEF Becomes, server
  <2> HIDE DEF wait
  <2>4. Good(p)'
    BY <1>1, <2>1, <2>2, <2>3 DEF Good, Place, Submits, Reads, At, Keys
  <2> QED
    BY <1>4, <2>2, <2>4, LocalKeeps
<1> QED
  BY <1>2, <1>3, <1>4 DEF BlobGet

\* Whichever files stage0 makes, they are the output of the worker's task.
LEMMA Stage0Keeps == ASSUME IInv, NEW w \in Procs, Stage0(w) PROVE IInv'
<1>1. /\ Good(w) /\ proc[w] \in ProcSet /\ proc \in [Procs -> ProcSet] /\ w \in Workers /\ w \notin Clients
      /\ proc[w].pc = "fetch" /\ proc[w].todo = {}
  BY ProcFields, NamesAssumption DEF IInv, Stage0, Fetched, At
<1>2. PICK t \in Clients : t = proc[w].job /\ task[t] # None
  BY <1>1 DEF Good, Works, At
<1>3. [i \in Inputs |-> proc[w].files[i]] = [i \in Inputs |-> In(t, i)]
  BY <1>1, <1>2 DEF Good, Works, At
<1> DEFINE files(F, part) == [n \in Names |-> IF n \in F THEN Own(t, n, part) ELSE None]
           made(F, part, id, code) ==
             [proc[w] EXCEPT !.pc = "put", !.todo = F, !.id = id, !.code = code,
                             !.refs = NoRefs, !.files = files(F, part)]
<1>31. \A F, part, id, code : Made(w, F, part, id, code) = made(F, part, id, code)
  BY <1>3, Zenon DEF Made, Own
<1> HIDE DEF made
<1>4. PICK F \in SUBSET Outputs, part \in Parts, id \in BOOLEAN, code \in Codes :
        /\ code = "zero" => F = Outputs /\ part = "whole"
        /\ Becomes(w, made(F, part, id, code)) /\ (Fine \/ Fault) /\ UNCHANGED server
  <2>1. \/ Becomes(w, made(Outputs, "whole", TRUE, "zero")) /\ Fine
        \/ \E F \in SUBSET Outputs : Becomes(w, made(F, "rest", TRUE, "other")) /\ Fine
        \/ \E F \in SUBSET Outputs : Becomes(w, made(F, "rest", TRUE, None)) /\ Fault
        \/ Becomes(w, made({}, "rest", FALSE, None)) /\ Fault
    <3>1. \A G, part, id, code :
            Becomes(w, Made(w, G, part, id, code)) => Becomes(w, made(G, part, id, code))
      BY <1>31
    <3> QED
      BY <3>1, Zenon DEF Stage0
  <2>2. UNCHANGED server /\ {} \in SUBSET Outputs /\ Outputs \in SUBSET Outputs
    BY DEF Stage0
  <2>3. "whole" \in Parts /\ "rest" \in Parts /\ "zero" \in Codes /\ "other" \in Codes /\ None \in Codes
    BY DEF Parts, Codes
  <2>4. None # "zero"
    BY NoneAssumption
  <2> QED
    BY <2>1, <2>2, <2>3, <2>4
<1> DEFINE r == made(F, part, id, code)
           fs == files(F, part)
<1>5. fs \in [Names -> Texts] /\ F \in SUBSET Names
  <2>1. ASSUME NEW n \in F PROVE Own(t, n, part) \in Texts
    BY DEF Texts, Contents, Products
  <2> QED
    BY <2>1 DEF Texts, Names
<1>51. \A n \in F : Own(t, n, part) \in Product(n, t, code)
  BY <1>4 DEF Product
<1>6. \A n \in Names : fs[n] = IF n \in F THEN Own(t, n, part) ELSE None
  OBVIOUS
<1>61. r = [proc[w] EXCEPT !.pc = "put", !.todo = F, !.id = id, !.code = code,
                           !.refs = NoRefs, !.files = fs]
  BY DEF made
<1> HIDE DEF files, fs, r
<1>7. /\ r \in ProcSet /\ r.pc = "put" /\ r.todo = F
      /\ r.refs = NoRefs /\ r.files = fs /\ r.job = t
      /\ r.code = code /\ r.up = proc[w].up
  BY <1>1, <1>2, <1>4, <1>5, <1>61, ProcFields, IdleFacts DEF ProcSet
<1>71. Becomes(w, r)
  BY <1>4 DEF r
<1>8. proc'[w] = r /\ ref' = ref /\ task' = task
  BY <1>1, <1>4, <1>71 DEF Becomes, server
<1>9. \A n \in Names : NoRefs[n] = 0
  BY DEF NoRefs
<1>10. Len(ref) \in Nat /\ Outputs \subseteq Names
  BY DEF IInv, Server, Kept, Names
<1>11. proc[w].up = None
  BY <1>1 DEF Good, Place, At
<1>12. Good(w)'
  BY <1>1, <1>2, <1>4, <1>51, <1>6, <1>7, <1>8, <1>9, <1>10, <1>11 DEF Good, Place, Works, At, Keys
<1> QED
  BY <1>4, <1>7, <1>71, <1>12, LocalKeeps

LEMMA PostResultKeeps == ASSUME IInv, NEW w \in Procs, PostResult(w) PROVE IInv'
<1>1. /\ Good(w) /\ proc[w] \in ProcSet /\ proc \in [Procs -> ProcSet] /\ w \in Workers /\ w \notin Clients
      /\ proc[w].pc = "put" /\ proc[w].todo = {} /\ proc[w].refs \in [Names -> Nat] /\ proc[w].code \in Codes
  BY ProcFields, NamesAssumption DEF IInv, PostResult, AllPut, At
<1>2. PICK t \in Clients : t = proc[w].job
  BY <1>1 DEF Good, Works, At
<1> DEFINE left == {proc[w].refs[n] : n \in Outputs} \ {0}
           new  == [files |-> proc[w].refs, user |-> Account[w], code |-> proc[w].code, left |-> left]
<1>3. CASE result' = [result EXCEPT ![t] = new] /\ Becomes(w, Idle) /\ Fine /\ UNCHANGED <<ref, task>>
  <2>1. Outputs \subseteq Names /\ \A n \in Names : proc[w].refs[n] \in Keys /\ proc[w].refs[n] \in Nat
    BY <1>1 DEF Names, Good, Place
  <2>2. left \subseteq Keys /\ left \in SUBSET Nat
    BY <2>1
  <2> HIDE DEF left
  <2>3. new \in ResultSet /\ new.files = proc[w].refs /\ new.code = proc[w].code /\ new.left = left
    BY <1>1, <2>2 DEF ResultSet, Users
  <2>4. new # None
    BY <2>3, NoneAssumption
  <2>5. \A n \in Outputs : /\ proc[w].refs[n] # 0 => Makes(proc[w].refs[n], n, t, proc[w].code)
                           /\ proc[w].code = "zero" => proc[w].refs[n] # 0
    BY <1>1, <1>2 DEF Good, Works, At
  <2> HIDE DEF new
  <2>6. result' \in [Clients -> ResultSet \cup {None}] /\ result'[t] = new /\ \A s \in Clients \ {t} : result'[s] = result[s]
    BY <1>3, <2>3 DEF IInv, Server, Kept
  <2>7. Kept'
    BY <1>3, <2>1, <2>2, <2>3, <2>6 DEF IInv, Server, Kept, Keys
  <2>8. TasksOK' /\ ResultsOK'
    BY <1>3, <2>3, <2>5, <2>6 DEF IInv, Server, TasksOK, ResultsOK, Key, Makes
  <2>9. RefsKept /\ TasksKept /\ Counts' /\ Len(ref) \in Nat
    BY <1>3, CountsKept DEF IInv, Server, Kept, RefsKept, TasksKept
  <2>10. Ended(w) = Idle
    BY <1>1 DEF Ended
  <2> QED
    BY <1>3, <2>7, <2>8, <2>9, <2>10, EndsKeeps DEF Server
<1>4. CASE Raises(w)
  BY <1>4, RaisesKeeps
<1> QED
  BY <1>2, <1>3, <1>4 DEF PostResult

\* A step of the server by itself, when it keeps what the server has.
LEMMA ServerKeeps ==
  ASSUME IInv, Server', Counts', RefsKept, TasksKept, UNCHANGED proc
  PROVE  IInv'
<1>1. ASSUME NEW p \in Procs PROVE Good(p)'
  BY <1>1, OthersGood DEF IInv, Server, Kept
<1> QED
  BY <1>1 DEF IInv

LEMMA UserChanged ==
  ASSUME Server, NEW r \in DOMAIN ref, NEW u \in Users \cup {None}, ref' = [ref EXCEPT ![r].user = u], UNCHANGED task
  PROVE  /\ ref' \in Seq([content : Texts, user : Users \cup {None}]) /\ Len(ref) \in Nat /\ Len(ref') = Len(ref)
         /\ DOMAIN ref' = DOMAIN ref /\ \A k \in DOMAIN ref : ref'[k].content = ref[k].content
         /\ ref'[r].user = u /\ \A k \in DOMAIN ref \ {r} : ref'[k] = ref[k]
         /\ RefsKept /\ TasksKept
<1> DEFINE Refs == [content : Texts, user : Users \cup {None}]
           new  == [ref[r] EXCEPT !.user = u]
<1>1. ref \in Seq(Refs)
  BY DEF Server, Kept
<1> HIDE DEF Refs
<1>2. ref[r] \in Refs
  BY <1>1
<1>3. new \in Refs /\ new.content = ref[r].content /\ new.user = u
  BY <1>2 DEF Refs
<1>4. ref' = [ref EXCEPT ![r] = new]
  OBVIOUS
<1> HIDE DEF new
<1>5. /\ ref' \in Seq(Refs) /\ Len(ref) \in Nat /\ Len(ref') = Len(ref)
      /\ DOMAIN ref' = DOMAIN ref /\ ref'[r] = new /\ \A k \in DOMAIN ref \ {r} : ref'[k] = ref[k]
  BY <1>1, <1>3, <1>4
<1> QED
  BY <1>3, <1>5 DEF Refs, RefsKept, TasksKept

LEMMA LeftChanged ==
  ASSUME Server, NEW t \in Clients, result[t] # None, NEW L \in SUBSET result[t].left,
         result' = [result EXCEPT ![t].left = L], UNCHANGED task,
         Len(ref) \in Nat, Len(ref') = Len(ref), DOMAIN ref' = DOMAIN ref,
         \A k \in DOMAIN ref : ref'[k].content = ref[k].content,
         ref' \in Seq([content : Texts, user : Users \cup {None}])
  PROVE  /\ Server' /\ result'[t] # None /\ result'[t].left = L
         /\ result'[t].files = result[t].files /\ result'[t].code = result[t].code
         /\ result'[t].user = result[t].user
         /\ \A s \in Clients \ {t} : result'[s] = result[s]
<1> DEFINE new == [result[t] EXCEPT !.left = L]
<1>1. result[t] \in ResultSet /\ result \in [Clients -> ResultSet \cup {None}] /\ result[t].left \subseteq Keys
  BY DEF Server, Kept
<1>2. L \in SUBSET Nat /\ L \subseteq Keys
  BY <1>1 DEF ResultSet
<1>3. /\ new \in ResultSet /\ new.files = result[t].files /\ new.code = result[t].code /\ new.left = L
      /\ new.user = result[t].user
  BY <1>1, <1>2 DEF ResultSet
<1>4. new # None
  BY <1>3, NoneAssumption
<1>5. result' = [result EXCEPT ![t] = new]
  OBVIOUS
<1> HIDE DEF new
<1>6. result' \in [Clients -> ResultSet \cup {None}] /\ result'[t] = new /\ \A s \in Clients \ {t} : result'[s] = result[s]
  BY <1>1, <1>3, <1>5
<1>7. Kept'
  BY <1>2, <1>3, <1>6 DEF Server, Kept, Keys
<1>8. TasksOK' /\ ResultsOK'
  BY <1>3, <1>6 DEF Server, TasksOK, ResultsOK, Key, Makes
<1> QED
  BY <1>3, <1>4, <1>6, <1>7, <1>8 DEF Server

LEMMA GiveRefKeeps == ASSUME IInv, NEW t \in Clients, NEW r \in DOMAIN ref, GiveRef(t, r) PROVE IInv'
<1>1. Account[t] \in Users \cup {None} /\ result[t].left \ {r} \in SUBSET result[t].left
  BY DEF Users, Procs
<1>2. /\ ref' \in Seq([content : Texts, user : Users \cup {None}]) /\ Len(ref) \in Nat /\ Len(ref') = Len(ref)
      /\ DOMAIN ref' = DOMAIN ref /\ \A k \in DOMAIN ref : ref'[k].content = ref[k].content
      /\ RefsKept /\ TasksKept
  BY <1>1, UserChanged DEF GiveRef, IInv
<1>3. Server'
  BY <1>1, <1>2, LeftChanged DEF GiveRef, IInv
<1> QED
  BY <1>2, <1>3, ServerKeeps, CountsKept DEF GiveRef, IInv

LEMMA HandlerDiesKeeps == ASSUME IInv, NEW t \in Clients, HandlerDies(t) PROVE IInv'
<1>1. RefsKept /\ TasksKept /\ ref \in Seq([content : Texts, user : Users \cup {None}]) /\ Len(ref) \in Nat
  BY DEF HandlerDies, IInv, Server, Kept, RefsKept, TasksKept
<1>2. {} \in SUBSET result[t].left /\ DOMAIN ref' = DOMAIN ref /\ ref' = ref
  BY DEF HandlerDies
<1>3. Server'
  BY <1>1, <1>2, LeftChanged DEF HandlerDies, IInv
<1> QED
  BY <1>1, <1>3, ServerKeeps, CountsKept DEF HandlerDies, IInv

LEMMA DeleteRefKeeps == ASSUME IInv, NEW p \in Procs, NEW r \in DOMAIN ref, DeleteRef(p, r) PROVE IInv'
<1>1. /\ ref' \in Seq([content : Texts, user : Users \cup {None}]) /\ Len(ref) \in Nat /\ Len(ref') = Len(ref)
      /\ DOMAIN ref' = DOMAIN ref /\ \A k \in DOMAIN ref : ref'[k].content = ref[k].content
      /\ RefsKept /\ TasksKept
  BY UserChanged DEF DeleteRef, IInv
<1>2. Server'
  BY <1>1 DEF DeleteRef, IInv, Server, Kept, TasksOK, ResultsOK, Key, Makes, Keys
<1>3. Counts'
  BY BoundAssumption DEF DeleteRef, IInv, Counts
<1> QED
  BY <1>1, <1>2, <1>3, ServerKeeps DEF DeleteRef

LEMMA UnassignKeeps == ASSUME IInv, NEW t \in Clients, Unassign(t) PROVE IInv'
<1>1. Server' /\ RefsKept /\ TasksKept
  BY TakenBack DEF Unassign, IInv
<1> QED
  BY <1>1, ServerKeeps, CountsKept DEF Unassign, IInv

LEMMA ResultGetKeeps == ASSUME IInv, NEW c \in Clients, ResultGet(c) PROVE IInv'
<1>1. /\ c \in Procs /\ c \notin Workers /\ Good(c) /\ proc[c] \in ProcSet /\ proc \in [Procs -> ProcSet]
      /\ proc[c].pc = "poll" /\ result[c] # None
  BY NamesAssumption, ProcFields DEF Procs, IInv, ResultGet, At
<1>2. /\ result[c] \in ResultSet /\ \A n \in Names : result[c].files[n] \in Keys
      /\ \A n \in Outputs : /\ result[c].files[n] # 0 => Makes(result[c].files[n], n, c, result[c].code)
                            /\ result[c].code = "zero" => result[c].files[n] # 0
  BY <1>1 DEF IInv, Server, Kept, ResultsOK
<1>3. result[c].files \in [Names -> Nat] /\ result[c].code \in Codes
  BY <1>2 DEF ResultSet
<1> DEFINE todo == {n \in Outputs : result[c].files[n] # 0}
           r == [proc[c] EXCEPT !.pc = "fetch", !.code = result[c].code, !.refs = result[c].files, !.todo = todo]
<1>4. todo \in SUBSET Names /\ todo \subseteq Outputs
  BY DEF Names
<1>5. \A n \in Outputs : n \in todo <=> result[c].files[n] # 0
  OBVIOUS
<1>6. Becomes(c, r) /\ Fine /\ UNCHANGED server
  BY DEF ResultGet
<1> HIDE DEF todo
<1>7. /\ r \in ProcSet /\ r.pc = "fetch" /\ r.code = result[c].code /\ r.refs = result[c].files
      /\ r.todo = todo /\ r.files = proc[c].files
  BY <1>1, <1>3, <1>4, ProcFields DEF ProcSet
<1> HIDE DEF r
<1>8. proc'[c] = r /\ ref' = ref
  BY <1>1, <1>6 DEF Becomes, server
<1>9. Good(c)'
  <2>1. Place(c)' /\ Submits(c)'
    BY <1>1, <1>2, <1>7, <1>8 DEF Place, Submits, At, Keys
  <2>2. ASSUME NEW n \in Outputs
        PROVE  /\ n \in todo => result[c].files[n] \in DOMAIN ref /\ ref[result[c].files[n]].content \in Product(n, c, result[c].code)
               /\ n \notin todo => result[c].code # "zero"
    BY <1>2, <1>5 DEF Key, Makes
  <2>3. \A n \in Outputs : proc'[c].files[n] \in Product(n, c, None) \cup {None}
    BY <1>1, <1>7, <1>8 DEF Good, Reads
  <2>4. Reads(c)'
    BY <1>4, <1>7, <1>8, <2>2, <2>3 DEF Reads, At, Makes
  <2> QED
    BY <1>1, <2>1, <2>4 DEF Good
<1> QED
  BY <1>1, <1>6, <1>7, <1>9, LocalKeeps

LEMMA FinishKeeps == ASSUME IInv, NEW c \in Clients, Finish(c) PROVE IInv'
<1>1. /\ c \in Procs /\ c \notin Workers /\ Good(c) /\ proc[c] \in ProcSet /\ proc \in [Procs -> ProcSet]
      /\ proc[c].pc = "fetch" /\ proc[c].todo = {}
  BY NamesAssumption, ProcFields DEF Procs, IInv, Finish, Fetched, At
<1> DEFINE r == [proc[c] EXCEPT !.pc = "done"]
<1>2. Becomes(c, r) /\ Fine /\ UNCHANGED server
  BY DEF Finish
<1>3. /\ r \in ProcSet /\ r.pc = "done" /\ r.code = proc[c].code /\ r.refs = proc[c].refs
      /\ r.todo = {} /\ r.files = proc[c].files
  BY <1>1, ProcFields DEF ProcSet
<1> HIDE DEF r
<1>4. proc'[c] = r /\ ref' = ref
  BY <1>1, <1>2 DEF Becomes, server
<1>5. Good(c)'
  BY <1>1, <1>3, <1>4 DEF Good, Place, Submits, Reads, At, Keys, Key, Makes
<1> QED
  BY <1>1, <1>2, <1>3, <1>5, LocalKeeps

LEMMA CutKeeps == ASSUME IInv, NEW p \in Procs, Cut(p) PROVE IInv'
<1>1. Server' /\ RefsKept /\ TasksKept /\ Counts'
  BY SameServer, CountsKept DEF Cut, IInv
<1> QED
  BY <1>1, EndsKeeps DEF Cut

LEMMA PutKeeps == ASSUME IInv, NEW p \in Procs, Put(p) PROVE IInv'
BY CheckKeeps, AskBlobKeeps, SendBlobKeeps DEF Put

LEMMA NextIInv == IInv /\ [Next]_vars => IInv'
<1> SUFFICES ASSUME IInv, [Next]_vars PROVE IInv'
  OBVIOUS
<1> USE DEF Procs
<1>1. ASSUME NEW c \in Clients, Execute(c) PROVE IInv'
  BY <1>1, PutKeeps, PostTaskKeeps, ResultGetKeeps, BlobGetKeeps, FinishKeeps DEF Execute
<1>2. ASSUME NEW c \in Clients, Give(c) PROVE IInv'
  BY <1>2, GiveRefKeeps DEF Give
<1>3. ASSUME NEW w \in Workers, Work(w) PROVE IInv'
  BY <1>3, DequeueKeeps, TaskGetKeeps, BlobGetKeeps, Stage0Keeps, PutKeeps, PostResultKeeps DEF Work
<1>4. CASE UNCHANGED vars
  <2>1. Server' /\ RefsKept /\ TasksKept /\ Counts'
    BY <1>4, SameServer, CountsKept DEF IInv, vars, Fine
  <2> QED
    BY <1>4, <2>1, ServerKeeps DEF vars
<1> QED
  BY <1>1, <1>2, <1>3, <1>4, HandlerDiesKeeps, UnassignKeeps, CutKeeps, DeleteRefKeeps DEF Next

LEMMA InitIInv == Init => IInv
<1> SUFFICES ASSUME Init PROVE IInv
  OBVIOUS
<1>1. PICK old \in Clients, i \in Inputs, u \in Users \cup {None}, F \in SUBSET Inputs :
        /\ F \subseteq {i}
        /\ ref = <<[content |-> In(old, i), user |-> u]>>
        /\ proc = [p \in Procs |-> IF p \in Workers THEN Idle ELSE Submitter(p, IF p = old THEN F ELSE {})]
  <2>1. PICK old \in Clients, i \in Inputs, u \in Users \cup {None} : \E F \in {{}, {i}} :
          /\ ref = <<[content |-> In(old, i), user |-> u]>>
          /\ proc = [p \in Procs |-> IF p \in Workers THEN Idle ELSE Submitter(p, IF p = old THEN F ELSE {})]
    BY Zenon DEF Init
  <2>2. PICK F \in {{}, {i}} :
          /\ ref = <<[content |-> In(old, i), user |-> u]>>
          /\ proc = [p \in Procs |-> IF p \in Workers THEN Idle ELSE Submitter(p, IF p = old THEN F ELSE {})]
    BY <2>1, Zenon
  <2>3. F \in SUBSET Inputs /\ F \subseteq {i}
    OBVIOUS
  <2> QED
    BY <2>2, <2>3, Zenon
<1> DEFINE Refs == [content : Texts, user : Users \cup {None}]
           first == [content |-> In(old, i), user |-> u]
<1>2. first \in Refs
  BY DEF Texts, Contents
<1> HIDE DEF first, Refs
<1>3. ref \in Seq(Refs) /\ Len(ref) = 1 /\ DOMAIN ref = {1} /\ ref[1] = first
  BY <1>1, <1>2 DEF first
<1>4. Server
  BY <1>3 DEF Init, Server, Kept, TasksOK, ResultsOK, Refs
<1>5. Counts
  <2>1. 0 \in 0 .. MaxFaults
    BY BoundAssumption
  <2> QED
    BY <2>1 DEF Init, Counts
<1>6. ASSUME NEW p \in Workers PROVE p \in Procs /\ proc[p] \in ProcSet /\ Good(p)
  <2>1. p \in Procs /\ p \notin Clients /\ proc[p] = Idle
    BY <1>1, NamesAssumption DEF Procs
  <2> QED
    BY <1>3, <1>6, <2>1, IdleFacts DEF Good, Place, Works, At, Keys, Idle
<1>7. ASSUME NEW p \in Clients PROVE p \in Procs /\ proc[p] \in ProcSet /\ Good(p)
  <2> DEFINE G == IF p = old THEN F ELSE {}
             files == [n \in Names |-> IF n \in Inputs THEN In(p, n) ELSE None]
             refs  == [n \in Names |-> IF n \in G THEN 1 ELSE 0]
  <2>1. p \in Procs /\ p \notin Workers /\ proc[p] = Submitter(p, G)
    BY <1>1, NamesAssumption DEF Procs
  <2>2. files \in [Names -> Texts] /\ refs \in [Names -> Nat] /\ Inputs \in SUBSET Names
    BY DEF Texts, Contents, Names
  <2>3. \A n \in Inputs : /\ files[n] = In(p, n) /\ refs[n] \in {0, 1}
                          /\ refs[n] # 0 => Key(1, In(p, n))
    <3>1. \A n \in Inputs : n \in Names /\ (n \in G => p = old /\ n = i)
      BY <1>1 DEF Names
    <3>2. Key(1, In(old, i))
      BY <1>3 DEF Key, Makes, first
    <3> QED
      BY <3>1, <3>2
  <2>4. /\ \A n \in Names : refs[n] \in Keys
        /\ \A n \in Outputs : files[n] = None
    BY <1>3, NamesAssumption DEF Keys, Names
  <2>5. Submitter(p, G) = [Idle EXCEPT !.pc = "put", !.todo = Inputs, !.files = files, !.refs = refs]
    BY DEF Submitter
  <2> HIDE DEF files, refs
  <2>6. /\ proc[p] \in ProcSet /\ proc[p].pc = "put" /\ proc[p].todo = Inputs /\ proc[p].files = files
        /\ proc[p].refs = refs /\ proc[p].up = None
    <3> DEFINE r == [Idle EXCEPT !.pc = "put", !.todo = Inputs, !.files = files, !.refs = refs]
    <3>1. r \in ProcSet
      BY <2>2, IdleFacts DEF ProcSet
    <3>2. r.pc = "put" /\ r.todo = Inputs /\ r.files = files /\ r.refs = refs /\ r.up = None
      BY IdleFacts DEF ProcSet
    <3> QED
      BY <2>1, <2>5, <3>1, <3>2
  <2> QED
    BY <2>1, <2>3, <2>4, <2>6 DEF Good, Place, Submits, Reads, At
<1>8. proc \in [Procs -> ProcSet]
  BY <1>1, <1>6, <1>7 DEF Procs
<1> QED
  BY <1>4, <1>5, <1>6, <1>7, <1>8 DEF IInv, Procs

LEMMA Invariance == Spec => []IInv
BY InitIInv, NextIInv, PTL DEF Spec

LEMMA IInvTypeOK == IInv => TypeOK
<1> SUFFICES ASSUME IInv PROVE TypeOK
  OBVIOUS
<1>1. \A r \in DOMAIN ref : ref[r].user \in Users \cup {None}
  <2> DEFINE Refs == [content : Texts, user : Users \cup {None}]
  <2>1. ref \in Seq(Refs) /\ \A x \in Refs : x.user \in Users \cup {None}
    BY DEF IInv, Server, Kept
  <2> HIDE DEF Refs
  <2> QED
    BY <2>1
<1>2. ASSUME NEW t \in Clients, task[t] # None
      PROVE  task[t] \in [files : [Names -> Keys], assignee : {Account[w] : w \in Workers} \cup {None},
                         holders : SUBSET {Account[w] : w \in Workers}]
  BY <1>2 DEF IInv, Server, Kept, TaskSet
<1>3. ASSUME NEW t \in Clients, result[t] # None
      PROVE  result[t] \in [files : [Names -> Keys], user : Users, code : Codes,
                           left : SUBSET Keys]
  BY <1>3 DEF IInv, Server, Kept, ResultSet
<1>4. ASSUME NEW p \in Procs
      PROVE  proc[p] \in [pc : {"idle", "put", "poll", "get", "fetch", "done", "failed"},
                         files : [Names -> Contents \cup {Empty, None}], refs : [Names -> Keys],
                         todo : SUBSET Names, up : Names \cup {None},
                         job : Clients \cup {None}, id : BOOLEAN, code : Codes]
  BY ProcFields DEF IInv, Good, Place, Texts, ProcSet
<1> QED
  BY <1>1, <1>2, <1>3, <1>4 DEF IInv, Server, Kept, Counts, TypeOK

---------------------------------------------------------------------------
\* The types, for any clients, workers, accounts and files.
THEOREM TypeCorrect == Spec => []TypeOK
BY IInvTypeOK, Invariance, PTL

\* What execute ends with is the output of its own task run on its own files,
\* whoever is cut off, overtaken, reclaimed or reuses references in between
\* (client.py:130-168, 191-265, 437-451; foreman.py:84-115).
THEOREM ResultsAreOnesOwn == Spec => []EndToEnd
<1>1. IInv => EndToEnd
  BY DEF IInv, Good, Reads, EndToEnd, At, Procs, Product, Parts, Codes
<1> QED
  BY <1>1, Invariance, PTL

---------------------------------------------------------------------------
(* Who is to blame for an exception. *)

LEMMA PutsNeverFault ==
  ASSUME JInv, Fault PROVE faults' # 0 /\ UNCHANGED <<raised, gone>>
BY DEF JInv, IInv, Counts, Fault

\* Nothing that is said of a process changes with what is not its own.
LEMMA OthersJ ==
  ASSUME JInv, NEW q \in Procs, proc'[q] = proc[q],
         gone => gone', gone' \/ \A r : Exists(r) => Exists(r)'
  PROVE  /\ q \in Clients => Relies(q)'
         /\ Holds(q)' = Holds(q)
         /\ \A s : At(q, s)' = At(q, s)
BY DEF JInv, Relies, Holds, At

\* A step that leaves the server alone.
LEMMA LocalJ ==
  ASSUME JInv, IInv', NEW p \in Procs, \A q \in Procs \ {p} : proc'[q] = proc[q],
         UNCHANGED <<server, gone>>, Blameless', faults' = 0 => faults = 0,
         p \in Clients => Relies(p)' /\ (At(p, "put")' => At(p, "put")),
         p \in Workers => /\ Holds(p)' \subseteq Holds(p)
                          /\ At(p, "idle")' \/ (~At(p, "idle") /\ proc'[p].job = proc[p].job)
                          /\ faults' = 0 => Serves(p)'
  PROVE  JInv'
<1>1. UNCHANGED <<ref, task, result>> /\ \A r : Exists(r)' = Exists(r)
  BY DEF server, Exists
<1>2. \A q \in Procs \ {p} : /\ q \in Clients => Relies(q)'
                             /\ Holds(q)' = Holds(q)
                             /\ At(q, "idle")' = At(q, "idle") /\ At(q, "put")' = At(q, "put")
                             /\ At(q, "fetch")' = At(q, "fetch")
  BY <1>1, OthersJ
<1>3. \A w \in Workers : w \in Procs /\ w \notin Clients
  BY NamesAssumption DEF Procs
<1>4. \A c \in Clients : c \in Procs /\ c \notin Workers
  BY NamesAssumption DEF Procs
<1>5. \A w \in Workers : At(w, "idle")' => proc'[w].job = None
  BY <1>3 DEF IInv, Good, Works
<1>6. \A w \in Workers : At(w, "idle") => proc[w].job = None
  BY <1>3 DEF JInv, IInv, Good, Works
<1>7. \A c \in Clients : Relies(c)'
  BY <1>2, <1>4
<1>8. Unposted'
  BY <1>1, <1>2, <1>4 DEF JInv, Unposted
<1>9. Apart'
  <2>1. ASSUME NEW w \in Workers PROVE Holds(w)' \subseteq Holds(w)
    <3>1. CASE w = p
      BY <3>1 DEF Holds, At
    <3>2. CASE w # p
      BY <1>2, <1>3, <3>2
    <3> QED
      BY <3>1, <3>2
  <2> QED
    BY <1>1, <2>1 DEF JInv, Apart
<1>10. ASSUME faults' = 0 PROVE Smooth'
  <2>1. TasksExist /\ Settled /\ Alone /\ (\A w \in Workers : Serves(w))
    BY <1>10 DEF JInv, Smooth
  <2>2. TasksExist'
    BY <1>1, <2>1 DEF TasksExist
  <2>3. ASSUME NEW w \in Workers
        PROVE  At(w, "idle")' \/ (~At(w, "idle") /\ proc'[w].job = proc[w].job)
    <3>1. CASE w = p
      BY <3>1 DEF Holds, At
    <3>2. CASE w # p
      BY <1>2, <1>3, <3>2
    <3> QED
      BY <3>1, <3>2
  <2>4. \A w \in Workers : proc'[w].job \in {None, proc[w].job}
    BY <1>5, <2>3
  <2>5. Settled'
    BY <1>1, <2>1, <2>4, NoneAssumption DEF Settled
  <2>6. Alone'
    <3>1. ASSUME NEW w \in Workers, ~At(w, "idle")'
          PROVE  /\ ~At(w, "idle") /\ proc'[w].job = proc[w].job
                 /\ proc[w].job # None
      BY <1>3, <2>3, <3>1, NoneAssumption DEF JInv, IInv, Good, Works
    <3> QED
      BY <1>1, <2>1, <2>4, <3>1 DEF Alone
  <2>7. \A w \in Workers : Serves(w)'
    <3>1. ASSUME NEW w \in Workers, w # p PROVE Serves(w)'
      BY <1>1, <1>2, <1>3, <2>1, <3>1 DEF Serves
    <3>2. ASSUME NEW w \in Workers, w = p PROVE Serves(w)'
      BY <1>10, <3>2 DEF Serves, Holds, At, Exists
    <3> QED
      BY <3>1, <3>2
  <2> QED
    BY <1>10, <2>1, <2>2, <2>5, <2>6, <2>7 DEF Smooth
<1> QED
  BY <1>7, <1>8, <1>9, <1>10 DEF JInv, Smooth

LEMMA EndedFacts ==
  ASSUME JInv, NEW p \in Procs, Becomes(p, Ended(p))
  PROVE  /\ \A q \in Procs \ {p} : proc'[q] = proc[q]
         /\ p \in Workers => proc'[p] = Idle /\ At(p, "idle")'
         /\ p \in Clients => proc'[p].pc = "failed"
         /\ ~At(p, "put")' /\ Holds(p)' = {} /\ (p \in Clients => Relies(p)')
<1>1. proc[p] \in ProcSet /\ proc \in [Procs -> ProcSet]
  BY DEF JInv, IInv
<1>2. proc'[p] = Ended(p) /\ \A q \in Procs \ {p} : proc'[q] = proc[q]
  BY <1>1 DEF Becomes
<1>3. p \in Workers => proc'[p] = Idle /\ proc'[p].pc = "idle"
  BY <1>2, IdleFacts DEF Ended
<1>4. p \notin Workers => proc'[p].pc = "failed"
  BY <1>1, <1>2 DEF Ended, ProcSet
<1>5. p \in Clients => p \notin Workers
  BY NamesAssumption
<1> QED
  BY <1>2, <1>3, <1>4, <1>5 DEF At, Holds, Relies

\* A process ends, and nothing else happens.
LEMMA EndsJ ==
  ASSUME JInv, IInv', NEW p \in Procs, Becomes(p, Ended(p)), UNCHANGED <<server, gone>>,
         Blameless', faults' = 0 => faults = 0
  PROVE  JInv'
<1>1. Serves(p)' \/ p \notin Workers
  BY EndedFacts, IdleFacts DEF Serves, At
<1>2. {} \subseteq Holds(p)
  OBVIOUS
<1> QED
  BY <1>1, <1>2, EndedFacts, LocalJ

\* An exception that is nobody's fault but a deletion's, or a fault's.
LEMMA RaisesJ ==
  ASSUME JInv, IInv', NEW p \in Procs, Raises(p),
         p \in Clients => gone \/ Account[p] \notin Viewers,
         p \in Workers => faults # 0
  PROVE  JInv'
<1>1. /\ raised' = raised \cup (IF faults = 0 THEN {p} ELSE {p} \ Workers)
      /\ UNCHANGED <<server, gone, faults>> /\ Becomes(p, Ended(p))
  BY DEF Raises
<1>2. Blameless'
  BY <1>1, NamesAssumption DEF JInv, Blameless, Procs
<1>3. faults' = 0 => faults = 0
  BY <1>1
<1> QED
  BY <1>1, <1>2, <1>3, EndsJ

LEMMA SameBlame ==
  ASSUME JInv, Fine \/ Fault
  PROVE  /\ UNCHANGED <<raised, gone>> /\ Blameless'
         /\ faults' = 0 => faults = 0 /\ Fine
BY PutsNeverFault DEF JInv, Fine, Blameless, Smooth

LEMMA CutJ == ASSUME JInv, IInv', NEW p \in Procs, Cut(p) PROVE JInv'
BY SameBlame, EndsJ DEF Cut

\* The answer to a request is lost: from then on a fault has been.
LEMMA LostJ ==
  ASSUME JInv, IInv', NEW p \in Procs, Becomes(p, Ended(p)), Fault, UNCHANGED result,
         \A r : Exists(r) => Exists(r)',
         \A t \in Clients : task'[t] # None /\ task[t] = None => t = p
  PROVE  JInv'
<1>1. UNCHANGED <<raised, gone>> /\ Blameless' /\ faults' # 0
  BY SameBlame, PutsNeverFault
<1>2. \A q \in Procs \ {p} : proc'[q] = proc[q]
  BY EndedFacts
<1>3. \A q \in Procs \ {p} : /\ q \in Clients => Relies(q)'
                             /\ Holds(q)' = Holds(q) /\ At(q, "put")' = At(q, "put")
  BY <1>1, <1>2, OthersJ
<1>4. \A c \in Clients : c \in Procs
  BY DEF Procs
<1>5. \A w \in Workers : w \in Procs
  BY DEF Procs
<1>6. ASSUME NEW c \in Clients PROVE Relies(c)'
  BY <1>3, <1>4, <1>6, EndedFacts DEF Relies, At
<1>7. Unposted'
  <2>1. SUFFICES ASSUME NEW c \in Clients, At(c, "put")' PROVE task'[c] = None
    BY DEF Unposted
  <2>2. c # p
    BY <2>1, EndedFacts DEF At
  <2>3. At(c, "put")
    BY <1>2, <1>4, <2>1, <2>2 DEF At
  <2> QED
    BY <2>2, <2>3 DEF JInv, Unposted
<1>8. Apart'
  <2>1. ASSUME NEW w \in Workers PROVE Holds(w)' \subseteq Holds(w)
    BY <1>2, <1>5, EndedFacts DEF Holds, At
  <2> QED
    BY <2>1 DEF JInv, Apart
<1> QED
  BY <1>1, <1>6, <1>7, <1>8 DEF JInv, Smooth

LEMMA CheckJ == ASSUME JInv, IInv', NEW p \in Procs, NEW n \in Names, Check(p, n) PROVE JInv'
<1>1. /\ proc[p].pc = "put" /\ n \in proc[p].todo /\ proc[p].refs[n] # 0
      /\ Good(p) /\ proc \in [Procs -> ProcSet] /\ proc[p] \in ProcSet
  BY ProcFields DEF Check, Treat, At, JInv, IInv
<1>2. p \in Clients /\ p \notin Workers
  BY <1>1, NamesAssumption DEF Good, Works, At, Procs
<1> DEFINE forget == [proc[p] EXCEPT !.refs[n] = 0]
           pass   == [proc[p] EXCEPT !.todo = @ \ {n}]
<1>3. \A m \in Inputs : m \in proc[p].todo \/ gone \/ Exists(proc[p].refs[m])
  BY <1>1, <1>2 DEF JInv, Relies, At
<1>4. CASE Becomes(p, forget) /\ Fine /\ UNCHANGED server
  <2>1. /\ forget.todo = proc[p].todo /\ forget.refs = [proc[p].refs EXCEPT ![n] = 0]
        /\ proc[p].refs \in [Names -> Nat]
    BY <1>1 DEF ProcSet
  <2>2. proc'[p] = forget /\ \A q \in Procs \ {p} : proc'[q] = proc[q]
    BY <1>1, <1>4 DEF Becomes
  <2> HIDE DEF forget
  <2>3. Relies(p)'
    BY <1>1, <1>3, <1>4, <2>1, <2>2 DEF Relies, Fine, server, Exists, Names
  <2> QED
    BY <1>1, <1>2, <1>4, <2>2, <2>3, SameBlame, LocalJ DEF At
<1>5. CASE Exists(proc[p].refs[n]) /\ Becomes(p, pass) /\ Fine /\ UNCHANGED server
  <2>1. pass.todo = proc[p].todo \ {n} /\ pass.refs = proc[p].refs
    BY <1>1 DEF ProcSet
  <2>2. proc'[p] = pass /\ \A q \in Procs \ {p} : proc'[q] = proc[q]
    BY <1>1, <1>5 DEF Becomes
  <2> HIDE DEF pass
  <2>3. Relies(p)'
    BY <1>1, <1>3, <1>5, <2>1, <2>2 DEF Relies, Fine, server, Exists
  <2> QED
    BY <1>1, <1>2, <1>5, <2>2, <2>3, SameBlame, LocalJ DEF At
<1>6. CASE ~MayRead(p, proc[p].refs[n]) /\ Raises(p)
  BY <1>2, <1>6, RaisesJ DEF MayRead
<1> QED
  BY <1>4, <1>5, <1>6 DEF Check

LEMMA HeldExist ==
  ASSUME IInv, NEW w \in Workers PROVE Holds(w) \subseteq DOMAIN ref
<1>1. w \in Procs /\ Len(ref) \in Nat /\ DOMAIN ref = 1 .. Len(ref)
  BY DEF IInv, Server, Kept, Procs
<1>2. \A n \in Names : proc[w].refs[n] \in 0 .. Len(ref)
  BY <1>1 DEF IInv, Good, Place, Keys
<1> QED
  BY <1>1, <1>2 DEF Holds, Names

LEMMA NewRefJ ==
  ASSUME JInv, IInv', NEW p \in Procs, NEW n \in Names, proc[p].pc = "put", n \in proc[p].todo, proc[p].refs[n] = 0,
         NewRef(p, n, proc[p].files[n])
  PROVE  JInv'
<1>1. Good(p) /\ proc \in [Procs -> ProcSet] /\ proc[p] \in ProcSet /\ Server /\ IInv
  BY ProcFields DEF JInv, IInv
<1>2. Account[p] \in Users /\ Account[p] # None
  BY NoneAssumption DEF Users
<1>0. PICK l \in Nat : l = Len(ref) + 1
  BY <1>1 DEF Server, Kept
<1>3. /\ l \in Nat /\ l \notin DOMAIN ref /\ l \in DOMAIN ref' /\ ref'[l].user = Account[p] /\ l # 0
      /\ \A r \in DOMAIN ref : r \in DOMAIN ref' /\ ref'[r] = ref[r]
  <2>1. proc[p].files[n] \in Texts
    BY <1>1, ProcFields
  <2>2. /\ Len(ref) \in Nat /\ l \in DOMAIN ref' /\ RefsKept
        /\ ref'[l] = [content |-> proc[p].files[n], user |-> Account[p]]
        /\ \A r \in DOMAIN ref : ref'[r] = ref[r]
    BY <1>0, <1>1, <1>2, <2>1, Appended DEF NewRef
  <2>3. DOMAIN ref = 1 .. Len(ref)
    BY <1>1 DEF Server, Kept
  <2> QED
    BY <1>0, <2>2, <2>3 DEF RefsKept
<1>4. \A r : Exists(r) => Exists(r)'
  BY <1>3 DEF Exists
<1>5. UNCHANGED <<task, result>>
  BY DEF NewRef
<1> DEFINE r == [proc[p] EXCEPT !.refs[n] = l, !.todo = @ \ {n}, !.up = None]
<1>6. CASE Becomes(p, r) /\ Fine
  <2>1. /\ r.pc = "put" /\ r.todo = proc[p].todo \ {n} /\ r.refs = [proc[p].refs EXCEPT ![n] = l]
        /\ r.job = proc[p].job /\ r.id = proc[p].id /\ proc[p].refs \in [Names -> Nat]
    BY <1>1 DEF ProcSet
  <2>2. proc'[p] = r /\ \A q \in Procs \ {p} : proc'[q] = proc[q]
    BY <1>1, <1>6 DEF Becomes
  <2>3. UNCHANGED <<faults, raised, gone>>
    BY <1>6 DEF Fine
  <2> HIDE DEF r
  <2>4. \A q \in Procs : proc'[q].pc = proc[q].pc /\ proc'[q].job = proc[q].job
    BY <2>1, <2>2
  <2>5. ASSUME NEW c \in Clients PROVE Relies(c)'
    <3>1. c \in Procs /\ Relies(c)
      BY DEF Procs, JInv
    <3>2. CASE c = p
      <4>1. \A m \in Inputs : proc'[p].refs[m] = IF m = n THEN l ELSE proc[p].refs[m]
        BY <2>1, <2>2 DEF Names
      <4>2. Exists(l)'
        BY <1>2, <1>3 DEF Exists
      <4>3. \A m \in Inputs : m \in proc[p].todo \/ gone \/ Exists(proc[p].refs[m])
        BY <3>1, <3>2 DEF Relies, At
      <4>4. ASSUME NEW m \in Inputs PROVE m \in proc'[p].todo \/ gone' \/ Exists(proc[p].refs[m])'
        BY <1>4, <2>1, <2>2, <2>3, <4>1, <4>2, <4>3 DEF Exists
      <4> QED
        BY <3>2, <4>4 DEF Relies
    <3>3. CASE c # p
      BY <1>4, <2>2, <2>3, <3>1, <3>3, OthersJ
    <3> QED
      BY <3>2, <3>3
  <2>6. Unposted' /\ Blameless'
    BY <1>5, <2>3, <2>4 DEF JInv, Unposted, Blameless, At, Procs
  <2>7. ASSUME NEW w \in Workers PROVE Holds(w)' \subseteq Holds(w) \cup (IF w = p THEN {l} ELSE {})
    BY <2>1, <2>2 DEF Holds, At, Procs, Names
  <2>8. Apart'
    <3>1. \A w \in Workers : l \notin Holds(w)
      BY <1>1, <1>3, HeldExist
    <3>2. \A t \in Clients : result[t] # None => l \notin result[t].left
      <4>1. \A t \in Clients : result[t] # None => \A k \in result[t].left : k \in 0 .. Len(ref)
        BY <1>1 DEF Server, Kept, Keys
      <4>2. Len(ref) \in Nat
        BY <1>1 DEF Server, Kept
      <4> QED
        BY <1>0, <4>1, <4>2
    <3>3. \A v, w \in Workers : v # w => Holds(v)' \cap Holds(w)' = {}
      BY <2>7, <3>1 DEF JInv, Apart
    <3>4. \A w \in Workers, t \in Clients : result[t] # None => Holds(w)' \cap result[t].left = {}
      BY <2>7, <3>2 DEF JInv, Apart
    <3> QED
      BY <1>5, <3>3, <3>4 DEF Apart
  <2>9. ASSUME faults = 0 PROVE Smooth'
    <3>1. TasksExist /\ Settled /\ Alone /\ (\A w \in Workers : Serves(w))
      BY <2>9 DEF JInv, Smooth
    <3>2. TasksExist' /\ Settled' /\ Alone'
      BY <1>4, <1>5, <2>4, <3>1 DEF TasksExist, Settled, Alone, At, Procs
    <3>3. ASSUME NEW w \in Workers PROVE Serves(w)'
      <4>1. w \in Procs /\ Holds(w) \subseteq DOMAIN ref /\ Serves(w)
        BY <1>1, <3>1, HeldExist DEF Procs
      <4>2. At(w, "put") => proc'[w].id /\ \A k \in Holds(w)' : ref'[k].user = Account[w]
        BY <1>3, <2>1, <2>2, <2>7, <4>1 DEF Serves
      <4>3. At(w, "fetch") => proc'[w] = proc[w]
        BY <2>2, <4>1 DEF At
      <4> QED
        BY <1>4, <2>4, <4>1, <4>2, <4>3 DEF Serves, At
    <3> QED
      BY <2>3, <3>1, <3>2, <3>3 DEF Smooth
  <2> QED
    BY <2>3, <2>5, <2>6, <2>8, <2>9 DEF JInv, Smooth
<1>7. CASE Becomes(p, Ended(p)) /\ Fault
  BY <1>4, <1>5, <1>7, LostJ
<1> QED
  BY <1>0, <1>6, <1>7 DEF NewRef, Answered

LEMMA AskBlobJ == ASSUME JInv, IInv', NEW p \in Procs, NEW n \in Names, AskBlob(p, n) PROVE JInv'
<1>1. /\ proc[p].pc = "put" /\ n \in proc[p].todo /\ proc[p].up = None /\ proc[p].refs[n] = 0
      /\ proc \in [Procs -> ProcSet] /\ proc[p] \in ProcSet
  BY ProcFields DEF AskBlob, Treat, At, JInv, IInv
<1>2. CASE NewRef(p, n, proc[p].files[n])
  BY <1>1, <1>2, NewRefJ
<1>3. CASE Account[p] \notin Viewers /\ Raises(p)
  BY <1>3, RaisesJ, WorkersAssumption
<1> DEFINE r == [proc[p] EXCEPT !.up = n]
<1>4. CASE Becomes(p, r) /\ Fine /\ UNCHANGED server
  <2>1. /\ r.pc = "put" /\ r.todo = proc[p].todo /\ r.refs = proc[p].refs
        /\ r.job = proc[p].job /\ r.id = proc[p].id
    BY <1>1 DEF ProcSet
  <2>2. proc'[p] = r /\ \A q \in Procs \ {p} : proc'[q] = proc[q]
    BY <1>1, <1>4 DEF Becomes
  <2> HIDE DEF r
  <2>3. UNCHANGED <<ref, gone, faults>>
    BY <1>4 DEF server, Fine
  <2>4. p \in Clients => Relies(p)' /\ (At(p, "put")' => At(p, "put"))
    <3>1. p \in Clients => \A m \in Inputs : m \in proc[p].todo \/ gone \/ Exists(proc[p].refs[m])
      BY <1>1 DEF JInv, Relies, At
    <3> QED
      BY <1>1, <2>1, <2>2, <2>3, <3>1 DEF Relies, At, Exists
  <2>5. p \in Workers => /\ Holds(p)' \subseteq Holds(p) /\ ~At(p, "idle") /\ proc'[p].job = proc[p].job
                         /\ (faults' = 0 => Serves(p)')
    BY <1>1, <2>1, <2>2, <2>3 DEF JInv, Smooth, Serves, Holds, At
  <2> QED
    BY <1>4, <2>2, <2>4, <2>5, SameBlame, LocalJ
<1> QED
  BY <1>2, <1>3, <1>4 DEF AskBlob

LEMMA SendBlobJ == ASSUME JInv, IInv', NEW p \in Procs, SendBlob(p) PROVE JInv'
<1>1. proc[p].pc = "put" /\ proc[p].up # None /\ Place(p) /\ proc[p].up \in Names
  BY ProcFields DEF SendBlob, At, JInv, IInv, Good
<1>2. NewRef(p, proc[p].up, proc[p].files[proc[p].up])
  BY DEF SendBlob, Sent
<1> QED
  BY <1>1, <1>2, NewRefJ DEF Place, At

LEMMA PostTaskJ == ASSUME JInv, IInv', NEW c \in Clients, PostTask(c) PROVE JInv'
<1>1. /\ c \in Procs /\ c \notin Workers /\ proc[c].pc = "put" /\ proc[c].todo = {}
      /\ proc \in [Procs -> ProcSet] /\ proc[c] \in ProcSet
  BY ProcFields, NamesAssumption DEF PostTask, AllPut, At, JInv, IInv, Procs
<1>2. \A w \in Workers : w \in Procs /\ w # c
  BY <1>1 DEF Procs
<1>3. task[c] = None /\ task \in [Clients -> TaskSet \cup {None}]
  BY <1>1 DEF JInv, Unposted, At, IInv, Server, Kept
<1> DEFINE new == [files |-> proc[c].refs, assignee |-> None, holders |-> {}]
           r   == [proc[c] EXCEPT !.pc = "poll"]
<1>4. CASE /\ \A n \in Inputs : Exists(proc[c].refs[n])
           /\ task' = [task EXCEPT ![c] = new] /\ Answered(c, r) /\ UNCHANGED <<ref, result>>
  <2>1. \A t \in Clients : task'[t] = IF t = c THEN new ELSE task[t]
    BY <1>3, <1>4
  <2>2. \A k : Exists(k)' = Exists(k)
    BY <1>4 DEF Exists
  <2>3. CASE Becomes(c, Ended(c)) /\ Fault
    BY <1>1, <1>4, <2>1, <2>2, <2>3, LostJ
  <2>4. CASE Becomes(c, r) /\ Fine
    <3>1. r.pc = "poll"
      BY <1>1 DEF ProcSet
    <3>2. proc'[c] = r /\ \A q \in Procs \ {c} : proc'[q] = proc[q]
      BY <1>1, <2>4 DEF Becomes
    <3> HIDE DEF r
    <3>3. UNCHANGED <<faults, raised, gone>>
      BY <2>4 DEF Fine
    <3>4. ASSUME NEW q \in Clients PROVE Relies(q)'
      BY <2>2, <3>1, <3>2, <3>3, OthersJ DEF Relies, At, Procs
    <3>5. Unposted'
      BY <2>1, <3>1, <3>2 DEF JInv, Unposted, At, Procs
    <3>6. Apart' /\ Blameless'
      <4>1. \A w \in Workers : Holds(w)' = Holds(w)
        BY <1>2, <3>2 DEF Holds, At
      <4> QED
        BY <1>4, <3>3, <4>1 DEF JInv, Apart, Blameless
    <3>7. ASSUME faults = 0 PROVE Smooth'
      <4>1. TasksExist /\ Settled /\ Alone /\ (\A w \in Workers : Serves(w))
        BY <3>7 DEF JInv, Smooth
      <4>2. TasksExist'
        BY <1>4, <2>1, <2>2, <4>1 DEF TasksExist
      <4>3. result[c] = None
        BY <1>3, <4>1 DEF Settled
      <4>4. \A w \in Workers : ~At(w, "idle") => proc[w].job \in Clients /\ task[proc[w].job] # None
        BY <1>2 DEF JInv, IInv, Good, Works
      <4>5. Settled'
        BY <1>2, <1>4, <2>1, <3>2, <4>1, <4>3 DEF Settled
      <4>6. Alone'
        BY <1>2, <1>3, <2>1, <3>2, <4>1, <4>4 DEF Alone, At
      <4>7. \A w \in Workers : Serves(w)'
        BY <1>2, <1>4, <2>2, <3>2, <4>1 DEF Serves, At, Holds
      <4> QED
        BY <3>3, <4>1, <4>2, <4>5, <4>6, <4>7 DEF Smooth
    <3> QED
      BY <3>3, <3>4, <3>5, <3>6, <3>7 DEF JInv, Smooth
  <2> QED
    BY <1>4, <2>3, <2>4 DEF Answered
<1>5. CASE (\E n \in Inputs : Exists(proc[c].refs[n]) => ~MayRead(c, proc[c].refs[n])) /\ Raises(c)
  <2>1. \A n \in Inputs : gone \/ Exists(proc[c].refs[n])
    BY <1>1 DEF JInv, Relies, At
  <2> QED
    BY <1>1, <1>5, <2>1, RaisesJ DEF MayRead
<1> QED
  BY <1>4, <1>5 DEF PostTask

LEMMA DequeueJ == ASSUME JInv, IInv', NEW w \in Workers, NEW t \in Clients, Dequeue(w, t) PROVE JInv'
<1>1. /\ w \in Procs /\ w \notin Clients /\ task[t] # None /\ task[t].assignee = None /\ UNCHANGED <<ref, result>>
      /\ proc \in [Procs -> ProcSet] /\ proc[w].pc = "idle" /\ Account[w] # None
  BY NamesAssumption, NoneAssumption DEF Procs, Dequeue, Waiting, JInv, IInv, At, Users
<1>2. /\ task'[t] # None /\ task'[t].files = task[t].files /\ task'[t].assignee = Account[w]
      /\ \A s \in Clients \ {t} : task'[s] = task[s]
  <2>1. Server /\ Account[w] \in {Account[v] : v \in Workers}
    BY DEF JInv, IInv
  <2>2. task' = [task EXCEPT ![t].assignee = Account[w], ![t].holders = @ \cup {Account[w]}] /\ UNCHANGED <<ref, result>>
    BY DEF Dequeue
  <2> QED
    BY <1>1, <2>1, <2>2, Assigned
<1>3. \A s \in Clients : (task'[s] # None <=> task[s] # None)
  BY <1>1, <1>2
<1>4. \A k : Exists(k)' = Exists(k)
  BY <1>1 DEF Exists
<1> DEFINE r == [Idle EXCEPT !.pc = "get", !.job = t]
<1>5. CASE Becomes(w, r) /\ Fine
  <2>1. r.pc = "get" /\ r.job = t
    BY DEF Idle
  <2>2. proc'[w] = r /\ \A q \in Procs \ {w} : proc'[q] = proc[q]
    BY <1>1, <1>5 DEF Becomes
  <2> HIDE DEF r
  <2>3. UNCHANGED <<faults, raised, gone>>
    BY <1>5 DEF Fine
  <2>4. ASSUME NEW c \in Clients PROVE Relies(c)'
    BY <1>1, <1>4, <2>2, <2>3, OthersJ DEF Procs
  <2>5. Unposted' /\ Blameless'
    BY <1>1, <1>3, <2>2, <2>3 DEF JInv, Unposted, Blameless, At, Procs
  <2>6. \A v \in Workers : Holds(v)' \subseteq Holds(v)
    BY <2>1, <2>2 DEF Holds, At, Procs
  <2>7. Apart'
    BY <1>1, <2>6 DEF JInv, Apart
  <2>8. ASSUME faults = 0 PROVE Smooth'
    <3>1. TasksExist /\ Settled /\ Alone /\ (\A v \in Workers : Serves(v))
      BY <2>8 DEF JInv, Smooth
    <3>2. TasksExist'
      BY <1>2, <1>3, <1>4, <3>1 DEF TasksExist
    <3>3. \A v \in Workers : v \in Procs /\ Account[v] # None
      BY NoneAssumption DEF Procs, Users
    <3>4. \A v \in Workers : proc[v].job # t
      BY <1>1, <3>1, <3>3, NoneAssumption DEF Alone, JInv, IInv, Good, Works
    <3>5. result[t] = None
      BY <1>1, <3>1 DEF Settled
    <3>6. Settled'
      BY <1>1, <1>2, <1>3, <2>1, <2>2, <3>1, <3>3, <3>5 DEF Settled
    <3>7. \A v \in Workers : ~At(v, "idle") => proc[v].job \in Clients
      BY <3>3 DEF JInv, IInv, Good, Works
    <3>8. Alone'
      BY <1>2, <2>1, <2>2, <3>1, <3>3, <3>4, <3>7 DEF Alone, At
    <3>9. \A v \in Workers : Serves(v)'
      BY <1>1, <1>4, <2>1, <2>2, <3>1, <3>3 DEF Serves, At, Holds
    <3> QED
      BY <2>3, <3>1, <3>2, <3>6, <3>8, <3>9 DEF Smooth
  <2> QED
    BY <2>3, <2>4, <2>5, <2>7, <2>8 DEF JInv, Smooth
<1>6. CASE Becomes(w, Ended(w)) /\ Fault
  BY <1>1, <1>3, <1>4, <1>6, LostJ
<1> QED
  BY <1>5, <1>6 DEF Dequeue, Answered

LEMMA TaskGetJ == ASSUME JInv, IInv', NEW w \in Workers, TaskGet(w) PROVE JInv'
<1>1. /\ w \in Procs /\ w \notin Clients /\ Good(w) /\ proc[w] \in ProcSet /\ proc[w].pc = "get"
      /\ proc \in [Procs -> ProcSet]
  BY NamesAssumption, ProcFields DEF Procs, JInv, IInv, TaskGet, At
<1>2. PICK t \in Clients : t = proc[w].job /\ task[t] # None
  BY <1>1 DEF Good, Works, At
<1>3. faults = 0 => task[t].assignee = Account[w] /\ \A n \in Inputs : Exists(task[t].files[n])
  BY <1>1, <1>2 DEF JInv, Smooth, Alone, At, TasksExist
<1> DEFINE r == [proc[w] EXCEPT !.pc = "fetch", !.refs = task[t].files, !.todo = Inputs]
<1>4. CASE Becomes(w, r) /\ Fine /\ UNCHANGED server
  <2>1. r.pc = "fetch" /\ r.job = t /\ r.refs = task[t].files
    BY <1>1, <1>2 DEF ProcSet
  <2>2. proc'[w] = r /\ \A q \in Procs \ {w} : proc'[q] = proc[q]
    BY <1>1, <1>4 DEF Becomes
  <2> HIDE DEF r
  <2>3. UNCHANGED <<ref, gone, faults>>
    BY <1>4 DEF server, Fine
  <2>4. faults' = 0 => Serves(w)'
    BY <1>3, <2>1, <2>2, <2>3 DEF Serves, At, Exists
  <2>5. Holds(w)' \subseteq Holds(w) /\ ~At(w, "idle") /\ proc'[w].job = proc[w].job
    BY <1>1, <1>2, <2>1, <2>2 DEF Holds, At
  <2> QED
    BY <1>1, <1>4, <2>2, <2>4, <2>5, SameBlame, LocalJ
<1>5. CASE task[t].assignee # Account[w] /\ Raises(w)
  BY <1>1, <1>3, <1>5, RaisesJ
<1> QED
  BY <1>2, <1>4, <1>5 DEF TaskGet

LEMMA BlobGetJ == ASSUME JInv, IInv', NEW p \in Procs, NEW n \in Names, BlobGet(p, n) PROVE JInv'
<1>1. /\ Good(p) /\ proc[p] \in ProcSet /\ proc \in [Procs -> ProcSet]
      /\ proc[p].pc = "fetch" /\ n \in proc[p].todo
  BY ProcFields DEF JInv, IInv, BlobGet, At
<1> DEFINE got  == [proc[p] EXCEPT !.files[n] = ref[proc[p].refs[n]].content, !.todo = @ \ {n}]
           wait == [proc[p] EXCEPT !.pc = "poll"]
<1>2. CASE Becomes(p, got) /\ Fine /\ UNCHANGED server
  <2>1. got.pc = "fetch" /\ got.job = proc[p].job /\ got.refs = proc[p].refs
    BY <1>1 DEF ProcSet
  <2>2. proc'[p] = got /\ \A q \in Procs \ {p} : proc'[q] = proc[q]
    BY <1>1, <1>2 DEF Becomes
  <2> HIDE DEF got
  <2>3. UNCHANGED <<ref, gone, faults>>
    BY <1>2 DEF server, Fine
  <2>4. p \in Clients => Relies(p)' /\ ~At(p, "put")'
    BY <2>1, <2>2 DEF Relies, At
  <2>5. p \in Workers => Holds(p)' \subseteq Holds(p) /\ ~At(p, "idle") /\ proc'[p].job = proc[p].job
    BY <1>1, <2>1, <2>2 DEF Holds, At
  <2>6. p \in Workers /\ faults' = 0 => Serves(p)'
    BY <1>1, <2>1, <2>2, <2>3 DEF JInv, Smooth, Serves, At, Exists
  <2> QED
    BY <1>2, <2>2, <2>4, <2>5, <2>6, SameBlame, LocalJ
<1>3. CASE Exists(proc[p].refs[n]) /\ ~MayRead(p, proc[p].refs[n]) /\ Raises(p)
  BY <1>3, RaisesJ, WorkersAssumption DEF MayRead
<1>4. CASE ~Exists(proc[p].refs[n]) /\ p \in Workers /\ Raises(p)
  <2>1. n \in Inputs /\ p \notin Clients
    BY <1>1, <1>4, NamesAssumption DEF Good, Works, At
  <2>2. faults # 0
    BY <1>1, <1>4, <2>1 DEF JInv, Smooth, Serves, At
  <2> QED
    BY <1>4, <2>1, <2>2, RaisesJ
<1>5. CASE p \in Clients /\ Becomes(p, wait) /\ Fine /\ UNCHANGED server
  <2>1. wait.pc = "poll"
    BY <1>1 DEF ProcSet
  <2>2. proc'[p] = wait /\ (\A q \in Procs \ {p} : proc'[q] = proc[q]) /\ p \notin Workers
    BY <1>1, <1>5, NamesAssumption DEF Becomes
  <2> HIDE DEF wait
  <2>3. Relies(p)' /\ ~At(p, "put")'
    BY <2>1, <2>2 DEF Relies, At
  <2> QED
    BY <1>5, <2>2, <2>3, SameBlame, LocalJ DEF Fine
<1> QED
  BY <1>2, <1>3, <1>4, <1>5 DEF BlobGet

LEMMA Stage0J == ASSUME JInv, IInv', NEW w \in Procs, Stage0(w) PROVE JInv'
<1>1. /\ Good(w) /\ proc[w] \in ProcSet /\ proc \in [Procs -> ProcSet] /\ w \in Workers /\ w \notin Clients
      /\ proc[w].pc = "fetch"
  BY ProcFields, NamesAssumption DEF JInv, IInv, Stage0, Fetched, At
<1>2. UNCHANGED server
  BY DEF Stage0
<1> DEFINE ins == [i \in Inputs |-> proc[w].files[i]]
           files(F, part) == [n \in Names |-> IF n \in F THEN Out(n, ins, part) ELSE None]
           r(F, part, id, code) ==
             [proc[w] EXCEPT !.pc = "put", !.todo = F, !.id = id, !.code = code,
                             !.refs = NoRefs, !.files = files(F, part)]
<1>3. ASSUME NEW F, NEW part, NEW id, NEW code, Becomes(w, r(F, part, id, code))
      PROVE  /\ \A q \in Procs \ {w} : proc'[q] = proc[q]
             /\ Holds(w)' = {} /\ ~At(w, "idle") /\ proc'[w].job = proc[w].job
             /\ proc'[w].pc = "put" /\ proc'[w].id = id
  <2> DEFINE s == r(F, part, id, code)
  <2>1. s.pc = "put" /\ s.refs = NoRefs /\ s.id = id /\ s.job = proc[w].job
    BY <1>1 DEF ProcSet
  <2>2. proc'[w] = s /\ \A q \in Procs \ {w} : proc'[q] = proc[q]
    BY <1>1, <1>3 DEF Becomes
  <2> HIDE DEF s, r
  <2>3. \A n \in Outputs : NoRefs[n] = 0
    BY DEF NoRefs, Names
  <2> QED
    BY <1>1, <2>1, <2>2, <2>3 DEF Holds, At
<1>31. \A F, part, id, code : Made(w, F, part, id, code) = r(F, part, id, code)
  BY Zenon DEF Made
<1> HIDE DEF r
<1>4. \/ \E F, part, code : Becomes(w, r(F, part, TRUE, code)) /\ Fine
      \/ \E F, id : Becomes(w, r(F, "rest", id, None)) /\ Fault
  <2>1. \/ Becomes(w, r(Outputs, "whole", TRUE, "zero")) /\ Fine
        \/ \E F \in SUBSET Outputs : Becomes(w, r(F, "rest", TRUE, "other")) /\ Fine
        \/ \E F \in SUBSET Outputs : Becomes(w, r(F, "rest", TRUE, None)) /\ Fault
        \/ Becomes(w, r({}, "rest", FALSE, None)) /\ Fault
    <3>1. \A F, part, id, code :
            Becomes(w, Made(w, F, part, id, code)) => Becomes(w, r(F, part, id, code))
      BY <1>31
    <3> QED
      BY <3>1, Zenon DEF Stage0
  <2> QED
    BY <2>1
<1>5. ASSUME NEW F, NEW part, NEW code, Becomes(w, r(F, part, TRUE, code)), Fine PROVE JInv'
  <2>1. Serves(w)'
    BY <1>3, <1>5 DEF Serves, At
  <2> QED
    BY <1>1, <1>2, <1>3, <1>5, <2>1, SameBlame, LocalJ DEF Fine
<1>6. ASSUME NEW F, NEW id, Becomes(w, r(F, "rest", id, None)), Fault PROVE JInv'
  <2>1. faults' # 0 /\ UNCHANGED gone
    BY <1>6, PutsNeverFault
  <2>2. /\ \A q \in Procs \ {w} : proc'[q] = proc[q]
        /\ Holds(w)' \subseteq Holds(w) /\ ~At(w, "idle") /\ proc'[w].job = proc[w].job
    BY <1>3, <1>6
  <2> QED
    BY <1>1, <1>2, <1>6, <2>1, <2>2, SameBlame, LocalJ
<1> QED
  BY <1>4, <1>5, <1>6

LEMMA PostResultJ == ASSUME JInv, IInv', NEW w \in Procs, PostResult(w) PROVE JInv'
<1>1. /\ Good(w) /\ proc[w] \in ProcSet /\ proc \in [Procs -> ProcSet] /\ w \in Workers /\ w \notin Clients
      /\ proc[w].pc = "put" /\ proc[w].todo = {}
  BY ProcFields, NamesAssumption DEF JInv, IInv, PostResult, AllPut, At
<1>2. PICK t \in Clients : t = proc[w].job /\ task[t] # None
  BY <1>1 DEF Good, Works, At
<1>3. result \in [Clients -> ResultSet \cup {None}]
  BY DEF JInv, IInv, Server, Kept
<1> DEFINE mine == /\ HasId(w) /\ task[t].assignee = Account[w] /\ result[t] = None
                   /\ \A n \in Outputs : proc[w].refs[n] # 0 => ref[proc[w].refs[n]].user = Account[w]
           left == {proc[w].refs[n] : n \in Outputs} \ {0}
           new  == [files |-> proc[w].refs, user |-> Account[w], code |-> proc[w].code, left |-> left]
<1>4. CASE /\ mine /\ result' = [result EXCEPT ![t] = new] /\ Becomes(w, Idle) /\ Fine /\ UNCHANGED <<ref, task>>
  <2>1. left = Holds(w) /\ new.left = left
    BY <1>1 DEF Holds, At
  <2>2. result'[t].left = Holds(w) /\ \A s \in Clients \ {t} : result'[s] = result[s]
    BY <1>3, <1>4, <2>1
  <2>3. proc'[w] = Idle /\ \A q \in Procs \ {w} : proc'[q] = proc[q]
    BY <1>1, <1>4 DEF Becomes
  <2>4. UNCHANGED <<faults, raised, gone>> /\ Blameless'
    BY <1>4, SameBlame DEF Fine
  <2>5. Holds(w)' = {} /\ \A v \in Workers \ {w} : v \in Procs /\ Holds(v)' = Holds(v)
    BY <2>3, IdleFacts DEF Holds, At, Procs
  <2>6. ASSUME NEW c \in Clients PROVE Relies(c)'
    BY <1>1, <1>4, <2>3, <2>4, OthersJ DEF Procs, Exists
  <2>7. Unposted'
    BY <1>1, <1>4, <2>3 DEF JInv, Unposted, At, Procs
  <2>8. Apart'
    <3>1. ASSUME NEW v \in Workers PROVE Holds(v)' = IF v = w THEN {} ELSE Holds(v)
      BY <2>3, IdleFacts DEF Holds, At, Procs
    <3>2. \A u, v \in Workers : u # v => Holds(u)' \cap Holds(v)' = {}
      BY <3>1 DEF JInv, Apart
    <3>3. \A v \in Workers, s \in Clients : result'[s] # None => Holds(v)' \cap result'[s].left = {}
      BY <1>1, <2>2, <3>1 DEF JInv, Apart
    <3> QED
      BY <3>2, <3>3 DEF Apart
  <2>9. ASSUME faults = 0 PROVE Smooth'
    <3>1. TasksExist /\ Settled /\ Alone /\ (\A v \in Workers : Serves(v))
      BY <2>9 DEF JInv, Smooth
    <3>2. TasksExist'
      BY <1>4, <3>1 DEF TasksExist, Exists
    <3>3. \A v \in Workers \ {w} : v \in Procs /\ proc[v].job # t
      BY <1>1, <1>2, <3>1 DEF Alone, At, Procs
    <3>4. Account[w] # None /\ t # None
      BY <1>1, NoneAssumption DEF Users
    <3>5. \A v \in Workers : proc'[v].job # t
      BY <2>3, <3>3, <3>4, IdleFacts
    <3>6. \A v \in Workers : proc'[v].job \in {None, proc[v].job}
      BY <2>3, <3>3, IdleFacts
    <3>7. \A s \in Clients : s # None
      BY NoneAssumption
    <3>8. Settled'
      BY <1>2, <1>4, <2>2, <3>1, <3>4, <3>5, <3>6, <3>7 DEF Settled
    <3>9. Alone'
      <4>1. ASSUME NEW v \in Workers, ~At(v, "idle")'
            PROVE  v # w /\ proc'[v] = proc[v] /\ ~At(v, "idle") /\ proc[v].job # None
        <5>1. v # w /\ v \in Procs
          BY <2>3, <4>1, IdleFacts DEF At, Procs
        <5>2. proc'[v] = proc[v] /\ ~At(v, "idle")
          BY <2>3, <4>1, <5>1 DEF At
        <5>3. proc[v].job \in Clients
          BY <5>1, <5>2 DEF JInv, IInv, Good, Works
        <5> QED
          BY <3>7, <5>1, <5>2, <5>3
      <4> QED
        BY <1>4, <3>1, <3>6, <4>1 DEF Alone
    <3>10. \A v \in Workers : Serves(v)'
      BY <1>4, <2>3, <3>1, <3>3, IdleFacts DEF Serves, At, Exists, Holds
    <3> QED
      BY <2>4, <3>1, <3>2, <3>8, <3>9, <3>10 DEF Smooth
  <2> QED
    BY <2>4, <2>6, <2>7, <2>8, <2>9 DEF JInv, Smooth
<1>5. CASE ~mine /\ Raises(w)
  <2>1. SUFFICES ASSUME faults = 0 PROVE mine
    BY <1>1, <1>5, RaisesJ
  <2>2. Settled /\ Alone /\ Serves(w)
    BY <1>1, <2>1 DEF JInv, Smooth
  <2>3. \A n \in Outputs : proc[w].refs[n] # 0 => proc[w].refs[n] \in Holds(w)
    BY <1>1 DEF Holds, At
  <2> QED
    BY <1>1, <1>2, <2>2, <2>3 DEF Settled, Alone, Serves, At, HasId
<1> QED
  BY <1>2, <1>4, <1>5 DEF PostResult

\* A step that leaves the processes alone.
LEMMA ServerJ ==
  ASSUME JInv, IInv', UNCHANGED <<proc, raised>>, gone => gone',
         gone' \/ \A r : Exists(r) => Exists(r)',
         \A t \in Clients : task[t] = None => task'[t] = None,
         \A t \in Clients : result'[t] # None => result[t] # None /\ result'[t].left \subseteq result[t].left,
         faults' = 0 => Smooth'
  PROVE  JInv'
<1>1. \A q \in Procs : (q \in Clients => Relies(q)') /\ Holds(q)' = Holds(q) /\ At(q, "put")' = At(q, "put")
  BY OthersJ
<1>2. (\A c \in Clients : Relies(c)') /\ Unposted'
  BY <1>1 DEF Procs, JInv, Unposted
<1>3. Apart'
  BY <1>1 DEF Procs, JInv, Apart
<1>4. Blameless'
  BY DEF JInv, Blameless
<1> QED
  BY <1>2, <1>3, <1>4 DEF JInv, Smooth

LEMMA GiveRefJ == ASSUME JInv, IInv', NEW t \in Clients, NEW r \in DOMAIN ref, GiveRef(t, r) PROVE JInv'
<1>1. /\ IInv /\ Server /\ Account[t] \in Users \cup {None} /\ Account[t] # None
      /\ result[t] # None /\ r \in result[t].left
  BY NoneAssumption DEF JInv, IInv, Users, Procs, GiveRef
<1>2. /\ ref' \in Seq([content : Texts, user : Users \cup {None}]) /\ Len(ref) \in Nat /\ Len(ref') = Len(ref)
      /\ DOMAIN ref' = DOMAIN ref /\ \A k \in DOMAIN ref : ref'[k].content = ref[k].content
      /\ ref'[r].user = Account[t] /\ \A k \in DOMAIN ref \ {r} : ref'[k] = ref[k]
  BY <1>1, UserChanged DEF GiveRef
<1>3. /\ result'[t] # None /\ result'[t].left = result[t].left \ {r}
      /\ \A s \in Clients \ {t} : result'[s] = result[s]
  <2>1. result[t].left \ {r} \in SUBSET result[t].left
    OBVIOUS
  <2> QED
    BY <1>1, <1>2, <2>1, LeftChanged DEF GiveRef
<1>4. \A k : Exists(k) => Exists(k)'
  BY <1>1, <1>2 DEF Exists
<1>5. \A q : (\A s : At(q, s)' = At(q, s)) /\ Holds(q)' = Holds(q)
  BY DEF GiveRef, At, Holds
<1>6. ASSUME faults = 0 PROVE Smooth'
  <2>1. TasksExist /\ Settled /\ Alone /\ (\A v \in Workers : Serves(v))
    BY <1>6 DEF JInv, Smooth
  <2>2. TasksExist' /\ Settled' /\ Alone'
    BY <1>1, <1>3, <1>4, <1>5, <2>1 DEF GiveRef, TasksExist, Settled, Alone
  <2>3. ASSUME NEW w \in Workers PROVE Serves(w)'
    <3>1. \A k \in Holds(w) : k \in DOMAIN ref /\ k # r
      BY <1>1, HeldExist DEF JInv, Apart
    <3>2. \A k \in Holds(w) : ref'[k] = ref[k]
      BY <1>2, <3>1
    <3> QED
      BY <1>4, <1>5, <2>1, <3>2 DEF GiveRef, Serves
  <2> QED
    BY <2>1, <2>2, <2>3 DEF Smooth, GiveRef, Fine
<1> QED
  BY <1>1, <1>3, <1>4, <1>6, ServerJ DEF GiveRef, Fine

LEMMA HandlerDiesJ == ASSUME JInv, IInv', NEW t \in Clients, HandlerDies(t) PROVE JInv'
<1>1. faults' # 0 /\ UNCHANGED <<raised, gone, ref, task, proc>>
  BY PutsNeverFault DEF HandlerDies
<1>2. /\ ref \in Seq([content : Texts, user : Users \cup {None}]) /\ Len(ref) \in Nat
      /\ {} \in SUBSET result[t].left
  BY DEF JInv, IInv, Server, Kept
<1>3. result'[t].left = {} /\ \A s \in Clients \ {t} : result'[s] = result[s]
  BY <1>1, <1>2, LeftChanged DEF HandlerDies, JInv, IInv
<1> QED
  BY <1>1, <1>3, ServerJ DEF HandlerDies, Exists

LEMMA DeleteRefJ == ASSUME JInv, IInv', NEW p \in Procs, NEW r \in DOMAIN ref, DeleteRef(p, r) PROVE JInv'
<1>1. faults' # 0
  BY DEF DeleteRef, JInv, IInv, Counts
<1> QED
  BY <1>1, ServerJ DEF DeleteRef

LEMMA UnassignJ == ASSUME JInv, IInv', NEW t \in Clients, Unassign(t) PROVE JInv'
<1>1. /\ task[t] # None /\ result[t] = None /\ UNCHANGED <<ref, result, proc>>
      /\ Fine \/ Fault
  BY DEF Unassign
<1>2. /\ task'[t] # None /\ task'[t].files = task[t].files
      /\ \A s \in Clients \ {t} : task'[s] = task[s]
  BY TakenBack DEF Unassign, JInv, IInv
<1>3. \A k : Exists(k)' = Exists(k)
  BY <1>1 DEF Exists
<1>4. \A q : (\A s : At(q, s)' = At(q, s)) /\ Holds(q)' = Holds(q)
  BY <1>1 DEF At, Holds
<1>5. UNCHANGED <<raised, gone>> /\ (faults' = 0 => faults = 0 /\ Fine)
  BY <1>1, SameBlame
<1>6. ASSUME faults' = 0 PROVE Smooth'
  <2>1. /\ TasksExist /\ Settled /\ Alone /\ (\A v \in Workers : Serves(v))
        /\ faults = 0
    BY <1>5, <1>6 DEF JInv, Smooth
  <2>2. \A w \in Workers : proc[w].job # t
    BY <1>5, <1>6, <2>1, PutsNeverFault DEF Unassign, Lost
  <2>3. TasksExist' /\ Settled'
    BY <1>1, <1>2, <1>3, <2>1 DEF TasksExist, Settled
  <2>4. \A w \in Workers : ~At(w, "idle") => proc[w].job \in Clients
    BY DEF JInv, IInv, Good, Works, Procs
  <2>5. Alone'
    BY <1>1, <1>2, <1>4, <2>1, <2>2, <2>4 DEF Alone
  <2>6. \A w \in Workers : Serves(w)'
    BY <1>1, <1>3, <1>4, <2>1 DEF Serves
  <2> QED
    BY <1>5, <2>1, <2>3, <2>5, <2>6 DEF Smooth
<1> QED
  BY <1>1, <1>2, <1>3, <1>5, <1>6, ServerJ

LEMMA ResultGetJ == ASSUME JInv, IInv', NEW c \in Clients, ResultGet(c) PROVE JInv'
<1>1. c \in Procs /\ c \notin Workers /\ proc[c] \in ProcSet /\ proc \in [Procs -> ProcSet]
  BY NamesAssumption DEF Procs, JInv, IInv
<1> DEFINE r == [proc[c] EXCEPT !.pc = "fetch", !.code = result[c].code, !.refs = result[c].files,
                                !.todo = {n \in Outputs : result[c].files[n] # 0}]
<1>2. Becomes(c, r) /\ Fine /\ UNCHANGED server
  BY DEF ResultGet
<1>3. r.pc = "fetch"
  BY <1>1 DEF ProcSet
<1> HIDE DEF r
<1>4. proc'[c].pc = "fetch" /\ \A q \in Procs \ {c} : proc'[q] = proc[q]
  BY <1>1, <1>2, <1>3 DEF Becomes
<1>5. Relies(c)' /\ ~At(c, "put")'
  BY <1>4 DEF Relies, At
<1> QED
  BY <1>1, <1>2, <1>4, <1>5, SameBlame, LocalJ DEF Fine

LEMMA FinishJ == ASSUME JInv, IInv', NEW c \in Clients, Finish(c) PROVE JInv'
<1>1. c \in Procs /\ c \notin Workers /\ proc[c] \in ProcSet /\ proc \in [Procs -> ProcSet]
  BY NamesAssumption DEF Procs, JInv, IInv
<1>2. proc'[c].pc = "done" /\ \A q \in Procs \ {c} : proc'[q] = proc[q]
  BY <1>1 DEF Finish, Becomes, ProcSet
<1>3. Relies(c)' /\ ~At(c, "put")'
  BY <1>2 DEF Relies, At
<1> QED
  BY <1>1, <1>2, <1>3, SameBlame, LocalJ DEF Finish, Fine

LEMMA PutJ == ASSUME JInv, IInv', NEW p \in Procs, Put(p) PROVE JInv'
BY CheckJ, AskBlobJ, SendBlobJ DEF Put

LEMMA NextJ == JInv /\ [Next]_vars => JInv'
<1> SUFFICES ASSUME JInv, [Next]_vars PROVE JInv'
  OBVIOUS
<1>1. IInv'
  BY NextIInv DEF JInv
<1> USE DEF Procs
<1>2. ASSUME NEW c \in Clients, Execute(c) PROVE JInv'
  BY <1>1, <1>2, PutJ, PostTaskJ, ResultGetJ, BlobGetJ, FinishJ DEF Execute
<1>3. ASSUME NEW c \in Clients, Give(c) PROVE JInv'
  BY <1>1, <1>3, GiveRefJ DEF Give
<1>4. ASSUME NEW w \in Workers, Work(w) PROVE JInv'
  BY <1>1, <1>4, DequeueJ, TaskGetJ, BlobGetJ, Stage0J, PutJ, PostResultJ DEF Work
<1>5. CASE UNCHANGED vars
  <2>1. UNCHANGED <<ref, task, result, proc, faults, raised, gone>>
    BY <1>5 DEF vars, server
  <2>2. (\A k : Exists(k)' = Exists(k)) /\ (\A q : (\A s : At(q, s)' = At(q, s)) /\ Holds(q)' = Holds(q))
    BY <2>1 DEF Exists, At, Holds
  <2>3. Smooth'
    BY <2>1, <2>2 DEF JInv, Smooth, TasksExist, Settled, Alone, Serves
  <2> QED
    BY <1>1, <2>1, <2>2, <2>3, ServerJ
<1> QED
  BY <1>1, <1>2, <1>3, <1>4, <1>5, HandlerDiesJ, UnassignJ, CutJ, DeleteRefJ DEF Next

LEMMA InitJ == Init => JInv
<1> SUFFICES ASSUME Init PROVE JInv
  OBVIOUS
<1>1. IInv /\ faults = 0 /\ raised = {} /\ \A t \in Clients : task[t] = None /\ result[t] = None
  BY InitIInv DEF Init
<1>2. \A w \in Workers : proc[w] = Idle
  BY DEF Init, Procs
<1>3. \A w \in Workers : proc[w].pc = "idle"
  BY <1>2, IdleFacts
<1>4. \A w \in Workers : ~At(w, "put") /\ ~At(w, "fetch") /\ At(w, "idle") /\ Holds(w) = {}
  BY <1>3 DEF At, Holds
<1>5. ASSUME NEW c \in Clients PROVE Relies(c)
  <2>1. \E F : proc[c] = Submitter(c, F)
    BY NamesAssumption, Zenon DEF Init, Procs
  <2>2. PICK F : proc[c] = Submitter(c, F)
    BY <2>1
  <2>3. proc[c].todo = Inputs
    BY <2>2 DEF Submitter, Idle
  <2> QED
    BY <2>3 DEF Relies
<1>6. Unposted /\ Blameless /\ Apart
  BY <1>1, <1>4 DEF Unposted, Blameless, Apart
<1>7. Smooth
  BY <1>1, <1>4 DEF Smooth, TasksExist, Settled, Alone, Serves
<1> QED
  BY <1>1, <1>5, <1>6, <1>7 DEF JInv

\* An execute of a viewer fails only by its own connection, or when a reference was
\* deleted, and before the first fault no worker is refused, with any number of
\* foremen of any accounts (client.py:66-88, 442-451; task/views.py; result/views.py).
THEOREM BlameIsKnown == Spec => []FailsOnlyByFault
<1>1. JInv => FailsOnlyByFault
  BY DEF JInv, Blameless, FailsOnlyByFault
<1>2. Spec => []JInv
  BY InitJ, NextJ, PTL DEF Spec
<1> QED
  BY <1>1, <1>2, PTL

---------------------------------------------------------------------------
(* Every step is one of the life cycle's, or a stutter of it.              *)

\* Whoever holds a task is among those who ever did.
Held == \A t \in Clients : task[t] # None /\ task[t].assignee # None => task[t].assignee \in task[t].holders

\* The answers, as far as the life cycle sees them, are as they were.
LEMMA SameVerdict ==
  ASSUME IInv, RefsKept, NEW t \in Clients,
         IF result[t] = None THEN result'[t] = None
         ELSE /\ result'[t] # None /\ result'[t].files = result[t].files
              /\ result'[t].code = result[t].code /\ result'[t].user = result[t].user
  PROVE  VerdictOf(t)' = VerdictOf(t)
<1>1. CASE result[t] = None
  BY <1>1 DEF VerdictOf
<1>2. CASE result[t] # None
  <2>1. \A n \in Outputs : result[t].files[n] \in Keys
    BY <1>2 DEF IInv, Server, Kept, Names
  <2>2. Len(ref) \in Nat /\ DOMAIN ref = 1 .. Len(ref)
    BY DEF IInv, Server, Kept
  <2>3. \A k \in Keys : (IF k = 0 THEN None ELSE ref'[k].content) = Content(k)
    BY <2>2 DEF Content, RefsKept, Keys
  <2>4. /\ VerdictOf(t) = [user |-> result[t].user, outcome |-> result[t].code,
                           output |-> [n \in Outputs |-> Content(result[t].files[n])]]
        /\ VerdictOf(t)' = [user |-> result'[t].user, outcome |-> result'[t].code,
                            output |-> [n \in Outputs |-> IF result'[t].files[n] = 0 THEN None
                                                         ELSE ref'[result'[t].files[n]].content]]
    BY <1>2, Zenon DEF VerdictOf, Content
  <2>5. [n \in Outputs |-> IF result'[t].files[n] = 0 THEN None ELSE ref'[result'[t].files[n]].content]
         = [n \in Outputs |-> Content(result[t].files[n])]
    BY <1>2, <2>1, <2>3
  <2> QED
    BY <1>2, <2>4, <2>5
<1> QED
  BY <1>1, <1>2

LEMMA SameVerdicts ==
  ASSUME IInv, RefsKept, UNCHANGED result
  PROVE  Verdict' = Verdict
<1>1. ASSUME NEW t \in Clients PROVE VerdictOf(t)' = VerdictOf(t)
  BY SameVerdict
<1> QED
  BY <1>1 DEF Verdict

\* A step that writes no task and no result is not seen.
LEMMA Unseen ==
  ASSUME IInv, RefsKept, UNCHANGED <<task, result>>
  PROVE  UNCHANGED Lifecycle!vars /\ (Held => Held')
<1>1. Verdict' = Verdict
  BY SameVerdicts
<1>2. UNCHANGED <<Stage, Holder, Holders>> /\ (Held => Held')
  BY DEF Stage, Holder, Holders, Held
<1> QED
  BY <1>1, <1>2 DEF Lifecycle!vars

LEMMA ServerUnseen ==
  ASSUME IInv, UNCHANGED server
  PROVE  RefsKept /\ UNCHANGED <<task, result>>
BY SameServer DEF IInv, server

\* New references and those that change their user.
LEMMA RefsUnseen ==
  /\ \A p \in Procs, n \in Names : IInv /\ (Check(p, n) \/ AskBlob(p, n) \/ BlobGet(p, n)) =>
        RefsKept /\ UNCHANGED <<task, result>>
  /\ \A p \in Procs : IInv /\ SendBlob(p) => RefsKept /\ UNCHANGED <<task, result>>
  /\ \A p \in Procs : \A r \in DOMAIN ref : IInv /\ DeleteRef(p, r) => RefsKept /\ UNCHANGED <<task, result>>
<1>1. ASSUME IInv, NEW p \in Procs, NEW n, NEW x \in Texts, NewRef(p, n, x)
      PROVE  RefsKept /\ UNCHANGED <<task, result>>
  <2>1. Account[p] \in Users \cup {None}
    BY DEF Users
  <2> QED
    BY <1>1, <2>1, Appended DEF NewRef, IInv
<1>2. ASSUME IInv, NEW p \in Procs PROVE proc[p] \in ProcSet
  BY <1>2 DEF IInv
<1>3. ASSUME IInv, NEW p \in Procs, NEW n \in Names, Check(p, n) \/ AskBlob(p, n) \/ BlobGet(p, n)
      PROVE  RefsKept /\ UNCHANGED <<task, result>>
  <2>1. proc[p].files[n] \in Texts
    BY <1>2, <1>3 DEF ProcSet
  <2>2. UNCHANGED server \/ NewRef(p, n, proc[p].files[n])
    BY <1>3 DEF Check, AskBlob, BlobGet, Raises
  <2> QED
    BY <1>1, <1>3, <2>1, <2>2, ServerUnseen
<1>4. ASSUME IInv, NEW p \in Procs, SendBlob(p) PROVE RefsKept /\ UNCHANGED <<task, result>>
  <2>1. proc[p].up \in Names
    BY <1>2, <1>4 DEF SendBlob, ProcSet
  <2>2. proc[p].files[proc[p].up] \in Texts
    BY <1>2, <1>4, <2>1 DEF ProcSet
  <2> QED
    BY <1>1, <1>4, <2>2 DEF SendBlob, Sent
<1>5. ASSUME IInv, NEW p \in Procs, NEW r \in DOMAIN ref, DeleteRef(p, r)
      PROVE  RefsKept /\ UNCHANGED <<task, result>>
  <2>1. /\ ref' = [ref EXCEPT ![r].user = None] /\ UNCHANGED <<task, result>> /\ Server
    BY <1>5 DEF DeleteRef, IInv
  <2> QED
    BY <2>1, UserChanged
<1> QED
  BY <1>3, <1>4, <1>5

\* The row of a task changes hands: what the life cycle sees of it.
LEMMA HandsChange ==
  ASSUME IInv, Held, NEW t \in Clients, task'[t] # None, RefsKept, UNCHANGED result,
         \A s \in Clients \ {t} : task'[s] = task[s],
         task'[t].assignee # None => task'[t].assignee \in task'[t].holders
  PROVE  /\ Verdict' = Verdict /\ Held'
         /\ Stage' = [Stage EXCEPT ![t] = "present"]
         /\ Holder' = [s \in Clients |-> IF s \in {t} THEN task'[t].assignee ELSE Holder[s]]
         /\ Holders' = [s \in Clients |-> IF s \in {t} THEN task'[t].holders ELSE Holders[s]]
<1>1. Verdict' = Verdict
  BY SameVerdicts
<1>2. Stage' = [Stage EXCEPT ![t] = "present"]
  BY DEF Stage
<1>3. Holder' = [s \in Clients |-> IF s \in {t} THEN task'[t].assignee ELSE Holder[s]]
  BY DEF Holder
<1>4. Holders' = [s \in Clients |-> IF s \in {t} THEN task'[t].holders ELSE Holders[s]]
  BY DEF Holders
<1>5. Held'
  BY DEF Held
<1> QED
  BY <1>1, <1>2, <1>3, <1>4, <1>5

LEMMA PostTaskRefines ==
  ASSUME JInv, Held, NEW c \in Clients, PostTask(c)
  PROVE  (Lifecycle!Next \/ UNCHANGED Lifecycle!vars) /\ Held'
<1> DEFINE new == [files |-> proc[c].refs, assignee |-> None, holders |-> {}]
<1>1. IInv /\ task[c] = None /\ task \in [Clients -> TaskSet \cup {None}]
  BY DEF JInv, IInv, Server, Kept, Unposted, PostTask, AllPut
<1>2. CASE task' = [task EXCEPT ![c] = new] /\ UNCHANGED <<ref, result>>
  <2>1. new \in TaskSet /\ new.assignee = None /\ new.holders = {}
    <3>1. proc[c].refs \in [Names -> Nat]
      BY <1>1, ProcFields DEF IInv, Procs
    <3> QED
      BY <3>1 DEF TaskSet
  <2>2. new # None
    BY <2>1, NoneAssumption
  <2> HIDE DEF new
  <2>3. task'[c] = new /\ \A s \in Clients \ {c} : task'[s] = task[s]
    BY <1>1, <1>2
  <2>4. RefsKept
    BY <1>1, <1>2 DEF RefsKept, IInv, Server, Kept
  <2>5. /\ Verdict' = Verdict /\ Held'
        /\ Stage' = [Stage EXCEPT ![c] = "present"]
        /\ Holder' = [s \in Clients |-> IF s \in {c} THEN None ELSE Holder[s]]
        /\ Holders' = [s \in Clients |-> IF s \in {c} THEN {} ELSE Holders[s]]
    BY <1>1, <1>2, <2>1, <2>2, <2>3, <2>4, HandsChange
  <2>6. Stage[c] = "unused" /\ Holder' = Holder /\ Holders' = Holders
    BY <1>1, <2>5 DEF Stage, Holder, Holders
  <2>7. Lifecycle!Submit(c)
    BY <2>5, <2>6 DEF Lifecycle!Submit
  <2> QED
    BY <2>5, <2>7 DEF Lifecycle!Next
<1>3. CASE Raises(c)
  BY <1>1, <1>3, ServerUnseen, Unseen DEF Raises
<1> QED
  BY <1>2, <1>3 DEF PostTask

LEMMA DequeueRefines ==
  ASSUME JInv, Held, NEW w \in Workers, NEW t \in Clients, Dequeue(w, t)
  PROVE  Lifecycle!Next /\ Held'
<1>1. IInv /\ task[t] # None /\ task[t].assignee = None /\ UNCHANGED <<ref, result>>
  BY DEF JInv, Dequeue, Waiting
<1>2. /\ RefsKept /\ task'[t] # None /\ task'[t].assignee = Account[w]
      /\ task'[t].holders = task[t].holders \cup {Account[w]}
      /\ \A s \in Clients \ {t} : task'[s] = task[s]
  <2>1. Server /\ Account[w] \in {Account[v] : v \in Workers}
    BY <1>1 DEF IInv
  <2>2. task' = [task EXCEPT ![t].assignee = Account[w], ![t].holders = @ \cup {Account[w]}]
    BY DEF Dequeue
  <2> QED
    BY <1>1, <2>1, <2>2, Assigned
<1>3. /\ Verdict' = Verdict /\ Held'
      /\ Stage' = [Stage EXCEPT ![t] = "present"]
      /\ Holder' = [s \in Clients |-> IF s \in {t} THEN Account[w] ELSE Holder[s]]
      /\ Holders' = [s \in Clients |-> IF s \in {t} THEN task[t].holders \cup {Account[w]} ELSE Holders[s]]
  BY <1>1, <1>2, HandsChange
<1>4. Stage[t] = "present" /\ Holder[t] = None /\ Holders[t] = task[t].holders
  BY <1>1 DEF Stage, Holder, Holders
<1>5. Stage' = Stage
  BY <1>3, <1>4 DEF Stage
<1>6. Holders' = [s \in Clients |-> IF s \in {t} THEN Holders[s] \cup {Account[w]} ELSE Holders[s]]
  BY <1>3, <1>4
<1>7. Lifecycle!HandOut(Account[w], {t})
  BY <1>3, <1>4, <1>5, <1>6 DEF Lifecycle!HandOut
<1>8. Account[w] \in Users /\ {t} \in SUBSET Clients
  BY DEF Users, Procs
<1> QED
  BY <1>3, <1>7, <1>8 DEF Lifecycle!Next

LEMMA UnassignRefines ==
  ASSUME JInv, Held, NEW t \in Clients, Unassign(t)
  PROVE  Lifecycle!Next /\ Held'
<1>1. IInv /\ task[t] # None /\ task[t].assignee # None /\ result[t] = None /\ UNCHANGED <<ref, result>>
  BY DEF JInv, Unassign
<1>2. /\ RefsKept /\ task'[t] # None /\ task'[t].assignee = None
      /\ task'[t].holders = task[t].holders
      /\ \A s \in Clients \ {t} : task'[s] = task[s]
  <2>1. Server /\ task' = [task EXCEPT ![t].assignee = None]
    BY <1>1 DEF IInv, Unassign
  <2> QED
    BY <1>1, <2>1, TakenBack
<1>3. /\ Verdict' = Verdict /\ Held'
      /\ Stage' = [Stage EXCEPT ![t] = "present"]
      /\ Holder' = [s \in Clients |-> IF s \in {t} THEN None ELSE Holder[s]]
      /\ Holders' = [s \in Clients |-> IF s \in {t} THEN task[t].holders ELSE Holders[s]]
  BY <1>1, <1>2, HandsChange
<1>4. /\ Stage[t] = "present" /\ Holder[t] # None /\ Holders[t] = task[t].holders
      /\ Verdict[t] = None
  BY <1>1 DEF Stage, Holder, Holders, Verdict, VerdictOf
<1>5. Stage' = Stage /\ Holders' = Holders
  BY <1>3, <1>4 DEF Stage, Holders
<1>6. Lifecycle!Reclaim({t})
  BY <1>3, <1>4, <1>5 DEF Lifecycle!Reclaim
<1> QED
  BY <1>3, <1>6 DEF Lifecycle!Next

LEMMA PostResultRefines ==
  ASSUME JInv, Held, NEW w \in Workers, PostResult(w)
  PROVE  (Lifecycle!Next \/ UNCHANGED Lifecycle!vars) /\ Held'
<1>1. /\ IInv /\ w \in Procs /\ Good(w) /\ proc[w] \in ProcSet /\ proc[w].pc = "put"
      /\ proc[w].refs \in [Names -> Nat] /\ proc[w].code \in Codes
  BY ProcFields DEF JInv, IInv, PostResult, AllPut, At, Procs
<1>2. PICK t \in Clients : t = proc[w].job /\ task[t] # None
  BY <1>1 DEF Good, Works, At
<1> DEFINE left == {proc[w].refs[n] : n \in Outputs} \ {0}
           new  == [files |-> proc[w].refs, user |-> Account[w], code |-> proc[w].code, left |-> left]
<1>3. CASE /\ task[t].assignee = Account[w] /\ result[t] = None
           /\ result' = [result EXCEPT ![t] = new] /\ UNCHANGED <<ref, task>>
  <2>1. result \in [Clients -> ResultSet \cup {None}] /\ Len(ref) \in Nat /\ DOMAIN ref = 1 .. Len(ref)
    BY <1>1 DEF IInv, Server, Kept
  <2>2. left \in SUBSET Nat
    BY <1>1 DEF Names
  <2> HIDE DEF left
  <2>3. /\ new \in ResultSet /\ new.files = proc[w].refs /\ new.user = Account[w]
        /\ new.code = proc[w].code
    BY <1>1, <2>2 DEF ResultSet, Users
  <2>4. new # None
    BY <2>3, NoneAssumption
  <2> HIDE DEF new
  <2>5. result'[t] = new /\ \A s \in Clients \ {t} : result'[s] = result[s]
    BY <1>3, <2>1
  <2>6. RefsKept
    BY <1>3, <2>1 DEF RefsKept
  <2>7. PICK v : v = [user |-> Account[w], outcome |-> proc[w].code,
                      output |-> [n \in Outputs |-> Content(proc[w].refs[n])]]
    OBVIOUS
  <2>8. v \in Verdicts /\ v.user = Account[w]
    <3>1. ASSUME NEW n \in Outputs PROVE Content(proc[w].refs[n]) \in Products \cup {Empty, None}
      <4>1. proc[w].refs[n] # 0 => Makes(proc[w].refs[n], n, t, proc[w].code)
        BY <1>1, <1>2 DEF Good, Works, At
      <4>2. Product(n, t, proc[w].code) \subseteq Products
        BY DEF Product, Products, Parts
      <4> QED
        BY <4>1, <4>2 DEF Content, Makes
    <3> QED
      BY <1>1, <2>7, <3>1 DEF Verdicts
  <2>9. VerdictOf(t) = None /\ VerdictOf(t)' = v
    <3>1. VerdictOf(t)' = [user |-> result'[t].user, outcome |-> result'[t].code,
                           output |-> [n \in Outputs |-> IF result'[t].files[n] = 0 THEN None
                                                        ELSE ref'[result'[t].files[n]].content]]
      <4>1. result'[t] # None
        BY <2>4, <2>5
      <4> QED
        BY <4>1, Zenon DEF VerdictOf, Content
    <3>2. result'[t].files = proc[w].refs /\ result'[t].user = Account[w] /\ result'[t].code = proc[w].code
      BY <2>3, <2>5
    <3>3. ref' = ref
      BY <1>3
    <3>4. [n \in Outputs |-> IF result'[t].files[n] = 0 THEN None ELSE ref'[result'[t].files[n]].content]
           = [n \in Outputs |-> Content(proc[w].refs[n])]
      BY <3>2, <3>3 DEF Content
    <3>5. VerdictOf(t)' = v
      BY <2>7, <3>1, <3>2, <3>4
    <3> QED
      BY <1>3, <3>5 DEF VerdictOf
  <2>10. \A s \in Clients \ {t} : VerdictOf(s)' = VerdictOf(s)
    BY <1>1, <2>5, <2>6, SameVerdict
  <2>11. Verdict' = [Verdict EXCEPT ![t] = v] /\ Verdict[t] = None
    BY <2>9, <2>10 DEF Verdict
  <2>12. UNCHANGED <<Stage, Holder, Holders>> /\ Held'
    BY <1>3 DEF Stage, Holder, Holders, Held
  <2>13. Stage[t] = "present" /\ v.user \in Holders[t]
    <3>1. Account[w] # None
      BY <1>1, NoneAssumption DEF Users
    <3> QED
      BY <1>2, <1>3, <2>8, <3>1 DEF Stage, Holders, Held
  <2>14. Lifecycle!Record(t, v)
    BY <2>11, <2>12, <2>13 DEF Lifecycle!Record
  <2> QED
    BY <2>8, <2>12, <2>14 DEF Lifecycle!Next
<1>4. CASE Raises(w)
  BY <1>1, <1>4, ServerUnseen, Unseen DEF Raises
<1> QED
  BY <1>2, <1>3, <1>4 DEF PostResult

\* References of a result are given on, one by one, or not.
LEMMA GivingRefines ==
  ASSUME JInv, Held, NEW t \in Clients, Give(t) \/ HandlerDies(t)
  PROVE  UNCHANGED Lifecycle!vars /\ Held'
<1>1. IInv /\ result[t] # None
  BY DEF JInv, Give, GiveRef, HandlerDies
<1>2. RefsKept /\ UNCHANGED task
  <2>1. CASE Give(t)
    <3>1. PICK r \in DOMAIN ref : GiveRef(t, r)
      BY <2>1 DEF Give
    <3>2. Account[t] \in Users \cup {None} /\ Server
      BY <1>1 DEF Users, Procs, IInv
    <3> QED
      BY <3>1, <3>2, UserChanged DEF GiveRef
  <2>2. CASE HandlerDies(t)
    BY <1>1, <2>2 DEF HandlerDies, RefsKept, IInv, Server, Kept
  <2> QED
    BY <2>1, <2>2
<1>3. PICK L \in SUBSET result[t].left : result' = [result EXCEPT ![t].left = L]
  <2>1. CASE Give(t)
    <3>1. PICK r \in DOMAIN ref : GiveRef(t, r)
      BY <2>1 DEF Give
    <3>2. result[t].left \ {r} \in SUBSET result[t].left
      OBVIOUS
    <3>3. result' = [result EXCEPT ![t].left = result[t].left \ {r}]
      BY <1>1, <3>1 DEF GiveRef, IInv, Server
    <3> QED
      BY <3>2, <3>3
  <2>2. CASE HandlerDies(t)
    <3>1. result' = [result EXCEPT ![t].left = {}]
      BY <1>1, <2>2 DEF HandlerDies
    <3> QED
      BY <3>1
  <2> QED
    BY <2>1, <2>2
<1>4. /\ result'[t] # None /\ result'[t].files = result[t].files
      /\ result'[t].code = result[t].code /\ result'[t].user = result[t].user
      /\ \A s \in Clients \ {t} : result'[s] = result[s]
  <2>1. result[t] \in ResultSet /\ result \in [Clients -> ResultSet \cup {None}]
    BY <1>1 DEF IInv, Server, Kept
  <2>2. /\ result'[t] = [result[t] EXCEPT !.left = L]
        /\ \A s \in Clients \ {t} : result'[s] = result[s]
    BY <1>3, <2>1
  <2>3. result'[t].files = result[t].files /\ result'[t].code = result[t].code /\ result'[t].user = result[t].user
    BY <2>1, <2>2 DEF ResultSet
  <2>4. result'[t] # None
    <3>1. result'[t] \in ResultSet
      BY <2>1, <2>2, <1>1 DEF ResultSet
    <3> QED
      BY <3>1, NoneAssumption
  <2> QED
    BY <2>2, <2>3, <2>4
<1>5. \A s \in Clients : VerdictOf(s)' = VerdictOf(s)
  BY <1>1, <1>2, <1>4, SameVerdict
<1>6. Verdict' = Verdict
  BY <1>5 DEF Verdict
<1>7. UNCHANGED <<Stage, Holder, Holders>> /\ Held'
  BY <1>2 DEF Stage, Holder, Holders, Held
<1> QED
  BY <1>6, <1>7 DEF Lifecycle!vars

LEMMA StepRefines == JInv /\ Held /\ [Next]_vars => [Lifecycle!Next]_(Lifecycle!vars) /\ Held'
<1> SUFFICES ASSUME JInv, Held, [Next]_vars PROVE (Lifecycle!Next \/ UNCHANGED Lifecycle!vars) /\ Held'
  OBVIOUS
<1>1. IInv /\ Clients \subseteq Procs /\ Workers \subseteq Procs
  BY DEF JInv, Procs
<1>2. ASSUME NEW p \in Procs, \/ Put(p) \/ Cut(p)
                              \/ \E n \in Names : BlobGet(p, n)
                              \/ \E r \in DOMAIN ref : DeleteRef(p, r)
      PROVE  UNCHANGED Lifecycle!vars /\ Held'
  <2>1. RefsKept /\ UNCHANGED <<task, result>>
    BY <1>1, <1>2, RefsUnseen, ServerUnseen DEF Put, Cut
  <2> QED
    BY <1>1, <2>1, Unseen
<1>3. ASSUME UNCHANGED server PROVE UNCHANGED Lifecycle!vars /\ Held'
  BY <1>1, <1>3, ServerUnseen, Unseen
<1>4. ASSUME NEW c \in Clients, Execute(c) PROVE (Lifecycle!Next \/ UNCHANGED Lifecycle!vars) /\ Held'
  <2>1. CASE ResultGet(c) \/ Finish(c)
    BY <1>3, <2>1 DEF ResultGet, Finish
  <2> QED
    BY <1>1, <1>2, <1>4, <2>1, PostTaskRefines DEF Execute
<1>5. ASSUME NEW w \in Workers, Work(w) PROVE (Lifecycle!Next \/ UNCHANGED Lifecycle!vars) /\ Held'
  <2>1. CASE TaskGet(w) \/ Stage0(w)
    BY <1>3, <2>1 DEF TaskGet, Raises, Stage0
  <2> QED
    BY <1>1, <1>2, <1>5, <2>1, DequeueRefines, PostResultRefines DEF Work
<1>6. CASE UNCHANGED vars
  BY <1>3, <1>6 DEF vars
<1> QED
  BY <1>2, <1>4, <1>5, <1>6, GivingRefines, UnassignRefines DEF Next

\* Client and foreman, whatever breaks between them and the server, take the server
\* through the life cycle it promises (client.py, foreman.py:84-115).
THEOREM Refinement == Spec => ImplementsLifecycle
<1>1. Init => Lifecycle!Init /\ Held
  BY DEF Init, Lifecycle!Init, Stage, Holder, Holders, Verdict, VerdictOf, Held
<1>2. Spec => [](JInv /\ Held)
  BY <1>1, InitJ, NextJ, StepRefines, PTL DEF Spec
<1> QED
  BY <1>1, <1>2, StepRefines, PTL DEF Spec, ImplementsLifecycle, Lifecycle!Spec

=============================================================================
