--------------------------- MODULE ObserverProofs ---------------------------
(***************************************************************************)
(* Proofs about Observer, for any number of threads, processes, ids and    *)
(* Session objects.                                                        *)
(*                                                                         *)
(* The argument: an id stays with the first session made with it until     *)
(* that is closed, so what a thread has read of a session, and the thread  *)
(* that closes it by its id, are about the same one.  The first thread to  *)
(* be through with killing has had the group frozen all along.             *)
(***************************************************************************)
EXTENDS Observer, TLAPS

---------------------------------------------------------------------------
(* The registry *)

Seen(i)     == \E n \in DOMAIN object : object[n].id = i
Original(i) == sessions[i] # 0 /\ First(sessions[i])

\* A registered session is the last one made with its id; who knows an id has
\* seen it made; statistics are of sessions that were made.
RegistryOK ==
  /\ \A i \in Ids : sessions[i] # 0 =>
       /\ object[sessions[i]].id = i
       /\ \A m \in DOMAIN object : m > sessions[i] => object[m].id # i
  /\ \A i \in known : Seen(i)
  /\ \A i \in Ids : stored[i] # "none" => Seen(i)
  /\ \A n \in DOMAIN object : /\ status[object[n].creator] # "unborn"
                              /\ object[n].time = "over" => object[n].late

---------------------------------------------------------------------------
(* Threads *)

\* What the fields of a thread say of each other.
Shape(q) ==
  /\ q.op = None => q = Idle
  /\ q.op # None => q.pc # None
  /\ q.op \notin {None, Clean} => q.op \in Requests /\ q.by # None /\ q.id # None
  /\ q.op = Clean => q.pc \in CleanSteps \/ q.close \in {"over", "finished"}
  /\ q.pc \notin {None, "sweep", "drop"} => q.cid # None
  /\ q.close # "no" => q.pc \in CloseSteps
  /\ q.close = "asked" => q.op = "close"
  /\ q.pc \notin CleanSteps /\ q.close \in {"no", "asked"} => q.cid = q.id
  /\ q.pc \in MakeSteps => q.op \in {"open", "start", "attach"}
  /\ q.pc \in {"check", "intoPids", "intoFreezer"} => q.op \in {"start", "attach"}
  /\ q.pc = "reopen" => q.op = "attach"
  /\ q.pc = "tell" => q.op \in {"open", "start"}
  /\ q.pc \in CloseSteps \ {"stats"} /\ q.close = "no" =>
       q.op \in {"kill", "freeze", "thaw"} /\ q.pc \notin {"closePids", "closeFreezer", "forget"}

\* Has the thread still to make the session it was asked to open?
Opening(q) == /\ q.op \in {"open", "start"}
              /\ q.pc \in CleanSteps \cup MakeSteps \/ q.close # "no"

\* What a thread knows of sessions.
Aware(q) ==
  /\ q.op \notin {None, Clean} => (Opening(q) <=> ~Seen(q.id))
  /\ q.pc \in MakeSteps => ~Original(q.cid)
  /\ q.pc \in {"makeFreezer", "register"} /\ ~Seen(q.cid) => q.cid \in dirs["pids"]
  /\ q.pc = "register" /\ ~Seen(q.cid) => q.cid \in dirs["freezer"]
  /\ q.list \subseteq DOMAIN object
  /\ q.pc \in {"test", "members"} \/ q.close \in {"over", "finished"} =>
       q.n \in DOMAIN object /\ object[q.n].id = q.cid
  /\ q.close = "over" => object[q.n].late
  /\ q.pc = "members" \/ q.close = "finished" => status[object[q.n].creator] = "dead"
  /\ q.pc \in {"drop", "delete"} => \A i \in q.work : i \in Ids /\ Seen(i)
  /\ q.pc = "delete" => q.cid \in Ids /\ Seen(q.cid) /\ ~Original(q.cid)
  /\ q.by # None => status[q.by] # "unborn"

ThreadsOK ==
  /\ \A t \in Threads : Shape(thread[t]) /\ Aware(thread[t])
  /\ \A t, u \in Threads : t # u =>
       /\ thread[t].by # None => thread[u].by # thread[t].by
       /\ thread[t].id # None /\ thread[u].id = thread[t].id => Seen(thread[t].id)

\* Statistics are read before the groups of a session go.
StatsOK ==
  /\ \A i \in Ids : Original(i) => i \in dirs["pids"] \/ stored[i] # "none"
  /\ \A t \in Threads : Closing(t) /\ thread[t].pc # "stats" /\ Original(thread[t].cid) =>
       stored[thread[t].cid] # "none"

\* TypeOK but for the threads.
SystemOK ==
  /\ status \in [Procs -> {"unborn", "running", "killed", "dead"}]
  /\ at \in [Controllers -> [Procs -> Ids \cup {None}]]
  /\ dirs \in [Controllers -> SUBSET Ids]
  /\ frozen \subseteq dirs["freezer"] /\ capped \subseteq dirs["pids"]
  /\ object \in Seq(SessionObject) /\ Len(object) <= MaxObject
  /\ sessions \in [Ids -> 0 .. Len(object)]
  /\ stored \in [Ids -> {"none", "fresh", "old"}] /\ known \subseteq Ids
  /\ bound \in [Procs -> 0 .. Len(object)] /\ limited \subseteq Ids

IInv == TypeOK /\ RegistryOK /\ ThreadsOK /\ StatsOK

---------------------------------------------------------------------------
(* Steps that make no session *)

\* No session is made and none comes back.
KeepsObjects ==
  /\ DOMAIN object' = DOMAIN object
  /\ \A n \in DOMAIN object : /\ object'[n].id = object[n].id
                              /\ object'[n].creator = object[n].creator
                              /\ object[n].late => object'[n].late
                              /\ object'[n].time = "over" => object[n].time = "over" \/ object'[n].late
  /\ \A i \in Ids : sessions'[i] \in {sessions[i], 0}

\* Nobody is born again.
KeepsDead == \A p \in Procs : /\ status[p] = "dead" => status'[p] = "dead"
                              /\ status[p] # "unborn" => status'[p] # "unborn"

\* Groups go only after a session was made, statistics only when it is gone.
KeepsGroups == \A c \in Controllers, i \in Ids : ~Seen(i) /\ i \in dirs[c] => i \in dirs'[c]

KeepsStats ==
  /\ \A i \in Ids : stored'[i] # "none" => stored[i] # "none" \/ Seen(i)
  /\ \A i \in Ids : Original(i) /\ stored[i] # "none" => stored'[i] # "none"
  /\ \A i \in Ids : Original(i) /\ i \in dirs["pids"] => i \in dirs'["pids"] \/ stored'[i] # "none"

TellsSeen == \A i \in known' : i \in known \/ Seen(i)

Steady == KeepsObjects /\ KeepsDead /\ KeepsGroups /\ KeepsStats /\ TellsSeen

LEMMA ObjectFacts ==
  ASSUME TypeOK, NEW n \in DOMAIN object
  PROVE  n \in Nat /\ n \in 1 .. Len(object) /\ object[n] \in SessionObject
         /\ object[n].id \in Ids /\ object[n].creator \in Procs
<1>1. object \in Seq(SessionObject)
  BY DEF TypeOK
<1>2. n \in 1 .. Len(object) /\ n \in Nat /\ object[n] \in SessionObject
  BY <1>1
<1> QED
  BY <1>2 DEF SessionObject

LEMMA SessionFacts ==
  ASSUME TypeOK, RegistryOK, NEW i \in Ids
  PROVE  /\ sessions[i] # 0 => sessions[i] \in DOMAIN object /\ object[sessions[i]].id = i
         /\ Original(i) => Seen(i)
<1>1. sessions[i] \in 0 .. Len(object) /\ Len(object) \in Nat /\ DOMAIN object = 1 .. Len(object)
  BY DEF TypeOK
<1>2. sessions[i] # 0 => sessions[i] \in DOMAIN object /\ object[sessions[i]].id = i
  BY <1>1 DEF RegistryOK
<1> QED
  BY <1>2 DEF Original, Seen

LEMMA ObjectsSeen ==
  ASSUME TypeOK, RegistryOK, KeepsObjects, NEW i \in Ids
  PROVE  /\ Seen(i)' <=> Seen(i)
         /\ Original(i)' => Original(i) /\ sessions'[i] = sessions[i]
<1>1. Seen(i)' <=> Seen(i)
  BY DEF KeepsObjects, Seen
<1>2. ASSUME Original(i)' PROVE Original(i) /\ sessions'[i] = sessions[i]
  <2>1. sessions'[i] = sessions[i] /\ sessions[i] # 0
    BY <1>2 DEF Original, KeepsObjects
  <2>2. sessions[i] \in DOMAIN object
    BY <2>1, SessionFacts
  <2>3. \A m \in 1 .. (sessions[i] - 1) : m \in DOMAIN object
    BY <2>2 DEF TypeOK
  <2>4. \A m \in 1 .. (sessions[i] - 1) : object'[m].id # object'[sessions[i]].id
    BY <1>2, <2>1 DEF Original, First
  <2>5. First(sessions[i])
    BY <2>2, <2>3, <2>4 DEF First, KeepsObjects
  <2> QED
    BY <2>1, <2>5 DEF Original
<1> QED
  BY <1>1, <1>2

LEMMA SteadySees ==
  ASSUME TypeOK, RegistryOK, Steady, NEW i \in Ids
  PROVE  /\ Seen(i)' <=> Seen(i)
         /\ Original(i)' => Original(i) /\ sessions'[i] = sessions[i]
BY ObjectsSeen DEF Steady

LEMMA SteadyRegistry ==
  ASSUME IInv, Steady
  PROVE  RegistryOK'
<1> USE DEF IInv
<1>1. \A i \in Ids : sessions'[i] # 0 => /\ sessions'[i] = sessions[i]
                                         /\ sessions[i] \in DOMAIN object /\ object[sessions[i]].id = i
  BY SessionFacts DEF Steady, KeepsObjects
<1>2. \A i \in Ids : sessions'[i] # 0 =>
        /\ object'[sessions'[i]].id = i
        /\ \A m \in DOMAIN object' : m > sessions'[i] => object'[m].id # i
  BY <1>1 DEF Steady, KeepsObjects, RegistryOK
<1>3. known \subseteq Ids
  BY DEF TypeOK
<1>4. \A i \in known' : Seen(i)'
  BY DEF RegistryOK, Steady, TellsSeen, KeepsObjects, Seen
<1>5. \A i \in Ids : stored'[i] # "none" => Seen(i)'
  <2>1. \A i \in Ids : Seen(i)' <=> Seen(i)
    BY SteadySees
  <2>2. \A i \in Ids : stored'[i] # "none" => stored[i] # "none" \/ Seen(i)
    BY DEF Steady, KeepsStats
  <2> QED
    BY <2>1, <2>2 DEF RegistryOK
<1>6. \A n \in DOMAIN object' : /\ status'[object'[n].creator] # "unborn"
                                /\ object'[n].time = "over" => object'[n].late
  <2>1. \A n \in DOMAIN object : object[n].creator \in Procs
    BY ObjectFacts
  <2>2. \A p \in Procs : status[p] # "unborn" => status'[p] # "unborn"
    BY DEF Steady, KeepsDead
  <2> QED
    BY <2>1, <2>2 DEF RegistryOK, Steady, KeepsObjects
<1> QED
  BY <1>2, <1>4, <1>5, <1>6 DEF RegistryOK

LEMMA SteadyAware ==
  ASSUME IInv, Steady, NEW q \in Thread, Shape(q), Aware(q)
  PROVE  Aware(q)'
<1> USE DEF IInv
<1>1. \A i \in Ids : /\ Seen(i)' <=> Seen(i)
                     /\ Original(i)' => Original(i)
  BY SteadySees
<1>2. /\ q.id # None => q.id \in Ids
      /\ q.cid # None => q.cid \in Ids
      /\ q.by # None => q.by \in Procs
  BY DEF Thread
<1>3. q.op \notin {None, Clean} => (Opening(q) <=> ~Seen(q.id)')
  BY <1>1, <1>2 DEF Aware, Shape
<1>4. q.pc \in MakeSteps => q.cid \in Ids
  BY <1>2, NoneAssumption DEF Shape, MakeSteps
<1>5. /\ q.pc \in MakeSteps => ~Original(q.cid)'
      /\ q.pc \in {"makeFreezer", "register"} /\ ~Seen(q.cid)' => q.cid \in dirs'["pids"]
      /\ q.pc = "register" /\ ~Seen(q.cid)' => q.cid \in dirs'["freezer"]
  BY <1>1, <1>4 DEF Aware, Steady, KeepsGroups, MakeSteps, Controllers
<1>6. /\ q.list \subseteq DOMAIN object'
      /\ q.pc \in {"test", "members"} \/ q.close \in {"over", "finished"} =>
           q.n \in DOMAIN object' /\ object'[q.n].id = q.cid
      /\ q.close = "over" => object'[q.n].late
  BY DEF Aware, Steady, KeepsObjects
<1>7. q.pc = "members" \/ q.close = "finished" => status'[object'[q.n].creator] = "dead"
  <2>1. \A n \in DOMAIN object : object[n].creator \in Procs
    BY ObjectFacts
  <2>2. \A p \in Procs : status[p] = "dead" => status'[p] = "dead"
    BY DEF Steady, KeepsDead
  <2>3. \A n \in DOMAIN object : object'[n].creator = object[n].creator
    BY DEF Steady, KeepsObjects
  <2> QED
    BY <2>1, <2>2, <2>3 DEF Aware
<1>8. /\ q.pc \in {"drop", "delete"} => \A i \in q.work : i \in Ids /\ Seen(i)'
      /\ q.pc = "delete" => q.cid \in Ids /\ Seen(q.cid)' /\ ~Original(q.cid)'
  BY <1>1 DEF Aware
<1>9. q.by # None => status'[q.by] # "unborn"
  <2>1. \A p \in Procs : status[p] # "unborn" => status'[p] # "unborn"
    BY DEF Steady, KeepsDead
  <2> QED
    BY <1>2, <2>1 DEF Aware
<1> QED
  BY <1>3, <1>5, <1>6, <1>7, <1>8, <1>9 DEF Aware, Opening

\* A thread t that goes on as q.
Moves(t, q) ==
  /\ thread' = [thread EXCEPT ![t] = q]
  /\ Shape(q) /\ Aware(q)'
  /\ q.by \in {None, thread[t].by} /\ q.id \in {None, thread[t].id}
  /\ q.close # "no" /\ q.pc # "stats" /\ Original(q.cid)' => stored'[q.cid] # "none"

LEMMA ThreadFacts ==
  ASSUME IInv, NEW t \in Threads
  PROVE  \E r \in Thread : r = thread[t] /\ Shape(r) /\ Aware(r)
BY DEF IInv, TypeOK, ThreadsOK

LEMMA Others ==
  ASSUME IInv, Steady, NEW u \in Threads, thread'[u] = thread[u]
  PROVE  Shape(thread[u])' /\ Aware(thread[u])'
<1>1. PICK r \in Thread : r = thread[u] /\ Shape(r) /\ Aware(r)
  BY ThreadFacts
<1>2. Aware(r)'
  BY <1>1, SteadyAware
<1>3. thread'[u] = r
  BY <1>1
<1> QED
  BY <1>1, <1>2, <1>3 DEF Aware, Shape, Seen, Original, First

\* Closing a session leads past its statistics, unless they are read.
LEMMA StatsStay ==
  ASSUME IInv, Steady, NEW u \in Threads, thread'[u] = thread[u],
         (Closing(u) /\ thread[u].pc # "stats" /\ Original(thread[u].cid))'
  PROVE  stored'[thread'[u].cid] # "none"
<1>1. PICK r \in Thread : r = thread[u] /\ Shape(r)
  BY ThreadFacts
<1>2. r.close # "no" /\ r.pc # "stats" /\ thread'[u] = r
  BY <1>1 DEF Closing
<1>3. r.cid \in Ids
  <2>1. r.pc \in CloseSteps
    BY <1>1, <1>2 DEF Shape
  <2>2. r.cid # None
    BY <1>1, <2>1, NoneAssumption DEF Shape, CloseSteps, StepNames
  <2> QED
    BY <2>2 DEF Thread
<1>4. Original(r.cid)'
  BY <1>2 DEF Original, First
<1>5. Original(r.cid)
  BY <1>3, <1>4, SteadySees DEF IInv
<1>6. Original(thread[u].cid) /\ Closing(u)
  BY <1>1, <1>2, <1>5 DEF Original, First, Closing
<1>7. stored[r.cid] # "none"
  BY <1>1, <1>2, <1>6 DEF IInv, StatsOK
<1> QED
  BY <1>2, <1>3, <1>5, <1>7 DEF Steady, KeepsStats

LEMMA SteadyOriginals ==
  ASSUME IInv, Steady
  PROVE  \A i \in Ids : Original(i)' => i \in dirs'["pids"] \/ stored'[i] # "none"
<1>1. \A i \in Ids : Original(i)' => Original(i)
  BY SteadySees DEF IInv
<1> QED
  BY <1>1 DEF IInv, StatsOK, Steady, KeepsStats

LEMMA SteadyPairs ==
  ASSUME IInv, Steady, NEW u \in Threads, NEW v \in Threads, u # v,
         \A w \in Threads : /\ thread'[w].by \in {None, thread[w].by}
                            /\ thread'[w].id \in {None, thread[w].id}
  PROVE  /\ thread'[u].by # None => thread'[v].by # thread'[u].by
         /\ thread'[u].id # None /\ thread'[v].id = thread'[u].id => Seen(thread[u].id)'
<1>1. /\ thread[u].by # None => thread[v].by # thread[u].by
      /\ thread[u].id # None /\ thread[v].id = thread[u].id => Seen(thread[u].id)
  BY DEF IInv, ThreadsOK
<1>2. ASSUME thread'[u].id # None, thread'[v].id = thread'[u].id
      PROVE  Seen(thread[u].id)'
  <2>1. PICK r \in Thread : r = thread[u]
    BY ThreadFacts
  <2>2. r.id # None /\ r.id \in Ids /\ thread'[u].id = r.id
    BY <1>2, <2>1 DEF Thread
  <2>3. Seen(r.id)
    BY <1>1, <1>2, <2>1, <2>2 DEF Seen
  <2>4. Seen(r.id)'
    BY <2>2, <2>3, SteadySees DEF IInv
  <2> QED
    BY <2>2, <2>4 DEF Seen
<1> QED
  BY <1>1, <1>2

\* A steady step of a thread keeps the invariant, if it does for the thread itself.
LEMMA StepKeeps ==
  ASSUME IInv, SystemOK', Steady, NEW t \in Threads, NEW q \in Thread, Moves(t, q)
  PROVE  IInv'
<1>1. RegistryOK'
  BY SteadyRegistry
<1>2. thread' = [thread EXCEPT ![t] = q] /\ thread \in [Threads -> Thread]
  BY DEF Moves, IInv, TypeOK
<1>3. thread'[t] = q /\ \A u \in Threads \ {t} : thread'[u] = thread[u]
  BY <1>2
<1>4. \A u \in Threads : Shape(thread[u])' /\ Aware(thread[u])'
  <2>1. \A u \in Threads \ {t} : Shape(thread[u])' /\ Aware(thread[u])'
    BY <1>3, Others
  <2>2. Shape(thread[t])' /\ Aware(thread[t])'
    BY <1>3 DEF Moves, Aware, Shape, Seen, Original, First
  <2> QED
    BY <2>1, <2>2
<1>5. \A w \in Threads : thread'[w].by \in {None, thread[w].by} /\ thread'[w].id \in {None, thread[w].id}
  BY <1>3 DEF Moves
<1>6. ThreadsOK'
  BY <1>4, <1>5, SteadyPairs DEF ThreadsOK
<1>7. ASSUME NEW u \in Threads, (Closing(u) /\ thread[u].pc # "stats" /\ Original(thread[u].cid))'
      PROVE  stored'[thread'[u].cid] # "none"
  <2>1. CASE u = t
    BY <1>3, <1>7, <2>1 DEF Moves, Closing, Original, First
  <2>2. CASE u # t
    BY <1>3, <1>7, <2>2, StatsStay
  <2> QED
    BY <2>1, <2>2
<1>8. StatsOK'
  BY <1>7, SteadyOriginals DEF StatsOK
<1>9. TypeOK'
  BY <1>2 DEF SystemOK, TypeOK
<1> QED
  BY <1>1, <1>6, <1>8, <1>9 DEF IInv

\* So does a steady step outside the threads.
LEMMA OutsideKeeps ==
  ASSUME IInv, SystemOK', Steady, UNCHANGED thread
  PROVE  IInv'
<1>1. RegistryOK'
  BY SteadyRegistry
<1>2. \A u \in Threads : Shape(thread[u])' /\ Aware(thread[u])'
  BY Others
<1>3. ThreadsOK'
  BY <1>2, SteadyPairs DEF ThreadsOK
<1>4. ASSUME NEW u \in Threads, (Closing(u) /\ thread[u].pc # "stats" /\ Original(thread[u].cid))'
      PROVE  stored'[thread'[u].cid] # "none"
  BY <1>4, StatsStay
<1>5. StatsOK'
  BY <1>4, SteadyOriginals DEF StatsOK
<1>6. TypeOK'
  BY DEF IInv, SystemOK, TypeOK
<1> QED
  BY <1>1, <1>3, <1>5, <1>6 DEF IInv

---------------------------------------------------------------------------
(* The moves of a thread *)

LEMMA TypeSystem == IInv => SystemOK
BY DEF IInv, TypeOK, SystemOK

LEMMA NothingElse ==
  ASSUME IInv, UNCHANGED <<system, registry, history>>
  PROVE  SystemOK' /\ Steady
<1>1. UNCHANGED <<status, at, dirs, frozen, capped, object, sessions, stored, known, bound, limited>>
  BY DEF system, registry, history
<1>2. SystemOK'
  BY <1>1, TypeSystem DEF SystemOK
<1>3. KeepsObjects /\ KeepsDead /\ KeepsGroups /\ TellsSeen
  BY <1>1 DEF KeepsObjects, KeepsDead, KeepsGroups, TellsSeen
<1>4. KeepsStats
  BY <1>1 DEF KeepsStats
<1> QED
  BY <1>2, <1>3, <1>4 DEF Steady

LEMMA IdleMoves ==
  ASSUME NEW t \in Threads, Answer(t)
  PROVE  Idle \in Thread /\ Moves(t, Idle)
<1>1. Idle \in Thread
  BY BoundAssumption DEF Thread, Idle
<1>2. Shape(Idle)
  BY NoneAssumption DEF Shape, Idle, MakeSteps, MoveSteps, CloseSteps, StepNames
<1>3. Aware(Idle)'
  BY NoneAssumption DEF Aware, Idle, MakeSteps, CleanSteps, StepNames, Opening
<1> QED
  BY <1>1, <1>2, <1>3 DEF Moves, Answer, Goto, Idle

\* A thread that goes to its next step, and nothing more.
LEMMA Continues ==
  ASSUME IInv, NEW t \in Threads, Busy(t), NEW s \in StepNames, Continue(t, s)
  PROVE  \E r, q \in Thread :
           /\ r = thread[t] /\ Shape(r) /\ Aware(r) /\ r.op # None
           /\ thread' = [thread EXCEPT ![t] = q] /\ q.pc = s
           /\ q.op = r.op /\ q.by = r.by /\ q.id = r.id /\ q.cid = r.cid /\ q.close = r.close
           /\ q.list = r.list /\ q.n = r.n /\ q.work = r.work /\ q.back = r.back
<1>1. PICK r \in Thread : r = thread[t] /\ Shape(r) /\ Aware(r)
  BY ThreadFacts
<1>2. r.op # None
  BY <1>1 DEF Busy
<1> DEFINE q == [r EXCEPT !.pc = s]
<1>3. /\ q \in Thread /\ q.pc = s
      /\ q.op = r.op /\ q.by = r.by /\ q.id = r.id /\ q.cid = r.cid /\ q.close = r.close
      /\ q.list = r.list /\ q.n = r.n /\ q.work = r.work /\ q.back = r.back
  BY DEF Thread
<1>4. thread' = [thread EXCEPT ![t] = q]
  BY <1>1 DEF Continue, Goto
<1> HIDE DEF q
<1> QED
  BY <1>1, <1>2, <1>3, <1>4

\* What a thread was aware of it still is, unless it is about to make or to test.
LEMMA Advances ==
  ASSUME IInv, Steady, NEW t \in Threads, NEW r \in Thread, r = thread[t], Shape(r), Aware(r),
         NEW q \in Thread, thread' = [thread EXCEPT ![t] = q], Shape(q),
         q.op = r.op, q.by = r.by, q.id = r.id, q.list = r.list, q.n = r.n,
         q.close \in {"over", "finished"} => q.close = r.close /\ q.cid = r.cid,
         q.op \in {"open", "start"} => (Opening(q) <=> Opening(r)),
         q.pc \notin MakeSteps \cup {"test", "members", "drop", "delete"},
         \/ r.close # "no" /\ r.pc # "stats" /\ q.cid = r.cid
         \/ q.close = "no" \/ q.pc = "stats"
         \/ Original(q.cid)' => stored'[q.cid] # "none"
  PROVE  Moves(t, q)
<1>1. Aware(r)'
  BY SteadyAware
<1>2. Aware(q)'
  BY <1>1 DEF Aware, MakeSteps, Opening
<1>3. ASSUME q.close # "no", q.pc # "stats", Original(q.cid)' PROVE stored'[q.cid] # "none"
  <2>1. CASE r.close # "no" /\ r.pc # "stats" /\ q.cid = r.cid
    <3>1. r.cid \in Ids
      <4>1. r.pc \in CloseSteps
        BY <2>1 DEF Shape
      <4>2. r.cid # None
        BY <4>1, NoneAssumption DEF Shape, CloseSteps, StepNames
      <4> QED
        BY <4>2 DEF Thread
    <3>2. Original(r.cid)'
      BY <1>3, <2>1 DEF Original, First
    <3>3. Original(r.cid)
      BY <3>1, <3>2, SteadySees DEF IInv
    <3>4. stored[r.cid] # "none"
      BY <2>1, <3>3 DEF IInv, StatsOK, Closing, Original, First
    <3> QED
      BY <2>1, <3>1, <3>3, <3>4 DEF Steady, KeepsStats
  <2> QED
    BY <1>3, <2>1
<1> QED
  BY <1>2, <1>3 DEF Moves

LEMMA BeginMoves ==
  ASSUME IInv, Steady, NEW t \in Threads, Busy(t), thread[t].pc \in {"sweep", "drop"}, Begin(t)
  PROVE  \E q \in Thread : Moves(t, q)
<1>1. PICK r \in Thread : r = thread[t] /\ Shape(r) /\ Aware(r)
  BY ThreadFacts
<1>2. r.op # None /\ r.pc \in {"sweep", "drop"} /\ r.close = "no"
  BY <1>1 DEF Busy, Shape, CloseSteps
<1>3. CASE r.op = Clean
  BY <1>1, <1>3, IdleMoves DEF Begin
<1>4. CASE r.op # Clean
  <2> DEFINE s == FirstStep(r.op)
             c == IF r.op = "close" THEN "asked" ELSE "no"
             q == [r EXCEPT !.pc = s, !.cid = r.id, !.work = {}, !.close = c]
  <2>1. r.op \in Commands /\ r.id \in Ids
    BY <1>1, <1>2, <1>4 DEF Thread, Shape
  <2>2. /\ r.op \in {"open", "start"} => s = "makePids"
        /\ r.op \in {"kill", "freeze", "thaw"} => s = "find"
        /\ r.op \in {"close", "stats"} => s = "stats"
        /\ r.op = "attach" => s = "reopen"
        /\ r.op = "detach" => s = "leave"
        /\ r.op = "limits" => s = "limit"
    BY DEF FirstStep, CloseBegins
  <2>3. s \in {"makePids", "find", "stats", "reopen", "leave", "limit"}
    BY <2>1, <2>2 DEF Commands
  <2>5. thread' = [thread EXCEPT ![t] = q]
    BY <1>1, <1>4 DEF Begin, Goto
  <2>10. c \in {"no", "asked"} /\ (c = "asked" <=> r.op = "close")
    OBVIOUS
  <2>11. s \in StepNames
    BY <2>3 DEF StepNames, MakeSteps, CloseSteps, MoveSteps
  <2> HIDE DEF s, c
  <2>4. /\ q \in Thread /\ q.pc = s /\ q.cid = r.id /\ q.work = {} /\ q.close = c
        /\ q.op = r.op /\ q.by = r.by /\ q.id = r.id /\ q.list = r.list /\ q.n = r.n
    BY <2>1, <2>10, <2>11 DEF Thread
  <2> HIDE DEF q
  <2>6. r.op # Clean /\ r.op \in Requests /\ r.by # None /\ r.id # None
    BY <1>1, <1>2, <1>4 DEF Shape
  <2>7. Shape(q)
    <3>1. /\ s # None /\ s \notin CleanSteps \cup {"check", "intoPids", "intoFreezer", "tell"}
          /\ s \in MakeSteps => r.op \in {"open", "start", "attach"}
          /\ s = "reopen" => r.op = "attach"
      BY <2>1, <2>2, <2>3, <2>11, NoneAssumption DEF Commands, CleanSteps, MakeSteps
    <3>2. s \in CloseSteps \ {"stats"} => s = "find" /\ r.op \in {"kill", "freeze", "thaw"}
      BY <2>1, <2>2, <2>3 DEF Commands, CloseSteps
    <3>3. c = "asked" => s = "stats" /\ s \in CloseSteps
      BY <2>2, <2>10 DEF CloseSteps
    <3>4. q.op # None /\ q.op # Clean /\ q.op \in Requests /\ q.cid # None
      BY <1>2, <2>4, <2>6
    <3>5. q.pc \notin {"closePids", "closeFreezer", "forget"}
      BY <2>3, <2>4
    <3> QED
      BY <2>4, <2>6, <2>10, <3>1, <3>2, <3>3, <3>4, <3>5 DEF Shape
  <2>8. CASE r.op \in {"open", "start"}
    <3>1. Opening(r) /\ Opening(q) /\ q.pc = "makePids" /\ q.close = "no"
      BY <1>2, <2>2, <2>4, <2>8, <2>10 DEF Opening, CleanSteps, MakeSteps
    <3>2. ~Seen(r.id)
      BY <1>1, <1>2, <1>4, <3>1 DEF Aware
    <3>3. ~Seen(q.cid)' /\ ~Original(q.cid)'
      BY <2>1, <2>4, <3>2, SteadySees, SessionFacts DEF IInv
    <3>4. Aware(r)'
      BY <1>1, SteadyAware
    <3>5. Aware(q)'
      BY <2>4, <3>1, <3>3, <3>4 DEF Aware, Seen
    <3> QED
      BY <2>4, <2>5, <2>7, <3>1, <3>5, <1>1 DEF Moves
  <2>9. CASE r.op \notin {"open", "start"}
    <3>1. s \notin MakeSteps \cup {"test", "members", "drop", "delete"} /\ (q.close = "no" \/ q.pc = "stats")
      BY <2>2, <2>1, <2>4, <2>9, <2>10 DEF Commands, MakeSteps
    <3>2. Moves(t, q)
      BY <1>1, <2>4, <2>5, <2>7, <2>9, <2>10, <3>1, Advances
    <3> QED
      BY <2>4, <3>2
  <2> QED
    BY <2>8, <2>9
<1> QED
  BY <1>3, <1>4

LEMMA ReturnMoves ==
  ASSUME IInv, Steady, NEW t \in Threads, Busy(t), thread[t].pc \in CloseSteps, Return(t)
  PROVE  \E q \in Thread : Moves(t, q)
<1>1. PICK r \in Thread : r = thread[t] /\ Shape(r) /\ Aware(r)
  BY ThreadFacts
<1>2. r.op # None /\ r.pc \in CloseSteps
  BY <1>1 DEF Busy
<1>3. Aware(r)'
  BY <1>1, SteadyAware
<1>4. CASE r.close = "over"
  <2> DEFINE q == [r EXCEPT !.pc = "test", !.close = "no"]
  <2>1. /\ q \in Thread /\ q.pc = "test" /\ q.close = "no" /\ q.cid = r.cid /\ q.n = r.n
        /\ q.op = r.op /\ q.by = r.by /\ q.id = r.id /\ q.list = r.list
    BY DEF Thread, StepNames, CleanSteps
  <2>2. thread' = [thread EXCEPT ![t] = q]
    BY <1>1, <1>4 DEF Return, Goto
  <2> HIDE DEF q
  <2>3. Shape(q)
    BY <1>1, <1>2, <1>4, <2>1, NoneAssumption DEF Shape, CleanSteps, MakeSteps, CloseSteps, StepNames
  <2>4. Aware(q)'
    BY <1>3, <1>4, <2>1 DEF Aware, Opening, CleanSteps, MakeSteps
  <2> QED
    BY <1>1, <2>1, <2>2, <2>3, <2>4 DEF Moves
<1>5. CASE r.close = "finished"
  <2> DEFINE q == [r EXCEPT !.pc = "sweep", !.close = "no", !.cid = None, !.n = 0]
  <2>5. 0 \in 0 .. MaxObject /\ "sweep" \in StepNames
    BY BoundAssumption DEF StepNames, CleanSteps
  <2>1. /\ q \in Thread /\ q.pc = "sweep" /\ q.close = "no"
        /\ q.op = r.op /\ q.by = r.by /\ q.id = r.id /\ q.list = r.list
    BY <2>5 DEF Thread
  <2>2. thread' = [thread EXCEPT ![t] = q]
    BY <1>1, <1>5 DEF Return, Goto
  <2> HIDE DEF q
  <2>3. Shape(q)
    BY <1>1, <1>2, <1>5, <2>1, NoneAssumption DEF Shape, CleanSteps, MakeSteps, CloseSteps, StepNames
  <2>4. Aware(q)'
    BY <1>3, <1>5, <2>1 DEF Aware, Opening, CleanSteps, MakeSteps
  <2> QED
    BY <1>1, <2>1, <2>2, <2>3, <2>4 DEF Moves
<1>6. CASE r.close \notin {"over", "finished"}
  <2>1. Answer(t)
    BY <1>1, <1>6 DEF Return, Answer, Goto
  <2> QED
    BY <2>1, IdleMoves
<1> QED
  BY <1>4, <1>5, <1>6

\* The steps of closing, but for the way to the first one.
LEMMA CloseMoves ==
  ASSUME IInv, Steady, NEW t \in Threads, Busy(t), NEW s \in CloseSteps \ {"stats"}, Continue(t, s),
         thread[t].pc \in CloseSteps,
         \/ Closing(t)
         \/ thread[t].pc # "stats" /\ s \notin {"closePids", "closeFreezer", "forget"},
         thread[t].pc = "stats" =>
           \A i \in Ids : i = thread[t].cid /\ Original(i)' => stored'[i] # "none"
  PROVE  \E q \in Thread : Moves(t, q)
<1>1. PICK r, q \in Thread :
         /\ r = thread[t] /\ Shape(r) /\ Aware(r) /\ r.op # None
         /\ thread' = [thread EXCEPT ![t] = q] /\ q.pc = s
         /\ q.op = r.op /\ q.by = r.by /\ q.id = r.id /\ q.cid = r.cid /\ q.close = r.close
         /\ q.list = r.list /\ q.n = r.n /\ q.work = r.work /\ q.back = r.back
  BY Continues DEF StepNames
<1>2. s # None /\ s \notin CleanSteps \cup MakeSteps \cup {"reopen", "check", "intoPids", "intoFreezer", "tell", "test", "members", "drop", "delete"}
  BY NoneAssumption DEF StepNames, CloseSteps, CleanSteps, MakeSteps
<1>3. r.pc \in CloseSteps /\ r.pc \notin CleanSteps \cup MakeSteps \cup {"sweep", "drop"} /\ r.pc # None
  BY <1>1, NoneAssumption DEF StepNames, CloseSteps, CleanSteps, MakeSteps
<1>4. r.close # "no" \/ (r.pc # "stats" /\ s \notin {"closePids", "closeFreezer", "forget"})
  BY <1>1 DEF Closing
<1>5. Shape(q)
  BY <1>1, <1>2, <1>3, <1>4 DEF Shape, CleanSteps
<1>6. Opening(q) <=> Opening(r)
  BY <1>1, <1>2, <1>3 DEF Opening
<1>7. \/ r.close # "no" /\ r.pc # "stats" /\ q.cid = r.cid
      \/ q.close = "no" \/ q.pc = "stats"
      \/ Original(q.cid)' => stored'[q.cid] # "none"
  <2>1. q.cid \in Ids
    BY <1>1, <1>2, <1>5 DEF Shape, Thread, CleanSteps
  <2> QED
    BY <1>1, <2>1
<1> QED
  BY <1>1, <1>2, <1>5, <1>6, <1>7, Advances

LEMMA AfterKillMoves ==
  ASSUME IInv, Steady, NEW t \in Threads, Busy(t), AfterKill(t),
         thread[t].pc \in CloseSteps \ {"stats"}
  PROVE  \E q \in Thread : Moves(t, q)
<1>1. CASE Closing(t)
  <2>1. "thaw" \in CloseSteps \ {"stats"}
    BY DEF CloseSteps
  <2>2. Continue(t, "thaw")
    BY <1>1 DEF AfterKill
  <2> QED
    BY <1>1, <2>1, <2>2, CloseMoves
<1>2. CASE ~Closing(t)
  BY <1>2, IdleMoves DEF AfterKill
<1> QED
  BY <1>1, <1>2

---------------------------------------------------------------------------
(* stats, freeze, kill, close *)

LEMMA CidKnown ==
  ASSUME IInv, NEW t \in Threads, Busy(t), thread[t].pc \notin {"sweep", "drop"}
  PROVE  /\ thread[t].cid \in Ids
         /\ Closing(t) /\ Original(thread[t].cid) /\ thread[t].pc # "stats" => stored[thread[t].cid] # "none"
         /\ Closing(t) => Seen(thread[t].cid)
<1>1. PICK r \in Thread : r = thread[t] /\ Shape(r) /\ Aware(r)
  BY ThreadFacts
<1>2. r.cid \in Ids
  BY <1>1 DEF Shape, Thread, Busy
<1>3. Original(thread[t].cid) /\ Closing(t) /\ thread[t].pc # "stats" => stored[thread[t].cid] # "none"
  BY DEF IInv, StatsOK
<1>4. ASSUME Closing(t) PROVE Seen(r.cid)
  <2>1. CASE r.close \in {"over", "finished"}
    BY <1>1, <2>1 DEF Aware, Seen
  <2>2. CASE r.close = "asked"
    <3>1. r.op = "close" /\ r.pc \in CloseSteps
      BY <1>1, <2>2 DEF Shape
    <3>2. r.cid = r.id
      BY <1>1, <2>2, <3>1 DEF Shape, CloseSteps, CleanSteps
    <3>3. ~Opening(r) /\ r.op \notin {None, Clean}
      BY <3>1, NoneAssumption DEF Opening, Commands, Clean
    <3> QED
      BY <1>1, <3>2, <3>3 DEF Aware
  <2> QED
    BY <1>1, <1>4, <2>1, <2>2 DEF Closing, Thread
<1> QED
  BY <1>1, <1>2, <1>3, <1>4 DEF Seen

LEMMA ThreadOnly ==
  ASSUME IInv, NEW t \in Threads, UNCHANGED <<system, registry, history>>,
         \E q \in Thread : Moves(t, q)
  PROVE  IInv'
BY NothingElse, StepKeeps

LEMMA StatsKeeps ==
  ASSUME IInv, NEW t \in Threads, Stats(t) PROVE IInv'
<1>1. PICK i \in Ids : i = thread[t].cid
  BY CidKnown DEF Stats, At
<1>2. /\ Busy(t) /\ thread[t].pc = "stats" /\ thread[t].pc \in CloseSteps
      /\ UNCHANGED <<system, object, sessions, known, history>>
      /\ stored' = IF sessions[i] # 0 /\ i \in dirs["pids"] THEN [stored EXCEPT ![i] = "fresh"] ELSE stored
  BY <1>1 DEF Stats, At, CloseSteps
<1>3. UNCHANGED <<status, at, dirs, frozen, capped, object, sessions, known, bound, limited>>
  BY <1>2 DEF system, history
<1>4. stored \in [Ids -> {"none", "fresh", "old"}]
  BY DEF IInv, TypeOK
<1>5. SystemOK'
  BY <1>2, <1>3, <1>4, TypeSystem DEF SystemOK
<1>6. KeepsObjects /\ KeepsDead /\ KeepsGroups /\ TellsSeen
  BY <1>3 DEF KeepsObjects, KeepsDead, KeepsGroups, TellsSeen
<1>7. sessions[i] # 0 => Seen(i)
  BY SessionFacts DEF IInv, Seen
<1>8. KeepsStats
  BY <1>2, <1>3, <1>4, <1>7 DEF KeepsStats
<1>9. Steady
  BY <1>6, <1>8 DEF Steady
<1>10. CASE sessions[i] # 0 /\ Closing(t)
  <2>1. Continue(t, "find") /\ "find" \in CloseSteps \ {"stats"}
    BY <1>1, <1>10 DEF Stats, CloseSteps
  <2>2. Original(i)' => stored'[i] # "none"
    <3>1. Original(i)' => Original(i)
      BY <1>9, SteadySees DEF IInv
    <3>2. Original(i) => i \in dirs["pids"] \/ stored[i] # "none"
      BY DEF IInv, StatsOK
    <3> QED
      BY <1>2, <1>4, <1>10, <3>1, <3>2
  <2>3. \E q \in Thread : Moves(t, q)
    BY <1>1, <1>2, <1>9, <1>10, <2>1, <2>2, CloseMoves
  <2> QED
    BY <1>5, <1>9, <2>3, StepKeeps
<1>11. CASE ~(sessions[i] # 0 /\ Closing(t))
  <2>1. Return(t)
    BY <1>1, <1>11 DEF Stats
  <2>2. \E q \in Thread : Moves(t, q)
    BY <1>2, <1>9, <2>1, ReturnMoves
  <2> QED
    BY <1>5, <1>9, <2>2, StepKeeps
<1> QED
  BY <1>10, <1>11

LEMMA FindKeeps ==
  ASSUME IInv, NEW t \in Threads, Find(t) PROVE IInv'
<1>1. /\ Busy(t) /\ thread[t].pc = "find" /\ thread[t].pc \in CloseSteps
      /\ UNCHANGED <<system, registry, history>>
  BY DEF Find, At, CloseSteps
<1>2. Steady
  BY <1>1, NothingElse
<1>3. CASE sessions[thread[t].cid] = 0
  <2>1. Return(t)
    BY <1>3 DEF Find
  <2>2. \E q \in Thread : Moves(t, q)
    BY <1>1, <1>2, <2>1, ReturnMoves
  <2> QED
    BY <1>1, <2>2, ThreadOnly
<1>4. CASE sessions[thread[t].cid] # 0
  <2>1. PICK r \in Thread : r = thread[t] /\ Shape(r) /\ Aware(r)
    BY ThreadFacts
  <2>2. PICK b \in BOOLEAN : b = (thread[t].cid \in frozen)
    <3>1. CASE thread[t].cid \in frozen
      <4>1. TRUE = (thread[t].cid \in frozen)
        BY <3>1
      <4> QED
        BY <4>1
    <3>2. CASE thread[t].cid \notin frozen
      <4>1. FALSE = (thread[t].cid \in frozen)
        BY <3>2
      <4> QED
        BY <4>1
    <3> QED
      BY <3>1, <3>2
  <2>3. PICK s \in {"thaw", "freeze"} : s = AfterFind(t) /\ (s = "thaw" => thread[t].op = "thaw" /\ ~Closing(t))
    BY DEF AfterFind
  <2> DEFINE q == [r EXCEPT !.back = b, !.pc = s]
  <2>4. /\ q \in Thread /\ q.pc = s /\ q.back = b
        /\ q.op = r.op /\ q.by = r.by /\ q.id = r.id /\ q.cid = r.cid /\ q.close = r.close
        /\ q.list = r.list /\ q.n = r.n /\ q.work = r.work
    BY DEF Thread, StepNames, CloseSteps
  <2>5. thread' = [thread EXCEPT ![t] = q]
    BY <1>4, <2>1, <2>2, <2>3 DEF Find, Goto
  <2> HIDE DEF q
  <2>6. s \notin CleanSteps \cup MakeSteps \cup {"check", "intoPids", "intoFreezer", "tell", "test", "members", "drop", "delete", "sweep"}
        /\ s # None /\ s \in CloseSteps /\ s \notin {"closePids", "closeFreezer", "forget", "stats"}
    BY NoneAssumption DEF StepNames, CloseSteps, CleanSteps, MakeSteps
  <2>7. r.pc = "find" /\ r.pc \notin CleanSteps \cup MakeSteps /\ r.op # None /\ r.pc # None
    BY <1>1, <2>1, NoneAssumption DEF StepNames, CleanSteps, MakeSteps, CloseSteps, Busy
  <2>8. Shape(q)
    BY <2>1, <2>4, <2>6, <2>7 DEF Shape, CloseSteps
  <2>9. (Opening(q) <=> Opening(r)) /\ ((r.close # "no" /\ r.pc # "stats" /\ q.cid = r.cid) \/ q.close = "no")
    BY <2>4, <2>6, <2>7 DEF Opening
  <2>10. Moves(t, q)
    BY <1>2, <2>1, <2>4, <2>5, <2>6, <2>7, <2>8, <2>9, Advances
  <2> QED
    BY <1>1, <2>4, <2>10, ThreadOnly
<1> QED
  BY <1>3, <1>4

LEMMA QuietSteady ==
  ASSUME IInv, UNCHANGED <<dirs, registry>>, KeepsDead
  PROVE  Steady
<1>1. UNCHANGED <<dirs, object, sessions, stored, known>>
  BY DEF registry
<1>2. KeepsObjects /\ KeepsGroups /\ KeepsStats /\ TellsSeen
  BY <1>1 DEF KeepsObjects, KeepsGroups, KeepsStats, TellsSeen
<1> QED
  BY <1>2 DEF Steady

\* Steps on the freezer's state.
LEMMA FreezerSteady ==
  ASSUME IInv, UNCHANGED <<status, at, dirs, capped, registry, history>>,
         frozen' \subseteq dirs["freezer"]
  PROVE  SystemOK' /\ Steady
<1>1. UNCHANGED <<status, at, dirs, capped, object, sessions, stored, known, bound, limited>>
  BY DEF registry, history
<1>2. SystemOK'
  BY <1>1, TypeSystem DEF SystemOK
<1>3. KeepsDead
  BY <1>1 DEF KeepsDead
<1> QED
  BY <1>2, <1>3, QuietSteady

LEMMA NoFreezerKeeps ==
  ASSUME IInv, NEW t \in Threads, NoFreezer(t) PROVE IInv'
<1>1. /\ Busy(t) /\ thread[t].pc \in CloseSteps \ {"stats"} /\ AfterKill(t)
      /\ UNCHANGED <<system, registry, history>>
  BY DEF NoFreezer, At, CloseSteps
<1> QED
  BY <1>1, NothingElse, AfterKillMoves, ThreadOnly

LEMMA FreezeKeeps ==
  ASSUME IInv, NEW t \in Threads, Freeze(t) PROVE IInv'
<1>1. /\ Busy(t) /\ thread[t].pc = "freeze" /\ thread[t].pc \in CloseSteps
      /\ thread[t].cid \in dirs["freezer"] /\ Continue(t, "wait") /\ "wait" \in CloseSteps \ {"stats"}
      /\ frozen' = frozen \cup {thread[t].cid}
      /\ UNCHANGED <<status, at, dirs, capped, registry, history>>
  BY DEF Freeze, WithFreezer, At, CloseSteps
<1>2. frozen' \subseteq dirs["freezer"]
  BY <1>1 DEF IInv, TypeOK
<1>3. SystemOK' /\ Steady
  BY <1>1, <1>2, FreezerSteady
<1>4. \E q \in Thread : Moves(t, q)
  BY <1>1, <1>3, CloseMoves
<1> QED
  BY <1>3, <1>4, StepKeeps

LEMMA WaitKeeps ==
  ASSUME IInv, NEW t \in Threads, Wait(t) PROVE IInv'
<1>1. /\ Busy(t) /\ thread[t].pc = "wait" /\ thread[t].pc \in CloseSteps
      /\ "list" \in CloseSteps \ {"stats"}
      /\ UNCHANGED <<system, registry, history>>
  BY DEF Wait, WithFreezer, At, CloseSteps
<1>2. SystemOK' /\ Steady
  BY <1>1, NothingElse
<1>3. CASE UNCHANGED thread
  BY <1>2, <1>3, OutsideKeeps
<1>4. CASE Continue(t, "list")
  <2>1. \E q \in Thread : Moves(t, q)
    BY <1>1, <1>2, <1>4, CloseMoves
  <2> QED
    BY <1>1, <2>1, ThreadOnly
<1>5. CASE Answer(t)
  BY <1>1, <1>5, IdleMoves, ThreadOnly
<1> QED
  BY <1>3, <1>4, <1>5 DEF Wait

\* What a thread goes on with among the steps of kill, its work apart.
LEMMA KillMoves ==
  ASSUME IInv, Steady, NEW t \in Threads, Busy(t), NEW s \in {"kill", "restore"},
         NEW w \in SUBSET (Procs \cup Ids), thread[t].pc \in {"list", "kill"},
         Goto(t, [thread[t] EXCEPT !.work = w, !.pc = s])
  PROVE  \E q \in Thread : Moves(t, q)
<1>1. PICK r \in Thread : r = thread[t] /\ Shape(r) /\ Aware(r)
  BY ThreadFacts
<1> DEFINE q == [r EXCEPT !.work = w, !.pc = s]
<1>2. s \in StepNames
  BY DEF StepNames, CloseSteps
<1>3. /\ q \in Thread /\ q.pc = s /\ q.work = w
      /\ q.op = r.op /\ q.by = r.by /\ q.id = r.id /\ q.cid = r.cid /\ q.close = r.close
      /\ q.list = r.list /\ q.n = r.n
  BY <1>2 DEF Thread
<1>4. thread' = [thread EXCEPT ![t] = q]
  BY <1>1 DEF Goto
<1> HIDE DEF q
<1>5. /\ s \notin CleanSteps \cup MakeSteps \cup {"check", "intoPids", "intoFreezer", "tell", "test", "members", "drop", "delete", "sweep"}
      /\ s # None /\ s \in CloseSteps /\ s \notin {"closePids", "closeFreezer", "forget", "stats"}
  BY NoneAssumption DEF StepNames, CloseSteps, CleanSteps, MakeSteps
<1>6. /\ r.pc \in CloseSteps \ {"stats"} /\ r.pc \notin CleanSteps \cup MakeSteps
      /\ r.op # None /\ r.pc # None
  BY <1>1, NoneAssumption DEF StepNames, CleanSteps, MakeSteps, CloseSteps, Busy
<1>7. Shape(q)
  BY <1>1, <1>3, <1>5, <1>6 DEF Shape, CleanSteps
<1>8. Opening(q) <=> Opening(r)
  BY <1>3, <1>5, <1>6 DEF Opening
<1>9. Moves(t, q)
  BY <1>1, <1>3, <1>4, <1>5, <1>6, <1>7, <1>8, Advances
<1> QED
  BY <1>3, <1>9

LEMMA ListKeeps ==
  ASSUME IInv, NEW t \in Threads, List(t) PROVE IInv'
<1>1. Members(thread[t].cid) \in SUBSET (Procs \cup Ids)
  BY DEF Members
<1>2. \E q \in Thread : Moves(t, q)
  BY <1>1, KillMoves, NothingElse DEF List, At
<1> QED
  BY <1>2, ThreadOnly DEF List

LEMMA KillKeeps ==
  ASSUME IInv, NEW t \in Threads, Kill(t) PROVE IInv'
<1>1. /\ Busy(t) /\ thread[t].pc = "kill"
      /\ Goto(t, [thread[t] EXCEPT !.work = {}, !.pc = "restore"])
      /\ UNCHANGED <<at, dirs, frozen, capped, registry, history>>
  BY DEF Kill, At
<1>2. UNCHANGED <<at, dirs, frozen, capped, object, sessions, stored, known, bound, limited>>
  BY <1>1 DEF registry, history
<1>3. status \in [Procs -> {"unborn", "running", "killed", "dead"}]
  BY DEF IInv, TypeOK
<1>4. /\ status' \in [Procs -> {"unborn", "running", "killed", "dead"}]
      /\ KeepsDead
  BY <1>3 DEF Kill, Running, KeepsDead
<1>5. SystemOK'
  BY <1>2, <1>4, TypeSystem DEF SystemOK
<1>6. Steady
  BY <1>1, <1>4, QuietSteady
<1>7. \E q \in Thread : Moves(t, q)
  <2>1. {} \in SUBSET (Procs \cup Ids)
    OBVIOUS
  <2> QED
    BY <1>1, <1>6, <2>1, KillMoves
<1> QED
  BY <1>5, <1>6, <1>7, StepKeeps

LEMMA RestoreKeeps ==
  ASSUME IInv, NEW t \in Threads, Restore(t) PROVE IInv'
<1>1. /\ Busy(t) /\ thread[t].pc = "restore" /\ thread[t].pc \in CloseSteps \ {"stats"}
      /\ thread[t].cid \in dirs["freezer"] /\ "rewait" \in CloseSteps \ {"stats"}
      /\ UNCHANGED <<status, at, dirs, capped, registry, history>>
      /\ \/ frozen' = frozen \cup {thread[t].cid} /\ Continue(t, "rewait")
         \/ frozen' = frozen \ {thread[t].cid} /\ AfterKill(t)
  BY DEF Restore, WithFreezer, At, CloseSteps
<1>2. frozen' \subseteq dirs["freezer"]
  BY <1>1 DEF IInv, TypeOK
<1>3. SystemOK' /\ Steady
  BY <1>1, <1>2, FreezerSteady
<1>4. \E q \in Thread : Moves(t, q)
  BY <1>1, <1>3, CloseMoves, AfterKillMoves
<1> QED
  BY <1>3, <1>4, StepKeeps

LEMMA WaitAgainKeeps ==
  ASSUME IInv, NEW t \in Threads, WaitAgain(t) PROVE IInv'
<1>1. /\ Busy(t) /\ thread[t].pc \in CloseSteps \ {"stats"}
      /\ UNCHANGED <<system, registry, history>>
  BY DEF WaitAgain, WithFreezer, At, CloseSteps
<1>2. SystemOK' /\ Steady
  BY <1>1, NothingElse
<1>3. CASE UNCHANGED thread
  BY <1>2, <1>3, OutsideKeeps
<1>4. CASE AfterKill(t)
  BY <1>1, <1>2, <1>4, AfterKillMoves, ThreadOnly
<1> QED
  BY <1>3, <1>4 DEF WaitAgain

LEMMA ThawKeeps ==
  ASSUME IInv, NEW t \in Threads, Thaw(t) PROVE IInv'
<1>1. /\ Busy(t) /\ thread[t].pc = "thaw" /\ thread[t].pc \in CloseSteps
      /\ "closePids" \in CloseSteps \ {"stats"}
      /\ frozen' = frozen \ {thread[t].cid}
      /\ UNCHANGED <<status, at, dirs, capped, registry, history>>
  BY DEF Thaw, At, CloseSteps
<1>2. frozen' \subseteq dirs["freezer"]
  BY <1>1 DEF IInv, TypeOK
<1>3. SystemOK' /\ Steady
  BY <1>1, <1>2, FreezerSteady
<1>4. CASE Closing(t)
  <2>1. Continue(t, "closePids")
    BY <1>4 DEF Thaw
  <2>2. \E q \in Thread : Moves(t, q)
    BY <1>1, <1>3, <1>4, <2>1, CloseMoves
  <2> QED
    BY <1>3, <2>2, StepKeeps
<1>5. CASE ~Closing(t)
  BY <1>3, <1>5, IdleMoves, StepKeeps DEF Thaw
<1> QED
  BY <1>4, <1>5

LEMMA CloseGroupKeeps ==
  ASSUME IInv, NEW t \in Threads, NEW step, NEW c \in Controllers, NEW next,
         <<step, c, next>> \in {<<"closePids", "pids", "closeFreezer">>,
                                <<"closeFreezer", "freezer", "forget">>},
         CloseGroup(t, step, c, next)
  PROVE  IInv'
<1>1. PICK r \in Thread : r = thread[t] /\ Shape(r) /\ Aware(r)
  BY ThreadFacts
<1>2. /\ Busy(t) /\ thread[t].pc \in {"closePids", "closeFreezer"} /\ thread[t].pc \in CloseSteps \ {"stats"}
      /\ next \in CloseSteps \ {"stats"} /\ Continue(t, next)
      /\ UNCHANGED <<status, registry, history>>
  BY DEF CloseGroup, At, CloseSteps
<1>3. Closing(t)
  BY <1>1, <1>2 DEF Shape, Closing
<1>4. PICK i \in Ids : /\ i = thread[t].cid /\ Seen(i)
                       /\ Original(i) => stored[i] # "none"
  BY <1>2, <1>3, CidKnown DEF Seen, Original, First
<1>5. UNCHANGED <<status, object, sessions, stored, known, bound, limited>>
  BY <1>2 DEF registry, history
<1>6. /\ dirs' \in [Controllers -> SUBSET Ids]
      /\ \A d \in Controllers, j \in Ids : j \in dirs[d] /\ j # i => j \in dirs'[d]
  <2>1. dirs \in [Controllers -> SUBSET Ids]
    BY DEF IInv, TypeOK
  <2>2. dirs' = dirs \/ dirs' = [dirs EXCEPT ![c] = dirs[c] \ {i}]
    BY <1>4, <2>1 DEF CloseGroup
  <2> QED
    BY <2>1, <2>2
<1>7. /\ at' \in [Controllers -> [Procs -> Ids \cup {None}]]
      /\ frozen' \subseteq dirs'["freezer"] /\ capped' \subseteq dirs'["pids"]
  <2>1. CASE UNCHANGED <<at, dirs, frozen, capped>>
    BY <2>1 DEF IInv, TypeOK
  <2>2. CASE ~ UNCHANGED <<at, dirs, frozen, capped>>
    <3>1. /\ at' = [at EXCEPT ![c] = [p \in Procs |-> IF p \in {x \in Procs : Running(x) /\ at[c][x] = i}
                                                      THEN None ELSE at[c][p]]]
          /\ dirs' = [dirs EXCEPT ![c] = dirs[c] \ {i}]
          /\ frozen' = IF c = "freezer" THEN frozen \ {i} ELSE frozen
          /\ capped' = IF c = "pids" THEN capped \ {i} ELSE capped
      BY <1>4, <2>2 DEF CloseGroup, IInv, TypeOK
    <3>2. at' \in [Controllers -> [Procs -> Ids \cup {None}]]
      BY <3>1 DEF IInv, TypeOK
    <3>3. frozen' \subseteq dirs'["freezer"] /\ capped' \subseteq dirs'["pids"]
      BY <3>1 DEF IInv, TypeOK, Controllers
    <3> QED
      BY <3>2, <3>3
  <2> QED
    BY <2>1, <2>2
<1>8. SystemOK'
  BY <1>5, <1>6, <1>7, TypeSystem DEF SystemOK
<1>9. KeepsObjects /\ KeepsDead /\ TellsSeen
  BY <1>5 DEF KeepsObjects, KeepsDead, TellsSeen
<1>10. KeepsGroups
  BY <1>4, <1>6 DEF KeepsGroups
<1>11. KeepsStats
  BY <1>4, <1>5, <1>6 DEF KeepsStats, Controllers
<1>12. Steady
  BY <1>9, <1>10, <1>11 DEF Steady
<1>13. \E q \in Thread : Moves(t, q)
  BY <1>2, <1>3, <1>12, CloseMoves
<1> QED
  BY <1>8, <1>12, <1>13, StepKeeps

LEMMA ForgetKeeps ==
  ASSUME IInv, NEW t \in Threads, Forget(t) PROVE IInv'
<1>1. /\ Busy(t) /\ thread[t].pc \in CloseSteps /\ Return(t)
      /\ UNCHANGED <<status, at, dirs, frozen, capped, object, stored, known, bound, limited>>
      /\ sessions' = [sessions EXCEPT ![thread[t].cid] = 0]
  BY DEF Forget, At, CloseSteps, system, history
<1>2. sessions \in [Ids -> 0 .. Len(object)] /\ Len(object) \in Nat
  BY DEF IInv, TypeOK
<1>3. sessions' \in [Ids -> 0 .. Len(object)] /\ \A i \in Ids : sessions'[i] \in {sessions[i], 0}
  <2>1. 0 \in 0 .. Len(object)
    BY <1>2
  <2> QED
    BY <1>1, <1>2, <2>1
<1>4. SystemOK'
  BY <1>1, <1>3, TypeSystem DEF SystemOK
<1>5. KeepsObjects /\ KeepsDead /\ KeepsGroups /\ TellsSeen
  BY <1>1, <1>3 DEF KeepsObjects, KeepsDead, KeepsGroups, TellsSeen
<1>6. KeepsStats
  BY <1>1 DEF KeepsStats
<1>7. Steady
  BY <1>5, <1>6 DEF Steady
<1>8. \E q \in Thread : Moves(t, q)
  BY <1>1, <1>7, ReturnMoves
<1> QED
  BY <1>4, <1>7, <1>8, StepKeeps

---------------------------------------------------------------------------
(* cleanup_finished *)

---------------------------------------------------------------------------
(* cleanup_finished *)

\* The turn of the clean-up's loop for object n.
LEMMA TurnMoves ==
  ASSUME IInv, Steady, UNCHANGED registry, NEW t \in Threads, NEW r \in Thread, r = thread[t], Shape(r), Aware(r),
         r.op # None, r.pc = "sweep", NEW n \in r.list,
         NEW s \in {"stats", "test"}, NEW c \in {"over", "no"}, c = "over" <=> s = "stats",
         c = "over" => object[n].time = "over",
         thread' = [thread EXCEPT ![t] =
           [r EXCEPT !.list = r.list \ {n}, !.n = n, !.cid = object[n].id, !.close = c, !.pc = s]]
  PROVE  \E q \in Thread : Moves(t, q)
<1>1. n \in DOMAIN object /\ n \in 1 .. MaxObject
  BY DEF Aware, Thread
<1>2. n \in 0 .. MaxObject
  BY <1>1
<1>3. object[n].id \in Ids
  BY <1>1, ObjectFacts DEF IInv
<1>4. s \in StepNames /\ s # None /\ r.close = "no"
  BY NoneAssumption DEF StepNames, CleanSteps, CloseSteps, Shape
<1>5. PICK i \in Ids : i = object[n].id
  BY <1>3
<1> DEFINE q == [r EXCEPT !.list = r.list \ {n}, !.n = n, !.cid = i, !.close = c, !.pc = s]
<1>16. /\ q \in Thread /\ q.pc = s /\ q.close = c /\ q.cid = i
       /\ q.op = r.op /\ q.by = r.by /\ q.id = r.id /\ q.list = r.list \ {n} /\ q.n = n
  BY <1>2, <1>4 DEF Thread
<1>6. thread' = [thread EXCEPT ![t] = q]
  BY <1>5
<1> HIDE DEF q
<1>7. object' = object
  BY DEF registry
<1>8. Shape(q)
  BY <1>3, <1>4, <1>5, <1>16, NoneAssumption DEF Shape, CleanSteps, MakeSteps, CloseSteps
<1>9. Aware(r)'
  BY SteadyAware
<1>10. object[n].time = "over" => object[n].late
  BY <1>1 DEF IInv, RegistryOK
<1>11. Opening(q) <=> Opening(r)
  BY <1>4, <1>5, <1>16 DEF Opening, CleanSteps, MakeSteps
<1>12. Aware(q)'
  <2>1. /\ q.list \subseteq DOMAIN object'
        /\ q.pc \in {"test", "members"} \/ q.close \in {"over", "finished"} =>
             q.n \in DOMAIN object' /\ object'[q.n].id = q.cid
        /\ q.close = "over" => object'[q.n].late
        /\ q.close # "finished" /\ q.pc \notin MakeSteps \cup {"members", "drop", "delete"}
    BY <1>1, <1>5, <1>16, <1>7, <1>10 DEF Aware, MakeSteps
  <2>2. q.op \notin {None, Clean} => (Opening(q) <=> ~Seen(q.id)')
    BY <1>5, <1>16, <1>9, <1>11 DEF Aware, Opening
  <2>3. q.by # None => status'[q.by] # "unborn"
    BY <1>5, <1>16, <1>9 DEF Aware
  <2> QED
    BY <2>1, <2>2, <2>3 DEF Aware, Opening, MakeSteps
<1>13. q.close = "no" \/ q.pc = "stats"
  BY <1>5, <1>16
<1>14. q.by = thread[t].by /\ q.id = thread[t].id
  BY <1>5, <1>16
<1>15. Moves(t, q)
  BY <1>6, <1>8, <1>12, <1>13, <1>14 DEF Moves
<1> QED
  BY <1>5, <1>16, <1>15

LEMMA SweepKeeps ==
  ASSUME IInv, NEW t \in Threads, Sweep(t) PROVE IInv'
<1>1. PICK r \in Thread : r = thread[t] /\ Shape(r) /\ Aware(r)
  BY ThreadFacts
<1>2. /\ Busy(t) /\ r.op # None /\ r.pc = "sweep" /\ UNCHANGED <<system, registry, history>>
  BY <1>1 DEF Sweep, At, Busy
<1>3. Steady /\ UNCHANGED registry
  BY <1>2, NothingElse
<1>4. r.close = "no"
  BY <1>1, <1>2 DEF Shape, CloseSteps, Thread
<1>5. CASE r.list # {}
  <2>1. PICK n \in r.list :
          thread' = [thread EXCEPT ![t] =
            IF object[n].time = "over"
            THEN [[r EXCEPT !.list = r.list \ {n}, !.n = n, !.cid = object[n].id]
                    EXCEPT !.close = "over", !.pc = "stats"]
            ELSE [[r EXCEPT !.list = r.list \ {n}, !.n = n, !.cid = object[n].id] EXCEPT !.pc = "test"]]
    BY <1>1, <1>5 DEF Sweep, Goto, CloseBegins
  <2>2. CASE object[n].time = "over"
    <3>1. thread' = [thread EXCEPT ![t] =
            [r EXCEPT !.list = r.list \ {n}, !.n = n, !.cid = object[n].id, !.close = "over", !.pc = "stats"]]
      BY <2>1, <2>2 DEF Thread
    <3>2. \E q \in Thread : Moves(t, q)
      BY <1>1, <1>2, <1>3, <2>2, <3>1, TurnMoves
    <3> QED
      BY <1>2, <3>2, ThreadOnly
  <2>3. CASE object[n].time # "over"
    <3>1. thread' = [thread EXCEPT ![t] =
            [r EXCEPT !.list = r.list \ {n}, !.n = n, !.cid = object[n].id, !.close = "no", !.pc = "test"]]
      BY <1>4, <2>1, <2>3 DEF Thread
    <3>2. \E q \in Thread : Moves(t, q)
      BY <1>1, <1>2, <1>3, <2>3, <3>1, TurnMoves
    <3> QED
      BY <1>2, <3>2, ThreadOnly
  <2> QED
    BY <2>2, <2>3
<1>6. CASE r.list = {} /\ Old # {}
  <2>1. thread' = [thread EXCEPT ![t] = [r EXCEPT !.pc = "drop", !.work = Old]]
    BY <1>1, <1>6 DEF Sweep, Goto
  <2>2. Old \subseteq Ids /\ \A i \in Old : Seen(i)
    BY DEF Old, IInv, RegistryOK
  <2>3. Old \in SUBSET (Procs \cup Ids) /\ "drop" \in StepNames /\ "drop" # None
    BY <2>2, NoneAssumption DEF StepNames, CleanSteps
  <2>12. PICK old \in SUBSET (Procs \cup Ids) : old = Old
    BY <2>3
  <2> DEFINE q == [r EXCEPT !.pc = "drop", !.work = old]
  <2>4. /\ q \in Thread /\ q.pc = "drop" /\ q.work = old /\ q.close = r.close /\ q.cid = r.cid
        /\ q.op = r.op /\ q.by = r.by /\ q.id = r.id /\ q.list = r.list /\ q.n = r.n
    BY <2>3 DEF Thread
  <2>5. thread' = [thread EXCEPT ![t] = q]
    BY <2>1, <2>12
  <2> HIDE DEF q
  <2>6. Shape(q)
    BY <1>1, <1>2, <1>4, <2>3, <2>4 DEF Shape, CleanSteps, MakeSteps, CloseSteps
  <2>7. \A i \in q.work : i \in Ids /\ Seen(i)'
    BY <1>3, <2>2, <2>4, <2>12, SteadySees DEF IInv
  <2>8. Aware(r)'
    BY <1>1, <1>3, SteadyAware
  <2>9. Opening(q) <=> Opening(r)
    BY <1>2, <1>4, <2>4 DEF Opening, CleanSteps, MakeSteps
  <2>10. Aware(q)'
    <3>1. q.pc \notin MakeSteps \cup {"test", "members", "delete"} /\ q.close = "no"
      BY <1>4, <2>4 DEF MakeSteps
    <3>2. q.op \notin {None, Clean} => (Opening(q) <=> ~Seen(q.id)')
      BY <2>4, <2>8, <2>9 DEF Aware, Opening
    <3>3. q.list \subseteq DOMAIN object' /\ (q.by # None => status'[q.by] # "unborn")
      BY <2>4, <2>8 DEF Aware
    <3> QED
      BY <2>7, <3>1, <3>2, <3>3 DEF Aware, Opening, MakeSteps
  <2>11. Moves(t, q)
    BY <1>1, <1>4, <2>4, <2>5, <2>6, <2>10 DEF Moves
  <2> QED
    BY <1>2, <2>4, <2>11, ThreadOnly
<1>7. CASE r.list = {} /\ Old = {}
  <2>1. Begin(t) /\ thread[t].pc \in {"sweep", "drop"}
    BY <1>1, <1>2, <1>7 DEF Sweep
  <2>2. \E q \in Thread : Moves(t, q)
    BY <1>2, <1>3, <2>1, BeginMoves
  <2> QED
    BY <1>2, <2>2, ThreadOnly
<1> QED
  BY <1>5, <1>6, <1>7

\* The session is found finished, or it is not, by either part of the test.
LEMMA FinishMoves ==
  ASSUME IInv, Steady, UNCHANGED <<system, registry>>, NEW t \in Threads,
         NEW r \in Thread, r = thread[t], Shape(r), Aware(r), r.op # None,
         r.pc \in {"test", "members"}, Finish(t), status[object[r.n].creator] = "dead"
  PROVE  \E q \in Thread : Moves(t, q)
<1>1. r.close = "no" /\ status' = status /\ object' = object
  BY DEF Shape, CloseSteps, system, registry
<1>2. Aware(r)'
  BY SteadyAware
<1> DEFINE q == [r EXCEPT !.close = "finished", !.pc = "stats"]
<1>3. /\ q \in Thread /\ q.pc = "stats" /\ q.close = "finished" /\ q.cid = r.cid
      /\ q.op = r.op /\ q.by = r.by /\ q.id = r.id /\ q.list = r.list /\ q.n = r.n
  BY DEF Thread, StepNames, CloseSteps
<1>4. thread' = [thread EXCEPT ![t] = q]
  BY DEF Finish, Goto, CloseBegins
<1> HIDE DEF q
<1>5. Shape(q)
  BY <1>3, NoneAssumption DEF Shape, CleanSteps, MakeSteps, CloseSteps, StepNames
<1>6. Opening(q) <=> Opening(r)
  BY <1>1, <1>3 DEF Opening, CleanSteps, MakeSteps
<1>7. Aware(q)'
  BY <1>1, <1>2, <1>3, <1>6 DEF Aware, MakeSteps, Opening
<1> QED
  BY <1>3, <1>4, <1>5, <1>7 DEF Moves

LEMMA GoOnMoves ==
  ASSUME IInv, Steady, NEW t \in Threads,
         NEW r \in Thread, r = thread[t], Shape(r), Aware(r), r.op # None,
         r.pc \in {"test", "members"}, GoOn(t)
  PROVE  \E q \in Thread : Moves(t, q)
<1>1. r.close = "no"
  BY DEF Shape, CloseSteps
<1>2. Aware(r)'
  BY SteadyAware
<1> DEFINE q == [r EXCEPT !.pc = "sweep", !.cid = None, !.n = 0]
<1>3. 0 \in 0 .. MaxObject /\ "sweep" \in StepNames
  BY BoundAssumption DEF StepNames, CleanSteps
<1>4. /\ q \in Thread /\ q.pc = "sweep" /\ q.close = r.close
      /\ q.op = r.op /\ q.by = r.by /\ q.id = r.id /\ q.list = r.list
  BY <1>3 DEF Thread
<1>5. thread' = [thread EXCEPT ![t] = q]
  BY DEF GoOn, Goto
<1> HIDE DEF q
<1>6. Shape(q)
  BY <1>1, <1>4, NoneAssumption DEF Shape, CleanSteps, MakeSteps, CloseSteps, StepNames
<1>7. Aware(q)'
  BY <1>1, <1>2, <1>4 DEF Aware, Opening, CleanSteps, MakeSteps
<1> QED
  BY <1>1, <1>4, <1>5, <1>6, <1>7 DEF Moves

LEMMA TestKeeps ==
  ASSUME IInv, NEW t \in Threads, Test(t) PROVE IInv'
<1>1. PICK r \in Thread : r = thread[t] /\ Shape(r) /\ Aware(r)
  BY ThreadFacts
<1>2. /\ Busy(t) /\ r.op # None /\ r.pc = "test" /\ UNCHANGED <<system, registry, history>>
  BY <1>1 DEF Test, At, Busy
<1>3. Steady /\ status' = status /\ object' = object
  BY <1>2, NothingElse DEF system, registry
<1>4. r.close = "no" /\ r.n \in DOMAIN object /\ object[r.n].id = r.cid
  BY <1>1, <1>2 DEF Shape, Aware, CloseSteps
<1>5. ASSUME CreatorGone(r.n) PROVE status[object[r.n].creator] = "dead"
  <2>1. object[r.n].creator \in Procs /\ status[object[r.n].creator] # "unborn"
    BY <1>4, ObjectFacts DEF IInv, RegistryOK
  <2> QED
    BY <1>5, <2>1 DEF CreatorGone, Running, IInv, TypeOK
<1>6. CASE GoOn(t)
  BY <1>1, <1>2, <1>3, <1>6, GoOnMoves, ThreadOnly
<1>7. CASE CreatorGone(r.n) /\ Finish(t)
  <2>1. \E q \in Thread : Moves(t, q)
    BY <1>1, <1>2, <1>3, <1>5, <1>7, FinishMoves
  <2> QED
    BY <1>2, <2>1, ThreadOnly
<1>8. CASE CreatorGone(r.n) /\ Continue(t, "members")
  <2> DEFINE q == [r EXCEPT !.pc = "members"]
  <2>1. /\ q \in Thread /\ q.pc = "members" /\ q.close = r.close /\ q.cid = r.cid
        /\ q.op = r.op /\ q.by = r.by /\ q.id = r.id /\ q.list = r.list /\ q.n = r.n
    BY DEF Thread, StepNames, CleanSteps
  <2>2. thread' = [thread EXCEPT ![t] = q]
    BY <1>1, <1>8 DEF Continue, Goto
  <2> HIDE DEF q
  <2>3. Shape(q)
    BY <1>1, <1>2, <1>4, <2>1, NoneAssumption DEF Shape, CleanSteps, MakeSteps, CloseSteps, StepNames
  <2>4. Opening(q) <=> Opening(r)
    BY <1>2, <1>4, <2>1 DEF Opening, CleanSteps, MakeSteps
  <2>5. Aware(r)'
    BY <1>1, <1>3, SteadyAware
  <2>6. Aware(q)'
    BY <1>2, <1>3, <1>4, <1>5, <1>8, <2>1, <2>4, <2>5 DEF Aware, MakeSteps, Opening
  <2>7. Moves(t, q)
    BY <1>1, <1>4, <2>1, <2>2, <2>3, <2>6 DEF Moves
  <2> QED
    BY <1>2, <2>1, <2>7, ThreadOnly
<1> QED
  BY <1>1, <1>6, <1>7, <1>8 DEF Test

LEMMA CountKeeps ==
  ASSUME IInv, NEW t \in Threads, Count(t) PROVE IInv'
<1>1. PICK r \in Thread : r = thread[t] /\ Shape(r) /\ Aware(r)
  BY ThreadFacts
<1>2. /\ Busy(t) /\ r.op # None /\ r.pc = "members" /\ UNCHANGED <<system, registry, history>>
  BY <1>1 DEF Count, At, Busy
<1>3. Steady /\ UNCHANGED <<system, registry>> /\ status[object[r.n].creator] = "dead"
  BY <1>1, <1>2, NothingElse DEF Aware
<1>4. CASE Answer(t)
  BY <1>2, <1>4, IdleMoves, ThreadOnly
<1>5. CASE Finish(t)
  <2>1. \E q \in Thread : Moves(t, q)
    BY <1>1, <1>2, <1>3, <1>5, FinishMoves
  <2> QED
    BY <1>2, <2>1, ThreadOnly
<1>6. CASE GoOn(t)
  BY <1>1, <1>2, <1>3, <1>6, GoOnMoves, ThreadOnly
<1> QED
  BY <1>4, <1>5, <1>6 DEF Count, Raise

LEMMA DropKeeps ==
  ASSUME IInv, NEW t \in Threads, Drop(t) PROVE IInv'
<1>1. PICK r \in Thread : r = thread[t] /\ Shape(r) /\ Aware(r)
  BY ThreadFacts
<1>2. /\ Busy(t) /\ r.op # None /\ r.pc = "drop" /\ thread[t].pc = "drop"
      /\ UNCHANGED <<system, registry, history>>
  BY <1>1 DEF Drop, At, Busy
<1>3. Steady /\ r.close = "no"
  BY <1>1, <1>2, NothingElse DEF Shape, CloseSteps
<1>4. Aware(r)'
  BY <1>1, <1>3, SteadyAware
<1>5. CASE Begin(t)
  <2>1. \E q \in Thread : Moves(t, q)
    BY <1>2, <1>3, <1>5, BeginMoves
  <2> QED
    BY <1>2, <2>1, ThreadOnly
<1>6. ASSUME NEW i \in r.work, thread' = [thread EXCEPT ![t] = [r EXCEPT !.work = r.work \ {i}]]
      PROVE  IInv'
  <2> DEFINE q == [r EXCEPT !.work = r.work \ {i}]
  <2>1. /\ q \in Thread /\ q.pc = r.pc /\ q.work = r.work \ {i} /\ q.close = r.close /\ q.cid = r.cid
        /\ q.op = r.op /\ q.by = r.by /\ q.id = r.id /\ q.list = r.list /\ q.n = r.n
    BY DEF Thread
  <2>2. thread' = [thread EXCEPT ![t] = q]
    BY <1>6
  <2> HIDE DEF q
  <2>3. Shape(q)
    BY <1>1, <1>2, <2>1 DEF Shape
  <2>4. Aware(q)'
    BY <1>4, <2>1 DEF Aware, Opening
  <2>5. Moves(t, q)
    BY <1>1, <1>3, <2>1, <2>2, <2>3, <2>4 DEF Moves
  <2> QED
    BY <1>2, <2>1, <2>5, ThreadOnly
<1>7. ASSUME NEW i \in r.work, sessions[i] = 0,
             thread' = [thread EXCEPT ![t] = [r EXCEPT !.work = r.work \ {i}, !.pc = "delete", !.cid = i]]
      PROVE  IInv'
  <2>1. i \in Ids /\ Seen(i) /\ ~Original(i) /\ i # None
    BY <1>1, <1>2, <1>7, NoneAssumption DEF Aware, Original
  <2>2. PICK j \in Ids : j = i
    BY <2>1
  <2> DEFINE q == [r EXCEPT !.work = r.work \ {i}, !.pc = "delete", !.cid = j]
  <2>3. /\ q \in Thread /\ q.pc = "delete" /\ q.close = r.close /\ q.cid = i /\ q.work \subseteq r.work
        /\ q.op = r.op /\ q.by = r.by /\ q.id = r.id /\ q.list = r.list /\ q.n = r.n
    BY <2>2 DEF Thread, StepNames, CleanSteps
  <2>4. thread' = [thread EXCEPT ![t] = q]
    BY <1>7, <2>2
  <2> HIDE DEF q
  <2>5. Shape(q)
    BY <1>1, <1>2, <1>3, <2>1, <2>3, NoneAssumption DEF Shape, CleanSteps, MakeSteps, CloseSteps, StepNames
  <2>6. Seen(i)' /\ ~Original(i)'
    BY <1>3, <2>1, SteadySees DEF IInv
  <2>7. Opening(q) <=> Opening(r)
    BY <1>2, <1>3, <2>3 DEF Opening, CleanSteps, MakeSteps
  <2>8. Aware(q)'
    <3>1. \A k \in q.work : k \in Ids /\ Seen(k)'
      BY <1>2, <1>4, <2>3 DEF Aware
    <3> QED
      BY <1>2, <1>3, <1>4, <2>1, <2>3, <2>6, <2>7, <3>1 DEF Aware, Opening, MakeSteps
  <2>9. Moves(t, q)
    BY <1>1, <1>3, <2>3, <2>4, <2>5, <2>8 DEF Moves
  <2> QED
    BY <1>2, <2>3, <2>9, ThreadOnly
<1> QED
  BY <1>1, <1>5, <1>6, <1>7 DEF Drop, Goto

LEMMA DeleteKeeps ==
  ASSUME IInv, NEW t \in Threads, Delete(t) PROVE IInv'
<1>1. PICK r \in Thread : r = thread[t] /\ Shape(r) /\ Aware(r)
  BY ThreadFacts
<1>2. /\ Busy(t) /\ r.op # None /\ r.pc = "delete" /\ thread[t].pc = "delete"
      /\ UNCHANGED <<status, at, dirs, frozen, capped, object, sessions, known, bound, limited>>
  BY <1>1 DEF Delete, At, Busy, system, history
<1>3. PICK i \in Ids : i = r.cid /\ Seen(i) /\ ~Original(i)
  BY <1>1, <1>2 DEF Aware
<1>4. stored' = [stored EXCEPT ![i] = "none"]
  BY <1>1, <1>3 DEF Delete
<1>5. /\ stored' \in [Ids -> {"none", "fresh", "old"}]
      /\ \A j \in Ids : stored'[j] # "none" => stored[j] # "none"
      /\ \A j \in Ids : j # i => stored'[j] = stored[j]
  BY <1>4 DEF IInv, TypeOK
<1>6. SystemOK'
  BY <1>2, <1>5, TypeSystem DEF SystemOK
<1>7. KeepsObjects /\ KeepsDead /\ KeepsGroups /\ TellsSeen
  BY <1>2 DEF KeepsObjects, KeepsDead, KeepsGroups, TellsSeen
<1>8. KeepsStats
  BY <1>2, <1>3, <1>5 DEF KeepsStats
<1>9. Steady
  BY <1>7, <1>8 DEF Steady
<1>10. CASE Answer(t)
  BY <1>6, <1>9, <1>10, IdleMoves, StepKeeps
<1>11. CASE thread' = [thread EXCEPT ![t] = [r EXCEPT !.pc = "drop", !.cid = None]]
  <2> DEFINE q == [r EXCEPT !.pc = "drop", !.cid = None]
  <2>1. /\ q \in Thread /\ q.pc = "drop" /\ q.work = r.work /\ q.close = r.close
        /\ q.op = r.op /\ q.by = r.by /\ q.id = r.id /\ q.list = r.list /\ q.n = r.n
    BY DEF Thread, StepNames, CleanSteps
  <2>2. thread' = [thread EXCEPT ![t] = q]
    BY <1>11
  <2> HIDE DEF q
  <2>3. r.close = "no"
    BY <1>1, <1>2 DEF Shape, CloseSteps
  <2>4. Shape(q)
    BY <1>1, <1>2, <2>1, <2>3, NoneAssumption DEF Shape, CleanSteps, MakeSteps, CloseSteps, StepNames
  <2>5. Aware(r)'
    BY <1>1, <1>9, SteadyAware
  <2>6. Opening(q) <=> Opening(r)
    BY <1>2, <2>1, <2>3 DEF Opening, CleanSteps, MakeSteps
  <2>7. Aware(q)'
    BY <1>2, <2>1, <2>3, <2>5, <2>6 DEF Aware, Opening, MakeSteps
  <2>8. Moves(t, q)
    BY <1>1, <2>1, <2>2, <2>3, <2>4, <2>7 DEF Moves
  <2> QED
    BY <1>6, <1>9, <2>1, <2>8, StepKeeps
<1> QED
  BY <1>1, <1>10, <1>11 DEF Delete, Raise, Goto

---------------------------------------------------------------------------
(* open and attach, detach, limits *)

\* A step that raises or goes on outside of close, with no session to make.
LEMMA StepMoves ==
  ASSUME IInv, Steady, NEW t \in Threads, Busy(t),
         thread[t].pc \in MoveSteps \cup {"reopen"},
         NEW s \in MoveSteps \cup {"tell"}, Continue(t, s),
         s = "tell" => thread[t].op \in {"open", "start"},
         s \in {"check", "intoPids", "intoFreezer"} => thread[t].op \in {"start", "attach"}
  PROVE  \E q \in Thread : Moves(t, q)
<1>1. PICK r, q \in Thread :
         /\ r = thread[t] /\ Shape(r) /\ Aware(r) /\ r.op # None
         /\ thread' = [thread EXCEPT ![t] = q] /\ q.pc = s
         /\ q.op = r.op /\ q.by = r.by /\ q.id = r.id /\ q.cid = r.cid /\ q.close = r.close
         /\ q.list = r.list /\ q.n = r.n /\ q.work = r.work /\ q.back = r.back
  BY Continues DEF StepNames
<1>2. s # None /\ s \notin CleanSteps \cup MakeSteps \cup CloseSteps \cup {"test", "members", "drop", "delete", "sweep", "reopen"}
  BY NoneAssumption DEF StepNames, MoveSteps, CleanSteps, MakeSteps, CloseSteps
<1>3. r.close = "no" /\ r.pc # None /\ r.pc \notin CleanSteps \cup MakeSteps
  BY <1>1, NoneAssumption DEF Shape, StepNames, MoveSteps, CleanSteps, MakeSteps, CloseSteps, Thread
<1>4. r.op # Clean
  BY <1>1, <1>3 DEF Shape
<1>5. Shape(q)
  BY <1>1, <1>2, <1>3, <1>4 DEF Shape, CleanSteps
<1>6. Opening(q) <=> Opening(r)
  BY <1>1, <1>2, <1>3 DEF Opening
<1>7. Moves(t, q)
  BY <1>1, <1>2, <1>3, <1>5, <1>6, Advances
<1> QED
  BY <1>1, <1>7

LEMMA MakeMoves ==
  ASSUME IInv, Steady, NEW t \in Threads, Busy(t), thread[t].pc \in MakeSteps,
         NEW s \in {"makeFreezer", "register"}, Continue(t, s),
         s = "makeFreezer" => thread[t].cid \in dirs'["pids"],
         s = "register" => thread[t].pc = "makeFreezer" /\ thread[t].cid \in dirs'["freezer"]
  PROVE  \E q \in Thread : Moves(t, q)
<1>1. PICK r, q \in Thread :
         /\ r = thread[t] /\ Shape(r) /\ Aware(r) /\ r.op # None
         /\ thread' = [thread EXCEPT ![t] = q] /\ q.pc = s
         /\ q.op = r.op /\ q.by = r.by /\ q.id = r.id /\ q.cid = r.cid /\ q.close = r.close
         /\ q.list = r.list /\ q.n = r.n /\ q.work = r.work /\ q.back = r.back
  BY Continues DEF StepNames, MakeSteps
<1>2. s \in MakeSteps /\ s # None /\ s \notin CleanSteps \cup CloseSteps
  BY NoneAssumption DEF StepNames, MakeSteps, CleanSteps, CloseSteps
<1>3. r.pc \in MakeSteps /\ r.pc # None /\ r.pc \notin CleanSteps \cup CloseSteps /\ r.close = "no"
  BY <1>1, NoneAssumption DEF StepNames, MakeSteps, CleanSteps, CloseSteps, Shape
<1>4. Shape(q)
  BY <1>1, <1>2, <1>3 DEF Shape, CleanSteps, MakeSteps, CloseSteps
<1>5. Aware(r)'
  BY <1>1, SteadyAware
<1>6. Opening(q) <=> Opening(r)
  BY <1>1, <1>2, <1>3 DEF Opening
<1>7. Aware(q)'
  BY <1>1, <1>2, <1>3, <1>5, <1>6 DEF Aware, Opening, MakeSteps
<1>8. Moves(t, q)
  BY <1>1, <1>3, <1>4, <1>7 DEF Moves
<1> QED
  BY <1>1, <1>8

LEMMA MakeGroupKeeps ==
  ASSUME IInv, NEW t \in Threads, NEW step, NEW c \in Controllers, NEW next,
         <<step, c, next>> \in {<<"makePids", "pids", "makeFreezer">>,
                                <<"makeFreezer", "freezer", "register">>},
         MakeGroup(t, step, c, next)
  PROVE  IInv'
<1>1. /\ Busy(t) /\ thread[t].pc = step /\ step \in MakeSteps
      /\ UNCHANGED <<status, at, frozen, capped, object, sessions, stored, known, bound, limited>>
  BY DEF MakeGroup, At, MakeSteps, registry, history
<1>2. thread[t].pc \notin {"sweep", "drop"}
  BY <1>1 DEF MakeSteps
<1>3. PICK i \in Ids : i = thread[t].cid
  BY <1>1, <1>2, CidKnown
<1>4. dirs \in [Controllers -> SUBSET Ids] /\ frozen \subseteq dirs["freezer"] /\ capped \subseteq dirs["pids"]
  BY DEF IInv, TypeOK
<1>5. /\ dirs' \in [Controllers -> SUBSET Ids]
      /\ \A d \in Controllers, j \in Ids : j \in dirs[d] => j \in dirs'[d]
  BY <1>3, <1>4 DEF MakeGroup
<1>6. "pids" \in Controllers /\ "freezer" \in Controllers
  BY DEF Controllers
<1>7. frozen' \subseteq dirs'["freezer"] /\ capped' \subseteq dirs'["pids"]
  BY <1>1, <1>4, <1>5, <1>6
<1>8. SystemOK'
  BY <1>1, <1>5, <1>7, TypeSystem DEF SystemOK
<1>9. KeepsObjects /\ KeepsDead /\ TellsSeen
  BY <1>1 DEF KeepsObjects, KeepsDead, TellsSeen
<1>10. KeepsGroups /\ KeepsStats
  BY <1>1, <1>5, <1>6 DEF KeepsGroups, KeepsStats
<1>11. Steady
  BY <1>9, <1>10 DEF Steady
<1>12. CASE Running(thread[t].by)
  <2>1. Continue(t, next) /\ dirs' = [dirs EXCEPT ![c] = @ \cup {i}]
    BY <1>3, <1>12 DEF MakeGroup
  <2>2. i \in dirs'[c]
    BY <1>4, <2>1
  <2>3. \E q \in Thread : Moves(t, q)
    BY <1>1, <1>3, <1>11, <2>1, <2>2, MakeMoves
  <2> QED
    BY <1>8, <1>11, <2>3, StepKeeps
<1>13. CASE ~Running(thread[t].by)
  BY <1>8, <1>11, <1>13, IdleMoves, StepKeeps DEF MakeGroup, Raise
<1> QED
  BY <1>12, <1>13

LEMMA ReopenKeeps ==
  ASSUME IInv, NEW t \in Threads, Reopen(t) PROVE IInv'
<1>1. PICK r \in Thread : r = thread[t] /\ Shape(r) /\ Aware(r)
  BY ThreadFacts
<1>2. /\ Busy(t) /\ r.pc = "reopen" /\ r.op = "attach" /\ UNCHANGED <<system, registry, history>>
  BY <1>1 DEF Reopen, At, Shape
<1>3. Steady
  BY <1>2, NothingElse
<1>4. CASE sessions[r.cid] = 0
  <2>1. Continue(t, "makePids") /\ "makePids" \in StepNames
    BY <1>1, <1>4 DEF Reopen, StepNames, MakeSteps
  <2>2. PICK q \in Thread :
          /\ thread' = [thread EXCEPT ![t] = q] /\ q.pc = "makePids"
          /\ q.op = r.op /\ q.by = r.by /\ q.id = r.id /\ q.cid = r.cid /\ q.close = r.close
          /\ q.list = r.list /\ q.n = r.n
    BY <1>1, <1>2, <2>1, Continues
  <2>3. r.close = "no" /\ r.cid # None
    BY <1>1, <1>2, NoneAssumption DEF Shape, CloseSteps, Thread, StepNames
  <2>4. Shape(q)
    BY <1>1, <1>2, <2>1, <2>2, <2>3, NoneAssumption
    DEF Shape, CleanSteps, MakeSteps, CloseSteps, Commands, Clean
  <2>5. ~Original(q.cid)'
    <3>1. UNCHANGED <<object, sessions>>
      BY <1>2 DEF registry
    <3> QED
      BY <1>4, <2>2, <3>1 DEF Original
  <2>6. Aware(r)'
    BY <1>1, <1>3, SteadyAware
  <2>7. Aware(q)'
    BY <1>2, <2>2, <2>3, <2>5, <2>6 DEF Aware, Opening
  <2>8. Moves(t, q)
    BY <1>1, <2>2, <2>3, <2>4, <2>7 DEF Moves
  <2> QED
    BY <1>2, <2>8, ThreadOnly
<1>5. CASE sessions[r.cid] # 0
  <2>1. Continue(t, "check")
    BY <1>1, <1>5 DEF Reopen
  <2>2. \E q \in Thread : Moves(t, q)
    BY <1>1, <1>2, <1>3, <2>1, StepMoves DEF MoveSteps
  <2> QED
    BY <1>2, <2>2, ThreadOnly
<1> QED
  BY <1>4, <1>5

LEMMA CheckAttachKeeps ==
  ASSUME IInv, NEW t \in Threads, CheckAttach(t) PROVE IInv'
<1>1. PICK r \in Thread : r = thread[t] /\ Shape(r) /\ Aware(r)
  BY ThreadFacts
<1>2. /\ Busy(t) /\ r.pc = "check" /\ r.op \in {"start", "attach"}
      /\ UNCHANGED <<system, registry, history>>
  BY <1>1 DEF CheckAttach, At, Shape
<1>3. Steady
  BY <1>2, NothingElse
<1>4. CASE Continue(t, "intoPids")
  BY <1>1, <1>2, <1>3, <1>4, StepMoves, ThreadOnly DEF MoveSteps
<1>5. CASE Answer(t)
  BY <1>2, <1>5, IdleMoves, ThreadOnly
<1> QED
  BY <1>4, <1>5 DEF CheckAttach, Raise

\* Steps that move a process between groups.
LEMMA MovingKeeps ==
  ASSUME IInv, NEW t \in Threads,
         UNCHANGED <<status, dirs, frozen, capped, registry, limited>>,
         at' \in [Controllers -> [Procs -> Ids \cup {None}]],
         bound' \in [Procs -> 0 .. Len(object)],
         Steady => \E q \in Thread : Moves(t, q)
  PROVE  IInv'
<1>1. UNCHANGED <<status, dirs, frozen, capped, object, sessions, stored, known, limited>>
  BY DEF registry
<1>2. SystemOK'
  BY <1>1, TypeSystem DEF SystemOK
<1>3. KeepsDead
  BY <1>1 DEF KeepsDead
<1>4. Steady
  BY <1>3, QuietSteady
<1> QED
  BY <1>2, <1>4, StepKeeps

LEMMA IntoKeeps ==
  ASSUME IInv, NEW t \in Threads, NEW c \in Controllers,
         Busy(t), thread[t].pc \in {"intoPids", "intoFreezer"}, Into(t, c),
         bound' \in [Procs -> 0 .. Len(object)]
  PROVE  IInv'
<1>1. PICK r \in Thread : r = thread[t] /\ Shape(r) /\ Aware(r)
  BY ThreadFacts
<1>2. r.cid \in Ids /\ r.op \in {"start", "attach"} /\ r.pc \in MoveSteps
  BY <1>1, CidKnown DEF Shape, MoveSteps
<1>3. at' \in [Controllers -> [Procs -> Ids \cup {None}]]
  <2>1. at \in [Controllers -> [Procs -> Ids \cup {None}]]
    BY DEF IInv, TypeOK
  <2>2. at' = at \/ at' = [at EXCEPT ![c] = [at[c] EXCEPT ![r.by] = r.cid]]
    BY <1>1, <2>1 DEF Into
  <2>3. [at[c] EXCEPT ![r.by] = r.cid] \in [Procs -> Ids \cup {None}]
    BY <1>2, <2>1
  <2> QED
    BY <2>1, <2>2, <2>3
<1>4. ASSUME Steady PROVE \E q \in Thread : Moves(t, q)
  <2>1. CASE Continue(t, "intoFreezer")
    BY <1>1, <1>2, <1>4, <2>1, StepMoves DEF MoveSteps
  <2>2. CASE r.op = "start" /\ Continue(t, "tell")
    BY <1>1, <1>2, <1>4, <2>2, StepMoves DEF MoveSteps
  <2>3. CASE Answer(t)
    BY <2>3, IdleMoves
  <2> QED
    BY <1>1, <2>1, <2>2, <2>3 DEF Into, Raise
<1>5. UNCHANGED <<status, dirs, frozen, capped, registry, limited>>
  BY DEF Into
<1> QED
  BY <1>3, <1>4, <1>5, MovingKeeps

LEMMA IntoBothKeep ==
  ASSUME IInv, NEW t \in Threads, IntoPids(t) \/ IntoFreezer(t) PROVE IInv'
<1>1. "pids" \in Controllers /\ "freezer" \in Controllers
  BY DEF Controllers
<1>2. bound \in [Procs -> 0 .. Len(object)] /\ sessions \in [Ids -> 0 .. Len(object)]
  BY DEF IInv, TypeOK
<1>3. CASE IntoPids(t)
  BY <1>1, <1>2, <1>3, IntoKeeps DEF IntoPids, At
<1>4. CASE IntoFreezer(t)
  <2>1. /\ Busy(t) /\ thread[t].pc = "intoFreezer" /\ Into(t, "freezer")
        /\ \/ bound' = bound
           \/ bound' = [bound EXCEPT ![thread[t].by] = sessions[thread[t].cid]]
    BY <1>4 DEF IntoFreezer, At
  <2>2. thread[t].cid \in Ids
    BY <2>1, CidKnown
  <2>3. bound' \in [Procs -> 0 .. Len(object)]
    BY <1>2, <2>1, <2>2
  <2> QED
    BY <1>1, <2>1, <2>3, IntoKeeps
<1> QED
  BY <1>3, <1>4

LEMMA CheckDetachKeeps ==
  ASSUME IInv, NEW t \in Threads, CheckDetach(t) PROVE IInv'
<1>1. /\ Busy(t) /\ thread[t].pc = "leave" /\ UNCHANGED <<system, registry, limited>>
  BY DEF CheckDetach, At
<1>2. UNCHANGED <<status, at, dirs, frozen, capped>>
  BY <1>1 DEF system
<1>3. at' \in [Controllers -> [Procs -> Ids \cup {None}]]
  BY <1>2 DEF IInv, TypeOK
<1>4. bound' \in [Procs -> 0 .. Len(object)]
  <2>1. bound \in [Procs -> 0 .. Len(object)] /\ 0 \in 0 .. Len(object)
    BY DEF IInv, TypeOK
  <2>2. bound' = bound \/ bound' = [bound EXCEPT ![thread[t].by] = 0]
    BY DEF CheckDetach
  <2> QED
    BY <2>1, <2>2
<1>5. ASSUME Steady PROVE \E q \in Thread : Moves(t, q)
  <2>1. CASE Continue(t, "outOfPids")
    BY <1>1, <1>5, <2>1, StepMoves DEF MoveSteps
  <2>2. CASE Answer(t)
    BY <2>2, IdleMoves
  <2> QED
    BY <2>1, <2>2 DEF CheckDetach, Raise
<1> QED
  BY <1>1, <1>2, <1>3, <1>4, <1>5, MovingKeeps

LEMMA OutOfKeeps ==
  ASSUME IInv, NEW t \in Threads, NEW step \in {"outOfPids", "outOfFreezer"}, NEW c \in Controllers,
         OutOf(t, step, c)
  PROVE  IInv'
<1>1. /\ Busy(t) /\ thread[t].pc \in MoveSteps
      /\ UNCHANGED <<status, dirs, frozen, capped, registry, history>>
  BY DEF OutOf, At, MoveSteps
<1>2. UNCHANGED <<bound, limited>>
  BY <1>1 DEF history
<1>3. at' \in [Controllers -> [Procs -> Ids \cup {None}]]
  <2>1. at \in [Controllers -> [Procs -> Ids \cup {None}]]
    BY DEF IInv, TypeOK
  <2>2. at' = at \/ at' = [at EXCEPT ![c] = [at[c] EXCEPT ![thread[t].by] = None]]
    BY <2>1 DEF OutOf
  <2>3. [at[c] EXCEPT ![thread[t].by] = None] \in [Procs -> Ids \cup {None}]
    BY <2>1
  <2> QED
    BY <2>1, <2>2, <2>3
<1>4. bound' \in [Procs -> 0 .. Len(object)]
  <2>1. bound \in [Procs -> 0 .. Len(object)]
    BY DEF IInv, TypeOK
  <2> QED
    BY <1>1, <1>2, <2>1 DEF registry
<1>5. ASSUME Steady PROVE \E q \in Thread : Moves(t, q)
  <2>1. CASE Continue(t, "outOfFreezer")
    BY <1>1, <1>5, <2>1, StepMoves DEF MoveSteps
  <2>2. CASE Answer(t)
    BY <2>2, IdleMoves
  <2> QED
    BY <2>1, <2>2 DEF OutOf, Raise
<1> QED
  BY <1>1, <1>2, <1>3, <1>4, <1>5, MovingKeeps

\* A session whose time changes stays the session it is.
LEMMA Retimed ==
  ASSUME IInv, NEW n \in DOMAIN object, NEW o \in SessionObject, object' = [object EXCEPT ![n] = o],
         o.id = object[n].id, o.creator = object[n].creator,
         object[n].late => o.late, o.time = "over" => o.late,
         UNCHANGED <<status, at, dirs, frozen, sessions, stored, known, bound>>,
         capped' \subseteq dirs["pids"], limited' \subseteq Ids
  PROVE  SystemOK' /\ Steady
<1>1. object \in Seq(SessionObject) /\ Len(object) \in Nat
  BY DEF IInv, TypeOK
<1>2. object' \in Seq(SessionObject) /\ Len(object') = Len(object) /\ DOMAIN object' = DOMAIN object
  BY <1>1
<1>3. SystemOK'
  BY <1>2, TypeSystem DEF SystemOK
<1>4. /\ object'[n] = o
      /\ \A m \in DOMAIN object : m # n => object'[m] = object[m]
  BY <1>1
<1>5. KeepsObjects
  BY <1>2, <1>4 DEF KeepsObjects
<1>6. KeepsDead /\ KeepsGroups /\ KeepsStats /\ TellsSeen
  BY DEF KeepsDead, KeepsGroups, KeepsStats, TellsSeen
<1> QED
  BY <1>3, <1>5, <1>6 DEF Steady

LEMMA LimitKeeps ==
  ASSUME IInv, NEW t \in Threads, NEW time \in {"none", "runs"}, Limit(t, time) PROVE IInv'
<1>1. PICK i \in Ids : i = thread[t].cid
  BY CidKnown DEF Limit, At
<1>2. /\ Answer(t)
      /\ UNCHANGED <<status, at, dirs, frozen, sessions, stored, known, bound>>
  BY DEF Limit
<1>3. SystemOK' /\ Steady
  <2>1. CASE UNCHANGED <<capped, limited, object>>
    <3>1. UNCHANGED <<system, registry, history>>
      BY <1>2, <2>1 DEF system, registry, history
    <3> QED
      BY <3>1, NothingElse
  <2>2. CASE ~ UNCHANGED <<capped, limited, object>>
    <3>1. /\ sessions[i] # 0 /\ i \in dirs["pids"]
          /\ capped' = capped \cup {i} /\ limited' = limited \cup {i}
          /\ object' = [object EXCEPT ![sessions[i]] = [object[sessions[i]] EXCEPT !.time = time]]
      BY <1>1, <2>2 DEF Limit, At
    <3>2. PICK n \in DOMAIN object : n = sessions[i]
      BY <3>1, SessionFacts DEF IInv
    <3>3. object[n] \in SessionObject
      BY ObjectFacts DEF IInv
    <3> DEFINE o == [object[n] EXCEPT !.time = time]
    <3>4. /\ o \in SessionObject /\ o.time # "over"
          /\ o.id = object[n].id /\ o.creator = object[n].creator /\ o.late = object[n].late
      BY <3>3 DEF SessionObject
    <3>5. object' = [object EXCEPT ![n] = o]
      BY <3>1, <3>2
    <3> HIDE DEF o
    <3>6. capped' \subseteq dirs["pids"] /\ limited' \subseteq Ids
      BY <3>1 DEF IInv, TypeOK
    <3>7. PICK x \in SessionObject : x = o
      BY <3>4
    <3> QED
      BY <1>2, <3>4, <3>5, <3>6, <3>7, Retimed
  <2> QED
    BY <2>1, <2>2
<1> QED
  BY <1>2, <1>3, IdleMoves, StepKeeps

LEMMA TellKeeps ==
  ASSUME IInv, NEW t \in Threads, Tell(t) PROVE IInv'
<1>1. PICK r \in Thread : r = thread[t] /\ Shape(r) /\ Aware(r)
  BY ThreadFacts
<1>2. /\ r.op \in {"open", "start"} /\ r.pc = "tell" /\ known' = known \cup {r.id}
      /\ UNCHANGED <<status, at, dirs, frozen, capped, object, sessions, stored, bound, limited>>
  BY <1>1 DEF Tell, At, Shape, system, history
<1>3. r.id \in Ids /\ r.op \notin {None, Clean} /\ r.close = "no"
  BY <1>1, <1>2, NoneAssumption DEF Shape, Thread, Commands, Clean, CloseSteps
<1>4. Seen(r.id)
  BY <1>1, <1>2, <1>3 DEF Aware, Opening, CleanSteps, MakeSteps
<1>5. SystemOK'
  BY <1>2, <1>3, TypeSystem DEF SystemOK
<1>6. KeepsObjects /\ KeepsDead /\ KeepsGroups /\ KeepsStats
  BY <1>2 DEF KeepsObjects, KeepsDead, KeepsGroups, KeepsStats
<1>7. TellsSeen
  BY <1>2, <1>4 DEF TellsSeen
<1>8. Steady
  BY <1>6, <1>7 DEF Steady
<1> QED
  BY <1>5, <1>8, IdleMoves, StepKeeps DEF Tell

---------------------------------------------------------------------------
(* Processes, time and requests *)

LEMMA ForkKeeps ==
  ASSUME IInv, NEW p \in Procs, NEW q \in Procs, Fork(p, q) PROVE IInv'
<1>1. /\ status[p] = "running" /\ status[q] = "unborn"
      /\ status' = [status EXCEPT ![q] = "running"]
      /\ UNCHANGED <<dirs, frozen, capped, object, sessions, stored, known, thread, limited>>
      /\ UNCHANGED <<dirs, registry>>
  BY DEF Fork, Free, registry
<1>2. /\ status \in [Procs -> {"unborn", "running", "killed", "dead"}]
      /\ at \in [Controllers -> [Procs -> Ids \cup {None}]] /\ bound \in [Procs -> 0 .. Len(object)]
  BY DEF IInv, TypeOK
<1>3. at' \in [Controllers -> [Procs -> Ids \cup {None}]]
  <2>1. at' = [c \in Controllers |-> [at[c] EXCEPT ![q] = at[c][p]]]
    BY DEF Fork
  <2>2. \A c \in Controllers : [at[c] EXCEPT ![q] = at[c][p]] \in [Procs -> Ids \cup {None}]
    BY <1>2
  <2> QED
    BY <2>1, <2>2
<1>4. bound' \in [Procs -> 0 .. Len(object)]
  BY <1>2 DEF Fork
<1>5. /\ status' \in [Procs -> {"unborn", "running", "killed", "dead"}]
      /\ KeepsDead
  BY <1>1, <1>2 DEF KeepsDead
<1>6. SystemOK'
  BY <1>1, <1>3, <1>4, <1>5, TypeSystem DEF SystemOK
<1> QED
  BY <1>1, <1>5, <1>6, QuietSteady, OutsideKeeps

LEMMA ExitKeeps ==
  ASSUME IInv, NEW p \in Procs, Exit(p) PROVE IInv'
<1>1. /\ status' = [status EXCEPT ![p] = "dead"]
      /\ UNCHANGED <<dirs, frozen, capped, object, sessions, stored, known, thread, limited>>
      /\ UNCHANGED <<dirs, registry>>
  BY DEF Exit, registry
<1>2. /\ status \in [Procs -> {"unborn", "running", "killed", "dead"}]
      /\ at \in [Controllers -> [Procs -> Ids \cup {None}]] /\ bound \in [Procs -> 0 .. Len(object)]
      /\ 0 \in 0 .. Len(object)
  BY DEF IInv, TypeOK
<1>3. at' \in [Controllers -> [Procs -> Ids \cup {None}]]
  <2>1. at' = [c \in Controllers |-> [at[c] EXCEPT ![p] = None]]
    BY DEF Exit
  <2>2. \A c \in Controllers : [at[c] EXCEPT ![p] = None] \in [Procs -> Ids \cup {None}]
    BY <1>2
  <2> QED
    BY <2>1, <2>2
<1>4. bound' \in [Procs -> 0 .. Len(object)]
  BY <1>2 DEF Exit
<1>5. /\ status' \in [Procs -> {"unborn", "running", "killed", "dead"}]
      /\ KeepsDead
  BY <1>1, <1>2 DEF KeepsDead
<1>6. SystemOK'
  BY <1>1, <1>3, <1>4, <1>5, TypeSystem DEF SystemOK
<1> QED
  BY <1>1, <1>5, <1>6, QuietSteady, OutsideKeeps

LEMMA TimeOverKeeps ==
  ASSUME IInv, NEW n \in DOMAIN object, TimeOver(n) PROVE IInv'
<1>1. /\ UNCHANGED <<status, at, dirs, frozen, capped, sessions, stored, known, thread, bound, limited>>
      /\ object' = [object EXCEPT ![n] = [[object[n] EXCEPT !.time = "over"] EXCEPT !.late = TRUE]]
  BY ObjectFacts DEF TimeOver, system, history, IInv, TypeOK
<1>2. object[n] \in SessionObject
  BY ObjectFacts DEF IInv
<1> DEFINE o == [[object[n] EXCEPT !.time = "over"] EXCEPT !.late = TRUE]
<1>3. /\ o \in SessionObject /\ o.late
      /\ o.id = object[n].id /\ o.creator = object[n].creator
  BY <1>2 DEF SessionObject
<1>4. object' = [object EXCEPT ![n] = o]
  BY <1>1
<1> HIDE DEF o
<1>5. capped' \subseteq dirs["pids"] /\ limited' \subseteq Ids
  BY <1>1 DEF IInv, TypeOK
<1>6. PICK x \in SessionObject : x = o
  BY <1>3
<1>7. SystemOK' /\ Steady
  BY <1>1, <1>3, <1>4, <1>5, <1>6, Retimed
<1> QED
  BY <1>1, <1>7, OutsideKeeps

LEMMA AgeKeeps ==
  ASSUME IInv, NEW i \in Ids, Age(i) PROVE IInv'
<1>1. /\ stored[i] = "fresh" /\ stored' = [stored EXCEPT ![i] = "old"]
      /\ UNCHANGED <<status, at, dirs, frozen, capped, object, sessions, known, thread, bound, limited>>
  BY DEF Age, system, history
<1>2. /\ stored' \in [Ids -> {"none", "fresh", "old"}]
      /\ \A j \in Ids : stored'[j] # "none" <=> stored[j] # "none"
  BY <1>1 DEF IInv, TypeOK
<1>3. SystemOK'
  BY <1>1, <1>2, TypeSystem DEF SystemOK
<1>4. KeepsObjects /\ KeepsDead /\ KeepsGroups /\ TellsSeen
  BY <1>1 DEF KeepsObjects, KeepsDead, KeepsGroups, TellsSeen
<1>5. KeepsStats
  BY <1>1, <1>2 DEF KeepsStats
<1>6. Steady
  BY <1>4, <1>5 DEF Steady
<1> QED
  BY <1>1, <1>3, <1>6, OutsideKeeps

LEMMA Registered ==
  ASSUME IInv
  PROVE  {n \in DOMAIN object : sessions[object[n].id] = n} \in SUBSET (1 .. MaxObject)
<1>1. object \in Seq(SessionObject) /\ Len(object) <= MaxObject
  BY DEF IInv, TypeOK
<1>2. \A n \in DOMAIN object : n \in 1 .. MaxObject
  BY <1>1, BoundAssumption
<1> QED
  BY <1>2

LEMMA TickKeeps ==
  ASSUME IInv, Tick PROVE IInv'
<1>1. UNCHANGED <<system, registry, history>>
  BY DEF Tick
<1>2. SystemOK' /\ Steady /\ object' = object
  BY <1>1, NothingElse DEF registry
<1>3. PICK list \in SUBSET (1 .. MaxObject) :
        list = {n \in DOMAIN object : sessions[object[n].id] = n}
  BY Registered
<1> DEFINE r == [Idle EXCEPT !.op = Clean]
           q == [r EXCEPT !.pc = "sweep", !.list = list]
<1>4. thread' = [thread EXCEPT ![Scheduler] = q]
  BY <1>3 DEF Tick, Goto, CleanUp
<1>6. q \in Thread
  <2>1. Idle \in Thread /\ "sweep" \in StepNames
    BY BoundAssumption DEF Thread, Idle, StepNames, CleanSteps
  <2>2. r \in Thread
    BY <2>1 DEF Thread, Idle
  <2> QED
    BY <2>1, <2>2 DEF Thread
<1>5. /\ q.op = Clean /\ q.by = None /\ q.id = None /\ q.pc = "sweep" /\ q.cid = None /\ q.close = "no"
      /\ q.list = list
  BY DEF Idle
<1> HIDE DEF q
<1>7. Shape(q)
  BY <1>5, NoneAssumption DEF Shape, StepNames, CleanSteps, MakeSteps, CloseSteps
<1>8. Aware(q)'
  BY <1>2, <1>3, <1>5 DEF Aware, MakeSteps
<1>9. Moves(Scheduler, q)
  BY <1>4, <1>5, <1>7, <1>8 DEF Moves
<1> QED
  BY <1>2, <1>6, <1>9, ThreadAssumption, StepKeeps

LEMMA ReceiveKeeps ==
  ASSUME IInv, NEW t \in Threads, NEW op \in Commands, NEW p \in Procs, NEW i \in Ids, Receive(t, op, p, i)
  PROVE  IInv'
<1>1. UNCHANGED <<system, registry, history>>
  BY DEF Receive
<1>2. SystemOK' /\ Steady /\ UNCHANGED <<object, sessions, status>>
  BY <1>1, NothingElse DEF registry, system
<1>3. PICK list \in SUBSET (1 .. MaxObject) :
        list = {n \in DOMAIN object : sessions[object[n].id] = n}
  BY Registered
<1> DEFINE r == [Idle EXCEPT !.op = op, !.by = p, !.id = i]
           q == [r EXCEPT !.pc = "sweep", !.list = list]
<1>4. thread' = [thread EXCEPT ![t] = q]
  BY <1>3 DEF Receive, Goto, CleanUp
<1>6. q \in Thread
  <2>1. Idle \in Thread /\ "sweep" \in StepNames
    BY BoundAssumption DEF Thread, Idle, StepNames, CleanSteps
  <2>2. r \in Thread
    BY <2>1 DEF Thread, Idle
  <2> QED
    BY <2>1, <2>2 DEF Thread
<1>5. /\ q.op = op /\ q.by = p /\ q.id = i /\ q.pc = "sweep" /\ q.cid = None /\ q.close = "no"
      /\ q.list = list
  BY DEF Idle
<1> HIDE DEF q
<1>7. op \in Requests /\ op # None /\ op # Clean /\ p # None /\ i # None
  BY NoneAssumption DEF Receive, Commands, Clean
<1>8. Shape(q)
  BY <1>5, <1>7, NoneAssumption DEF Shape, StepNames, CleanSteps, MakeSteps, CloseSteps
<1>9. Opening(q) <=> op \in {"open", "start"}
  BY <1>5 DEF Opening, CleanSteps
<1>10. Opening(q) <=> ~Seen(i)
  <2>1. CASE op \in {"open", "start"}
    BY <1>9, <2>1 DEF Receive, Fresh, Seen
  <2>2. CASE op \notin {"open", "start"}
    BY <1>9, <2>2 DEF Receive, IInv, RegistryOK
  <2> QED
    BY <2>1, <2>2
<1>11. Seen(i)' <=> Seen(i)
  BY <1>2 DEF Seen
<1>12. status[p] = "running" /\ \A u \in Threads : thread[u].by # p
  BY DEF Receive, Free
<1>13. Aware(q)'
  BY <1>2, <1>3, <1>5, <1>10, <1>11, <1>12 DEF Aware, MakeSteps, Opening
<1>14. thread \in [Threads -> Thread]
  BY DEF IInv, TypeOK
<1>15. thread'[t] = q /\ \A u \in Threads \ {t} : thread'[u] = thread[u]
  BY <1>4, <1>14
<1>16. \A u \in Threads : Shape(thread[u])' /\ Aware(thread[u])'
  <2>1. \A u \in Threads \ {t} : Shape(thread[u])' /\ Aware(thread[u])'
    BY <1>2, <1>15, Others
  <2>2. Shape(thread[t])' /\ Aware(thread[t])'
    BY <1>8, <1>13, <1>15 DEF Aware, Shape, Seen, Original, First
  <2> QED
    BY <2>1, <2>2
<1>17. \A u \in Threads : thread[u].id = i => Seen(i)
  <2>1. CASE op \in {"open", "start"}
    BY <2>1 DEF Receive, Fresh
  <2>2. CASE op \notin {"open", "start"}
    BY <1>9, <1>10, <2>2
  <2> QED
    BY <2>1, <2>2
<1>18. ASSUME NEW u \in Threads, NEW v \in Threads, u # v
       PROVE  /\ thread'[u].by # None => thread'[v].by # thread'[u].by
              /\ thread'[u].id # None /\ thread'[v].id = thread'[u].id => Seen(thread[u].id)'
  <2>1. \A w \in Threads \ {t} : thread[w].id = i => Seen(i)'
    BY <1>11, <1>17
  <2>2. CASE u = t
    BY <1>5, <1>12, <1>15, <1>18, <2>1, <2>2 DEF Seen
  <2>3. CASE v = t
    BY <1>5, <1>12, <1>15, <1>18, <2>1, <2>3 DEF Seen
  <2>4. CASE u # t /\ v # t
    BY <1>2, <1>15, <1>18, <2>4 DEF IInv, ThreadsOK, Seen
  <2> QED
    BY <2>2, <2>3, <2>4
<1>19. ThreadsOK'
  BY <1>16, <1>18 DEF ThreadsOK
<1>20. ASSUME NEW u \in Threads, (Closing(u) /\ thread[u].pc # "stats" /\ Original(thread[u].cid))'
       PROVE  stored'[thread'[u].cid] # "none"
  <2>1. u # t
    BY <1>5, <1>15, <1>20 DEF Closing
  <2> QED
    BY <1>2, <1>15, <1>20, <2>1, StatsStay
<1>21. StatsOK'
  BY <1>2, <1>20, SteadyOriginals DEF StatsOK
<1>22. RegistryOK'
  BY <1>2, SteadyRegistry
<1>23. TypeOK'
  BY <1>2, <1>4, <1>6, <1>14 DEF SystemOK, TypeOK
<1> QED
  BY <1>19, <1>21, <1>22, <1>23 DEF IInv

\* The step that makes a session is not steady: it brings an id into the registry.
LEMMA RegisterSees ==
  ASSUME IInv, NEW t \in Threads, Register(t), NEW i \in Ids, i = thread[t].cid
  PROVE  /\ ~Original(i)
         /\ i = thread[t].id
         /\ \A j \in Ids : Seen(j)' <=> Seen(j) \/ j = i
         /\ \A j \in Ids : j # i => (Original(j)' <=> Original(j)) /\ sessions'[j] = sessions[j]
         /\ Original(i)' <=> ~Seen(i)
         /\ sessions'[i] = Len(object')
         /\ DOMAIN object' = 1 .. Len(object') /\ Len(object') = Len(object) + 1
         /\ DOMAIN object \subseteq DOMAIN object'
         /\ \A n \in DOMAIN object : object'[n] = object[n]
<1>1. PICK r \in Thread : r = thread[t] /\ Shape(r) /\ Aware(r)
  BY ThreadFacts
<1>2. /\ r.op # None /\ r.pc = "register" /\ r.pc \in MakeSteps /\ r.cid = i
      /\ object' = Append(object, [id |-> i, creator |-> r.by, time |-> "none", late |-> FALSE])
      /\ sessions' = [sessions EXCEPT ![i] = Len(object')]
  BY <1>1 DEF Register, At, Busy, MakeSteps
<1>3. r.close = "no" /\ r.pc \notin CleanSteps
  BY <1>1, <1>2 DEF Shape, CloseSteps, CleanSteps, Thread
<1>4. i = thread[t].id
  BY <1>1, <1>2, <1>3 DEF Shape
<1>5. ~Original(i)
  BY <1>1, <1>2 DEF Aware
<1>6. object \in Seq(SessionObject) /\ Len(object) \in Nat /\ sessions \in [Ids -> 0 .. Len(object)]
  BY DEF IInv, TypeOK
<1>7. /\ Len(object') = Len(object) + 1 /\ DOMAIN object' = 1 .. (Len(object) + 1)
      /\ \A n \in DOMAIN object : n \in DOMAIN object' /\ object'[n] = object[n]
      /\ object'[Len(object) + 1] = [id |-> i, creator |-> r.by, time |-> "none", late |-> FALSE]
  BY <1>2, <1>6
<1>8. object'[Len(object')].id = i /\ Len(object') \in DOMAIN object'
  BY <1>6, <1>7
<1>9. sessions'[i] = Len(object') /\ \A j \in Ids \ {i} : sessions'[j] = sessions[j]
  BY <1>2, <1>6
<1>10. \A j \in Ids : Seen(j)' <=> Seen(j) \/ j = i
  <2>1. \A n \in DOMAIN object' : n \in DOMAIN object \/ n = Len(object')
    BY <1>6, <1>7
  <2> QED
    BY <1>7, <1>8, <2>1 DEF Seen
<1>11. ASSUME NEW j \in Ids, j # i PROVE Original(j)' <=> Original(j)
  <2>1. sessions'[j] = sessions[j] /\ sessions[j] \in 0 .. Len(object)
    BY <1>6, <1>9, <1>11
  <2>2. CASE sessions[j] = 0
    BY <2>1, <2>2 DEF Original
  <2>3. CASE sessions[j] # 0
    <3>1. sessions[j] \in DOMAIN object /\ \A m \in 1 .. (sessions[j] - 1) : m \in DOMAIN object
      BY <1>6, <2>1, <2>3
    <3>2. First(sessions[j])' <=> First(sessions[j])
      BY <1>7, <2>1, <3>1 DEF First
    <3> QED
      BY <2>1, <2>3, <3>2 DEF Original, First
  <2> QED
    BY <2>2, <2>3
<1>12. Original(i)' <=> ~Seen(i)
  <2>1. \A m \in 1 .. (Len(object') - 1) : m \in DOMAIN object /\ object'[m] = object[m]
    BY <1>6, <1>7
  <2>2. \A m \in DOMAIN object : m \in 1 .. (Len(object') - 1)
    BY <1>6, <1>7
  <2>3. Len(object') # 0
    BY <1>6, <1>7
  <2> QED
    BY <1>8, <1>9, <2>1, <2>2, <2>3 DEF Original, First, Seen
<1> QED
  BY <1>4, <1>5, <1>6, <1>7, <1>9, <1>10, <1>11, <1>12

LEMMA RegisterKeeps ==
  ASSUME IInv, NEW t \in Threads, Register(t) PROVE IInv'
<1>1. PICK r \in Thread : r = thread[t] /\ Shape(r) /\ Aware(r)
  BY ThreadFacts
<1>2. /\ Busy(t) /\ r.op # None /\ r.pc = "register" /\ thread[t].pc = "register"
      /\ UNCHANGED <<status, at, dirs, frozen, capped, stored, known, bound, limited>>
  BY <1>1 DEF Register, At, Busy, system, history
<1>3. PICK i \in Ids : i = thread[t].cid
  BY <1>2, CidKnown
<1>4. /\ ~Original(i) /\ i = thread[t].id
      /\ \A j \in Ids : Seen(j)' <=> Seen(j) \/ j = i
      /\ \A j \in Ids : j # i => (Original(j)' <=> Original(j)) /\ sessions'[j] = sessions[j]
      /\ Original(i)' <=> ~Seen(i)
      /\ sessions'[i] = Len(object')
      /\ DOMAIN object' = 1 .. Len(object') /\ Len(object') = Len(object) + 1
      /\ DOMAIN object \subseteq DOMAIN object'
      /\ \A n \in DOMAIN object : object'[n] = object[n]
  BY <1>3, RegisterSees
<1>5. /\ object' = Append(object, [id |-> i, creator |-> r.by, time |-> "none", late |-> FALSE])
      /\ sessions' = [sessions EXCEPT ![i] = Len(object')]
      /\ Len(object) < MaxObject
  BY <1>1, <1>3 DEF Register
<1>6. r.op \in {"open", "start", "attach"} /\ r.op \notin {None, Clean} /\ r.close = "no" /\ r.by \in Procs
  BY <1>1, <1>2, NoneAssumption DEF Shape, MakeSteps, CloseSteps, Thread, Commands, Clean
<1>7. object \in Seq(SessionObject) /\ Len(object) \in Nat /\ sessions \in [Ids -> 0 .. Len(object)]
      /\ bound \in [Procs -> 0 .. Len(object)] /\ thread \in [Threads -> Thread]
  BY DEF IInv, TypeOK
<1>8. SystemOK'
  <2>1. [id |-> i, creator |-> r.by, time |-> "none", late |-> FALSE] \in SessionObject
    BY <1>6 DEF SessionObject
  <2>2. object' \in Seq(SessionObject) /\ Len(object') = Len(object) + 1 /\ Len(object') <= MaxObject
    BY <1>4, <1>5, <1>7, <2>1, BoundAssumption
  <2>3. \A n \in 0 .. Len(object) : n \in 0 .. Len(object')
    BY <1>7, <2>2
  <2>4. Len(object') \in 0 .. Len(object')
    BY <1>7, <2>2
  <2>5. sessions' \in [Ids -> 0 .. Len(object')]
    BY <1>5, <1>7, <2>3, <2>4
  <2>6. bound' \in [Procs -> 0 .. Len(object')]
    BY <1>2, <1>7, <2>3
  <2> QED
    BY <1>2, <2>2, <2>5, <2>6, TypeSystem DEF SystemOK
<1>9. object'[Len(object')] = [id |-> i, creator |-> r.by, time |-> "none", late |-> FALSE]
  BY <1>4, <1>5, <1>7
<1>10. \A n \in DOMAIN object' : n \in DOMAIN object \/ n = Len(object')
  BY <1>4, <1>7
<1>11. RegistryOK'
  <2>1. ASSUME NEW j \in Ids, sessions'[j] # 0
        PROVE  /\ object'[sessions'[j]].id = j
               /\ \A m \in DOMAIN object' : m > sessions'[j] => object'[m].id # j
    <3>1. CASE j = i
      BY <1>4, <1>7, <1>9, <3>1
    <3>2. CASE j # i
      <4>1. sessions'[j] = sessions[j] /\ sessions[j] \in DOMAIN object /\ object[sessions[j]].id = j
        BY <1>4, <2>1, <3>2, SessionFacts DEF IInv
      <4>2. \A m \in DOMAIN object : m > sessions[j] => object[m].id # j
        BY <2>1, <4>1 DEF IInv, RegistryOK
      <4> QED
        BY <1>4, <1>9, <1>10, <3>2, <4>1, <4>2
    <3> QED
      BY <3>1, <3>2
  <2>2. known \subseteq Ids /\ (\A j \in known : Seen(j)) /\ \A j \in Ids : stored[j] # "none" => Seen(j)
    BY DEF IInv, TypeOK, RegistryOK
  <2>3. (\A j \in known' : Seen(j)') /\ \A j \in Ids : stored'[j] # "none" => Seen(j)'
    BY <1>2, <1>4, <2>2
  <2>4. status[r.by] # "unborn"
    BY <1>1, <1>6, NoneAssumption DEF Aware
  <2>5. \A n \in DOMAIN object' : /\ status'[object'[n].creator] # "unborn"
                                  /\ object'[n].time = "over" => object'[n].late
    BY <1>2, <1>4, <1>9, <1>10, <2>4 DEF IInv, RegistryOK
  <2> QED
    BY <2>1, <2>3, <2>5 DEF RegistryOK
<1>12. PICK s \in {"tell", "check"} : /\ Continue(t, s)
                                      /\ s = "tell" => r.op = "open"
                                      /\ s = "check" => r.op \in {"start", "attach"}
  BY <1>1, <1>6 DEF Register
<1>13. s \in StepNames /\ s # None /\ s \notin CleanSteps \cup MakeSteps \cup CloseSteps
  BY NoneAssumption DEF StepNames, MoveSteps, CleanSteps, MakeSteps, CloseSteps
<1>14. PICK q \in Thread :
         /\ thread' = [thread EXCEPT ![t] = q] /\ q.pc = s
         /\ q.op = r.op /\ q.by = r.by /\ q.id = r.id /\ q.cid = r.cid /\ q.close = r.close
         /\ q.list = r.list /\ q.n = r.n
  BY <1>1, <1>2, <1>12, <1>13, Continues
<1>15. thread'[t] = q /\ \A u \in Threads \ {t} : thread'[u] = thread[u]
  BY <1>7, <1>14
<1>16. Shape(q)
  BY <1>1, <1>2, <1>6, <1>12, <1>13, <1>14 DEF Shape, CleanSteps, MakeSteps
<1>17. Aware(q)'
  <2>1. ~Opening(q)
    BY <1>6, <1>13, <1>14 DEF Opening
  <2>2. Seen(q.id)'
    BY <1>1, <1>4, <1>14
  <2>3. q.list \subseteq DOMAIN object' /\ (q.by # None => status'[q.by] # "unborn")
    BY <1>1, <1>2, <1>4, <1>14 DEF Aware
  <2>4. q.pc \notin MakeSteps \cup {"test", "members", "drop", "delete"} /\ q.close = "no"
    BY <1>6, <1>13, <1>14 DEF CleanSteps
  <2> QED
    BY <2>1, <2>2, <2>3, <2>4 DEF Aware, Opening, MakeSteps
<1>18. ASSUME NEW u \in Threads \ {t} PROVE Shape(thread[u])' /\ Aware(thread[u])'
  <2>1. PICK x \in Thread : x = thread[u] /\ Shape(x) /\ Aware(x)
    BY ThreadFacts
  <2>2. x.id = i => Seen(i)
    <3>1. i # None
      BY NoneAssumption
    <3> QED
      BY <1>4, <1>18, <2>1, <3>1 DEF IInv, ThreadsOK, Seen
  <2>3. /\ x.op \notin {None, Clean} => x.id \in Ids
        /\ x.pc \in MakeSteps => x.cid \in Ids /\ x.cid = x.id
    <3>1. x.op \notin {None, Clean} => x.id \in Ids
      BY <2>1 DEF Shape, Thread
    <3>2. ASSUME x.pc \in MakeSteps PROVE x.cid \in Ids /\ x.cid = x.id
      <4>1. x.pc \notin CleanSteps \cup CloseSteps \cup {None, "sweep", "drop"}
        BY <3>2, NoneAssumption DEF MakeSteps, CleanSteps, CloseSteps, StepNames
      <4> QED
        BY <2>1, <4>1 DEF Shape, Thread
    <3> QED
      BY <3>1, <3>2
  <2>4. x.op \notin {None, Clean} => (Opening(x) <=> ~Seen(x.id)')
    BY <1>4, <2>1, <2>2, <2>3 DEF Aware
  <2>5. /\ x.pc \in MakeSteps => ~Original(x.cid)'
        /\ x.pc \in MakeSteps /\ ~Seen(x.cid)' => ~Seen(x.cid)
    BY <1>4, <2>1, <2>2, <2>3 DEF Aware
  <2>6. /\ x.pc \in {"makeFreezer", "register"} /\ ~Seen(x.cid)' => x.cid \in dirs'["pids"]
        /\ x.pc = "register" /\ ~Seen(x.cid)' => x.cid \in dirs'["freezer"]
    BY <1>2, <2>1, <2>5 DEF Aware, MakeSteps
  <2>7. /\ x.list \subseteq DOMAIN object'
        /\ x.pc \in {"test", "members"} \/ x.close \in {"over", "finished"} =>
             x.n \in DOMAIN object' /\ object'[x.n].id = x.cid
        /\ x.close = "over" => object'[x.n].late
        /\ x.pc = "members" \/ x.close = "finished" => status'[object'[x.n].creator] = "dead"
        /\ x.by # None => status'[x.by] # "unborn"
    BY <1>2, <1>4, <2>1 DEF Aware
  <2>8. /\ x.pc \in {"drop", "delete"} => \A j \in x.work : j \in Ids /\ Seen(j)'
        /\ x.pc = "delete" => x.cid \in Ids /\ Seen(x.cid)' /\ ~Original(x.cid)'
    BY <1>4, <2>1 DEF Aware
  <2>9. Aware(x)'
    BY <2>4, <2>5, <2>6, <2>7, <2>8 DEF Aware, Opening, MakeSteps
  <2>10. thread'[u] = x
    BY <1>15, <1>18, <2>1
  <2> QED
    BY <2>1, <2>9, <2>10 DEF Aware, Shape, Seen, Original, First
<1>19. \A u \in Threads : Shape(thread[u])' /\ Aware(thread[u])'
  <2>1. Shape(thread[t])' /\ Aware(thread[t])'
    BY <1>15, <1>16, <1>17 DEF Aware, Shape, Seen, Original, First
  <2> QED
    BY <1>18, <2>1
<1>20. ASSUME NEW u \in Threads, NEW v \in Threads, u # v
       PROVE  /\ thread'[u].by # None => thread'[v].by # thread'[u].by
              /\ thread'[u].id # None /\ thread'[v].id = thread'[u].id => Seen(thread[u].id)'
  <2>1. \A w \in Threads : thread'[w].by = thread[w].by /\ thread'[w].id = thread[w].id
    BY <1>1, <1>14, <1>15
  <2>2. thread[u].id # None => thread[u].id \in Ids
    BY <1>7 DEF Thread
  <2>3. thread[u].id # None /\ thread[v].id = thread[u].id => Seen(thread[u].id)
    BY <1>20 DEF IInv, ThreadsOK
  <2>4. thread[u].by # None => thread[v].by # thread[u].by
    BY <1>20 DEF IInv, ThreadsOK
  <2>5. ASSUME thread'[u].id # None, thread'[v].id = thread'[u].id PROVE Seen(thread[u].id)'
    <3>1. PICK j \in Ids : j = thread[u].id /\ thread'[u].id = j
      BY <2>1, <2>2, <2>5
    <3>2. Seen(j)'
      BY <1>4, <2>1, <2>3, <2>5, <3>1 DEF Seen
    <3> QED
      BY <3>1, <3>2 DEF Seen
  <2> QED
    BY <2>1, <2>4, <2>5
<1>21. ThreadsOK'
  BY <1>19, <1>20 DEF ThreadsOK
<1>22. StatsOK'
  <2>1. ASSUME NEW j \in Ids, Original(j)' PROVE j \in dirs'["pids"] \/ stored'[j] # "none"
    <3>1. CASE j = i
      BY <1>1, <1>2, <1>3, <1>4, <2>1, <3>1 DEF Aware
    <3>2. CASE j # i
      BY <1>2, <1>4, <2>1, <3>2 DEF IInv, StatsOK
    <3> QED
      BY <3>1, <3>2
  <2>2. ASSUME NEW u \in Threads, (Closing(u) /\ thread[u].pc # "stats" /\ Original(thread[u].cid))'
        PROVE  stored'[thread'[u].cid] # "none"
    <3>1. u # t
      BY <1>6, <1>14, <1>15, <2>2 DEF Closing
    <3>2. PICK x \in Thread : x = thread[u] /\ Shape(x) /\ Aware(x)
      BY ThreadFacts
    <3>3. thread'[u] = x /\ x.close # "no" /\ x.pc # "stats" /\ x.op # None
      BY <1>15, <2>2, <3>1, <3>2 DEF Closing, Shape, Idle
    <3>4. Busy(u) /\ thread[u].pc \notin {"sweep", "drop"} /\ Closing(u)
      BY <3>2, <3>3 DEF Busy, Closing, Shape, CloseSteps
    <3>5. x.cid \in Ids /\ Seen(x.cid)
      BY <3>2, <3>4, CidKnown DEF Seen
    <3>6. Original(x.cid)'
      BY <2>2, <3>3 DEF Original, First
    <3>7. Original(x.cid)
      BY <1>4, <3>5, <3>6
    <3>8. stored[x.cid] # "none"
      BY <3>2, <3>3, <3>4, <3>7, CidKnown DEF Original, First
    <3> QED
      BY <1>2, <3>3, <3>8
  <2> QED
    BY <2>1, <2>2 DEF StatsOK
<1>23. TypeOK'
  BY <1>7, <1>8, <1>14 DEF SystemOK, TypeOK
<1> QED
  BY <1>11, <1>21, <1>22, <1>23 DEF IInv

---------------------------------------------------------------------------
(* The invariant *)

LEMMA InitIInv == Init => IInv
<1> SUFFICES ASSUME Init PROVE IInv
  OBVIOUS
<1>1. Idle \in Thread /\ Shape(Idle)
  BY BoundAssumption, NoneAssumption DEF Thread, Idle, Shape, MakeSteps, MoveSteps, CloseSteps, StepNames
<1>2. object = <<>> /\ object \in Seq(SessionObject) /\ Len(object) = 0 /\ DOMAIN object = {}
  BY DEF Init
<1>3. TypeOK
  <2>1. SystemOK
    BY <1>2, BoundAssumption, ThreadAssumption DEF Init, SystemOK, Controllers
  <2> QED
    BY <1>1, <2>1 DEF Init, SystemOK, TypeOK
<1>4. RegistryOK
  BY <1>2 DEF Init, RegistryOK
<1>5. ThreadsOK
  <2>1. Aware(Idle)
    BY NoneAssumption DEF Aware, Idle, MakeSteps, CleanSteps, StepNames, Opening
  <2>2. \A t \in Threads : thread[t] = Idle
    BY DEF Init
  <2>3. Idle.by = None /\ Idle.id = None
    BY DEF Idle
  <2> QED
    BY <1>1, <2>1, <2>2, <2>3 DEF ThreadsOK
<1>6. StatsOK
  BY DEF Init, StatsOK, Original, Closing, Idle
<1> QED
  BY <1>3, <1>4, <1>5, <1>6 DEF IInv

LEMMA StepIInv ==
  ASSUME IInv, NEW t \in Threads, Step(t) PROVE IInv'
<1>1. "pids" \in Controllers /\ "freezer" \in Controllers
  BY DEF Controllers
<1>2. CASE Sweep(t) \/ Test(t) \/ Count(t) \/ Drop(t) \/ Delete(t)
  BY <1>2, SweepKeeps, TestKeeps, CountKeeps, DropKeeps, DeleteKeeps
<1>3. CASE MakeGroup(t, "makePids", "pids", "makeFreezer") \/ MakeGroup(t, "makeFreezer", "freezer", "register")
  BY <1>1, <1>3, MakeGroupKeeps
<1>4. CASE Register(t) \/ Reopen(t) \/ CheckAttach(t) \/ IntoPids(t) \/ IntoFreezer(t) \/ CheckDetach(t)
  BY <1>4, RegisterKeeps, ReopenKeeps, CheckAttachKeeps, IntoBothKeep, CheckDetachKeeps
<1>5. CASE OutOf(t, "outOfPids", "pids") \/ OutOf(t, "outOfFreezer", "freezer")
  BY <1>1, <1>5, OutOfKeeps
<1>6. CASE \E time \in {"none", "runs"} : Limit(t, time)
  BY <1>6, LimitKeeps
<1>7. CASE Stats(t) \/ Find(t) \/ NoFreezer(t) \/ Freeze(t) \/ Wait(t) \/ List(t) \/ Kill(t)
  BY <1>7, StatsKeeps, FindKeeps, NoFreezerKeeps, FreezeKeeps, WaitKeeps, ListKeeps, KillKeeps
<1>8. CASE Restore(t) \/ WaitAgain(t) \/ Thaw(t) \/ Forget(t) \/ Tell(t)
  BY <1>8, RestoreKeeps, WaitAgainKeeps, ThawKeeps, ForgetKeeps, TellKeeps
<1>9. CASE \/ CloseGroup(t, "closePids", "pids", "closeFreezer")
           \/ CloseGroup(t, "closeFreezer", "freezer", "forget")
  BY <1>1, <1>9, CloseGroupKeeps
<1> QED
  BY <1>2, <1>3, <1>4, <1>5, <1>6, <1>7, <1>8, <1>9 DEF Step

LEMMA NextIInv == IInv /\ [Next]_vars => IInv'
<1> SUFFICES ASSUME IInv, [Next]_vars PROVE IInv'
  OBVIOUS
<1>1. CASE UNCHANGED vars
  <2>1. UNCHANGED <<system, registry, history>> /\ UNCHANGED thread
    BY <1>1 DEF vars
  <2> QED
    BY <2>1, NothingElse, OutsideKeeps
<1>2. CASE \E p, q \in Procs : Fork(p, q)
  BY <1>2, ForkKeeps
<1>3. CASE \E p \in Procs : Exit(p)
  BY <1>3, ExitKeeps
<1>4. CASE \E n \in DOMAIN object : TimeOver(n)
  BY <1>4, TimeOverKeeps
<1>5. CASE \E i \in Ids : Age(i)
  BY <1>5, AgeKeeps
<1>6. CASE \E t \in Threads, op \in Commands, p \in Procs, i \in Ids : Receive(t, op, p, i)
  BY <1>6, ReceiveKeeps
<1>7. CASE Tick
  BY <1>7, TickKeeps
<1>8. CASE \E t \in Threads : Step(t)
  BY <1>8, StepIInv
<1> QED
  BY <1>1, <1>2, <1>3, <1>4, <1>5, <1>6, <1>7, <1>8 DEF Next

LEMMA Invariance == Spec => []IInv
BY InitIInv, NextIInv, PTL DEF Spec

\* Types; only a group that exists is frozen or has limits.
THEOREM TypeCorrect == Spec => []TypeOK
<1>1. IInv => TypeOK
  BY DEF IInv
<1> QED
  BY <1>1, Invariance, PTL

---------------------------------------------------------------------------
(* How sessions leave the registry *)

\* Only a close takes the first session of an id out of the registry.
LEMMA GoesByForget ==
  ASSUME IInv, [Next]_vars, NEW n \in DOMAIN object, First(n), Gone(n)
  PROVE  \E t \in Threads : Forget(t) /\ thread[t].cid = object[n].id
<1>1. PICK i \in Ids : i = object[n].id
  BY ObjectFacts DEF IInv
<1>2. sessions[i] = n /\ sessions'[i] # sessions[i] /\ n # 0
  BY <1>1, ObjectFacts DEF Gone, IInv
<1>3. Original(i)
  BY <1>2 DEF Original
<1>4. sessions' # sessions
  BY <1>2
<1>5. PICK t \in Threads : Step(t)
  BY <1>4 DEF Next, vars, registry, Fork, Exit, TimeOver, Age, Receive, Tick
<1>6. Register(t) \/ Forget(t)
  <2>1. CASE Sweep(t) \/ Test(t) \/ Count(t) \/ Drop(t) \/ Delete(t) \/ Reopen(t) \/ CheckAttach(t) \/ CheckDetach(t) \/ Tell(t)
    BY <1>4, <2>1 DEF Sweep, Test, Count, Drop, Delete, Reopen, CheckAttach, CheckDetach, Tell, registry
  <2>2. CASE \/ MakeGroup(t, "makePids", "pids", "makeFreezer")
             \/ MakeGroup(t, "makeFreezer", "freezer", "register")
             \/ OutOf(t, "outOfPids", "pids") \/ OutOf(t, "outOfFreezer", "freezer")
             \/ CloseGroup(t, "closePids", "pids", "closeFreezer")
             \/ CloseGroup(t, "closeFreezer", "freezer", "forget")
             \/ IntoPids(t) \/ IntoFreezer(t)
    BY <1>4, <2>2 DEF MakeGroup, OutOf, CloseGroup, IntoPids, IntoFreezer, Into, registry
  <2>3. CASE \E time \in {"none", "runs"} : Limit(t, time)
    BY <1>4, <2>3 DEF Limit
  <2>4. CASE Stats(t) \/ Find(t) \/ NoFreezer(t) \/ Freeze(t) \/ Wait(t) \/ List(t) \/ Kill(t)
    BY <1>4, <2>4 DEF Stats, Find, NoFreezer, Freeze, Wait, List, Kill, registry
  <2>5. CASE Restore(t) \/ WaitAgain(t) \/ Thaw(t)
    BY <1>4, <2>5 DEF Restore, WaitAgain, Thaw, registry
  <2> QED
    BY <1>5, <2>1, <2>2, <2>3, <2>4, <2>5 DEF Step
<1>7. CASE Register(t)
  <2>1. PICK j \in Ids : j = thread[t].cid
    BY <1>7, CidKnown DEF Register, At
  <2>2. j # i
    BY <1>3, <1>7, <2>1, RegisterSees
  <2>3. sessions'[i] = sessions[i]
    BY <1>7, <2>1, <2>2, RegisterSees
  <2> QED
    BY <1>2, <2>3
<1>8. CASE Forget(t)
  <2>1. sessions' = [sessions EXCEPT ![thread[t].cid] = 0]
    BY <1>8 DEF Forget
  <2>2. thread[t].cid = i
    BY <1>2, <2>1 DEF IInv, TypeOK
  <2> QED
    BY <1>1, <1>8, <2>2
<1> QED
  BY <1>6, <1>7, <1>8

\* The first session of an id, while registered, is the only one.
LEMMA OnlyOne ==
  ASSUME IInv, NEW n \in DOMAIN object, First(n), sessions[object[n].id] = n,
         NEW m \in DOMAIN object, object[m].id = object[n].id
  PROVE  m = n
<1>1. n \in Nat /\ m \in Nat /\ m # 0 /\ n # 0 /\ object[n].id \in Ids
  BY ObjectFacts DEF IInv
<1>2. ~(m > n)
  BY <1>1 DEF IInv, RegistryOK
<1>3. ~(m < n)
  BY <1>1 DEF First
<1> QED
  BY <1>1, <1>2, <1>3

\* A session leaves the registry only when its time was over, when its creator is
\* gone, or by a close request.  That the clean-up found one of these is known of
\* the session it tested; it closes by the id, which is the same session's because
\* nobody makes a second one before the first is closed.
THEOREM SessionsAreKept == Spec => FirstSessionKept
<1>1. ASSUME IInv, [Next]_vars, NEW n \in DOMAIN object, First(n), Gone(n)
      PROVE  \/ object[n].late
             \/ ~Running(object[n].creator)
             \/ \E t \in Threads : thread[t].op = "close" /\ thread[t].id = object[n].id
  <2>1. PICK t \in Threads : Forget(t) /\ thread[t].cid = object[n].id
    BY <1>1, GoesByForget
  <2>2. PICK r \in Thread : r = thread[t] /\ Shape(r) /\ Aware(r)
    BY <1>1, ThreadFacts
  <2>3. r.pc = "forget" /\ r.cid = object[n].id
    BY <2>1, <2>2 DEF Forget, At
  <2>4. r.close # "no" /\ r.pc \notin CleanSteps
    BY <2>2, <2>3 DEF Shape, CloseSteps, CleanSteps
  <2>5. CASE r.close = "asked"
    BY <2>2, <2>3, <2>4, <2>5 DEF Shape
  <2>6. CASE r.close \in {"over", "finished"}
    <3>1. r.n \in DOMAIN object /\ object[r.n].id = object[n].id
      BY <2>2, <2>3, <2>6 DEF Aware
    <3>2. r.n = n
      BY <1>1, <3>1, OnlyOne DEF Gone
    <3> QED
      BY <2>2, <2>6, <3>2 DEF Aware, Running
  <2> QED
    BY <2>4, <2>5, <2>6 DEF Thread
<1>2. IInv /\ [Next]_vars =>
        [\A n \in DOMAIN object : First(n) /\ Gone(n) =>
           \/ object[n].late
           \/ ~Running(object[n].creator)
           \/ \E t \in Threads : thread[t].op = "close" /\ thread[t].id = object[n].id]_vars
  BY <1>1
<1> QED
  BY <1>2, Invariance, PTL DEF Spec, FirstSessionKept

\* Who asks for the statistics of a session that was closed gets them: a thread
\* past the first step of close has stored them, or another thread had.
THEOREM StatsOutlive == Spec => StatsOutliveGroups
<1>1. ASSUME IInv, [Next]_vars, NEW n \in DOMAIN object, First(n), Gone(n)
      PROVE  stored'[object[n].id] # "none"
  <2>1. PICK t \in Threads : Forget(t) /\ thread[t].cid = object[n].id
    BY <1>1, GoesByForget
  <2>2. PICK r \in Thread : r = thread[t] /\ Shape(r) /\ Aware(r)
    BY <1>1, ThreadFacts
  <2>3. /\ Busy(t) /\ thread[t].pc = "forget" /\ thread[t].pc \notin {"sweep", "drop", "stats"}
        /\ stored' = stored
    BY <2>1 DEF Forget, At
  <2>4. Closing(t)
    BY <2>2, <2>3 DEF Shape, Closing, CloseSteps
  <2>5. PICK i \in Ids : i = object[n].id
    BY <1>1, ObjectFacts DEF IInv
  <2>6. n # 0 /\ sessions[i] = n
    BY <1>1, <2>5, ObjectFacts DEF Gone, IInv
  <2>7. Original(i) /\ thread[t].cid = i
    BY <1>1, <2>1, <2>5, <2>6 DEF Original
  <2>8. stored[i] # "none"
    BY <1>1, <2>3, <2>4, <2>7, CidKnown DEF Original, First
  <2> QED
    BY <2>3, <2>5, <2>8
<1>2. IInv /\ [Next]_vars =>
        [\A n \in DOMAIN object : First(n) /\ Gone(n) => stored'[object[n].id] # "none"]_vars
  BY <1>1
<1> QED
  BY <1>2, Invariance, PTL DEF Spec, StatsOutliveGroups

---------------------------------------------------------------------------
(* Processes, when no client freezes, thaws or kills *)

Undisturbed == Requests \cap {"kill", "freeze", "thaw"} = {}

\* The session of i is an id's first and no thread that closes it is through with killing.
AfterKillSteps == {"restore", "rewait", "thaw", "closePids", "closeFreezer", "forget"}
Killed(i) == \E t \in Closers(i) : thread[t].pc \in AfterKillSteps
Whole(i)  == Original(i) /\ ~Killed(i)

\* What a thread that kills, attaches or detaches relies on.
Fit(q) ==
  /\ q.close # "no" /\ q.pc \in {"wait", "list", "kill"} /\ Whole(q.cid) => q.cid \in frozen
  /\ q.close # "no" /\ q.pc = "kill" /\ Whole(q.cid) =>
       \A p \in Procs : bound[p] = sessions[q.cid] /\ Running(p) => p \in q.work
  /\ q.pc \in {"intoPids", "intoFreezer"} => \A i \in Ids : Whole(i) => bound[q.by] # sessions[i]
  /\ q.pc \in {"outOfPids", "outOfFreezer"} => bound[q.by] = 0
  /\ q.pc = "intoFreezer" /\ Whole(q.cid) /\ Running(q.by) /\ Closers(q.cid) = {} =>
       at["pids"][q.by] = q.cid

ProcessesOK ==
  /\ \A p \in Procs : status[p] = "unborn" => bound[p] = 0
  /\ \A i \in Ids : Whole(i) => \A c \in Controllers : i \in dirs[c]
  /\ \A i \in Ids, p \in Procs : Whole(i) /\ bound[p] = sessions[i] /\ Running(p) =>
       \A c \in Controllers : at[c][p] = i
  /\ \A p \in Procs : bound[p] # 0 /\ First(bound[p]) /\ ~Whole(object[bound[p]].id) =>
       status[p] \in {"killed", "dead"}

DInv == Undisturbed /\ IInv /\ ProcessesOK /\ \A t \in Threads : Fit(thread[t])

LEMMA ObjectsFirst ==
  ASSUME IInv, KeepsObjects, NEW n \in DOMAIN object
  PROVE  First(n)' <=> First(n)
<1>1. \A m \in 1 .. (n - 1) : m \in DOMAIN object
  BY DEF IInv, TypeOK
<1>2. n \in DOMAIN object
  OBVIOUS
<1> QED
  BY <1>1, <1>2 DEF First, KeepsObjects

\* Only closing threads stop processes.
LEMMA OnlyClosers ==
  ASSUME Undisturbed, NEW r \in Thread, Shape(r), r.pc \in CloseSteps \ {"stats"}
  PROVE  r.close # "no" /\ r.cid \in Ids
<1>1. r.close # "no"
  BY NoneAssumption DEF Undisturbed, Shape, Commands, Clean
<1>2. r.cid # None
  BY NoneAssumption DEF Shape, CloseSteps, StepNames
<1> QED
  BY <1>1, <1>2 DEF Thread

LEMMA CidIds ==
  ASSUME NEW r \in Thread, Shape(r)
  PROVE  /\ r.close # "no" => r.cid \in Ids
         /\ r.pc \in StepNames /\ r.pc \notin {"sweep", "drop"} => r.cid \in Ids
<1>1. r.pc \in StepNames => r.pc # None
  BY NoneAssumption
<1>2. r.close # "no" => r.pc \in StepNames /\ r.pc \notin {"sweep", "drop"}
  BY DEF Shape, CloseSteps, StepNames
<1> QED
  BY <1>1, <1>2 DEF Shape, Thread

\* What a thread that does not move relies on stays as it is.
LEMMA OthersFit ==
  ASSUME DInv, KeepsObjects, NEW u \in Threads, thread'[u] = thread[u],
         \A i \in Ids : Whole(i)' => Whole(i),
         \A i \in Ids : Whole(i)' /\ i \in frozen => i \in frozen',
         \A i \in Ids : Whole(i)' /\ Closers(i)' = {} => Closers(i) = {},
         \A i \in Ids, p \in Procs :
           Whole(i)' /\ i \in frozen /\ Closers(i) # {} /\ bound'[p] = sessions[i] /\ Running(p)' =>
             bound[p] = sessions[i] /\ Running(p),
         NEW b \in Procs \cup {None}, b = thread[u].by,
         b \in Procs => /\ bound'[b] \in {bound[b], 0}
                        /\ \A i \in Ids : Whole(i)' /\ Running(b)' /\ (Running(b) => at["pids"][b] = i) =>
                             at'["pids"][b] = i
  PROVE  Fit(thread[u])'
<1>1. PICK x \in Thread : x = thread[u] /\ Shape(x)
  BY ThreadFacts DEF DInv
<1>2. Fit(x)
  BY <1>1 DEF DInv, Fit, Whole, Original, Killed, Closers, First, Running
<1>3. \A i \in Ids : Whole(i)' => sessions'[i] = sessions[i] /\ sessions[i] # 0
  BY ObjectsSeen DEF DInv, IInv, Whole, Original
<1>4. x.by = b /\ thread'[u] = x
  BY <1>1
<1>5. x.close # "no" => x.cid \in Ids /\ x.op # None
  <2>1. x.op = None => x.close = "no"
    BY <1>1 DEF Shape, Idle
  <2> QED
    BY <1>1, <2>1, CidIds
<1>6. x.pc \in MoveSteps => x.cid \in Ids /\ b \in Procs
  <2>1. ASSUME x.pc \in MoveSteps PROVE x.cid \in Ids /\ b \in Procs
    <3>1. x.cid \in Ids /\ x.pc # None /\ x.pc \notin CleanSteps \cup CloseSteps
      BY <1>1, <2>1, CidIds, NoneAssumption DEF StepNames, MoveSteps, CleanSteps, CloseSteps
    <3>2. x.op # None /\ x.op # Clean
      BY <1>1, <3>1 DEF Shape, Idle
    <3> QED
      BY <1>1, <1>4, <3>1, <3>2 DEF Shape, Thread
  <2> QED
    BY <2>1
<1>7. x.close # "no" => u \in Closers(x.cid)
  BY <1>1 DEF Closers, Closing
<1>8. /\ x.close # "no" /\ x.pc \in {"wait", "list", "kill"} /\ Whole(x.cid)' => x.cid \in frozen'
      /\ x.close # "no" /\ x.pc = "kill" /\ Whole(x.cid)' =>
           \A p \in Procs : bound'[p] = sessions'[x.cid] /\ Running(p)' => p \in x.work
  BY <1>2, <1>3, <1>5, <1>7 DEF Fit
<1>9. x.pc \in {"intoPids", "intoFreezer"} => \A i \in Ids : Whole(i)' => bound'[b] # sessions'[i]
  BY <1>2, <1>3, <1>4, <1>6 DEF Fit, MoveSteps
<1>10. x.pc \in {"outOfPids", "outOfFreezer"} => bound'[b] = 0
  BY <1>2, <1>4, <1>6 DEF Fit, MoveSteps
<1>11. x.pc = "intoFreezer" /\ Whole(x.cid)' /\ Running(b)' /\ Closers(x.cid)' = {} => at'["pids"][b] = x.cid
  BY <1>2, <1>4, <1>6 DEF Fit, MoveSteps
<1>12. Fit(x)'
  BY <1>4, <1>8, <1>9, <1>10, <1>11 DEF Fit, Running
<1> QED
  BY <1>4, <1>12 DEF Fit, Whole, Original, Killed, Closers, First, Running

\* A step that binds no process, keeps what is whole and lets no process of a whole
\* session out of its groups.
LEMMA ProcessesKept ==
  ASSUME DInv, KeepsObjects,
         \A i \in Ids : Whole(i)' <=> Whole(i),
         \A c \in Controllers, i \in Ids : Whole(i) /\ i \in dirs[c] => i \in dirs'[c],
         \A p \in Procs : /\ bound'[p] \in {bound[p], 0}
                          /\ status'[p] = "unborn" => status[p] = "unborn"
                          /\ status[p] \in {"killed", "dead"} => status'[p] \in {"killed", "dead"}
                          /\ Running(p)' => Running(p),
         \A c \in Controllers, i \in Ids, p \in Procs :
           Whole(i) /\ bound[p] = sessions[i] /\ bound'[p] = bound[p] /\ Running(p)' /\ at[c][p] = i =>
             at'[c][p] = i
  PROVE  ProcessesOK'
<1>1. IInv /\ ProcessesOK
  BY DEF DInv
<1>2. \A i \in Ids : Whole(i)' => sessions'[i] = sessions[i] /\ sessions[i] # 0
  BY <1>1, ObjectsSeen DEF IInv, Whole, Original
<1>3. \A p \in Procs : bound[p] # 0 => bound[p] \in DOMAIN object
  BY <1>1 DEF IInv, TypeOK
<1>4. \A n \in DOMAIN object : object'[n].id = object[n].id /\ object[n].id \in Ids
  BY <1>1, ObjectFacts DEF IInv, KeepsObjects
<1>5. \A p \in Procs : status'[p] = "unborn" => bound'[p] = 0
  BY <1>1 DEF ProcessesOK
<1>6. \A i \in Ids : Whole(i)' => \A c \in Controllers : i \in dirs'[c]
  BY <1>1 DEF ProcessesOK
<1>7. \A i \in Ids, p \in Procs : Whole(i)' /\ bound'[p] = sessions'[i] /\ Running(p)' =>
        \A c \in Controllers : at'[c][p] = i
  BY <1>1, <1>2 DEF ProcessesOK
<1>8. ASSUME NEW p \in Procs, bound'[p] # 0, First(bound[p])', ~Whole(object[bound[p]].id)'
      PROVE  status'[p] \in {"killed", "dead"}
  <2>1. PICK n \in DOMAIN object : n = bound[p] /\ bound'[p] = n
    BY <1>3, <1>8
  <2>2. First(n)'
    BY <1>8, <2>1 DEF First
  <2>3. First(bound[p])
    BY <1>1, <2>1, <2>2, ObjectsFirst
  <2>4. PICK i \in Ids : i = object[n].id /\ i = object'[n].id
    BY <1>4
  <2>5. ~Whole(i)'
    BY <1>8, <2>1, <2>4 DEF Whole, Original, Killed, Closers, First
  <2>6. ~Whole(object[bound[p]].id) /\ bound[p] # 0
    BY <1>8, <2>1, <2>4, <2>5
  <2> QED
    BY <1>1, <2>3, <2>6 DEF ProcessesOK
<1> QED
  BY <1>5, <1>6, <1>7, <1>8 DEF ProcessesOK

\* A step that leaves the processes alone, keeps what is whole and whom it
\* concerns, and lets each thread that moves have what it relies on.
LEMMA CalmKeeps ==
  ASSUME DInv, IInv', KeepsObjects, UNCHANGED <<status, at, bound>>,
         \A i \in Ids : Whole(i)' <=> Whole(i),
         \A i \in Ids : Whole(i) => /\ i \in frozen => i \in frozen'
                                    /\ \A c \in Controllers : i \in dirs[c] => i \in dirs'[c]
                                    /\ Closers(i)' = {} => Closers(i) = {},
         \A u \in Threads : Fit(thread[u])' \/ thread'[u] = thread[u]
  PROVE  DInv'
<1>1. IInv /\ \A p \in Procs : Running(p)' <=> Running(p)
  BY DEF DInv, Running
<1>2. ProcessesOK'
  BY <1>1, ProcessesKept
<1>3. ASSUME NEW u \in Threads, thread'[u] = thread[u] PROVE Fit(thread[u])'
  <2>1. PICK b \in Procs \cup {None} : b = thread[u].by
    BY <1>1 DEF IInv, TypeOK, Thread
  <2>2. \A i \in Ids : /\ Whole(i)' => Whole(i)
                       /\ Whole(i)' /\ i \in frozen => i \in frozen'
                       /\ Whole(i)' /\ Closers(i)' = {} => Closers(i) = {}
    OBVIOUS
  <2>3. b \in Procs => /\ bound'[b] = bound[b]
                       /\ (Running(b)' <=> Running(b)) /\ at'["pids"][b] = at["pids"][b]
    BY <1>1
  <2>4. \A i \in Ids, x \in Procs : Whole(i)' /\ bound'[x] = sessions[i] /\ Running(x)' =>
          bound[x] = sessions[i] /\ Running(x)
    BY <1>1
  <2> QED
    BY <1>3, <2>1, <2>2, <2>3, <2>4, OthersFit
<1> QED
  BY <1>2, <1>3 DEF DInv, Undisturbed

\* A thread that goes on as q and leaves no close makes nothing whole.
LEMMA WholeLess ==
  ASSUME IInv, KeepsObjects, NEW t \in Threads, NEW r \in Thread, r = thread[t],
         NEW q \in Thread, thread' = [thread EXCEPT ![t] = q],
         r.close # "no" /\ Original(r.cid)' =>
           q.close # "no" /\ q.cid = r.cid /\ (r.pc \in AfterKillSteps => q.pc \in AfterKillSteps),
         NEW i \in Ids
  PROVE  (Whole(i)' => Whole(i)) /\ (Original(i)' /\ Closers(i)' = {} => Closers(i) = {})
<1>1. thread'[t] = q /\ \A u \in Threads \ {t} : thread'[u] = thread[u]
  BY DEF IInv, TypeOK
<1>2. Original(i)' => Original(i)
  BY ObjectsSeen DEF IInv
<1>3. r.close # "no" /\ r.cid = i /\ Original(i)' => Original(r.cid)'
  BY DEF Original, First
<1>4. \A u \in Closers(i) : Original(i)' =>
        u \in Closers(i)' /\ (thread[u].pc \in AfterKillSteps => thread'[u].pc \in AfterKillSteps)
  BY <1>1, <1>3 DEF Closers, Closing
<1> QED
  BY <1>2, <1>4 DEF Whole, Killed

\* One that enters no close of a whole session past its killing keeps all whole.
LEMMA WholeKept ==
  ASSUME IInv, KeepsObjects, NEW t \in Threads, NEW r \in Thread, r = thread[t],
         NEW q \in Thread, thread' = [thread EXCEPT ![t] = q],
         \A i \in Ids : Whole(i) => Original(i)',
         r.close # "no" /\ Original(r.cid)' =>
           q.close # "no" /\ q.cid = r.cid /\ (r.pc \in AfterKillSteps => q.pc \in AfterKillSteps),
         q.close # "no" /\ q.pc \in AfterKillSteps => ~Whole(q.cid)
  PROVE  \A i \in Ids : /\ Whole(i)' <=> Whole(i)
                        /\ Whole(i) /\ Closers(i)' = {} => Closers(i) = {}
<1>1. thread'[t] = q /\ \A u \in Threads \ {t} : thread'[u] = thread[u]
  BY DEF IInv, TypeOK
<1>2. SUFFICES ASSUME NEW i \in Ids
               PROVE  (Whole(i)' <=> Whole(i)) /\ (Whole(i) /\ Closers(i)' = {} => Closers(i) = {})
  OBVIOUS
<1>3. (Whole(i)' => Whole(i)) /\ (Original(i)' /\ Closers(i)' = {} => Closers(i) = {})
  BY WholeLess
<1>4. ASSUME Whole(i) PROVE ~Killed(i)'
  <2>1. SUFFICES ASSUME NEW u \in Threads, u \in Closers(i)', thread'[u].pc \in AfterKillSteps
                 PROVE  FALSE
    BY DEF Killed, Closers
  <2>2. CASE u = t
    <3>1. q.close # "no" /\ q.cid = i /\ q.pc \in AfterKillSteps
      BY <1>1, <2>1, <2>2 DEF Closers, Closing
    <3>2. Whole(q.cid)
      BY <1>4, <3>1
    <3> QED
      BY <3>1, <3>2
  <2>3. CASE u # t
    BY <1>1, <1>4, <2>1, <2>3 DEF Closers, Closing, Whole, Killed
  <2> QED
    BY <2>2, <2>3
<1> QED
  BY <1>3, <1>4 DEF Whole

\* Both together, for a step of a thread.
LEMMA CalmStep ==
  ASSUME DInv, IInv', KeepsObjects, UNCHANGED <<status, at, bound>>,
         NEW t \in Threads, NEW r \in Thread, r = thread[t],
         NEW q \in Thread, thread' = [thread EXCEPT ![t] = q],
         \A i \in Ids : Whole(i) => /\ Original(i)'
                                    /\ i \in frozen => i \in frozen'
                                    /\ \A c \in Controllers : i \in dirs[c] => i \in dirs'[c],
         r.close # "no" /\ Original(r.cid)' =>
           q.close # "no" /\ q.cid = r.cid /\ (r.pc \in AfterKillSteps => q.pc \in AfterKillSteps),
         q.close # "no" /\ q.pc \in AfterKillSteps => ~Whole(q.cid),
         Fit(q)'
  PROVE  DInv'
<1>1. \A i \in Ids : Whole(i) => Original(i)'
  OBVIOUS
<1>2. \A i \in Ids : /\ Whole(i)' <=> Whole(i)
                     /\ Whole(i) /\ Closers(i)' = {} => Closers(i) = {}
  BY <1>1, WholeKept DEF DInv
<1>3. thread'[t] = q /\ \A u \in Threads \ {t} : thread'[u] = thread[u]
  BY DEF DInv, IInv, TypeOK
<1>4. Fit(thread[t])'
  BY <1>3 DEF Fit, Whole, Original, Killed, Closers, First, Running
<1>5. \A u \in Threads : Fit(thread[u])' \/ thread'[u] = thread[u]
  BY <1>3, <1>4
<1> QED
  BY <1>2, <1>5, CalmKeeps

Delicate == {"wait", "list", "kill", "intoPids", "intoFreezer", "outOfPids", "outOfFreezer"} \cup AfterKillSteps

\* Thread t goes on to a step that relies on nothing.
Bland(t) == thread' = [thread EXCEPT ![t] = thread'[t]] /\ thread'[t].pc \notin Delicate

LEMMA AnswerBland ==
  ASSUME IInv, NEW t \in Threads, Answer(t) PROVE Bland(t)
<1>1. Idle.pc \notin Delicate
  BY NoneAssumption DEF Idle, Delicate, AfterKillSteps, StepNames, MoveSteps, CloseSteps
<1>2. thread'[t] = Idle
  BY DEF Answer, Goto, IInv, TypeOK
<1> QED
  BY <1>1, <1>2 DEF Bland, Answer, Goto

LEMMA ContinueBland ==
  ASSUME IInv, NEW t \in Threads, NEW s, Continue(t, s)
  PROVE  /\ thread' = [thread EXCEPT ![t] = thread'[t]]
         /\ thread'[t].pc = s /\ thread'[t].close = thread[t].close /\ thread'[t].cid = thread[t].cid
         /\ thread'[t].by = thread[t].by /\ thread'[t].work = thread[t].work
         /\ s \notin Delicate => Bland(t)
<1>1. PICK r \in Thread : r = thread[t]
  BY ThreadFacts
<1>2. thread' = [thread EXCEPT ![t] = [r EXCEPT !.pc = s]] /\ thread'[t] = [r EXCEPT !.pc = s]
  BY <1>1 DEF Continue, Goto, IInv, TypeOK
<1>3. /\ thread'[t].pc = s /\ thread'[t].close = r.close /\ thread'[t].cid = r.cid
      /\ thread'[t].by = r.by /\ thread'[t].work = r.work
  BY <1>2 DEF Thread
<1> QED
  BY <1>1, <1>2, <1>3 DEF Bland

LEMMA BeginBland ==
  ASSUME IInv, NEW t \in Threads, Busy(t), thread[t].pc \in {"sweep", "drop"}, Begin(t)
  PROVE  Bland(t)
<1>1. PICK r \in Thread : r = thread[t] /\ Shape(r)
  BY ThreadFacts
<1>2. r.op # None
  BY <1>1 DEF Busy
<1>3. CASE r.op = Clean
  BY <1>1, <1>3, AnswerBland DEF Begin
<1>4. CASE r.op # Clean
  <2>1. r.op \in Commands
    BY <1>2, <1>4 DEF Thread
  <2>2. FirstStep(r.op) \in {"makePids", "find", "stats", "reopen", "leave", "limit"}
    BY <2>1 DEF FirstStep, CloseBegins, Commands
  <2> DEFINE s == FirstStep(r.op)
             c == IF r.op = "close" THEN "asked" ELSE "no"
             q == [r EXCEPT !.pc = s, !.cid = r.id, !.work = {}, !.close = c]
  <2>3. thread' = [thread EXCEPT ![t] = q]
    BY <1>1, <1>4 DEF Begin, Goto
  <2> HIDE DEF s, c
  <2>4. q.pc = s
    BY DEF Thread
  <2> HIDE DEF q
  <2>5. thread'[t] = q
    BY <2>3 DEF IInv, TypeOK
  <2>6. s \notin Delicate
    BY <2>2 DEF s, Delicate, AfterKillSteps
  <2> QED
    BY <2>3, <2>4, <2>5, <2>6 DEF Bland
<1> QED
  BY <1>3, <1>4

LEMMA ReturnBland ==
  ASSUME IInv, NEW t \in Threads, Return(t)
  PROVE  Bland(t)
<1>1. PICK r \in Thread : r = thread[t]
  BY ThreadFacts
<1>2. CASE r.close = "over"
  <2>1. thread' = [thread EXCEPT ![t] = [r EXCEPT !.pc = "test", !.close = "no"]]
    BY <1>1, <1>2 DEF Return, Goto
  <2>2. thread'[t] = [r EXCEPT !.pc = "test", !.close = "no"]
    BY <2>1 DEF IInv, TypeOK
  <2>3. thread'[t].pc = "test"
    BY <2>2 DEF Thread
  <2> QED
    BY <2>1, <2>2, <2>3 DEF Bland, Delicate, AfterKillSteps
<1>3. CASE r.close = "finished"
  <2>1. thread' = [thread EXCEPT ![t] = [r EXCEPT !.pc = "sweep", !.close = "no", !.cid = None, !.n = 0]]
    BY <1>1, <1>3 DEF Return, Goto
  <2>2. thread'[t] = [r EXCEPT !.pc = "sweep", !.close = "no", !.cid = None, !.n = 0]
    BY <2>1 DEF IInv, TypeOK
  <2>3. thread'[t].pc = "sweep"
    BY <2>2 DEF Thread
  <2> QED
    BY <2>1, <2>2, <2>3 DEF Bland, Delicate, AfterKillSteps
<1>4. CASE r.close \notin {"over", "finished"}
  <2>1. Answer(t)
    BY <1>1, <1>4 DEF Return, Answer, Goto
  <2> QED
    BY <2>1, AnswerBland
<1> QED
  BY <1>2, <1>3, <1>4

LEMMA BlandStep ==
  ASSUME DInv, IInv', KeepsObjects, UNCHANGED <<status, at, bound, frozen, sessions>>,
         \A c \in Controllers, i \in Ids : i \in dirs[c] => i \in dirs'[c],
         NEW t \in Threads, Bland(t),
         \/ ~Closing(t) \/ sessions[thread[t].cid] = 0
         \/ thread'[t].close # "no" /\ thread'[t].cid = thread[t].cid /\ thread[t].pc \notin AfterKillSteps
  PROVE  DInv'
<1>1. PICK r \in Thread : r = thread[t] /\ Shape(r)
  BY ThreadFacts DEF DInv
<1>2. PICK q \in Thread : q = thread'[t]
  BY DEF IInv, TypeOK
<1>3. thread' = [thread EXCEPT ![t] = q] /\ q.pc \notin Delicate
  BY <1>2 DEF Bland
<1>4. q.pc \notin AfterKillSteps /\ Fit(q)'
  BY <1>3 DEF Delicate, Fit
<1>5. ASSUME NEW i \in Ids, Whole(i) PROVE Original(i)'
  <2>1. PICK n \in DOMAIN object : n = sessions[i] /\ First(n) /\ n # 0
    BY <1>5, SessionFacts DEF Whole, Original, DInv, IInv
  <2>2. First(n)'
    BY <2>1, ObjectsFirst DEF DInv
  <2> QED
    BY <2>1, <2>2 DEF Original, First
<1>6. r.close # "no" /\ Original(r.cid)' =>
        q.close # "no" /\ q.cid = r.cid /\ (r.pc \in AfterKillSteps => q.pc \in AfterKillSteps)
  BY <1>1, <1>2 DEF Closing, Original
<1>7. \A i \in Ids : Whole(i) => /\ Original(i)'
                                 /\ i \in frozen => i \in frozen'
                                 /\ \A c \in Controllers : i \in dirs[c] => i \in dirs'[c]
  BY <1>5
<1> QED
  BY <1>1, <1>3, <1>4, <1>6, <1>7, CalmStep

LEMMA SameObjects ==
  ASSUME UNCHANGED <<object, sessions>> PROVE KeepsObjects
BY DEF KeepsObjects

LEMMA GotoBland ==
  ASSUME IInv, NEW t \in Threads, NEW x, Goto(t, x), x.pc \notin Delicate PROVE Bland(t)
<1>1. thread'[t] = x
  BY DEF Goto, IInv, TypeOK
<1> QED
  BY <1>1 DEF Bland, Goto

LEMMA CleanCalm ==
  ASSUME DInv, IInv', NEW t \in Threads, Sweep(t) \/ Test(t) \/ Count(t) \/ Drop(t) \/ Delete(t) PROVE DInv'
<1>1. PICK r \in Thread : r = thread[t] /\ Shape(r)
  BY ThreadFacts DEF DInv
<1>2. /\ Busy(t) /\ r.pc \in CleanSteps
      /\ UNCHANGED <<status, at, dirs, frozen, object, sessions, bound>>
  BY <1>1 DEF Sweep, Test, Count, Drop, Delete, At, CleanSteps, system, registry, history
<1>3. ~Closing(t)
  BY <1>1, <1>2 DEF Shape, CleanSteps, CloseSteps, Closing
<1>4. /\ "stats" \notin Delicate
      /\ {"test", "members", "sweep", "drop", "delete"} \cap Delicate = {}
  BY DEF Delicate, AfterKillSteps
<1>5. Bland(t)
  <2>1. CASE Sweep(t)
    <3>1. r.pc = "sweep" /\ thread[t].pc = "sweep"
      BY <1>1, <2>1 DEF Sweep, At
    <3>2. CASE r.list # {}
      <4>1. PICK n \in r.list :
              \/ Goto(t, [[r EXCEPT !.list = r.list \ {n}, !.n = n, !.cid = object[n].id]
                            EXCEPT !.close = "over", !.pc = "stats"])
              \/ Goto(t, [[r EXCEPT !.list = r.list \ {n}, !.n = n, !.cid = object[n].id] EXCEPT !.pc = "test"])
        BY <1>1, <2>1, <3>2 DEF Sweep, CloseBegins
      <4>2. /\ [[r EXCEPT !.list = r.list \ {n}, !.n = n, !.cid = object[n].id]
                  EXCEPT !.close = "over", !.pc = "stats"].pc = "stats"
            /\ [[r EXCEPT !.list = r.list \ {n}, !.n = n, !.cid = object[n].id] EXCEPT !.pc = "test"].pc = "test"
        BY DEF Thread
      <4> QED
        BY <1>4, <4>1, <4>2, GotoBland DEF DInv
    <3>3. CASE r.list = {} /\ Goto(t, [r EXCEPT !.pc = "drop", !.work = Old])
      <4>1. [r EXCEPT !.pc = "drop", !.work = Old].pc = "drop"
        BY DEF Thread
      <4> QED
        BY <1>4, <3>3, <4>1, GotoBland DEF DInv
    <3>4. CASE Begin(t)
      BY <1>2, <3>1, <3>4, BeginBland DEF DInv
    <3> QED
      BY <1>1, <2>1, <3>2, <3>3, <3>4 DEF Sweep
  <2>2. CASE Test(t) \/ Count(t)
    <3>1. \/ Goto(t, [r EXCEPT !.close = "finished", !.pc = "stats"])
          \/ Goto(t, [r EXCEPT !.pc = "sweep", !.cid = None, !.n = 0])
          \/ Goto(t, [r EXCEPT !.pc = "members"])
          \/ Answer(t)
      BY <1>1, <2>2 DEF Test, Count, Raise, Finish, GoOn, Continue, CloseBegins
    <3>2. /\ [r EXCEPT !.close = "finished", !.pc = "stats"].pc = "stats"
          /\ [r EXCEPT !.pc = "sweep", !.cid = None, !.n = 0].pc = "sweep"
          /\ [r EXCEPT !.pc = "members"].pc = "members"
      BY DEF Thread
    <3> QED
      BY <1>4, <3>1, <3>2, AnswerBland, GotoBland DEF DInv
  <2>3. CASE Drop(t)
    <3>1. \/ Begin(t)
          \/ \E i \in r.work : \/ Goto(t, [r EXCEPT !.work = r.work \ {i}])
                               \/ Goto(t, [r EXCEPT !.work = r.work \ {i}, !.pc = "delete", !.cid = i])
      BY <1>1, <2>3 DEF Drop
    <3>2. /\ r.pc = "drop" /\ thread[t].pc = "drop"
          /\ \A i : /\ [r EXCEPT !.work = r.work \ {i}].pc = "drop"
                    /\ [r EXCEPT !.work = r.work \ {i}, !.pc = "delete", !.cid = i].pc = "delete"
      BY <1>1, <2>3 DEF Drop, At, Thread
    <3> QED
      BY <1>2, <1>4, <3>1, <3>2, BeginBland, GotoBland DEF DInv
  <2>4. CASE Delete(t)
    <3>1. Answer(t) \/ Goto(t, [r EXCEPT !.pc = "drop", !.cid = None])
      BY <1>1, <2>4 DEF Delete, Raise
    <3>2. [r EXCEPT !.pc = "drop", !.cid = None].pc = "drop"
      BY DEF Thread
    <3> QED
      BY <1>4, <3>1, <3>2, AnswerBland, GotoBland DEF DInv
  <2> QED
    BY <2>1, <2>2, <2>3, <2>4
<1> QED
  BY <1>2, <1>3, <1>5, SameObjects, BlandStep

LEMMA RequestCalm ==
  ASSUME DInv, IInv', NEW t \in Threads,
         \/ MakeGroup(t, "makePids", "pids", "makeFreezer")
         \/ MakeGroup(t, "makeFreezer", "freezer", "register")
         \/ Reopen(t) \/ Tell(t) \/ \E time \in {"none", "runs"} : Limit(t, time)
  PROVE  DInv'
<1>1. PICK r \in Thread : r = thread[t] /\ Shape(r)
  BY ThreadFacts DEF DInv
<1>2. r.pc \in {"makePids", "makeFreezer", "reopen", "tell", "limit"}
  BY <1>1 DEF MakeGroup, Reopen, Tell, Limit, At
<1>3. ~Closing(t)
  BY <1>1, <1>2 DEF Shape, CloseSteps, Closing
<1>4. UNCHANGED <<status, at, frozen, sessions, bound>>
  BY DEF MakeGroup, Reopen, Tell, Limit, system, registry, history
<1>5. {"makePids", "makeFreezer", "register", "check"} \cap Delicate = {}
  BY DEF Delicate, AfterKillSteps
<1>6. Bland(t)
  BY <1>5, AnswerBland, ContinueBland DEF DInv, MakeGroup, Reopen, Tell, Limit, Raise
<1>7. \A c \in Controllers, i \in Ids : i \in dirs[c] => i \in dirs'[c]
  BY DEF MakeGroup, Reopen, Tell, Limit, system, DInv, IInv, TypeOK
<1>8. KeepsObjects
  <2>1. CASE UNCHANGED object
    BY <1>4, <2>1, SameObjects
  <2>2. CASE object' # object
    <3>1. PICK time \in {"none", "runs"} : Limit(t, time)
      BY <2>2 DEF MakeGroup, Reopen, Tell, registry
    <3>2. PICK i \in Ids : i = r.cid
      BY <1>1, <1>2, CidIds DEF StepNames, MakeSteps
    <3>3. PICK n \in DOMAIN object :
            object' = [object EXCEPT ![n] = [object[n] EXCEPT !.time = time]] /\ time # "over"
      <4>1. sessions[i] # 0 /\ object' = [object EXCEPT ![sessions[i]] = [object[sessions[i]] EXCEPT !.time = time]]
        BY <1>1, <2>2, <3>1, <3>2 DEF Limit
      <4> QED
        BY <4>1, SessionFacts DEF DInv, IInv
    <3>4. object[n] \in SessionObject /\ object \in Seq(SessionObject)
      BY ObjectFacts DEF DInv, IInv, TypeOK
    <3>5. /\ DOMAIN object' = DOMAIN object
          /\ \A m \in DOMAIN object : m # n => object'[m] = object[m]
          /\ object'[n] = [object[n] EXCEPT !.time = time]
      BY <3>3, <3>4
    <3>6. /\ object'[n].id = object[n].id /\ object'[n].creator = object[n].creator
          /\ object'[n].late = object[n].late /\ object'[n].time # "over"
      BY <3>3, <3>4, <3>5 DEF SessionObject
    <3> QED
      BY <1>4, <3>5, <3>6 DEF KeepsObjects
  <2> QED
    BY <2>1, <2>2
<1> QED
  BY <1>3, <1>4, <1>6, <1>7, <1>8, BlandStep

LEMMA StatsFindCalm ==
  ASSUME DInv, IInv', NEW t \in Threads, Stats(t) \/ Find(t) PROVE DInv'
<1>1. PICK r \in Thread : r = thread[t] /\ Shape(r)
  BY ThreadFacts DEF DInv
<1>2. /\ r.pc \in {"stats", "find"} /\ r.pc \notin AfterKillSteps
      /\ UNCHANGED <<status, at, dirs, frozen, object, sessions, bound>>
  BY <1>1 DEF Stats, Find, At, AfterKillSteps, system, registry, history
<1>3. "find" \notin Delicate /\ "freeze" \notin Delicate
  BY DEF Delicate, AfterKillSteps
<1>4. CASE Return(t) /\ (~Closing(t) \/ sessions[thread[t].cid] = 0)
  BY <1>2, <1>4, ReturnBland, SameObjects, BlandStep DEF DInv
<1>5. CASE Continue(t, "find") /\ Closing(t)
  <2>1. Bland(t) /\ thread'[t].close # "no" /\ thread'[t].cid = thread[t].cid
    BY <1>3, <1>5, ContinueBland DEF DInv, Closing
  <2> QED
    BY <1>1, <1>2, <2>1, SameObjects, BlandStep
<1>6. CASE Find(t) /\ sessions[thread[t].cid] # 0
  <2>1. r.close # "no"
    BY <1>1, <1>6, OnlyClosers DEF Find, At, CloseSteps, DInv
  <2>2. AfterFind(t) = "freeze"
    BY <1>1, <2>1 DEF AfterFind, Closing
  <2>3. thread' = [thread EXCEPT ![t] = [r EXCEPT !.back = r.cid \in frozen, !.pc = "freeze"]]
    BY <1>1, <1>6, <2>2 DEF Find, Goto
  <2>4. thread'[t] = [r EXCEPT !.back = r.cid \in frozen, !.pc = "freeze"]
    BY <2>3 DEF DInv, IInv, TypeOK
  <2>5. thread'[t].pc = "freeze" /\ thread'[t].close = r.close /\ thread'[t].cid = r.cid
    BY <2>4 DEF Thread
  <2>6. Bland(t)
    BY <1>3, <2>3, <2>4, <2>5 DEF Bland
  <2> QED
    BY <1>1, <1>2, <2>1, <2>5, <2>6, SameObjects, BlandStep
<1>7. CASE Stats(t)
  BY <1>4, <1>5, <1>7 DEF Stats
<1>8. CASE Find(t)
  BY <1>4, <1>6, <1>8 DEF Find
<1> QED
  BY <1>7, <1>8

LEMMA OriginalsKept ==
  ASSUME IInv, KeepsObjects, UNCHANGED sessions, NEW i \in Ids
  PROVE  Original(i)' <=> Original(i)
<1>1. CASE sessions[i] = 0
  BY <1>1 DEF Original
<1>2. CASE sessions[i] # 0
  <2>1. PICK n \in DOMAIN object : n = sessions[i]
    BY <1>2, SessionFacts DEF IInv
  <2>2. First(n)' <=> First(n)
    BY ObjectsFirst
  <2> QED
    BY <2>1, <2>2 DEF Original, First
<1> QED
  BY <1>1, <1>2

LEMMA OutsideCalm ==
  ASSUME DInv, IInv', KeepsObjects, UNCHANGED <<status, at, bound, frozen, dirs, sessions, thread>>
  PROVE  DInv'
<1>1. \A i \in Ids : Original(i)' <=> Original(i)
  BY OriginalsKept DEF DInv
<1>2. \A i \in Ids : (Killed(i)' <=> Killed(i)) /\ (Closers(i)' = Closers(i))
  BY DEF Killed, Closers, Closing
<1>3. \A i \in Ids : Whole(i)' <=> Whole(i)
  BY <1>1, <1>2 DEF Whole
<1> QED
  BY <1>2, <1>3, CalmKeeps

\* A step of a thread that closes session i and goes on doing so.
LEMMA CloserStep ==
  ASSUME DInv, IInv', UNCHANGED <<status, at, bound, object, sessions, dirs>>,
         NEW t \in Threads, NEW i \in Ids, i = thread[t].cid,
         thread' = [thread EXCEPT ![t] = thread'[t]],
         thread'[t].close # "no", thread'[t].cid = i, thread'[t].pc \in CloseSteps,
         thread[t].pc \in AfterKillSteps => thread'[t].pc \in AfterKillSteps,
         thread'[t].pc \in AfterKillSteps => ~Whole(i),
         \A j \in Ids : Whole(j) /\ j \in frozen => j \in frozen',
         Whole(i) /\ thread'[t].pc \in {"wait", "list", "kill"} => i \in frozen',
         Whole(i) /\ thread'[t].pc = "kill" =>
           \A p \in Procs : bound[p] = sessions[i] /\ Running(p) => p \in thread'[t].work
  PROVE  DInv'
<1>1. PICK r \in Thread : r = thread[t] /\ Shape(r)
  BY ThreadFacts DEF DInv
<1>2. PICK q \in Thread : q = thread'[t]
  BY DEF IInv, TypeOK
<1>3. thread' = [thread EXCEPT ![t] = q] /\ r.cid = i /\ q.cid = i /\ q.close # "no"
  BY <1>1, <1>2
<1>4. KeepsObjects
  BY SameObjects
<1>5. \A j \in Ids : Original(j)' <=> Original(j)
  BY <1>4, OriginalsKept DEF DInv
<1>6. q.pc \in AfterKillSteps => ~Whole(q.cid)
  BY <1>2, <1>3
<1>7. r.close # "no" /\ Original(r.cid)' =>
        q.close # "no" /\ q.cid = r.cid /\ (r.pc \in AfterKillSteps => q.pc \in AfterKillSteps)
  BY <1>1, <1>2, <1>3
<1>8. \A j \in Ids : Whole(j) => Original(j)'
  BY <1>5 DEF Whole
<1>9. \A j \in Ids : Whole(j)' <=> Whole(j)
  BY <1>1, <1>3, <1>4, <1>6, <1>7, <1>8, WholeKept DEF DInv
<1>10. Fit(q)'
  <2>1. q.pc \in CloseSteps /\ q.pc \notin MoveSteps
    BY <1>2 DEF CloseSteps, MoveSteps
  <2>2. \A p \in Procs : Running(p)' <=> Running(p)
    BY DEF Running
  <2> QED
    BY <1>2, <1>3, <1>9, <2>1, <2>2 DEF Fit, MoveSteps
<1> QED
  BY <1>1, <1>3, <1>4, <1>6, <1>7, <1>8, <1>10, CalmStep

LEMMA CheckAttachCalm ==
  ASSUME DInv, IInv', NEW t \in Threads, CheckAttach(t) PROVE DInv'
<1>1. PICK r \in Thread : r = thread[t] /\ Shape(r)
  BY ThreadFacts DEF DInv
<1>2. /\ r.pc = "check" /\ UNCHANGED <<status, at, dirs, frozen, object, sessions, bound>>
  BY <1>1 DEF CheckAttach, At, system, registry, history
<1>3. r.close = "no" /\ ~Closing(t)
  BY <1>1, <1>2 DEF Shape, CloseSteps, Closing
<1>4. KeepsObjects
  BY <1>2, SameObjects
<1>5. CASE Answer(t)
  BY <1>2, <1>3, <1>4, <1>5, AnswerBland, BlandStep DEF DInv
<1>6. CASE Continue(t, "intoPids") /\ Running(r.by) /\ at["pids"][r.by] = None
  <2>1. PICK q \in Thread : q = thread'[t]
    BY DEF IInv, TypeOK
  <2>2. /\ thread' = [thread EXCEPT ![t] = q] /\ q.pc = "intoPids" /\ q.close = "no" /\ q.by = r.by
    BY <1>1, <1>3, <1>6, <2>1, ContinueBland DEF DInv
  <2>3. \A j \in Ids : Whole(j) => Original(j)'
    BY <1>2, <1>4, OriginalsKept DEF DInv, Whole
  <2>4. \A j \in Ids : Whole(j)' <=> Whole(j)
    BY <1>1, <1>3, <1>4, <2>2, <2>3, WholeKept DEF DInv
  <2>5. r.by \in Procs
    BY <1>1, <1>2, NoneAssumption DEF Shape, Thread, Commands, Clean
  <2>6. \A j \in Ids : Whole(j) => bound[r.by] # sessions[j]
    BY <1>6, <2>5, NoneAssumption DEF DInv, ProcessesOK, Controllers
  <2>7. Fit(q)'
    BY <1>2, <2>2, <2>4, <2>6 DEF Fit
  <2> QED
    BY <1>1, <1>2, <1>3, <1>4, <2>2, <2>3, <2>7, CalmStep
<1> QED
  BY <1>1, <1>5, <1>6 DEF CheckAttach, Raise, Controllers

---------------------------------------------------------------------------
(* Killing *)

\* A thread that is through with killing has left nothing whole.
LEMMA NotWhole ==
  ASSUME NEW t \in Threads, Closing(t), thread[t].pc \in AfterKillSteps
  PROVE  ~Whole(thread[t].cid)
BY DEF Whole, Killed, Closers

LEMMA CloserFacts ==
  ASSUME DInv, NEW t \in Threads, thread[t].pc \in CloseSteps \ {"stats"}
  PROVE  Closing(t) /\ thread[t].close # "no" /\ thread[t].cid \in Ids
<1>1. PICK r \in Thread : r = thread[t] /\ Shape(r)
  BY ThreadFacts DEF DInv
<1> QED
  BY <1>1, OnlyClosers DEF DInv, Closing

LEMMA FreezerCalm ==
  ASSUME DInv, IInv', NEW t \in Threads, NoFreezer(t) \/ Restore(t) \/ WaitAgain(t) \/ Thaw(t) PROVE DInv'
<1>1. /\ thread[t].pc \in {"freeze", "wait", "restore", "rewait", "thaw"} /\ thread[t].pc \in CloseSteps \ {"stats"}
      /\ UNCHANGED <<status, at, bound, object, sessions, dirs>>
  BY DEF NoFreezer, Restore, WaitAgain, Thaw, WithFreezer, At, CloseSteps, system, registry, history
<1>2. PICK i \in Ids : i = thread[t].cid /\ Closing(t) /\ thread[t].close # "no"
  BY <1>1, CloserFacts
<1>3. ~Whole(i)
  <2>1. CASE NoFreezer(t)
    BY <1>2, <2>1 DEF NoFreezer, DInv, ProcessesOK, Controllers
  <2>2. CASE Restore(t) \/ WaitAgain(t) \/ Thaw(t)
    <3>1. thread[t].pc \in AfterKillSteps
      BY <2>2 DEF Restore, WaitAgain, Thaw, WithFreezer, At, AfterKillSteps
    <3>2. ~Whole(thread[t].cid)
      BY <1>2, <3>1, NotWhole
    <3> QED
      BY <1>2, <3>2
  <2> QED
    BY <2>1, <2>2
<1>4. \A j \in Ids : j # i /\ j \in frozen => j \in frozen'
  BY <1>2 DEF NoFreezer, Restore, WaitAgain, Thaw, system
<1>5. CASE UNCHANGED thread
  <2>1. WaitAgain(t) /\ frozen' = frozen
    BY <1>1, <1>2, <1>5
    DEF NoFreezer, Restore, WaitAgain, Thaw, WithFreezer, At, AfterKill, Continue, Goto, system, DInv, IInv, TypeOK, Thread
  <2> QED
    BY <1>1, <1>5, <2>1, SameObjects, OutsideCalm
<1>6. CASE \E s \in {"thaw", "rewait", "closePids"} : Continue(t, s)
  <2>1. PICK s \in {"thaw", "rewait", "closePids"} : Continue(t, s)
    BY <1>6
  <2>2. s \in AfterKillSteps /\ s \in CloseSteps
    BY DEF AfterKillSteps, CloseSteps
  <2>3. /\ thread' = [thread EXCEPT ![t] = thread'[t]] /\ thread'[t].pc = s
        /\ thread'[t].close # "no" /\ thread'[t].cid = i
    BY <1>2, <2>1, ContinueBland DEF DInv
  <2>4. \A j \in Ids : Whole(j) /\ j \in frozen => j \in frozen'
    BY <1>3, <1>4
  <2> QED
    BY <1>1, <1>2, <1>3, <2>2, <2>3, <2>4, CloserStep
<1> QED
  BY <1>2, <1>5, <1>6 DEF NoFreezer, Restore, WaitAgain, Thaw, AfterKill

LEMMA StoppingCalm ==
  ASSUME DInv, IInv', NEW t \in Threads, Freeze(t) \/ Wait(t) \/ List(t) PROVE DInv'
<1>1. /\ thread[t].pc \in {"freeze", "wait", "list"} /\ thread[t].pc \in CloseSteps \ {"stats"}
      /\ thread[t].pc \notin AfterKillSteps
      /\ UNCHANGED <<status, at, bound, object, sessions, dirs>>
  BY DEF Freeze, Wait, List, WithFreezer, At, CloseSteps, AfterKillSteps, system, registry, history
<1>2. PICK i \in Ids : i = thread[t].cid /\ Closing(t) /\ thread[t].close # "no"
  BY <1>1, CloserFacts
<1>3. "wait" \notin AfterKillSteps /\ "list" \notin AfterKillSteps /\ "kill" \notin AfterKillSteps
      /\ "wait" \in CloseSteps /\ "list" \in CloseSteps /\ "kill" \in CloseSteps
  BY DEF AfterKillSteps, CloseSteps
<1>4. CASE Freeze(t)
  <2>1. /\ thread' = [thread EXCEPT ![t] = thread'[t]] /\ thread'[t].pc = "wait"
        /\ thread'[t].close # "no" /\ thread'[t].cid = i
        /\ frozen' = frozen \cup {i}
    BY <1>2, <1>4, ContinueBland DEF DInv, Freeze
  <2> QED
    BY <1>1, <1>2, <1>3, <2>1, CloserStep
<1>5. CASE Wait(t) /\ i \notin frozen
  <2>1. UNCHANGED <<thread, frozen>>
    BY <1>2, <1>5 DEF Wait, system
  <2> QED
    BY <1>1, <2>1, SameObjects, OutsideCalm
<1>6. CASE Wait(t) /\ i \in frozen
  <2>1. /\ thread' = [thread EXCEPT ![t] = thread'[t]] /\ thread'[t].pc = "list"
        /\ thread'[t].close # "no" /\ thread'[t].cid = i
        /\ frozen' = frozen
    BY <1>2, <1>6, ContinueBland DEF DInv, Wait, system
  <2> QED
    BY <1>1, <1>2, <1>3, <1>6, <2>1, CloserStep
<1>7. CASE List(t)
  <2>1. PICK r \in Thread : r = thread[t]
    BY ThreadFacts DEF DInv
  <2>8. PICK w \in SUBSET Procs : w = Members(i)
    BY DEF Members
  <2> DEFINE q == [r EXCEPT !.work = w, !.pc = "kill"]
  <2>2. thread' = [thread EXCEPT ![t] = q] /\ frozen' = frozen
    BY <1>2, <1>7, <2>1, <2>8 DEF List, Goto, system
  <2>3. q.pc = "kill" /\ q.close = r.close /\ q.cid = r.cid /\ q.work = w
    BY DEF Thread
  <2> HIDE DEF q
  <2>9. thread'[t] = q
    BY <2>2 DEF DInv, IInv, TypeOK
  <2>4. /\ thread' = [thread EXCEPT ![t] = thread'[t]] /\ thread'[t].pc = "kill"
        /\ thread'[t].close # "no" /\ thread'[t].cid = i /\ thread'[t].work = Members(i)
    BY <1>2, <2>1, <2>2, <2>3, <2>8, <2>9
  <2>7. i \in frozen => i \in frozen'
    BY <2>2
  <2>5. Whole(i) => i \in frozen
    <3>1. r.pc = "list" /\ r.close # "no" /\ r.cid = i
      BY <1>2, <1>7, <2>1 DEF List, At
    <3>2. Fit(thread[t])
      BY DEF DInv
    <3> QED
      BY <1>2, <2>1, <3>1, <3>2 DEF Fit
  <2>6. Whole(i) => \A p \in Procs : bound[p] = sessions[i] /\ Running(p) => p \in Members(i)
    BY DEF DInv, ProcessesOK, Members, Controllers
  <2> QED
    BY <1>1, <1>2, <1>3, <2>2, <2>4, <2>5, <2>6, <2>7, CloserStep
<1> QED
  BY <1>4, <1>5, <1>6, <1>7

LEMMA ForgetCalm ==
  ASSUME DInv, IInv', NEW t \in Threads, Forget(t) PROVE DInv'
<1>1. PICK r \in Thread : r = thread[t] /\ Shape(r)
  BY ThreadFacts DEF DInv
<1>2. /\ thread[t].pc = "forget" /\ thread[t].pc \in CloseSteps \ {"stats"} /\ thread[t].pc \in AfterKillSteps
      /\ UNCHANGED <<status, at, bound, object, dirs, frozen>>
  BY DEF Forget, At, CloseSteps, AfterKillSteps, system, history
<1>3. PICK i \in Ids : i = thread[t].cid /\ Closing(t)
  BY <1>2, CloserFacts
<1>4. ~Whole(i)
  BY <1>2, <1>3, NotWhole
<1>5. sessions'[i] = 0 /\ \A j \in Ids : j # i => sessions'[j] = sessions[j]
  BY <1>3 DEF Forget, DInv, IInv, TypeOK
<1>6. KeepsObjects
  BY <1>2, <1>5 DEF KeepsObjects
<1>7. PICK q \in Thread : q = thread'[t]
  BY DEF IInv, TypeOK
<1>8. thread' = [thread EXCEPT ![t] = q] /\ q.pc \notin Delicate
  BY <1>7, ReturnBland DEF Forget, Bland, DInv
<1>9. q.pc \notin AfterKillSteps /\ Fit(q)'
  BY <1>8 DEF Delicate, Fit
<1>10. \A j \in Ids : Whole(j) => Original(j)'
  BY <1>2, <1>4, <1>5 DEF Whole, Original, First
<1>11. ~Original(r.cid)'
  BY <1>1, <1>3, <1>5 DEF Original
<1> QED
  BY <1>1, <1>2, <1>6, <1>8, <1>9, <1>10, <1>11, CalmStep

---------------------------------------------------------------------------
(* Time and requests *)

LEMMA OthersCalm ==
  ASSUME DInv, IInv',
         \/ \E n \in DOMAIN object : TimeOver(n)
         \/ \E i \in Ids : Age(i)
         \/ UNCHANGED vars
  PROVE  DInv'
<1>1. UNCHANGED <<status, at, bound, frozen, dirs, sessions, thread>>
  BY DEF TimeOver, Age, vars, system, registry, history
<1>2. KeepsObjects
  <2>1. CASE UNCHANGED object
    BY <1>1, <2>1, SameObjects
  <2>2. CASE object' # object
    <3>1. PICK n \in DOMAIN object : TimeOver(n)
      BY <2>2 DEF Age, vars, registry
    <3>2. object' = [object EXCEPT ![n] = [[object[n] EXCEPT !.time = "over"] EXCEPT !.late = TRUE]]
      BY <3>1 DEF TimeOver, DInv, IInv, TypeOK
    <3>3. object[n] \in SessionObject /\ object \in Seq(SessionObject)
      BY ObjectFacts DEF DInv, IInv, TypeOK
    <3>4. /\ DOMAIN object' = DOMAIN object
          /\ \A m \in DOMAIN object : m # n => object'[m] = object[m]
          /\ object'[n] = [[object[n] EXCEPT !.time = "over"] EXCEPT !.late = TRUE]
      BY <3>2, <3>3
    <3>5. /\ object'[n].id = object[n].id /\ object'[n].creator = object[n].creator
          /\ object'[n].late
      BY <3>3, <3>4 DEF SessionObject
    <3> QED
      BY <1>1, <3>4, <3>5 DEF KeepsObjects
  <2> QED
    BY <2>1, <2>2
<1> QED
  BY <1>1, <1>2, OutsideCalm

LEMMA RequestsCalm ==
  ASSUME DInv, IInv', NEW t \in Threads, ~Busy(t), NEW x \in Thread, Goto(t, CleanUp(x)),
         UNCHANGED <<system, registry, history>>
  PROVE  DInv'
<1>1. UNCHANGED <<status, at, bound, frozen, dirs, object, sessions>>
  BY DEF system, registry, history
<1>2. ~Closing(t)
  BY ThreadFacts DEF DInv, Busy, Closing, Shape, Idle
<1>3. CleanUp(x).pc = "sweep"
  BY DEF CleanUp, Thread
<1>4. "sweep" \notin Delicate
  BY DEF Delicate, AfterKillSteps
<1>5. Bland(t)
  BY <1>3, <1>4, GotoBland DEF DInv
<1> QED
  BY <1>1, <1>2, <1>5, SameObjects, BlandStep

LEMMA TickReceiveCalm ==
  ASSUME DInv, IInv',
         \/ Tick
         \/ \E t \in Threads, op \in Commands, p \in Procs, i \in Ids : Receive(t, op, p, i)
  PROVE  DInv'
<1>1. Idle \in Thread
  BY BoundAssumption DEF Thread, Idle
<1>2. CASE Tick
  <2>1. [Idle EXCEPT !.op = Clean] \in Thread
    BY <1>1 DEF Thread
  <2> QED
    BY <1>2, <2>1, RequestsCalm, ThreadAssumption DEF Tick
<1>3. CASE \E t \in Threads, op \in Commands, p \in Procs, i \in Ids : Receive(t, op, p, i)
  <2>1. PICK t \in Threads, op \in Commands, p \in Procs, i \in Ids : Receive(t, op, p, i)
    BY <1>3
  <2>2. [Idle EXCEPT !.op = op, !.by = p, !.id = i] \in Thread
    BY <1>1 DEF Thread
  <2> QED
    BY <2>1, <2>2, RequestsCalm DEF Receive
<1> QED
  BY <1>2, <1>3

---------------------------------------------------------------------------
(* Attach and detach *)

\* The process of a thread is no other thread's.
LEMMA OwnProcess ==
  ASSUME DInv, NEW t \in Threads, thread[t].pc \in MoveSteps
  PROVE  /\ thread[t].by \in Procs /\ thread[t].cid \in Ids /\ status[thread[t].by] # "unborn"
         /\ ~Closing(t)
         /\ \A u \in Threads \ {t} : thread[u].by # thread[t].by
<1>1. PICK r \in Thread : r = thread[t] /\ Shape(r) /\ Aware(r)
  BY ThreadFacts DEF DInv
<1>2. r.cid \in Ids /\ r.pc # None /\ r.pc \notin CleanSteps \cup CloseSteps
  BY <1>1, CidIds, NoneAssumption DEF StepNames, MoveSteps, CleanSteps, CloseSteps
<1>3. r.op # None /\ r.op # Clean /\ r.close = "no"
  BY <1>1, <1>2 DEF Shape, Idle, Thread
<1>4. r.by \in Procs /\ r.by # None
  BY <1>1, <1>3 DEF Shape, Thread
<1>5. status[r.by] # "unborn"
  BY <1>1, <1>4 DEF Aware
<1> QED
  BY <1>1, <1>2, <1>3, <1>4, <1>5 DEF DInv, IInv, ThreadsOK, Closing

\* A step of attach or detach: thread t moves its process and nobody else's.
LEMMA MoveStep ==
  ASSUME DInv, IInv', NEW t \in Threads, thread[t].pc \in MoveSteps,
         UNCHANGED <<status, dirs, frozen, object, sessions>>,
         NEW q \in Thread, thread' = [thread EXCEPT ![t] = q],
         q.close = "no", q.by \in {None, thread[t].by},
         \A p \in Procs : p # thread[t].by => bound'[p] = bound[p] /\ \A c \in Controllers : at'[c][p] = at[c][p],
         (\A i \in Ids : Whole(i)' <=> Whole(i)) => ProcessesOK' /\ Fit(q)',
         \A i \in Ids : bound'[thread[t].by] = sessions[i] /\ bound'[thread[t].by] # bound[thread[t].by]
           /\ Whole(i) => Closers(i) = {}
  PROVE  DInv'
<1>1. PICK r \in Thread : r = thread[t]
  BY ThreadFacts DEF DInv
<1>2. r.close = "no" /\ r.by \in Procs
  BY <1>1, OwnProcess DEF Closing
<1>3. KeepsObjects
  BY SameObjects
<1>4. \A i \in Ids : Whole(i) => Original(i)'
  BY <1>3, OriginalsKept DEF DInv, Whole
<1>5. \A i \in Ids : /\ Whole(i)' <=> Whole(i)
                     /\ Whole(i) /\ Closers(i)' = {} => Closers(i) = {}
  BY <1>1, <1>2, <1>3, <1>4, WholeKept DEF DInv
<1>6. thread'[t] = q /\ \A u \in Threads \ {t} : thread'[u] = thread[u]
  BY DEF DInv, IInv, TypeOK
<1>7. \A p \in Procs : Running(p)' <=> Running(p)
  BY DEF Running
<1>8. ASSUME NEW u \in Threads \ {t} PROVE Fit(thread[u])'
  <2>1. PICK b \in Procs \cup {None} : b = thread[u].by
    BY DEF DInv, IInv, TypeOK, Thread
  <2>2. b # thread[t].by
    BY <1>8, <2>1, OwnProcess
  <2>3. \A i \in Ids, p \in Procs :
          Whole(i)' /\ i \in frozen /\ Closers(i) # {} /\ bound'[p] = sessions[i] /\ Running(p)' =>
            bound[p] = sessions[i] /\ Running(p)
    BY <1>5, <1>7
  <2>4. b \in Procs => /\ bound'[b] \in {bound[b], 0}
                       /\ \A i \in Ids : Whole(i)' /\ Running(b)' /\ (Running(b) => at["pids"][b] = i) =>
                            at'["pids"][b] = i
    BY <1>7, <2>2 DEF Controllers
  <2> QED
    BY <1>3, <1>5, <1>6, <2>1, <2>3, <2>4, OthersFit
<1>9. Fit(thread[t])'
  BY <1>5, <1>6 DEF Fit, Whole, Original, Killed, Closers, First, Running
<1> QED
  BY <1>5, <1>8, <1>9 DEF DInv, Undisturbed

LEMMA CheckDetachCalm ==
  ASSUME DInv, IInv', NEW t \in Threads, CheckDetach(t) PROVE DInv'
<1>1. /\ thread[t].pc = "leave" /\ thread[t].pc \in MoveSteps
      /\ UNCHANGED <<status, at, dirs, frozen, object, sessions>>
  BY DEF CheckDetach, At, MoveSteps, system, registry
<1>2. PICK b \in Procs : b = thread[t].by
  BY <1>1, OwnProcess
<1>3. CASE Answer(t) /\ bound' = bound
  BY <1>1, <1>3, OwnProcess, SameObjects, AnswerBland, BlandStep DEF DInv
<1>4. CASE Continue(t, "outOfPids") /\ bound' = [bound EXCEPT ![b] = 0]
  <2>1. PICK q \in Thread : q = thread'[t]
    BY DEF IInv, TypeOK
  <2>2. /\ thread' = [thread EXCEPT ![t] = q] /\ q.pc = "outOfPids" /\ q.close = "no" /\ q.by = b
    BY <1>1, <1>2, <1>4, <2>1, ContinueBland, OwnProcess DEF DInv, Closing
  <2>3. bound'[b] = 0 /\ \A p \in Procs : p # b => bound'[p] = bound[p]
    BY <1>4 DEF DInv, IInv, TypeOK
  <2>4. Fit(q)'
    BY <2>2, <2>3 DEF Fit
  <2>5. ASSUME \A i \in Ids : Whole(i)' <=> Whole(i) PROVE ProcessesOK'
    <3>1. \A p \in Procs : Running(p)' <=> Running(p)
      BY <1>1 DEF Running
    <3> QED
      BY <1>1, <2>3, <2>5, <3>1, SameObjects, ProcessesKept
  <2>6. \A i \in Ids : Whole(i) => sessions[i] # 0
    BY DEF Whole, Original
  <2> QED
    BY <1>1, <1>2, <2>2, <2>3, <2>4, <2>5, <2>6, MoveStep
<1> QED
  BY <1>2, <1>3, <1>4 DEF CheckDetach, Raise

\* The processes of attach and detach are not bound to a whole session.
LEMMA MoverFree ==
  ASSUME DInv, NEW t \in Threads, thread[t].pc \in {"intoPids", "intoFreezer", "outOfPids", "outOfFreezer"},
         NEW i \in Ids, Whole(i)
  PROVE  bound[thread[t].by] # sessions[i]
<1>1. Fit(thread[t])
  BY DEF DInv
<1>2. sessions[i] # 0
  BY DEF Whole, Original
<1> QED
  BY <1>1, <1>2 DEF Fit

LEMMA IntoPidsCalm ==
  ASSUME DInv, IInv', NEW t \in Threads, IntoPids(t) PROVE DInv'
<1>1. /\ thread[t].pc = "intoPids" /\ thread[t].pc \in MoveSteps
      /\ UNCHANGED <<status, dirs, frozen, object, sessions, bound>>
  BY DEF IntoPids, Into, At, MoveSteps, registry
<1>2. PICK b \in Procs : b = thread[t].by
  BY <1>1, OwnProcess
<1>3. PICK i \in Ids : i = thread[t].cid
  BY <1>1, OwnProcess
<1>4. CASE Answer(t) /\ at' = at
  BY <1>1, <1>4, OwnProcess, SameObjects, AnswerBland, BlandStep DEF DInv
<1>5. CASE Continue(t, "intoFreezer") /\ at' = [at EXCEPT !["pids"] = [at["pids"] EXCEPT ![b] = i]]
  <2>1. PICK q \in Thread : q = thread'[t]
    BY DEF IInv, TypeOK
  <2>2. /\ thread' = [thread EXCEPT ![t] = q] /\ q.pc = "intoFreezer" /\ q.close = "no" /\ q.by = b /\ q.cid = i
    BY <1>1, <1>2, <1>3, <1>5, <2>1, ContinueBland, OwnProcess DEF DInv, Closing
  <2>3. /\ at'["pids"][b] = i
        /\ \A p \in Procs, c \in Controllers : p # b => at'[c][p] = at[c][p]
    BY <1>5 DEF DInv, IInv, TypeOK, Controllers
  <2>4. \A j \in Ids : Whole(j) => bound[b] # sessions[j]
    BY <1>1, <1>2, MoverFree
  <2>5. ASSUME \A j \in Ids : Whole(j)' <=> Whole(j) PROVE ProcessesOK' /\ Fit(q)'
    <3>1. \A p \in Procs : Running(p)' <=> Running(p)
      BY <1>1 DEF Running
    <3>2. ProcessesOK'
      BY <1>1, <2>3, <2>4, <2>5, <3>1, SameObjects, ProcessesKept
    <3>3. Fit(q)'
      BY <1>1, <2>2, <2>3, <2>4, <2>5 DEF Fit
    <3> QED
      BY <3>2, <3>3
  <2> QED
    BY <1>1, <1>2, <2>2, <2>3, <2>5, MoveStep
<1> QED
  BY <1>2, <1>3, <1>4, <1>5 DEF IntoPids, Into, Raise

LEMMA OutOfCalm ==
  ASSUME DInv, IInv', NEW t \in Threads, NEW step \in {"outOfPids", "outOfFreezer"}, NEW c \in Controllers,
         OutOf(t, step, c)
  PROVE  DInv'
<1>1. /\ thread[t].pc = step /\ thread[t].pc \in MoveSteps
      /\ UNCHANGED <<status, dirs, frozen, object, sessions, bound>>
  BY DEF OutOf, At, MoveSteps, registry, history
<1>2. PICK b \in Procs : b = thread[t].by
  BY <1>1, OwnProcess
<1>3. CASE Answer(t) /\ at' = at
  BY <1>1, <1>3, OwnProcess, SameObjects, AnswerBland, BlandStep DEF DInv
<1>4. CASE (Continue(t, "outOfFreezer") \/ Answer(t)) /\ at' = [at EXCEPT ![c] = [at[c] EXCEPT ![b] = None]]
  <2>1. PICK q \in Thread : q = thread'[t]
    BY DEF IInv, TypeOK
  <2>2. bound[b] = 0
    BY <1>1, <1>2 DEF DInv, Fit
  <2>3. /\ thread' = [thread EXCEPT ![t] = q] /\ q.close = "no" /\ q.by \in {None, b}
        /\ (q.pc = "outOfFreezer" /\ q.by = b) \/ q.pc = None
    <3>1. CASE Continue(t, "outOfFreezer")
      BY <1>1, <1>2, <2>1, <3>1, ContinueBland, OwnProcess DEF DInv, Closing
    <3>2. CASE Answer(t)
      BY <2>1, <3>2 DEF Answer, Goto, Idle, DInv, IInv, TypeOK
    <3> QED
      BY <1>4, <3>1, <3>2
  <2>4. \A p \in Procs, d \in Controllers : p # b => at'[d][p] = at[d][p]
    BY <1>4 DEF DInv, IInv, TypeOK
  <2>5. \A j \in Ids : Whole(j) => bound[b] # sessions[j]
    BY <1>1, <1>2, MoverFree
  <2>6. ASSUME \A j \in Ids : Whole(j)' <=> Whole(j) PROVE ProcessesOK' /\ Fit(q)'
    <3>1. \A p \in Procs : Running(p)' <=> Running(p)
      BY <1>1 DEF Running
    <3>2. ProcessesOK'
      BY <1>1, <2>4, <2>5, <2>6, <3>1, SameObjects, ProcessesKept
    <3>3. None \notin {"wait", "list", "kill", "intoPids", "intoFreezer", "outOfPids", "outOfFreezer"}
      BY NoneAssumption DEF StepNames, MoveSteps, CloseSteps
    <3>4. Fit(q)'
      BY <1>1, <2>2, <2>3, <3>3 DEF Fit
    <3> QED
      BY <3>2, <3>4
  <2> QED
    BY <1>1, <1>2, <2>3, <2>4, <2>6, MoveStep
<1> QED
  BY <1>2, <1>3, <1>4 DEF OutOf, Raise

LEMMA IntoFreezerCalm ==
  ASSUME DInv, IInv', NEW t \in Threads, IntoFreezer(t) PROVE DInv'
<1>1. /\ thread[t].pc = "intoFreezer" /\ thread[t].pc \in MoveSteps
      /\ UNCHANGED <<status, dirs, frozen, object, sessions>>
  BY DEF IntoFreezer, Into, At, MoveSteps, registry
<1>2. PICK b \in Procs : b = thread[t].by
  BY <1>1, OwnProcess
<1>3. PICK i \in Ids : i = thread[t].cid
  BY <1>1, OwnProcess
<1>4. /\ IInv /\ at \in [Controllers -> [Procs -> Ids \cup {None}]] /\ bound \in [Procs -> 0 .. Len(object)]
      /\ "pids" \in Controllers /\ "freezer" \in Controllers
  BY DEF DInv, IInv, TypeOK, Controllers
<1> DEFINE in == i \in dirs["freezer"] /\ Running(b)
           on == sessions[i] # 0 /\ Closers(i) = {}
<1>5. /\ in => /\ at' = [at EXCEPT !["freezer"] = [at["freezer"] EXCEPT ![b] = i]]
               /\ Continue(t, "tell") \/ Answer(t)
      /\ ~in => at' = at /\ Answer(t)
  BY <1>2, <1>3 DEF IntoFreezer, Into, Raise
<1>6. /\ on => bound' = [bound EXCEPT ![b] = sessions[i]]
      /\ ~on => bound' = bound
  BY <1>2, <1>3 DEF IntoFreezer, Closers
<1>7. /\ at'["pids"] = at["pids"] /\ (in => at'["freezer"][b] = i)
      /\ \A p \in Procs, c \in Controllers : p # b => at'[c][p] = at[c][p]
  BY <1>4, <1>5 DEF Controllers
<1>8. \A p \in Procs : p # b => bound'[p] = bound[p]
  BY <1>4, <1>6
<1>9. (on => bound'[b] = sessions[i]) /\ (~on => bound'[b] = bound[b])
  BY <1>4, <1>6
<1> HIDE DEF in, on
<1>10. PICK q \in Thread : q = thread'[t]
  BY DEF IInv, TypeOK
<1>11. thread' = [thread EXCEPT ![t] = q] /\ q.close = "no" /\ q.by \in {None, b} /\ q.pc \in {"tell", None}
  <2>1. CASE Continue(t, "tell")
    BY <1>1, <1>2, <1>10, <2>1, ContinueBland, OwnProcess DEF DInv, Closing
  <2>2. CASE Answer(t)
    BY <1>10, <2>2 DEF Answer, Goto, Idle, DInv, IInv, TypeOK
  <2> QED
    BY <1>5, <2>1, <2>2
<1>12. \A j \in Ids : Whole(j) => bound[b] # sessions[j]
  BY <1>1, <1>2, MoverFree
<1>13. \A j \in Ids : Whole(j) /\ bound'[b] = sessions[j] => j = i /\ on
  <2>1. \A j \in Ids : Whole(j) => sessions[j] # 0 /\ object[sessions[j]].id = j
    BY <1>4, SessionFacts DEF IInv, Whole, Original
  <2>2. on => sessions[i] # 0 /\ object[sessions[i]].id = i
    BY <1>4, SessionFacts DEF IInv, on
  <2> QED
    BY <1>9, <1>12, <2>1, <2>2
<1>14. on => Closers(i) = {} /\ sessions[i] # 0
  BY DEF on
<1>15. ASSUME \A j \in Ids : Whole(j)' <=> Whole(j) PROVE ProcessesOK' /\ Fit(q)'
  <2>1. \A p \in Procs : Running(p)' <=> Running(p)
    BY <1>1 DEF Running
  <2>2. \A p \in Procs : status'[p] = "unborn" => bound'[p] = 0
    <3>1. status[b] # "unborn"
      BY <1>1, <1>2, OwnProcess
    <3> QED
      BY <1>1, <1>8, <3>1 DEF DInv, ProcessesOK
  <2>3. \A j \in Ids : Whole(j)' => \A c \in Controllers : j \in dirs'[c]
    BY <1>1, <1>15 DEF DInv, ProcessesOK
  <2>4. ASSUME NEW j \in Ids, NEW p \in Procs, Whole(j)', bound'[p] = sessions'[j], Running(p)'
        PROVE  \A c \in Controllers : at'[c][p] = j
    <3>1. Whole(j) /\ bound'[p] = sessions[j] /\ Running(p)
      BY <1>1, <1>15, <2>1, <2>4
    <3>2. CASE p = b
      <4>1. j = i /\ on /\ Closers(i) = {}
        BY <1>13, <1>14, <3>1, <3>2
      <4>2. i \in dirs["freezer"] /\ in
        BY <1>4, <3>1, <3>2, <4>1 DEF DInv, ProcessesOK, in
      <4>3. at["pids"][b] = i
        BY <1>1, <1>2, <1>3, <3>1, <3>2, <4>1 DEF DInv, Fit
      <4> QED
        BY <1>7, <3>2, <4>1, <4>2, <4>3 DEF Controllers
    <3>3. CASE p # b
      BY <1>7, <1>8, <3>1, <3>3 DEF DInv, ProcessesOK
    <3> QED
      BY <3>2, <3>3
  <2>5. ASSUME NEW p \in Procs, bound'[p] # 0, First(bound[p])', ~Whole(object[bound[p]].id)'
        PROVE  status'[p] \in {"killed", "dead"}
    <3>1. PICK n \in DOMAIN object : n = bound'[p]
      BY <1>1, <2>5 DEF IInv, TypeOK
    <3>2. First(n)
      BY <1>1, <2>5, <3>1 DEF First
    <3>3. PICK j \in Ids : j = object[n].id /\ j = object'[n].id
      BY <1>1, <1>4, ObjectFacts DEF IInv
    <3>4. ~Whole(j)'
      BY <2>5, <3>1, <3>3 DEF Whole, Original, Killed, Closers, First
    <3>5. ~Whole(j)
      BY <1>15, <3>4
    <3>6. CASE p = b /\ on
      <4>1. n = sessions[i] /\ j = i
        BY <1>4, <1>9, <1>14, <3>1, <3>3, <3>6, SessionFacts DEF IInv
      <4>2. Whole(i)
        BY <1>14, <3>2, <3>6, <4>1 DEF Whole, Original, Killed
      <4> QED
        BY <3>5, <4>1, <4>2
    <3>7. CASE ~(p = b /\ on)
      <4>1. bound'[p] = bound[p]
        BY <1>8, <1>9, <3>7
      <4>2. bound[p] # 0 /\ First(bound[p]) /\ ~Whole(object[bound[p]].id)
        BY <2>5, <3>1, <3>2, <3>3, <3>5, <4>1
      <4>3. status'[p] = status[p]
        BY <1>1
      <4> QED
        BY <4>2, <4>3 DEF DInv, ProcessesOK
    <3> QED
      BY <3>6, <3>7
  <2>6. ProcessesOK'
    BY <2>2, <2>3, <2>4, <2>5 DEF ProcessesOK
  <2>7. None \notin {"wait", "list", "kill", "intoPids", "intoFreezer", "outOfPids", "outOfFreezer"}
    BY NoneAssumption DEF StepNames, MoveSteps, CloseSteps
  <2>8. Fit(q)'
    BY <1>11, <2>7 DEF Fit
  <2> QED
    BY <2>6, <2>8
<1> QED
  BY <1>1, <1>2, <1>7, <1>8, <1>11, <1>13, <1>14, <1>15, MoveStep

---------------------------------------------------------------------------
(* Fork, exit and kill *)

LEMMA ForkCalm ==
  ASSUME DInv, IInv', NEW p \in Procs, NEW q \in Procs, Fork(p, q) PROVE DInv'
<1>1. /\ Free(p) /\ status[q] = "unborn" /\ p # q
      /\ UNCHANGED <<dirs, frozen, object, sessions, thread>>
  BY DEF Fork, Free, registry
<1>2. /\ IInv /\ at \in [Controllers -> [Procs -> Ids \cup {None}]] /\ bound \in [Procs -> 0 .. Len(object)]
      /\ status \in [Procs -> {"unborn", "running", "killed", "dead"}]
  BY DEF DInv, IInv, TypeOK
<1>3. /\ status'[q] = "running" /\ bound'[q] = bound[p]
      /\ \A x \in Procs : x # q => status'[x] = status[x] /\ bound'[x] = bound[x]
  BY <1>2 DEF Fork
<1>4. \A c \in Controllers : at'[c][q] = at[c][p] /\ \A x \in Procs : x # q => at'[c][x] = at[c][x]
  BY <1>2 DEF Fork
<1>5. status[p] = "running" /\ Running(p) /\ ~Running(q) /\ ~Stopped(p)
  BY <1>1 DEF Free, Running
<1>6. \A x \in Procs : x # q => (Running(x)' <=> Running(x))
  BY <1>3 DEF Running
<1>7. KeepsObjects
  BY <1>1, SameObjects
<1>8. \A i \in Ids : Original(i)' <=> Original(i)
  BY <1>1, <1>2, <1>7, OriginalsKept
<1>9. \A i \in Ids : (Killed(i)' <=> Killed(i)) /\ Closers(i)' = Closers(i)
  BY <1>1 DEF Killed, Closers, Closing
<1>10. \A i \in Ids : Whole(i)' <=> Whole(i)
  BY <1>8, <1>9 DEF Whole
<1>11. ProcessesOK'
  <2>1. \A x \in Procs : status'[x] = "unborn" => bound'[x] = 0
    BY <1>3 DEF DInv, ProcessesOK
  <2>2. \A i \in Ids : Whole(i)' => \A c \in Controllers : i \in dirs'[c]
    BY <1>1, <1>10 DEF DInv, ProcessesOK
  <2>3. ASSUME NEW i \in Ids, NEW x \in Procs, Whole(i)', bound'[x] = sessions'[i], Running(x)'
        PROVE  \A c \in Controllers : at'[c][x] = i
    <3>1. Whole(i) /\ bound'[x] = sessions[i]
      BY <1>1, <1>10, <2>3
    <3>2. PICK y \in Procs : /\ y = IF x = q THEN p ELSE x
                             /\ bound[y] = sessions[i] /\ Running(y)
                             /\ \A c \in Controllers : at'[c][x] = at[c][y]
      BY <1>3, <1>4, <1>5, <1>6, <2>3, <3>1
    <3> QED
      BY <3>1, <3>2 DEF DInv, ProcessesOK
  <2>4. ASSUME NEW x \in Procs, bound'[x] # 0, First(bound[x])', ~Whole(object[bound[x]].id)'
        PROVE  status'[x] \in {"killed", "dead"}
    <3>1. PICK y \in Procs : /\ y = IF x = q THEN p ELSE x
                             /\ bound[y] = bound'[x] /\ status[y] = status'[x]
      BY <1>3, <1>5
    <3>2. PICK n \in DOMAIN object : n = bound[y]
      BY <1>2, <2>4, <3>1
    <3>3. First(n)
      BY <1>1, <2>4, <3>1, <3>2 DEF First
    <3>4. PICK j \in Ids : j = object[n].id /\ j = object'[n].id
      BY <1>1, <1>2, ObjectFacts DEF IInv
    <3>5. ~Whole(j)'
      BY <2>4, <3>1, <3>2, <3>4 DEF Whole, Original, Killed, Closers, First
    <3> QED
      BY <1>10, <2>4, <3>1, <3>2, <3>3, <3>4, <3>5 DEF DInv, ProcessesOK
  <2> QED
    BY <2>1, <2>2, <2>3, <2>4 DEF ProcessesOK
<1>12. ASSUME NEW u \in Threads PROVE Fit(thread[u])'
  <2>1. PICK r \in Thread : r = thread[u] /\ Aware(r)
    BY <1>2, ThreadFacts
  <2>2. PICK b \in Procs \cup {None} : b = thread[u].by /\ b # q
    BY <1>1, <2>1, NoneAssumption DEF Thread, Aware
  <2>3. ASSUME NEW i \in Ids, NEW x \in Procs, Whole(i)', i \in frozen, bound'[x] = sessions[i], Running(x)'
        PROVE  bound[x] = sessions[i] /\ Running(x)
    <3>1. CASE x = q
      <4>1. Whole(i) /\ bound[p] = sessions[i]
        BY <1>3, <1>10, <2>3, <3>1
      <4>2. at["freezer"][p] = i
        BY <1>5, <4>1 DEF DInv, ProcessesOK, Controllers
      <4> QED
        BY <1>5, <2>3, <4>2 DEF Stopped
    <3>2. CASE x # q
      BY <1>3, <1>6, <2>3, <3>2
    <3> QED
      BY <3>1, <3>2
  <2>4. b \in Procs => /\ bound'[b] = bound[b] /\ (Running(b)' <=> Running(b))
                       /\ at'["pids"][b] = at["pids"][b]
    BY <1>3, <1>4, <1>6, <2>2 DEF Controllers
  <2>5. thread'[u] = thread[u]
    BY <1>1
  <2>6. \A i \in Ids : (Whole(i)' => Whole(i)) /\ (Whole(i)' /\ i \in frozen => i \in frozen')
                       /\ (Whole(i)' /\ Closers(i)' = {} => Closers(i) = {})
    BY <1>1, <1>9, <1>10
  <2> QED
    BY <1>7, <2>2, <2>3, <2>4, <2>5, <2>6, OthersFit
<1> QED
  BY <1>11, <1>12 DEF DInv, Undisturbed

LEMMA ExitCalm ==
  ASSUME DInv, IInv', NEW p \in Procs, Exit(p) PROVE DInv'
<1>1. UNCHANGED <<dirs, frozen, object, sessions, thread>>
  BY DEF Exit, registry
<1>2. /\ IInv /\ at \in [Controllers -> [Procs -> Ids \cup {None}]] /\ bound \in [Procs -> 0 .. Len(object)]
      /\ status \in [Procs -> {"unborn", "running", "killed", "dead"}]
  BY DEF DInv, IInv, TypeOK
<1>3. /\ status'[p] = "dead" /\ bound'[p] = 0
      /\ \A x \in Procs : x # p => status'[x] = status[x] /\ bound'[x] = bound[x]
  BY <1>2 DEF Exit
<1>4. \A c \in Controllers, x \in Procs : x # p => at'[c][x] = at[c][x]
  BY <1>2 DEF Exit
<1>5. ~Running(p)' /\ \A x \in Procs : x # p => (Running(x)' <=> Running(x))
  BY <1>3 DEF Running
<1>6. KeepsObjects
  BY <1>1, SameObjects
<1>7. \A i \in Ids : Original(i)' <=> Original(i)
  BY <1>1, <1>2, <1>6, OriginalsKept
<1>8. \A i \in Ids : (Killed(i)' <=> Killed(i)) /\ Closers(i)' = Closers(i)
  BY <1>1 DEF Killed, Closers, Closing
<1>9. \A i \in Ids : Whole(i)' <=> Whole(i)
  BY <1>7, <1>8 DEF Whole
<1>10. ProcessesOK'
  <2>1. \A x \in Procs : /\ bound'[x] \in {bound[x], 0}
                         /\ status'[x] = "unborn" => status[x] = "unborn"
                         /\ status[x] \in {"killed", "dead"} => status'[x] \in {"killed", "dead"}
                         /\ Running(x)' => Running(x)
    BY <1>3, <1>5
  <2>2. \A c \in Controllers, i \in Ids, x \in Procs : Running(x)' /\ at[c][x] = i => at'[c][x] = i
    BY <1>4, <1>5
  <2> QED
    BY <1>1, <1>6, <1>9, <2>1, <2>2, ProcessesKept
<1>11. ASSUME NEW u \in Threads PROVE Fit(thread[u])'
  <2>1. PICK b \in Procs \cup {None} : b = thread[u].by
    BY <1>2 DEF IInv, TypeOK, Thread
  <2>2. \A i \in Ids, x \in Procs : Whole(i)' /\ bound'[x] = sessions[i] /\ Running(x)' =>
          bound[x] = sessions[i] /\ Running(x)
    BY <1>3, <1>5
  <2>3. b \in Procs => /\ bound'[b] \in {bound[b], 0} /\ (Running(b)' => Running(b))
                       /\ Running(b)' => at'["pids"][b] = at["pids"][b]
    BY <1>3, <1>4, <1>5 DEF Controllers
  <2>4. thread'[u] = thread[u]
    BY <1>1
  <2>5. \A i \in Ids : (Whole(i)' => Whole(i)) /\ (Whole(i)' /\ i \in frozen => i \in frozen')
                       /\ (Whole(i)' /\ Closers(i)' = {} => Closers(i) = {})
    BY <1>1, <1>8, <1>9
  <2> QED
    BY <1>6, <2>1, <2>2, <2>3, <2>4, <2>5, OthersFit
<1> QED
  BY <1>10, <1>11 DEF DInv, Undisturbed

LEMMA KillCalm ==
  ASSUME DInv, IInv', NEW t \in Threads, Kill(t) PROVE DInv'
<1>1. /\ thread[t].pc = "kill" /\ thread[t].pc \in CloseSteps \ {"stats"} /\ thread[t].pc \notin AfterKillSteps
      /\ UNCHANGED <<at, dirs, frozen, object, sessions, bound>>
  BY DEF Kill, At, CloseSteps, AfterKillSteps, registry, history
<1>2. PICK i \in Ids : i = thread[t].cid /\ Closing(t)
  BY <1>1, CloserFacts
<1>3. PICK r \in Thread : r = thread[t]
  BY ThreadFacts DEF DInv
<1>4. PICK q \in Thread : q = thread'[t]
  BY DEF IInv, TypeOK
<1>5. /\ thread' = [thread EXCEPT ![t] = q] /\ q.pc = "restore" /\ q.close = r.close /\ q.cid = r.cid
      /\ q.close # "no" /\ q.cid = i
  <2> DEFINE z == [r EXCEPT !.work = {}, !.pc = "restore"]
  <2>1. thread' = [thread EXCEPT ![t] = z]
    BY <1>3 DEF Kill, Goto
  <2>2. z.pc = "restore" /\ z.close = r.close /\ z.cid = r.cid
    BY DEF Thread
  <2> HIDE DEF z
  <2>3. thread'[t] = z
    BY <2>1 DEF DInv, IInv, TypeOK
  <2> QED
    BY <1>2, <1>3, <1>4, <2>1, <2>2, <2>3 DEF Closing
<1>6. IInv /\ status \in [Procs -> {"unborn", "running", "killed", "dead"}] /\ bound \in [Procs -> 0 .. Len(object)]
  BY DEF DInv, IInv, TypeOK
<1>7. \A p \in Procs : status'[p] = IF p \in r.work /\ Running(p) THEN "killed" ELSE status[p]
  BY <1>3 DEF Kill
<1>8. \A p \in Procs : Running(p)' <=> Running(p)
  BY <1>6, <1>7 DEF Running
<1>9. KeepsObjects
  BY <1>1, SameObjects
<1>10. \A j \in Ids : Original(j)' <=> Original(j)
  BY <1>1, <1>6, <1>9, OriginalsKept
<1>11. thread'[t] = q /\ \A u \in Threads \ {t} : thread'[u] = thread[u]
  BY <1>4, <1>5 DEF DInv, IInv, TypeOK
<1>12. ~Whole(i)'
  <2>1. t \in Closers(i)' /\ thread'[t].pc \in AfterKillSteps
    BY <1>5, <1>11 DEF Closers, Closing, AfterKillSteps
  <2> QED
    BY <2>1 DEF Whole, Killed
<1>13. \A j \in Ids : (Whole(j)' => Whole(j)) /\ (Whole(j)' /\ Closers(j)' = {} => Closers(j) = {})
  <2>1. r.close # "no" /\ Original(r.cid)' =>
          q.close # "no" /\ q.cid = r.cid /\ (r.pc \in AfterKillSteps => q.pc \in AfterKillSteps)
    BY <1>1, <1>3, <1>5
  <2> QED
    BY <1>3, <1>5, <1>6, <1>9, <2>1, WholeLess DEF Whole
<1>14. \A j \in Ids : j # i /\ Whole(j) => Whole(j)'
  <2>1. SUFFICES ASSUME NEW j \in Ids, j # i, Whole(j), NEW u \in Threads, u \in Closers(j)', thread'[u].pc \in AfterKillSteps
                 PROVE  FALSE
    BY <1>10 DEF Whole, Killed, Closers
  <2>2. u # t
    BY <1>5, <1>11, <2>1 DEF Closers
  <2> QED
    BY <1>11, <2>1, <2>2 DEF Whole, Killed, Closers, Closing
<1>15. ProcessesOK'
  <2>1. \A p \in Procs : status'[p] = "unborn" => bound'[p] = 0
    BY <1>1, <1>7 DEF DInv, ProcessesOK
  <2>2. \A j \in Ids : Whole(j)' => \A c \in Controllers : j \in dirs'[c]
    BY <1>1, <1>13 DEF DInv, ProcessesOK
  <2>3. \A j \in Ids, p \in Procs : Whole(j)' /\ bound'[p] = sessions'[j] /\ Running(p)' =>
          \A c \in Controllers : at'[c][p] = j
    BY <1>1, <1>8, <1>13 DEF DInv, ProcessesOK
  <2>4. ASSUME NEW p \in Procs, bound'[p] # 0, First(bound[p])', ~Whole(object[bound[p]].id)'
        PROVE  status'[p] \in {"killed", "dead"}
    <3>1. PICK n \in DOMAIN object : n = bound[p] /\ n # 0
      BY <1>1, <1>6, <2>4
    <3>2. First(n)
      BY <1>1, <2>4, <3>1 DEF First
    <3>3. PICK j \in Ids : j = object[n].id /\ j = object'[n].id
      BY <1>1, <1>6, ObjectFacts DEF IInv
    <3>4. ~Whole(j)'
      BY <1>1, <2>4, <3>1, <3>3 DEF Whole, Original, Killed, Closers, First
    <3>5. CASE Whole(j)
      <4>1. j = i
        BY <1>14, <3>4, <3>5
      <4>2. n = sessions[i]
        <5>1. sessions[i] \in DOMAIN object /\ object[sessions[i]].id = i /\ First(sessions[i])
          BY <1>6, <3>5, <4>1, SessionFacts DEF IInv, Whole, Original
        <5> QED
          BY <1>6, <3>3, <4>1, <5>1, OnlyOne
      <4>3. Running(p) => p \in r.work
        <5>1. Fit(thread[t])
          BY DEF DInv
        <5> QED
          BY <1>1, <1>2, <3>1, <3>5, <4>1, <4>2, <1>3, <5>1 DEF Fit, Closing
      <4>4. status[p] # "unborn"
        BY <3>1 DEF DInv, ProcessesOK
      <4> QED
        BY <1>6, <1>7, <4>3, <4>4 DEF Running
    <3>6. CASE ~Whole(j)
      <4>1. status[p] \in {"killed", "dead"}
        BY <3>1, <3>2, <3>3, <3>6 DEF DInv, ProcessesOK
      <4> QED
        BY <1>7, <4>1
    <3> QED
      BY <3>5, <3>6
  <2> QED
    BY <2>1, <2>2, <2>3, <2>4 DEF ProcessesOK
<1>16. ASSUME NEW u \in Threads \ {t} PROVE Fit(thread[u])'
  <2>1. PICK b \in Procs \cup {None} : b = thread[u].by
    BY <1>6 DEF IInv, TypeOK, Thread
  <2>2. b \in Procs => /\ bound'[b] = bound[b] /\ (Running(b)' <=> Running(b))
                       /\ at'["pids"][b] = at["pids"][b]
    BY <1>1, <1>8
  <2>3. \A j \in Ids, x \in Procs : Whole(j)' /\ bound'[x] = sessions[j] /\ Running(x)' =>
          bound[x] = sessions[j] /\ Running(x)
    BY <1>1, <1>8
  <2>4. \A j \in Ids : (Whole(j)' => Whole(j)) /\ (Whole(j)' /\ j \in frozen => j \in frozen')
                       /\ (Whole(j)' /\ Closers(j)' = {} => Closers(j) = {})
    BY <1>1, <1>13
  <2>5. thread'[u] = thread[u]
    BY <1>11
  <2> QED
    BY <1>9, <2>1, <2>2, <2>3, <2>4, <2>5, OthersFit
<1>17. Fit(q)'
  BY <1>5 DEF Fit
<1>18. Fit(thread[t])'
  BY <1>11, <1>17 DEF Fit, Whole, Original, Killed, Closers, First, Running
<1> QED
  BY <1>15, <1>16, <1>18 DEF DInv, Undisturbed

---------------------------------------------------------------------------
(* Groups are removed *)

LEMMA CloseGroupCalm ==
  ASSUME DInv, IInv', NEW t \in Threads, NEW step, NEW c \in Controllers, NEW next,
         <<step, c, next>> \in {<<"closePids", "pids", "closeFreezer">>,
                                <<"closeFreezer", "freezer", "forget">>},
         CloseGroup(t, step, c, next)
  PROVE  DInv'
<1>1. /\ thread[t].pc = step /\ thread[t].pc \in CloseSteps \ {"stats"}
      /\ step \in AfterKillSteps /\ next \in AfterKillSteps
      /\ next \notin {"wait", "list", "kill", "intoPids", "intoFreezer", "outOfPids", "outOfFreezer"}
      /\ UNCHANGED <<status, object, sessions, bound>>
  BY DEF CloseGroup, At, CloseSteps, AfterKillSteps, registry, history
<1>2. PICK i \in Ids : i = thread[t].cid /\ Closing(t)
  BY <1>1, CloserFacts
<1>3. ~Whole(i)
  BY <1>1, <1>2, NotWhole
<1>4. PICK r \in Thread : r = thread[t]
  BY ThreadFacts DEF DInv
<1>5. PICK q \in Thread : q = thread'[t]
  BY DEF IInv, TypeOK
<1>6. thread' = [thread EXCEPT ![t] = q] /\ q.pc = next /\ q.close = r.close /\ q.cid = r.cid /\ q.cid = i
  BY <1>2, <1>4, <1>5, ContinueBland DEF CloseGroup, DInv
<1>7. /\ IInv /\ at \in [Controllers -> [Procs -> Ids \cup {None}]] /\ dirs \in [Controllers -> SUBSET Ids]
  BY DEF DInv, IInv, TypeOK
<1>8. /\ \A d \in Controllers, j \in Ids : j # i /\ j \in dirs[d] => j \in dirs'[d]
      /\ \A j \in Ids : j # i /\ j \in frozen => j \in frozen'
      /\ \A d \in Controllers, p \in Procs, j \in Ids : j # i /\ at[d][p] = j => at'[d][p] = j
  <2>1. CASE UNCHANGED <<at, dirs, frozen>>
    BY <2>1
  <2>2. CASE ~ UNCHANGED <<at, dirs, frozen>>
    <3>1. /\ at' = [at EXCEPT ![c] = [p \in Procs |-> IF p \in {x \in Procs : Running(x) /\ at[c][x] = i}
                                                     THEN None ELSE at[c][p]]]
          /\ dirs' = [dirs EXCEPT ![c] = dirs[c] \ {i}]
          /\ frozen' \in {frozen, frozen \ {i}}
      BY <1>2, <2>2 DEF CloseGroup
    <3> QED
      BY <1>7, <3>1
  <2> QED
    BY <2>1, <2>2
<1>9. KeepsObjects
  BY <1>1, SameObjects
<1>10. \A j \in Ids : Original(j)' <=> Original(j)
  BY <1>1, <1>7, <1>9, OriginalsKept
<1>11. \A j \in Ids : /\ Whole(j)' <=> Whole(j)
                      /\ Whole(j) /\ Closers(j)' = {} => Closers(j) = {}
  <2>1. r.close # "no" /\ Original(r.cid)' =>
          q.close # "no" /\ q.cid = r.cid /\ (r.pc \in AfterKillSteps => q.pc \in AfterKillSteps)
    BY <1>1, <1>6
  <2>2. q.close # "no" /\ q.pc \in AfterKillSteps => ~Whole(q.cid)
    BY <1>3, <1>6
  <2>3. \A j \in Ids : Whole(j) => Original(j)'
    BY <1>10 DEF Whole
  <2> QED
    BY <1>4, <1>6, <1>7, <1>9, <2>1, <2>2, <2>3, WholeKept
<1>12. \A p \in Procs : Running(p)' <=> Running(p)
  BY <1>1 DEF Running
<1>13. ProcessesOK'
  <2>1. \A d \in Controllers, j \in Ids : Whole(j) /\ j \in dirs[d] => j \in dirs'[d]
    BY <1>3, <1>8
  <2>2. \A d \in Controllers, j \in Ids, p \in Procs : Whole(j) /\ at[d][p] = j => at'[d][p] = j
    BY <1>3, <1>8
  <2> QED
    BY <1>1, <1>9, <1>11, <1>12, <2>1, <2>2, ProcessesKept
<1>14. thread'[t] = q /\ \A u \in Threads \ {t} : thread'[u] = thread[u]
  BY <1>6, <1>7 DEF IInv, TypeOK
<1>15. ASSUME NEW u \in Threads \ {t} PROVE Fit(thread[u])'
  <2>1. PICK b \in Procs \cup {None} : b = thread[u].by
    BY <1>7 DEF IInv, TypeOK, Thread
  <2>2. \A j \in Ids : /\ Whole(j)' => Whole(j)
                       /\ Whole(j)' /\ j \in frozen => j \in frozen'
                       /\ Whole(j)' /\ Closers(j)' = {} => Closers(j) = {}
    BY <1>3, <1>8, <1>11
  <2>3. b \in Procs => /\ bound'[b] = bound[b]
                       /\ \A j \in Ids : Whole(j)' /\ Running(b)' /\ (Running(b) => at["pids"][b] = j) =>
                            at'["pids"][b] = j
    BY <1>1, <1>3, <1>8, <1>11, <1>12 DEF Controllers
  <2>4. \A j \in Ids, x \in Procs : Whole(j)' /\ bound'[x] = sessions[j] /\ Running(x)' =>
          bound[x] = sessions[j] /\ Running(x)
    BY <1>1, <1>12
  <2>5. thread'[u] = thread[u]
    BY <1>14
  <2> QED
    BY <1>9, <2>1, <2>2, <2>3, <2>4, <2>5, OthersFit
<1>16. Fit(q)'
  BY <1>1, <1>6 DEF Fit
<1>17. Fit(thread[t])'
  BY <1>14, <1>16 DEF Fit, Whole, Original, Killed, Closers, First, Running
<1> QED
  BY <1>13, <1>15, <1>17 DEF DInv, Undisturbed

---------------------------------------------------------------------------
(* A session is made *)

LEMMA RegisterCalm ==
  ASSUME DInv, IInv', NEW t \in Threads, Register(t) PROVE DInv'
<1>1. PICK r \in Thread : r = thread[t] /\ Shape(r) /\ Aware(r)
  BY ThreadFacts DEF DInv
<1>2. /\ Busy(t) /\ r.pc = "register" /\ thread[t].pc = "register"
      /\ UNCHANGED <<status, at, dirs, frozen, bound>>
  BY <1>1 DEF Register, At, system, history
<1>3. IInv /\ bound \in [Procs -> 0 .. Len(object)] /\ object \in Seq(SessionObject) /\ thread \in [Threads -> Thread]
  BY DEF DInv, IInv, TypeOK
<1>4. PICK i \in Ids : i = thread[t].cid
  BY <1>2, <1>3, CidKnown
<1>5. /\ ~Original(i)
      /\ \A j \in Ids : j # i => (Original(j)' <=> Original(j)) /\ sessions'[j] = sessions[j]
      /\ Original(i)' <=> ~Seen(i)
      /\ sessions'[i] = Len(object) + 1
      /\ DOMAIN object \subseteq DOMAIN object'
      /\ \A n \in DOMAIN object : object'[n] = object[n]
  BY <1>3, <1>4, RegisterSees
<1>6. PICK q \in Thread : q = thread'[t]
  BY DEF IInv, TypeOK
<1>7. thread' = [thread EXCEPT ![t] = q] /\ q.pc \in {"tell", "check"} /\ q.close = r.close
  BY <1>1, <1>3, <1>6, ContinueBland DEF Register
<1>8. r.close = "no" /\ thread'[t] = q /\ \A u \in Threads \ {t} : thread'[u] = thread[u]
  BY <1>1, <1>2, <1>3, <1>7 DEF Shape, CloseSteps
<1>9. \A j \in Ids : Closers(j)' = Closers(j)
  BY <1>1, <1>7, <1>8 DEF Closers, Closing
<1>10. \A j \in Ids : Killed(j)' <=> Killed(j)
  <2>1. \A j \in Ids : \A u \in Closers(j) : thread'[u] = thread[u]
    BY <1>1, <1>8 DEF Closers, Closing
  <2> QED
    BY <1>9, <2>1 DEF Killed
<1>11. ~Whole(i) /\ \A j \in Ids : j # i => (Whole(j)' <=> Whole(j))
  BY <1>5, <1>10 DEF Whole
<1>12. Whole(i)' => ~Seen(i)
  BY <1>5 DEF Whole
<1>13. ProcessesOK'
  <2>1. \A p \in Procs : status'[p] = "unborn" => bound'[p] = 0
    BY <1>2 DEF DInv, ProcessesOK
  <2>2. ASSUME NEW j \in Ids, Whole(j)' PROVE \A c \in Controllers : j \in dirs'[c]
    <3>1. CASE j = i
      <4>1. ~Seen(r.cid)
        BY <1>1, <1>4, <1>12, <2>2, <3>1 DEF Seen
      <4> QED
        BY <1>1, <1>2, <1>4, <3>1, <4>1 DEF Aware, Controllers
    <3>2. CASE j # i
      BY <1>2, <1>11, <2>2, <3>2 DEF DInv, ProcessesOK
    <3> QED
      BY <3>1, <3>2
  <2>3. ASSUME NEW j \in Ids, NEW p \in Procs, Whole(j)', bound'[p] = sessions'[j], Running(p)'
        PROVE  \A c \in Controllers : at'[c][p] = j
    <3>1. j # i
      BY <1>2, <1>3, <1>5, <2>3
    <3>2. Running(p)
      BY <1>2, <2>3 DEF Running
    <3> QED
      BY <1>2, <1>5, <1>11, <2>3, <3>1, <3>2 DEF DInv, ProcessesOK
  <2>4. ASSUME NEW p \in Procs, bound'[p] # 0, First(bound[p])', ~Whole(object[bound[p]].id)'
        PROVE  status'[p] \in {"killed", "dead"}
    <3>1. PICK n \in DOMAIN object : n = bound[p] /\ n # 0 /\ object'[n] = object[n]
      BY <1>2, <1>3, <1>5, <2>4
    <3>2. First(n)
      <4>1. \A m \in 1 .. (n - 1) : m \in DOMAIN object
        BY <1>3
      <4>2. \A m \in 1 .. (n - 1) : object'[m].id # object'[n].id
        BY <1>2, <2>4, <3>1 DEF First
      <4> QED
        BY <1>5, <3>1, <4>1, <4>2 DEF First
    <3>3. PICK j \in Ids : j = object[n].id /\ j = object'[n].id
      BY <1>3, <3>1, ObjectFacts DEF IInv
    <3>4. ~Whole(j)'
      BY <1>2, <2>4, <3>1, <3>3 DEF Whole, Original, Killed, Closers, First
    <3>5. ~Whole(j)
      BY <1>11, <3>4
    <3> QED
      BY <1>2, <3>1, <3>2, <3>3, <3>5 DEF DInv, ProcessesOK
  <2> QED
    BY <2>1, <2>2, <2>3, <2>4 DEF ProcessesOK
<1>14. ASSUME NEW u \in Threads \ {t} PROVE Fit(thread[u])'
  <2>1. PICK x \in Thread : x = thread[u] /\ Shape(x) /\ Aware(x)
    BY <1>3, ThreadFacts
  <2>2. Fit(x)
    BY <2>1 DEF DInv, Fit, Whole, Original, Killed, Closers, First, Running
  <2>3. \A p \in Procs : Running(p)' <=> Running(p)
    BY <1>2 DEF Running
  <2>4. x.close # "no" => x.cid \in Ids /\ Seen(x.cid)
    <3>1. x.close # "no" => x.op # None /\ x.pc \notin {"sweep", "drop"}
      BY <2>1 DEF Shape, Idle, CloseSteps
    <3>2. x.close # "no" => Seen(thread[u].cid)
      BY <1>3, <2>1, <3>1, CidKnown DEF Busy, Closing
    <3> QED
      BY <2>1, <3>2, CidIds DEF Seen
  <2>5. x.close # "no" /\ Whole(x.cid)' => Whole(x.cid) /\ sessions'[x.cid] = sessions[x.cid]
    BY <1>5, <1>11, <1>12, <2>4
  <2>6. /\ x.close # "no" /\ x.pc \in {"wait", "list", "kill"} /\ Whole(x.cid)' => x.cid \in frozen'
        /\ x.close # "no" /\ x.pc = "kill" /\ Whole(x.cid)' =>
             \A p \in Procs : bound'[p] = sessions'[x.cid] /\ Running(p)' => p \in x.work
    BY <1>2, <2>2, <2>3, <2>5 DEF Fit
  <2>7. x.pc \in {"intoPids", "intoFreezer", "outOfPids", "outOfFreezer"} =>
          x.by \in Procs /\ x.cid \in Ids
    BY <2>1, OwnProcess DEF MoveSteps
  <2>8. ASSUME x.pc \in {"intoPids", "intoFreezer"}, NEW j \in Ids, Whole(j)'
        PROVE  bound'[x.by] # sessions'[j]
    <3>1. CASE j = i
      BY <1>2, <1>3, <1>5, <2>7, <2>8, <3>1
    <3>2. CASE j # i
      BY <1>2, <1>5, <1>11, <2>2, <2>8, <3>2 DEF Fit
    <3> QED
      BY <3>1, <3>2
  <2>9. x.pc \in {"outOfPids", "outOfFreezer"} => bound'[x.by] = 0
    BY <1>2, <2>2 DEF Fit
  <2>10. ASSUME x.pc = "intoFreezer", Whole(x.cid)', Running(x.by)', Closers(x.cid)' = {}
         PROVE  at'["pids"][x.by] = x.cid
    <3>1. x.op \in {"start", "attach"} /\ x.close = "no" /\ x.cid = x.id
      BY <2>1, <2>10 DEF Shape, CloseSteps, CleanSteps, Thread
    <3>2. ~Opening(x) /\ x.op \notin {None, Clean}
      BY <2>10, <3>1, NoneAssumption DEF Opening, CleanSteps, MakeSteps, Commands, Clean
    <3>3. Seen(x.cid)
      BY <2>1, <3>1, <3>2 DEF Aware
    <3>4. Whole(x.cid) /\ Closers(x.cid) = {} /\ Running(x.by)
      BY <1>9, <1>11, <1>12, <2>3, <2>7, <2>10, <3>3
    <3> QED
      BY <1>2, <2>2, <2>10, <3>4 DEF Fit
  <2>11. Fit(x)'
    BY <2>6, <2>8, <2>9, <2>10 DEF Fit
  <2>12. thread'[u] = x
    BY <1>8, <2>1
  <2> QED
    BY <2>11, <2>12 DEF Fit, Whole, Original, Killed, Closers, First, Running
<1>15. Fit(q)'
  BY <1>7 DEF Fit
<1>16. Fit(thread[t])'
  BY <1>8, <1>15 DEF Fit, Whole, Original, Killed, Closers, First, Running
<1> QED
  BY <1>13, <1>14, <1>16 DEF DInv, Undisturbed

---------------------------------------------------------------------------
(* All steps *)

LEMMA InitDInv == Undisturbed /\ Init => DInv
<1> SUFFICES ASSUME Undisturbed, Init PROVE DInv
  OBVIOUS
<1>1. IInv
  BY InitIInv
<1>2. \A i \in Ids : ~Whole(i)
  BY DEF Init, Whole, Original
<1>3. ProcessesOK
  BY <1>2 DEF Init, ProcessesOK
<1>4. None \notin {"wait", "list", "kill", "intoPids", "intoFreezer", "outOfPids", "outOfFreezer"}
  BY NoneAssumption DEF StepNames, MoveSteps, CloseSteps
<1>5. \A t \in Threads : thread[t].pc = None
  BY DEF Init, Idle
<1>6. \A t \in Threads : Fit(thread[t])
  BY <1>4, <1>5 DEF Fit
<1> QED
  BY <1>1, <1>3, <1>6 DEF DInv

LEMMA StepDInv ==
  ASSUME DInv, IInv', NEW t \in Threads, Step(t) PROVE DInv'
<1>1. "pids" \in Controllers /\ "freezer" \in Controllers
  BY DEF Controllers
<1>2. CASE Sweep(t) \/ Test(t) \/ Count(t) \/ Drop(t) \/ Delete(t)
  BY <1>2, CleanCalm
<1>3. CASE \/ MakeGroup(t, "makePids", "pids", "makeFreezer")
           \/ MakeGroup(t, "makeFreezer", "freezer", "register")
           \/ Reopen(t) \/ Tell(t) \/ \E time \in {"none", "runs"} : Limit(t, time)
  BY <1>3, RequestCalm
<1>4. CASE Register(t) \/ CheckAttach(t) \/ IntoPids(t) \/ IntoFreezer(t) \/ CheckDetach(t)
  BY <1>4, RegisterCalm, CheckAttachCalm, IntoPidsCalm, IntoFreezerCalm, CheckDetachCalm
<1>5. CASE OutOf(t, "outOfPids", "pids") \/ OutOf(t, "outOfFreezer", "freezer")
  BY <1>1, <1>5, OutOfCalm
<1>6. CASE Stats(t) \/ Find(t)
  BY <1>6, StatsFindCalm
<1>7. CASE Freeze(t) \/ Wait(t) \/ List(t) \/ Kill(t) \/ Forget(t)
  BY <1>7, StoppingCalm, KillCalm, ForgetCalm
<1>8. CASE NoFreezer(t) \/ Restore(t) \/ WaitAgain(t) \/ Thaw(t)
  BY <1>8, FreezerCalm
<1>9. CASE \/ CloseGroup(t, "closePids", "pids", "closeFreezer")
           \/ CloseGroup(t, "closeFreezer", "freezer", "forget")
  BY <1>1, <1>9, CloseGroupCalm
<1> QED
  BY <1>2, <1>3, <1>4, <1>5, <1>6, <1>7, <1>8, <1>9 DEF Step

LEMMA NextDInv == DInv /\ [Next]_vars => DInv'
<1> SUFFICES ASSUME DInv, [Next]_vars PROVE DInv'
  OBVIOUS
<1>1. IInv'
  BY NextIInv DEF DInv
<1>2. CASE \E p, q \in Procs : Fork(p, q)
  BY <1>1, <1>2, ForkCalm
<1>3. CASE \E p \in Procs : Exit(p)
  BY <1>1, <1>3, ExitCalm
<1>4. CASE \/ \E n \in DOMAIN object : TimeOver(n)
           \/ \E i \in Ids : Age(i)
           \/ UNCHANGED vars
  BY <1>1, <1>4, OthersCalm
<1>5. CASE \/ Tick
           \/ \E t \in Threads, op \in Commands, p \in Procs, i \in Ids : Receive(t, op, p, i)
  BY <1>1, <1>5, TickReceiveCalm
<1>6. CASE \E t \in Threads : Step(t)
  BY <1>1, <1>6, StepDInv
<1> QED
  BY <1>2, <1>3, <1>4, <1>5, <1>6 DEF Next

\* When clients do not kill, freeze or thaw sessions, no process whose attach was
\* answered before a close began, and no child of one, outlives its session: the
\* first thread past the signals of kill (server.py:217-229) held the group frozen
\* from before it listed the processes, and no other thread moved, thawed or removed it.
THEOREM BoundDie == Undisturbed /\ Spec => []BoundProcessesDie
<1>1. DInv => BoundProcessesDie
  <2> SUFFICES ASSUME DInv, NEW p \in Procs, NEW n \in {bound[p]} \ {0}, First(n), sessions[object[n].id] # n
               PROVE  status[p] \in {"killed", "dead"}
    BY DEF BoundProcessesDie
  <2>1. n \in DOMAIN object /\ n = bound[p] /\ n # 0
    BY DEF DInv, IInv, TypeOK
  <2>2. PICK i \in Ids : i = object[n].id
    BY <2>1, ObjectFacts DEF DInv, IInv
  <2>3. ~Original(i)
    <3>1. SUFFICES ASSUME Original(i) PROVE FALSE
      OBVIOUS
    <3>2. PICK m \in DOMAIN object : m = sessions[i] /\ object[m].id = i /\ First(m)
      BY <3>1, SessionFacts DEF DInv, IInv, Original
    <3>3. n = m
      BY <2>1, <2>2, <3>2, OnlyOne DEF DInv
    <3> QED
      BY <2>2, <3>2, <3>3
  <2>4. ~Whole(object[n].id)
    BY <2>2, <2>3 DEF Whole
  <2> QED
    BY <2>1, <2>4 DEF DInv, ProcessesOK
<1> QED
  BY <1>1, InitDInv, NextDInv, PTL DEF Spec
=============================================================================
