------------------------------ MODULE Dequeue ------------------------------
(***************************************************************************)
(* How one call of the view dequeue (src/kolejka/server/queue/views.py)    *)
(* packs waiting tasks into what a foreman offers, one action per turn of  *)
(* its loop.  The call is one transaction: nothing else happens to the     *)
(* queue until it ends.                                                    *)
(***************************************************************************)
EXTENDS Limits, FiniteSets

CONSTANTS Tasks,         \* keys of tasks
          Images, Tags,
          Descriptions,  \* what a task may ask for
          ServerLimits,  \* LIMIT_* of the server's settings
          Offers,        \* what a foreman may ask with
          Window,        \* how many waiting tasks a call looks at (100)
          MaxReturn      \* bound: tasks taken back from a foreman

Description == [limits : LimitsSet, image : Images, requires : SUBSET Tags, exclusive : BOOLEAN]
Offer       == [limits : LimitsSet, tags : SUBSET Tags, concurency : Nat]

ASSUME InputAssumption ==
  /\ Descriptions \subseteq Description /\ Offers \subseteq Offer
  /\ ServerLimits \in LimitsSet
  /\ Window \in Nat \ {0} /\ MaxReturn \in Nat
  /\ None \notin Tasks \cup Descriptions
  /\ IsFiniteSet(Tasks)

VARIABLES desc,     \* description of each submitted task
          created,  \* time_create of each task; 0 while it is not submitted
          waiting,  \* tasks whose assignee is null
          returned, \* how many tasks were taken back
          call      \* local variables of the running call

vars == <<desc, created, waiting, returned, call>>

NoUsage == [i \in Images |-> 0]
NoCall  == [on |-> FALSE, offer |-> None, rest |-> {}, taken |-> {}, skipped |-> {},
            resources |-> None, image_usage |-> NoUsage]

Init ==
  /\ desc = [t \in Tasks |-> None]
  /\ created = [t \in Tasks |-> 0]
  /\ waiting = {}
  /\ returned = 0
  /\ call = NoCall

Submitted == {t \in Tasks : created[t] # 0}

\* POST /task/task/ puts the task under the server's limits: no gpus at all
\* unless the settings allow some.
Submit(t, d) ==
  /\ ~call.on /\ t \notin Submitted
  /\ desc' = [desc EXCEPT ![t] = [d EXCEPT !.limits = Update(@, ServerLimits)]]
  /\ created' = [created EXCEPT ![t] = Cardinality(Submitted) + 1]
  /\ waiting' = waiting \cup {t}
  /\ UNCHANGED <<returned, call>>

\* unassign: the task keeps its place by time_create.
Return(t) ==
  /\ ~call.on /\ t \in Submitted \ waiting /\ returned < MaxReturn
  /\ waiting' = waiting \cup {t}
  /\ returned' = returned + 1
  /\ UNCHANGED <<desc, created, call>>

---------------------------------------------------------------------------
GpusFit(l, resources) ==
  l["gpus"] \notin {None, 0} =>
    /\ resources["gpus"] # None /\ l["gpus"] <= resources["gpus"]
    /\ Under(l["gpu_memory"], resources["gpu_memory"])

ImageFits(d, resources, usage) ==
  resources["image"] # None =>
    d.limits["image"] # None /\ ImageAdd(d, usage) <= resources["image"]

Fits_Capped(d, resources, usage) ==
  /\ \A x \in Capped : Under(d.limits[x], resources[x])
  /\ GpusFit(d.limits, resources)
  /\ ImageFits(d, resources, usage)

Fits(d, resources, usage) ==
  /\ \A x \in Consumed \cup Capped : Under(d.limits[x], resources[x])
  /\ GpusFit(d.limits, resources)
  /\ ImageFits(d, resources, usage)

---------------------------------------------------------------------------
Older(t) == {s \in Submitted : created[s] < created[t]}

FirstWaiting_Newest ==
  {t \in waiting : Cardinality({s \in waiting : t \in Older(s)}) < Window}

\* filter(assignee__isnull=True).order_by('time_create')[0:100]
FirstWaiting == {t \in waiting : Cardinality(Older(t) \cap waiting) < Window}

Begin(o) ==
  /\ ~call.on
  /\ call' = [on |-> TRUE, offer |-> o, rest |-> FirstWaiting, taken |-> {}, skipped |-> {},
              resources |-> Correct(o.limits), image_usage |-> NoUsage]
  /\ UNCHANGED <<desc, created, waiting, returned>>

\* The source compares with >, so one task more than asked for is taken.
Full_Never == FALSE

Full == Cardinality(call.taken) > call.offer.concurency

MixesExclusive_Any(d) == FALSE

MixesExclusive_First(d) == call.taken = {} /\ d.exclusive

MixesExclusive(d) == call.taken # {} /\ d.exclusive

Acceptable(d) ==
  /\ ~MixesExclusive(d)
  /\ d.requires \subseteq call.offer.tags
  /\ Fits(d, call.resources, call.image_usage)

\* The loop goes by time_create.
Oldest(t) == t \in call.rest /\ call.rest \cap Older(t) = {}

Take(t) ==
  LET d == desc[t] IN
  /\ call.on /\ Oldest(t) /\ ~Full
  /\ Acceptable(d)
  /\ call' = [call EXCEPT !.rest = IF d.exclusive THEN {} ELSE @ \ {t},
                          !.taken = @ \cup {t},
                          !.resources = Rest(d, @, call.image_usage),
                          !.image_usage = Usage(d, call.resources, @)]
  /\ UNCHANGED <<desc, created, waiting, returned>>

Skip(t) ==
  /\ call.on /\ Oldest(t) /\ ~Full
  /\ ~Acceptable(desc[t])
  /\ call' = [call EXCEPT !.rest = @ \ {t}, !.skipped = @ \cup {t}]
  /\ UNCHANGED <<desc, created, waiting, returned>>

\* The transaction commits and the tasks go to the foreman.
Commit ==
  /\ call.on /\ (call.rest = {} \/ Full)
  /\ waiting' = waiting \ call.taken
  /\ call' = NoCall
  /\ UNCHANGED <<desc, created, returned>>

Loop == Commit \/ \E t \in Tasks : Take(t) \/ Skip(t)

Next ==
  \/ \E t \in Tasks, d \in Descriptions : Submit(t, d)
  \/ \E t \in Tasks : Return(t)
  \/ \E o \in Offers : Begin(o)
  \/ Loop

Spec == Init /\ [][Next]_vars

\* A foreman asks again for ever (foreman.py:144-148) and a call runs through.
FairSpec == Spec /\ WF_vars(\E o \in Offers : Begin(o)) /\ WF_vars(Loop)

---------------------------------------------------------------------------
(* Properties                                                              *)

Resources == [Dims -> Int \cup {None}]

Call == [on : BOOLEAN, offer : Offers, rest : SUBSET Tasks, taken : SUBSET Tasks,
         skipped : SUBSET Tasks, resources : Resources, image_usage : [Images -> Nat]]

\* The queue and the local variables of dequeue keep their types; the copied
\* resources keep a value in exactly the dimensions the foreman offered, and
\* it never falls below zero.
TypeOK ==
  /\ desc \in [Tasks -> Description \cup {None}]
  /\ created \in [Tasks -> Nat]
  /\ waiting \in SUBSET Tasks
  /\ returned \in 0 .. MaxReturn
  /\ call \in Call \cup {NoCall}
  /\ call.on => \A x \in Dims :
       IF Correct(call.offer.limits)[x] = None
       THEN call.resources[x] = None
       ELSE call.resources[x] \in 0 .. Correct(call.offer.limits)[x]

Offered(x) == Correct(call.offer.limits)[x]
OnGpus(t)  == desc[t].limits["gpus"] \notin {None, 0}

\* The tasks of one answer fit the offer all at once: the sum of what they
\* declare is within it in every dimension they share, and each of them is
\* within every cap; one that needs gpus gets them only from an offer of gpus,
\* with as much memory of each as it declares (queue/views.py:38-109 tests the
\* tasks one by one against what it has left).
FitsTogether ==
  call.on =>
    /\ \A x \in Consumed \cup {"gpus", "image"} :
         Offered(x) # None => Together(desc, call.taken, x) <= Offered(x)
    /\ \A x \in Capped, t \in call.taken : Under(desc[t].limits[x], Offered(x))
    /\ \A t \in call.taken : OnGpus(t) =>
         Offered("gpus") # None /\ Under(desc[t].limits["gpu_memory"], Offered("gpu_memory"))

\* A call hands out an exclusive task by itself, wherever in the queue it
\* stands and whatever was skipped before it.
ExclusiveAlone ==
  call.on => \A t \in call.taken : desc[t].exclusive => call.taken = {t}

\* What TaskQueue's HandOut takes for granted: every task handed out was
\* waiting, and there is at most one more than the foreman asked for.
HandsOutWaiting ==
  call.on => /\ call.taken \subseteq waiting
             /\ Cardinality(call.taken) <= call.offer.concurency + 1

\* A task the call passed over would still not be taken at the end, also
\* when a task taken since shares its image: the queue is served oldest first
\* and a younger task overtakes only one that does not fit.
PassedOverDoNotFit ==
  call.on => \A t \in call.skipped : ~Acceptable(desc[t])

\* A task fits an offer nothing has been taken from.
FitsAlone(t, o) == desc[t].requires \subseteq o.tags /\ Fits(desc[t], Correct(o.limits), NoUsage)

\* Fewer than Window of the waiting tasks created before t fit no offer.
InSight(t) ==
  Cardinality({s \in Older(t) \cap waiting : \A o \in Offers : ~FitsAlone(s, o)}) < Window

\* A task that fits every foreman is eventually handed out, unless the first
\* Window places of the queue are taken by tasks that fit none of them (the
\* slice [0:100] of queue/views.py:36): younger tasks, exclusive tasks, and
\* tasks taken back and placed before it do not starve it.
EventuallyHandedOut ==
  \A t \in Tasks :
    (t \in waiting /\ InSight(t) /\ \A o \in Offers : FitsAlone(t, o)) ~> (t \notin waiting)
=============================================================================
