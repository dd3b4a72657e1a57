--------------------------- MODULE TaskLifecycle ---------------------------
(***************************************************************************)
(* What the KOLEJKA server promises about one grid's tasks, with every     *)
(* request taken as one indivisible step.  A submitted task is handed out  *)
(* to one user at a time; it may be reclaimed only while it has no result; *)
(* it has at most one result at a time, and only a user the task was once  *)
(* handed out to (or a user trusted with task.add_result) can record it.   *)
(*                                                                         *)
(* TaskQueue splits the requests into their database statements and is     *)
(* shown to implement this module.                                         *)
(***************************************************************************)

CONSTANTS Tasks,     \* keys of tasks
          Users,     \* accounts known to the server
          Graders,   \* users holding task.add_result
          Verdicts,  \* records: the user of a result and what it says
          None       \* no holder, no verdict

VARIABLES stage,     \* is the task unknown, known or removed
          holder,    \* the user the task is handed out to, or None
          holders,   \* every user the task was ever handed out to
          verdict    \* the result of the task, or None

vars == <<stage, holder, holders, verdict>>

Init == /\ stage = [t \in Tasks |-> "unused"]
        /\ holder = [t \in Tasks |-> None]
        /\ holders = [t \in Tasks |-> {}]
        /\ verdict = [t \in Tasks |-> None]

Submit(t) ==
  /\ stage[t] = "unused"
  /\ stage' = [stage EXCEPT ![t] = "present"]
  /\ UNCHANGED <<holder, holders, verdict>>

\* One user receives a set of tasks nobody holds.
HandOut(u, S) ==
  /\ \A t \in S : stage[t] = "present" /\ holder[t] = None
  /\ holder' = [t \in Tasks |-> IF t \in S THEN u ELSE holder[t]]
  /\ holders' = [t \in Tasks |-> IF t \in S THEN holders[t] \cup {u} ELSE holders[t]]
  /\ UNCHANGED <<stage, verdict>>

\* A task that is held but not answered is taken back.
Reclaim(S) ==
  /\ \A t \in S : stage[t] = "present" /\ holder[t] # None /\ verdict[t] = None
  /\ holder' = [t \in Tasks |-> IF t \in S THEN None ELSE holder[t]]
  /\ UNCHANGED <<stage, holders, verdict>>

Record(t, v) ==
  /\ stage[t] = "present"
  /\ verdict[t] = None
  /\ v.user \in holders[t] \cup Graders
  /\ verdict' = [verdict EXCEPT ![t] = v]
  /\ UNCHANGED <<stage, holder, holders>>

Retract(t) ==
  /\ stage[t] = "present"
  /\ verdict[t] # None
  /\ verdict' = [verdict EXCEPT ![t] = None]
  /\ UNCHANGED <<stage, holder, holders>>

Remove(t) ==
  /\ stage[t] = "present"
  /\ stage' = [stage EXCEPT ![t] = "deleted"]
  /\ holder' = [holder EXCEPT ![t] = None]
  /\ verdict' = [verdict EXCEPT ![t] = None]
  /\ UNCHANGED holders

Next ==
  \/ \E t \in Tasks : Submit(t) \/ Retract(t) \/ Remove(t)
  \/ \E t \in Tasks, v \in Verdicts : Record(t, v)
  \/ \E S \in SUBSET Tasks : Reclaim(S) \/ \E u \in Users : HandOut(u, S)

Spec == Init /\ [][Next]_vars

=============================================================================
