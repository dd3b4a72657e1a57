---------------------------- MODULE MCTaskQueue ----------------------------
(* Small instances of TaskQueue for TLC. *)
EXTENDS TaskQueue, TLC

CONSTANTS t1, r1, client, w1, w2, ok, h1, h2

MCUsers      == {client, w1, w2}
MCProcessors == {w1, w2}
MCSubmitters == {client}

\* Tasks, references, workers and handlers are interchangeable.
Symmetry == Permutations(Tasks) \cup Permutations(Refs)
              \cup Permutations(MCProcessors) \cup Permutations(Handlers)
=============================================================================
