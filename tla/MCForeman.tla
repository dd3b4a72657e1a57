----------------------------- MODULE MCForeman -----------------------------
(* Small instances of Foreman for TLC. *)
EXTENDS Foreman, TLC

CONSTANTS t1, t2, t3, i1, i2, i3

Limited(f) == [d \in Dims |-> IF d \in DOMAIN f THEN f[d] ELSE None]
Asks(f, i, x) == [limits |-> Limited(f), image |-> i, exclusive |-> x]

MCImageSize == (i1 :> 1) @@ (i2 :> 2) @@ (i3 :> 1)

MCDescriptions ==
  { Asks([cpus |-> 1, time |-> 1, image |-> 1], i1, FALSE),
    Asks([cpus |-> 2, time |-> 2, image |-> 2], i2, FALSE),
    Asks([cpus |-> 3, time |-> 1, image |-> 1], i1, TRUE),
    Asks([cpus |-> 1, time |-> 1, image |-> 1, gpus |-> 1, gpu_memory |-> 1], i3, FALSE),
    Asks([cpus |-> 1, time |-> 1, image |-> 1], i2, FALSE), \* i2 is larger than it says
    Asks([time |-> 1], i1, FALSE),
    Asks([cpus |-> 1], i2, FALSE) }  \* only for a node without that limit

\* A node configured within its means, one that leaves images to docker, and one
\* whose configuration says nothing.
Within  == [cpus |-> 3, time |-> 2, image |-> 3, gpus |-> 2, gpu_memory |-> 1]
MCNodes == { Limited(Within), [Limited(Within) EXCEPT !["image"] = None], Limited([gpus |-> 0]) }

\* A node without a limit on time.
MCNoTime == { Limited([cpus |-> 3, gpus |-> 0]) }
MCTimes  == { Asks([cpus |-> 1], i1, FALSE), Asks([cpus |-> 1, time |-> 1], i1, FALSE) }

Symmetry == Permutations(Tasks)
=============================================================================
