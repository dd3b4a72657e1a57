----------------------------- MODULE MCDequeue -----------------------------
(* Small instances of Dequeue for TLC. *)
EXTENDS Dequeue, TLC

CONSTANTS t1, t2, t3, t4, i1, i2, gpu

NoLimits == [d \in Dims |-> None]

\* What a task declares and a foreman offers, the dimensions named only.
Limited(f) == [d \in Dims |-> IF d \in DOMAIN f THEN f[d] ELSE None]
Asks(f, i, R, x) == [limits |-> Limited(f), image |-> i, requires |-> R, exclusive |-> x]
Small(i)  == Asks([cpus |-> 1, time |-> 1, image |-> 1], i, {}, FALSE)
Big       == Asks([cpus |-> 2, time |-> 1, image |-> 2], i1, {}, FALSE)
Slow      == Asks([cpus |-> 1, image |-> 1], i2, {}, FALSE)
Vague     == Asks([cpus |-> 1, time |-> 1], i1, {}, FALSE)
OnGpu(n, m) == Asks([cpus |-> 0, time |-> 1, image |-> 0, gpus |-> n, gpu_memory |-> m], i1, {gpu}, FALSE)
Lonely    == Asks([cpus |-> 1, time |-> 1, image |-> 1], i1, {}, TRUE)

MCServerLimits == Limited([time |-> 2, gpus |-> 2])

MCDescriptions == {Small(i1), Small(i2), Big, Slow, Vague, OnGpu(1, 1), OnGpu(2, 1), OnGpu(1, 2), Lonely}

Gives(f, T, n) == [limits |-> Limited(f), tags |-> T, concurency |-> n]
Node    == Gives([cpus |-> 2, time |-> 1, image |-> 2, gpus |-> 0, gpu_memory |-> 1], {}, 1)
GpuNode == Gives([cpus |-> 3, time |-> 2, gpus |-> 2, gpu_memory |-> 1], {gpu}, 1)

MCOffers == {Node, GpuNode}

MCFewDescriptions == {Small(i1), Big, Slow, Lonely}
MCOneOffer        == {Node}

Symmetry == Permutations(Tasks)
=============================================================================
