---------------------------- MODULE ForemanProofs ----------------------------
(***************************************************************************)
(* Proofs about Foreman, for any tasks, descriptions, nodes and faults.    *)
(*                                                                         *)
(* The argument: what has been given to the tasks of a batch and what is   *)
(* left always make up the node, so that the places of tasks, one after    *)
(* the other from zero, stay within the machine and do not overlap.  The   *)
(* same holds of the room for images, each counted once at its largest: it *)
(* is a sum over the images of the batch, and a sum is a number of tokens. *)
(***************************************************************************)
EXTENDS Foreman, FiniteSetTheorems, TLAPS

---------------------------------------------------------------------------
(* Sums over finite sets *)

Pick(s) == CHOOSE x \in s : TRUE

\* The library's sum is the value at S of a function g on the subsets of S.
Adds(g, f, S) ==
  g = [s \in SUBSET S |-> IF s = {} THEN 0 ELSE f[Pick(s)] + g[s \ {Pick(s)}]]

\* f[x] tokens for each member x of S: their number is the sum.
Tokens(f, S) == UNION {{x} \X (1 .. f[x]) : x \in S}

NatOn(f, S) == IsFiniteSet(S) /\ \A x \in S : f[x] \in Nat

LEMMA AddsOnce ==
  ASSUME NEW f, NEW S, IsFiniteSet(S), NEW g, NEW h, Adds(g, f, S), Adds(h, f, S)
  PROVE  g = h
<1> DEFINE B == {T \in SUBSET S : g[T] # h[T]}
           R == StrictSubsetOrdering(S)
<1>1. ASSUME B # {} PROVE FALSE
  <2>1. IsWellFoundedOn(R, SUBSET S) /\ B \subseteq SUBSET S
    BY FS_FiniteSubsetsOfFinite, FS_StrictSubsetOrderingWellFounded
  <2>2. PICK T \in B : \A U \in B : <<U, T>> \notin R
    <3> HIDE DEF B, R
    <3> QED  BY <1>1, <2>1, WFMin
  <2> DEFINE U == T \ {Pick(T)}
  <2>3. T # {}
    BY DEF Adds
  <2>4. Pick(T) \in T
    BY <2>3 DEF Pick
  <2>5. <<U, T>> \in R /\ U \in SUBSET S
    BY <2>4 DEF StrictSubsetOrdering
  <2>6. g[U] = h[U]
    BY <2>2, <2>5
  <2>7. g[T] = f[Pick(T)] + g[U] /\ h[T] = f[Pick(T)] + h[U]
    BY <2>3 DEF Adds
  <2> QED  BY <2>6, <2>7
<1>2. /\ g = [T \in SUBSET S |-> g[T]]
      /\ h = [T \in SUBSET S |-> h[T]]
  BY DEF Adds
<1> QED  BY <1>1, <1>2

LEMMA TokensFinite ==
  ASSUME NEW f, NEW S, NatOn(f, S)
  PROVE  /\ IsFiniteSet(Tokens(f, S)) /\ Cardinality(Tokens(f, S)) \in Nat
         /\ \A x \in S : IsFiniteSet({x} \X (1 .. f[x])) /\ Cardinality({x} \X (1 .. f[x])) = f[x]
<1> DEFINE Pile(x) == {x} \X (1 .. f[x])
           Piles   == {Pile(x) : x \in S}
<1>1. ASSUME NEW x \in S PROVE IsFiniteSet(Pile(x)) /\ Cardinality(Pile(x)) = f[x]
  <2>1. f[x] \in Nat
    BY DEF NatOn
  <2>2. IsFiniteSet({x}) /\ Cardinality({x}) = 1
    BY FS_Singleton
  <2>3. IsFiniteSet(1 .. f[x]) /\ Cardinality(1 .. f[x]) = f[x]
    BY <2>1, FS_Interval
  <2>4. IsFiniteSet(Pile(x)) /\ Cardinality(Pile(x)) = 1 * f[x]
    BY <2>2, <2>3, FS_Product
  <2> QED  BY <2>1, <2>4
<1>2. [x \in S |-> Pile(x)] \in Surjection(S, Piles)
  BY DEF Surjection
<1>3. IsFiniteSet(Piles)
  BY <1>2, FS_Surjection DEF NatOn
<1>4. IsFiniteSet(UNION Piles)
  BY <1>1, <1>3, FS_UNION
<1> QED  BY <1>1, <1>4, FS_CardinalityType DEF Tokens

LEMMA TokensOf ==
  ASSUME NEW f, NEW S, NatOn(f, S), NEW z \in S
  PROVE  Cardinality(Tokens(f, S)) = f[z] + Cardinality(Tokens(f, S \ {z}))
<1> DEFINE rest == Tokens(f, S \ {z})
           pile == {z} \X (1 .. f[z])
<1>1. Tokens(f, S) = rest \cup pile /\ rest \cap pile = {}
  BY DEF Tokens
<1>2. NatOn(f, S \ {z})
  BY FS_Subset DEF NatOn
<1>3. /\ IsFiniteSet(rest) /\ Cardinality(rest) \in Nat
      /\ IsFiniteSet(pile) /\ Cardinality(pile) = f[z] /\ f[z] \in Nat
  BY <1>2, TokensFinite DEF NatOn
<1> HIDE DEF rest, pile
<1>4. Cardinality(rest \cup pile) = Cardinality(rest) + Cardinality(pile) - Cardinality({})
  BY <1>1, <1>3, FS_Union
<1> QED  BY <1>1, <1>3, <1>4, FS_EmptySet DEF rest

LEMMA SumIsNumber ==
  ASSUME NEW f, NEW S, NatOn(f, S)
  PROVE  SumFunctionOnSet(f, S) = Cardinality(Tokens(f, S))
<1> DEFINE g == [T \in SUBSET S |-> Cardinality(Tokens(f, T))]
<1>1. \A T \in SUBSET S :
        g[T] = IF T = {} THEN 0 ELSE f[Pick(T)] + g[T \ {Pick(T)}]
  <2> SUFFICES ASSUME NEW T \in SUBSET S
               PROVE  g[T] = IF T = {} THEN 0 ELSE f[Pick(T)] + g[T \ {Pick(T)}]
    OBVIOUS
  <2>1. CASE T = {}
    BY <2>1, FS_EmptySet DEF Tokens
  <2>2. CASE T # {}
    <3>1. Pick(T) \in T /\ NatOn(f, T)
      BY <2>2, FS_Subset DEF Pick, NatOn
    <3> QED  BY <2>2, <3>1, TokensOf
  <2> QED  BY <2>1, <2>2
<1>2. Adds(g, f, S)
  BY <1>1 DEF Adds
<1>3. SumFunctionOnSet(f, S) = (CHOOSE h : Adds(h, f, S))[S]
  BY Zenon DEF SumFunctionOnSet, FoldFunctionOnSet, MapThenFoldSet, Adds, Pick
<1>4. (CHOOSE h : Adds(h, f, S)) = g
  BY <1>2, AddsOnce DEF NatOn
<1> QED  BY <1>3, <1>4

LEMMA SumEmpty ==
  ASSUME NEW f
  PROVE  SumFunctionOnSet(f, {}) = 0
BY SumIsNumber, FS_EmptySet DEF Tokens, NatOn

LEMMA SumNat ==
  ASSUME NEW f, NEW S, NatOn(f, S)
  PROVE  SumFunctionOnSet(f, S) \in Nat
BY SumIsNumber, TokensFinite

LEMMA SumOne ==
  ASSUME NEW f, NEW S, NatOn(f, S), NEW z \in S
  PROVE  SumFunctionOnSet(f, S) = f[z] + SumFunctionOnSet(f, S \ {z})
BY SumIsNumber, TokensOf, FS_Subset DEF NatOn

LEMMA SumAdd ==
  ASSUME NEW f, NEW S, NEW z, NatOn(f, S \cup {z}), z \notin S
  PROVE  SumFunctionOnSet(f, S \cup {z}) = f[z] + SumFunctionOnSet(f, S)
<1>1. (S \cup {z}) \ {z} = S
  OBVIOUS
<1> QED  BY <1>1, SumOne

LEMMA SumLeq ==
  ASSUME NEW f, NEW S, NEW g, NEW T, S \subseteq T, NatOn(f, S), NatOn(g, T),
         \A x \in S : f[x] <= g[x]
  PROVE  SumFunctionOnSet(f, S) <= SumFunctionOnSet(g, T)
<1>1. Tokens(f, S) \subseteq Tokens(g, T)
  BY DEF Tokens, NatOn
<1>2. IsFiniteSet(Tokens(g, T))
  BY TokensFinite
<1> QED  BY <1>1, <1>2, FS_Subset, SumIsNumber

LEMMA SumSame ==
  ASSUME NEW f, NEW g, NEW S, NatOn(f, S), \A x \in S : f[x] = g[x]
  PROVE  SumFunctionOnSet(f, S) = SumFunctionOnSet(g, S)
<1>1. Tokens(f, S) = Tokens(g, S)
  BY DEF Tokens
<1> QED  BY <1>1, SumIsNumber DEF NatOn

LEMMA SumUnion ==
  ASSUME NEW f, NEW S, NEW T, NatOn(f, S), NatOn(f, T), S \cap T = {}
  PROVE  SumFunctionOnSet(f, S \cup T) = SumFunctionOnSet(f, S) + SumFunctionOnSet(f, T)
<1> DEFINE a == Tokens(f, S)
           b == Tokens(f, T)
<1>1. Tokens(f, S \cup T) = a \cup b /\ a \cap b = {}
  BY DEF Tokens
<1>2. /\ IsFiniteSet(a) /\ Cardinality(a) \in Nat
      /\ IsFiniteSet(b) /\ Cardinality(b) \in Nat
      /\ NatOn(f, S \cup T)
  BY TokensFinite, FS_Union DEF NatOn
<1> HIDE DEF a, b
<1>3. Cardinality(a \cup b) = Cardinality(a) + Cardinality(b) - Cardinality({})
  BY <1>1, <1>2, FS_Union
<1>4. Cardinality(a \cup b) = Cardinality(a) + Cardinality(b)
  BY <1>2, <1>3, FS_EmptySet
<1> QED  BY <1>1, <1>2, <1>4, SumIsNumber DEF a, b

---------------------------------------------------------------------------
(* The invariant *)

Known(t) == desc[t] \in Description

\* Tasks still to be packed: each once, and none of them in the batch.
Waiting ==
  /\ \A i \in DOMAIN tasks : Known(tasks[i]) /\ tasks[i] \notin batch.children
  /\ \A i, j \in DOMAIN tasks : i # j => tasks[i] # tasks[j]

\* Where the loop is, and what it has in hand there.
Place ==
  /\ pc \in {"ask", "volume"} \/ batch.children = {} => batch = NoBatch
  /\ pc = "ask" => tasks = <<>>
  /\ pc = "volume" => tasks # <<>>
  /\ pc = "pack" => batch.children # {} \/ tasks # <<>>
  /\ pc \in {"images", "run"} => batch.children # {}

Packed ==
  /\ IsFiniteSet(batch.children) /\ Cardinality(batch.children) <= Concurency
  /\ \A t \in batch.children : /\ Known(t)
                               /\ desc[t].exclusive => pc # "pack" /\ batch.children = {t}

\* What was given and what is left make up the node.
Balance ==
  /\ \A x \in Dims : batch.resources[x] = None <=> Correct(node)[x] = None
  /\ node["cpus"] # None => batch.cpus_offset + batch.resources["cpus"] = node["cpus"]
  /\ node["gpus"] # None => batch.gpus_offset + batch.resources["gpus"] = node["gpus"]

\* The places of a batch's tasks: one ends where, or before, the next begins.
CpusEnd(t) == batch.at[t].cpus + Lim(t)["cpus"]
GpusEnd(t) == batch.at[t].gpus + Lim(t)["gpus"]

Placed ==
  /\ \A t \in batch.children :
       /\ Lim(t)["cpus"] # None /\ CpusEnd(t) <= batch.cpus_offset
       /\ Lim(t)["gpus"] # None => GpusEnd(t) <= batch.gpus_offset
  /\ \A t, u \in batch.children : t # u =>
       /\ CpusEnd(t) <= batch.at[u].cpus \/ CpusEnd(u) <= batch.at[t].cpus
       /\ Lim(t)["gpus"] # None /\ Lim(u)["gpus"] # None =>
            GpusEnd(t) <= batch.at[u].gpus \/ GpusEnd(u) <= batch.at[t].gpus

\* A batch is waited for at least as long as any of its tasks may take.
Waited == node["time"] # None => \A t \in batch.children :
  /\ batch.timeout \in Nat /\ Lim(t)["time"] \in Nat
  /\ Lim(t)["time"] <= batch.timeout

\* Processes are those of the batch that runs.
Children == \A t \in Running : pc = "run" /\ t \in batch.children

IInv == /\ TypeOK
        /\ Waiting /\ Place /\ Packed /\ Balance /\ Placed /\ Waited /\ Children
        /\ (faults = 0 => hung = {})
        /\ DropsNothingWithinMeans

---------------------------------------------------------------------------
(* Limits *)

\* What a task declares is cut to what the node has.
LEMMA UpdateCuts ==
  ASSUME NEW l \in LimitsSet, NEW n \in LimitsSet
  PROVE  /\ Update(l, n) \in LimitsSet
         /\ \A x \in Consumed \cup Capped \cup {"image"} : n[x] # None =>
              Update(l, n)[x] \in Nat /\ Update(l, n)[x] <= n[x]
         /\ Update(l, n)["gpus"] # None => /\ Update(l, n)["gpus"] \in Nat /\ n["gpus"] \in Nat
                                           /\ Update(l, n)["gpus"] <= n["gpus"]
         /\ Update(l, n)["gpus"] \notin {None, 0} /\ n["gpu_memory"] # None =>
              Update(l, n)["gpu_memory"] \in Nat /\ Update(l, n)["gpu_memory"] <= n["gpu_memory"]
<1> DEFINE raw == [d \in Dims |-> IF d = "gpus" THEN min_none_is_min(l[d], n[d])
                                               ELSE min_none(l[d], n[d])]
<1>1. \A d \in Dims : l[d] \in Value /\ n[d] \in Value
  BY DEF LimitsSet
<1>2. \A a, b \in Value : /\ min_none(a, b) \in Value /\ min_none_is_min(a, b) \in Value
                          /\ b # None => min_none(a, b) \in Nat /\ min_none(a, b) <= b
                          /\ min_none_is_min(a, b) # None =>
                               b \in Nat /\ min_none_is_min(a, b) \in Nat /\ min_none_is_min(a, b) <= b
  BY NoneAssumption DEF Value, min_none, min_none_is_min, Least
<1>3. /\ raw \in LimitsSet
      /\ \A d \in Dims \ {"gpus"} : n[d] # None => raw[d] \in Nat /\ raw[d] <= n[d]
      /\ raw["gpus"] # None => raw["gpus"] \in Nat /\ n["gpus"] \in Nat /\ raw["gpus"] <= n["gpus"]
  BY <1>1, <1>2 DEF LimitsSet, Dims
<1>4. Update(l, n) = IF raw["gpus"] \in {None, 0} THEN [raw EXCEPT !["gpu_memory"] = None] ELSE raw
  BY DEF Update, Correct
<1> HIDE DEF raw
<1>5. /\ Update(l, n) \in LimitsSet
      /\ \A d \in Dims \ {"gpu_memory"} : Update(l, n)[d] = raw[d]
      /\ raw["gpus"] \notin {None, 0} => Update(l, n) = raw
  BY <1>3, <1>4 DEF LimitsSet, Value
<1> QED
  BY <1>3, <1>5, DimensionsAssumption DEF Dims

LEMMA NodeLimits ==
  ASSUME TypeOK
  PROVE  /\ node \in LimitsSet /\ Correct(node) \in LimitsSet
         /\ \A x \in Dims \ {"gpu_memory"} : Correct(node)[x] = node[x]
         /\ node["gpus"] \notin {None, 0} => Correct(node) = node
         /\ {"cpus", "time", "gpus", "gpu_memory", "image"} \subseteq Dims
         /\ "cpus" \in Consumed /\ "time" \in Capped
BY ForemanAssumption, DimensionsAssumption DEF TypeOK, Correct, LimitsSet, Dims, Value

LEMMA LimFacts ==
  ASSUME TypeOK, NEW t \in Tasks, Known(t)
  PROVE  /\ Lim(t) \in LimitsSet /\ Updated(t).limits = Lim(t) /\ Updated(t).image = desc[t].image
         /\ desc[t].image \in Images /\ desc[t].exclusive \in BOOLEAN
         /\ \A x \in Consumed \cup Capped \cup {"image"} : node[x] # None =>
              Lim(t)[x] \in Nat /\ Lim(t)[x] <= node[x]
         /\ Lim(t)["gpus"] # None => /\ Lim(t)["gpus"] \in Nat /\ node["gpus"] \in Nat
                                     /\ Lim(t)["gpus"] <= node["gpus"]
         /\ Lim(t)["gpus"] \notin {None, 0} /\ node["gpu_memory"] # None =>
              Lim(t)["gpu_memory"] \in Nat /\ Lim(t)["gpu_memory"] <= node["gpu_memory"]
<1>1. desc[t].limits \in LimitsSet /\ node \in LimitsSet
  BY NodeLimits DEF Known, Description
<1>2. /\ Lim(t) = Update(desc[t].limits, node) /\ Updated(t).limits = Lim(t)
      /\ Updated(t).image = desc[t].image /\ desc[t].image \in Images /\ desc[t].exclusive \in BOOLEAN
  BY DEF Lim, Updated, Known, Description
<1> QED
  BY <1>1, <1>2, UpdateCuts

---------------------------------------------------------------------------
(* Batches *)

LEMMA NoBatchFacts ==
  ASSUME TypeOK
  PROVE  /\ NoBatch \in BatchType
         /\ NoBatch.children = {} /\ NoBatch.resources = Correct(node)
         /\ NoBatch.cpus_offset = 0 /\ NoBatch.gpus_offset = 0
         /\ NoBatch.image_usage = [i \in Images |-> 0]
<1>1. Correct(node) \in [Dims -> Nat \cup {None}]
  BY NodeLimits DEF LimitsSet, Value
<1> QED
  BY <1>1 DEF NoBatch, BatchType

LEMMA BatchFields ==
  ASSUME NEW b \in BatchType
  PROVE  /\ b.children \in SUBSET Tasks /\ b.resources \in [Dims -> Nat \cup {None}]
         /\ b.image_usage \in [Images -> Nat] /\ b.cpus_offset \in Nat /\ b.gpus_offset \in Nat
         /\ b.timeout \in Nat \cup {-1, None}
         /\ \A t \in Tasks : b.at[t].cpus \in Nat /\ b.at[t].gpus \in Nat
         /\ b.at \in [Tasks -> [cpus : Nat, gpus : Nat]]
         /\ b.refused \in SUBSET Images
BY DEF BatchType

\* An empty batch is as good as any.
LEMMA EmptyBatch ==
  ASSUME TypeOK', batch' = NoBatch', pc' \in {"ask", "volume", "pack"}, Waiting',
         pc' = "ask" <=> tasks' = <<>>, Running' = {},
         faults' = 0 => hung' = {}, DropsNothingWithinMeans'
  PROVE  IInv'
<1>1. /\ NoBatch'.children = {} /\ NoBatch'.resources = Correct(node')
      /\ NoBatch'.cpus_offset = 0 /\ NoBatch'.gpus_offset = 0
  BY DEF NoBatch, Correct
<1>2. node' \in LimitsSet
  BY ForemanAssumption DEF TypeOK
<1>3. /\ "cpus" \in Dims /\ "gpus" \in Dims /\ Correct(node')["cpus"] = node'["cpus"]
      /\ Correct(node')["gpus"] = node'["gpus"]
      /\ node'["cpus"] # None => node'["cpus"] \in Nat
      /\ node'["gpus"] # None => node'["gpus"] \in Nat
  BY <1>2, ForemanAssumption, DimensionsAssumption DEF Correct, LimitsSet, Dims, Value
<1>4. Place'
  BY DEF Place
<1>5. Balance'
  BY <1>1, <1>3 DEF Balance, Correct
<1>6. Packed' /\ Placed' /\ Waited' /\ Children'
  <2>1. batch'.children = {}
    BY <1>1
  <2>2. IsFiniteSet({}) /\ Cardinality({}) = 0
    BY FS_EmptySet
  <2> QED
    BY <2>1, <2>2, ForemanAssumption DEF Packed, Placed, Waited, Children
<1> QED
  BY <1>4, <1>5, <1>6 DEF IInv

\* Nothing of the batch, the loop or the node changes: a step of a process.
LEMMA ProcessKeeps ==
  ASSUME IInv, TypeOK', UNCHANGED <<node, desc, pc, tasks, batch>>, Running' \subseteq Running,
         faults' = 0 => faults = 0 /\ hung' = {},
         faults' = 0 => \A t \in Tasks : fate'[t] = "dropped" => fate[t] = "dropped"
  PROVE  IInv'
<1>1. \A t : Lim(t)' = Lim(t) /\ CpusEnd(t)' = CpusEnd(t) /\ GpusEnd(t)' = GpusEnd(t)
  BY DEF Lim, Updated, CpusEnd, GpusEnd
<1>2. Waiting' /\ Packed' /\ Placed' /\ Waited'
  BY <1>1 DEF IInv, Waiting, Packed, Placed, Waited, Known
<1>3. Place' /\ Balance'
  <2>1. NoBatch' = NoBatch /\ Correct(node)' = Correct(node)
    BY DEF NoBatch, Correct
  <2> QED
    BY <2>1 DEF IInv, Place, Balance
<1>4. Children' /\ DropsNothingWithinMeans'
  BY DEF IInv, Children, DropsNothingWithinMeans, NothingDropped, WithinMeans
<1> QED
  BY <1>2, <1>3, <1>4 DEF IInv

\* The batch stays while the loop goes on.
SameBatch ==
  /\ batch'.children = batch.children /\ batch'.resources = batch.resources
  /\ batch'.image_usage = batch.image_usage /\ batch'.timeout = batch.timeout
  /\ batch'.cpus_offset = batch.cpus_offset /\ batch'.gpus_offset = batch.gpus_offset
  /\ batch'.at = batch.at

LEMMA LoopKeeps ==
  ASSUME IInv, TypeOK', UNCHANGED <<node, desc, tasks, fate, hung>>, SameBatch,
         faults' = 0 => faults = 0, batch.children # {}, pc' \in {"images", "run"},
         \A t \in Running' : pc' = "run" /\ t \in batch.children
  PROVE  IInv'
<1>1. \A t : Lim(t)' = Lim(t) /\ CpusEnd(t)' = CpusEnd(t) /\ GpusEnd(t)' = GpusEnd(t)
  BY DEF Lim, Updated, CpusEnd, GpusEnd, SameBatch
<1>2. Waiting' /\ Packed' /\ Placed' /\ Waited'
  BY <1>1 DEF IInv, Waiting, Packed, Placed, Waited, Known, SameBatch
<1>3. Place' /\ Balance'
  <2>1. Correct(node)' = Correct(node)
    BY DEF Correct
  <2> QED
    BY <2>1 DEF IInv, Place, Balance, SameBatch
<1>4. Children' /\ DropsNothingWithinMeans'
  BY DEF IInv, Children, DropsNothingWithinMeans, NothingDropped, WithinMeans, SameBatch
<1>5. faults' = 0 => hung' = {}
  BY DEF IInv
<1> QED
  BY <1>2, <1>3, <1>4, <1>5 DEF IInv

\* What Raise does, and when it may.
LEMMA RaiseKeeps ==
  ASSUME IInv, Raise, UNCHANGED <<node, desc>>, images' \in SUBSET Images,
         faults' \in 0 .. MaxFaults, faults' = 0 => faults = 0 /\ ~WithinMeans,
         child' \in [Tasks -> Steps], Running' = {}, hung' \in SUBSET hung
  PROVE  IInv'
<1>1. TypeOK /\ NoBatch \in BatchType /\ NoBatch' = NoBatch
  BY NoBatchFacts DEF IInv, NoBatch, Correct
<1>2. TypeOK'
  <2>1. fate' \in [Tasks -> Fates]
    BY <1>1 DEF TypeOK, Raise, Fates
  <2>2. tasks' \in Seq(Tasks)
    BY DEF Raise
  <2> QED
    BY <1>1, <2>1, <2>2 DEF TypeOK, Raise
<1>3. Waiting'
  BY DEF Raise, Waiting
<1>4. (faults' = 0 => hung' = {}) /\ DropsNothingWithinMeans'
  BY DEF IInv, DropsNothingWithinMeans, NothingDropped, WithinMeans
<1> QED
  BY <1>1, <1>2, <1>3, <1>4, EmptyBatch DEF Raise

---------------------------------------------------------------------------
(* The steps *)

LEMMA ReceiveKeeps ==
  ASSUME IInv, NEW s \in Answer, NEW d \in [{s[i] : i \in DOMAIN s} -> Descriptions], Receive(s, d)
  PROVE  IInv'
<1>1. /\ TypeOK /\ pc = "ask" /\ tasks = <<>> /\ batch = NoBatch /\ NoBatch' = NoBatch /\ Running = {}
  BY DEF IInv, Place, Children, Receive, NoBatch, Correct
<1>2. /\ s \in Seq(Tasks) /\ s # <<>> /\ \A i, j \in DOMAIN s : i # j => s[i] # s[j]
      /\ \A i \in DOMAIN s : s[i] \in Tasks
  BY ForemanAssumption DEF Answer
<1>3. \A i \in DOMAIN s : desc'[s[i]] \in Description
  BY <1>1, <1>2, ForemanAssumption DEF Receive, TypeOK
<1>4. desc' \in [Tasks -> Description \cup {None}] /\ fate' \in [Tasks -> Fates]
  BY <1>1, <1>2, ForemanAssumption DEF Receive, TypeOK, Fates
<1>5. TypeOK'
  BY <1>1, <1>2, <1>4 DEF Receive, TypeOK
<1>6. Waiting'
  BY <1>1, <1>2, <1>3, NoBatchFacts DEF Receive, Waiting, Known
<1>7. DropsNothingWithinMeans' /\ (faults' = 0 => hung' = {})
  BY DEF IInv, DropsNothingWithinMeans, NothingDropped, WithinMeans, Receive
<1>8. Running' = {}
  BY <1>1 DEF Running, Receive
<1>9. pc' = "volume" /\ tasks' # <<>> /\ batch' = NoBatch'
  BY <1>1, <1>2 DEF Receive
<1> QED
  BY <1>5, <1>6, <1>7, <1>8, <1>9, EmptyBatch

LEMMA CheckVolumeKeeps == ASSUME IInv, CheckVolume PROVE IInv'
<1>1. /\ TypeOK /\ pc = "volume" /\ tasks # <<>> /\ batch = NoBatch /\ NoBatch' = NoBatch /\ Running = {}
      /\ UNCHANGED <<node, desc, child, hung, images>> /\ Running' = Running
  BY DEF IInv, Place, Children, CheckVolume, NoBatch, Correct, Running
<1>2. CASE pc' = "pack" /\ UNCHANGED <<fate, tasks, batch, faults>>
  <2>1. TypeOK' /\ Waiting'
    BY <1>1, <1>2 DEF IInv, TypeOK, Waiting, Known
  <2>2. DropsNothingWithinMeans' /\ (faults' = 0 => hung' = {})
    BY <1>1, <1>2 DEF IInv, DropsNothingWithinMeans, NothingDropped, WithinMeans
  <2> QED
    BY <1>1, <1>2, <2>1, <2>2, EmptyBatch
<1>3. CASE Fault /\ Raise
  <2>1. faults' \in 0 .. MaxFaults /\ faults' # 0
    BY <1>1, <1>3, ForemanAssumption DEF Fault, TypeOK
  <2> QED
    BY <1>1, <1>3, <2>1, RaiseKeeps DEF TypeOK
<1> QED
  BY <1>2, <1>3 DEF CheckVolume

LEMMA CloseKeeps == ASSUME IInv, Close PROVE IInv'
<1>1. /\ TypeOK /\ pc = "pack" /\ Running = {} /\ Running' = Running /\ pc' = "images"
      /\ UNCHANGED <<node, desc, fate, tasks, batch, child, hung, images, faults>>
  BY DEF IInv, Children, Close, Running
<1>2. TypeOK'
  BY <1>1 DEF TypeOK
<1>3. SUFFICES ASSUME batch.children = {} PROVE FALSE
  BY <1>1, <1>2, LoopKeeps DEF SameBatch
<1>4. tasks # <<>> /\ batch = NoBatch /\ ~MayJoin(Head(tasks))
  BY <1>1, <1>3 DEF IInv, Place, Close
<1>5. PICK t \in Tasks : t = Head(tasks) /\ Known(t)
  <2>1. tasks \in Seq(Tasks) /\ Head(tasks) = tasks[1] /\ 1 \in DOMAIN tasks /\ Head(tasks) \in Tasks
    BY <1>1, <1>4 DEF TypeOK
  <2> QED
    BY <2>1 DEF IInv, Waiting
<1>6. batch.resources = Correct(node) /\ batch.image_usage = [i \in Images |-> 0]
  BY <1>1, <1>4, NoBatchFacts
<1>7. /\ node \in LimitsSet
      /\ \A x \in Dims \ {"gpu_memory"} : Correct(node)[x] = node[x]
      /\ node["gpus"] \notin {None, 0} => Correct(node) = node
      /\ \A x \in Dims : node[x] \in Nat \cup {None}
  BY <1>1, NodeLimits DEF LimitsSet, Value
<1>8. Shares(t)
  <2>1. SUFFICES ASSUME NEW x \in Consumed PROVE Under(Lim(t)[x], batch.resources[x])
    BY DEF Shares
  <2>2. x \in Dims \ {"gpu_memory"}
    BY DimensionsAssumption DEF Dims
  <2>3. node[x] # None => Lim(t)[x] \in Nat /\ Lim(t)[x] <= node[x]
    BY <1>1, <1>5, LimFacts
  <2> QED
    BY <1>6, <1>7, <2>2, <2>3, NoneAssumption DEF Under
<1>9. Lim(t)["gpus"] \notin {None, 0} =>
        /\ batch.resources["gpus"] # None /\ Lim(t)["gpus"] <= batch.resources["gpus"]
        /\ Under(Lim(t)["gpu_memory"], batch.resources["gpu_memory"])
  <2> SUFFICES ASSUME Lim(t)["gpus"] \notin {None, 0}
               PROVE  /\ batch.resources["gpus"] # None /\ Lim(t)["gpus"] <= batch.resources["gpus"]
                      /\ Under(Lim(t)["gpu_memory"], batch.resources["gpu_memory"])
    OBVIOUS
  <2>1. Lim(t)["gpus"] \in Nat /\ node["gpus"] \in Nat /\ Lim(t)["gpus"] <= node["gpus"]
    BY <1>1, <1>5, LimFacts
  <2>2. node["gpus"] \notin {None, 0}
    BY <2>1, NoneAssumption
  <2>3. batch.resources = node
    BY <1>6, <1>7, <2>2
  <2>4. node["gpu_memory"] # None => Lim(t)["gpu_memory"] \in Nat /\ Lim(t)["gpu_memory"] <= node["gpu_memory"]
    BY <1>1, <1>5, LimFacts
  <2> QED
    BY <2>1, <2>2, <2>3, <2>4, NoneAssumption DEF Under
<1>10. batch.resources["image"] # None => ImageAdd(Updated(t), batch.image_usage) <= batch.resources["image"]
  <2>1. /\ Updated(t).limits = Lim(t) /\ Updated(t).image \in Images
        /\ node["image"] # None => Lim(t)["image"] \in Nat /\ Lim(t)["image"] <= node["image"]
    BY <1>1, <1>5, LimFacts
  <2>2. "image" \in Dims \ {"gpu_memory"}
    BY DEF Dims
  <2> QED
    BY <1>6, <1>7, <2>1, <2>2 DEF ImageAdd, Larger
<1>11. Cardinality(batch.children) < Concurency
  BY <1>3, FS_EmptySet, ForemanAssumption
<1> QED
  BY <1>3, <1>4, <1>5, <1>8, <1>9, <1>10, <1>11 DEF MayJoin, Fits

LEMMA ManageBatch ==
  ASSUME TypeOK, NEW K, NEW L, Manage(K, L)
  PROVE  SameBatch /\ batch' \in BatchType /\ batch'.refused = L
<1>1. batch \in BatchType /\ batch' = [batch EXCEPT !.refused = L] /\ L \in SUBSET Images
  BY DEF TypeOK, Manage
<1> QED
  BY <1>1 DEF BatchType, SameBatch

LEMMA ManageKeeps ==
  ASSUME IInv, NEW K \in SUBSET Images, NEW L \in SUBSET Images, Manage(K, L)
  PROVE  IInv'
<1>1. /\ TypeOK /\ pc = "images" /\ batch.children # {} /\ Running = {} /\ pc' = "run" /\ StartAll
      /\ UNCHANGED <<node, desc, fate, tasks, hung>> /\ images' = K \cup Necessary \cup L
  BY DEF IInv, Children, Manage, Place
<1>2. Necessary \subseteq Images
  BY <1>1, LimFacts DEF Necessary, IInv, Packed, TypeOK, BatchType
<1>3. child' \in [Tasks -> Steps] /\ \A t \in Running' : t \in batch.children
  BY <1>1 DEF StartAll, TypeOK, Steps, Running
<1>4. faults' \in 0 .. MaxFaults /\ (faults' = 0 => faults = 0)
  BY <1>1, ForemanAssumption DEF TypeOK, Manage, Fault
<1>5. SameBatch /\ batch' \in BatchType
  BY <1>1, ManageBatch
<1>6. TypeOK'
  BY <1>1, <1>2, <1>3, <1>4, <1>5 DEF TypeOK
<1> QED
  BY <1>1, <1>3, <1>4, <1>5, <1>6, LoopKeeps

LEMMA NoManageKeeps == ASSUME IInv, NoManage PROVE IInv'
<1>1. /\ TypeOK /\ pc = "images" /\ batch.children # {} /\ Running = {} /\ pc' = "run" /\ StartAll
      /\ UNCHANGED <<node, desc, fate, tasks, batch, hung, images, faults>>
  BY DEF IInv, Children, NoManage, Place
<1>2. child' \in [Tasks -> Steps] /\ \A t \in Running' : t \in batch.children
  BY <1>1 DEF StartAll, TypeOK, Steps, Running
<1> QED
  BY <1>1, <1>2, LoopKeeps DEF TypeOK, SameBatch

LEMMA ManageFailsKeeps ==
  ASSUME IInv, NEW K \in SUBSET Images, NEW L \in SUBSET Images, NEW P \in SUBSET Images,
         ManageFails(K, L, P)
  PROVE  IInv'
<1>1. /\ TypeOK /\ pc = "images" /\ Running = {} /\ Running' = Running /\ Raise
      /\ UNCHANGED <<node, desc, child, hung>> /\ images' = K \cup L \cup P
  BY DEF IInv, Children, ManageFails, Running
<1>2. faults' \in 0 .. MaxFaults /\ faults' # 0
  BY <1>1, ForemanAssumption DEF TypeOK, ManageFails, Fault, Least
<1> QED
  BY <1>1, <1>2, RaiseKeeps DEF TypeOK

LEMMA JoinKeeps == ASSUME IInv, Join PROVE IInv'
<1>1. /\ TypeOK /\ batch' = NoBatch /\ NoBatch' = NoBatch /\ pc' = IF tasks = <<>> THEN "ask" ELSE "pack"
      /\ UNCHANGED <<node, desc, fate, tasks, child, hung, images, faults>> /\ Running' = Running
  BY DEF IInv, Join, NoBatch, Correct, Running
<1>2. Running = {}
  BY DEF Join, IInv, Children, Running
<1>3. TypeOK' /\ Waiting'
  BY <1>1, NoBatchFacts DEF IInv, TypeOK, Waiting, Known
<1>4. DropsNothingWithinMeans' /\ (faults' = 0 => hung' = {})
  BY <1>1 DEF IInv, DropsNothingWithinMeans, NothingDropped, WithinMeans
<1> QED
  BY <1>1, <1>2, <1>3, <1>4, EmptyBatch

---------------------------------------------------------------------------
(* The processes *)

LEMMA SetupKeeps == ASSUME IInv, NEW t \in Tasks, Setup(t) PROVE IInv'
<1>1. TypeOK' /\ Running' \subseteq Running
  BY DEF IInv, TypeOK, Setup, Goes, Steps, Running
<1> QED
  BY <1>1, ProcessKeeps DEF Setup, IInv

LEMMA Stage0EndsKeeps == ASSUME IInv, NEW t \in Tasks, Stage0Ends(t) PROVE IInv'
<1>1. TypeOK' /\ Running' \subseteq Running
  BY DEF IInv, TypeOK, Stage0Ends, Goes, Steps, Running
<1> QED
  BY <1>1, ProcessKeeps DEF Stage0Ends, IInv

LEMMA PutKeeps == ASSUME IInv, NEW t \in Tasks, Put(t) PROVE IInv'
<1>1. TypeOK' /\ Running' \subseteq Running
  BY DEF IInv, TypeOK, Put, Goes, Steps, Running, Fates
<1>2. \A s \in Tasks : fate'[s] = "dropped" => fate[s] = "dropped"
  BY DEF IInv, TypeOK, Put
<1> QED
  BY <1>1, <1>2, ProcessKeeps DEF Put, IInv

LEMMA FailsKeeps == ASSUME IInv, NEW t \in Tasks, Fails(t) PROVE IInv'
<1>1. faults' \in 0 .. MaxFaults /\ faults' # 0
  BY ForemanAssumption DEF IInv, TypeOK, Fails, Fault
<1>2. TypeOK' /\ Running' \subseteq Running
  BY <1>1 DEF IInv, TypeOK, Fails, Goes, Steps, Running, Fates
<1> QED
  BY <1>1, <1>2, ProcessKeeps DEF Fails

LEMMA HangsKeeps == ASSUME IInv, NEW t \in Tasks, Hangs(t) PROVE IInv'
<1>1. faults' \in 0 .. MaxFaults /\ faults' # 0
  BY ForemanAssumption DEF IInv, TypeOK, Hangs, Fault
<1>2. TypeOK' /\ Running' \subseteq Running
  BY <1>1 DEF IInv, TypeOK, Hangs, Running
<1> QED
  BY <1>1, <1>2, ProcessKeeps DEF Hangs

LEMMA ResetKeeps == ASSUME IInv, NEW t \in Tasks, Reset(t) PROVE IInv'
<1>1. TypeOK /\ t \in batch.children /\ Known(t)
  BY DEF IInv, Reset, Children, Running, Packed
<1>2. child' \in [Tasks -> Steps] /\ Running' = {}
  BY <1>1 DEF TypeOK, Reset, Steps, Running
<1>3. ASSUME faults = 0, WithinMeans PROVE FALSE
  <2>1. hung = {} /\ batch.timeout \in Nat /\ Lim(t)["time"] \in Nat /\ Lim(t)["time"] <= batch.timeout
    BY <1>1, <1>3 DEF IInv, Waited, WithinMeans
  <2> QED
    BY <2>1, NoneAssumption DEF Reset, Outlasts
<1> QED
  BY <1>1, <1>2, <1>3, RaiseKeeps DEF Reset, TypeOK

---------------------------------------------------------------------------
(* A task joins the batch. *)

\* What is left stays at or above zero, and nothing gets lost.
LEMMA JoinedFacts ==
  ASSUME IInv, NEW t \in Tasks, Known(t), Fits(t), Lim(t)["cpus"] # None
  PROVE  /\ Joined(t) \in BatchType
         /\ \A x \in Dims : Joined(t).resources[x] = None <=> batch.resources[x] = None
         /\ Lim(t)["cpus"] \in Nat /\ Joined(t).cpus_offset = batch.cpus_offset + Lim(t)["cpus"]
         /\ node["cpus"] # None =>
              Joined(t).resources["cpus"] = batch.resources["cpus"] - Lim(t)["cpus"]
         /\ Lim(t)["gpus"] # None =>
              /\ Lim(t)["gpus"] \in Nat /\ Joined(t).gpus_offset = batch.gpus_offset + Lim(t)["gpus"]
              /\ Joined(t).resources["gpus"] = batch.resources["gpus"] - Lim(t)["gpus"]
         /\ Lim(t)["gpus"] = None =>
              /\ Joined(t).gpus_offset = batch.gpus_offset
              /\ Joined(t).resources["gpus"] = batch.resources["gpus"]
<1> DEFINE R == batch.resources
           l == Lim(t)
           left == Rest(Updated(t), R, batch.image_usage)
           usage == Usage(Updated(t), R, batch.image_usage)
<1>1. /\ TypeOK /\ R \in [Dims -> Nat \cup {None}] /\ batch.image_usage \in [Images -> Nat]
      /\ batch.cpus_offset \in Nat /\ batch.gpus_offset \in Nat /\ batch.children \in SUBSET Tasks
      /\ batch.timeout \in Nat \cup {-1, None} /\ batch.at \in [Tasks -> [cpus : Nat, gpus : Nat]]
      /\ batch.refused \in SUBSET Images
  BY BatchFields DEF IInv, TypeOK
<1>2. /\ l \in LimitsSet /\ Updated(t).limits = l /\ Updated(t).image \in Images
      /\ \A x \in Consumed \cup {"image"} : node[x] # None => l[x] \in Nat
      /\ l["gpus"] # None => l["gpus"] \in Nat /\ node["gpus"] \in Nat
  BY <1>1, LimFacts
<1>3. /\ \A x \in Dims : l[x] \in Nat \cup {None}
      /\ "cpus" \in Consumed /\ {"cpus", "gpus", "image", "time"} \subseteq Dims
      /\ \A x \in Dims \ {"gpu_memory"} : R[x] = None <=> node[x] = None
      /\ Consumed \subseteq Dims \ {"gpu_memory", "gpus", "image"}
  <2>1. \A x \in Dims : R[x] = None <=> Correct(node)[x] = None
    BY DEF IInv, Balance
  <2> QED
    BY <1>1, <1>2, <2>1, NodeLimits, DimensionsAssumption DEF LimitsSet, Value, Dims
<1>4. \A x \in Consumed : R[x] # None => l[x] \in Nat /\ R[x] - l[x] \in Nat
  <2>1. SUFFICES ASSUME NEW x \in Consumed, R[x] # None PROVE l[x] \in Nat /\ R[x] - l[x] \in Nat
    OBVIOUS
  <2>2. l[x] # None /\ l[x] <= R[x]
    BY <2>1 DEF Fits, Shares, Under
  <2>3. l[x] \in Nat /\ R[x] \in Nat
    BY <1>1, <1>3, <2>1, <2>2
  <2> QED
    BY <2>2, <2>3
<1>5. l["gpus"] # None => /\ R["gpus"] # None /\ l["gpus"] \in Nat /\ R["gpus"] \in Nat
                          /\ R["gpus"] - l["gpus"] \in Nat
  <2>1. SUFFICES ASSUME l["gpus"] # None
                 PROVE  R["gpus"] # None /\ l["gpus"] \in Nat /\ R["gpus"] \in Nat /\ R["gpus"] - l["gpus"] \in Nat
    OBVIOUS
  <2>2. l["gpus"] \in Nat /\ node["gpus"] # None /\ "gpus" \in Dims \ {"gpu_memory"}
    BY <1>2, <1>3, <2>1, NoneAssumption
  <2>3. R["gpus"] \in Nat /\ R["gpus"] # None
    BY <1>1, <1>3, <2>2
  <2>4. l["gpus"] # 0 => l["gpus"] <= R["gpus"]
    BY <2>1 DEF Fits
  <2> QED
    BY <2>2, <2>3, <2>4
<1>6. R["image"] # None =>
        /\ l["image"] \in Nat /\ ImageAdd(Updated(t), batch.image_usage) \in Nat
        /\ R["image"] \in Nat /\ R["image"] - ImageAdd(Updated(t), batch.image_usage) \in Nat
  <2>1. SUFFICES ASSUME R["image"] # None
                 PROVE  /\ l["image"] \in Nat /\ ImageAdd(Updated(t), batch.image_usage) \in Nat
                        /\ R["image"] \in Nat /\ R["image"] - ImageAdd(Updated(t), batch.image_usage) \in Nat
    OBVIOUS
  <2>2. l["image"] \in Nat /\ R["image"] \in Nat
    BY <1>1, <1>2, <1>3, <2>1
  <2>3. ImageAdd(Updated(t), batch.image_usage) \in Nat
    BY <1>1, <1>2, <2>2 DEF ImageAdd, Larger
  <2>4. ImageAdd(Updated(t), batch.image_usage) <= R["image"]
    BY <2>1 DEF Fits
  <2> QED
    BY <2>2, <2>3, <2>4
<1>7. /\ left \in [Dims -> Nat \cup {None}]
      /\ \A x \in Dims : left[x] = None <=> R[x] = None
      /\ R["cpus"] # None => left["cpus"] = R["cpus"] - l["cpus"]
      /\ l["gpus"] # None => left["gpus"] = R["gpus"] - l["gpus"]
      /\ l["gpus"] = None => left["gpus"] = R["gpus"]
  <2>1. left = [x \in Dims |->
                 IF R[x] = None THEN None
                 ELSE IF x \in Consumed THEN R[x] - l[x]
                 ELSE IF x = "gpus" /\ l[x] # None THEN R[x] - l[x]
                 ELSE IF x = "image" THEN R[x] - ImageAdd(Updated(t), batch.image_usage)
                 ELSE R[x]]
    BY <1>2 DEF Rest
  <2> HIDE DEF left
  <2>2. ASSUME NEW x \in Dims PROVE left[x] \in Nat \cup {None} /\ (left[x] = None <=> R[x] = None)
    BY <1>1, <1>4, <1>5, <1>6, <2>1, NoneAssumption
  <2>3. left \in [Dims -> Nat \cup {None}]
    BY <2>1, <2>2
  <2> QED
    BY <1>3, <1>5, <2>1, <2>2, <2>3
<1>8. usage \in [Images -> Nat]
  BY <1>1, <1>2, <1>6 DEF Usage, Larger
<1>9. Longer(l, batch.timeout) \in Nat \cup {-1, None}
  BY <1>1, <1>3 DEF Longer, Larger
<1>10. l["cpus"] \in Nat
  BY <1>3
<1> DEFINE goff == IF R["gpus"] # None /\ l["gpus"] # None
                   THEN NextOffset(batch.gpus_offset, l["gpus"]) ELSE batch.gpus_offset
           at == [batch.at EXCEPT ![t] = [cpus |-> batch.cpus_offset, gpus |-> batch.gpus_offset]]
<1>11. /\ NextOffset(batch.cpus_offset, l["cpus"]) = batch.cpus_offset + l["cpus"]
       /\ l["gpus"] # None => goff = batch.gpus_offset + l["gpus"]
       /\ l["gpus"] = None => goff = batch.gpus_offset
       /\ goff \in Nat /\ batch.cpus_offset + l["cpus"] \in Nat
  BY <1>1, <1>5, <1>10 DEF NextOffset
<1>12. at \in [Tasks -> [cpus : Nat, gpus : Nat]]
  BY <1>1
<1>13. Joined(t) = [children |-> batch.children \cup {t}, resources |-> left, image_usage |-> usage,
                    cpus_offset |-> batch.cpus_offset + l["cpus"], gpus_offset |-> goff,
                    timeout |-> Longer(l, batch.timeout), at |-> at, refused |-> batch.refused]
  BY <1>11, Zenon DEF Joined
<1> HIDE DEF left, usage, goff, at
<1>14. Joined(t) \in BatchType
  BY <1>1, <1>7, <1>8, <1>9, <1>11, <1>12, <1>13 DEF BatchType
<1> QED
  BY <1>3, <1>5, <1>7, <1>10, <1>11, <1>13, <1>14

LEMMA AddKeeps == ASSUME IInv, Add PROVE IInv'
<1>1. /\ TypeOK /\ pc = "pack" /\ tasks # <<>> /\ tasks \in Seq(Tasks)
      /\ UNCHANGED <<node, desc, child, hung, images, faults>> /\ Running = {} /\ Running' = {}
  BY DEF IInv, Children, Add, TypeOK, Running
<1>2. PICK t \in Tasks : /\ t = Head(tasks) /\ Known(t) /\ t \notin batch.children
                         /\ \A i \in DOMAIN tasks \ {1} : tasks[i] # t
  <2>1. Head(tasks) = tasks[1] /\ 1 \in DOMAIN tasks /\ Head(tasks) \in Tasks
    BY <1>1
  <2> QED
    BY <2>1 DEF IInv, Waiting
<1>3. MayJoin(t)
  BY <1>2 DEF Add
<1>4. CASE Lim(t)["cpus"] = None /\ Raise
  <2>1. WithinMeans => FALSE
    BY <1>1, <1>2, <1>4, LimFacts, NodeLimits, NoneAssumption DEF WithinMeans
  <2> QED
    BY <1>1, <1>4, <2>1, RaiseKeeps DEF TypeOK
<1>5. CASE /\ Lim(t)["cpus"] # None /\ batch' = Joined(t) /\ tasks' = Tail(tasks)
           /\ pc' = IF desc[t].exclusive THEN "images" ELSE "pack"
           /\ UNCHANGED fate
  <2> DEFINE b == Joined(t)
  <2>1. /\ b \in BatchType /\ b.children = batch.children \cup {t}
        /\ b.at = [batch.at EXCEPT ![t] = [cpus |-> batch.cpus_offset, gpus |-> batch.gpus_offset]]
        /\ b.timeout = Longer(Lim(t), batch.timeout)
    BY <1>1, <1>2, <1>3, <1>5, JoinedFacts DEF Joined, MayJoin
  <2>2. /\ \A x \in Dims : b.resources[x] = None <=> batch.resources[x] = None
        /\ Lim(t)["cpus"] \in Nat /\ b.cpus_offset = batch.cpus_offset + Lim(t)["cpus"]
        /\ node["cpus"] # None => b.resources["cpus"] = batch.resources["cpus"] - Lim(t)["cpus"]
        /\ Lim(t)["gpus"] # None =>
             /\ Lim(t)["gpus"] \in Nat /\ b.gpus_offset = batch.gpus_offset + Lim(t)["gpus"]
             /\ b.resources["gpus"] = batch.resources["gpus"] - Lim(t)["gpus"]
        /\ Lim(t)["gpus"] = None =>
             b.gpus_offset = batch.gpus_offset /\ b.resources["gpus"] = batch.resources["gpus"]
    BY <1>2, <1>3, <1>5, JoinedFacts DEF MayJoin
  <2> HIDE DEF b
  <2>3. /\ batch \in BatchType /\ batch.children \in SUBSET Tasks
        /\ batch.cpus_offset \in Nat /\ batch.gpus_offset \in Nat /\ batch.timeout \in Nat \cup {-1, None}
        /\ batch.at \in [Tasks -> [cpus : Nat, gpus : Nat]]
        /\ batch.resources \in [Dims -> Nat \cup {None}] /\ b.resources \in [Dims -> Nat \cup {None}]
        /\ b.timeout \in Nat \cup {-1, None}
    BY <1>1, <2>1, BatchFields DEF TypeOK
  <2>4. batch' = b
    BY <1>5 DEF b
  <2>5. \A s : Lim(s)' = Lim(s) /\ (Known(s)' <=> Known(s))
    BY <1>1 DEF Lim, Updated, Known
  <2>6. Tail(tasks) \in Seq(Tasks) /\ \A i \in DOMAIN Tail(tasks) : i + 1 \in DOMAIN tasks \ {1} /\ Tail(tasks)[i] = tasks[i + 1]
    BY <1>1
  <2>7. TypeOK'
    BY <1>1, <1>5, <2>1, <2>4, <2>6 DEF TypeOK
  <2>8. Waiting'
    <3>1. \A i \in DOMAIN Tail(tasks) : Known(Tail(tasks)[i]) /\ Tail(tasks)[i] \notin b.children
      BY <1>2, <2>1, <2>6 DEF IInv, Waiting
    <3>2. \A i, j \in DOMAIN Tail(tasks) : i # j => Tail(tasks)[i] # Tail(tasks)[j]
      BY <2>6 DEF IInv, Waiting
    <3> QED
      BY <1>5, <2>4, <2>5, <3>1, <3>2 DEF Waiting
  <2>9. Place'
    BY <1>5, <2>1, <2>4 DEF Place
  <2>10. Packed'
    <3>1. IsFiniteSet(b.children) /\ Cardinality(b.children) = Cardinality(batch.children) + 1
      BY <1>2, <2>1, FS_AddElement DEF IInv, Packed
    <3>2. Cardinality(batch.children) \in Nat /\ Cardinality(batch.children) < Concurency
      BY <1>3, FS_CardinalityType DEF IInv, Packed, MayJoin
    <3>3. Cardinality(b.children) <= Concurency
      BY <3>1, <3>2, ForemanAssumption
    <3>4. \A s \in batch.children : ~desc[s].exclusive
      BY <1>1 DEF IInv, Packed
    <3>5. desc[t].exclusive => pc' = "images" /\ b.children = {t}
      BY <1>3, <1>5, <2>1 DEF MayJoin
    <3> QED
      BY <1>1, <1>2, <2>1, <2>4, <2>5, <3>1, <3>3, <3>4, <3>5 DEF IInv, Packed
  <2>11. Balance'
    <3>1. /\ \A x \in Dims : batch.resources[x] = None <=> Correct(node)[x] = None
          /\ node["cpus"] # None => batch.cpus_offset + batch.resources["cpus"] = node["cpus"]
          /\ node["gpus"] # None => batch.gpus_offset + batch.resources["gpus"] = node["gpus"]
      BY DEF IInv, Balance
    <3>2. /\ "cpus" \in Dims /\ "gpus" \in Dims
          /\ node["cpus"] # None => batch.resources["cpus"] \in Nat
          /\ node["gpus"] # None => batch.resources["gpus"] \in Nat
      BY <1>1, <2>3, <3>1, NodeLimits, DimensionsAssumption DEF Dims
    <3>3. \A x \in Dims : b.resources[x] = None <=> Correct(node)[x] = None
      BY <2>2, <3>1
    <3>4. node["cpus"] # None => b.cpus_offset + b.resources["cpus"] = node["cpus"]
      BY <2>2, <2>3, <3>1, <3>2
    <3>5. node["gpus"] # None => b.gpus_offset + b.resources["gpus"] = node["gpus"]
      BY <2>2, <2>3, <3>1, <3>2
    <3>6. node' = node /\ Correct(node)' = Correct(node)
      BY <1>1 DEF Correct
    <3> QED
      BY <2>4, <3>3, <3>4, <3>5, <3>6 DEF Balance
  <2>12. Placed'
    <3>1. /\ b.at[t].cpus = batch.cpus_offset /\ b.at[t].gpus = batch.gpus_offset
          /\ \A s \in batch.children : b.at[s] = batch.at[s] /\ s # t
      BY <1>2, <2>1, <2>3
    <3>2. ASSUME NEW s \in batch.children
          PROVE  /\ s \in Tasks /\ batch.at[s].cpus \in Nat /\ batch.at[s].gpus \in Nat
                 /\ Lim(s)["cpus"] \in Nat /\ Lim(s)["gpus"] \in Nat \cup {None}
                 /\ batch.at[s].cpus + Lim(s)["cpus"] <= batch.cpus_offset
                 /\ Lim(s)["gpus"] # None => batch.at[s].gpus + Lim(s)["gpus"] <= batch.gpus_offset
      <4>1. s \in Tasks /\ Known(s) /\ Lim(s)["cpus"] # None
        BY <2>3 DEF IInv, Packed, Placed
      <4>2. Lim(s)["cpus"] \in Nat /\ Lim(s)["gpus"] \in Nat \cup {None}
        BY <1>1, <4>1, LimFacts, NodeLimits DEF LimitsSet, Value
      <4> QED
        BY <2>3, <4>1, <4>2 DEF IInv, Placed, CpusEnd, GpusEnd
    <3>3. ASSUME NEW s \in b.children
          PROVE  /\ Lim(s)["cpus"] # None /\ b.at[s].cpus + Lim(s)["cpus"] <= b.cpus_offset
                 /\ Lim(s)["gpus"] # None => b.at[s].gpus + Lim(s)["gpus"] <= b.gpus_offset
      <4>1. CASE s = t
        BY <1>5, <2>2, <2>3, <3>1, <4>1
      <4>2. CASE s \in batch.children
        <5>1. Lim(s)["cpus"] # None /\ b.at[s].cpus + Lim(s)["cpus"] <= b.cpus_offset
          BY <2>2, <2>3, <3>1, <3>2, <4>2, NoneAssumption
        <5>2. Lim(s)["gpus"] # None => b.at[s].gpus + Lim(s)["gpus"] <= b.gpus_offset
          BY <2>2, <2>3, <3>1, <3>2, <4>2
        <5> QED
          BY <5>1, <5>2
      <4> QED
        BY <2>1, <4>1, <4>2
    <3>4. ASSUME NEW s \in b.children, NEW u \in b.children, s # u
          PROVE  /\ \/ b.at[s].cpus + Lim(s)["cpus"] <= b.at[u].cpus
                    \/ b.at[u].cpus + Lim(u)["cpus"] <= b.at[s].cpus
                 /\ Lim(s)["gpus"] # None /\ Lim(u)["gpus"] # None =>
                      \/ b.at[s].gpus + Lim(s)["gpus"] <= b.at[u].gpus
                      \/ b.at[u].gpus + Lim(u)["gpus"] <= b.at[s].gpus
      <4>1. CASE s = t
        BY <2>1, <3>1, <3>2, <3>4, <4>1
      <4>2. CASE u = t
        BY <2>1, <3>1, <3>2, <3>4, <4>2
      <4>3. CASE s \in batch.children /\ u \in batch.children
        BY <3>1, <3>4, <4>3 DEF IInv, Placed, CpusEnd, GpusEnd
      <4> QED
        BY <2>1, <4>1, <4>2, <4>3
    <3>5. \A s : CpusEnd(s)' = b.at[s].cpus + Lim(s)["cpus"] /\ GpusEnd(s)' = b.at[s].gpus + Lim(s)["gpus"]
      BY <2>4, <2>5 DEF CpusEnd, GpusEnd
    <3> QED
      BY <2>4, <2>5, <3>3, <3>4, <3>5 DEF Placed
  <2>13. Waited'
    <3>1. SUFFICES ASSUME node["time"] # None
                   PROVE  \A s \in b.children : /\ b.timeout \in Nat /\ Lim(s)["time"] \in Nat
                                                /\ Lim(s)["time"] <= b.timeout
      BY <1>1, <2>4, <2>5 DEF Waited
    <3>2. Lim(t)["time"] \in Nat
      BY <1>1, <1>2, <3>1, LimFacts, NodeLimits
    <3>3. CASE batch.children = {}
      <4>1. batch.timeout = None
        BY <3>3 DEF IInv, Place, NoBatch
      <4> QED
        BY <2>1, <3>2, <3>3, <4>1, NoneAssumption DEF Longer
    <3>4. CASE batch.children # {}
      <4>1. /\ batch.timeout \in Nat
            /\ \A s \in batch.children : Lim(s)["time"] \in Nat /\ Lim(s)["time"] <= batch.timeout
        BY <3>1, <3>4 DEF IInv, Waited
      <4>2. b.timeout = Larger(Lim(t)["time"], batch.timeout)
        BY <2>1, <3>2, <4>1, NoneAssumption DEF Longer
      <4>3. b.timeout \in Nat /\ batch.timeout <= b.timeout /\ Lim(t)["time"] <= b.timeout
        BY <3>2, <4>1, <4>2 DEF Larger
      <4>4. \A s \in batch.children : Lim(s)["time"] \in Nat /\ Lim(s)["time"] <= b.timeout
        BY <4>1, <4>3
      <4> QED
        BY <2>1, <3>2, <4>3, <4>4
    <3> QED
      BY <3>3, <3>4
  <2>14. Children' /\ DropsNothingWithinMeans' /\ (faults' = 0 => hung' = {})
    BY <1>1, <1>5 DEF IInv, Children, DropsNothingWithinMeans, NothingDropped, WithinMeans
  <2> QED
    BY <2>7, <2>8, <2>9, <2>10, <2>11, <2>12, <2>13, <2>14 DEF IInv
<1> QED
  BY <1>2, <1>4, <1>5 DEF Add

---------------------------------------------------------------------------
LEMMA InitIInv == Init => IInv
<1> SUFFICES ASSUME Init PROVE IInv
  OBVIOUS
<1>1. node \in LimitsSet /\ Correct(node) \in LimitsSet
  BY ForemanAssumption, DimensionsAssumption DEF Init, Correct, LimitsSet, Dims, Value
<1>2. NoBatch \in BatchType
  BY <1>1 DEF NoBatch, BatchType, LimitsSet, Value
<1>3. 0 \in 0 .. MaxFaults
  BY ForemanAssumption
<1>4. TypeOK
  BY <1>2, <1>3 DEF Init, TypeOK, Fates, Steps
<1>5. /\ NoBatch.children = {} /\ NoBatch.resources = Correct(node)
      /\ NoBatch.cpus_offset = 0 /\ NoBatch.gpus_offset = 0
  BY <1>4, NoBatchFacts
<1>6. Balance
  <2>1. \A x \in {"cpus", "gpus"} : x \in Dims /\ Correct(node)[x] = node[x]
    BY <1>4, NodeLimits, DimensionsAssumption DEF Dims
  <2>2. \A x \in {"cpus", "gpus"} : node[x] # None => node[x] \in Nat
    BY <1>1, <2>1 DEF LimitsSet, Value
  <2> QED
    BY <1>5, <2>1, <2>2 DEF Init, Balance
<1>7. Waiting /\ Place /\ Packed /\ Placed /\ Waited /\ Children
  BY <1>5, FS_EmptySet, ForemanAssumption
     DEF Init, Waiting, Place, Packed, Placed, Waited, Children, Running
<1>8. DropsNothingWithinMeans
  BY DEF Init, DropsNothingWithinMeans, NothingDropped
<1> QED
  BY <1>4, <1>6, <1>7, <1>8 DEF Init, IInv

LEMMA NextIInv == IInv /\ [Next]_vars => IInv'
<1> SUFFICES ASSUME IInv, [Next]_vars PROVE IInv'
  OBVIOUS
<1>1. CASE UNCHANGED vars
  BY <1>1, ProcessKeeps DEF vars, IInv, TypeOK, Running
<1>2. CASE Sleep
  BY <1>1, <1>2 DEF Sleep
<1>3. CASE Batch
  BY <1>3, AddKeeps, CloseKeeps, NoManageKeeps, JoinKeeps, ManageKeeps, ManageFailsKeeps DEF Batch
<1>4. ASSUME NEW t \in Tasks, Process(t) \/ Hangs(t) PROVE IInv'
  BY <1>4, SetupKeeps, Stage0EndsKeeps, PutKeeps, FailsKeeps, ResetKeeps, HangsKeeps DEF Process
<1> QED
  BY <1>1, <1>2, <1>3, <1>4, ReceiveKeeps, CheckVolumeKeeps DEF Next

LEMMA Invariance == Spec => []IInv
BY InitIInv, NextIInv, PTL DEF Spec

\* Places that do not go beyond the last one are taken as they come.
LEMMA SlotsInOrder ==
  ASSUME NEW total \in Nat \ {0}, NEW o \in Nat, NEW n \in Nat, o + n <= total
  PROVE  /\ Slots(o, n, total) = o .. (o + n - 1)
         /\ Cardinality(Slots(o, n, total)) = n
<1>1. Least(n, total) = n
  BY DEF Least
<1>2. \A i \in 0 .. (n - 1) : o + i \in Nat /\ o + i < total
  OBVIOUS
<1>3. \A k \in Nat : k < total => k % total = k
  OBVIOUS
<1>4. Slots(o, n, total) = {o + i : i \in 0 .. (n - 1)}
  BY <1>1, <1>2, <1>3 DEF Slots
<1>5. \A k \in o .. (o + n - 1) : k - o \in 0 .. (n - 1) /\ k = o + (k - o)
  OBVIOUS
<1>6. {o + i : i \in 0 .. (n - 1)} = o .. (o + n - 1)
  BY <1>5
<1>7. /\ o \in Int /\ o + n - 1 \in Int
      /\ (IF o > o + n - 1 THEN 0 ELSE o + n - 1 - o + 1) = n
  OBVIOUS
<1>8. Cardinality(o .. (o + n - 1)) = n
  BY <1>7, FS_Interval
<1> QED
  BY <1>4, <1>6, <1>8

LEMMA IInvRunApart == IInv => RunApart
<1> SUFFICES ASSUME IInv PROVE RunApart
  OBVIOUS
<1>1. TypeOK /\ Running \subseteq batch.children /\ batch \in BatchType
  BY DEF IInv, Children, TypeOK
<1>2. \A t \in Running : desc[t].exclusive => Running = {t}
  BY <1>1 DEF IInv, Packed
<1>3. Cardinality(Running) <= Concurency
  <2>1. Cardinality(Running) <= Cardinality(batch.children)
    BY <1>1, FS_Subset DEF IInv, Packed
  <2>2. Cardinality(Running) \in Nat /\ Cardinality(batch.children) \in Nat
    BY <1>1, FS_Subset, FS_CardinalityType DEF IInv, Packed
  <2> QED
    BY <2>1, <2>2, ForemanAssumption DEF IInv, Packed
<1>4. ASSUME WithinMeans, WithinMachine, NEW t \in Running
      PROVE  /\ t \in Tasks /\ batch.at[t].cpus \in Nat /\ batch.at[t].gpus \in Nat
             /\ Lim(t)["cpus"] \in Nat /\ CpusEnd(t) <= NCpus
             /\ Lim(t)["gpus"] \in Nat \cup {None}
             /\ Lim(t)["gpus"] # None => GpusEnd(t) <= NGpus
  <2>1. t \in Tasks /\ Known(t) /\ t \in batch.children
    BY <1>1, BatchFields DEF IInv, Packed
  <2>2. /\ Lim(t)["cpus"] \in Nat
        /\ Lim(t)["gpus"] # None => Lim(t)["gpus"] \in Nat /\ node["gpus"] \in Nat
    BY <1>1, <1>4, <2>1, LimFacts, NodeLimits DEF WithinMeans
  <2>3. /\ batch.at[t].cpus \in Nat /\ batch.at[t].gpus \in Nat
        /\ batch.cpus_offset \in Nat /\ batch.gpus_offset \in Nat
        /\ batch.resources \in [Dims -> Nat \cup {None}]
    BY <1>1, <2>1, BatchFields
  <2>4. "cpus" \in Dims /\ "gpus" \in Dims /\ node \in LimitsSet
    BY <1>1, NodeLimits
  <2>5. node["cpus"] \in Nat
    BY <1>4, <2>4 DEF WithinMeans, LimitsSet, Value
  <2>6. batch.resources["cpus"] \in Nat /\ batch.cpus_offset + batch.resources["cpus"] = node["cpus"]
    <3>1. batch.resources["cpus"] # None
      BY <1>1, <1>4, <2>4, NodeLimits DEF IInv, Balance, WithinMeans
    <3> QED
      BY <1>4, <2>3, <2>4, <3>1 DEF IInv, Balance, WithinMeans
  <2>7. CpusEnd(t) <= NCpus
    <3>1. CpusEnd(t) <= batch.cpus_offset
      BY <2>1 DEF IInv, Placed
    <3>2. CpusEnd(t) \in Nat
      BY <2>2, <2>3 DEF CpusEnd
    <3> QED
      BY <1>4, <2>3, <2>5, <2>6, <3>1, <3>2, ForemanAssumption DEF WithinMachine
  <2>8. ASSUME Lim(t)["gpus"] # None PROVE GpusEnd(t) <= NGpus
    <3>1. node["gpus"] \in Nat /\ node["gpus"] # None /\ Lim(t)["gpus"] \in Nat
      BY <2>2, <2>8, NoneAssumption
    <3>2. batch.resources["gpus"] \in Nat /\ batch.gpus_offset + batch.resources["gpus"] = node["gpus"]
      <4>1. batch.resources["gpus"] # None
        BY <1>1, <2>4, <3>1, NodeLimits, DimensionsAssumption DEF IInv, Balance
      <4> QED
        BY <2>3, <2>4, <3>1, <4>1 DEF IInv, Balance
    <3>3. GpusEnd(t) <= batch.gpus_offset /\ GpusEnd(t) \in Nat
      BY <2>1, <2>3, <2>8, <3>1 DEF IInv, Placed, GpusEnd
    <3> QED
      BY <1>4, <2>3, <3>1, <3>2, <3>3, ForemanAssumption DEF WithinMachine
  <2> QED
    BY <2>1, <2>2, <2>3, <2>7, <2>8
<1>5. ASSUME WithinMeans, WithinMachine, NEW t \in Running
      PROVE  /\ CpusOf(t) = batch.at[t].cpus .. (CpusEnd(t) - 1) /\ Cardinality(CpusOf(t)) = Lim(t)["cpus"]
             /\ GpusOf(t) # {} => /\ Lim(t)["gpus"] \in Nat
                                  /\ GpusOf(t) = batch.at[t].gpus .. (GpusEnd(t) - 1)
  <2>1. CpusOf(t) = batch.at[t].cpus .. (CpusEnd(t) - 1) /\ Cardinality(CpusOf(t)) = Lim(t)["cpus"]
    BY <1>4, <1>5, SlotsInOrder, ForemanAssumption DEF CpusOf, CpusEnd
  <2>2. ASSUME GpusOf(t) # {}
        PROVE  Lim(t)["gpus"] \in Nat /\ GpusOf(t) = batch.at[t].gpus .. (GpusEnd(t) - 1)
    <3>1. Lim(t)["gpus"] \notin {None, 0} /\ NGpus # 0
      BY <2>2 DEF GpusOf
    <3>2. /\ Lim(t)["gpus"] \in Nat /\ NGpus \in Nat \ {0} /\ batch.at[t].gpus \in Nat
          /\ batch.at[t].gpus + Lim(t)["gpus"] <= NGpus
      BY <1>4, <1>5, <3>1, ForemanAssumption DEF GpusEnd
    <3>3. Slots(batch.at[t].gpus, Lim(t)["gpus"], NGpus) = batch.at[t].gpus .. (batch.at[t].gpus + Lim(t)["gpus"] - 1)
      BY <3>2, SlotsInOrder
    <3> QED
      BY <3>1, <3>2, <3>3 DEF GpusOf, GpusEnd
  <2> QED
    BY <2>1, <2>2
<1>6. ASSUME WithinMeans, WithinMachine, NEW t \in Running, NEW u \in Running, t # u
      PROVE  CpusOf(t) \cap CpusOf(u) = {} /\ GpusOf(t) \cap GpusOf(u) = {}
  <2>1. /\ batch.at[t].cpus \in Nat /\ batch.at[t].gpus \in Nat /\ Lim(t)["cpus"] \in Nat
        /\ batch.at[u].cpus \in Nat /\ batch.at[u].gpus \in Nat /\ Lim(u)["cpus"] \in Nat
        /\ CpusEnd(t) \in Nat /\ CpusEnd(u) \in Nat
    BY <1>4, <1>6 DEF CpusEnd
  <2>2. /\ CpusEnd(t) <= batch.at[u].cpus \/ CpusEnd(u) <= batch.at[t].cpus
        /\ Lim(t)["gpus"] # None /\ Lim(u)["gpus"] # None =>
             GpusEnd(t) <= batch.at[u].gpus \/ GpusEnd(u) <= batch.at[t].gpus
    BY <1>1, <1>6 DEF IInv, Placed
  <2>3. CpusOf(t) \cap CpusOf(u) = {}
    BY <1>5, <1>6, <2>1, <2>2
  <2>4. CASE GpusOf(t) # {} /\ GpusOf(u) # {}
    <3>1. /\ Lim(t)["gpus"] \in Nat /\ GpusOf(t) = batch.at[t].gpus .. (GpusEnd(t) - 1)
          /\ Lim(u)["gpus"] \in Nat /\ GpusOf(u) = batch.at[u].gpus .. (GpusEnd(u) - 1)
      BY <1>5, <1>6, <2>4
    <3>2. GpusEnd(t) \in Nat /\ GpusEnd(u) \in Nat /\ Lim(t)["gpus"] # None /\ Lim(u)["gpus"] # None
      BY <2>1, <3>1, NoneAssumption DEF GpusEnd
    <3> QED
      BY <2>1, <2>2, <2>3, <3>1, <3>2
  <2> QED
    BY <2>3, <2>4
<1> QED
  BY <1>2, <1>3, <1>5, <1>6 DEF RunApart

---------------------------------------------------------------------------
(* The room for images *)

\* What was counted for the images of a batch and what is left make up the room.
Counted == node["image"] # None =>
  /\ SumFunctionOnSet(batch.image_usage, Necessary) + batch.resources["image"] = node["image"]
  /\ \A i \in Images \ Necessary : batch.image_usage[i] = 0

Room ==
  /\ IsFiniteSet(images)
  /\ Counted
  /\ pc = "run" /\ node["image"] # None =>
       /\ Necessary \subseteq images
       /\ SizeOf(images \ batch.refused) <= node["image"]

LEMMA NecessaryImages ==
  ASSUME IInv
  PROVE  IsFiniteSet(Necessary) /\ Necessary \subseteq Images
<1>1. \A t \in batch.children : desc[t].image \in Images
  BY BatchFields, LimFacts DEF IInv, Packed, TypeOK
<1>2. [t \in batch.children |-> desc[t].image] \in Surjection(batch.children, Necessary)
  BY DEF Surjection, Necessary
<1>3. IsFiniteSet(batch.children)
  BY DEF IInv, Packed
<1> QED
  BY <1>1, <1>2, <1>3, FS_Surjection DEF Necessary

LEMMA SizeIsSum ==
  ASSUME NEW S \in SUBSET Images, IsFiniteSet(S)
  PROVE  SizeOf(S) = SumFunctionOnSet(ImageSize, S) /\ NatOn(ImageSize, S)
<1> DEFINE f == [i \in S |-> ImageSize[i]]
<1>1. NatOn(f, S) /\ NatOn(ImageSize, S) /\ \A i \in S : f[i] = ImageSize[i]
  BY ForemanAssumption DEF NatOn
<1>2. SumFunctionOnSet(f, S) = SumFunctionOnSet(ImageSize, S)
  <2> HIDE DEF f
  <2> QED  BY <1>1, SumSame
<1> QED
  BY <1>1, <1>2 DEF SizeOf

\* Nothing is counted for an empty batch.
LEMMA NoneCounted ==
  ASSUME TypeOK', batch' = NoBatch'
  PROVE  Counted'
<1>1. /\ batch'.children = {} /\ batch'.resources = Correct(node')
      /\ batch'.image_usage = [i \in Images |-> 0]
  BY DEF NoBatch, Correct
<1>2. /\ node' \in LimitsSet /\ Correct(node')["image"] = node'["image"] /\ "image" \in Dims
  BY ForemanAssumption, DimensionsAssumption DEF TypeOK, Correct, LimitsSet, Dims
<1>3. Necessary' = {}
  BY <1>1 DEF Necessary
<1>4. SumFunctionOnSet(batch'.image_usage, {}) = 0
  BY SumEmpty
<1>5. node'["image"] # None => node'["image"] \in Nat
  BY <1>2 DEF LimitsSet, Value
<1> QED
  BY <1>1, <1>2, <1>3, <1>4, <1>5 DEF Counted

LEMMA SameCounted ==
  ASSUME IInv, Counted, UNCHANGED node, SameBatch,
         \A t \in batch.children : desc'[t] = desc[t]
  PROVE  Counted' /\ Necessary' = Necessary
<1>1. Necessary' = Necessary
  BY DEF Necessary, SameBatch
<1> QED
  BY <1>1 DEF Counted, SameBatch

\* Only what the task's image takes beyond what was counted is taken from the room.
LEMMA JoinedCounted ==
  ASSUME IInv, Counted, NEW t \in Tasks, Known(t), Fits(t), UNCHANGED <<node, desc>>,
         batch' = Joined(t)
  PROVE  Counted'
<1> SUFFICES ASSUME node["image"] # None
             PROVE  /\ SumFunctionOnSet(batch'.image_usage, Necessary') + batch'.resources["image"]
                          = node["image"]
                    /\ \A j \in Images \ Necessary' : batch'.image_usage[j] = 0
  BY DEF Counted
<1> DEFINE I    == Necessary
           i    == desc[t].image
           use  == batch.image_usage
           more == batch'.image_usage
           R    == batch.resources["image"]
           left == batch'.resources["image"]
           J    == I \ {i}
           says == Lim(t)["image"]
<1>1. /\ TypeOK /\ use \in [Images -> Nat] /\ batch.resources \in [Dims -> Nat \cup {None}]
      /\ "image" \in Dims /\ "image" \notin Consumed
  BY BatchFields, DimensionsAssumption DEF IInv, TypeOK, Dims
<1>2. R # None /\ R \in Nat /\ node["image"] \in Nat
  <2>1. batch.resources["image"] = None <=> node["image"] = None
    BY <1>1, NodeLimits, DimensionsAssumption DEF IInv, Balance, Dims
  <2> QED
    BY <1>1, <2>1, NodeLimits DEF LimitsSet, Value
<1>3. i \in Images /\ says \in Nat /\ Updated(t).image = i /\ Updated(t).limits = Lim(t)
  BY <1>1, LimFacts
<1>4. /\ more = [use EXCEPT ![i] = Larger(use[i], says)]
      /\ left = R - (Larger(use[i], says) - use[i])
      /\ batch'.children = batch.children \cup {t}
  <2>1. /\ batch'.image_usage = Usage(Updated(t), batch.resources, use)
        /\ batch'.resources = Rest(Updated(t), batch.resources, use)
        /\ batch'.children = batch.children \cup {t}
    BY DEF Joined
  <2>2. batch'.resources["image"] = R - ImageAdd(Updated(t), use)
    BY <1>1, <1>2, <2>1 DEF Rest
  <2> QED
    BY <1>2, <1>3, <2>1, <2>2 DEF Usage, ImageAdd
<1>5. Necessary' = I \cup {i} /\ (I \cup {i}) \ {i} = J
  BY <1>4 DEF Necessary
<1>6. /\ IsFiniteSet(I \cup {i}) /\ IsFiniteSet(I) /\ IsFiniteSet(J) /\ I \subseteq Images
  BY NecessaryImages, FS_AddElement, FS_RemoveElement
<1>7. /\ SumFunctionOnSet(use, I) + R = node["image"]
      /\ \A j \in Images \ I : use[j] = 0
  BY DEF Counted
<1> HIDE DEF I, i, use, more, R, left, says
<1>8. /\ more \in [Images -> Nat] /\ more[i] = Larger(use[i], says)
      /\ \A j \in Images : j # i => more[j] = use[j]
  <2>1. Larger(use[i], says) \in Nat
    BY <1>1, <1>3 DEF Larger
  <2> QED
    BY <1>1, <1>3, <1>4, <2>1
<1>9. NatOn(more, I \cup {i}) /\ NatOn(more, J) /\ NatOn(use, I) /\ NatOn(use, J)
  BY <1>1, <1>3, <1>6, <1>8 DEF NatOn
<1> HIDE DEF J
<1>10. SumFunctionOnSet(more, I \cup {i}) = more[i] + SumFunctionOnSet(more, J)
  <2>1. i \in I \cup {i}
    OBVIOUS
  <2> QED
    BY <1>5, <1>9, <2>1, SumOne
<1>11. SumFunctionOnSet(more, J) = SumFunctionOnSet(use, J) /\ SumFunctionOnSet(use, J) \in Nat
  <2>1. \A j \in J : more[j] = use[j]
    BY <1>6, <1>8 DEF J
  <2> QED
    BY <1>9, <2>1, SumSame, SumNat
<1>12. SumFunctionOnSet(use, I) = use[i] + SumFunctionOnSet(use, J)
  <2>1. CASE i \in I
    BY <1>9, <2>1, SumOne DEF J
  <2>2. CASE i \notin I
    <3>1. I = J /\ use[i] = 0
      BY <1>3, <1>7, <2>2 DEF J
    <3> QED
      BY <1>11, <3>1
  <2> QED
    BY <2>1, <2>2
<1>13. more[i] \in Nat /\ use[i] \in Nat /\ left = R - (more[i] - use[i])
  BY <1>1, <1>3, <1>4, <1>8
<1>14. SumFunctionOnSet(more, Necessary') = more[i] + SumFunctionOnSet(use, J)
  BY <1>5, <1>10, <1>11
<1>15. SumFunctionOnSet(more, Necessary') + left = node["image"]
  BY <1>2, <1>7, <1>11, <1>12, <1>13, <1>14
<1>16. \A j \in Images \ Necessary' : more[j] = 0
  BY <1>5, <1>7, <1>8
<1> QED
  BY <1>15, <1>16 DEF more, left

\* The assertion of manage_images on the free size is never met.
LEMMA RoomIsLeft ==
  ASSUME IInv, Counted, node["image"] # None
  PROVE  /\ FreeSize \in Nat /\ node["image"] \in Nat
         /\ SumFunctionOnSet(batch.image_usage, Necessary) \in Nat
         /\ NatOn(batch.image_usage, Necessary)
         /\ FreeSize = node["image"] - SumFunctionOnSet(batch.image_usage, Necessary)
<1>1. /\ TypeOK /\ batch.image_usage \in [Images -> Nat]
      /\ batch.resources \in [Dims -> Nat \cup {None}]
  BY BatchFields DEF IInv, TypeOK
<1>2. batch.resources["image"] \in Nat /\ node["image"] \in Nat
  <2>1. "image" \in Dims /\ (batch.resources["image"] = None <=> node["image"] = None)
    BY <1>1, NodeLimits, DimensionsAssumption DEF IInv, Balance, Dims
  <2> QED
    BY <1>1, <2>1, NodeLimits DEF LimitsSet, Value
<1>3. NatOn(batch.image_usage, Necessary)
  BY <1>1, NecessaryImages DEF NatOn
<1>4. SumFunctionOnSet(batch.image_usage, Necessary) \in Nat
  BY <1>3, SumNat
<1>5. SumFunctionOnSet(batch.image_usage, Necessary) + batch.resources["image"] = node["image"]
  BY DEF Counted
<1> QED
  BY <1>2, <1>3, <1>4, <1>5 DEF FreeSize

\* Images that were kept fit what the batch leaves, its own what it counted.
LEMMA ManageRoom ==
  ASSUME IInv, Room, NEW K \in SUBSET Images, NEW L \in SUBSET Images, Manage(K, L)
  PROVE  /\ IsFiniteSet(images') /\ Necessary \subseteq images'
         /\ SizeOf(images' \ L) <= node["image"]
<1> DEFINE own == K \cup Necessary
<1>1. /\ images' = own \cup L /\ L \cap own = {} /\ K \cap Necessary = {}
      /\ K \subseteq images /\ L \subseteq images
      /\ SizeOf(K) <= FreeSize /\ node["image"] # None
      /\ \A i \in Necessary : ImageSize[i] <= batch.image_usage[i]
  BY DEF Manage, Kept, AsDeclared
<1>2. IsFiniteSet(Necessary) /\ Necessary \subseteq Images
  BY NecessaryImages
<1>3. IsFiniteSet(K) /\ IsFiniteSet(own) /\ IsFiniteSet(images') /\ own \in SUBSET Images
  BY <1>1, <1>2, FS_Subset, FS_Union DEF Room
<1>4. /\ SizeOf(K) = SumFunctionOnSet(ImageSize, K) /\ NatOn(ImageSize, K)
      /\ SizeOf(own) = SumFunctionOnSet(ImageSize, own)
      /\ NatOn(ImageSize, Necessary)
  BY <1>2, <1>3, SizeIsSum
<1>5. SizeOf(own) = SizeOf(K) + SumFunctionOnSet(ImageSize, Necessary)
  BY <1>1, <1>4, SumUnion
<1>6. SumFunctionOnSet(ImageSize, Necessary) <= SumFunctionOnSet(batch.image_usage, Necessary)
  BY <1>1, <1>4, RoomIsLeft, SumLeq DEF Room
<1>7. SizeOf(K) \in Nat /\ SumFunctionOnSet(ImageSize, Necessary) \in Nat
  BY <1>4, SumNat
<1>8. /\ FreeSize \in Nat /\ node["image"] \in Nat
      /\ SumFunctionOnSet(batch.image_usage, Necessary) \in Nat
      /\ FreeSize = node["image"] - SumFunctionOnSet(batch.image_usage, Necessary)
  BY <1>1, RoomIsLeft DEF Room
<1>9. SizeOf(own) <= node["image"]
  BY <1>1, <1>5, <1>6, <1>7, <1>8
<1>10. images' \ L = own /\ Necessary \subseteq images'
  BY <1>1
<1> QED
  BY <1>3, <1>9, <1>10

LEMMA InitRoom == Init => Room
<1> SUFFICES ASSUME Init PROVE Room
  OBVIOUS
<1>1. IInv
  BY InitIInv
<1>2. /\ batch.children = {} /\ batch.resources["image"] = node["image"]
      /\ batch.image_usage = [i \in Images |-> 0]
  <2>1. "image" \in Dims \ {"gpu_memory"}
    BY DEF Dims
  <2> QED
    BY <1>1, <2>1, NoBatchFacts, NodeLimits DEF Init, IInv
<1>3. Necessary = {} /\ SumFunctionOnSet(batch.image_usage, {}) = 0
  BY <1>2, SumEmpty DEF Necessary
<1>4. node["image"] # None => node["image"] \in Nat
  BY <1>1, NodeLimits DEF IInv, LimitsSet, Value
<1> QED
  BY <1>2, <1>3, <1>4, FS_EmptySet DEF Init, Room, Counted

LEMMA NextRoom == IInv /\ Room /\ [Next]_vars => Room'
<1> SUFFICES ASSUME IInv, Room, [Next]_vars PROVE Room'
  OBVIOUS
<1>1. IInv' /\ TypeOK'
  BY NextIInv DEF IInv
<1>2. ASSUME Raise, IsFiniteSet(images') PROVE Room'
  <2>1. batch' = NoBatch' /\ pc' # "run"
    <3>1. node' = node
      BY <1>2, Zenon DEF Raise, Next, Batch, Process, vars, Sleep, Receive, CheckVolume, Add, Close,
        NoManage, Join, Manage, ManageFails, Setup, Stage0Ends, Put, Fails, Reset, Hangs
    <3> QED
      BY <1>2, <3>1 DEF Raise, NoBatch, Correct
  <2> QED
    BY <1>1, <1>2, <2>1, NoneCounted DEF Room
\* The node, the images and the batch stay.
<1>3. ASSUME UNCHANGED <<node, images, batch>>, \A t \in batch.children : desc'[t] = desc[t],
             pc' = "run" => pc = "run" \/ node["image"] = None
      PROVE  Room'
  <2>1. Counted' /\ Necessary' = Necessary
    BY <1>3, SameCounted DEF Room, SameBatch
  <2>2. SizeOf(images \ batch.refused)' = SizeOf(images \ batch.refused)
    BY <1>3 DEF SizeOf
  <2> QED
    BY <1>3, <2>1, <2>2 DEF Room
<1>4. CASE Sleep \/ UNCHANGED vars
  BY <1>3, <1>4 DEF Sleep, vars
<1>5. ASSUME NEW s \in Answer, NEW d \in [{s[i] : i \in DOMAIN s} -> Descriptions], Receive(s, d)
      PROVE  Room'
  <2>1. batch.children = {}
    BY <1>5, NoBatchFacts DEF Receive, IInv, Place
  <2> QED
    BY <1>3, <1>5, <2>1 DEF Receive
<1>6. CASE CheckVolume
  BY <1>2, <1>3, <1>6 DEF CheckVolume, Room
<1>7. CASE Add
  <2>1. CASE Raise
    BY <1>2, <1>7, <2>1 DEF Add, Room
  <2>2. CASE batch' = Joined(Head(tasks)) /\ pc' # "run"
    <3>1. Head(tasks) \in Tasks /\ Known(Head(tasks)) /\ Fits(Head(tasks))
      <4>1. Head(tasks) = tasks[1] /\ 1 \in DOMAIN tasks /\ Head(tasks) \in Tasks
        BY <1>7 DEF Add, IInv, TypeOK
      <4> QED
        BY <1>7, <4>1 DEF IInv, Waiting, Add, MayJoin
    <3>2. Counted'
      BY <1>7, <2>2, <3>1, JoinedCounted DEF Add, Room
    <3> QED
      BY <1>7, <2>2, <3>2 DEF Add, Room
  <2> QED
    BY <1>7, <2>1, <2>2 DEF Add
<1>8. CASE Close \/ NoManage
  BY <1>3, <1>8 DEF Close, NoManage
<1>9. CASE Join
  <2>1. batch' = NoBatch' /\ pc' # "run" /\ images' = images
    BY <1>9 DEF Join, NoBatch, Correct
  <2> QED
    BY <1>1, <2>1, NoneCounted DEF Room
<1>10. ASSUME NEW K \in SUBSET Images, NEW L \in SUBSET Images, Manage(K, L) PROVE Room'
  <2>1. /\ IsFiniteSet(images') /\ Necessary \subseteq images'
        /\ SizeOf(images' \ L) <= node["image"] /\ node' = node /\ desc' = desc
    BY <1>10, ManageRoom DEF Manage
  <2>2. SameBatch /\ batch'.refused = L
    BY <1>10, ManageBatch DEF IInv
  <2>3. Counted' /\ Necessary' = Necessary
    BY <2>1, <2>2, SameCounted DEF Room
  <2>4. SizeOf(images \ batch.refused)' = SizeOf(images' \ L)
    BY <2>2 DEF SizeOf
  <2> QED
    BY <2>1, <2>3, <2>4 DEF Room
<1>11. ASSUME NEW K \in SUBSET Images, NEW L \in SUBSET Images, NEW P \in SUBSET Images,
              ManageFails(K, L, P)
       PROVE  Room'
  <2>1. K \subseteq images /\ L \subseteq images /\ P \subseteq Necessary /\ images' = K \cup L \cup P /\ Raise
    BY <1>11 DEF ManageFails, Kept
  <2>2. IsFiniteSet(images')
    BY <2>1, NecessaryImages, FS_Subset, FS_Union DEF Room
  <2> QED
    BY <1>2, <2>1, <2>2
<1>12. ASSUME NEW t \in Tasks, Process(t) \/ Hangs(t) PROVE Room'
  <2>1. CASE Reset(t)
    BY <1>2, <2>1 DEF Reset, Room
  <2> QED
    BY <1>3, <1>12, <2>1 DEF Process, Setup, Stage0Ends, Put, Fails, Hangs
<1> QED
  BY <1>4, <1>5, <1>6, <1>7, <1>8, <1>9, <1>10, <1>11, <1>12 DEF Next, Batch

LEMMA RoomHolds == Spec => []Room
BY InitRoom, NextRoom, Invariance, PTL DEF Spec

LEMMA RoomFits == IInv /\ Room => ImagesFit
<1> SUFFICES ASSUME IInv, Room, node["image"] # None PROVE FreeSize >= 0
  BY DEF ImagesFit, Room
<1> QED
  BY RoomIsLeft DEF Room

---------------------------------------------------------------------------
\* The types, for any tasks and nodes: what a batch leaves of the node never falls
\* below zero, though foreman.py:202-224 only subtracts.
THEOREM TypeCorrect == Spec => []TypeOK
<1>1. IInv => TypeOK
  BY DEF IInv
<1> QED
  BY <1>1, Invariance, PTL

\* Every turn of the loop over dequeued tasks takes one at least (foreman.py:150-232).
THEOREM BatchesProgress == Spec => []BatchNotEmpty
<1>1. IInv => BatchNotEmpty
  BY DEF IInv, Place, BatchNotEmpty
<1> QED
  BY <1>1, Invariance, PTL

\* Tasks that run at once have cpus and gpus of their own, as many as they asked
\* for, and an exclusive one runs by itself (foreman.py:160-232; cgroups.py:94).
THEOREM TasksRunApart == Spec => []RunApart
BY IInvRunApart, Invariance, PTL

\* Without a fault from outside, a node that limits cpus and time answers every
\* task it dequeued (foreman.py:145-258).
THEOREM NothingIsDropped == Spec => []DropsNothingWithinMeans
<1>1. IInv => DropsNothingWithinMeans
  BY DEF IInv
<1> QED
  BY <1>1, Invariance, PTL

\* While tasks run, the images of the node fit the room configured for them,
\* and manage_images never meets its assertion on the free size
\* (foreman.py:43-80, 197-238).
THEOREM ImagesHaveRoom == Spec => []ImagesFit
BY RoomFits, RoomHolds, Invariance, PTL

=============================================================================
