--------------------------- MODULE DequeueProofs ---------------------------
(***************************************************************************)
(* Proofs about Dequeue, for any tasks, descriptions, offers and window.   *)
(* What makes the properties inductive is that a call only ever considers  *)
(* and takes waiting tasks, has nothing left to consider once it has taken *)
(* an exclusive one, and that what is left of the offer only shrinks, so a *)
(* task that did not fit when its turn came does not fit later.            *)
(***************************************************************************)
EXTENDS Dequeue, FiniteSetTheorems, TLAPS

USE NoneAssumption

---------------------------------------------------------------------------
(* Sums over finite sets                                                   *)

Pick(s) == CHOOSE x \in s : TRUE

\* The library's sum is the value at S of a function g on the subsets of S.
Adds(g, f, S) ==
  g = [s \in SUBSET S |-> IF s = {} THEN 0 ELSE f[Pick(s)] + g[s \ {Pick(s)}]]

\* f[x] tokens for each member x of S: their number is the sum.
Tokens(f, S) == UNION {{x} \X (1 .. f[x]) : x \in S}

NatOn(f, S) == IsFiniteSet(S) /\ \A x \in S : f[x] \in Nat

LEMMA AddsOnce ==
  ASSUME NEW f, NEW S, IsFiniteSet(S), NEW g, NEW h, Adds(g, f, S), Adds(h, f, S)
  PROVE  g = h
<1> DEFINE B == {T \in SUBSET S : g[T] # h[T]}
           R == StrictSubsetOrdering(S)
<1>1. ASSUME B # {} PROVE FALSE
  <2>1. IsWellFoundedOn(R, SUBSET S) /\ B \subseteq SUBSET S
    BY FS_FiniteSubsetsOfFinite, FS_StrictSubsetOrderingWellFounded
  <2>2. PICK T \in B : \A U \in B : <<U, T>> \notin R
    <3> HIDE DEF B, R
    <3> QED  BY <1>1, <2>1, WFMin
  <2> DEFINE U == T \ {Pick(T)}
  <2>3. T # {}
    BY DEF Adds
  <2>4. Pick(T) \in T
    BY <2>3 DEF Pick
  <2>5. <<U, T>> \in R /\ U \in SUBSET S
    BY <2>4 DEF StrictSubsetOrdering
  <2>6. g[U] = h[U]
    BY <2>2, <2>5
  <2>7. g[T] = f[Pick(T)] + g[U] /\ h[T] = f[Pick(T)] + h[U]
    BY <2>3 DEF Adds
  <2> QED  BY <2>6, <2>7
<1>2. /\ g = [T \in SUBSET S |-> g[T]]
      /\ h = [T \in SUBSET S |-> h[T]]
  BY DEF Adds
<1> QED  BY <1>1, <1>2

LEMMA TokensFinite ==
  ASSUME NEW f, NEW S, NatOn(f, S)
  PROVE  /\ IsFiniteSet(Tokens(f, S)) /\ Cardinality(Tokens(f, S)) \in Nat
         /\ \A x \in S : IsFiniteSet({x} \X (1 .. f[x])) /\ Cardinality({x} \X (1 .. f[x])) = f[x]
<1> DEFINE Pile(x) == {x} \X (1 .. f[x])
           Piles   == {Pile(x) : x \in S}
<1>1. ASSUME NEW x \in S PROVE IsFiniteSet(Pile(x)) /\ Cardinality(Pile(x)) = f[x]
  <2>1. f[x] \in Nat
    BY DEF NatOn
  <2>2. IsFiniteSet({x}) /\ Cardinality({x}) = 1
    BY FS_Singleton
  <2>3. IsFiniteSet(1 .. f[x]) /\ Cardinality(1 .. f[x]) = f[x]
    BY <2>1, FS_Interval
  <2>4. IsFiniteSet(Pile(x)) /\ Cardinality(Pile(x)) = 1 * f[x]
    BY <2>2, <2>3, FS_Product
  <2> QED  BY <2>1, <2>4
<1>2. [x \in S |-> Pile(x)] \in Surjection(S, Piles)
  BY DEF Surjection
<1>3. IsFiniteSet(Piles)
  BY <1>2, FS_Surjection DEF NatOn
<1>4. IsFiniteSet(UNION Piles)
  BY <1>1, <1>3, FS_UNION
<1> QED  BY <1>1, <1>4, FS_CardinalityType DEF Tokens

LEMMA TokensOf ==
  ASSUME NEW f, NEW S, NatOn(f, S), NEW z \in S
  PROVE  Cardinality(Tokens(f, S)) = f[z] + Cardinality(Tokens(f, S \ {z}))
<1> DEFINE rest == Tokens(f, S \ {z})
           pile == {z} \X (1 .. f[z])
<1>1. Tokens(f, S) = rest \cup pile /\ rest \cap pile = {}
  BY DEF Tokens
<1>2. NatOn(f, S \ {z})
  BY FS_Subset DEF NatOn
<1>3. /\ IsFiniteSet(rest) /\ Cardinality(rest) \in Nat
      /\ IsFiniteSet(pile) /\ Cardinality(pile) = f[z] /\ f[z] \in Nat
  BY <1>2, TokensFinite DEF NatOn
<1> HIDE DEF rest, pile
<1>4. Cardinality(rest \cup pile) = Cardinality(rest) + Cardinality(pile) - Cardinality({})
  BY <1>1, <1>3, FS_Union
<1> QED  BY <1>1, <1>3, <1>4, FS_EmptySet DEF rest

LEMMA SumIsNumber ==
  ASSUME NEW f, NEW S, NatOn(f, S)
  PROVE  SumFunctionOnSet(f, S) = Cardinality(Tokens(f, S))
<1> DEFINE g == [T \in SUBSET S |-> Cardinality(Tokens(f, T))]
<1>1. \A T \in SUBSET S :
        g[T] = IF T = {} THEN 0 ELSE f[Pick(T)] + g[T \ {Pick(T)}]
  <2> SUFFICES ASSUME NEW T \in SUBSET S
               PROVE  g[T] = IF T = {} THEN 0 ELSE f[Pick(T)] + g[T \ {Pick(T)}]
    OBVIOUS
  <2>1. CASE T = {}
    BY <2>1, FS_EmptySet DEF Tokens
  <2>2. CASE T # {}
    <3>1. Pick(T) \in T /\ NatOn(f, T)
      BY <2>2, FS_Subset DEF Pick, NatOn
    <3> QED  BY <2>2, <3>1, TokensOf
  <2> QED  BY <2>1, <2>2
<1>2. Adds(g, f, S)
  BY <1>1 DEF Adds
<1>3. SumFunctionOnSet(f, S) = (CHOOSE h : Adds(h, f, S))[S]
  BY Zenon DEF SumFunctionOnSet, FoldFunctionOnSet, MapThenFoldSet, Adds, Pick
<1>4. (CHOOSE h : Adds(h, f, S)) = g
  BY <1>2, AddsOnce DEF NatOn
<1> QED  BY <1>3, <1>4

LEMMA SumEmpty ==
  ASSUME NEW f
  PROVE  SumFunctionOnSet(f, {}) = 0
BY SumIsNumber, FS_EmptySet DEF Tokens, NatOn

LEMMA SumNat ==
  ASSUME NEW f, NEW S, NatOn(f, S)
  PROVE  SumFunctionOnSet(f, S) \in Nat
BY SumIsNumber, TokensFinite

LEMMA SumOne ==
  ASSUME NEW f, NEW S, NatOn(f, S), NEW z \in S
  PROVE  SumFunctionOnSet(f, S) = f[z] + SumFunctionOnSet(f, S \ {z})
BY SumIsNumber, TokensOf, FS_Subset DEF NatOn

LEMMA SumAdd ==
  ASSUME NEW f, NEW S, NEW z, NatOn(f, S \cup {z}), z \notin S
  PROVE  SumFunctionOnSet(f, S \cup {z}) = f[z] + SumFunctionOnSet(f, S)
<1>1. (S \cup {z}) \ {z} = S
  OBVIOUS
<1> QED  BY <1>1, SumOne

LEMMA SumLeq ==
  ASSUME NEW f, NEW S, NEW g, NEW T, S \subseteq T, NatOn(f, S), NatOn(g, T),
         \A x \in S : f[x] <= g[x]
  PROVE  SumFunctionOnSet(f, S) <= SumFunctionOnSet(g, T)
<1>1. Tokens(f, S) \subseteq Tokens(g, T)
  BY DEF Tokens, NatOn
<1>2. IsFiniteSet(Tokens(g, T))
  BY TokensFinite
<1> QED  BY <1>1, <1>2, FS_Subset, SumIsNumber

LEMMA SumSame ==
  ASSUME NEW f, NEW g, NEW S, NatOn(f, S), \A x \in S : f[x] = g[x]
  PROVE  SumFunctionOnSet(f, S) = SumFunctionOnSet(g, S)
<1>1. Tokens(f, S) = Tokens(g, S)
  BY DEF Tokens
<1> QED  BY <1>1, SumIsNumber DEF NatOn

---------------------------------------------------------------------------
(* Limits and what a task leaves of them                                   *)

LEMMA CorrectType == \A l \in LimitsSet : Correct(l) \in LimitsSet
  BY DEF Correct, LimitsSet, Value, Dims

LEMMA UpdateType == \A l, m \in LimitsSet : Update(l, m) \in LimitsSet
<1> SUFFICES ASSUME NEW l \in LimitsSet, NEW m \in LimitsSet
             PROVE  Update(l, m) \in LimitsSet
  OBVIOUS
<1> DEFINE raw == [d \in Dims |-> IF d = "gpus" THEN min_none_is_min(l[d], m[d])
                                                ELSE min_none(l[d], m[d])]
<1>1. \A d \in Dims : l[d] \in Value /\ m[d] \in Value
  BY DEF LimitsSet
<1>2. \A a, b \in Value : min_none(a, b) \in Value /\ min_none_is_min(a, b) \in Value
  BY DEF Value, min_none, min_none_is_min, Least
<1>3. raw \in LimitsSet
  BY <1>1, <1>2 DEF LimitsSet
<1> QED
  BY <1>3, CorrectType DEF Update

\* What is left of an offer: a value wherever the offer has one, none larger.
Within(R, off) ==
  /\ R \in Resources
  /\ \A x \in Dims : IF off[x] = None THEN R[x] = None ELSE R[x] \in 0 .. off[x]

Usages == [Images -> Nat]

LEMMA ImageAddType ==
  ASSUME NEW d \in Description, NEW usage \in Usages, d.limits["image"] # None
  PROVE  /\ ImageAdd(d, usage) \in Nat
         /\ Larger(usage[d.image], d.limits["image"]) \in Nat
<1>1. d.image \in Images /\ d.limits \in LimitsSet
  BY DEF Description
<1>2. usage[d.image] \in Nat /\ d.limits["image"] \in Nat
  BY <1>1 DEF Usages, LimitsSet, Value, Dims
<1> QED
  BY <1>2 DEF ImageAdd, Larger

\* A task that fits leaves something between nothing and what there was.
LEMMA RestWithin ==
  ASSUME NEW d \in Description, NEW usage \in Usages, NEW off \in LimitsSet,
         NEW R, Within(R, off), Fits(d, R, usage)
  PROVE  /\ Within(Rest(d, R, usage), off)
         /\ Usage(d, R, usage) \in Usages
         /\ \A x \in Dims : IF R[x] = None THEN Rest(d, R, usage)[x] = None
                                           ELSE /\ Rest(d, R, usage)[x] \in Nat
                                                /\ Rest(d, R, usage)[x] <= R[x]
<1> DEFINE after == Rest(d, R, usage)
<1>1. d.limits \in LimitsSet /\ d.image \in Images
  BY DEF Description
<1>2. \A x \in Dims : d.limits[x] \in Nat \cup {None} /\ off[x] \in Nat \cup {None}
  BY <1>1 DEF LimitsSet, Value
<1>3. \A x \in Dims : R[x] = None \/ R[x] \in Nat
  BY <1>2 DEF Within
<1>4. \A x \in Dims : IF R[x] = None THEN after[x] = None
                      ELSE after[x] \in Nat /\ after[x] <= R[x]
  <2> SUFFICES ASSUME NEW x \in Dims, R[x] # None
               PROVE  after[x] \in Nat /\ after[x] <= R[x]
    BY DEF Rest
  <2>1. R[x] \in Nat
    BY <1>3
  <2>2. CASE x \in Consumed
    <3>1. Under(d.limits[x], R[x])
      BY <2>2 DEF Fits
    <3>2. after[x] = R[x] - d.limits[x]
      BY <2>2 DEF Rest
    <3> QED
      BY <1>2, <2>1, <3>1, <3>2 DEF Under
  <2>3. CASE x = "gpus" /\ x \notin Consumed
    <3>1. d.limits[x] \notin {None, 0} => d.limits[x] <= R[x]
      BY <2>3 DEF Fits, GpusFit
    <3>2. after[x] = IF d.limits[x] # None THEN R[x] - d.limits[x] ELSE R[x]
      BY <2>3 DEF Rest
    <3> QED
      BY <1>2, <2>1, <3>1, <3>2
  <2>4. CASE x = "image" /\ x \notin Consumed
    <3>1. d.limits["image"] # None /\ ImageAdd(d, usage) <= R[x]
      BY <2>4 DEF Fits, ImageFits
    <3>2. ImageAdd(d, usage) \in Nat
      BY <3>1, ImageAddType
    <3>3. after[x] = R[x] - ImageAdd(d, usage)
      BY <2>4 DEF Rest
    <3> QED
      BY <2>1, <3>1, <3>2, <3>3
  <2>5. CASE x \notin Consumed \cup {"gpus", "image"}
    <3>1. after[x] = R[x]
      BY <2>5 DEF Rest
    <3> QED
      BY <2>1, <3>1
  <2> QED
    BY <2>2, <2>3, <2>4, <2>5
<1>5. Within(after, off)
  <2>1. after = [x \in Dims |-> after[x]]
    BY DEF Rest
  <2>2. \A x \in Dims : after[x] \in Int \cup {None}
    BY <1>3, <1>4
  <2>3. after \in Resources
    BY <2>1, <2>2 DEF Resources
  <2>4. \A x \in Dims : IF off[x] = None THEN after[x] = None ELSE after[x] \in 0 .. off[x]
    BY <1>2, <1>3, <1>4 DEF Within
  <2> QED
    BY <2>3, <2>4 DEF Within
<1>6. Usage(d, R, usage) \in Usages
  <2>1. CASE R["image"] = None
    BY <2>1 DEF Usage
  <2>2. CASE R["image"] # None
    <3>1. d.limits["image"] # None
      BY <2>2 DEF Fits, ImageFits
    <3>2. Larger(usage[d.image], d.limits["image"]) \in Nat
      BY <3>1, ImageAddType
    <3> QED
      BY <1>1, <2>2, <3>2 DEF Usage, Usages
  <2> QED
    BY <2>1, <2>2
<1> QED
  BY <1>4, <1>5, <1>6

\* A task that fits after d was taken fitted before.
LEMMA FittedBefore ==
  ASSUME NEW d \in Description, NEW e \in Description, NEW usage \in Usages,
         NEW off \in LimitsSet, NEW R, Within(R, off), Fits(d, R, usage),
         Fits(e, Rest(d, R, usage), Usage(d, R, usage))
  PROVE  Fits(e, R, usage)
<1> DEFINE after == Rest(d, R, usage)
<1>1. \A x \in Dims : IF R[x] = None THEN after[x] = None
                      ELSE after[x] \in Nat /\ after[x] <= R[x]
  BY RestWithin
<1>2. \A x \in Dims : R[x] = None \/ R[x] \in Nat
  BY DEF Within, LimitsSet, Value
<1>3. e.limits \in LimitsSet /\ e.image \in Images
  BY DEF Description
<1>4. \A x \in Dims : e.limits[x] \in Nat \cup {None}
  BY <1>3 DEF LimitsSet, Value
<1>5. \A x \in Dims : Under(e.limits[x], after[x]) => Under(e.limits[x], R[x])
  BY <1>1, <1>2, <1>4 DEF Under
<1>6. \A x \in Consumed \cup Capped : Under(e.limits[x], R[x])
  BY <1>5 DEF Fits, Dims
<1>7. GpusFit(e.limits, R)
  BY <1>1, <1>2, <1>4, <1>5 DEF Fits, GpusFit, Dims
<1>8. ImageFits(e, R, usage)
  <2> SUFFICES ASSUME R["image"] # None
               PROVE  e.limits["image"] # None /\ ImageAdd(e, usage) <= R["image"]
    BY DEF ImageFits
  <2>1. /\ after["image"] \in Nat /\ after["image"] <= R["image"]
        /\ R["image"] \in Nat
    BY <1>1, <1>2 DEF Dims
  <2>2. e.limits["image"] # None /\ ImageAdd(e, Usage(d, R, usage)) <= after["image"]
    BY <2>1 DEF Fits, ImageFits
  <2>3. CASE e.image # d.image
    <3>1. Usage(d, R, usage)[e.image] = usage[e.image]
      BY <1>3, <2>3 DEF Usage, Usages
    <3>2. ImageAdd(e, Usage(d, R, usage)) = ImageAdd(e, usage)
      BY <3>1 DEF ImageAdd
    <3>3. ImageAdd(e, usage) \in Nat
      BY <2>2, ImageAddType
    <3> QED
      BY <2>1, <2>2, <3>2, <3>3
  <2>4. CASE e.image = d.image
    <3>1. d.limits["image"] # None
      BY DEF Fits, ImageFits
    <3>2. /\ usage[e.image] \in Nat /\ e.limits["image"] \in Nat /\ d.limits["image"] \in Nat
      BY <1>3, <1>4, <2>2, <3>1 DEF Usages, Description, LimitsSet, Value, Dims
    <3>3. Usage(d, R, usage)[e.image] = Larger(usage[e.image], d.limits["image"])
      BY <1>3, <2>4 DEF Usage, Usages
    <3>4. after["image"] = R["image"] - (Larger(usage[e.image], d.limits["image"]) - usage[e.image])
      BY <2>4, DimensionsAssumption DEF Rest, ImageAdd, Dims
    <3> QED
      BY <2>1, <2>2, <3>2, <3>3, <3>4 DEF ImageAdd, Larger
  <2> QED
    BY <2>3, <2>4
<1> QED
  BY <1>6, <1>7, <1>8 DEF Fits

---------------------------------------------------------------------------
(* The inductive invariant                                                 *)

\* A task that waits was submitted, and a submitted one has a description.
Queued == /\ waiting \subseteq Submitted
          /\ \A t \in Submitted : desc[t] \in Description

\* A call considers waiting tasks only; after an exclusive one it is over.
Considered ==
  call.on => /\ call.rest \subseteq waiting
             /\ call.taken \subseteq waiting
             /\ call.skipped \subseteq waiting
             /\ (\E t \in call.taken : desc[t].exclusive) => call.rest = {}

Few == call.on => Cardinality(call.taken) <= call.offer.concurency + 1

IInv == TypeOK /\ Queued /\ Considered /\ Few /\ ExclusiveAlone /\ PassedOverDoNotFit

LEMMA InitInv == Init => IInv
<1> SUFFICES ASSUME Init PROVE IInv
  OBVIOUS
<1>1. Submitted = {}
  BY DEF Init, Submitted
<1>2. ~call.on
  BY DEF Init, NoCall
<1>3. TypeOK
  BY <1>2, InputAssumption DEF TypeOK, Init
<1> QED
  BY <1>1, <1>2, <1>3 DEF IInv, Queued, Considered, Few, ExclusiveAlone, PassedOverDoNotFit, Init

LEMMA RunningCall ==
  ASSUME TypeOK, call.on
  PROVE  /\ call \in Call
         /\ call.offer \in Offer
         /\ Correct(call.offer.limits) \in LimitsSet
         /\ Within(call.resources, Correct(call.offer.limits))
<1>1. call \in Call
  BY DEF TypeOK, NoCall
<1>2. call.offer \in Offer
  BY <1>1, InputAssumption DEF Call
<1>3. Correct(call.offer.limits) \in LimitsSet
  BY <1>2, CorrectType DEF Offer
<1>4. call.resources \in Resources
  BY <1>1 DEF Call
<1> QED
  BY <1>1, <1>2, <1>3, <1>4 DEF TypeOK, Within

\* The properties of a call say nothing while none is running.
LEMMA NoCallInv ==
  ASSUME TypeOK', Queued', ~call'.on
  PROVE  IInv'
BY DEF IInv, Considered, Few, ExclusiveAlone, PassedOverDoNotFit

LEMMA SubmitInv == ASSUME IInv, NEW t \in Tasks, NEW d \in Descriptions, Submit(t, d)
                   PROVE  IInv'
<1>1. d \in Description /\ d.limits \in LimitsSet
  BY InputAssumption DEF Description
<1>2. Update(d.limits, ServerLimits) \in LimitsSet
  BY <1>1, UpdateType, InputAssumption
<1>3. [d EXCEPT !.limits = Update(@, ServerLimits)] \in Description
  BY <1>1, <1>2 DEF Description
<1>4. Cardinality(Submitted) \in Nat
  BY FS_Subset, FS_CardinalityType, InputAssumption DEF Submitted
<1>5. TypeOK'
  <2>1. desc' \in [Tasks -> Description \cup {None}]
    BY <1>3 DEF IInv, TypeOK, Submit
  <2>2. created' \in [Tasks -> Nat]
    BY <1>4 DEF IInv, TypeOK, Submit
  <2>3. waiting' \in SUBSET Tasks /\ UNCHANGED <<returned, call>> /\ ~call'.on
    BY DEF IInv, TypeOK, Submit
  <2> QED
    BY <2>1, <2>2, <2>3 DEF IInv, TypeOK
<1>6. Submitted' = Submitted \cup {t}
  BY <1>4 DEF IInv, TypeOK, Submit, Submitted
<1>7. Queued'
  <2>1. waiting' \subseteq Submitted'
    BY <1>6 DEF IInv, Queued, Submit
  <2>2. \A s \in Submitted' : desc'[s] \in Description
    BY <1>3, <1>6 DEF IInv, TypeOK, Queued, Submit
  <2> QED
    BY <2>1, <2>2 DEF Queued
<1> QED
  BY <1>5, <1>7, NoCallInv DEF Submit

LEMMA ReturnInv == ASSUME IInv, NEW t \in Tasks, Return(t) PROVE IInv'
<1>1. TypeOK'
  BY InputAssumption DEF IInv, TypeOK, Return
<1>2. Queued'
  BY DEF IInv, Queued, Return, Submitted
<1> QED
  BY <1>1, <1>2, NoCallInv DEF Return

LEMMA BeginInv == ASSUME IInv, NEW o \in Offers, Begin(o) PROVE IInv'
<1> DEFINE off == Correct(o.limits)
<1>1. o \in Offer /\ off \in LimitsSet
  BY CorrectType, InputAssumption DEF Offer
<1>2. /\ call'.on /\ call'.offer = o /\ call'.rest = FirstWaiting
      /\ call'.taken = {} /\ call'.skipped = {} /\ call'.resources = off
      /\ UNCHANGED <<desc, created, waiting, returned>>
  BY DEF Begin
<1>3. FirstWaiting \subseteq waiting
  BY DEF FirstWaiting
<1>4. TypeOK'
  <2>1. off \in Resources /\ NoUsage \in Usages
    BY <1>1 DEF LimitsSet, Value, Resources, NoUsage, Usages
  <2>2. call' \in Call
    BY <1>3, <2>1 DEF Begin, Call, Usages, IInv, TypeOK
  <2>3. \A x \in Dims : off[x] = None \/ off[x] \in 0 .. off[x]
    BY <1>1 DEF LimitsSet, Value
  <2>4. \A x \in Dims : IF Correct(call'.offer.limits)[x] = None
                        THEN call'.resources[x] = None
                        ELSE call'.resources[x] \in 0 .. Correct(call'.offer.limits)[x]
    BY <1>2, <2>3
  <2> QED
    BY <1>2, <2>2, <2>4 DEF IInv, TypeOK
<1>5. Queued'
  BY <1>2 DEF IInv, Queued, Submitted
<1>6. Few'
  BY <1>1, <1>2, FS_EmptySet DEF Few, Offer
<1> QED
  BY <1>2, <1>3, <1>4, <1>5, <1>6 DEF IInv, Considered, ExclusiveAlone, PassedOverDoNotFit

LEMMA SkipInv == ASSUME IInv, NEW t \in Tasks, Skip(t) PROVE IInv'
<1>1. /\ call.on /\ t \in call.rest /\ ~Acceptable(desc[t]) /\ call \in Call
      /\ UNCHANGED <<desc, created, waiting, returned>>
  BY RunningCall DEF IInv, Skip, Oldest
<1>2. call' = [call EXCEPT !.rest = @ \ {t}, !.skipped = @ \cup {t}]
  BY DEF Skip
<1>3. /\ call' \in Call /\ call'.on /\ call'.offer = call.offer /\ call'.taken = call.taken
      /\ call'.resources = call.resources /\ call'.image_usage = call.image_usage
      /\ call'.rest = call.rest \ {t} /\ call'.skipped = call.skipped \cup {t}
  BY <1>1, <1>2 DEF Call
<1>4. TypeOK'
  BY <1>1, <1>3 DEF IInv, TypeOK
<1>5. Queued'
  BY <1>1 DEF IInv, Queued, Submitted
<1>6. Considered' /\ Few' /\ ExclusiveAlone'
  BY <1>1, <1>3 DEF IInv, Considered, Few, ExclusiveAlone
<1>7. \A d \in Description : Acceptable(d)' = Acceptable(d)
  BY <1>3 DEF Acceptable, MixesExclusive
<1>8. \A s \in call.skipped \cup {t} : desc[s] \in Description
  BY <1>1 DEF IInv, Considered, Queued
<1>9. PassedOverDoNotFit'
  <2> SUFFICES ASSUME NEW s \in call'.skipped, Acceptable(desc[s])'
               PROVE  FALSE
    BY DEF PassedOverDoNotFit
  <2>1. Acceptable(desc[s])
    BY <1>1, <1>3, <1>7, <1>8 DEF Acceptable, MixesExclusive
  <2> QED
    BY <1>1, <1>3, <2>1 DEF IInv, PassedOverDoNotFit
<1> QED
  BY <1>4, <1>5, <1>6, <1>9 DEF IInv

LEMMA TakeInv == ASSUME IInv, NEW t \in Tasks, Take(t) PROVE IInv'
<1> DEFINE d == desc[t]
           off == Correct(call.offer.limits)
           R == Rest(d, call.resources, call.image_usage)
           U == Usage(d, call.resources, call.image_usage)
<1>1. /\ call.on /\ t \in call.rest /\ ~Full /\ Acceptable(d)
      /\ UNCHANGED <<desc, created, waiting, returned>>
  BY DEF Take, Oldest
<1>2. /\ call \in Call /\ call.offer \in Offer /\ off \in LimitsSet
      /\ Within(call.resources, off)
  BY <1>1, RunningCall DEF IInv
<1>3. call.image_usage \in Usages
  BY <1>2 DEF Call, Usages
<1>4. t \in waiting /\ d \in Description
  BY <1>1 DEF IInv, Considered, Queued
<1>5. Fits(d, call.resources, call.image_usage)
  BY <1>1 DEF Acceptable
<1>6. Within(R, off) /\ U \in Usages
  BY <1>2, <1>3, <1>4, <1>5, RestWithin
<1>7. call' = [call EXCEPT !.rest = IF d.exclusive THEN {} ELSE @ \ {t},
                           !.taken = @ \cup {t}, !.resources = R, !.image_usage = U]
  BY DEF Take
<1>8. /\ call'.on /\ call'.offer = call.offer /\ call'.taken = call.taken \cup {t}
      /\ call'.skipped = call.skipped /\ call'.resources = R /\ call'.image_usage = U
      /\ call'.rest = IF d.exclusive THEN {} ELSE call.rest \ {t}
  BY <1>1, <1>2, <1>7 DEF Call
<1>9. call' \in Call
  <2>1. R \in Resources
    BY <1>6 DEF Within
  <2> HIDE DEF R, U, d
  <2> QED
    BY <1>2, <1>6, <1>7, <2>1 DEF Call, Usages
<1>10. TypeOK'
  <2>1. \A x \in Dims : IF off[x] = None THEN R[x] = None ELSE R[x] \in 0 .. off[x]
    BY <1>6 DEF Within
  <2>2. \A x \in Dims : IF Correct(call'.offer.limits)[x] = None
                        THEN call'.resources[x] = None
                        ELSE call'.resources[x] \in 0 .. Correct(call'.offer.limits)[x]
    BY <1>8, <2>1
  <2> QED
    BY <1>1, <1>9, <2>2 DEF IInv, TypeOK
<1>11. Queued'
  BY <1>1 DEF IInv, Queued, Submitted
<1>12. \A u \in call.taken : ~desc[u].exclusive
  BY <1>1 DEF IInv, Considered
<1>13. d.exclusive => call.taken = {}
  BY <1>1 DEF Acceptable, MixesExclusive
<1>14. Considered'
  <2>1. call'.rest \subseteq waiting' /\ call'.taken \subseteq waiting'
          /\ call'.skipped \subseteq waiting'
    BY <1>1, <1>4, <1>8 DEF IInv, Considered
  <2>2. (\E u \in call'.taken : desc'[u].exclusive) => call'.rest = {}
    BY <1>1, <1>8, <1>12
  <2> QED
    BY <2>1, <2>2 DEF Considered
<1>15. Few'
  <2>1. IsFiniteSet(call.taken)
    BY <1>2, FS_Subset, InputAssumption DEF Call
  <2>2. Cardinality(call.taken) \in Nat /\ Cardinality(call.taken \cup {t}) \in Nat
    BY <2>1, FS_CardinalityType, FS_AddElement
  <2>3. Cardinality(call.taken \cup {t}) <= Cardinality(call.taken) + 1
    <3>1. \/ Cardinality(call.taken \cup {t}) = Cardinality(call.taken)
          \/ Cardinality(call.taken \cup {t}) = Cardinality(call.taken) + 1
      BY <2>1, FS_AddElement
    <3> QED
      BY <2>2, <3>1
  <2>4. Cardinality(call.taken) <= call.offer.concurency
    BY <1>1, <1>2, <2>2 DEF Full, Offer
  <2> QED
    BY <1>2, <1>8, <2>2, <2>3, <2>4 DEF Few, Offer
<1>16. ExclusiveAlone'
  BY <1>1, <1>8, <1>12, <1>13 DEF ExclusiveAlone
<1>17. PassedOverDoNotFit'
  <2> SUFFICES ASSUME NEW s \in call'.skipped, Acceptable(desc[s])'
               PROVE  FALSE
    BY DEF PassedOverDoNotFit
  <2>1. desc[s] \in Description
    BY <1>1, <1>8 DEF IInv, Considered, Queued
  <2>2. /\ ~(call.taken \cup {t} # {} /\ desc[s].exclusive)
        /\ desc[s].requires \subseteq call.offer.tags
        /\ Fits(desc[s], R, U)
    BY <1>1, <1>8 DEF Acceptable, MixesExclusive
  <2>3. Fits(desc[s], call.resources, call.image_usage)
    BY <1>2, <1>3, <1>4, <1>5, <2>1, <2>2, FittedBefore
  <2>4. Acceptable(desc[s])
    BY <2>2, <2>3 DEF Acceptable, MixesExclusive
  <2> QED
    BY <1>1, <1>8, <2>4 DEF IInv, PassedOverDoNotFit
<1> QED
  BY <1>10, <1>11, <1>14, <1>15, <1>16, <1>17 DEF IInv

LEMMA CommitInv == ASSUME IInv, Commit PROVE IInv'
<1>1. ~call'.on
  BY DEF Commit, NoCall
<1>2. TypeOK'
  BY <1>1 DEF IInv, TypeOK, Commit
<1>3. Queued'
  BY DEF IInv, Queued, Commit, Submitted
<1> QED
  BY <1>1, <1>2, <1>3, NoCallInv

LEMMA NextInv == IInv /\ [Next]_vars => IInv'
<1> SUFFICES ASSUME IInv, [Next]_vars PROVE IInv'
  OBVIOUS
<1>1. ASSUME NEW t \in Tasks, NEW d \in Descriptions, Submit(t, d) PROVE IInv'
  BY <1>1, SubmitInv
<1>2. ASSUME NEW t \in Tasks, Return(t) PROVE IInv'
  BY <1>2, ReturnInv
<1>3. ASSUME NEW o \in Offers, Begin(o) PROVE IInv'
  BY <1>3, BeginInv
<1>4. ASSUME NEW t \in Tasks, Take(t) PROVE IInv'
  BY <1>4, TakeInv
<1>5. ASSUME NEW t \in Tasks, Skip(t) PROVE IInv'
  BY <1>5, SkipInv
<1>6. CASE Commit
  BY <1>6, CommitInv
<1>7. CASE UNCHANGED vars
  BY <1>7 DEF vars, IInv, TypeOK, Queued, Submitted, Considered, Few, ExclusiveAlone,
              PassedOverDoNotFit, Acceptable, MixesExclusive
<1> QED
  BY <1>1, <1>2, <1>3, <1>4, <1>5, <1>6, <1>7 DEF Next, Loop

LEMMA Invariance == Spec => []IInv
  BY InitInv, NextInv, PTL DEF Spec

---------------------------------------------------------------------------
(* The tasks of one answer together.  Where the offer has a value, what is *)
(* left of it and what the tasks taken declare make up the offer; of an    *)
(* image, what the task that declares most of it does.                     *)

Says(t, x)   == IF desc[t].limits[x] = None THEN 0 ELSE desc[t].limits[x]
ImagesOf(S)  == {desc[t].image : t \in S}
OfImage(i)   == {t \in call.taken : desc[t].image = i}
Largest(n, set) == n \in set /\ \A m \in set : m <= n

SharesAddUp ==
  call.on => \A x \in Consumed \cup {"gpus"} : Offered(x) # None =>
    SumFunctionOnSet([t \in call.taken |-> Says(t, x)], call.taken) + call.resources[x] = Offered(x)

UsageIsLargest ==
  call.on /\ Offered("image") # None => \A i \in Images :
    IF OfImage(i) = {} THEN call.image_usage[i] = 0
                       ELSE Largest(call.image_usage[i], {Says(t, "image") : t \in OfImage(i)})

ImagesAddUp ==
  call.on /\ Offered("image") # None =>
    SumFunctionOnSet(call.image_usage, ImagesOf(call.taken)) + call.resources["image"] = Offered("image")

CapsHold ==
  call.on => /\ \A x \in Capped, t \in call.taken : Under(desc[t].limits[x], Offered(x))
             /\ \A t \in call.taken : OnGpus(t) =>
                  Offered("gpus") # None /\ Under(desc[t].limits["gpu_memory"], Offered("gpu_memory"))

TakenOnce == call.on => call.rest \cap call.taken = {}

Ledger == SharesAddUp /\ UsageIsLargest /\ ImagesAddUp /\ CapsHold /\ TakenOnce

LEMMA TakenAre ==
  ASSUME IInv, call.on
  PROVE  /\ call \in Call /\ call.offer \in Offer /\ IsFiniteSet(call.taken)
         /\ call.taken \subseteq Tasks
         /\ \A t \in call.taken : desc[t] \in Description /\ desc[t].image \in Images
         /\ \A t \in call.taken, x \in Dims : Says(t, x) \in Nat
         /\ IsFiniteSet(ImagesOf(call.taken)) /\ ImagesOf(call.taken) \subseteq Images
<1>1. call \in Call /\ call.offer \in Offer /\ call.taken \subseteq Tasks
  BY RunningCall DEF IInv, Call
<1>2. IsFiniteSet(call.taken)
  BY <1>1, FS_Subset, InputAssumption
<1>3. \A t \in call.taken : desc[t] \in Description /\ desc[t].image \in Images
                            /\ desc[t].limits \in LimitsSet
  BY DEF IInv, Considered, Queued, Description
<1>4. \A t \in call.taken : \A x \in Dims : Says(t, x) \in Nat
  BY <1>3 DEF Says, LimitsSet, Value
<1>5. [t \in call.taken |-> desc[t].image] \in Surjection(call.taken, ImagesOf(call.taken))
  BY DEF Surjection, ImagesOf
<1>6. IsFiniteSet(ImagesOf(call.taken))
  BY <1>2, <1>5, FS_Surjection
<1> QED
  BY <1>1, <1>2, <1>3, <1>4, <1>6 DEF ImagesOf

LEMMA BeginLedger == ASSUME IInv, NEW o \in Offers, Begin(o) PROVE Ledger'
<1> DEFINE off == Correct(o.limits)
<1>1. o \in Offer /\ off \in LimitsSet
  BY CorrectType, InputAssumption DEF Offer
<1>2. /\ call'.on /\ call'.offer = o /\ call'.taken = {} /\ call'.resources = off
      /\ call'.image_usage = NoUsage
  BY DEF Begin
<1>3. \A x \in Dims : off[x] # None => off[x] \in Nat
  BY <1>1 DEF LimitsSet, Value
<1>4. SharesAddUp'
  <2> SUFFICES ASSUME NEW x \in Consumed \cup {"gpus"}, off[x] # None
               PROVE  SumFunctionOnSet([t \in {} |-> Says(t, x)'], {}) + off[x] = off[x]
    BY <1>2 DEF SharesAddUp, Offered
  <2>1. SumFunctionOnSet([t \in {} |-> Says(t, x)'], {}) = 0
    BY SumEmpty
  <2>2. off[x] \in Nat
    BY <1>3 DEF Dims
  <2> QED
    BY <2>1, <2>2
<1>5. UsageIsLargest'
  BY <1>2 DEF UsageIsLargest, OfImage, NoUsage
<1>6. ImagesAddUp'
  <2> SUFFICES ASSUME off["image"] # None
               PROVE  SumFunctionOnSet(NoUsage, {}) + off["image"] = off["image"]
    BY <1>2 DEF ImagesAddUp, Offered, ImagesOf
  <2>1. SumFunctionOnSet(NoUsage, {}) = 0
    BY SumEmpty
  <2>2. off["image"] \in Nat
    BY <1>3 DEF Dims
  <2> QED
    BY <2>1, <2>2
<1>7. CapsHold'
  BY <1>2 DEF CapsHold
<1>8. TakenOnce'
  BY <1>2 DEF TakenOnce
<1> QED
  BY <1>4, <1>5, <1>6, <1>7, <1>8 DEF Ledger

LEMMA TakeLedger == ASSUME IInv, Ledger, NEW t \in Tasks, Take(t) PROVE Ledger'
<1> DEFINE d == desc[t]
           off == Correct(call.offer.limits)
           R == call.resources
           use == call.image_usage
           S == call.taken
           i == d.image
           after == Rest(d, R, use)
           more == Usage(d, R, use)
<1>1. /\ call.on /\ t \in call.rest /\ t \notin S /\ Fits(d, R, use) /\ desc' = desc
      /\ t \in waiting
  <2>1. call.on /\ t \in call.rest /\ Fits(d, R, use) /\ desc' = desc
    BY DEF Take, Oldest, Acceptable
  <2> QED
    BY <2>1 DEF IInv, Considered, Ledger, TakenOnce
<1>2. /\ call \in Call /\ call.offer \in Offer /\ off \in LimitsSet /\ Within(R, off)
      /\ use \in Usages
  BY <1>1, RunningCall DEF IInv, Call, Usages
<1>3. /\ d \in Description /\ i \in Images /\ d.limits \in LimitsSet
  BY <1>1 DEF IInv, Considered, Queued, Description
<1>4. /\ call'.on /\ call'.offer = call.offer /\ call'.taken = S \cup {t}
      /\ call'.resources = after /\ call'.image_usage = more
      /\ call'.rest = IF d.exclusive THEN {} ELSE call.rest \ {t}
  <2>1. call' = [call EXCEPT !.rest = IF d.exclusive THEN {} ELSE @ \ {t},
                             !.taken = @ \cup {t}, !.resources = after, !.image_usage = more]
    BY DEF Take
  <2> QED
    BY <1>1, <1>2, <2>1 DEF Call
<1>5. /\ IsFiniteSet(S) /\ S \subseteq Tasks
      /\ \A s \in S : desc[s] \in Description /\ desc[s].image \in Images
      /\ \A s \in S : \A x \in Dims : Says(s, x) \in Nat
      /\ IsFiniteSet(ImagesOf(S)) /\ ImagesOf(S) \subseteq Images
  BY <1>1, TakenAre DEF IInv
<1>6. \A x \in Dims : /\ d.limits[x] \in Nat \cup {None} /\ Says(t, x) \in Nat
                      /\ off[x] \in Nat \cup {None}
                      /\ off[x] # None => R[x] \in Nat /\ R[x] <= off[x]
                      /\ off[x] = None => R[x] = None
  BY <1>2, <1>3 DEF LimitsSet, Value, Says, Within
<1>7. IsFiniteSet(S \cup {t})
  BY <1>5, FS_AddElement
<1>8. SharesAddUp'
  <2> SUFFICES ASSUME NEW x \in Consumed \cup {"gpus"}, off[x] # None
               PROVE  SumFunctionOnSet([s \in S \cup {t} |-> Says(s, x)], S \cup {t}) + after[x]
                        = off[x]
    BY <1>1, <1>4 DEF SharesAddUp, Offered, Says
  <2> DEFINE f == [s \in S |-> Says(s, x)]
             g == [s \in S \cup {t} |-> Says(s, x)]
  <2>1. x \in Dims
    BY DEF Dims
  <2>2. NatOn(g, S \cup {t}) /\ NatOn(f, S)
    BY <1>5, <1>6, <1>7, <2>1 DEF NatOn
  <2>3. SumFunctionOnSet(g, S \cup {t}) = g[t] + SumFunctionOnSet(g, S)
    <3> HIDE DEF g
    <3> QED  BY <1>1, <2>2, SumAdd
  <2>4. SumFunctionOnSet(g, S) = SumFunctionOnSet(f, S)
    <3>1. \A s \in S : f[s] = g[s]
      OBVIOUS
    <3> HIDE DEF f, g
    <3> QED  BY <2>2, <3>1, SumSame
  <2>5. SumFunctionOnSet(f, S) + R[x] = off[x]
    BY <1>1 DEF Ledger, SharesAddUp, Offered
  <2>6. SumFunctionOnSet(f, S) \in Nat
    <3> HIDE DEF f
    <3> QED  BY <2>2, SumNat
  <2>7. after[x] = R[x] - Says(t, x)
    <3>1. CASE x \in Consumed
      <4>1. Under(d.limits[x], R[x])
        BY <1>1, <3>1 DEF Fits
      <4>2. d.limits[x] # None
        BY <1>6, <2>1, <4>1 DEF Under
      <4> QED
        BY <1>6, <2>1, <3>1, <4>2 DEF Rest, Says
    <3>2. CASE x = "gpus" /\ x \notin Consumed
      BY <1>6, <2>1, <3>2 DEF Rest, Says
    <3> QED
      BY <3>1, <3>2
  <2>8. g[t] = Says(t, x) /\ Says(t, x) \in Nat /\ R[x] \in Nat /\ off[x] \in Nat
    BY <1>6, <2>1
  <2> HIDE DEF f, g, after, R, off
  <2> QED
    BY <2>3, <2>4, <2>5, <2>6, <2>7, <2>8 DEF g
<1>9. ASSUME off["image"] # None
      PROVE  /\ R["image"] \in Nat /\ off["image"] \in Nat
             /\ d.limits["image"] \in Nat /\ Says(t, "image") = d.limits["image"]
             /\ more = [use EXCEPT ![i] = Larger(use[i], d.limits["image"])]
             /\ after["image"] = R["image"] - (Larger(use[i], d.limits["image"]) - use[i])
  <2>1. "image" \in Dims /\ "image" \notin Consumed
    BY DimensionsAssumption DEF Dims
  <2>2. R["image"] # None /\ R["image"] \in Nat /\ off["image"] \in Nat
    BY <1>6, <1>9, <2>1
  <2>3. d.limits["image"] # None
    BY <1>1, <2>2 DEF Fits, ImageFits
  <2> QED
    BY <1>6, <2>1, <2>2, <2>3 DEF Usage, Rest, ImageAdd, Says
<1>10. \A j \in Images : {s \in S \cup {t} : desc[s].image = j}
                         = IF j = i THEN OfImage(j) \cup {t} ELSE OfImage(j)
  BY DEF OfImage
<1>11. \A s \in S : Says(s, "image") \in Nat
  BY <1>5 DEF Dims
<1>12. UsageIsLargest'
  <2> SUFFICES ASSUME off["image"] # None, NEW j \in Images
               PROVE  LET of == {s \in S \cup {t} : desc[s].image = j} IN
                      IF of = {} THEN more[j] = 0
                                 ELSE Largest(more[j], {Says(s, "image") : s \in of})
    BY <1>1, <1>4 DEF UsageIsLargest, OfImage, Offered, Says, Largest
  <2>1. IF OfImage(j) = {} THEN use[j] = 0
                           ELSE Largest(use[j], {Says(s, "image") : s \in OfImage(j)})
    BY <1>1 DEF Ledger, UsageIsLargest, Offered
  <2>2. CASE j # i
    <3>1. more[j] = use[j]
      BY <1>2, <1>9, <2>2 DEF Usages
    <3> QED
      BY <1>10, <2>1, <2>2, <3>1
  <2>3. CASE j = i
    <3>1. more[j] = Larger(use[j], Says(t, "image")) /\ use[j] \in Nat /\ Says(t, "image") \in Nat
      BY <1>2, <1>9, <2>3 DEF Usages
    <3>2. \A s \in OfImage(j) : Says(s, "image") \in Nat
      BY <1>11 DEF OfImage
    <3>3. Largest(more[j], {Says(s, "image") : s \in OfImage(j) \cup {t}})
      <4>1. CASE OfImage(j) = {}
        BY <2>1, <3>1, <4>1 DEF Largest, Larger
      <4>2. CASE OfImage(j) # {}
        <5>1. Largest(use[j], {Says(s, "image") : s \in OfImage(j)})
          BY <2>1, <4>2
        <5>2. more[j] \in {Says(s, "image") : s \in OfImage(j) \cup {t}}
          BY <3>1, <5>1 DEF Largest, Larger
        <5>3. \A s \in OfImage(j) \cup {t} : Says(s, "image") <= more[j]
          BY <3>1, <3>2, <5>1 DEF Largest, Larger
        <5> QED
          BY <5>2, <5>3 DEF Largest
      <4> QED
        BY <4>1, <4>2
    <3> QED
      BY <1>10, <2>3, <3>3
  <2> QED
    BY <2>2, <2>3
<1>13. ImagesAddUp'
  <2> SUFFICES ASSUME off["image"] # None
               PROVE  SumFunctionOnSet(more, ImagesOf(S \cup {t})) + after["image"] = off["image"]
    BY <1>1, <1>4 DEF ImagesAddUp, Offered, ImagesOf
  <2> DEFINE I == ImagesOf(S)
             J == I \ {i}
  <2>1. ImagesOf(S \cup {t}) = I \cup {i} /\ (I \cup {i}) \ {i} = J
    BY DEF ImagesOf
  <2>2. IsFiniteSet(I \cup {i}) /\ IsFiniteSet(I) /\ IsFiniteSet(J) /\ I \subseteq Images
    BY <1>5, FS_AddElement, FS_RemoveElement
  <2>3. /\ use \in [Images -> Nat] /\ more \in [Images -> Nat]
        /\ more[i] = Larger(use[i], d.limits["image"])
        /\ \A j \in Images : j # i => more[j] = use[j]
    <3>1. Larger(use[i], d.limits["image"]) \in Nat
      BY <1>2, <1>3, <1>9 DEF Larger, Usages
    <3>2. use \in [Images -> Nat]
      BY <1>2 DEF Usages
    <3> HIDE DEF use, more, i, d
    <3> QED  BY <1>3, <1>9, <3>1, <3>2
  <2> HIDE DEF I, more, use, after, R, off, i, d, S
  <2>4. NatOn(more, I \cup {i}) /\ NatOn(more, J) /\ NatOn(use, I) /\ NatOn(use, J)
    BY <1>3, <2>2, <2>3 DEF NatOn
  <2>5. SumFunctionOnSet(more, I \cup {i}) = more[i] + SumFunctionOnSet(more, J)
    <3>1. i \in I \cup {i}
      OBVIOUS
    <3> QED
      BY <2>1, <2>4, <3>1, SumOne
  <2>6. SumFunctionOnSet(more, J) = SumFunctionOnSet(use, J) /\ SumFunctionOnSet(use, J) \in Nat
    <3>1. \A j \in J : more[j] = use[j]
      BY <2>2, <2>3
    <3> QED
      BY <2>4, <3>1, SumSame, SumNat
  <2>7. SumFunctionOnSet(use, I) = use[i] + SumFunctionOnSet(use, J)
    <3>1. CASE i \in I
      BY <2>4, <3>1, SumOne
    <3>2. CASE i \notin I
      <4>1. I = J
        BY <3>2
      <4>2. use[i] = 0
        <5>1. OfImage(i) = {}
          BY <3>2 DEF OfImage, I, ImagesOf, S
        <5> QED
          BY <1>1, <1>3, <5>1 DEF Ledger, UsageIsLargest, Offered, off, use
      <4> QED
        BY <2>6, <4>1, <4>2
    <3> QED
      BY <3>1, <3>2
  <2>8. SumFunctionOnSet(use, I) + R["image"] = off["image"]
    BY <1>1 DEF Ledger, ImagesAddUp, Offered, off, use, R, I, S
  <2>9. after["image"] = R["image"] - (more[i] - use[i])
    BY <1>9, <2>3
  <2>10. /\ more[i] \in Nat /\ use[i] \in Nat /\ R["image"] \in Nat /\ off["image"] \in Nat
    BY <1>3, <1>9, <2>3
  <2> HIDE DEF J
  <2>11. SumFunctionOnSet(more, ImagesOf(S \cup {t})) = more[i] + SumFunctionOnSet(use, J)
    BY <2>1, <2>5, <2>6
  <2> QED
    BY <2>6, <2>7, <2>8, <2>9, <2>10, <2>11
<1>14. CapsHold'
  <2>1. ASSUME NEW x \in Capped, NEW s \in S \cup {t}
        PROVE  Under(desc[s].limits[x], off[x])
    <3>1. CASE s \in S
      BY <1>1, <3>1 DEF Ledger, CapsHold, Offered
    <3>2. CASE s = t
      <4>1. Under(d.limits[x], R[x]) /\ x \in Dims
        BY <1>1 DEF Fits, Dims
      <4> QED
        BY <1>6, <3>2, <4>1 DEF Under
    <3> QED
      BY <3>1, <3>2
  <2>2. ASSUME NEW s \in S \cup {t}, OnGpus(s)
        PROVE  off["gpus"] # None /\ Under(desc[s].limits["gpu_memory"], off["gpu_memory"])
    <3>1. CASE s \in S
      BY <1>1, <2>2, <3>1 DEF Ledger, CapsHold, Offered
    <3>2. CASE s = t
      <4>1. R["gpus"] # None /\ Under(d.limits["gpu_memory"], R["gpu_memory"])
        BY <1>1, <2>2, <3>2 DEF Fits, GpusFit, OnGpus
      <4>2. "gpus" \in Dims /\ "gpu_memory" \in Dims
        BY DEF Dims
      <4> QED
        BY <1>6, <3>2, <4>1, <4>2 DEF Under
    <3> QED
      BY <3>1, <3>2
  <2> QED
    BY <1>1, <1>4, <2>1, <2>2 DEF CapsHold, Offered, OnGpus
<1>15. TakenOnce'
  BY <1>1, <1>4 DEF TakenOnce, Ledger
<1> QED
  BY <1>8, <1>12, <1>13, <1>14, <1>15 DEF Ledger

LEMMA SameLedger ==
  ASSUME Ledger, desc' = desc, call'.on = call.on, call'.offer = call.offer,
         call'.taken = call.taken, call'.resources = call.resources,
         call'.image_usage = call.image_usage, call'.rest \subseteq call.rest
  PROVE  Ledger'
<1>1. \A x : Offered(x)' = Offered(x)
  BY DEF Offered
<1>2. \A t, x : Says(t, x)' = Says(t, x)
  BY DEF Says
<1>3. SharesAddUp'
  <2>1. \A x : [t \in call'.taken |-> Says(t, x)'] = [t \in call.taken |-> Says(t, x)]
    BY <1>2
  <2> QED
    BY <1>1, <2>1 DEF Ledger, SharesAddUp
<1>4. UsageIsLargest'
  <2>1. \A i : OfImage(i)' = OfImage(i)
    BY DEF OfImage
  <2>2. \A i : {Says(t, "image")' : t \in OfImage(i)'} = {Says(t, "image") : t \in OfImage(i)}
    BY <1>2, <2>1
  <2> QED
    BY <1>1, <2>1, <2>2 DEF Ledger, UsageIsLargest, Largest
<1>5. ImagesAddUp'
  <2>1. ImagesOf(call.taken)' = ImagesOf(call.taken)
    BY DEF ImagesOf
  <2> QED
    BY <1>1, <2>1 DEF Ledger, ImagesAddUp
<1>6. CapsHold' /\ TakenOnce'
  BY <1>1 DEF Ledger, CapsHold, TakenOnce, OnGpus
<1> QED
  BY <1>3, <1>4, <1>5, <1>6 DEF Ledger

LEMMA NextLedger == IInv /\ Ledger /\ [Next]_vars => Ledger'
<1> SUFFICES ASSUME IInv, Ledger, [Next]_vars PROVE Ledger'
  OBVIOUS
<1>1. ~call'.on => Ledger'
  BY DEF Ledger, SharesAddUp, UsageIsLargest, ImagesAddUp, CapsHold, TakenOnce
<1>2. ASSUME NEW t \in Tasks, NEW d \in Descriptions, Submit(t, d) PROVE Ledger'
  BY <1>1, <1>2 DEF Submit
<1>3. ASSUME NEW t \in Tasks, Return(t) PROVE Ledger'
  BY <1>1, <1>3 DEF Return
<1>4. ASSUME NEW o \in Offers, Begin(o) PROVE Ledger'
  BY <1>4, BeginLedger
<1>5. ASSUME NEW t \in Tasks, Take(t) PROVE Ledger'
  BY <1>5, TakeLedger
<1>6. ASSUME NEW t \in Tasks, Skip(t) PROVE Ledger'
  <2>1. call \in Call
    BY <1>6, RunningCall DEF IInv, Skip
  <2>2. /\ call' = [call EXCEPT !.rest = @ \ {t}, !.skipped = @ \cup {t}] /\ desc' = desc
    BY <1>6 DEF Skip
  <2>3. /\ call'.on = call.on /\ call'.offer = call.offer /\ call'.taken = call.taken
        /\ call'.resources = call.resources /\ call'.image_usage = call.image_usage
        /\ call'.rest \subseteq call.rest
    BY <2>1, <2>2 DEF Call
  <2> QED
    BY <2>2, <2>3, SameLedger
<1>7. CASE Commit
  BY <1>1, <1>7 DEF Commit, NoCall
<1>8. CASE UNCHANGED vars
  BY <1>8, SameLedger DEF vars
<1> QED
  BY <1>2, <1>3, <1>4, <1>5, <1>6, <1>7, <1>8 DEF Next, Loop

LEMMA LedgerFits == IInv /\ Ledger => FitsTogether
<1> SUFFICES ASSUME IInv, Ledger, call.on
             PROVE  /\ \A x \in Consumed \cup {"gpus", "image"} :
                         Offered(x) # None => Together(desc, call.taken, x) <= Offered(x)
                    /\ \A x \in Capped, t \in call.taken : Under(desc[t].limits[x], Offered(x))
                    /\ \A t \in call.taken : OnGpus(t) =>
                         /\ Offered("gpus") # None
                         /\ Under(desc[t].limits["gpu_memory"], Offered("gpu_memory"))
  BY DEF FitsTogether
<1> DEFINE S == call.taken
<1>1. /\ call \in Call /\ IsFiniteSet(S)
      /\ \A t \in S : desc[t].image \in Images
      /\ \A t \in S : \A x \in Dims : Says(t, x) \in Nat
      /\ IsFiniteSet(ImagesOf(S)) /\ ImagesOf(S) \subseteq Images
  BY TakenAre
<1>2. \A x \in Dims : Offered(x) # None => call.resources[x] \in Nat /\ Offered(x) \in Nat
  BY RunningCall DEF Within, Offered, LimitsSet, Value, IInv
<1>3. /\ \A x \in Capped, t \in S : Under(desc[t].limits[x], Offered(x))
      /\ \A t \in S : OnGpus(t) =>
           Offered("gpus") # None /\ Under(desc[t].limits["gpu_memory"], Offered("gpu_memory"))
  BY DEF Ledger, CapsHold
<1>4. ASSUME NEW x \in Consumed \cup {"gpus"}, Offered(x) # None
      PROVE  Together(desc, S, x) <= Offered(x)
  <2> DEFINE f == [t \in S |-> Says(t, x)]
  <2>1. x \in Dims /\ x # "image"
    BY DimensionsAssumption DEF Dims
  <2>2. Together(desc, S, x) = SumFunctionOnSet(f, S)
    BY <2>1, Zenon DEF Together, Says
  <2>3. SumFunctionOnSet(f, S) + call.resources[x] = Offered(x)
    BY <1>4 DEF Ledger, SharesAddUp
  <2>4. SumFunctionOnSet(f, S) \in Nat
    <3>1. NatOn(f, S)
      BY <1>1, <2>1 DEF NatOn
    <3> HIDE DEF f
    <3> QED  BY <3>1, SumNat
  <2> QED
    BY <1>2, <1>4, <2>1, <2>2, <2>3, <2>4
<1>5. ASSUME Offered("image") # None
      PROVE  Together(desc, S, "image") <= Offered("image")
  <2> DEFINE I == ImagesOf(S)
             f == [i \in I |-> Max({Says(t, "image") : t \in OfImage(i)})]
  <2>1. Together(desc, S, "image") = SumFunctionOnSet(f, I)
    BY Zenon DEF Together, Says, ImagesOf, OfImage
  <2>2. ASSUME NEW i \in I PROVE f[i] = call.image_usage[i] /\ f[i] \in Nat
    <3> DEFINE N == {Says(t, "image") : t \in OfImage(i)}
    <3>1. OfImage(i) # {} /\ i \in Images
      BY <1>1 DEF ImagesOf, OfImage
    <3>2. Largest(call.image_usage[i], N)
      BY <1>5, <3>1 DEF Ledger, UsageIsLargest
    <3>3. \A n \in N : n \in Nat
      BY <1>1 DEF OfImage, Dims
    <3> HIDE DEF N
    <3>4. Max(N) = call.image_usage[i]
      BY <3>2, <3>3 DEF Max, Largest
    <3> QED
      BY <3>2, <3>3, <3>4 DEF Largest, N
  <2>3. SumFunctionOnSet(f, I) = SumFunctionOnSet(call.image_usage, I)
        /\ SumFunctionOnSet(f, I) \in Nat
    <3>1. NatOn(f, I)
      BY <1>1, <2>2 DEF NatOn
    <3>2. \A i \in I : f[i] = call.image_usage[i]
      BY <2>2
    <3> HIDE DEF f, I
    <3> QED  BY <3>1, <3>2, SumSame, SumNat
  <2>4. SumFunctionOnSet(call.image_usage, I) + call.resources["image"] = Offered("image")
    BY <1>5 DEF Ledger, ImagesAddUp
  <2>5. call.resources["image"] \in Nat /\ Offered("image") \in Nat
    BY <1>2, <1>5 DEF Dims
  <2> HIDE DEF f, I
  <2> QED
    BY <2>1, <2>3, <2>4, <2>5
<1> QED
  BY <1>3, <1>4, <1>5

LEMMA LedgerHolds == Spec => []Ledger
<1>1. Init => Ledger
  BY DEF Init, NoCall, Ledger, SharesAddUp, UsageIsLargest, ImagesAddUp, CapsHold, TakenOnce
<1> QED
  BY <1>1, NextLedger, Invariance, PTL DEF Spec

---------------------------------------------------------------------------
(* Theorems                                                                *)

\* The queue and a running call keep their types, and what dequeue has left
\* of an offer stays between zero and what was offered in every dimension.
THEOREM TypeCorrect == Spec => []TypeOK
<1>1. IInv => TypeOK
  BY DEF IInv
<1> QED
  BY <1>1, Invariance, PTL

\* dequeue never hands out an exclusive task together with another.
THEOREM Exclusion == Spec => []ExclusiveAlone
<1>1. IInv => ExclusiveAlone
  BY DEF IInv
<1> QED
  BY <1>1, Invariance, PTL

\* dequeue hands out waiting tasks only, at most one more than asked for.
THEOREM HandOutBound == Spec => []HandsOutWaiting
<1>1. IInv => HandsOutWaiting
  BY DEF IInv, Considered, Few, HandsOutWaiting
<1> QED
  BY <1>1, Invariance, PTL

\* dequeue overtakes an older task only when that task does not fit what is
\* left of the offer, then and after every later turn.
THEOREM OldestFirst == Spec => []PassedOverDoNotFit
<1>1. IInv => PassedOverDoNotFit
  BY DEF IInv
<1> QED
  BY <1>1, Invariance, PTL

\* What dequeue hands out in one answer fits what the foreman offered all at
\* once, in every dimension and under every cap, though it looks at one task
\* after the other.
THEOREM FitsAsAWhole == Spec => []FitsTogether
<1> QED
  BY LedgerFits, LedgerHolds, Invariance, PTL

=============================================================================
