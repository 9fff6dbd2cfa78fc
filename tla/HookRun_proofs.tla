---------------------------- MODULE HookRun_proofs ----------------------------
(***************************************************************************)
(* AssignHookWeights orders the hook tasks of every spec, and a hook task  *)
(* never runs before the tasks its after list names.                       *)
(***************************************************************************)
EXTENDS HookRun, TLAPS, FiniteSetTheorems, WellFoundedInduction

Weighted(o) == {t \in InPhase(o) : weights[t] # None}
Unmet(t) == {d \in Deps(t) : weights[d] = None}

(***************************************************************************)
(* The inductive invariant. Ordered is what the weights given so far       *)
(* satisfy; Counting ties the counters of the running phase to the tasks   *)
(* that have a weight; Phased says which phases are complete; Bounded      *)
(* gives the maximum over the dependencies a witness.                      *)
(***************************************************************************)
Ordered == \A t \in Tasks : weights[t] # None =>
              \A d \in Deps(t) : weights[d] # None /\ weights[d] < weights[t]

Counting == phase \in Hooks =>
    /\ \A t \in ready : on[t] = phase /\ weights[t] = None /\ Unmet(t) = {}
    /\ \A t \in InPhase(phase) :
          weights[t] = None => indegree[t] = Cardinality(Unmet(t))
    /\ seen = Cardinality(Weighted(phase))

Phased ==
    /\ phase = "start" => \A t \in Tasks : weights[t] = None
    /\ phase = "preDeploy" => \A t \in InPhase("postDeploy") : weights[t] = None
    /\ phase = "postDeploy" => \A t \in InPhase("preDeploy") : weights[t] # None
    /\ phase = "done" => \A t \in Tasks : on[t] \in Hooks => weights[t] # None

Bounded == \E k \in Nat : \A t \in Tasks : weights[t] <= k

WInv == TypeOK /\ Ordered /\ Counting /\ Phased /\ Bounded

(***************************************************************************)
(* A non-empty bounded set of integers has a maximum.                      *)
(***************************************************************************)
LEMMA MaxExists ==
    ASSUME NEW S \in SUBSET Int, S # {}, NEW k \in Int, \A s \in S : s <= k
    PROVE  \E m \in S : \A s \in S : s <= m
<1> DEFINE T == {k - s : s \in S}
<1>1. T \subseteq Nat /\ T # {}
  <2>1. \A s \in S : k - s \in Nat
    OBVIOUS
  <2> QED BY <2>1
<1>2. PICK x \in T : \A y \in T : ~ (<<y, x>> \in OpToRel(<, Nat))
  <2> HIDE DEF T
  <2> QED BY <1>1, WFMin, NatLessThanWellFounded
<1>3. PICK m \in S : x = k - m
  OBVIOUS
<1>4. \A s \in S : s <= m
  <2> TAKE s \in S
  <2>1. k - s \in T /\ k - s \in Nat /\ x \in Nat
    BY <1>1
  <2>2. ~ (k - s < x)
    BY <1>2, <2>1 DEF OpToRel
  <2> QED BY <1>3, <2>2
<1> QED BY <1>4

(***************************************************************************)
(* The heaviest dependency is found.                                       *)
(***************************************************************************)
LEMMA MaxDepFound ==
    ASSUME TypeOK, Bounded, NEW n \in Tasks
    PROVE  /\ MaxDep(n) \in Int /\ MaxDep(n) >= None
           /\ MaxDep(n) = None \/ \E d \in Deps(n) : MaxDep(n) = weights[d]
           /\ \A d \in Deps(n) : weights[d] \in Int /\ weights[d] <= MaxDep(n)
<1> DEFINE W == {weights[d] : d \in Deps(n)} \cup {None}
<1>1. Deps(n) \subseteq Tasks
  BY DEF TypeOK, Deps
<1>2. PICK k \in Nat : \A t \in Tasks : weights[t] <= k
  BY DEF Bounded
<1>3. W \in SUBSET Int /\ W # {} /\ \A w \in W : w >= None
  BY <1>1 DEF TypeOK, None
<1>4. \A w \in W : w <= k
  BY <1>1, <1>2 DEF None
<1>5. \E m \in W : \A w \in W : w <= m
  <2> HIDE DEF W
  <2> QED BY <1>3, <1>4, MaxExists
<1>6. MaxDep(n) \in W /\ \A w \in W : w <= MaxDep(n)
  BY <1>5 DEF MaxDep
<1>7. MaxDep(n) \in Int /\ MaxDep(n) >= None
  BY <1>3, <1>6
<1>8. \A d \in Deps(n) : weights[d] \in W /\ weights[d] \in Int
  BY <1>3
<1>9. MaxDep(n) = None \/ \E d \in Deps(n) : MaxDep(n) = weights[d]
  BY <1>6
<1> HIDE DEF W
<1> QED BY <1>6, <1>7, <1>8, <1>9

LEMMA WeightAboveDeps ==
    ASSUME TypeOK, Bounded, NEW n \in Tasks
    PROVE  /\ Weight(n) \in Nat
           /\ \A d \in Deps(n) : weights[d] < Weight(n)
<1> DEFINE m == MaxDep(n)
<1>1. m \in Int /\ m >= None /\ \A d \in Deps(n) : weights[d] \in Int /\ weights[d] <= m
  BY MaxDepFound
<1>2. Weight(n) = m + 1
  BY DEF Weight
<1> HIDE DEF m
<1> QED BY <1>1, <1>2 DEF None

LEMMA FiniteDeps ==
    ASSUME TypeOK, NEW t \in Tasks
    PROVE  /\ Deps(t) \subseteq Tasks /\ IsFiniteSet(Deps(t))
           /\ Unmet(t) \subseteq Tasks /\ IsFiniteSet(Unmet(t))
           /\ Cardinality(Deps(t)) \in Nat /\ Cardinality(Unmet(t)) \in Nat
           /\ Cardinality(Unmet(t)) = 0 <=> Unmet(t) = {}
<1>1. Deps(t) \in SUBSET Tasks /\ Unmet(t) \in SUBSET Tasks
  BY DEF TypeOK, Deps, Unmet
<1>2. IsFiniteSet(Deps(t)) /\ IsFiniteSet(Unmet(t))
  BY <1>1, FS_Subset, TasksAssumption
<1> QED BY <1>1, <1>2, FS_CardinalityType, FS_EmptySet

LEMMA WInit == Init => WInv
<1> SUFFICES ASSUME Init PROVE WInv
  OBVIOUS
<1>1. TypeOK
  BY DEF Init, TypeOK, Phases
<1>2. Ordered /\ Counting /\ Phased
  BY DEF Init, Ordered, Counting, Phased, Hooks
<1>3. Bounded
  BY DEF Init, Bounded, None
<1> QED BY <1>1, <1>2, <1>3 DEF WInv

(***************************************************************************)
(* A phase is entered with nothing weighted in it.                         *)
(***************************************************************************)
LEMMA WEnter ==
    ASSUME WInv, NEW o \in Hooks, Enter(o),
           \A t \in InPhase(o) : weights[t] = None,
           o = "preDeploy" => \A t \in InPhase("postDeploy") : weights[t] = None,
           o = "postDeploy" => \A t \in InPhase("preDeploy") : weights[t] # None
    PROVE  WInv'
<1>0. TypeOK
  BY DEF WInv
<1>1. /\ on' = on /\ after' = after /\ weights' = weights /\ phase' = o /\ seen' = 0
      /\ indegree' = [t \in Tasks |-> IF on[t] = o THEN Cardinality(Deps(t)) ELSE 0]
      /\ ready' = {t \in InPhase(o) : Deps(t) = {}}
  BY DEF Enter, input
<1>2. TypeOK'
  <2>1. \A t \in Tasks : Cardinality(Deps(t)) \in Nat
    BY <1>0, FiniteDeps
  <2>2. indegree' \in [Tasks -> Nat]
    BY <1>1, <2>1
  <2>3. ready' \in SUBSET Tasks
    BY <1>1 DEF InPhase
  <2> QED BY <1>0, <1>1, <2>2, <2>3 DEF TypeOK, Hooks, Phases
<1>3. Ordered' /\ Bounded'
  BY <1>1 DEF WInv, Ordered, Bounded, Deps
<1>4. Counting'
  <2>1. \A t \in InPhase(o) : Unmet(t)' = Deps(t)
    <3> TAKE t \in InPhase(o)
    <3>1. t \in Tasks /\ on[t] = o /\ Deps(t) \subseteq InPhase(o)
      BY <1>0, FiniteDeps DEF InPhase, Deps
    <3> QED BY <1>1, <3>1 DEF Unmet, Deps
  <2>2. Weighted(o)' = {} /\ InPhase(o)' = InPhase(o)
    BY <1>1 DEF Weighted, InPhase
  <2>3. \A t \in ready' : on'[t] = o /\ weights'[t] = None /\ Unmet(t)' = {}
    BY <1>1, <2>1 DEF InPhase
  <2>4. \A t \in InPhase(o) : indegree'[t] = Cardinality(Unmet(t)')
    BY <1>1, <2>1 DEF InPhase
  <2> QED BY <1>1, <2>2, <2>3, <2>4, FS_EmptySet DEF Counting
<1>5. Phased'
  BY <1>1 DEF Phased, InPhase, Hooks
<1> QED BY <1>2, <1>3, <1>4, <1>5 DEF WInv

LEMMA WBegin == WInv /\ Begin => WInv'
<1> SUFFICES ASSUME WInv, Begin PROVE WInv'
  OBVIOUS
<1>1. Enter("preDeploy") /\ \A t \in Tasks : weights[t] = None
  BY DEF Begin, WInv, Phased
<1>2. "preDeploy" \in Hooks /\ InPhase("preDeploy") \subseteq Tasks
      /\ InPhase("postDeploy") \subseteq Tasks
  BY DEF Hooks, InPhase
<1> QED BY <1>1, <1>2, WEnter

LEMMA WPop ==
    ASSUME WInv, NEW n \in Tasks, Pop(n)
    PROVE  WInv'
<1>0. TypeOK /\ Ordered /\ Counting /\ Phased /\ Bounded /\ phase \in Hooks /\ n \in ready
  BY DEF WInv, Pop
<1>1. /\ on' = on /\ after' = after /\ phase' = phase /\ seen' = seen + 1
      /\ weights' = [weights EXCEPT ![n] = Weight(n)]
  BY DEF Pop, input
<1>2. on[n] = phase /\ weights[n] = None /\ Unmet(n) = {}
  BY <1>0 DEF Counting
<1>3. Weight(n) \in Nat /\ \A d \in Deps(n) : weights[d] < Weight(n)
  BY <1>0, WeightAboveDeps
<1>4. \A t \in Tasks : /\ Deps(t)' = Deps(t) /\ Deps(t) \subseteq Tasks
                       /\ Unmet(t)' = Unmet(t) \ {n}
  <2> TAKE t \in Tasks
  <2>1. Deps(t)' = Deps(t) /\ Deps(t) \subseteq Tasks
    BY <1>0, <1>1, FiniteDeps DEF Deps
  <2>2. \A d \in Tasks : weights'[d] = IF d = n THEN Weight(n) ELSE weights[d]
    BY <1>0, <1>1 DEF TypeOK
  <2> QED BY <1>3, <2>1, <2>2 DEF Unmet, None
<1>5. n \notin Deps(n)
  BY <1>2 DEF Unmet
<1>6. \A c \in Tasks : on[c] = phase /\ n \in Deps(c) =>
         weights[c] = None /\ n \in Unmet(c) /\ indegree[c] = Cardinality(Unmet(c))
  BY <1>0, <1>2 DEF Ordered, Counting, Unmet, InPhase
<1>7. \A c \in Tasks : n \in Unmet(c) =>
         /\ Cardinality(Unmet(c)) # 0
         /\ Cardinality(Unmet(c) \ {n}) = Cardinality(Unmet(c)) - 1
  <2> SUFFICES ASSUME NEW c \in Tasks, n \in Unmet(c)
               PROVE  /\ Cardinality(Unmet(c)) # 0
                      /\ Cardinality(Unmet(c) \ {n}) = Cardinality(Unmet(c)) - 1
    OBVIOUS
  <2> QED BY <1>0, FiniteDeps, FS_RemoveElement
<1>8. TypeOK'
  <2>1. weights' \in [Tasks -> Nat \cup {None}]
    BY <1>0, <1>1, <1>3 DEF TypeOK
  <2>2. indegree' \in [Tasks -> Nat]
    <3>1. \A c \in Tasks : indegree[c] \in Nat
      BY <1>0 DEF TypeOK
    <3>2. \A c \in Tasks : on[c] = phase /\ n \in Deps(c) => indegree[c] # 0
      BY <1>6, <1>7
    <3>3. indegree' = [c \in Tasks |-> IF on[c] = phase /\ n \in Deps(c)
                                       THEN indegree[c] - 1 ELSE indegree[c]]
      BY DEF Pop
    <3> QED BY <3>1, <3>2, <3>3
  <2>3. ready' \in SUBSET Tasks
    BY <1>0 DEF Pop, TypeOK, InPhase
  <2> QED BY <1>0, <1>1, <2>1, <2>2, <2>3 DEF TypeOK
<1>9. Ordered'
  <2> SUFFICES ASSUME NEW t \in Tasks, weights'[t] # None, NEW d \in Deps(t)'
               PROVE  weights'[d] # None /\ weights'[d] < weights'[t]
    BY DEF Ordered
  <2>1. d \in Deps(t) /\ d \in Tasks
    BY <1>4
  <2>2. CASE t = n
    <3>1. d # n /\ weights[d] # None
      BY <1>2, <1>5, <2>1, <2>2 DEF Unmet
    <3> QED BY <1>0, <1>1, <1>3, <2>1, <2>2, <3>1 DEF TypeOK
  <2>3. CASE t # n
    <3>1. weights[t] # None /\ weights'[t] = weights[t]
      BY <1>0, <1>1, <2>3 DEF TypeOK
    <3>2. weights[d] # None /\ weights[d] < weights[t]
      BY <1>0, <2>1, <3>1 DEF Ordered
    <3>3. d # n /\ weights'[d] = weights[d]
      BY <1>0, <1>1, <1>2, <2>1, <3>2 DEF TypeOK
    <3> QED BY <3>1, <3>2, <3>3
  <2> QED BY <2>2, <2>3
<1>10. Counting'
  <2>1. \A t \in ready' : on'[t] = phase' /\ weights'[t] = None /\ Unmet(t)' = {}
    <3> TAKE t \in ready'
    <3>1. ready' = (ready \ {n})
                \cup {c \in InPhase(phase) : n \in Deps(c) /\ indegree[c] = 1}
      BY DEF Pop
    <3>2. CASE t \in ready \ {n}
      <4>1. t \in Tasks /\ on[t] = phase /\ weights[t] = None /\ Unmet(t) = {}
        BY <1>0, <3>2 DEF Counting, TypeOK
      <4> QED BY <1>0, <1>1, <1>4, <3>2, <4>1 DEF TypeOK
    <3>3. CASE t \in InPhase(phase) /\ n \in Deps(t) /\ indegree[t] = 1
      <4>1. t \in Tasks /\ on[t] = phase /\ t # n
        BY <1>5, <3>3 DEF InPhase
      <4>2. weights[t] = None /\ n \in Unmet(t) /\ Cardinality(Unmet(t)) = 1
        BY <1>6, <3>3, <4>1
      <4>3. Cardinality(Unmet(t) \ {n}) = 0 /\ IsFiniteSet(Unmet(t) \ {n})
        BY <1>0, <1>7, <4>1, <4>2, FiniteDeps, FS_RemoveElement
      <4>4. Unmet(t) \ {n} = {}
        BY <4>3, FS_EmptySet
      <4> QED BY <1>0, <1>1, <1>4, <4>1, <4>2, <4>4 DEF TypeOK
    <3> QED BY <3>1, <3>2, <3>3
  <2>2. \A t \in InPhase(phase)' :
           weights'[t] = None => indegree'[t] = Cardinality(Unmet(t)')
    <3> SUFFICES ASSUME NEW t \in Tasks, on[t] = phase, weights'[t] = None
                 PROVE  indegree'[t] = Cardinality(Unmet(t)')
      BY <1>1 DEF InPhase
    <3>1. t # n /\ weights[t] = None
      BY <1>0, <1>1, <1>3 DEF TypeOK, None
    <3>2. indegree[t] = Cardinality(Unmet(t)) /\ Unmet(t)' = Unmet(t) \ {n}
      BY <1>0, <1>4, <3>1 DEF Counting, InPhase
    <3>3. indegree'[t] = IF n \in Deps(t) THEN indegree[t] - 1 ELSE indegree[t]
      BY DEF Pop
    <3>4. CASE n \in Deps(t)
      BY <1>6, <1>7, <3>2, <3>3, <3>4
    <3>5. CASE n \notin Deps(t)
      <4>1. Unmet(t) \ {n} = Unmet(t)
        BY <3>5 DEF Unmet
      <4> QED BY <3>2, <3>3, <3>5, <4>1
    <3> QED BY <3>4, <3>5
  <2>3. seen' = Cardinality(Weighted(phase)')
    <3>1. Weighted(phase)' = Weighted(phase) \cup {n}
      <4>1. \A t \in Tasks : weights'[t] = IF t = n THEN Weight(n) ELSE weights[t]
        BY <1>0, <1>1 DEF TypeOK
      <4> QED BY <1>1, <1>2, <1>3, <4>1 DEF Weighted, InPhase, None
    <3>2. n \notin Weighted(phase)
      BY <1>2 DEF Weighted
    <3>3. IsFiniteSet(Weighted(phase))
      <4>1. Weighted(phase) \in SUBSET Tasks
        BY DEF Weighted, InPhase
      <4> QED BY <4>1, FS_Subset, TasksAssumption
    <3>4. seen = Cardinality(Weighted(phase))
      BY <1>0 DEF Counting
    <3> QED BY <1>1, <3>1, <3>2, <3>3, <3>4, FS_AddElement
  <2> QED BY <1>1, <2>1, <2>2, <2>3 DEF Counting
<1>11. Phased'
  <2>1. \A t \in Tasks : t # n => weights'[t] = weights[t]
    BY <1>0, <1>1 DEF TypeOK
  <2>2. weights'[n] # None
    BY <1>0, <1>1, <1>3 DEF TypeOK, None
  <2> QED BY <1>0, <1>1, <1>2, <2>1, <2>2 DEF Phased, InPhase, Hooks
<1>12. Bounded'
  <2>1. PICK k \in Nat : \A t \in Tasks : weights[t] <= k
    BY <1>0 DEF Bounded
  <2>2. \A t \in Tasks : weights'[t] = IF t = n THEN Weight(n) ELSE weights[t]
    BY <1>0, <1>1 DEF TypeOK
  <2>3. \A t \in Tasks : weights[t] \in Int
    BY <1>0 DEF TypeOK, None
  <2>4. \A t \in Tasks : weights'[t] <= k + Weight(n)
    BY <1>3, <2>1, <2>2, <2>3
  <2>5. k + Weight(n) \in Nat
    BY <1>3
  <2> QED BY <2>4, <2>5 DEF Bounded
<1> QED BY <1>8, <1>9, <1>10, <1>11, <1>12 DEF WInv

LEMMA WLeave == WInv /\ Leave => WInv'
<1> SUFFICES ASSUME WInv, Leave PROVE WInv'
  OBVIOUS
<1>0. TypeOK /\ Ordered /\ Counting /\ Phased /\ Bounded /\ phase \in Hooks
  BY DEF WInv, Leave
<1>1. seen = Cardinality(InPhase(phase)) => \A t \in InPhase(phase) : weights[t] # None
  <2>1. InPhase(phase) \in SUBSET Tasks /\ Weighted(phase) \in SUBSET InPhase(phase)
    BY DEF InPhase, Weighted
  <2>2. IsFiniteSet(InPhase(phase))
    BY <2>1, FS_Subset, TasksAssumption
  <2>3. Cardinality(InPhase(phase)) = Cardinality(Weighted(phase))
           => InPhase(phase) = Weighted(phase)
    BY <2>1, <2>2, FS_Subset
  <2> QED BY <1>0, <2>3 DEF Counting, Weighted
<1>2. CASE phase' \in {"cycle", "done"} /\ UNCHANGED <<input, indegree, ready, seen, weights>>
           /\ (phase' = "done" => phase = "postDeploy" /\ seen = Cardinality(InPhase(phase)))
  <2>1. on' = on /\ after' = after /\ weights' = weights /\ indegree' = indegree
        /\ ready' = ready /\ seen' = seen
    BY <1>2 DEF input
  <2>2. TypeOK'
    BY <1>0, <1>2, <2>1 DEF TypeOK, Phases
  <2>3. Ordered' /\ Bounded'
    BY <1>0, <2>1 DEF Ordered, Bounded, Deps
  <2>4. Counting'
    BY <1>2 DEF Counting, Hooks
  <2>5. Phased'
    BY <1>0, <1>1, <1>2, <2>1 DEF Phased, InPhase, Hooks
  <2> QED BY <2>2, <2>3, <2>4, <2>5 DEF WInv
<1>3. CASE phase = "preDeploy" /\ seen = Cardinality(InPhase(phase)) /\ Enter("postDeploy")
  <2>1. \A t \in InPhase("preDeploy") : weights[t] # None
    BY <1>1, <1>3
  <2>2. \A t \in InPhase("postDeploy") : weights[t] = None
    BY <1>0, <1>3 DEF Phased
  <2>3. "postDeploy" \in Hooks
    BY DEF Hooks
  <2> QED BY <1>3, <2>1, <2>2, <2>3, WEnter
<1> QED BY <1>0, <1>2, <1>3 DEF Leave, Hooks

LEMMA WNext == WInv /\ [Assign]_<<input, weighing>> => WInv'
<1> SUFFICES ASSUME WInv, [Assign]_<<input, weighing>> PROVE WInv'
  OBVIOUS
<1>1. CASE Assign
  BY <1>1, WBegin, WPop, WLeave DEF Assign
<1>2. CASE UNCHANGED <<input, weighing>>
  BY <1>2 DEF input, weighing, WInv, TypeOK, Ordered, Counting, Phased, Bounded,
              Deps, InPhase, Unmet, Weighted
<1> QED BY <1>1, <1>2

LEMMA WImpliesOrdered == WInv => HooksOrdered
BY DEF WInv, Phased, Ordered, HooksOrdered, Hooks

(***************************************************************************)
(* For any number of tasks and any after lists: when AssignHookWeights     *)
(* succeeds, every hook task is heavier than the tasks it comes after.     *)
(***************************************************************************)
THEOREM WeightsOrderHooks == AssignSpec => []HooksOrdered
<1>1. WInv /\ [Assign]_<<input, weighing>> => WInv'
  BY WNext
<1> QED BY WInit, WImpliesOrdered, <1>1, PTL DEF AssignSpec

-----------------------------------------------------------------------------
(***************************************************************************)
(* The algorithm is exact. Complete is the other half of Counting: nothing *)
(* that could be taken is missing from ready. Longest gives the weights    *)
(* handed out so far their meaning.                                        *)
(***************************************************************************)
Complete == phase \in Hooks => \A t \in InPhase(phase) :
               weights[t] = None /\ Unmet(t) = {} => t \in ready

Longest == \A t \in Tasks : weights[t] # None =>
              \A k \in 0 .. Cardinality(Tasks) : t \in Chain[k] <=> k <= weights[t]

XInv == Complete /\ Longest /\ CycleIsReal

LEMMA NumberOfTasks == Cardinality(Tasks) \in Nat
BY TasksAssumption, FS_CardinalityType

\* A chain is a shorter chain and one more task after it.
LEMMA ChainGrows ==
    ASSUME TypeOK, NEW n \in Tasks, NEW j \in Nat, j + 1 <= Cardinality(Tasks)
    PROVE  n \in Chain[j + 1] <=> \E d \in Deps(n) : d \in Chain[j]
<1>0. j \in 0 .. Cardinality(Tasks) /\ j + 1 \in 0 .. Cardinality(Tasks)
  BY NumberOfTasks
<1>1. \A k \in 0 .. Cardinality(Tasks), t \in Tasks :
         t \in Chain[k] <=> \E f \in [0 .. k -> Tasks] :
             f[k] = t /\ \A i \in 1 .. k : f[i - 1] \in Deps(f[i])
  BY DEF Chain
<1>2. ASSUME n \in Chain[j + 1] PROVE \E d \in Deps(n) : d \in Chain[j]
  <2>1. PICK f \in [0 .. j + 1 -> Tasks] :
          f[j + 1] = n /\ \A i \in 1 .. j + 1 : f[i - 1] \in Deps(f[i])
    BY <1>0, <1>1, <1>2
  <2> DEFINE g == [i \in 0 .. j |-> f[i]]
  <2>2. g \in [0 .. j -> Tasks] /\ g[j] = f[j] /\ f[j] \in Tasks
    OBVIOUS
  <2>3. \A i \in 1 .. j : i - 1 \in 0 .. j /\ i \in 0 .. j /\ i \in 1 .. j + 1
    OBVIOUS
  <2>4. \A i \in 1 .. j : g[i - 1] \in Deps(g[i])
    BY <2>1, <2>3
  <2>5. f[j] \in Chain[j]
    BY <1>0, <1>1, <2>2, <2>4
  <2>6. j + 1 \in 1 .. j + 1 /\ (j + 1) - 1 = j
    OBVIOUS
  <2>7. f[j] \in Deps(n)
    BY <2>1, <2>6
  <2> QED BY <2>5, <2>7
<1>3. ASSUME NEW d \in Deps(n), d \in Chain[j] PROVE n \in Chain[j + 1]
  <2>0. d \in Tasks
    BY DEF TypeOK, Deps
  <2>1. PICK g \in [0 .. j -> Tasks] :
          g[j] = d /\ \A i \in 1 .. j : g[i - 1] \in Deps(g[i])
    BY <1>0, <1>1, <1>3, <2>0
  <2> DEFINE f == [i \in 0 .. j + 1 |-> IF i = j + 1 THEN n ELSE g[i]]
  <2>2. f \in [0 .. j + 1 -> Tasks] /\ f[j + 1] = n /\ \A i \in 0 .. j : f[i] = g[i]
    OBVIOUS
  <2>3. \A i \in 1 .. j + 1 : i = j + 1 \/ i \in 1 .. j
    OBVIOUS
  <2>4. \A i \in 1 .. j : i \in 0 .. j /\ i - 1 \in 0 .. j
    OBVIOUS
  <2>5. f[(j + 1) - 1] \in Deps(f[j + 1])
    BY <2>1, <2>2
  <2> HIDE DEF f
  <2>6. \A i \in 1 .. j : f[i - 1] \in Deps(f[i])
    BY <2>1, <2>2, <2>4
  <2>7. \A i \in 1 .. j + 1 : f[i - 1] \in Deps(f[i])
    BY <2>3, <2>5, <2>6
  <2> QED BY <1>0, <1>1, <2>2, <2>7
<1> QED BY <1>2, <1>3

\* Every task is a chain of its own.
LEMMA ChainStarts == ASSUME NEW n \in Tasks PROVE n \in Chain[0]
<1>1. 0 \in 0 .. Cardinality(Tasks)
  BY NumberOfTasks
<1> DEFINE f == [i \in 0 .. 0 |-> n]
<1>2. f \in [0 .. 0 -> Tasks] /\ f[0] = n /\ \A i \in 1 .. 0 : f[i - 1] \in Deps(f[i])
  OBVIOUS
<1> HIDE DEF f
<1> QED BY <1>1, <1>2 DEF Chain

\* The weight of a task whose dependencies all have one: at most one more than
\* each of them, and exactly one more than one of them unless there is none.
LEMMA WeightIsNext ==
    ASSUME TypeOK, Bounded, NEW n \in Tasks, Unmet(n) = {}, NEW j \in Nat
    PROVE  j + 1 <= Weight(n) <=> \E d \in Deps(n) : j <= weights[d]
<1> DEFINE m == MaxDep(n)
<1>1. /\ m \in Int /\ (m = None \/ \E d \in Deps(n) : m = weights[d])
      /\ \A d \in Deps(n) : weights[d] \in Int /\ weights[d] <= m
  BY MaxDepFound
<1>2. Weight(n) = m + 1
  BY DEF Weight
<1> HIDE DEF m
<1>3. ASSUME j + 1 <= Weight(n) PROVE \E d \in Deps(n) : j <= weights[d]
  <2>1. m # None
    BY <1>1, <1>2, <1>3 DEF None
  <2>2. PICK d \in Deps(n) : m = weights[d]
    BY <1>1, <2>1
  <2> QED BY <1>1, <1>2, <1>3, <2>2
<1>4. ASSUME NEW c \in Deps(n), j <= weights[c] PROVE j + 1 <= Weight(n)
  BY <1>1, <1>2, <1>4
<1> QED BY <1>3, <1>4

LEMMA XInit == Init => XInv
BY DEF Init, XInv, Complete, Longest, CycleIsReal, Hooks

\* What is said of the input stays true while the input does.
LEMMA InputKept ==
    ASSUME UNCHANGED input
    PROVE  Chain' = Chain /\ \A t : Deps(t)' = Deps(t)
BY DEF input, Chain, Deps

LEMMA XPop == ASSUME WInv, XInv, NEW n \in Tasks, Pop(n) PROVE XInv'
<1>0. TypeOK /\ Ordered /\ Counting /\ Bounded /\ Complete /\ Longest
  BY DEF WInv, XInv
<1>1. /\ UNCHANGED input /\ on' = on /\ after' = after /\ phase' = phase /\ phase \in Hooks
      /\ n \in ready /\ weights' = [weights EXCEPT ![n] = Weight(n)]
      /\ ready' = (ready \ {n})
                   \cup {c \in InPhase(phase) : n \in Deps(c) /\ indegree[c] = 1}
  BY DEF Pop, input
<1>2. on[n] = phase /\ weights[n] = None /\ Unmet(n) = {}
  BY <1>0, <1>1 DEF Counting
<1>3. Weight(n) \in Nat
  BY <1>0, WeightAboveDeps
<1>4. weights'[n] = Weight(n) /\ \A t \in Tasks : t # n => weights'[t] = weights[t]
  BY <1>0, <1>1 DEF TypeOK
<1>5. Chain' = Chain /\ \A t : Deps(t)' = Deps(t)
  BY <1>1, InputKept
<1>6. Complete'
  <2> SUFFICES ASSUME NEW t \in Tasks, on[t] = phase, weights'[t] = None, Unmet(t)' = {}
               PROVE  t \in ready'
    BY <1>1 DEF Complete, InPhase
  <2>1. t # n /\ weights[t] = None
    BY <1>3, <1>4 DEF None
  <2>2. Unmet(t) \subseteq {n}
    <3>1. Deps(t) \subseteq Tasks
      BY <1>0, FiniteDeps
    <3> QED BY <1>4, <1>5, <3>1 DEF Unmet
  <2>3. CASE Unmet(t) = {}
    BY <1>0, <1>1, <2>1, <2>3 DEF Complete, InPhase
  <2>4. CASE Unmet(t) = {n}
    <3>1. indegree[t] = Cardinality({n})
      BY <1>0, <1>1, <2>1, <2>4 DEF Counting, InPhase
    <3>2. indegree[t] = 1 /\ n \in Deps(t)
      BY <2>4, <3>1, FS_Singleton DEF Unmet
    <3> QED BY <1>1, <3>2 DEF InPhase
  <2> QED BY <2>2, <2>3, <2>4
<1>7. Longest'
  <2> SUFFICES ASSUME NEW t \in Tasks, weights'[t] # None, NEW k \in 0 .. Cardinality(Tasks)
               PROVE  t \in Chain[k] <=> k <= weights'[t]
    BY <1>5 DEF Longest
  <2>1. CASE t # n
    BY <1>0, <1>4, <2>1 DEF Longest
  <2>2. CASE t = n /\ k = 0
    BY <1>3, <1>4, <2>2, ChainStarts
  <2>3. CASE t = n /\ k # 0
    <3> DEFINE j == k - 1
    <3>1. /\ j \in Nat /\ j + 1 = k /\ j + 1 <= Cardinality(Tasks)
          /\ j \in 0 .. Cardinality(Tasks)
      BY <2>3, NumberOfTasks
    <3> HIDE DEF j
    <3>2. n \in Chain[k] <=> \E d \in Deps(n) : d \in Chain[j]
      BY <1>0, <3>1, ChainGrows
    <3>3. \A d \in Deps(n) : d \in Tasks /\ weights[d] # None
      BY <1>0, <1>2, FiniteDeps DEF Unmet
    <3>4. \A d \in Deps(n) : d \in Chain[j] <=> j <= weights[d]
      BY <1>0, <3>1, <3>3 DEF Longest
    <3>5. k <= Weight(n) <=> \E d \in Deps(n) : j <= weights[d]
      BY <1>0, <1>2, <3>1, WeightIsNext
    <3> QED BY <1>4, <2>3, <3>2, <3>4, <3>5
  <2> QED BY <2>1, <2>2, <2>3
<1>8. CycleIsReal'
  BY <1>1 DEF CycleIsReal, Hooks
<1> QED BY <1>6, <1>7, <1>8 DEF XInv

\* The tasks without a weight are the ones that wait for one another.
LEMMA XLeave == ASSUME WInv, XInv, Begin \/ Leave PROVE XInv'
<1>0. TypeOK /\ Counting /\ Phased /\ Complete /\ Longest
  BY DEF WInv, XInv
<1>1. on' = on /\ after' = after /\ weights' = weights /\ UNCHANGED input
  BY DEF Begin, Leave, Enter, input
<1>2. Chain' = Chain /\ \A t : Deps(t)' = Deps(t)
  BY <1>1, InputKept
<1>3. Longest'
  BY <1>0, <1>1, <1>2 DEF Longest
<1>4. CASE phase' = "cycle"
  <2>1. phase \in Hooks /\ ready = {} /\ seen # Cardinality(InPhase(phase))
    BY <1>4 DEF Begin, Leave, Enter
  <2> DEFINE S == {t \in InPhase(phase) : weights[t] = None}
  <2>2. S \in SUBSET Tasks
    BY DEF InPhase
  <2>3. S # {}
    <3>1. S = {} => Weighted(phase) = InPhase(phase)
      BY DEF Weighted
    <3> QED BY <1>0, <2>1, <3>1 DEF Counting
  <2>4. \A t \in S : on[t] \in Hooks /\ Deps(t) \cap S # {}
    <3> TAKE t \in S
    <3>1. t \in Tasks /\ on[t] = phase /\ weights[t] = None /\ Deps(t) \subseteq Tasks
      BY <1>0, FiniteDeps DEF InPhase
    <3>2. Unmet(t) # {}
      BY <1>0, <2>1, <3>1 DEF Complete, InPhase
    <3>3. Unmet(t) \subseteq S
      BY <3>1 DEF Unmet, Deps, InPhase
    <3> QED BY <2>1, <3>1, <3>2, <3>3 DEF Unmet
  <2> HIDE DEF S
  <2>5. CycleIsReal'
    BY <1>1, <1>2, <2>2, <2>3, <2>4 DEF CycleIsReal
  <2>6. Complete'
    BY <1>4 DEF Complete, Hooks
  <2> QED BY <1>3, <2>5, <2>6 DEF XInv
<1>5. CASE phase' # "cycle"
  <2>1. CycleIsReal'
    BY <1>5 DEF CycleIsReal
  <2>2. ASSUME NEW o \in Hooks, Enter(o), \A t \in InPhase(o) : weights[t] = None
        PROVE  Complete'
    <3> SUFFICES ASSUME NEW t \in Tasks, on[t] = o, Unmet(t)' = {} PROVE t \in ready'
      BY <1>1, <2>2 DEF Complete, Enter, InPhase
    <3>1. Deps(t) \subseteq InPhase(o)
      BY <1>0, FiniteDeps DEF InPhase, Deps
    <3>2. Deps(t) = {}
      BY <1>1, <1>2, <2>2, <3>1 DEF Unmet
    <3> QED BY <2>2, <3>2 DEF Enter, InPhase
  <2>3. Complete'
    <3>1. CASE Begin
      <4>1. Enter("preDeploy") /\ "preDeploy" \in Hooks /\ InPhase("preDeploy") \subseteq Tasks
        BY <3>1 DEF Begin, Hooks, InPhase
      <4> QED BY <1>0, <2>2, <3>1, <4>1 DEF Begin, Phased
    <3>2. CASE Leave /\ phase = "preDeploy" /\ Enter("postDeploy")
      <4>1. "postDeploy" \in Hooks /\ \A t \in InPhase("postDeploy") : weights[t] = None
        BY <1>0, <3>2 DEF Phased, Hooks
      <4> QED BY <2>2, <3>2, <4>1
    <3>3. CASE phase' = "done"
      BY <3>3 DEF Complete, Hooks
    <3> QED BY <1>5, <3>1, <3>2, <3>3 DEF Leave
  <2> QED BY <1>3, <2>1, <2>3 DEF XInv
<1> QED BY <1>4, <1>5

LEMMA XNext == WInv /\ XInv /\ [Assign]_<<input, weighing>> => XInv'
<1> SUFFICES ASSUME WInv, XInv, [Assign]_<<input, weighing>> PROVE XInv'
  OBVIOUS
<1>1. CASE Assign
  BY <1>1, XPop, XLeave DEF Assign
<1>2. CASE UNCHANGED <<input, weighing>>
  <2>1. /\ UNCHANGED input /\ on' = on /\ after' = after /\ phase' = phase
        /\ ready' = ready /\ weights' = weights
    BY <1>2 DEF input, weighing
  <2>2. Chain' = Chain /\ \A t : Deps(t)' = Deps(t)
    BY <2>1, InputKept
  <2> QED BY <2>1, <2>2 DEF XInv, Complete, Longest, CycleIsReal, InPhase, Unmet
<1> QED BY <1>1, <1>2

(***************************************************************************)
(* For any number of tasks and any after lists, whichever ready task is    *)
(* taken next: AssignHookWeights reports a cycle only when tasks wait for  *)
(* one another, and otherwise gives each hook task the length of the       *)
(* longest chain of after below it.                                        *)
(***************************************************************************)
THEOREM WeightsAreExact == AssignSpec => []WeightsExact
<1>1. WInv /\ [Assign]_<<input, weighing>> => WInv'
  BY WNext
<1>2. WInv /\ XInv /\ [Assign]_<<input, weighing>> => XInv'
  BY XNext
<1>3. WInv /\ XInv => WeightsExact
  BY DEF WInv, XInv, Phased, Longest, WeightsAreChainLengths, WeightsExact
<1> QED BY WInit, XInit, <1>1, <1>2, <1>3, PTL DEF AssignSpec

-----------------------------------------------------------------------------
(* The hooks of a deploy (HookRun).                                        *)

RunTypes ==
    /\ own \in [Tasks -> SUBSET EnvNames]
    /\ parent \in [Tasks -> SUBSET EnvNames]
    /\ env \in EnvNames
    /\ left \in SUBSET Tasks
    /\ job \in [Tasks -> {"none", "active", "failed", "ok"}]

(***************************************************************************)
(* The inductive invariant: only a valid, weighted spec is deployed; the   *)
(* hooks of the running stage are either left or have run; at most one Job *)
(* is active, it is one of those left, and what it comes after has run.    *)
(***************************************************************************)
Accepted == stage \notin {"spec", "rejected"} => phase = "done" /\ validateTaskAfterGraph

Progress == stage \in Hooks => /\ left \subseteq hookTasksForChart(stage)
                               /\ hookTasksForChart(stage) \subseteq left \cup ran

OneJob == \A t \in Tasks : job[t] = "active" =>
             /\ stage \in Hooks /\ t \in left /\ after[t] \subseteq ran
             /\ \A u \in Tasks : job[u] = "active" => u = t

RInv == WInv /\ RunTypes /\ Accepted /\ Progress /\ OneJob

(***************************************************************************)
(* afterCoversDependentEnvs compares the two lists entry by entry, yet it  *)
(* covers every environment name a deploy can be run with, because a       *)
(* prefix is its own prefix.                                               *)
(***************************************************************************)
LEMMA CoversSound ==
    ASSUME NEW t \in Tasks, NEW d \in Tasks, NEW e \in EnvNames, RunTypes,
           afterCoversDependentEnvs(t, d), activeInEnvironment(t, e)
    PROVE  activeInEnvironment(d, e)
<1>1. CASE MergedEnvs(d) = {}
  BY <1>1 DEF activeInEnvironment
<1>2. CASE MergedEnvs(d) # {}
  <2>1. MergedEnvs(t) # {} /\ \A x \in MergedEnvs(t) : matchEnvKey(x, MergedEnvs(d))
    BY <1>2 DEF afterCoversDependentEnvs
  <2>2. e \in MergedEnvs(t) \/ Prefix[e] \in MergedEnvs(t)
    BY <2>1 DEF activeInEnvironment, matchEnvKey
  <2>3. Prefix[Prefix[e]] = Prefix[e]
    BY PrefixAssumption
  <2> QED BY <2>1, <2>2, <2>3 DEF activeInEnvironment, matchEnvKey
<1> QED BY <1>1, <1>2

(***************************************************************************)
(* What a started hook comes after is in the same chart and lighter, so it *)
(* is not among the hooks that are left.                                   *)
(***************************************************************************)
LEMMA StartedAfter ==
    ASSUME RInv, NEW t \in Tasks, NextHook(t)
    PROVE  after[t] \subseteq ran
<1> SUFFICES ASSUME NEW d \in after[t] PROVE d \in ran
  OBVIOUS
<1>1. stage \in Hooks /\ t \in left /\ \A u \in left \ {t} : Before(t, u)
  BY DEF NextHook
<1>2. phase = "done" /\ validateTaskAfterGraph
  BY <1>1 DEF RInv, Accepted, Hooks
<1>3. t \in InPhase(stage) /\ activeInEnvironment(t, env)
  BY <1>1 DEF RInv, Progress, hookTasksForChart
<1>4. on[t] = stage /\ d \in Tasks /\ d # t
  BY <1>2, <1>3 DEF InPhase, RInv, WInv, TypeOK, validateTaskAfterGraph
<1>5. on[d] = on[t] /\ afterCoversDependentEnvs(t, d)
  BY <1>1, <1>2, <1>4 DEF validateTaskAfterGraph
<1>6. env \in EnvNames /\ RunTypes
  BY DEF RInv, RunTypes
<1>7. d \in hookTasksForChart(stage)
  BY <1>3, <1>4, <1>5, <1>6, CoversSound DEF hookTasksForChart, InPhase
<1>8. weights[d] < weights[t]
  BY <1>1, <1>2, <1>4, <1>5, WImpliesOrdered DEF RInv, HooksOrdered, Deps
<1>9. weights[d] \in Int /\ weights[t] \in Int
  BY <1>4 DEF RInv, WInv, TypeOK, None
<1>10. d \notin left
  BY <1>1, <1>4, <1>8, <1>9 DEF Before
<1> QED BY <1>1, <1>7, <1>10 DEF RInv, Progress

LEMMA RInit == RunInit => RInv
<1> SUFFICES ASSUME RunInit PROVE RInv
  OBVIOUS
<1>1. WInv
  BY WInit DEF RunInit
<1>2. RunTypes
  BY EnvsAssumption DEF RunInit, RunTypes
<1>3. Accepted /\ Progress /\ OneJob
  BY DEF RunInit, Accepted, Progress, OneJob, Hooks
<1> QED BY <1>1, <1>2, <1>3 DEF RInv

\* The steps of a deploy leave the spec and its weights alone.
LEMMA SpecKept ==
    ASSUME UNCHANGED <<input, weighing, envInput, env>>
    PROVE  /\ WInv => WInv'
           /\ validateTaskAfterGraph' = validateTaskAfterGraph
           /\ \A o : hookTasksForChart(o)' = hookTasksForChart(o)
           /\ phase' = phase /\ after' = after
           /\ own' = own /\ parent' = parent /\ env' = env
<1>1. /\ on' = on /\ after' = after /\ phase' = phase /\ weights' = weights
      /\ own' = own /\ parent' = parent /\ env' = env
  BY DEF input, weighing, envInput
<1>2. WInv => WInv'
  BY WNext
<1>3. validateTaskAfterGraph' = validateTaskAfterGraph
  BY <1>1 DEF validateTaskAfterGraph, afterCoversDependentEnvs, MergedEnvs, matchEnvKey
<1>4. \A o : hookTasksForChart(o)' = hookTasksForChart(o)
  BY <1>1 DEF hookTasksForChart, activeInEnvironment, MergedEnvs, matchEnvKey, InPhase
<1> QED BY <1>1, <1>2, <1>3, <1>4

LEMMA RWeigh == RInv /\ Weigh => RInv'
<1> SUFFICES ASSUME RInv, Weigh PROVE RInv'
  OBVIOUS
<1>1. /\ Assign /\ own' = own /\ parent' = parent /\ stage' = stage /\ env' = env
      /\ left' = left /\ job' = job /\ ran' = ran
  BY DEF Weigh, envInput, deploying
<1>2. WInv'
  BY <1>1, WNext DEF RInv
<1>3. phase # "done" /\ after' = after /\ on' = on
  BY <1>1 DEF Assign, Begin, Pop, Leave, Enter, Hooks, input
<1>4. stage \in {"spec", "rejected"}
  BY <1>3 DEF RInv, Accepted
<1>5. RunTypes' /\ Accepted' /\ Progress' /\ OneJob'
  BY <1>1, <1>3, <1>4 DEF RInv, RunTypes, Accepted, Progress, OneJob, Hooks
<1> QED BY <1>2, <1>5 DEF RInv

LEMMA RNext == RInv /\ [RunNext]_allVars => RInv'
<1> SUFFICES ASSUME RInv, [RunNext]_allVars PROVE RInv'
  OBVIOUS
<1>0. WInv /\ RunTypes /\ Accepted /\ Progress /\ OneJob
  BY DEF RInv
<1>1. CASE Weigh
  BY <1>1, RWeigh
<1>2. CASE Validate
  <2>1. UNCHANGED <<input, weighing, envInput, env>> /\ left' = left /\ job' = job
        /\ ran' = ran /\ stage = "spec"
        /\ stage' = IF phase = "done" /\ validateTaskAfterGraph THEN "valid" ELSE "rejected"
    BY <1>2 DEF Validate
  <2> QED BY <1>0, <2>1, SpecKept DEF RInv, RunTypes, Accepted, Progress, OneJob, Hooks
<1>3. CASE StartDeploy
  <2>1. UNCHANGED <<input, weighing, envInput, env>> /\ job' = job /\ stage' = "preDeploy"
        /\ left' = hookTasksForChart("preDeploy") /\ stage \in {"valid", "deployed", "failed"}
    BY <1>3 DEF StartDeploy
  <2>2. hookTasksForChart("preDeploy") \subseteq Tasks
    BY DEF hookTasksForChart, InPhase
  <2>3. \A t \in Tasks : job[t] # "active"
    BY <1>0, <2>1 DEF OneJob, Hooks
  <2>4. RunTypes' /\ Accepted' /\ Progress' /\ OneJob'
    BY <1>0, <2>1, <2>2, <2>3, SpecKept DEF RunTypes, Accepted, Progress, OneJob, Hooks
  <2> QED BY <1>0, <2>1, <2>4, SpecKept DEF RInv
<1>4. CASE \E t \in Tasks : StartHook(t)
  <2>1. PICK t \in Tasks : StartHook(t)
    BY <1>4
  <2>2. UNCHANGED <<input, weighing, envInput, env>> /\ stage' = stage /\ left' = left
        /\ ran' = ran /\ job' = [job EXCEPT ![t] = "active"] /\ NextHook(t)
    BY <2>1 DEF StartHook
  <2>3. after[t] \subseteq ran /\ t \in left /\ stage \in Hooks
    BY <2>2, StartedAfter DEF NextHook
  <2>4. \A u \in Tasks : job[u] # "active"
    BY <1>0, <2>2 DEF OneJob, NextHook, Running
  <2>5. \A u \in Tasks : job'[u] = "active" => u = t
    BY <1>0, <2>2, <2>4 DEF RunTypes
  <2>6. OneJob'
    BY <2>2, <2>3, <2>5, SpecKept DEF OneJob
  <2>7. RunTypes' /\ Accepted' /\ Progress'
    BY <1>0, <2>2, SpecKept DEF RunTypes, Accepted, Progress
  <2> QED BY <1>0, <2>2, <2>6, <2>7, SpecKept DEF RInv
<1>5. CASE \E t \in Tasks : HookSucceeds(t)
  <2>1. PICK t \in Tasks : HookSucceeds(t)
    BY <1>5
  <2>2. UNCHANGED <<input, weighing, envInput, env>> /\ stage' = stage
        /\ left' = left \ {t} /\ ran' = ran \cup {t}
        /\ job' = [job EXCEPT ![t] = "ok"] /\ job[t] = "active"
    BY <2>1 DEF HookSucceeds, Running
  <2>3. \A u \in Tasks : job'[u] # "active"
    BY <1>0, <2>2 DEF OneJob, RunTypes
  <2>4. RunTypes' /\ Accepted' /\ Progress' /\ OneJob'
    BY <1>0, <2>2, <2>3, SpecKept DEF RunTypes, Accepted, Progress, OneJob
  <2> QED BY <1>0, <2>2, <2>4, SpecKept DEF RInv
<1>6. CASE \E t \in Tasks : HookFails(t)
  <2>1. PICK t \in Tasks : HookFails(t)
    BY <1>6
  <2>2. UNCHANGED <<input, weighing, envInput, env>> /\ stage' = "failed"
        /\ left' = left /\ ran' = ran /\ job[t] = "active" /\ stage \in Hooks
        /\ job' = [u \in Tasks |-> IF u = t THEN "failed"
                                   ELSE IF job[u] = "ok" THEN "none" ELSE job[u]]
    BY <2>1 DEF HookFails, Running
  <2>3. \A u \in Tasks : job'[u] # "active"
    BY <1>0, <2>2 DEF OneJob
  <2>4. job' \in [Tasks -> {"none", "active", "failed", "ok"}]
    BY <1>0, <2>2 DEF RunTypes
  <2>5. RunTypes' /\ Accepted' /\ Progress' /\ OneJob'
    BY <1>0, <2>2, <2>3, <2>4, SpecKept DEF RunTypes, Accepted, Progress, OneJob, Hooks
  <2> QED BY <1>0, <2>2, <2>5, SpecKept DEF RInv
<1>7. CASE HooksDone
  <2>1. UNCHANGED <<input, weighing, envInput, env>> /\ left' = left /\ ran' = ran
        /\ stage \in Hooks /\ left = {} /\ stage' \in {"app", "deployed"}
        /\ job' = [t \in Tasks |-> IF t \in hookTasksForChart(stage) THEN "none" ELSE job[t]]
    BY <1>7 DEF HooksDone
  <2>2. \A u \in Tasks : job'[u] # "active"
    BY <1>0, <2>1 DEF OneJob
  <2>3. job' \in [Tasks -> {"none", "active", "failed", "ok"}]
    BY <1>0, <2>1 DEF RunTypes
  <2>4. RunTypes' /\ Accepted' /\ Progress' /\ OneJob'
    BY <1>0, <2>1, <2>2, <2>3, SpecKept DEF RunTypes, Accepted, Progress, OneJob, Hooks
  <2> QED BY <1>0, <2>1, <2>4, SpecKept DEF RInv
<1>8. CASE ApplyApp
  <2>1. UNCHANGED <<input, weighing, envInput, env>> /\ job' = job /\ ran' = ran
        /\ stage = "app"
        /\ \/ stage' = "postDeploy" /\ left' = hookTasksForChart("postDeploy")
           \/ stage' = "failed" /\ left' = left
    BY <1>8 DEF ApplyApp
  <2>2. hookTasksForChart("postDeploy") \subseteq Tasks
    BY DEF hookTasksForChart, InPhase
  <2>3. \A u \in Tasks : job'[u] # "active"
    BY <1>0, <2>1 DEF OneJob, Hooks
  <2>4. RunTypes' /\ Accepted' /\ OneJob'
    BY <1>0, <2>1, <2>2, <2>3, SpecKept DEF RunTypes, Accepted, OneJob, Hooks
  <2>5. Progress'
    BY <2>1, SpecKept DEF Progress, Hooks
  <2> QED BY <1>0, <2>1, <2>4, <2>5, SpecKept DEF RInv
<1>9. CASE UNCHANGED allVars
  <2>1. UNCHANGED <<input, weighing, envInput, env>> /\ stage' = stage /\ left' = left
        /\ job' = job /\ ran' = ran
    BY <1>9 DEF allVars, deploying
  <2>2. RunTypes' /\ Accepted' /\ Progress' /\ OneJob'
    BY <1>0, <2>1, SpecKept DEF RunTypes, Accepted, Progress, OneJob
  <2> QED BY <1>0, <2>1, <2>2, SpecKept DEF RInv
<1> QED BY <1>1, <1>2, <1>3, <1>4, <1>5, <1>6, <1>7, <1>8, <1>9 DEF RunNext

(***************************************************************************)
(* For any number of tasks, any after and environments lists and any       *)
(* environment: a spec that passes validation never runs a hook task       *)
(* before the tasks it names in after.                                     *)
(***************************************************************************)
THEOREM AfterHolds == RunSpec => []AfterCompleted
<1>1. RInv => AfterCompleted
  BY DEF RInv, OneJob, AfterCompleted
<1> QED BY RInit, RNext, <1>1, PTL DEF RunSpec

-----------------------------------------------------------------------------
\* The verdict on a spec, which no later step changes.
Verdict ==
    /\ stage \in Stages /\ env \in Envs /\ ran \in SUBSET Tasks /\ deploys \in 0 .. MaxDeploys
    /\ stage # "spec" => phase \in {"done", "cycle"}
    /\ stage = "rejected" => phase = "cycle" \/ ~ validateTaskAfterGraph

LEMMA VerdictNext == RInv /\ Verdict /\ [RunNext]_allVars => Verdict'
<1> SUFFICES ASSUME RInv, Verdict, [RunNext]_allVars PROVE Verdict'
  OBVIOUS
<1>0. left \subseteq Tasks
  BY DEF RInv, RunTypes
<1>1. CASE Weigh
  <2>1. stage' = stage /\ env' = env /\ ran' = ran /\ deploys' = deploys
    BY <1>1 DEF Weigh, deploying
  <2>2. phase \notin {"done", "cycle"}
    BY <1>1 DEF Weigh, Assign, Begin, Pop, Leave, Hooks
  <2>3. stage = "spec"
    BY <2>2 DEF Verdict
  <2> QED BY <2>1, <2>3 DEF Verdict
<1>2. CASE ~ Weigh
  <2>1. UNCHANGED <<input, weighing, envInput, env>>
    BY <1>2 DEF RunNext, Validate, StartDeploy, StartHook, HookSucceeds, HookFails, HooksDone,
       ApplyApp, allVars, deploying
  <2>2. env' = env /\ phase' = phase /\ validateTaskAfterGraph' = validateTaskAfterGraph
    BY <2>1, SpecKept
  <2>3. CASE Validate
    BY <2>2, <2>3 DEF Validate, Verdict, Stages
  <2>4. CASE StartDeploy
    <3>1. deploys' \in 0 .. MaxDeploys
      BY <2>4, EnvsAssumption DEF StartDeploy, Verdict
    <3> QED BY <2>2, <2>4, <3>1 DEF StartDeploy, Verdict, Stages
  <2>5. CASE \E t \in Tasks : StartHook(t) \/ HookSucceeds(t) \/ HookFails(t)
    <3>1. /\ ran' \subseteq Tasks /\ deploys' = deploys
          /\ stage \in Hooks /\ stage' \in {stage, "failed"}
      BY <2>5 DEF StartHook, NextHook, HookSucceeds, HookFails, Verdict
    <3> QED BY <2>2, <3>1 DEF Verdict, Stages, Hooks
  <2>6. CASE HooksDone
    <3>1. /\ stage \in Hooks /\ ran' = ran /\ deploys' = deploys
          /\ stage' = IF stage = "preDeploy" THEN "app" ELSE "deployed"
      BY <2>6 DEF HooksDone
    <3> QED BY <2>2, <3>1 DEF Verdict, Stages, Hooks
  <2>7. CASE ApplyApp
    BY <2>2, <2>7 DEF ApplyApp, Verdict, Stages
  <2>8. CASE UNCHANGED allVars
    BY <2>2, <2>8 DEF allVars, deploying, Verdict
  <2> QED BY <1>2, <2>3, <2>4, <2>5, <2>6, <2>7, <2>8 DEF RunNext
<1> QED BY <1>1, <1>2

(***************************************************************************)
(* When the dependency does not cover an entry of the dependent's list,    *)
(* the entry itself names an environment in which only the dependent runs. *)
(***************************************************************************)
LEMMA UncoveredEnv ==
    ASSUME RunTypes, NEW t \in Tasks, NEW d \in Tasks, ~ afterCoversDependentEnvs(t, d)
    PROVE  \/ MergedEnvs(t) = {} /\ MergedEnvs(d) # {}
           \/ \E e \in EnvNames : activeInEnvironment(t, e) /\ ~ activeInEnvironment(d, e)
<1>1. MergedEnvs(d) # {}
  BY DEF afterCoversDependentEnvs
<1>2. CASE MergedEnvs(t) # {}
  <2>1. PICK e \in MergedEnvs(t) : ~ matchEnvKey(e, MergedEnvs(d))
    BY <1>2 DEF afterCoversDependentEnvs
  <2>2. e \in EnvNames
    BY <2>1 DEF RunTypes, MergedEnvs
  <2>3. activeInEnvironment(t, e)
    BY <2>1 DEF activeInEnvironment, matchEnvKey
  <2>4. ~ activeInEnvironment(d, e)
    BY <1>1, <2>1 DEF activeInEnvironment
  <2> QED BY <2>2, <2>3, <2>4
<1> QED BY <1>1, <1>2

(***************************************************************************)
(* For any tasks, after and environments lists: validation refuses a spec  *)
(* only for a cycle or for an after entry some deploy could not keep.      *)
(***************************************************************************)
THEOREM RefusalsJustified == RunSpec => []RefusedForCause
<1>1. RunInit => Verdict
  <2> SUFFICES ASSUME RunInit PROVE Verdict
    OBVIOUS
  <2>1. stage = "spec" /\ env \in Envs /\ ran = {} /\ deploys = 0
    BY DEF RunInit
  <2> QED BY <2>1, EnvsAssumption DEF Verdict, Stages
<1>2. RInv /\ Verdict => RefusedForCause
  <2> SUFFICES ASSUME RInv, Verdict PROVE RefusedForCause
    OBVIOUS
  <2>1. RunTypeOK
    BY DEF RInv, WInv, RunTypes, Verdict, RunTypeOK
  <2>2. ASSUME ~ validateTaskAfterGraph
        PROVE  \E t \in Tasks : \E d \in after[t] :
                \/ t = d \/ on[t] = "manual" \/ on[d] # on[t]
                \/ ~ afterCoversDependentEnvs(t, d)
    BY <2>1, <2>2 DEF validateTaskAfterGraph, RunTypeOK, TypeOK
  <2>3. \A t \in Tasks : after[t] \subseteq Tasks
    BY <2>1 DEF RunTypeOK, TypeOK
  <2>4. RunTypes
    BY DEF RInv
  <2> QED BY <2>1, <2>2, <2>3, <2>4, UncoveredEnv DEF Verdict, RefusedForCause
<1> QED BY RInit, RNext, VerdictNext, <1>1, <1>2, PTL DEF RunSpec
=============================================================================
