------------------------------ MODULE HookWeights ------------------------------
(***************************************************************************)
(* spec.AssignHookWeights: Helm hook weights from the after lists of the   *)
(* tasks, by Kahn's algorithm, one phase after the other. The algorithm    *)
(* keeps its ready list sorted; here any ready task may be next, so that   *)
(* what is shown does not depend on the order.                             *)
(***************************************************************************)
EXTENDS Integers, FiniteSets

CONSTANT Tasks    \* task names, numbered in their sorted order

ASSUME TasksAssumption == Tasks \subseteq Nat /\ IsFiniteSet(Tasks)

Hooks == {"preDeploy", "postDeploy"}    \* TaskOn.IsHook
Ons == Hooks \cup {"manual"}

VARIABLES
    on,        \* when a task runs
    after,     \* the tasks its after list names
    phase,     \* the phase being weighted, or how the computation ended
    indegree,  \* unmet dependencies
    ready,     \* tasks without unmet dependencies
    seen,      \* tasks weighted in this phase
    weights    \* hook weights, None for a task that has none

input == <<on, after>>
weighing == <<phase, indegree, ready, seen, weights>>

None == -1

Phases == {"start", "preDeploy", "postDeploy", "done", "cycle"}

TypeOK ==
    /\ on \in [Tasks -> Ons]
    /\ after \in [Tasks -> SUBSET Tasks]
    /\ phase \in Phases
    /\ indegree \in [Tasks -> Nat]
    /\ ready \in SUBSET Tasks
    /\ seen \in Nat
    /\ weights \in [Tasks -> Nat \cup {None}]

\* Any spec that parses, whether or not its after graph is valid.
Init ==
    /\ on \in [Tasks -> Ons]
    /\ after \in [Tasks -> SUBSET Tasks]
    /\ phase = "start"
    /\ indegree = [t \in Tasks |-> 0]
    /\ ready = {}
    /\ seen = 0
    /\ weights = [t \in Tasks |-> None]

InPhase(o) == {t \in Tasks : on[t] = o}

\* A dependency outside the phase does not order anything.
Deps(t) == {d \in after[t] : on[d] = on[t]}

\* Mutant: dependencies outside the phase are counted as well.
MutEnter(o) ==
    /\ phase' = o
    /\ indegree' = [t \in Tasks |-> IF on[t] = o THEN Cardinality(after[t]) ELSE 0]
    /\ ready' = {t \in InPhase(o) : after[t] = {}}
    /\ seen' = 0
    /\ UNCHANGED <<input, weights>>

\* hookWeightsForPhase: count the dependencies, collect the tasks without any.
Enter(o) ==
    /\ phase' = o
    /\ indegree' = [t \in Tasks |-> IF on[t] = o THEN Cardinality(Deps(t)) ELSE 0]
    /\ ready' = {t \in InPhase(o) : Deps(t) = {}}
    /\ seen' = 0
    /\ UNCHANGED <<input, weights>>

Begin == phase = "start" /\ Enter("preDeploy")

\* The heaviest dependency that has a weight, None (-1) without one.
MaxDep(n) ==
    LET W == {weights[d] : d \in Deps(n)} \cup {None}
    IN  CHOOSE w \in W : \A v \in W : v <= w

\* Mutant: tasks are numbered in the order in which they are taken.
MutWeight(n) == seen

Weight(n) == MaxDep(n) + 1

Pop(n) ==
    /\ phase \in Hooks /\ n \in ready
    /\ seen' = seen + 1
    /\ weights' = [weights EXCEPT ![n] = Weight(n)]
    /\ indegree' = [c \in Tasks |-> IF on[c] = phase /\ n \in Deps(c)
                                    THEN indegree[c] - 1 ELSE indegree[c]]
    /\ ready' = (ready \ {n})
                   \cup {c \in InPhase(phase) : n \in Deps(c) /\ indegree[c] = 1}
    /\ UNCHANGED <<input, phase>>

\* Mutant: a phase is left without asking whether every task was weighted.
MutLeave ==
    /\ phase \in Hooks /\ ready = {}
    /\ IF phase = "preDeploy" THEN Enter("postDeploy")
       ELSE phase' = "done" /\ UNCHANGED <<input, indegree, ready, seen, weights>>

\* Nothing is ready: the phase is complete, or its after lists have a cycle.
Leave ==
    /\ phase \in Hooks /\ ready = {}
    /\ IF seen # Cardinality(InPhase(phase))
       THEN phase' = "cycle" /\ UNCHANGED <<input, indegree, ready, seen, weights>>
       ELSE IF phase = "preDeploy" THEN Enter("postDeploy")
       ELSE phase' = "done" /\ UNCHANGED <<input, indegree, ready, seen, weights>>

Assign == Begin \/ (\E n \in Tasks : Pop(n)) \/ Leave

AssignSpec == Init /\ [][Assign]_<<input, weighing>> /\ WF_<<input, weighing>>(Assign)

-----------------------------------------------------------------------------
(* Properties.                                                             *)

\* When AssignHookWeights succeeds every hook task has a weight, and a weight
\* greater than that of every task of its phase it comes after.
HooksOrdered ==
    phase = "done" => \A t \in Tasks : on[t] \in Hooks =>
        /\ weights[t] # None
        /\ \A d \in Deps(t) : weights[d] < weights[t]

\* The cycle error is never a false alarm: some tasks of the phase all wait for
\* one another.
CycleIsReal ==
    phase = "cycle" => \E S \in SUBSET Tasks :
        S # {} /\ \A t \in S : on[t] \in Hooks /\ Deps(t) \cap S # {}

\* The weights do not depend on the order in which ready tasks are taken, and
\* leave no gap: a task's weight is the length of the longest chain of after
\* below it, so independent tasks share weight 0.
Chain == [k \in 0 .. Cardinality(Tasks) |->
             {t \in Tasks : \E f \in [0 .. k -> Tasks] :
                 f[k] = t /\ \A i \in 1 .. k : f[i - 1] \in Deps(f[i])}]

WeightsAreChainLengths ==
    phase = "done" => \A t \in Tasks : on[t] \in Hooks =>
        \A k \in 0 .. Cardinality(Tasks) : t \in Chain[k] <=> k <= weights[t]

\* Kahn's algorithm is exact in both its results.
WeightsExact == CycleIsReal /\ WeightsAreChainLengths
=============================================================================
