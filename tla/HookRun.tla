-------------------------------- MODULE HookRun --------------------------------
(***************************************************************************)
(* Deploys of a spec with hook tasks: validateTaskAfterGraph accepts or    *)
(* rejects the spec, the chart carries the hook tasks that are active in   *)
(* the environment (hookTasksForChart) with the weights of HookWeights,    *)
(* and Helm (external) runs them by weight and name, each to its end.      *)
(***************************************************************************)
EXTENDS HookWeights, EnvKeys

CONSTANTS
    Envs,        \* the names deploys are run with
    EnvLists,    \* environments lists of the tasks, and of their components
    MaxDeploys   \* bound on the number of deploys

ASSUME EnvsAssumption ==
    /\ Envs \subseteq EnvNames
    /\ EnvLists \subseteq [Tasks -> SUBSET EnvNames] \X [Tasks -> SUBSET EnvNames]
    /\ MaxDeploys \in Nat

VARIABLES
    own,      \* the environments list of a task, {} when it has none
    parent,   \* that of the component it takes its image from
    stage,    \* of the deploy
    env,      \* its environment
    left,     \* hooks of the stage that have not finished
    job,      \* the Job of a hook task
    ran,      \* tasks that succeeded in this deploy
    deploys   \* deploys started

envInput == <<own, parent>>
deploying == <<stage, env, left, job, ran, deploys>>
allVars == <<input, weighing, envInput, deploying>>

Stages == {"spec", "rejected", "valid", "preDeploy", "app", "postDeploy",
           "deployed", "failed"}

RunTypeOK ==
    /\ TypeOK
    /\ own \in [Tasks -> SUBSET EnvNames]
    /\ parent \in [Tasks -> SUBSET EnvNames]
    /\ stage \in Stages
    /\ env \in Envs
    /\ left \in SUBSET Tasks
    /\ job \in [Tasks -> {"none", "active", "failed", "ok"}]
    /\ ran \in SUBSET Tasks
    /\ deploys \in 0 .. MaxDeploys

-----------------------------------------------------------------------------
\* Task.MergeFrom: a task without a list inherits its component's.
MergedEnvs(t) == IF own[t] # {} THEN own[t] ELSE parent[t]

activeInEnvironment(t, e) == MergedEnvs(t) = {} \/ matchEnvKey(e, MergedEnvs(t))

\* Mutant: one common environment is enough.
MutAfterCovers(t, d) ==
    \/ MergedEnvs(d) = {}
    \/ \E e \in MergedEnvs(t) : matchEnvKey(e, MergedEnvs(d))

\* Mutant: the names are compared without their prefixes.
MutAfterExact(t, d) == MergedEnvs(d) = {} \/ (MergedEnvs(t) # {} /\ MergedEnvs(t) \subseteq MergedEnvs(d))

\* d runs in every environment t runs in.
afterCoversDependentEnvs(t, d) ==
    \/ MergedEnvs(d) = {}
    \/ MergedEnvs(t) # {} /\ \A e \in MergedEnvs(t) : matchEnvKey(e, MergedEnvs(d))

\* validateTask (as far as after goes) and validateTaskAfterGraph.
validateTaskAfterGraph ==
    /\ \A t \in Tasks : t \notin after[t] /\ (on[t] = "manual" => after[t] = {})
    /\ \A t \in Tasks : on[t] \in Hooks =>
          \A d \in after[t] : on[d] = on[t] /\ afterCoversDependentEnvs(t, d)

hookTasksForChart(o) == {t \in InPhase(o) : activeInEnvironment(t, env)}

-----------------------------------------------------------------------------
RunInit ==
    /\ Init
    /\ \E l \in EnvLists : own = l[1] /\ parent = l[2]
    /\ stage = "spec" /\ env \in Envs /\ left = {}
    /\ job = [t \in Tasks |-> "none"]
    /\ ran = {} /\ deploys = 0

Weigh == Assign /\ UNCHANGED <<envInput, deploying>>

Validate ==
    /\ stage = "spec" /\ phase \in {"done", "cycle"}
    /\ stage' = IF phase = "done" /\ validateTaskAfterGraph THEN "valid" ELSE "rejected"
    /\ UNCHANGED <<input, weighing, envInput, env, left, job, ran, deploys>>

\* An install or upgrade reaches its pre hooks.
StartDeploy ==
    /\ stage \in {"valid", "deployed", "failed"} /\ deploys < MaxDeploys
    /\ deploys' = deploys + 1
    /\ stage' = "preDeploy"
    /\ left' = hookTasksForChart("preDeploy")
    /\ ran' = {}
    /\ UNCHANGED <<input, weighing, envInput, env, job>>

Running == {t \in left : job[t] = "active"}

\* Helm's order: by weight, then by name.
Before(d, t) == weights[d] < weights[t] \/ (weights[d] = weights[t] /\ d < t)

\* The first hook that is left starts when no other one runs.
NextHook(t) ==
    /\ stage \in Hooks /\ Running = {}
    /\ t \in left /\ \A d \in left \ {t} : Before(t, d)

\* Hook policy before-hook-creation: the Job of an earlier deploy is replaced.
StartHook(t) ==
    /\ NextHook(t)
    /\ job' = [job EXCEPT ![t] = "active"]
    /\ UNCHANGED <<input, weighing, envInput, stage, env, left, ran, deploys>>

HookSucceeds(t) ==
    /\ stage \in Hooks /\ t \in Running
    /\ job' = [job EXCEPT ![t] = "ok"]
    /\ left' = left \ {t}
    /\ ran' = ran \cup {t}
    /\ UNCHANGED <<input, weighing, envInput, stage, env, deploys>>

\* The Job fails or its deadline passes: the release fails, the Job is kept,
\* those of the hooks that succeeded before it go (hook-succeeded).
HookFails(t) ==
    /\ stage \in Hooks /\ t \in Running
    /\ job' = [u \in Tasks |-> IF u = t THEN "failed"
                               ELSE IF job[u] = "ok" THEN "none" ELSE job[u]]
    /\ stage' = "failed"
    /\ UNCHANGED <<input, weighing, envInput, env, left, ran, deploys>>

\* Otherwise they go once all hooks of the stage have succeeded.
HooksDone ==
    /\ stage \in Hooks /\ left = {}
    /\ job' = [t \in Tasks |-> IF t \in hookTasksForChart(stage) THEN "none" ELSE job[t]]
    /\ stage' = IF stage = "preDeploy" THEN "app" ELSE "deployed"
    /\ UNCHANGED <<input, weighing, envInput, env, left, ran, deploys>>

\* The other resources are applied and become ready, or do not.
ApplyApp ==
    /\ stage = "app"
    /\ \/ stage' = "postDeploy" /\ left' = hookTasksForChart("postDeploy")
       \/ stage' = "failed" /\ UNCHANGED left
    /\ UNCHANGED <<input, weighing, envInput, env, job, ran, deploys>>

RunNext ==
    \/ Weigh \/ Validate \/ StartDeploy
    \/ \E t \in Tasks : StartHook(t) \/ HookSucceeds(t) \/ HookFails(t)
    \/ HooksDone \/ ApplyApp

\* The weights are computed by a loop without waits.
RunSpec == RunInit /\ [][RunNext]_allVars /\ WF_allVars(Weigh)

-----------------------------------------------------------------------------
(* Properties.                                                             *)

\* While a hook task runs, every task its after list names has already
\* succeeded in the same deploy, in whatever environment the deploy is for and
\* whichever environments lists the tasks inherited: no after entry is dropped
\* because its task is filtered out.
AfterCompleted == \A t \in Tasks : job[t] = "active" => after[t] \subseteq ran

\* validateTaskAfterGraph refuses no spec it need not: a refused spec has a
\* cycle (which WeightsExact says is real), or an after entry that could not be
\* kept. The entry names the task itself, stands on a manual task or names a
\* task of another phase, or some environment runs the task without the one it
\* names: a task without a list also runs in environments no list mentions.
RefusedForCause ==
    /\ RunTypeOK
    /\ stage = "rejected" =>
          \/ phase = "cycle"
          \/ \E t \in Tasks : \E d \in after[t] :
                \/ t = d \/ on[t] = "manual" \/ on[d] # on[t]
                \/ MergedEnvs(t) = {} /\ MergedEnvs(d) # {}
                \/ \E e \in EnvNames : activeInEnvironment(t, e) /\ ~ activeInEnvironment(d, e)
=============================================================================
