------------------------------- MODULE Components -------------------------------
(***************************************************************************)
(* A component and a task of the spec file: the rules that accept them     *)
(* (internal/spec/validate.go, task_validate.go) and the defaults that     *)
(* complete them (defaults.go).                                            *)
(*                                                                         *)
(* Component   [role, kind, port, replicas, hpa, disk, expose, envs,       *)
(*              profiles, cpu, mem, eph, preset, metrics, ready, alive,    *)
(*              shutdown, wellFormed]                                      *)
(* Task        [from, on, envs, profiles, cpu, mem, eph, preset, timeout,  *)
(*              wellFormed]                                                *)
(*                                                                         *)
(* An optional block or pointer is Nil when omitted; "" and 0 are the      *)
(* omitted scalars. Durations are seconds. A block written as `false` has  *)
(* off = TRUE. wellFormed stands for the checks of one value by itself     *)
(* that no other operator reads: schema patterns, durations that parse to  *)
(* more than zero, paths that start with "/", names that are not blank,    *)
(* no "/*" in an environments entry.                                       *)
(***************************************************************************)
EXTENDS Profiles, FiniteSets

DefaultServicePort == 8080
DefaultLivenessInterval == 10
DefaultLivenessRestartAfter == 60
DefaultHookTaskTimeout == 300

IsWorker(c) == c.role = "worker"
IsService(c) == c.role = "service"
Scales(c) == c.hpa # Nil /\ c.hpa.on
AliveOn(c) == c.alive # Nil /\ ~c.alive.off
IsHook(t) == t.on \in {"preDeploy", "postDeploy"}

-----------------------------------------------------------------------------
validateResources(t) ==
    /\ ~(ResourcesSet(t) /\ t.preset # Unset)
    /\ ~(~ResourcesSet(t) /\ ResourcesPresent(t))

ValidateComponentAutoscaling(c) == Scales(c) => c.hpa.min <= c.hpa.max

ValidateComponentWorker(c) ==
    IsWorker(c) => /\ c.port = 0
                   /\ c.expose = Nil
                   /\ c.ready = Nil \/ c.ready.off
                   /\ AliveOn(c) => c.alive.path = Unset

ValidateComponentHealth(c) ==
    AliveOn(c) =>
        /\ ~(c.alive.path # Unset /\ c.alive.exec)
        /\ c.alive.restart # 0 =>
              c.alive.restart >= (IF c.alive.interval # 0 THEN c.alive.interval
                                  ELSE DefaultLivenessInterval)

\* Mutant: a worker may leave out the metrics port, as a service may.
MutValidateComponentMetrics(c) == TRUE

ValidateComponentMetrics(c) ==
    MetricsEnabled(c.metrics) /\ IsWorker(c) => c.metrics.port > 0

\* A kind that is left out is stateless.
ValidateComponentPersistence(c) ==
    c.disk # Nil /\ c.kind # "stateful" =>
        /\ c.replicas # Nil => c.replicas <= 1
        /\ ~Scales(c)

ValidateComponentReplicas(c) == c.replicas # Nil => c.replicas >= 1 /\ ~Scales(c)

ValidateComponentExpose(c) == c.expose # Nil => ~(c.expose.apex /\ c.expose.sub # Nil)

ValidComponent(c) ==
    /\ c.wellFormed
    /\ validateResources(c)
    /\ ValidateComponentAutoscaling(c)
    /\ ValidateComponentPersistence(c)
    /\ ValidateComponentReplicas(c)
    /\ ValidateComponentWorker(c)
    /\ ValidateComponentHealth(c)
    /\ ValidateComponentMetrics(c)
    /\ ValidateComponentExpose(c)

ValidateSpecComponents(s) == \A n \in DOMAIN s.components : ValidComponent(s.components[n])

validateTask(s, t) ==
    /\ t.wellFormed
    /\ t.from # Unset => t.from \in DOMAIN s.components
    /\ validateResources(t)

\* Tasks without after lists: HookWeights and HookRun have those.
ValidateSpecTasks(s) ==
    \A n \in DOMAIN s.tasks : n \notin DOMAIN s.components /\ validateTask(s, s.tasks[n])

-----------------------------------------------------------------------------
orElse(v, zero, default) == IF v = zero THEN default ELSE v

\* The defaults of the schema for the block, where the file has it.
DefaultAutoscaling(a) ==
    [on |-> a.on, min |-> orElse(a.min, 0, 2), max |-> orElse(a.max, 0, 5),
     targets |-> orElse(a.targets, {}, {"cpu"})]

DefaultMetrics(m) == [m EXCEPT !.enabled = orElse(@, Nil, TRUE)]

SchemaDefaults(c) ==
    [c EXCEPT !.role = orElse(@, Unset, "service"),
              !.kind = orElse(@, Unset, "stateless"),
              !.replicas = orElse(@, Nil, 1),
              !.hpa = IF @ = Nil THEN Nil ELSE DefaultAutoscaling(@),
              !.metrics = IF @ = Nil THEN Nil ELSE DefaultMetrics(@)]

applyRoleDependentDefaults(c) ==
    LET port == IF IsService(c) THEN orElse(c.port, 0, DefaultServicePort) ELSE c.port
    IN  [c EXCEPT !.shutdown = orElse(@, 0, IF IsWorker(c) THEN 60 ELSE 30),
                  !.port = port,
                  !.metrics = IF MetricsEnabled(@) /\ IsService(c) /\ @.port = 0
                              THEN [@ EXCEPT !.port = port] ELSE @]

\* Mutant: the default of the schema stays beside the autoscaler.
MutDropSchemaReplicasDefault(c, explicit) == c

dropSchemaReplicasDefault(c, explicit) ==
    IF ~explicit /\ Scales(c) THEN [c EXCEPT !.replicas = Nil] ELSE c

applyResourcePreset(t) ==
    IF ResourcesSet(t) THEN t
    ELSE LET req == ResourcePresetMappings[orElse(t.preset, Unset, "small")]
         IN  [t EXCEPT !.cpu = req.cpu, !.mem = req.mem, !.eph = req.eph, !.preset = Unset]

applyTaskDefaults(t) ==
    [t EXCEPT !.timeout = IF IsHook(t) THEN orElse(@, 0, DefaultHookTaskTimeout) ELSE @]

\* A task with from and nothing of its own waits for MergeFrom.
resolveTaskPreset(t) ==
    IF t.from # Unset /\ t.preset = Unset /\ ~ResourcesSet(t) THEN t ELSE applyResourcePreset(t)

FillSpecWithDefaults(s) ==
    [s EXCEPT !.components =
                 [n \in DOMAIN @ |->
                    LET c == applyRoleDependentDefaults(SchemaDefaults(@[n]))
                    IN  applyResourcePreset(dropSchemaReplicasDefault(c, @[n].replicas # Nil))],
              !.tasks = [n \in DOMAIN @ |-> resolveTaskPreset(applyTaskDefaults(@[n]))]]

-----------------------------------------------------------------------------
\* What a task takes from its component. `profiles: []` counts as omitted.
MergeFrom(t, parent) ==
    LET own == t.preset # Unset \/ ResourcesSet(t)
    IN  [t EXCEPT !.envs = orElse(@, {}, parent.envs),
                  !.profiles = IF @ \in {Nil, <<>>} THEN parent.profiles ELSE @,
                  !.preset = IF own THEN @ ELSE parent.preset,
                  !.cpu = IF ~own /\ ResourcesSet(parent) THEN parent.cpu ELSE @,
                  !.mem = IF ~own /\ ResourcesSet(parent) THEN parent.mem ELSE @,
                  !.eph = IF ~own /\ ResourcesSet(parent) THEN parent.eph ELSE @]

MergedTask(s, n) ==
    LET t == s.tasks[n]
    IN  IF t.from \in DOMAIN s.components THEN MergeFrom(t, s.components[t.from]) ELSE t

\* limit: the --timeout of the command.
taskTimeoutAgainstLimit(t, limit) ==
    t.timeout # 0 \/ IsHook(t) => orElse(t.timeout, 0, DefaultHookTaskTimeout) < limit

\* Every hook task, whatever the environment. CheckTaskTimeout is the same
\* for the one task of `deployah run`.
CheckHookTaskTimeouts(tasks, limit) ==
    \A n \in DOMAIN tasks : IsHook(tasks[n]) => taskTimeoutAgainstLimit(tasks[n], limit)
=============================================================================
