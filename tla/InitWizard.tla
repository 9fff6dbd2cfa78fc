------------------------------- MODULE InitWizard -------------------------------
(***************************************************************************)
(* `deployah init` (internal/cmd/initialize): the component that the       *)
(* answers of the wizard make, and the spec file it saves.                 *)
(*                                                                         *)
(* Answers   [role, port, preset, cpu, mem, eph, expose, advanced, kind,   *)
(*            volume, replicas, domain, sub, metricsPort, scale, path,     *)
(*            exec, envs]: one field per prompt. A prompt that is not      *)
(*            shown leaves its answer unread. preset may be "custom", and  *)
(*            then cpu, mem and eph are Nil when left empty. scale is Nil  *)
(*            or [min, max]; path "" and metricsPort 0 are empty answers.  *)
(*                                                                         *)
(* Names, images, commands, variables and config files are left out: no    *)
(* other answer depends on them.                                           *)
(***************************************************************************)
EXTENDS Resolution

\* The zero value of spec.Component and of spec.Expose.
BlankComponent ==
    [role |-> Unset, kind |-> Unset, port |-> 0, replicas |-> Nil, hpa |-> Nil, disk |-> Nil,
     expose |-> Nil, envs |-> {}, profiles |-> Nil, cpu |-> Nil, mem |-> Nil, eph |-> Nil,
     preset |-> Unset, metrics |-> Nil, ready |-> Nil, alive |-> Nil, shutdown |-> 0, wellFormed |-> TRUE]
BlankExpose == [off |-> FALSE, domain |-> Unset, sub |-> Nil, apex |-> FALSE]
BlankAlive == [off |-> FALSE, path |-> Unset, exec |-> FALSE, interval |-> 0, restart |-> 0]

-----------------------------------------------------------------------------
\* Only offered to services, and only with the local environment.
askExpose(a, names) == a.role = "service" /\ "local" \in names

collectComponentCustomResources(c, a) ==
    IF a.preset = "custom" THEN [c EXCEPT !.cpu = a.cpu, !.mem = a.mem, !.eph = a.eph]
    ELSE c

applyComponentEssentials(a, names) ==
    [BlankComponent EXCEPT
        !.role = a.role,
        !.port = IF a.role = "service" THEN a.port ELSE 0,
        !.expose = IF askExpose(a, names) /\ a.expose THEN BlankExpose ELSE Nil,
        !.preset = IF a.preset = "custom" THEN Unset ELSE a.preset]

collectComponentEssentials(a, names) ==
    collectComponentCustomResources(applyComponentEssentials(a, names), a)

\* Volume and replicas are asked for a stateful component only.
collectComponentPersistence(a) ==
    IF a.kind = "stateful" /\ a.volume THEN [class |-> Unset] ELSE Nil

collectComponentReplicas(a) == IF a.kind = "stateful" THEN a.replicas ELSE Nil

collectComponentExposeOptions(x, a) ==
    IF x = Nil THEN Nil ELSE [x EXCEPT !.domain = a.domain, !.sub = a.sub]

collectComponentMetricsPort(a) ==
    IF a.role = "worker" /\ a.metricsPort # 0
    THEN [off |-> FALSE, enabled |-> Nil, port |-> a.metricsPort] ELSE Nil

\* Not offered to a stateful component.
collectComponentAutoscaling(a) ==
    IF a.kind = "stateful" \/ a.scale = Nil THEN Nil
    ELSE [on |-> TRUE, min |-> a.scale.min, max |-> a.scale.max, targets |-> {"cpu"}]

\* One path for both checks of a service.
collectComponentHealth(c, a) ==
    IF a.role = "service" /\ c.port > 0 /\ a.path # Unset
    THEN [c EXCEPT !.ready = [off |-> FALSE], !.alive = [BlankAlive EXCEPT !.path = a.path]]
    ELSE c

collectComponentExecHealth(c, a) ==
    IF a.role = "worker" /\ a.exec
    THEN [c EXCEPT !.alive = [BlankAlive EXCEPT !.exec = TRUE]] ELSE c

\* The only environment is not asked for.
collectComponentEnvironments(a, names) == IF Cardinality(names) = 1 THEN names ELSE a.envs

collectComponentAdvancedDetails(c, a, names) ==
    collectComponentExecHealth(collectComponentHealth(
        [c EXCEPT !.kind = a.kind,
                  !.disk = collectComponentPersistence(a),
                  !.replicas = collectComponentReplicas(a),
                  !.expose = collectComponentExposeOptions(@, a),
                  !.metrics = collectComponentMetricsPort(a),
                  !.hpa = collectComponentAutoscaling(a),
                  !.envs = collectComponentEnvironments(a, names)], a), a)

collectComponentAdvanced(c, a, names) ==
    IF a.advanced THEN collectComponentAdvancedDetails(c, a, names) ELSE c

collectComponentDetails(a, names) ==
    collectComponentAdvanced(collectComponentEssentials(a, names), a, names)

\* An answer the prompts cannot refuse one by one ends the wizard.
ValidateMinMaxReplicas(a) == a.scale # Nil => a.scale.min <= a.scale.max

WizardAccepts(a, names) ==
    a.advanced => /\ a.kind # "stateful" => ValidateMinMaxReplicas(a)
                  /\ collectComponentEnvironments(a, names) # {}

\* answers: by component name.
collectComponents(answers, names) ==
    [components |-> [n \in DOMAIN answers |-> collectComponentDetails(answers[n], names)],
     tasks |-> <<>>, envs |-> <<>>]

-----------------------------------------------------------------------------
\* Mutant: the role goes with the port.
MutOmitSchemaDefaults(c) ==
    [c EXCEPT !.role = Unset, !.port = IF @ = DefaultServicePort THEN 0 ELSE @]

\* What the schema's defaults give back when the file is loaded.
omitSchemaDefaults(c) ==
    [c EXCEPT !.role = IF @ = "service" THEN Unset ELSE @,
              !.port = IF @ = DefaultServicePort THEN 0 ELSE @]

sparseSpec(s) == [s EXCEPT !.components = [n \in DOMAIN @ |-> omitSchemaDefaults(@[n])]]

\* The patterns of the schema, for what the prompts take unseen: a variable
\* is neither a domain key nor a label.
ValidateSpec(s) ==
    \A n \in DOMAIN s.components :
        LET x == s.components[n].expose IN x # Nil => Var \notin {x.sub, x.domain}

\* What is saved; Nil is an error. The completed clone is validated, the
\* sparse spec is saved.
buildValidatedSpec(s) ==
    LET sparse == sparseSpec(s)
        clone == FillSpecWithDefaults(sparse)
    IN  IF ValidateSpec(clone) /\ ValidateSpecComponents(clone) /\ ValidateSpecTasks(clone)
        THEN sparse ELSE Nil

\* The environments init says exposed components get no URL in.
warnExposeWithoutDomains(s, names, cfg) ==
    IF \A n \in DOMAIN s.components : s.components[n].expose = Nil THEN {}
    ELSE {e \in names \ {"local"} :
            \/ cfg = Nil
            \/ e \notin DOMAIN cfg.envs
            \/ cfg.envs[e].domains \in {Nil, <<>>}}
=============================================================================
