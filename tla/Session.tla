-------------------------------- MODULE Session --------------------------------
(***************************************************************************)
(* The commands that share a project directory: what they read from the    *)
(* spec and the platform file, which cluster they turn to, and what init   *)
(* and cluster up write (internal/session and internal/cmd).               *)
(*                                                                         *)
(* Several commands run at once, each in a process of its own, while the   *)
(* user edits the platform file and switches the current context. A step   *)
(* of a command is what happens between two accesses to a file or to the   *)
(* kubeconfig. What a deploy, delete or run does with its clients is in    *)
(* Deploy, TaskRun and HookRun.                                            *)
(*                                                                         *)
(* spec, file   the two files (the platform file as in PlatformFile)       *)
(* kctx         the current-context of the kubeconfig                      *)
(* proc         the commands:                                              *)
(*    cmd, env     the command and its environment argument                *)
(*    pc           its next step                                           *)
(*    raw          the spec as first parsed, before variables are replaced *)
(*    plat         the memoised platform file of its Session               *)
(*    used         the platform file its checks were made with             *)
(*    loaded, resolved   what it got from both                             *)
(*    code         the error of a resolution, or the step that failed      *)
(*    warned       check had something to say                              *)
(*    ctx          the context of Session.Target, "" for current-context   *)
(*    clients      the context each client was built for                   *)
(*    seen         the platform file as init or up found it                *)
(* input        what else a behaviour starts from, see MCSession           *)
(* budget       edits and context switches left                            *)
(***************************************************************************)
EXTENDS ChartValues, PlatformFile, InitWizard

CONSTANT Inputs     \* the starting points considered

Preparers == {"deploy", "plan", "planOffline", "run"}
Readers == Preparers \cup {"validate", "check", "resolve", "delete"}
Lenient == {"deleteAny", "status", "list", "logs", "shell"}
Writers == {"init", "up"}
Commands == Readers \cup Lenient \cup Writers

\* What the schemas ask of single values: names that can be sorted, presets
\* that exist, quantities; a base domain and a key that are not empty. And a
\* list of domains, be it empty, is not one that was left out.
ResourcesOK(c, presets) == {c.cpu, c.mem, c.eph} \subseteq Nat \cup {Nil} /\ c.preset \in presets

ComponentOK(c) ==
    /\ DOMAIN c = DOMAIN BlankComponent
    /\ ResourcesOK(c, DOMAIN ResourcePresetMappings \cup {Unset})
    /\ c.profiles = Nil \/ c.profiles \in Seq(ToSet(c.profiles))

SpecOK(s) ==
    /\ DOMAIN s = {"components", "tasks", "envs"}
    /\ DOMAIN s.components \subseteq ToSet(SortedNames)
    /\ \A n \in DOMAIN s.components : ComponentOK(s.components[n])

\* Blocks have the fields of their types, numbers are not negative; both
\* bounds of an autoscaling block are required, and at least 1.
Autoscalings(numbers) ==
    [on: BOOLEAN, min: numbers, max: numbers, targets: SUBSET {"cpu", "memory"}]

BlocksOK(c) ==
    /\ c.role \in {Unset, "service", "worker"}
    /\ c.port \in Nat
    /\ c.replicas \in Nat \cup {Nil}
    /\ c.hpa = Nil \/ c.hpa \in Autoscalings(Nat \ {0})
    /\ c.metrics = Nil \/ c.metrics \in [off: BOOLEAN, enabled: BOOLEAN \cup {Nil}, port: Nat]
    /\ c.alive = Nil \/ {c.alive.interval, c.alive.restart} \subseteq Nat

ShapeOK(s) ==
    /\ DOMAIN s.tasks \subseteq ToSet(SortedNames)
    /\ \A n \in DOMAIN s.components : BlocksOK(s.components[n])

\* A component, an expose block and a task have the fields of their types.
HasFields(x, blank) == x = [f \in DOMAIN blank |-> x[f]]

TaskOK(t) ==
    /\ DOMAIN t = {"from", "on", "envs", "profiles", "cpu", "mem", "eph", "preset", "timeout",
                   "wellFormed"}
    /\ ResourcesOK(t, DOMAIN ResourcePresetMappings \cup {Unset})
    /\ t.profiles = Nil \/ t.profiles \in Seq(ToSet(t.profiles))

SourceOK(s) ==
    /\ \A n \in DOMAIN s.components :
          LET c == s.components[n]
          IN  HasFields(c, BlankComponent) /\ (c.expose = Nil \/ HasFields(c.expose, BlankExpose))
    /\ \A n \in DOMAIN s.tasks : TaskOK(s.tasks[n])

\* The prompts ask for numbers, and take a port and a bound from 1 on.
AnswersOK(a) ==
    /\ ResourcesOK(a, DOMAIN ResourcePresetMappings \cup {"custom"})
    /\ a.role \in {"service", "worker"}
    /\ {a.port, a.replicas, a.metricsPort} \subseteq Nat
    /\ a.scale = Nil \/ {a.scale.min, a.scale.max} \subseteq Nat \ {0}

\* A sequence of labels, of one at least.
HostOK(h) == h \in Seq(ToSet(h)) /\ h # <<>>

DomainsOK(domains) ==
    \A k \in Keys(domains) : k # Unset /\ HostOK(domains[k].base)

ProfileOK(p) ==
    /\ {p.maxCpu, p.maxMem} \subseteq Nat
    /\ p.allowed # Nil => \A S \in SUBSET p.allowed : S # Nil

PlatformOK(cfg) ==
    /\ \A e \in DOMAIN cfg.envs : DomainsOK(cfg.envs[e].domains)
    /\ \A n \in Keys(cfg.profiles) : ProfileOK(cfg.profiles[n])

ASSUME InputsAssumption ==
    \A x \in Inputs :
        /\ SpecOK(x.spec) /\ ShapeOK(x.spec) /\ SourceOK(x.spec)
        /\ \A p \in DOMAIN x.cmd : x.cmd[p] \in Commands
        /\ \A f \in x.versions \cup {x.file} : f = Nil \/ PlatformOK(f.cfg)
        /\ DOMAIN x.answers \subseteq ToSet(SortedNames)
        /\ \A n \in DOMAIN x.answers : AnswersOK(x.answers[n])

\* What is omitted is neither a boolean nor a block.
ASSUME OmittedAssumption ==
    Nil \notin BOOLEAN \cup Autoscalings(Nat)
            \cup [min: Nat, max: Nat, targets: SUBSET {"cpu", "memory"}]
            \cup [off: BOOLEAN, enabled: BOOLEAN \cup {Nil}, port: Nat]

\* Neither is an environment or what init writes for one; the local cluster
\* has a base domain that is valid in DNS.
ASSUME ScaffoldAssumption ==
    /\ \A x \in Inputs : Nil \notin x.names /\ newPlatformEnvironments(x.names) # Nil
    /\ Nil \notin {EmptyEntry, LocalPlatformEnvironment, LocalDomains}
    /\ validHost(LocalDomains["public"].base)

VARIABLES spec, file, kctx, proc, input, budget

vars == <<spec, file, kctx, proc, input, budget>>

\* The clients each command builds, in this order: one it needs, or one it
\* tries and goes on without; after some of them it may be finished. deleteAny
\* is delete with --allow-missing-platform.
Need(kind) == [kind |-> kind, needed |-> TRUE, stop |-> FALSE]
Try(kind) == [kind |-> kind, needed |-> FALSE, stop |-> FALSE]
OrStop(step) == [step EXCEPT !.stop = TRUE]

\* The second REST config is for the CRDs.
deployClients == <<Need("helm"), Try("kubernetes"), OrStop(Try("rest")), Need("rest")>>
\* ... for --drift.
onlinePlanClients == <<Need("helm"), Try("kubernetes"), OrStop(Try("rest")), Need("rest")>>
offlinePlanClients == <<Need("helm")>>
\* To list the Jobs, and to delete them.
deleteClients == <<Need("helm"), OrStop(Try("kubernetes")), Try("kubernetes")>>
\* Pods are for --detailed.
statusClients == <<OrStop(Need("helm")), Need("kubernetes")>>
listClients == <<Need("helm")>>
logsClients == <<Need("kubernetes")>>
runClients == <<Need("kubernetes")>>
\* To find a shell, and to run it.
shellClients == <<Need("kubernetes"), OrStop(Try("rest")), Need("rest")>>

ClientsOf(cmd) ==
    CASE cmd = "deploy" -> deployClients
      [] cmd = "plan" -> onlinePlanClients
      [] cmd = "planOffline" -> offlinePlanClients
      [] cmd \in {"delete", "deleteAny"} -> deleteClients
      [] cmd = "status" -> statusClients
      [] cmd = "list" -> listClients
      [] cmd = "logs" -> logsClients
      [] cmd = "run" -> runClients
      [] cmd = "shell" -> shellClients
      [] OTHER -> <<>>

\* session.New, one per command.
NewSession(cmd, e) ==
    [cmd |-> cmd, env |-> e,
     pc |-> IF cmd \in Readers THEN "platform"
            ELSE IF cmd \in Lenient THEN "target" ELSE IF cmd = "init" THEN "save" ELSE "see",
     raw |-> Nil, plat |-> Nil, used |-> Nil, loaded |-> Nil, resolved |-> NotResolved,
     code |-> NoCode, warned |-> FALSE, ctx |-> Unset, clients |-> <<>>, seen |-> Nil]

Init ==
    /\ input \in Inputs
    /\ spec = input.spec
    /\ file = input.file
    /\ kctx = input.kctx
    /\ proc = [p \in DOMAIN input.cmd |-> NewSession(input.cmd[p], input.env[p])]
    /\ budget = [edits |-> input.edits, switches |-> input.switches]

At(p, pc) == p \in DOMAIN proc /\ proc[p].pc = pc

Fail(p, code) == proc' = [proc EXCEPT ![p].pc = "failed", ![p].code = code]

-----------------------------------------------------------------------------
\* Mutant: every call reads the file.
MutPlatform(p) ==
    IF file = Nil /\ ~input.explicit THEN [err |-> FALSE, cfg |-> Nil]
    ELSE IF LoadPlatform(file) THEN [err |-> FALSE, cfg |-> file.cfg]
    ELSE [err |-> TRUE, cfg |-> Nil]

\* Session.Platform: a file that was loaded once is not read again; that
\* there was none is not remembered. explicit: --platform-file or
\* DEPLOYAH_PLATFORM_FILE names it, and then it has to exist.
Platform(p) ==
    IF proc[p].plat # Nil THEN [err |-> FALSE, cfg |-> proc[p].plat]
    ELSE IF file = Nil /\ ~input.explicit THEN [err |-> FALSE, cfg |-> Nil]
    ELSE IF LoadPlatform(file) THEN [err |-> FALSE, cfg |-> file.cfg]
    ELSE [err |-> TRUE, cfg |-> Nil]

\* runDelete and runCrossFile insist on a file.
NeedsFile(cmd) == cmd \in {"delete", "validate"}


\* runManifestOnly looks at the spec before it looks for the other file.
Rejects(cmd, raw) == cmd = "check" /\ ~(ValidateSpecComponents(raw) /\ ValidateSpecTasks(raw))

\* ParseManifest and Platform(), with which these commands start. (delete and
\* run do not parse the spec here; raw is what they would find.)
ReadPlatform(p) ==
    /\ At(p, "platform")
    /\ LET r == Platform(p)
           cmd == proc[p].cmd
       IN  IF Rejects(cmd, ParseManifest(spec)) THEN Fail(p, "LOAD")
           ELSE IF r.err THEN Fail(p, "PLATFORM_INVALID")
           ELSE IF r.cfg = Nil /\ NeedsFile(cmd) THEN Fail(p, "PLATFORM_MISSING")
           ELSE proc' = [proc EXCEPT ![p].plat = r.cfg,
                                     ![p].used = r.cfg,
                                     ![p].raw = ParseManifest(spec),
                                     ![p].pc = IF cmd = "delete" THEN "target" ELSE "prepare"]
    /\ UNCHANGED <<spec, file, kctx, input, budget>>

-----------------------------------------------------------------------------
HasExposeComponents(s) == \E n \in DOMAIN s.components : s.components[n].expose # Nil

\* run passes no report of substituted fields.
dynamicsOf(p) ==
    IF proc[p].cmd = "run" THEN {} ELSE PrescanSubstitutionReport(proc[p].raw)

ResolveLoaded(p, loaded) ==
    IF proc[p].plat = Nil THEN NotResolved
    ELSE Resolve(loaded, proc[p].plat, proc[p].env, dynamicsOf(p))

\* deploy: every hook task has to fit into --timeout.
deployCode(p, loaded, resolved) ==
    IF ~CheckHookTaskTimeouts(EffectiveTasks(loaded, proc[p].env, resolved), input.limit)
    THEN "TIMEOUT" ELSE NoCode

\* run: the one task. Without a platform file it may name no profile, be it
\* skipped in the environment or not.
resolveRunTask(p, loaded, resolved) ==
    LET tasks == EffectiveTasks(loaded, proc[p].env, resolved)
        t == input.task
        known == t \in DOMAIN loaded.tasks
    IN  IF ~resolved.done /\ known /\ MergedTask(loaded, t).profiles \notin {Nil, <<>>}
        THEN "PLATFORM_NOT_FOUND"
        ELSE IF t \notin DOMAIN tasks THEN "TASK_SKIPPED"
        ELSE IF ~input.detach /\ ~taskTimeoutAgainstLimit(tasks[t], input.limit) THEN "TIMEOUT"
        ELSE NoCode

PrepareCode(p, loaded, resolved) ==
    LET cmd == proc[p].cmd
    IN  IF loaded = Nil THEN "LOAD"
        ELSE IF cmd # "run" /\ proc[p].plat = Nil /\ HasExposeComponents(loaded)
        THEN "PLATFORM_NOT_FOUND"
        ELSE firstCode(resolved.code,
                CASE cmd = "deploy" -> deployCode(p, loaded, resolved)
                  [] cmd = "run" -> resolveRunTask(p, loaded, resolved)
                  [] OTHER -> NoCode)

\* Load, Resolve and the checks of deploy, plan and run. Without a platform
\* file nothing is resolved. The user may say no to a run.
Prepare(p) ==
    /\ At(p, "prepare")
    /\ proc[p].cmd \in Preparers
    /\ LET loaded == Load(spec, proc[p].env, proc[p].plat, input.files, input.os)
           resolved == IF loaded = Nil THEN NotResolved ELSE ResolveLoaded(p, loaded)
           code == PrepareCode(p, loaded, resolved)
       IN  IF code # NoCode THEN Fail(p, code)
           ELSE \E pc \in {"target"} \cup (IF proc[p].cmd = "run" THEN {"done"} ELSE {}) :
                   proc' = [proc EXCEPT ![p].loaded = loaded, ![p].resolved = resolved,
                                        ![p].pc = pc]
    /\ UNCHANGED <<spec, file, kctx, input, budget>>

\* Mutant: the error of the resolution is not looked at.
MutReport(p, r) == proc' = [proc EXCEPT ![p].resolved = r, ![p].pc = "done"]

Report(p, r) ==
    IF r.code # NoCode THEN Fail(p, r.code)
    ELSE proc' = [proc EXCEPT ![p].resolved = r, ![p].pc = "done"]

\* The resolution of the spec as it is written.
AsWritten(p) == ResolveForDisplay(proc[p].raw, proc[p].plat, proc[p].env, dynamicsOf(p))

\* `deployah validate <env>`.
runCrossFile(p) ==
    /\ At(p, "prepare") /\ proc[p].cmd = "validate"
    /\ Report(p, AsWritten(p))
    /\ UNCHANGED <<spec, file, kctx, input, budget>>

\* `deployah resolve`.
runResolve(p) ==
    /\ At(p, "prepare") /\ proc[p].cmd = "resolve"
    /\ Report(p, AsWritten(p))
    /\ UNCHANGED <<spec, file, kctx, input, budget>>

\* `deployah validate` without an environment.
runManifestOnly(p) ==
    /\ At(p, "prepare") /\ proc[p].cmd = "check"
    /\ LET r == IF proc[p].plat = Nil THEN [problems |-> FALSE, warnings |-> FALSE]
                ELSE CrossCheckPlatformReferences(proc[p].raw, proc[p].plat)
       IN  IF r.problems THEN Fail(p, "CROSS_CHECK")
           ELSE proc' = [proc EXCEPT ![p].warned = r.warnings, ![p].pc = "done"]
    /\ UNCHANGED <<spec, file, kctx, input, budget>>

-----------------------------------------------------------------------------
\* Session.Target: --context, then the platform file, then current-context.
\* A file that does not load counts as none. The call memoises as well.
Target(p) ==
    /\ At(p, "target")
    /\ LET r == Platform(p)
           reads == input.flag = Unset
       IN  proc' = [proc EXCEPT
                      ![p].plat = IF reads THEN r.cfg ELSE @,
                      ![p].ctx = IF reads THEN PlatformEnvContext(r.cfg, proc[p].env)
                                 ELSE input.flag,
                      ![p].pc = "clients"]
    /\ UNCHANGED <<spec, file, kctx, input, budget>>

\* The context in the Session that a client factory gets.
cloneWithContext(ctx) == ctx

kubeconfigContext(ctx) == IF ctx = Unset THEN kctx ELSE ctx

\* Helm goes by the kubeconfig, the other two prefer the pod they run in.
ClientContext(kind, ctx) ==
    IF kind # "helm" /\ input.inCluster THEN "in-cluster"
    ELSE kubeconfigContext(cloneWithContext(ctx))

HasSelfSignedComponents(resolved) ==
    \E n \in DOMAIN resolved.components : resolved.components[n].tls = "selfSigned"

\* deploy and plan need the Kubernetes client when a certificate has to be
\* looked up (MaterializeSelfSignedTLS).
ClientNeeded(p, step) ==
    \/ step.needed
    \/ /\ step.kind = "kubernetes" /\ proc[p].cmd \in {"deploy", "plan"}
       /\ HasSelfSignedComponents(proc[p].resolved)

\* The Kubernetes client is memoised, the REST config is not.
Memoised(p, kind) ==
    {proc[p].clients[i] : i \in {j \in DOMAIN proc[p].clients :
                                    kind = "kubernetes" /\ ClientsOf(proc[p].cmd)[j].kind = kind}} \ {Nil}

\* Cluster.Helm, Kubernetes and RESTConfig; each may fail.
BuildClient(p) ==
    /\ At(p, "clients")
    /\ LET steps == ClientsOf(proc[p].cmd)
           i == Len(proc[p].clients) + 1
           memo == Memoised(p, steps[i].kind)
           fresh == ClientContext(steps[i].kind, proc[p].ctx)
           ends == (IF i = Len(steps) THEN {"done"} ELSE {"clients"})
                   \cup (IF steps[i].stop THEN {"done"} ELSE {})
           built(c) == \E pc \in ends :
                          proc' = [proc EXCEPT ![p].clients = Append(@, c), ![p].pc = pc]
       IN  \/ \E c \in (IF memo = {} THEN {fresh} ELSE memo) : built(c)
           \/ /\ input.flaky /\ memo = {}
              /\ IF ClientNeeded(p, steps[i]) THEN Fail(p, "CLIENT") ELSE built(Nil)
    /\ UNCHANGED <<spec, file, kctx, input, budget>>

-----------------------------------------------------------------------------
\* init: the wizard, its validation and the spec file.
SaveSpec(p) ==
    /\ At(p, "save")
    /\ LET s == collectComponents(input.answers, input.names)
           accepted == \A n \in DOMAIN input.answers : WizardAccepts(input.answers[n], input.names)
           sparse == buildValidatedSpec(s)
       IN  IF ~accepted \/ sparse = Nil
           THEN Fail(p, "WIZARD") /\ UNCHANGED spec
           ELSE /\ spec' = sparse
                /\ proc' = [proc EXCEPT ![p].raw = sparse, ![p].pc = "see"]
    /\ UNCHANGED <<file, kctx, input, budget>>

\* The stat and the read of EnsurePlatformEnvironments (init) and of
\* ensureLocalPlatformFile (cluster up).
SeeFile(p) ==
    /\ At(p, "see")
    /\ IF proc[p].cmd = "init" /\ file # Nil /\ ~LoadPlatform(file)
       THEN Fail(p, "PLATFORM_INVALID")
       ELSE proc' = [proc EXCEPT ![p].seen = file, ![p].pc = "write"]
    /\ UNCHANGED <<spec, file, kctx, input, budget>>

\* What it writes comes from what it saw.
WriteFile(p) ==
    /\ At(p, "write")
    /\ LET new == IF proc[p].cmd = "init"
                  THEN EnsurePlatformEnvironments(proc[p].seen, input.names)
                  ELSE ScaffoldPlatformFile(proc[p].seen, {"local"})
       IN  file' = IF new = Nil THEN file ELSE new
    /\ proc' = [proc EXCEPT ![p].pc = "done"]
    /\ UNCHANGED <<spec, kctx, input, budget>>

-----------------------------------------------------------------------------
\* The user.
EditFile ==
    /\ budget.edits > 0
    /\ \E f \in input.versions \ {file} : file' = f
    /\ budget' = [budget EXCEPT !.edits = @ - 1]
    /\ UNCHANGED <<spec, kctx, proc, input>>

SwitchContext ==
    /\ budget.switches > 0
    /\ \E k \in input.contexts \ {kctx} : kctx' = k
    /\ budget' = [budget EXCEPT !.switches = @ - 1]
    /\ UNCHANGED <<spec, file, proc, input>>

Ended(p) == proc[p].pc \in {"done", "failed"}

Terminating == (\A p \in DOMAIN proc : Ended(p)) /\ UNCHANGED vars

Next ==
    \/ \E p \in DOMAIN proc :
          \/ ReadPlatform(p) \/ Prepare(p)
          \/ runCrossFile(p) \/ runResolve(p) \/ runManifestOnly(p)
          \/ Target(p) \/ BuildClient(p)
          \/ SaveSpec(p) \/ SeeFile(p) \/ WriteFile(p)
    \/ EditFile
    \/ SwitchContext
    \/ Terminating

Spec == Init /\ [][Next]_vars

-----------------------------------------------------------------------------
Steps == {"platform", "prepare", "target", "clients", "save", "see", "write", "done", "failed"}
Failures == Codes \cup {"LOAD", "TIMEOUT", "TASK_SKIPPED", "CLIENT", "WIZARD", "CROSS_CHECK",
                        "PLATFORM_INVALID", "PLATFORM_MISSING"}

\* Every command is at one of its steps; only a command that failed has a
\* code; what is kept of a resolution is one that succeeded.
TypeOK ==
    \A p \in DOMAIN proc :
        /\ proc[p].cmd \in Commands
        /\ proc[p].pc \in Steps
        /\ proc[p].code \in Failures
        /\ (proc[p].code # NoCode) = (proc[p].pc = "failed")
        /\ proc[p].resolved.code = NoCode
        /\ Len(proc[p].clients) <= Len(ClientsOf(proc[p].cmd))

\* The commands that are about to render a chart, and what it is given.
Renders(p) == proc[p].cmd \in {"deploy", "plan", "planOffline"} /\ proc[p].loaded # Nil

ValuesOf(p) == MapSpecToChartValues(proc[p].loaded, proc[p].env, proc[p].resolved)

\* Ports are referred to by name, and the names are chosen in five places of
\* generate.go: in what is rendered, every probe, Service, Ingress and
\* monitor names a port that exists, and no port is 0.
NamedPortsExist ==
    \A p \in DOMAIN proc : Renders(p) =>
        LET values == ValuesOf(p) IN
        \A n \in DOMAIN values :
            LET v == values[n]
            IN  /\ \A x \in DOMAIN v.ports : v.ports[x] > 0
                /\ DOMAIN v.servicePorts \subseteq DOMAIN v.ports
                /\ \A b \in DOMAIN v.probes : v.probes[b].port \in {Nil} \cup DOMAIN v.ports
                /\ v.ingress # Nil => v.service /\ "http" \in DOMAIN v.servicePorts
                /\ v.monitor # Nil =>
                      v.monitor.port \in (IF v.monitor.pod THEN DOMAIN v.ports
                                          ELSE DOMAIN v.servicePorts)

\* A container is restarted when it has been unhealthy for restartAfter, at
\* the first check from then on: not one interval later, and earlier only
\* where more checks do not fit into the field. An interval beyond MaxInt32
\* seconds, which the conversion turns into another, is left out.
RestartWindowKept ==
    \A p \in DOMAIN proc : Renders(p) =>
        LET values == ValuesOf(p) IN
        \A n \in DOMAIN values : "liveness" \in DOMAIN values[n].probes =>
            LET b == values[n].probes["liveness"]
                a == proc[p].loaded.components[n].alive
                restart == IF a = Nil \/ a.restart = 0 THEN DefaultLivenessRestartAfter
                           ELSE a.restart
                interval == IF a = Nil \/ a.interval = 0 THEN DefaultLivenessInterval
                            ELSE a.interval
            IN  interval <= MaxInt32 =>
                   /\ b.period * b.threshold >= restart \/ b.threshold = MaxInt32
                   /\ b.period * (b.threshold - 1) < restart

\* One thing sets the number of replicas: a count or an autoscaler with
\* something to scale on, never both and never neither. A claim that only
\* one node can mount is never shared by two replicas of a Deployment, not
\* even during an update.
OneScaler ==
    \A p \in DOMAIN proc : Renders(p) =>
        LET values == ValuesOf(p) IN
        \A n \in DOMAIN values :
            LET v == values[n]
            IN  /\ (v.replicaCount = Nil) = (v.autoscaling # Nil)
                /\ v.autoscaling # Nil => v.autoscaling.min <= v.autoscaling.max
                                          /\ v.autoscaling.targets # {}
                /\ v.persistence # Nil /\ v.workload = "Deployment" =>
                      v.replicaCount = 1 /\ v.persistence.recreate

\* The profiles whose rules a component is under: the default one always.
Binding(c, plat) ==
    {n \in Keys(plat.profiles) : n = "default" \/ (c.profiles # Nil /\ n \in ToSet(c.profiles))}

\* y is merged after x: the component lists it later. The default profile
\* is before all others, wherever it is listed.
ListedAfter(c, x, y) ==
    /\ y # "default"
    /\ \/ x = "default"
       \/ \E i, j \in DOMAIN c.profiles : i < j /\ c.profiles[i] = x /\ c.profiles[j] = y

\* selector has every node label of profile x, with its value or with that
\* of a profile that comes after it.
SelectsNodes(selector, c, plat, x) ==
    \A k \in DOMAIN plat.profiles[x].nodeSelector :
        /\ k \in DOMAIN selector
        /\ \/ selector[k] = plat.profiles[x].nodeSelector[k]
           \/ \E y \in Binding(c, plat) :
                 /\ ListedAfter(c, x, y)
                 /\ k \in DOMAIN plat.profiles[y].nodeSelector
                 /\ selector[k] = plat.profiles[y].nodeSelector[k]

\* Whatever the order in which profiles are merged and defaults are filled
\* in, a chart that is rendered with a platform file keeps what each profile
\* of the component restricts: its ceilings hold for the requests in the
\* chart and its domains for the host. Its node labels are all selected;
\* where two profiles set one label the last of them decides its value.
ProfilesBind ==
    \A p \in DOMAIN proc : Renders(p) /\ proc[p].resolved.done =>
        LET values == ValuesOf(p) IN
        \A n \in DOMAIN values : \A x \in Binding(proc[p].loaded.components[n], proc[p].used) :
            LET prof == proc[p].used.profiles[x]
                v == values[n]
                key == proc[p].resolved.components[n].key
            IN  /\ prof.maxCpu # 0 => v.requests.cpu <= prof.maxCpu
                /\ prof.maxMem # 0 => v.requests.mem <= prof.maxMem
                /\ prof.allowed # Nil /\ v.ingress # Nil => key \in prof.allowed
                /\ SelectsNodes(v.nodeSelector, proc[p].loaded.components[n], proc[p].used, x)

\* With a platform file no monitor is rendered without the labels that the
\* Prometheus operator selects it by.
MonitorsLabelled ==
    \A p \in DOMAIN proc : Renders(p) /\ proc[p].resolved.done =>
        LET values == ValuesOf(p) IN
        \A n \in DOMAIN values : values[n].monitor # Nil => DOMAIN values[n].monitor.labels # {}

\* Two components of an environment never get the same host, whichever
\* domains, subdomains and names it was put together from.
UniqueHosts ==
    \A p \in DOMAIN proc : Renders(p) =>
        LET values == ValuesOf(p)
            hosted == {n \in DOMAIN values : values[n].ingress # Nil}
        IN  \A m, n \in hosted : m # n => values[m].ingress.host # values[n].ingress.host

NoVariables(s) ==
    \A n \in DOMAIN s.components :
        LET x == s.components[n].expose IN x = Nil \/ Var \notin {x.sub, x.domain}

\* `validate <env>` resolves the spec as it is written, plan the one with
\* the defaults filled in: for the same platform file and a spec without
\* variables that is still on disk (plan reads it twice) both come to the
\* same verdict, with the same code. Left out is what validate does not
\* try: a plan that fails because there is no client, or because Load refuses
\* the spec. For that validate.go says that it validates the schema, but
\* runCrossFile parses and resolves only, and accepts specs that plan
\* refuses: CheckedSpecLoads says which.
ValidateAgreesWithDeploy ==
    \A v, d \in DOMAIN proc :
        /\ proc[v].cmd = "validate" /\ proc[d].cmd \in {"plan", "planOffline"}
        /\ Ended(v) /\ proc[d].pc \notin {"platform", "prepare"}
        /\ proc[v].env = proc[d].env /\ proc[v].used = proc[d].used
        /\ proc[v].raw = proc[d].raw /\ proc[v].raw # Nil /\ proc[v].raw = ParseManifest(spec)
        /\ NoVariables(proc[v].raw) /\ proc[d].code \notin {"LOAD", "CLIENT"}
        => proc[v].code = proc[d].code

\* A spec without variables that `validate` alone finds nothing wrong with
\* does not stop later, in an environment the platform file lists, because a
\* domain, a profile or the environment is missing there.
CheckForesees ==
    \A v, d \in DOMAIN proc :
        /\ proc[v].cmd = "check" /\ proc[v].pc = "done" /\ ~proc[v].warned
        /\ proc[d].cmd \in Preparers
        /\ proc[v].used = proc[d].used /\ proc[v].used # Nil
        /\ proc[v].raw = proc[d].raw /\ proc[v].raw = ParseManifest(spec)
        /\ NoVariables(proc[v].raw) /\ proc[d].env \in DOMAIN proc[v].used.envs
        => proc[d].code \notin {"DOMAIN_GAP", "PROFILE_NOT_FOUND", "PLATFORM_ENV_NOT_FOUND"}


\* Two instances of an environment (review/pr-1 and review/pr-2, or review
\* itself) do not come to share a host unnoticed: one of the two reports
\* says so, unless the file allows it, the host is the bare domain or a
\* variable was meant to tell them apart.
SharedHostsReported ==
    \A p, q \in DOMAIN proc :
        /\ proc[p].resolved.done /\ proc[q].resolved.done
        /\ proc[p].plat = proc[q].plat /\ proc[p].plat # Nil
        /\ proc[p].env # proc[q].env
        /\ MatchedKey(proc[p].env, DOMAIN proc[p].plat.envs)
              = MatchedKey(proc[q].env, DOMAIN proc[q].plat.envs)
        => \A n \in DOMAIN proc[p].resolved.components \cap DOMAIN proc[q].resolved.components :
              LET a == proc[p].resolved.components[n]
                  b == proc[q].resolved.components[n]
              IN  \/ a.host # b.host \/ a.host = <<>>
                  \/ a.warned \/ b.warned
                  \/ platformEnvOf(proc[p].plat, proc[p].env).static
                  \/ \E k \in {a.key, b.key} :
                        a.host = platformEnvOf(proc[p].plat, proc[p].env).domains[k].base
                  \/ n \in dynamicsOf(p) \cup dynamicsOf(q)

-----------------------------------------------------------------------------
\* Where a command goes is settled by what it has checked. With --context,
\* or with a context in the platform file its checks were made with, every
\* client it builds is for that context, whatever happens to the file and
\* to the kubeconfig in the meantime. (Inside a pod two of the three
\* clients are for the pod's own cluster.)
RightCluster ==
    \A p \in DOMAIN proc :
        LET pe == platformEnvOf(proc[p].used, proc[p].env)
            meant == IF input.flag # Unset THEN input.flag ELSE IF pe = Nil THEN Unset ELSE pe.ctx
        IN  meant # Unset /\ ~input.inCluster => ToSet(proc[p].clients) \subseteq {meant, Nil}

\* The answers that leave an empty resources block: a CPU of 0m and nothing
\* else. init accepts them, for it validates the completed clone, and saves
\* a file that Load refuses.
EmptyResources(s) ==
    \E n \in DOMAIN s.components :
        ~ResourcesSet(s.components[n]) /\ ResourcesPresent(s.components[n])

\* What init saves is not what it validated: the file is sparse. It loads
\* all the same, to what the answers mean with the defaults filled in.
SavedSpecLoads ==
    \A p \in DOMAIN proc : proc[p].cmd = "init" /\ proc[p].raw # Nil =>
        LET answered == collectComponents(input.answers, input.names)
        IN  EmptyResources(answered) \/
            \A e \in input.names :
                Load(proc[p].raw, e, Nil, input.files, input.os) = FillSpecWithDefaults(answered)

\* What the wizard does not look at: a subdomain (or name) that is no label
\* in DNS, and two components that are to get the same one.
BadHosts(s) ==
    LET exposed == {n \in DOMAIN s.components : s.components[n].expose # Nil}
        label(n) == subdomainOf(n, s.components[n])
    IN  \/ \E n \in exposed : label(n) \in BadLabels
        \/ \E m, n \in exposed : m # n /\ label(m) = label(n)

\* After init in an empty directory every environment that was asked for
\* resolves, except where init has warned that a domain is missing, where
\* the user named a domain of his own or hosts that cannot be, or where
\* metrics need labels only the platform team can choose.
InitThenResolve ==
    \A p \in DOMAIN proc :
        LET s == proc[p].raw
            cfg == writePlatformFile(newPlatformEnvironments(input.names)).cfg
            ownDomain == \E n \in DOMAIN s.components :
                            LET x == s.components[n].expose
                            IN  x # Nil /\ x.domain \notin {Unset, "public"}
            metrics == \E n \in DOMAIN s.components : s.components[n].metrics # Nil
        IN  /\ proc[p].cmd = "init" /\ proc[p].pc = "done" /\ proc[p].seen = Nil
            /\ ~EmptyResources(s) /\ ~BadHosts(s) /\ ~ownDomain /\ ~metrics
            => \A e \in input.names \ warnExposeWithoutDomains(s, input.names, cfg) :
                  Resolve(Load(s, e, cfg, input.files, input.os), cfg, e, {}).code = NoCode

\* init and cluster up never change or drop an entry or a profile of the
\* platform file that they found when they looked at it.
EntriesKept ==
    [][\A p \in DOMAIN proc :
          proc[p].pc = "write" /\ proc'[p].pc = "done" /\ proc[p].seen = file /\ file # Nil =>
             /\ file'.cfg.profiles = file.cfg.profiles
             /\ \A e \in DOMAIN file.cfg.envs :
                   e \in DOMAIN file'.cfg.envs /\ file'.cfg.envs[e] = file.cfg.envs[e]]_vars

\* A platform file that loads still loads after init has added environments
\* to it, as long as all of its profiles list allowedDomains (a list left
\* out is written back as null, which the schema refuses).
RewriteLoads ==
    [][\A p \in DOMAIN proc :
          /\ proc[p].pc = "write" /\ proc'[p].pc = "done"
          /\ proc[p].seen = Nil
             \/ /\ LoadPlatform(proc[p].seen)
                /\ \A n \in Keys(proc[p].seen.cfg.profiles) :
                      proc[p].seen.cfg.profiles[n].allowed # Nil
          /\ file' # file
          => LoadPlatform(file')]_vars

-----------------------------------------------------------------------------
\* A chart that is rendered is consistent in itself: its ports, its probes,
\* its scaling and its monitors.
ChartSound ==
    TypeOK /\ NamedPortsExist /\ RestartWindowKept /\ OneScaler /\ MonitorsLabelled

\* Components, and instances of an environment, keep off each other's hosts.
HostsApart == UniqueHosts /\ SharedHostsReported

\* What the two forms of validate say of a spec without variables is what
\* plan, and in part deploy and run, do with it once Load accepts it. (When
\* it does not: CheckedSpecLoads.)
VerdictsAgree == ValidateAgreesWithDeploy /\ CheckForesees

\* What init has saved is what the user has asked for, and can be used.
InitRoundTrip == SavedSpecLoads /\ InitThenResolve

\* The platform file survives the commands that write it.
PlatformFileKept == EntriesKept /\ RewriteLoads
=============================================================================
