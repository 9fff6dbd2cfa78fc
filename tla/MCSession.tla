------------------------------- MODULE MCSession -------------------------------
(***************************************************************************)
(* Inputs of Session for TLC, in slices: each varies the fields that are   *)
(* read together and leaves the others at a fixed value.                   *)
(***************************************************************************)
EXTENDS Session

MCNames == {"local", "staging", "prod", "r", "r/1", "r/2"}
MCPrefix == [e \in MCNames |-> IF e \in {"r/1", "r/2"} THEN "r" ELSE e]
MCSanitized == [e \in MCNames |-> ".env." \o (CASE e = "r/1" -> "r1" [] e = "r/2" -> "r2" [] OTHER -> e)]
MCSorted == <<"api", "job", "web">>

-----------------------------------------------------------------------------
Web == [BlankComponent EXCEPT !.role = "service"]
Job == [from |-> "web", on |-> "preDeploy", envs |-> {}, profiles |-> Nil, cpu |-> Nil,
        mem |-> Nil, eph |-> Nil, preset |-> "", timeout |-> 0, wellFormed |-> TRUE]

Domain(base) == [base |-> base, default |-> FALSE, tls |-> Nil]
Public == "public" :> Domain(<<"ex">>)
Entry(ctx, domains) == [EmptyEntry EXCEPT !.ctx = ctx, !.domains = domains]
Labelled == "default" :> [NoProfile EXCEPT !.labels = "release" :> "prom", !.allowed = {"public"}]
Config(profiles, envs) == [profiles |-> profiles, envs |-> envs]
OnDisk(cfg) == [cfg |-> cfg, nulls |-> {}]
OneEnv == OnDisk(Config(Labelled, "prod" :> Entry("kind-prod", Public)))

Base == [spec |-> [components |-> "web" :> Web, tasks |-> <<>>, envs |-> <<>>],
         file |-> OneEnv, kctx |-> "other", explicit |-> FALSE, flag |-> "",
         inCluster |-> FALSE, flaky |-> FALSE, os |-> Nil, files |-> <<>>,
         limit |-> 600, task |-> "job", detach |-> FALSE,
         answers |-> <<>>, names |-> {}, versions |-> {}, contexts |-> {"kind-prod", "other"},
         edits |-> 0, switches |-> 0,
         cmd |-> <<"validate", "plan">>, env |-> <<"prod", "prod">>]

With(cs) == {[Base EXCEPT !.spec.components = "web" :> c] : c \in cs}

-----------------------------------------------------------------------------
\* Replicas, autoscaling and disks.
Scalers == {Nil} \cup {[on |-> on, min |-> m[1], max |-> m[2], targets |-> t] :
                         on \in BOOLEAN, m \in {<<1, 3>>, <<3, 1>>}, t \in {{}, {"memory"}}}
Scaling ==
    With({[Web EXCEPT !.kind = k, !.replicas = n, !.hpa = a, !.disk = d] :
            k \in {"", "stateful"}, n \in {Nil, 1, 3}, a \in Scalers, d \in {Nil, [class |-> ""]}})

\* Roles, ports, probes and metrics.
Metrics == {Nil} \cup {[off |-> o, enabled |-> e, port |-> n] :
                         o \in {FALSE}, e \in {Nil, FALSE}, n \in {0, 8080, 9090}}
Alives == {Nil, [BlankAlive EXCEPT !.off = TRUE], BlankAlive, [BlankAlive EXCEPT !.exec = TRUE],
           [BlankAlive EXCEPT !.path = "/up"]}
Network ==
    With({[BlankComponent EXCEPT !.role = r, !.kind = k, !.port = n, !.metrics = m,
                                 !.ready = y, !.alive = a, !.expose = x] :
            r \in {"", "worker"}, k \in {"", "stateful"}, n \in {0, 9090}, m \in Metrics,
            y \in {Nil, [off |-> TRUE]}, a \in Alives, x \in {Nil, BlankExpose}})

\* Liveness windows that the interval divides, and that it does not, up to
\* MaxInt32 (63 here) and beyond.
Windows ==
    With({[Web EXCEPT !.alive = [BlankAlive EXCEPT !.interval = i, !.restart = t]] :
            i \in {0, 1, 3, 7, 10, 64}, t \in {0, 7, 10, 20, 63, 64, 200}})

\* Components and tasks that break a rule of their own.
Malformed ==
    With({[Web EXCEPT !.wellFormed = w, !.eph = q, !.preset = r] :
            w \in BOOLEAN, q \in {Nil, 0, 100}, r \in {"", "nano"}})
    \cup {[Base EXCEPT !.cmd = <<"check", c>>, !.spec.envs = "prod" :> [envFile |-> f, var |-> Nil],
                       !.spec.tasks = "job" :> [Job EXCEPT !.wellFormed = w, !.eph = q]] :
            c \in Preparers, w \in BOOLEAN, q \in {Nil, 0, 100}, f \in {"", "gone"}}

\* Profiles, their ceilings and their domains, for a component and its task.
ProfileA == [NoProfile EXCEPT !.allowed = {"public"}, !.maxCpu = 500, !.nodeSelector = "pool" :> "a"]
ProfileB == [NoProfile EXCEPT !.maxCpu = 250, !.maxMem = 512, !.allowed = {"public", "private"},
                                !.nodeSelector = "pool" :> "b"]
ProfileSets == {Nil, "a" :> ProfileA, ("a" :> ProfileA) @@ ("b" :> ProfileB),
                ("a" :> ProfileA) @@ ("default" :> [ProfileB EXCEPT !.labels = "x" :> "y"])}
Two == Public @@ ("private" :> Domain(<<"in", "ex">>))
Profiled ==
    {[Base EXCEPT
        !.cmd = <<c, "plan">>,
        !.file = OnDisk(Config(ps, "prod" :> [Entry("", d[1]) EXCEPT !.classes = k[1]])),
        !.spec.components = "web" :> [Web EXCEPT !.profiles = n, !.preset = r[1], !.cpu = r[2],
                                        !.expose = [BlankExpose EXCEPT !.domain = d[2]],
                                        !.disk = [class |-> k[2]]],
        !.spec.tasks = "job" :> [Job EXCEPT !.profiles = t]] :
      c \in {"validate", "check"}, ps \in ProfileSets,
      d \in {<<Public, "">>, <<Public, "private">>, <<Two, "">>, <<Two, "private">>, <<Two, "public">>},
      k \in {<<Nil, "fast">>, <<"fast" :> "ssd", "fast">>},
      n \in {Nil, <<>>, <<"a">>, <<"a", "b">>, <<"default", "a">>},
      r \in {<<"", Nil>>, <<"nano", Nil>>, <<"large", Nil>>, <<"", 250>>}, t \in {Nil, <<"b">>}}

\* Metrics where no profile gives the monitor its labels.
Unlabelled ==
    {[Base EXCEPT !.file = OnDisk(Config(ps, "prod" :> Entry("", Nil))),
                  !.spec.components = "web" :> [Web EXCEPT !.metrics = m]] :
      ps \in {Nil, "default" :> NoProfile, "default" :> [NoProfile EXCEPT !.labels = "x" :> "y"]},
      m \in Metrics}

\* Hosts of two components in instances of one environment. The bare
\* private domain is the host "in" of the public one.
Exposes == {Nil, BlankExpose, [BlankExpose EXCEPT !.domain = "public", !.sub = "in"],
            [BlankExpose EXCEPT !.domain = "private", !.apex = TRUE],
            [BlankExpose EXCEPT !.domain = "public", !.sub = Var],
            [BlankExpose EXCEPT !.domain = "public", !.sub = "_x"]}
Review(static) == [Entry("kind-r", [Two EXCEPT !["public"].default = TRUE]) EXCEPT !.static = static]
Hosts ==
    {[Base EXCEPT
        !.cmd = c, !.env = e, !.os = v,
        !.file = OnDisk(Config(Nil, ("r" :> Review(t)) @@ ("prod" :> Entry("", Public)))),
        !.spec.components = ("web" :> [Web EXCEPT !.expose = x])
                            @@ ("api" :> [Web EXCEPT !.expose = y, !.envs = z])] :
      c \in {<<"validate", "plan">>, <<"check", "plan">>, <<"resolve", "plan">>},
      e \in {<<"r/1", "r/2">>, <<"r", "r/1">>, <<"prod", "prod">>},
      v \in {Nil, "in"}, t \in BOOLEAN, x \in Exposes, y \in Exposes, z \in {{}, {"r"}}}

\* Where the value of a variable comes from.
Variables ==
    {[Base EXCEPT
        !.cmd = <<"deploy">>, !.env = <<"r/1">>, !.os = v, !.files = f, !.file = p,
        !.spec.envs = o, !.spec.tasks = "job" :> [Job EXCEPT !.timeout = t],
        !.spec.components = "web" :> [Web EXCEPT !.expose = [BlankExpose EXCEPT !.sub = Var]]] :
      v \in {Nil, "o"},
      f \in {<<>>, ".env.r" :> "f", ("x" :> "g") @@ (".env" :> Nil),
             (".deployah/.env.r" :> "h") @@ (".env" :> Nil), ".deployah/.env" :> "i"},
      p \in {Nil} \cup {OnDisk(Config(Nil, k :> Entry("", Public))) : k \in {"r", "r/1", "prod"}},
      o \in {<<>>, "r" :> [envFile |-> "", var |-> "v"], "r/1" :> [envFile |-> "x", var |-> Nil]},
      t \in {0, 700}}

-----------------------------------------------------------------------------
\* Every command while the file is edited and the context is switched.
SelfSigned == "public" :> [Domain(<<"ex">>) EXCEPT !.tls = "selfSigned"]
Versions == {OnDisk(Config(Labelled, ("r" :> Entry(c, d)) @@ ("prod" :> Entry("", d)))) :
               c \in {"kind-r", "other"}, d \in {SelfSigned}}
            \cup {OnDisk(Config("a" :> [NoProfile EXCEPT !.allowed = {"gone"}], "r" :> Entry("", Public)))}
Flags == {Base, [Base EXCEPT !.flag = "kind-r"], [Base EXCEPT !.inCluster = TRUE],
          [Base EXCEPT !.explicit = TRUE], [Base EXCEPT !.flaky = TRUE]}
Everything ==
    {[b EXCEPT !.cmd = <<c>>, !.env = <<e>>, !.file = f, !.versions = Versions,
               !.spec.components = "web" :> [Web EXCEPT !.expose = x],
               !.spec.tasks = "job" :> Job, !.edits = 1, !.switches = 1, !.detach = b.flaky,
               !.contexts = {"kind-r", "other"}] :
      b \in Flags, c \in Commands \ Writers, e \in {"r/1", "prod"}, f \in {Nil} \cup Versions,
      x \in {Nil, BlankExpose}}

-----------------------------------------------------------------------------
\* The wizard: with the essentials only, and with the advanced questions.
Plain == [role |-> "service", port |-> 8080, preset |-> "small", cpu |-> Nil, mem |-> Nil, eph |-> Nil,
          expose |-> TRUE, advanced |-> FALSE, kind |-> "stateless", volume |-> FALSE,
          replicas |-> 1, domain |-> "", sub |-> Nil, metricsPort |-> 0, scale |-> Nil,
          path |-> "", exec |-> FALSE, envs |-> {}]
NameSets == {{"local"}, {"staging"}, {"local", "staging"}}
Wizard(answers, names) ==
    [Base EXCEPT !.cmd = <<"init">>, !.env = <<"prod">>, !.file = Nil, !.names = names,
                 !.answers = "web" :> answers]
Essentials ==
    {Wizard([Plain EXCEPT !.role = r, !.port = n, !.preset = u[1], !.cpu = u[2], !.expose = x], names) :
      r \in {"service", "worker"}, n \in {8080, 9090}, x \in BOOLEAN, names \in NameSets,
      u \in {<<"small", Nil>>, <<"large", Nil>>, <<"custom", Nil>>, <<"custom", 0>>, <<"custom", 250>>}}
Advanced ==
    {Wizard([Plain EXCEPT !.advanced = TRUE, !.role = r, !.kind = k, !.volume = n = 3, !.replicas = n,
                          !.domain = d, !.metricsPort = m, !.scale = a, !.path = h,
                          !.exec = h # "", !.envs = e], names) :
      r \in {"service", "worker"}, k \in {"stateless", "stateful"}, n \in {1, 3},
      d \in {"", "public", "own"}, m \in {0, 9090}, h \in {"", "/up"},
      a \in {Nil, [min |-> 1, max |-> 3], [min |-> 3, max |-> 1]},
      e \in {{"staging"}, {"local", "staging"}, {}}, names \in NameSets}

\* Hosts of two components.
Named ==
    {[Wizard(Plain, {"local", "staging"}) EXCEPT
        !.answers = [n \in {"web", "api"} |->
                        [Plain EXCEPT !.advanced = TRUE, !.envs = e, !.domain = IF n = "web" THEN d ELSE "",
                                      !.sub = IF n = "web" THEN u ELSE v, !.expose = n = "web" \/ x]]] :
      d \in {"", "public", Var}, u \in {Nil, "api", "in", "_x", Var}, v \in {Nil, "web", "in"},
      x \in BOOLEAN, e \in {{"local"}, {"local", "staging"}}}

\* Writers of the platform file and a deploy beside them.
NoDomains == OnDisk(Config("a" :> [NoProfile EXCEPT !.allowed = {}], "prod" :> Entry("", Nil)))
Files == {Nil, OneEnv, NoDomains, OnDisk(Config(Nil, "local" :> Entry("mine", Nil)))} \cup Versions
Writing ==
    {[Wizard(Plain, names) EXCEPT !.cmd = c, !.env = <<"prod", "local">>, !.file = f,
                                  !.versions = Files \ {Nil}, !.edits = 1] :
      c \in {<<"init", "up">>, <<"init", "deploy">>, <<"up", "deploy">>},
      names \in {{"local", "staging"}, {"prod", "staging"}}, f \in Files}

MCInputs == Scaling \cup Network \cup Windows \cup Malformed \cup Profiled \cup Unlabelled \cup Hosts \cup Variables
            \cup Everything \cup Essentials \cup Advanced \cup Named \cup Writing
=============================================================================
