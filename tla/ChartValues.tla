------------------------------- MODULE ChartValues -------------------------------
(***************************************************************************)
(* MapSpecToChartValues (internal/helm/generate.go): what a loaded and     *)
(* resolved component becomes in the values of its sub-chart. Images,      *)
(* commands, labels and annotations are left out. The deployah.resolved    *)
(* block is in WorkloadGuards, the task values are in HookRun.             *)
(***************************************************************************)
EXTENDS Resolution

CONSTANT MaxInt32   \* math.MaxInt32

ASSUME Int32Assumption == MaxInt32 \in Nat \ {0}

componentActiveInEnvironment(c, e) == activeIn(e, c.envs)

activeComponentNames(s, e) ==
    {n \in DOMAIN s.components : componentActiveInEnvironment(s.components[n], e)}

-----------------------------------------------------------------------------
metricsPortOf(c) == IF c.metrics.port = 0 THEN c.port ELSE c.metrics.port

\* A service has a port of its own for metrics, unless they are served on
\* the one it has.
ownMetricsPort(c) == MetricsEnabled(c.metrics) /\ metricsPortOf(c) # c.port

\* Container ports by name. A worker has none unless it is stateful (the
\* identity port) or has metrics.
containerPortNames(c) ==
    IF IsWorker(c)
    THEN {x \in {"identity", "metrics"} :
            IF x = "identity" THEN c.kind = "stateful"
            ELSE MetricsEnabled(c.metrics) /\ c.metrics.port > 0}
    ELSE {x \in {"http", "metrics"} : x = "metrics" => ownMetricsPort(c)}

containerPorts(c) ==
    [x \in containerPortNames(c) |->
        CASE x = "identity" -> 9 [] x = "http" -> c.port [] OTHER -> metricsPortOf(c)]

\* The ports of the Service (of the headless one for a worker); each has
\* the container port of its own name as target.
servicePortNames(c) ==
    IF IsWorker(c) THEN {x \in {"identity"} : c.kind = "stateful"}
    ELSE {x \in {"http", "metrics"} : x = "metrics" => ownMetricsPort(c)}

servicePorts(c) ==
    [x \in servicePortNames(c) |->
        CASE x = "identity" -> 9 [] x = "http" -> 80 [] OTHER -> metricsPortOf(c)]

monitorPort(c) ==
    IF IsWorker(c) THEN "metrics"
    ELSE IF c.metrics.port > 0 /\ c.metrics.port # c.port THEN "metrics" ELSE "http"

copyMonitorProfile(merged) == merged.labels

\* A PodMonitor for a worker, a ServiceMonitor otherwise.
applyMetricsValues(c, merged) ==
    IF ~MetricsEnabled(c.metrics) THEN Nil
    ELSE [pod |-> IsWorker(c), port |-> monitorPort(c), labels |-> copyMonitorProfile(merged)]

-----------------------------------------------------------------------------
hasExecAlive(c) == AliveOn(c) /\ c.alive.exec

\* The port a probe asks, Nil for a command.
probeHandler(exec) == IF exec THEN Nil ELSE "http"

\* A conversion wraps around.
int32(n) == ((n + MaxInt32 + 1) % (2 * (MaxInt32 + 1))) - (MaxInt32 + 1)

\* min(max(n, 1), math.MaxInt32).
clamped(n) == IF n < 1 THEN 1 ELSE IF n > MaxInt32 THEN MaxInt32 ELSE n

\* Mutant: rounds down.
MutFailureThreshold(restart, interval) == clamped(restart \div interval)

\* Rounded up, as far as the field can hold it.
failureThreshold(restart, interval) == clamped((restart + interval - 1) \div interval)

buildLivenessProbe(exec, interval, restart) ==
    LET i == orElse(interval, 0, DefaultLivenessInterval)
        r == orElse(restart, 0, DefaultLivenessRestartAfter)
    IN  [port |-> probeHandler(exec), period |-> int32(i),
         threshold |-> int32(failureThreshold(r, i))]

livenessOf(c) ==
    IF c.alive = Nil THEN buildLivenessProbe(FALSE, 0, 0)
    ELSE buildLivenessProbe(c.alive.exec, c.alive.interval, c.alive.restart)

buildStartupProbe == [port |-> probeHandler(FALSE), period |-> 5, threshold |-> 36]
buildReadinessProbe == [port |-> probeHandler(FALSE), period |-> 5, threshold |-> 3]

readyOff(c) == c.ready # Nil /\ c.ready.off
aliveOff(c) == c.alive # Nil /\ c.alive.off

\* Probes by name: a startup probe as long as one of the others is on.
probeNames(c) ==
    IF IsWorker(c) THEN {b \in {"liveness"} : hasExecAlive(c)}
    ELSE {b \in {"startup", "readiness", "liveness"} :
            CASE b = "startup" -> ~(readyOff(c) /\ aliveOff(c))
              [] b = "readiness" -> ~readyOff(c)
              [] OTHER -> ~aliveOff(c)}

buildProbeValues(c) ==
    [b \in probeNames(c) |->
        CASE b = "startup" -> buildStartupProbe
          [] b = "readiness" -> buildReadinessProbe
          [] OTHER -> livenessOf(c)]

-----------------------------------------------------------------------------
buildAutoscalingValues(a) == [min |-> a.min, max |-> a.max, targets |-> a.targets]

\* Retained unless the profile says otherwise.
retentionOf(merged) ==
    [deleted |-> orElse(merged.whenDeleted, Unset, "Retain"),
     scaled |-> orElse(merged.whenScaled, Unset, "Retain")]

persistenceValues(c, rc) ==
    [mode |-> IF c.kind = "stateful" THEN "ReadWriteOncePod" ELSE "ReadWriteOnce",
     class |-> rc.class,
     recreate |-> c.kind # "stateful",
     retention |-> IF c.kind = "stateful" THEN retentionOf(rc.merged) ELSE Nil]

ingressValues(rc) ==
    IF rc.host = <<>> THEN [host |-> <<>>, tls |-> FALSE]
    ELSE [host |-> rc.host, tls |-> rc.tls # Nil]

applyMergedProfile(merged) ==
    [nodeSelector |-> merged.nodeSelector, tolerations |-> merged.tolerations,
     security |-> merged.security]

requestsOf(c) ==
    [cpu |-> orElse(c.cpu, Nil, 0), mem |-> orElse(c.mem, Nil, 0), eph |-> orElse(c.eph, Nil, 0)]

probesOf(c) == IF IsService(c) \/ hasExecAlive(c) THEN buildProbeValues(c) ELSE <<>>

\* terminationGracePeriodSeconds.
applyShutdownTimeout(c) == c.shutdown

componentValues(c, rc) ==
    LET pod == applyMergedProfile(rc.merged)
    IN  [nodeSelector |-> pod.nodeSelector, tolerations |-> pod.tolerations,
         security |-> pod.security,
         workload |-> IF c.kind = "stateful" THEN "StatefulSet" ELSE "Deployment",
         requests |-> requestsOf(c),
         replicaCount |-> c.replicas,
         persistence |-> IF c.disk = Nil THEN Nil ELSE persistenceValues(c, rc),
         ingress |-> IF c.expose = Nil THEN Nil ELSE ingressValues(rc),
         autoscaling |-> IF Scales(c) THEN buildAutoscalingValues(c.hpa) ELSE Nil,
         ports |-> containerPorts(c),
         service |-> IsService(c),
         servicePorts |-> servicePorts(c),
         probes |-> probesOf(c),
         grace |-> applyShutdownTimeout(c),
         monitor |-> applyMetricsValues(c, rc.merged)]

\* A component that was not resolved: no host, no class, no profile.
ZeroResolved == [host |-> <<>>, tls |-> Nil, class |-> Unset, merged |-> NoProfile]

\* Nothing is resolved when the command had no platform file.
MapSpecToChartValues(s, e, resolved) ==
    [n \in activeComponentNames(s, e) |->
        componentValues(s.components[n],
            IF n \in DOMAIN resolved.components THEN resolved.components[n] ELSE ZeroResolved)]
=============================================================================
