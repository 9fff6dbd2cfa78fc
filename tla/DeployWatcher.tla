----------------------------- MODULE DeployWatcher -----------------------------
(***************************************************************************)
(* What applyDeploy shows while Helm works: the watcher goroutine          *)
(* (DeployWatcher.Run), the goroutine that feeds it events over a bounded  *)
(* channel (k8s.WatchDeployEvents), readiness.Poll, and the report once    *)
(* Helm has returned, the context is canceled and Run has ended.           *)
(***************************************************************************)
EXTENDS Naturals, Sequences, FiniteSets

CONSTANTS
    Pods,       \* pods of the release
    Component,  \* the component a pod counts for
    Uids,       \* UIDs of its Warning events
    MaxCount,   \* bound on the count of one event
    Capacity    \* of the event channel, 32 in the code

ASSUME WatcherAssumption ==
    /\ DOMAIN Component = Pods
    /\ MaxCount \in Nat /\ Capacity \in Nat \ {0}

VARIABLES
    helm,       \* InstallApp
    ctx,        \* the watch context is canceled
    pods,       \* the pods in the cluster
    count,      \* the count of each Warning event in the cluster
    pump,       \* WatchDeployEvents' goroutine, and the event it holds
    ch,         \* the channel
    runner,     \* where DeployWatcher.Run is
    warnings,   \* Warning events by first appearance
    summary,    \* readiness per component, empty before the first poll
    pollStale,  \* the last poll failed
    completion, \* what the status view ends with
    report      \* what the command printed

cluster == <<pods, count>>
watch == <<pump, ch>>
view == <<warnings, summary, pollStale, completion>>
vars == <<helm, ctx, pods, count, pump, ch, runner, warnings, summary, pollStale,
          completion, report>>

Event == [uid : Uids, n : 1 .. MaxCount]

\* readiness.Poll: ready and all pods of every component that has any.
Polled == [c \in {Component[p] : p \in {q \in Pods : pods[q] # "absent"}} |->
              [ready |-> {p \in Pods : Component[p] = c /\ pods[p] = "ready"},
               total |-> {p \in Pods : Component[p] = c /\ pods[p] # "absent"}]]

\* readiness.AllReady: no data is not the same as ready.
AllReady(s) == DOMAIN s # {} /\ \A c \in DOMAIN s : s[c].ready = s[c].total

TypeOK ==
    /\ helm \in {"running", "ok", "failed"}
    /\ ctx \in BOOLEAN
    /\ pods \in [Pods -> {"absent", "waiting", "ready"}]
    /\ count \in [Uids -> 0 .. MaxCount]
    /\ pump \in [st : {"off", "recv", "stopped"}] \cup [st : {"send"}, ev : Event]
    /\ ch \in Seq(Event) /\ Len(ch) <= Capacity
    /\ runner \in {"start", "loop", "poll", "closed", "noWatch", "final", "select",
                   "returned"}
    /\ warnings \in Seq(Event)
    /\ \A c \in DOMAIN summary : summary[c].ready \subseteq summary[c].total
    /\ pollStale \in BOOLEAN
    /\ completion \in {"none", "warning"}
    /\ report \in {"none", "deployed", "failed"}

Init ==
    /\ helm = "running" /\ ctx = FALSE
    /\ pods \in [Pods -> {"absent", "ready"}]    \* an install or an upgrade
    /\ count = [u \in Uids |-> 0]
    /\ pump = [st |-> "off"] /\ ch = <<>>
    /\ runner = "start"
    /\ warnings = <<>> /\ summary = <<>> /\ pollStale = FALSE
    /\ completion = "none" /\ report = "none"

-----------------------------------------------------------------------------
(* The cluster and Helm (external).                                        *)

PodChanges(p, s) ==
    /\ pods' = [pods EXCEPT ![p] = s]
    /\ UNCHANGED <<helm, ctx, count, watch, runner, view, report>>

\* InstallApp returns and applyDeploy cancels the watch.
HelmReturns ==
    /\ helm = "running"
    /\ helm' \in {"ok", "failed"}
    /\ ctx' = TRUE
    /\ UNCHANGED <<cluster, watch, runner, view, report>>

\* Ctrl-C reaches Helm and the watch at once.
Interrupt ==
    /\ helm = "running" /\ ~ ctx
    /\ ctx' = TRUE
    /\ UNCHANGED <<helm, cluster, watch, runner, view, report>>

-----------------------------------------------------------------------------
(* WatchDeployEvents. Events of other objects are skipped.                 *)

\* A Warning event occurs, or occurs again, and the watch delivers it.
Receive(u) ==
    /\ pump.st = "recv" /\ count[u] < MaxCount
    /\ count' = [count EXCEPT ![u] = @ + 1]
    /\ pump' = [st |-> "send", ev |-> [uid |-> u, n |-> count[u] + 1]]
    /\ UNCHANGED <<helm, ctx, pods, ch, runner, view, report>>

\* Mutant: the channel has no limit.
MutSend ==
    /\ pump.st = "send"
    /\ ch' = Append(ch, pump.ev)
    /\ pump' = [st |-> "recv"]
    /\ UNCHANGED <<helm, ctx, cluster, runner, view, report>>

\* Mutant: an event is dropped when the channel is full.
MutDroppingSend ==
    /\ pump.st = "send"
    /\ ch' = IF Len(ch) < Capacity THEN Append(ch, pump.ev) ELSE ch
    /\ pump' = [st |-> "recv"]
    /\ UNCHANGED <<helm, ctx, cluster, runner, view, report>>

Send ==
    /\ pump.st = "send" /\ Len(ch) < Capacity
    /\ ch' = Append(ch, pump.ev)
    /\ pump' = [st |-> "recv"]
    /\ UNCHANGED <<helm, ctx, cluster, runner, view, report>>

\* Mutant: a blocked send does not notice the cancellation.
MutPumpStops ==
    /\ pump.st = "recv" /\ ctx
    /\ pump' = [st |-> "stopped"]
    /\ UNCHANGED <<helm, ctx, cluster, ch, runner, view, report>>

\* The context is canceled, whether the goroutine receives or is blocked on a
\* full channel.
PumpStops ==
    /\ pump.st \in {"recv", "send"} /\ ctx
    /\ pump' = [st |-> "stopped"]
    /\ UNCHANGED <<helm, ctx, cluster, ch, runner, view, report>>

\* The retry watcher gives up (its resource version has expired) and closes its
\* channel.
WatchLost ==
    /\ pump.st = "recv"
    /\ pump' = [st |-> "stopped"]
    /\ UNCHANGED <<helm, ctx, cluster, ch, runner, view, report>>

-----------------------------------------------------------------------------
(* DeployWatcher.Run.                                                      *)

\* Without a watch (the list failed) Run only waits for the cancellation.
RunStart ==
    /\ runner = "start"
    /\ \/ runner' = "loop" /\ pump' = [st |-> "recv"]
       \/ runner' = "noWatch" /\ UNCHANGED pump
    /\ UNCHANGED <<helm, ctx, cluster, ch, view, report>>

NoWatchReturns ==
    /\ runner = "noWatch" /\ ctx
    /\ runner' = "returned"
    /\ UNCHANGED <<helm, ctx, cluster, watch, view, report>>

\* Mutant: every occurrence is a warning of its own.
MutTrackWarning(ev) == Append(warnings, ev)

\* An event that occurred before replaces its entry.
trackWarning(ev) ==
    IF \E i \in DOMAIN warnings : warnings[i].uid = ev.uid
    THEN [i \in DOMAIN warnings |-> IF warnings[i].uid = ev.uid THEN ev ELSE warnings[i]]
    ELSE Append(warnings, ev)

TakeEvent ==
    /\ runner = "loop" /\ ch # <<>>
    /\ ch' = Tail(ch)
    /\ warnings' = trackWarning(Head(ch))
    /\ runner' = "poll"
    /\ UNCHANGED <<helm, ctx, cluster, pump, summary, pollStale, completion, report>>

\* The channel is closed and empty: nothing is left but to wait.
ChannelClosed ==
    /\ runner = "loop" /\ ch = <<>> /\ pump.st = "stopped"
    /\ runner' = "closed"
    /\ UNCHANGED <<helm, ctx, cluster, watch, view, report>>

Tick ==
    /\ runner = "loop"
    /\ runner' = "poll"
    /\ UNCHANGED <<helm, ctx, cluster, watch, view, report>>

\* The select may take the cancellation before events that are waiting.
Canceled ==
    /\ runner \in {"loop", "closed"} /\ ctx
    /\ runner' = "final"
    /\ UNCHANGED <<helm, ctx, cluster, watch, view, report>>

\* Mutant: a failed poll forgets what was known.
MutRefresh(canceled) ==
    \/ summary' = Polled /\ pollStale' = FALSE
    \/ summary' = <<>> /\ pollStale' = FALSE
    \/ canceled /\ UNCHANGED <<summary, pollStale>>

\* refreshPodStatus: a failed poll keeps the summary, one that was canceled
\* changes nothing.
refreshPodStatus(canceled) ==
    \/ summary' = Polled /\ pollStale' = FALSE
    \/ summary' = summary /\ pollStale' = TRUE
    \/ canceled /\ UNCHANGED <<summary, pollStale>>

PollAndShow ==
    /\ runner = "poll"
    /\ refreshPodStatus(ctx)
    /\ runner' = "loop"
    /\ UNCHANGED <<helm, ctx, cluster, watch, warnings, completion, report>>

\* finalRefresh polls under a context that is not canceled.
FinalPoll ==
    /\ runner = "final"
    /\ refreshPodStatus(FALSE)
    /\ runner' = IF AllReady(summary') THEN "returned" ELSE "select"
    /\ UNCHANGED <<helm, ctx, cluster, watch, warnings, completion, report>>

FinalTick ==
    /\ runner = "select"
    /\ runner' = "final"
    /\ UNCHANGED <<helm, ctx, cluster, watch, view, report>>

\* Mutant: the timeout is not marked.
MutFinalDeadline ==
    /\ runner = "select"
    /\ runner' = "returned"
    /\ UNCHANGED <<helm, ctx, cluster, watch, view, report>>

\* finalRefreshTimeout has passed.
FinalDeadline ==
    /\ runner = "select"
    /\ completion' = "warning"
    /\ runner' = "returned"
    /\ UNCHANGED <<helm, ctx, cluster, watch, warnings, summary, pollStale, report>>

\* Mutant: the command does not wait for Run.
MutReport ==
    /\ helm # "running" /\ report = "none"
    /\ report' = IF helm = "ok" THEN "deployed" ELSE "failed"
    /\ UNCHANGED <<helm, ctx, cluster, watch, runner, view>>

\* applyDeploy after wg.Wait: the warnings of a failed deploy, or the summary.
Report ==
    /\ helm # "running" /\ runner = "returned" /\ report = "none"
    /\ report' = IF helm = "ok" THEN "deployed" ELSE "failed"
    /\ UNCHANGED <<helm, ctx, cluster, watch, runner, view>>

-----------------------------------------------------------------------------
Watcher ==
    \/ RunStart \/ NoWatchReturns \/ TakeEvent \/ ChannelClosed \/ Tick \/ Canceled
    \/ PollAndShow \/ FinalPoll \/ FinalTick

Next ==
    \/ \E p \in Pods, s \in {"absent", "waiting", "ready"} : PodChanges(p, s)
    \/ HelmReturns \/ Interrupt
    \/ (\E u \in Uids : Receive(u)) \/ Send \/ PumpStops \/ WatchLost
    \/ Watcher \/ FinalDeadline \/ Report

Spec == Init /\ [][Next]_vars

\* The goroutines are scheduled, the deadline of finalRefresh passes, and Go's
\* select takes a case that stays ready at some point.
FairSpec ==
    /\ Spec
    /\ WF_vars(Watcher) /\ SF_vars(Canceled) /\ SF_vars(FinalDeadline)
    /\ WF_vars(PumpStops) /\ WF_vars(Report)

-----------------------------------------------------------------------------
(* Properties.                                                             *)

\* The latest occurrence of a warning is in the list, in the channel or in the
\* hands of the event goroutine, however slowly the channel is read. After the
\* cancellation the goroutine may lose the one it holds, and no more than that,
\* on the way into the channel; what is in the channel by then is not shown
\* either, since Run reads it no more.
WarningsOnTheWay ==
    LET known == {ch[i] : i \in DOMAIN ch} \cup {warnings[i] : i \in DOMAIN warnings}
                 \cup (IF pump.st = "send" THEN {pump.ev} ELSE {})
        missed == {u \in Uids : count[u] > 0 /\ [uid |-> u, n |-> count[u]] \notin known}
    IN  TypeOK /\ IF ctx THEN Cardinality(missed) <= 1 ELSE missed = {}

\* A warning stays in its place and only ever moves on to a later occurrence
\* of the same event, and there is one entry per event (trackWarning over the
\* channel).
WarningsMoveOn == [][
    /\ \A i \in DOMAIN warnings :
          /\ i \in DOMAIN warnings' /\ warnings'[i].uid = warnings[i].uid
          /\ warnings'[i].n >= warnings[i].n
    /\ \A i, j \in DOMAIN warnings' :
          warnings'[i].uid = warnings'[j].uid => i = j]_vars

\* What the command reports does not change any more: Warnings and Summary are
\* read only after Run has returned.
ReportIsFinal == [][report # "none" => UNCHANGED view]_vars

\* A deploy whose status view ends without a warning, and that had a summary to
\* show, showed every pod it knew of ready.
QuietMeansReady ==
    report = "deployed" /\ completion = "none" /\ DOMAIN summary # {}
        => AllReady(summary)

\* A poll that fails never loses the last known status: the summary is only
\* empty again when no pod was left to see.
SummaryKept == [][DOMAIN summary # {} /\ DOMAIN summary' = {} =>
                     \A p \in Pods : pods[p] = "absent"]_vars

\* Once the watch is canceled Run returns and the event goroutine stops, also
\* when it is blocked on a full channel nobody reads any more.
WatchEnds == ctx ~> runner = "returned" /\ pump.st \in {"off", "stopped"}

\* What the view shows only ever moves on, and stands still once it is reported.
ViewMovesOn == WarningsMoveOn /\ SummaryKept /\ ReportIsFinal
=============================================================================
