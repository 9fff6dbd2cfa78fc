-------------------------------- MODULE Deploy --------------------------------
(***************************************************************************)
(* deployah deploy and deployah delete, run by any number of CLI processes *)
(* against one release of one cluster. Every action is one interaction     *)
(* with the cluster (or one answer of the user), so between any two of     *)
(* them another process may act or this one may die.                       *)
(*                                                                         *)
(*   render, plan       computePlan / BuildPlan                            *)
(*   hostGuard          checkHostnameGuard                                 *)
(*   workGuard          loadPreviousResolvedComponents .. skipWhenIdle     *)
(*   confirm            required-API checks, confirmApply                  *)
(*   verify, crds       applyDeploy: second render, applyBundleCRDs        *)
(*   patch, wait,       resizeVolumes                                      *)
(*   orphan                                                                *)
(*   installApp         helm.Client.InstallApp up to the Helm action       *)
(*   prepare .. failed  Helm's install, upgrade or rollback (external)     *)
(*   unmark .. purge    Helm's uninstall (external)                        *)
(*   delRead, delConfirm, delJobs     runDelete                            *)
(***************************************************************************)
EXTENDS ReleaseHistory

CONSTANTS
    Clis,       \* CLI processes
    Manifests,  \* manifests the users deploy
    FlagSets,   \* flag combinations, subsets of Flags
    Deleting,   \* whether deployah delete is run too
    LostReads,  \* whether a read of the history may fail as "not found"
    MaxRuns     \* bound on the number of runs started

\* --force-hostname-change, --resize-volumes, --reapply; "k8s": the
\* Kubernetes clientset could be built (k8sErr == nil).
Flags == {"force", "resize", "reapply", "k8s"}

ASSUME RunAssumption ==
    /\ Manifests \subseteq Manifest
    /\ FlagSets \subseteq SUBSET Flags
    /\ Deleting \in BOOLEAN
    /\ LostReads \in BOOLEAN
    /\ MaxRuns \in Nat

VARIABLES
    hist,   \* Helm's stored revisions
    live,   \* workload objects: what is fixed of their claims, or Absent
    pvc,    \* storage the claims of an object request (0: no claim)
    cap,    \* their capacity, the growth of the file system left aside
    crd,    \* the bundle's CRDs are Established
    jobs,   \* labelled Jobs are left in the namespace
    run,    \* the local state of each process
    out,    \* how the last run of each process ended
    runs    \* runs started

storage == <<live, pvc, cap>>
vars == <<hist, live, pvc, cap, crd, jobs, run, out, runs>>

Steps == {"idle", "render", "plan", "hostGuard", "workGuard", "confirm",
          "verify", "crds", "patch", "wait", "orphan", "installApp", "prepare",
          "create", "apply", "supersede", "commit", "failed", "unmark",
          "undelete", "purge", "delRead", "delConfirm", "delJobs"}

Ops == {"none", "deploy", "install", "upgrade", "rollback", "delete"}

Outcomes == {"none", "ok", "noop", "aborted", "error", "deleted", "deletedButJobs",
             "stsNotFound"}

Run == [pc : Steps,
        op : Ops,                      \* the command, then the Helm action
        man : Manifest,                \* manifest deployed, restored or removed
        flags : SUBSET Flags,
        changed : BOOLEAN,             \* plan.diff.HasChanges()
        resizes : SUBSET Components,   \* components whose volumes must grow
        left : SUBSET Components,      \* those the current loop has to reach
        rev : 0 .. MaxRev,             \* revision the Helm action writes
        cur : 0 .. MaxRev,             \* revision it replaces
        vers : SUBSET Revs]            \* revisions an uninstall has to purge

NoRun == [pc |-> "idle", op |-> "none", man |-> NoManifest, flags |-> {},
          changed |-> FALSE, resizes |-> {}, left |-> {}, rev |-> 0, cur |-> 0,
          vers |-> {}]

TypeOK ==
    /\ hist \in [Revs -> Rev]
    /\ live \in [Objs -> Object]
    /\ pvc \in [Objs -> Nat]
    /\ cap \in [Objs -> Nat]
    /\ crd \in BOOLEAN
    /\ jobs \in BOOLEAN
    /\ run \in [Clis -> Run]
    /\ out \in [Clis -> Outcomes]
    /\ runs \in Nat

Init ==
    /\ hist = [v \in Revs |-> NoRev]
    /\ live = [o \in Objs |-> Absent]
    /\ pvc = [o \in Objs |-> 0]
    /\ cap = [o \in Objs |-> 0]
    /\ crd = FALSE
    /\ jobs = FALSE
    /\ run = [p \in Clis |-> NoRun]
    /\ out = [p \in Clis |-> "none"]
    /\ runs = 0

-----------------------------------------------------------------------------
At(p, s) == run[p].pc = s

Goto(p, s) == /\ run' = [run EXCEPT ![p].pc = s]
              /\ UNCHANGED <<out, runs>>

\* The run of p ends with the given result and its local state is gone.
End(p, result) == /\ run' = [run EXCEPT ![p] = NoRun]
                  /\ out' = [out EXCEPT ![p] = result]
                  /\ UNCHANGED runs

\* Either p goes on to step s or, when ok is false, the run fails.
Check(p, ok, s) == IF ok THEN Goto(p, s) ELSE End(p, "error")

Start(p, m, f) ==
    /\ At(p, "idle") /\ runs < MaxRuns
    /\ run' = [run EXCEPT ![p] = [NoRun EXCEPT !.pc = "render", !.op = "deploy",
                                               !.man = m, !.flags = f]]
    /\ out' = [out EXCEPT ![p] = "none"]
    /\ runs' = runs + 1
    /\ UNCHANGED <<hist, storage, crd, jobs>>

NoHistory == [v \in Revs |-> NoRev]

\* A history that cannot be read is rendered as a first install.
Render(p) ==
    /\ At(p, "render")
    /\ \E h \in {hist, NoHistory} : Check(p, Renderable(h), "plan")
    /\ UNCHANGED <<hist, storage, crd, jobs>>

\* What the plan, the guards and delete may find in the history. wrapHelmError
\* takes every error that says "not found" for a missing release, and they take
\* that for an empty history; any other error ends the run (Fault).
Reads == {hist} \cup (IF LostReads THEN {NoHistory} ELSE {})

\* CRDs are outside the release: they never make the rendered diff non-empty.
Plan(p) ==
    /\ At(p, "plan")
    /\ \E h \in Reads :
          run' = [run EXCEPT ![p].pc = "hostGuard",
                             ![p].changed = \/ LastSuccessfulRelease(h) = 0
                                            \/ Base(h).comps # run[p].man.comps]
    /\ UNCHANGED <<hist, storage, crd, jobs, out, runs>>

\* Mutant: compares with the newest revision, successful or not.
MutHostnameGuard(p, h) ==
    LET last == newestRelease(h)
        prev == IF last = 0 THEN NoManifest ELSE h[last].man
    IN  HostnameChanges(prev, run[p].man) = {} \/ "force" \in run[p].flags

checkHostnameGuard(p, h) ==
    \/ HostnameChanges(Base(h), run[p].man) = {}
    \/ "force" \in run[p].flags

HostGuard(p) ==
    /\ At(p, "hostGuard")
    /\ \E h \in Reads : Check(p, checkHostnameGuard(p, h), "workGuard")
    /\ UNCHANGED <<hist, storage, crd, jobs>>

helmIdle(p) == ~ run[p].changed /\ "reapply" \notin run[p].flags

\* The workload guards, the growth they leave to --resize-volumes, and the
\* early exit of a run that has nothing to apply.
Guards(p, prev) ==
    LET grown == Resizes(prev, run[p].man) IN
    IF \/ WorkloadErrors(prev, run[p].man) # {}
       \/ grown # {} /\ "resize" \notin run[p].flags
    THEN End(p, "error")
    ELSE IF helmIdle(p) /\ ~ run[p].man.crds
    THEN End(p, "noop")
    ELSE /\ run' = [run EXCEPT ![p].pc = "confirm", ![p].resizes = grown]
         /\ UNCHANGED <<out, runs>>

WorkGuard(p) ==
    /\ At(p, "workGuard")
    /\ \E h \in Reads : Guards(p, Base(h))
    /\ UNCHANGED <<hist, storage, crd, jobs>>

Confirm(p) ==
    /\ At(p, "confirm")
    /\ \/ End(p, "aborted")
       \/ Goto(p, IF helmIdle(p) THEN "crds" ELSE "verify")
    /\ UNCHANGED <<hist, storage, crd, jobs>>

\* The second render must equal the plan's: the chart is a function of the
\* manifest, so only a render that now fails stops the run here.
Verify(p) ==
    /\ At(p, "verify")
    /\ \E h \in {hist, NoHistory} : Check(p, Renderable(h), "crds")
    /\ UNCHANGED <<hist, storage, crd, jobs>>

\* Mutant: the CRDs are applied only when there is nothing else to apply.
MutCrds(p) ==
    /\ At(p, "crds")
    /\ crd' = (crd \/ (run[p].man.crds /\ helmIdle(p)))
    /\ IF helmIdle(p) THEN End(p, "ok") ELSE Goto(p, "installApp")
    /\ UNCHANGED <<hist, storage, jobs>>

\* ApplyCRDs creates the missing CRDs and waits until all are Established; a
\* run with an idle Helm plan ends here (applyCRDsOnly). Growing volumes needs
\* the Kubernetes client.
Crds(p) ==
    /\ At(p, "crds")
    /\ crd' = (crd \/ run[p].man.crds)
    /\ IF helmIdle(p) THEN End(p, "ok")
       ELSE IF run[p].resizes = {} THEN Goto(p, "installApp")
       ELSE IF "k8s" \notin run[p].flags THEN End(p, "error")
       ELSE /\ run' = [run EXCEPT ![p].pc = "patch", ![p].left = run[p].resizes]
            /\ UNCHANGED <<out, runs>>
    /\ UNCHANGED <<hist, storage, jobs>>

-----------------------------------------------------------------------------
(* resizeVolumes: three loops over the components, in name order.          *)

First(S, c) == c \in S /\ \A d \in S : c <= d

\* The object whose claims component c mounts.
Mounting(p, c) == <<c, run[p].man.comps[c].kind>>

\* Mutant: the next loop opens after the first component.
MutAdvance(p, c, next, rest) ==
    /\ run' = [run EXCEPT ![p].left = rest, ![p].pc = next]
    /\ UNCHANGED <<out, runs>>

\* Component c is done in the loop at hand; the last one opens the next loop.
Advance(p, c, next, rest) ==
    LET last == run[p].left = {c}
    IN  /\ run' = [run EXCEPT ![p].left = IF last THEN rest ELSE run[p].left \ {c},
                              ![p].pc = IF last THEN next ELSE run[p].pc]
        /\ UNCHANGED <<out, runs>>

\* patchPVCSize leaves a claim alone that already requests as much.
Patch(p, c) ==
    LET o == Mounting(p, c)
        size == Quantity(run[p].man.comps[c].size)
    IN  /\ At(p, "patch") /\ First(run[p].left, c)
        /\ IF pvc[o] = 0
           THEN End(p, "error") /\ UNCHANGED pvc
           ELSE /\ pvc' = [pvc EXCEPT ![o] = IF @ >= size THEN @ ELSE size]
                /\ Advance(p, c, "wait", run[p].resizes)
        /\ UNCHANGED <<hist, live, cap, crd, jobs>>

Stateful(p) == {c \in run[p].resizes : run[p].man.comps[c].kind = "StatefulSet"}

\* Mutant: nothing is waited for.
MutNoWait(p, c) ==
    /\ At(p, "wait") /\ First(run[p].left, c)
    /\ Advance(p, c, IF Stateful(p) = {} THEN "installApp" ELSE "orphan", Stateful(p))
    /\ UNCHANGED <<hist, storage, crd, jobs>>

\* Mutant: the wait has no deadline.
MutWaitForever(p, c) ==
    /\ At(p, "wait") /\ First(run[p].left, c)
    /\ cap[Mounting(p, c)] >= pvc[Mounting(p, c)]
    /\ Advance(p, c, IF Stateful(p) = {} THEN "installApp" ELSE "orphan", Stateful(p))
    /\ UNCHANGED <<hist, storage, crd, jobs>>

\* waitForPVCExpansion: the capacity reaches the request (or only the file
\* system is left to grow), or the deadline passes.
Wait(p, c) ==
    LET o == Mounting(p, c)
    IN  /\ At(p, "wait") /\ First(run[p].left, c)
        /\ IF pvc[o] = 0 \/ cap[o] < pvc[o]
           THEN End(p, "error")
           ELSE Advance(p, c, IF Stateful(p) = {} THEN "installApp" ELSE "orphan",
                        Stateful(p))
        /\ UNCHANGED <<hist, storage, crd, jobs>>

\* orphanDeleteStatefulSets: every component must have its StatefulSet.
Orphan(p, c) ==
    LET o == <<c, "StatefulSet">>
    IN  /\ At(p, "orphan") /\ First(run[p].left, c)
        /\ IF live[o] = Absent
           THEN End(p, "stsNotFound") /\ UNCHANGED live
           ELSE /\ live' = [live EXCEPT ![o] = Absent]
                /\ Advance(p, c, "installApp", {})
        /\ UNCHANGED <<hist, pvc, cap, crd, jobs>>

\* The storage driver grows a volume (external).
Expand(o) ==
    /\ cap[o] < pvc[o]
    /\ cap' = [cap EXCEPT ![o] = pvc[o]]
    /\ UNCHANGED <<hist, live, pvc, crd, jobs, run, out, runs>>

-----------------------------------------------------------------------------
(* InstallApp, and the Helm action it runs.                                *)

\* A pending newest revision is refused; without a history, or when it cannot
\* be read, the release is installed.
InstallApp(p) ==
    /\ At(p, "installApp")
    /\ IF IsPending(hist) THEN End(p, "error")
       ELSE /\ \/ run' = [run EXCEPT ![p].pc = "prepare", ![p].op = "install"]
               \/ /\ Stored(hist) # {}
                  /\ run' = [run EXCEPT ![p].pc = "prepare", ![p].op = "upgrade"]
            /\ UNCHANGED <<out, runs>>
    /\ UNCHANGED <<hist, storage, crd, jobs>>

\* Helm picks the revision to write and the one it replaces. An install needs
\* a free name. A rollback restores the last successful revision.
Prepare(p) ==
    LET last == newestRelease(hist)
        base == IF run[p].op = "upgrade" THEN UpgradeBase(hist) ELSE last
        ok == /\ last < MaxRev
              /\ CASE run[p].op = "install" -> last = 0
                   [] run[p].op = "upgrade" -> base # 0
                   [] OTHER -> LastSuccessfulRelease(hist) # 0
    IN  /\ At(p, "prepare")
        /\ IF ~ ok THEN End(p, "error")
           ELSE /\ run' = [run EXCEPT ![p].pc = "create",
                                      ![p].rev = last + 1, ![p].cur = base,
                                      ![p].man = IF run[p].op = "rollback"
                                                 THEN Base(hist) ELSE @]
                /\ UNCHANGED <<out, runs>>
        /\ UNCHANGED <<hist, storage, crd, jobs>>

PendingStatus(p) == CASE run[p].op = "install" -> "pending-install"
                      [] run[p].op = "upgrade" -> "pending-upgrade"
                      [] OTHER -> "pending-rollback"

\* Two processes that prepared the same revision: the second one's create fails.
Create(p) ==
    /\ At(p, "create")
    /\ IF hist[run[p].rev].status # "none"
       THEN End(p, "error") /\ UNCHANGED hist
       ELSE /\ hist' = [hist EXCEPT ![run[p].rev] =
                            [status |-> PendingStatus(p), man |-> run[p].man]]
            /\ Goto(p, "apply")
    /\ UNCHANGED <<storage, crd, jobs>>

\* The manifest Helm diffs against: the revision it replaces.
Replaced(p) == IF run[p].cur = 0 THEN NoManifest ELSE hist[run[p].cur].man

\* Helm updates the objects of S.
Update(p, S) ==
    /\ live' = Updated(live, Replaced(p), run[p].man, S)
    /\ pvc' = Claims(pvc, Replaced(p), run[p].man, S)
    /\ cap' = Capacity(cap, pvc, pvc')

ApplyOK(p) ==
    /\ At(p, "apply")
    /\ \A o \in Objs : ~ Immutable(live, pvc, run[p].man, o)
    /\ Update(p, Objs)
    /\ Goto(p, "supersede")
    /\ UNCHANGED <<hist, crd, jobs>>

\* An update the API server refused, a hook that failed (its Job is kept), a
\* wait that timed out: any of the objects may have been updated before.
ApplyFail(p, S) ==
    /\ At(p, "apply")
    /\ \A o \in S : ~ Immutable(live, pvc, run[p].man, o)
    /\ Update(p, S)
    /\ jobs' \in {jobs, TRUE}
    /\ Goto(p, "failed")
    /\ UNCHANGED <<hist, crd>>

\* A successful upgrade supersedes the revision it replaced, a successful
\* rollback every deployed one; only then is the new revision deployed.
Supersede(p) ==
    /\ At(p, "supersede")
    /\ hist' = Mark(hist, CASE run[p].op = "install" -> {}
                            [] run[p].op = "upgrade" -> {run[p].cur}
                            [] OTHER -> Deployed(hist), "superseded")
    /\ Goto(p, "commit")
    /\ UNCHANGED <<storage, crd, jobs>>

Commit(p) ==
    /\ At(p, "commit")
    /\ hist' = Mark(hist, {run[p].rev}, "deployed")
    /\ End(p, IF run[p].op = "rollback" \/ hist[run[p].rev].status = "none"
              THEN "error" ELSE "ok")
    /\ UNCHANGED <<storage, crd, jobs>>

\* RollbackOnFailure: a failed install is uninstalled, a failed upgrade rolled
\* back. When the rollback's own update fails, Helm also supersedes the
\* revision it was leaving.
Failed(p) ==
    /\ At(p, "failed")
    /\ CASE run[p].op = "install" ->
              Goto(p, "unmark") /\ UNCHANGED hist
         [] run[p].op = "upgrade" ->
              /\ hist' = Mark(hist, {run[p].rev}, "failed")
              /\ run' = [run EXCEPT ![p].pc = "prepare", ![p].op = "rollback"]
              /\ UNCHANGED <<out, runs>>
         [] OTHER ->
              /\ \E S \in {{}, {run[p].cur}} :
                    hist' = Mark(Mark(hist, S, "superseded"), {run[p].rev}, "failed")
              /\ End(p, "error")
    /\ UNCHANGED <<storage, crd, jobs>>

-----------------------------------------------------------------------------
(* Helm's uninstall, run by delete and by a failed install.                *)

Uninstalled(p) == IF run[p].op = "delete" THEN Goto(p, "delJobs")
                  ELSE End(p, "error")

\* DeleteRelease sets IgnoreNotFound: no history is not an error.
UnMark(p) ==
    LET last == newestRelease(hist)
    IN  /\ At(p, "unmark")
        /\ IF last = 0
           THEN Uninstalled(p) /\ UNCHANGED hist
           ELSE /\ hist' = Mark(hist, {last}, "uninstalling")
                /\ run' = [run EXCEPT ![p].pc = "undelete",
                                      ![p].man = hist[last].man,
                                      ![p].vers = Stored(hist)]
                /\ UNCHANGED <<out, runs>>
        /\ UNCHANGED <<storage, crd, jobs>>

\* Only the objects of the newest revision's manifest are deleted.
UnDelete(p) ==
    /\ At(p, "undelete")
    /\ live' = Updated(live, run[p].man, NoManifest, Objs)
    /\ pvc' = Claims(pvc, run[p].man, NoManifest, Objs)
    /\ cap' = Capacity(cap, pvc, pvc')
    /\ Goto(p, "purge")
    /\ UNCHANGED <<hist, crd, jobs>>

\* KeepHistory is false: the revisions go one by one, oldest first.
Purge(p, v) ==
    /\ At(p, "purge") /\ First(run[p].vers, v)
    /\ hist' = [hist EXCEPT ![v] = NoRev]
    /\ IF run[p].vers = {v} THEN Uninstalled(p)
       ELSE /\ run' = [run EXCEPT ![p].vers = @ \ {v}]
            /\ UNCHANGED <<out, runs>>
    /\ UNCHANGED <<storage, crd, jobs>>

-----------------------------------------------------------------------------
(* runDelete.                                                              *)

StartDelete(p, f) ==
    /\ Deleting /\ At(p, "idle") /\ runs < MaxRuns
    /\ run' = [run EXCEPT ![p] = [NoRun EXCEPT !.pc = "delRead", !.op = "delete",
                                               !.flags = f \cap {"k8s"}]]
    /\ out' = [out EXCEPT ![p] = "none"]
    /\ runs' = runs + 1
    /\ UNCHANGED <<hist, storage, crd, jobs>>

\* GetRelease and listLabeledJobNames; without the client no Jobs are listed.
Found(p, last) ==
    IF last = 0 /\ ~ (jobs /\ "k8s" \in run[p].flags)
    THEN End(p, "noop")
    ELSE /\ run' = [run EXCEPT ![p].pc = "delConfirm", ![p].cur = last]
         /\ UNCHANGED <<out, runs>>

DelRead(p) ==
    /\ At(p, "delRead")
    /\ \E h \in Reads : Found(p, newestRelease(h))
    /\ UNCHANGED <<hist, storage, crd, jobs>>

\* Mutant: only a release that is deployed is uninstalled.
MutDelConfirm(p) ==
    /\ At(p, "delConfirm")
    /\ \/ End(p, "aborted")
       \/ Goto(p, IF run[p].cur \in Deployed(hist) THEN "unmark" ELSE "delJobs")
    /\ UNCHANGED <<hist, storage, crd, jobs>>

DelConfirm(p) ==
    /\ At(p, "delConfirm")
    /\ \/ End(p, "aborted")
       \/ Goto(p, IF run[p].cur # 0 THEN "unmark" ELSE "delJobs")
    /\ UNCHANGED <<hist, storage, crd, jobs>>

\* deleteLabeledJobs only warns when there is no Kubernetes client; the delete
\* reports success either way.
DelJobs(p) ==
    /\ At(p, "delJobs")
    /\ jobs' = (jobs /\ "k8s" \notin run[p].flags)
    /\ End(p, IF "k8s" \in run[p].flags THEN "deleted" ELSE "deletedButJobs")
    /\ UNCHANGED <<hist, storage, crd>>

-----------------------------------------------------------------------------
\* The process is killed, or a call it makes fails: every such error ends the
\* run (but see Reads), whatever was already done stays.
Fault(p) ==
    /\ ~ At(p, "idle")
    /\ End(p, "error")
    /\ UNCHANGED <<hist, storage, crd, jobs>>

Step(p) ==
    \/ Render(p) \/ Plan(p) \/ HostGuard(p) \/ WorkGuard(p) \/ Confirm(p)
    \/ Verify(p) \/ Crds(p)
    \/ \E c \in Components : Patch(p, c) \/ Wait(p, c) \/ Orphan(p, c)
    \/ InstallApp(p) \/ Prepare(p) \/ Create(p)
    \/ ApplyOK(p) \/ \E S \in SUBSET Objs : ApplyFail(p, S)
    \/ Supersede(p) \/ Commit(p) \/ Failed(p)
    \/ UnMark(p) \/ UnDelete(p) \/ \E v \in Revs : Purge(p, v)
    \/ DelRead(p) \/ DelConfirm(p) \/ DelJobs(p)

Next ==
    \/ \E p \in Clis :
          \/ \E m \in Manifests, f \in FlagSets : Start(p, m, f)
          \/ \E f \in FlagSets : StartDelete(p, f)
          \/ Step(p)
          \/ Fault(p)
    \/ \E o \in Objs : Expand(o)

Spec == Init /\ [][Next]_vars

\* The operating system schedules a running process, and every wait in it is
\* bounded by a deadline. Nothing makes a user start a run or answer a prompt,
\* a process die or a volume grow.
Working(p) == run[p].pc \notin {"confirm", "delConfirm"} /\ Step(p)

FairSpec == Spec /\ \A p \in Clis : WF_vars(Working(p))

-----------------------------------------------------------------------------
(* Properties.                                                             *)

\* The step by which process p hands an upgrade of its manifest to Helm.
Upgrades(p) == /\ At(p, "create") /\ run[p].op = "upgrade"
               /\ run'[p].pc = "apply"

\* A rollback failed and Helm superseded the failed upgrade it was leaving: the
\* newest successful revision is then not the deployed one.
RollbackFailed(h) == \E v \in Revs :
    h[v].status = "superseded" /\ \A w \in Deployed(h) : w < v

\* deployah and Helm each pick the revision a deploy replaces by a rule of its
\* own: the guards ask LastSuccessfulRelease, Helm's upgrade takes a deployed
\* revision and falls back on others. Still an upgrade handed to Helm has been
\* checked against the very revision that Helm replaces: no FQDN changes
\* without --force-hostname-change, and no kind, role or StatefulSet
\* persistence changes and no volume shrinks at all (checkHostnameGuard,
\* checkWorkloadGuards), however many earlier runs failed, were rolled back,
\* were killed or stopped half-way through an uninstall. Only after a rollback
\* that failed the two differ. For one process at a time (the guards are not
\* repeated after the prompt) that loses no read of the history.
GuardedUpgrade == [][\A p \in Clis : Upgrades(p) /\ ~ RollbackFailed(hist) =>
    /\ \/ HostnameChanges(Replaced(p), run[p].man) = {}
       \/ "force" \in run[p].flags
    /\ WorkloadErrors(Replaced(p), run[p].man) = {}]_vars

\* The cluster after m was installed.
LiveOf(m) == [o \in Objs |-> Rendered(m, o)]
ClaimsOf(m) == [o \in Objs |-> IF Want(m, o) = NoObj THEN 0 ELSE Want(m, o)]

\* What is immutable in the cluster and a manifest that checkWorkloadGuards
\* accepts over the last successful release would still change: the
\* volumeClaimTemplates of the StatefulSets that detectPersistenceResizes
\* finds (--resize-volumes removes them first), and claims that move to
\* another storage class without shrinking, which neither compares. There is
\* no other gap: no kind, no added or removed volume and no size, however it
\* is spelled, gets past both.
GuardGaps == \A m \in Manifests :
    LET base == Base(hist)
    IN  WorkloadErrors(base, m) = {} =>
            \A o \in Objs : Immutable(LiveOf(base), ClaimsOf(base), m, o) =>
                \/ o[2] = "StatefulSet" /\ o[1] \in StatefulResizes(base, m)
                \/ /\ base.comps[o[1]].class # m.comps[o[1]].class
                   /\ Want(base, o) <= Want(m, o)

\* checkHostnameGuard: "History fetch errors fail closed so a transient API
\* failure cannot bypass the guard."
HostnameGuardClosed == [][\A p \in Clis :
    At(p, "hostGuard") /\ run'[p].pc = "workGuard" =>
        \/ HostnameChanges(Base(hist), run[p].man) = {}
        \/ "force" \in run[p].flags]_vars

\* When an upgrade that grows volumes reaches Helm, every claim already has
\* its new size and every StatefulSet whose volumeClaimTemplates must take it
\* is gone (resizeVolumes): no size is left for the API server to refuse. For
\* one process at a time that loses no read of the history.
GrowthPrepared == [][\A p \in Clis : Upgrades(p) =>
    \A c \in Resizes(Base(hist), run[p].man) :
        /\ cap[Mounting(p, c)] >= Quantity(run[p].man.comps[c].size)
        /\ run[p].man.comps[c].kind = "StatefulSet"
              => live[<<c, "StatefulSet">>] = Absent]_vars

\* resizeVolumes removes no StatefulSet controller before the claims of all the
\* components it resizes have grown: a resize the storage refuses leaves every
\* controller in place. For one process at a time: between the wait for the
\* first component and the removal for the last, another process may reinstall
\* and bring back claims of the old size.
OrphanAfterExpand == [][\A p \in Clis :
    At(p, "orphan") /\ live' # live /\ run'[p] # run[p] =>
        \A c \in run[p].resizes :
            cap[Mounting(p, c)] >= Quantity(run[p].man.comps[c].size)]_vars

\* No revision whose bundle carries CRDs is ever recorded before these CRDs are
\* Established (applyBundleCRDs runs before InstallApp), rollbacks included.
CRDsBeforeRelease == \A v \in Stored(hist) : hist[v].man.crds => crd

\* The manifest the plan and the guards compare with (LastSuccessfulRelease)
\* changes only when an install or an upgrade completes, when the release is
\* uninstalled, or when a failed upgrade cannot be rolled back: a crash between
\* two writes of Helm, a failed revision or a rollback leaves it alone.
BaselineStable == [][Base(hist') # Base(hist) =>
    \E p \in Clis :
        /\ run'[p] # run[p]
        /\ \/ At(p, "commit") /\ run[p].op # "rollback"
           \/ At(p, "failed") /\ run[p].op = "rollback"
           \/ At(p, "unmark") \/ At(p, "purge")]_vars

\* The baseline as GuardedRelease sees it: gone as soon as an uninstall marks
\* the newest revision.
Baseline == IF /\ newestRelease(hist) # 0
               /\ hist[newestRelease(hist)].status = "uninstalling"
            THEN NoManifest ELSE Base(hist)

Guarded == INSTANCE GuardedRelease WITH base <- Baseline

\* The successive baselines of a release form a behaviour of GuardedRelease.
\* For one process at a time that loses no read of the history.
ImplementsGuardedRelease == Guarded!Spec

\* However deploys race, no upgrade starts over a newest revision that is
\* still pending: InstallApp and Helm refuse it, and two runs that both looked
\* before it was written pick the same revision number. (A delete that purges
\* the history in between defeats the revision number.)
NoUpgradeOverPending == [][\A p \in Clis : Upgrades(p) => ~ IsPending(hist)]_vars

\* A delete that reports success left no revision, with or without a Kubernetes
\* client, and with one no labelled Job either: whatever gaps, failed, pending
\* or half-uninstalled revisions earlier runs left. (A StatefulSet's claims
\* outlive the release by design.) For one process at a time that loses no
\* read of the history.
DeletedIsGone == \A p \in Clis :
    /\ out[p] \in {"deleted", "deletedButJobs"} => Stored(hist) = {}
    /\ out[p] = "deleted" => ~ jobs

\* A resize that was interrupted can be repeated: re-running the deploy with
\* --resize-volumes gets past the orphan-delete (resizeFailureHint, and
\* docs/workloads.md on growing volumes).
ResizeRepeatable == \A p \in Clis : out[p] # "stsNotFound"

\* Every run ends once the user has answered its prompt.
RunsEnd == \A p \in Clis :
    run[p].pc \notin {"idle", "confirm", "delConfirm"}
        ~> run[p].pc \in {"idle", "confirm", "delConfirm"}
=============================================================================
