----------------------------- MODULE LocalCluster -----------------------------
(***************************************************************************)
(* deployah cluster up, up --attach, up --no-cloud-provider and down, run  *)
(* by any number of CLI processes on one machine: localkube.Manager, its   *)
(* Kind provider and the cloud-provider-kind container. All runs name the  *)
(* same cluster ("deployah"); the container engine is a rootful Docker or  *)
(* Podman.                                                                 *)
(*                                                                         *)
(* Kind's Create takes no context, so it runs in a goroutine of its own    *)
(* (run[p].kind) next to the command (run[p].pc), and a canceled Create    *)
(* hands the cluster to a cleanup that Manager.Close waits for.            *)
(***************************************************************************)
EXTENDS Naturals

CONSTANTS
    Clis,      \* CLI processes
    Cmds,      \* commands they run
    MaxRuns    \* bound on the number of runs started

AllCmds == {"up", "attach", "noCloud", "down"}

ASSUME CmdsAssumption == Cmds \subseteq AllCmds
ASSUME MaxRunsAssumption == MaxRuns \in Nat

VARIABLES
    node,        \* the Kind nodes of the cluster, and the run that made them
    kubeconfig,  \* deployah's kubeconfig copy is on disk
    cpc,         \* the cloud-provider-kind container, and the run that made it
    gateways,    \* envoy containers it spawned are left
    run,         \* the local state of each process
    out,         \* how its last run ended
    runs         \* runs started

world == <<node, kubeconfig, cpc, gateways>>
vars == <<node, kubeconfig, cpc, gateways, run, out, runs>>

Ids == 0 .. MaxRuns

Node == [st : {"absent", "building", "ready", "partial"}, by : Ids]
NoNode == [st |-> "absent", by |-> 0]

Container == [st : {"none", "created", "running"}, by : Ids]
NoContainer == [st |-> "none", by |-> 0]

Steps == {"idle", "get", "create", "drain", "cleanup", "close", "kubeconfig",
          "writeKubeconfig", "find", "removeStale", "createCP", "startCP",
          "attach", "confirm", "stopFind", "stopRemove", "gateways", "delete"}

\* Kind's goroutine: checking the name, building, or the result in errCh.
KindState == {"none", "check", "build", "ok", "exists", "err"}
KindDone == {"ok", "exists", "err"}

Outcomes == {"none", "ok", "noop", "aborted", "error", "canceled",
             "cleanupFailed", "deleted", "deletedCopyLeft", "killed"}

Run == [pc : Steps, cmd : AllCmds, id : Ids, ctx : BOOLEAN, kind : KindState,
        cid : Ids]

NoRun == [pc |-> "idle", cmd |-> "up", id |-> 0, ctx |-> FALSE, kind |-> "none",
          cid |-> 0]

TypeOK ==
    /\ node \in Node
    /\ kubeconfig \in BOOLEAN
    /\ cpc \in Container
    /\ gateways \in BOOLEAN
    /\ run \in [Clis -> Run]
    /\ out \in [Clis -> Outcomes]
    /\ runs \in Ids

Init ==
    /\ node = NoNode /\ kubeconfig = FALSE
    /\ cpc = NoContainer /\ gateways = FALSE
    /\ run = [p \in Clis |-> NoRun]
    /\ out = [p \in Clis |-> "none"]
    /\ runs = 0

-----------------------------------------------------------------------------
At(p, s) == run[p].pc = s

Goto(p, s) == /\ run' = [run EXCEPT ![p].pc = s]
              /\ UNCHANGED <<out, runs>>

End(p, result) == /\ run' = [run EXCEPT ![p] = NoRun]
                  /\ out' = [out EXCEPT ![p] = result]
                  /\ UNCHANGED runs

Begin(p, cmd) ==
    /\ At(p, "idle") /\ runs < MaxRuns
    /\ runs' = runs + 1
    /\ run' = [run EXCEPT ![p] = [NoRun EXCEPT !.pc = "get", !.cmd = cmd,
                                               !.id = runs + 1]]
    /\ out' = [out EXCEPT ![p] = "none"]
    /\ UNCHANGED world

\* Ctrl-C, or the budget of the manager call runs out.
Cancel(p) ==
    /\ ~ At(p, "idle") /\ ~ run[p].ctx
    /\ run' = [run EXCEPT ![p].ctx = TRUE]
    /\ UNCHANGED <<world, out, runs>>

\* runUp asks Get only for the wording of its output and always calls Create,
\* which starts Kind's goroutine. runDown stops when there is no cluster.
GetForUp(p) ==
    /\ At(p, "get") /\ run[p].cmd # "down"
    /\ run' = [run EXCEPT ![p].pc = "create", ![p].kind = "check"]
    /\ UNCHANGED <<world, out, runs>>

GetForDown(p) ==
    /\ At(p, "get") /\ run[p].cmd = "down"
    /\ IF node.st = "absent" /\ ~ run[p].ctx THEN End(p, "noop") ELSE Goto(p, "confirm")
    /\ UNCHANGED world

-----------------------------------------------------------------------------
(* Kind's Create (external): it refuses a name that has nodes, and removes *)
(* the nodes it could not bring up. The check and the first node container *)
(* are one step.                                                           *)

KindCheck(p) ==
    /\ run[p].kind = "check"
    /\ IF node.st # "absent"
       THEN run' = [run EXCEPT ![p].kind = "exists"] /\ UNCHANGED node
       ELSE /\ run' = [run EXCEPT ![p].kind = "build"]
            /\ node' = [st |-> "building", by |-> run[p].id]
    /\ UNCHANGED <<kubeconfig, cpc, gateways, out, runs>>

KindReady(p) ==
    /\ run[p].kind = "build" /\ node = [st |-> "building", by |-> run[p].id]
    /\ node' = [node EXCEPT !.st = "ready"]
    /\ kubeconfig' = TRUE
    /\ run' = [run EXCEPT ![p].kind = "ok"]
    /\ UNCHANGED <<cpc, gateways, out, runs>>

KindFails(p) ==
    /\ run[p].kind = "build"
    /\ node' = NoNode
    /\ run' = [run EXCEPT ![p].kind = "err"]
    /\ UNCHANGED <<kubeconfig, cpc, gateways, out, runs>>

\* What is left of the nodes when p exits while its goroutine is at work.
Abandoned(p) ==
    IF run[p].kind = "build" /\ node = [st |-> "building", by |-> run[p].id]
    THEN [node EXCEPT !.st = "partial"] ELSE node

-----------------------------------------------------------------------------
(* Manager.Create and kindProvider.create.                                 *)

\* Mutant: the error of a failed build is lost.
MutCreateReturns(p) ==
    /\ At(p, "create") /\ run[p].kind \in KindDone
    /\ IF run[p].kind # "err" THEN Goto(p, "kubeconfig") ELSE End(p, "ok")
    /\ UNCHANGED world

\* The select takes the result from errCh. WithCreateIfMissing turns
\* ErrAlreadyExists into success; an error under a canceled context is treated
\* like the cancellation.
CreateReturns(p) ==
    /\ At(p, "create") /\ run[p].kind \in KindDone
    /\ IF run[p].kind # "err" THEN Goto(p, "kubeconfig")
       ELSE IF run[p].ctx THEN Goto(p, "drain")
       ELSE End(p, "error")
    /\ UNCHANGED world

\* The select takes ctx.Done, whatever Kind is doing.
CreateCanceled(p) ==
    /\ At(p, "create") /\ run[p].ctx
    /\ Goto(p, "drain")
    /\ UNCHANGED world

\* Mutant: the cleanup does not wait for Kind.
MutDrain(p) ==
    /\ At(p, "drain")
    /\ Goto(p, "cleanup")
    /\ UNCHANGED world

\* Mutant: waits for a cluster, not for Kind.
MutDrainForever(p) ==
    /\ At(p, "drain") /\ run[p].kind = "ok"
    /\ Goto(p, "cleanup")
    /\ UNCHANGED world

\* wait(): the cleanup goroutine lets Kind finish first. The command has
\* returned, but its deferred Close waits for the goroutine.
Drain(p) ==
    /\ At(p, "drain") /\ run[p].kind \in KindDone
    /\ Goto(p, "cleanup")
    /\ UNCHANGED world

\* provider.delete under a context that is no longer canceled; a failure is
\* only logged. The kubeconfig copy is not removed.
Cleanup(p) ==
    /\ At(p, "cleanup")
    /\ \/ node' = NoNode /\ Goto(p, "close")
       \/ node' = Abandoned(p) /\ End(p, "cleanupFailed")
    /\ UNCHANGED <<kubeconfig, cpc, gateways>>

\* Close has nothing left to wait for and the process exits.
Close(p) ==
    /\ At(p, "close")
    /\ node' = Abandoned(p)
    /\ End(p, "canceled")
    /\ UNCHANGED <<kubeconfig, cpc, gateways>>

\* Manager.KubeConfig: Kind reads it from a control plane node, which has none
\* until it is up; then the copy is written.
ReadKubeConfig(p) ==
    /\ At(p, "kubeconfig")
    /\ \/ node.st # "absent" /\ ~ run[p].ctx /\ Goto(p, "writeKubeconfig")
       \/ (node.st # "ready" \/ run[p].ctx) /\ End(p, "error")
    /\ UNCHANGED world

WriteKubeconfig(p) ==
    /\ At(p, "writeKubeconfig")
    /\ kubeconfig' = TRUE
    /\ IF run[p].cmd = "noCloud" THEN End(p, "ok") ELSE Goto(p, "find")
    /\ UNCHANGED <<node, cpc, gateways>>

-----------------------------------------------------------------------------
(* cloudprovider.Controller.Start, every engine call a step.               *)

\* The provider runs: the foreground command streams its logs, the background
\* one is done.
Started(p) == IF run[p].cmd = "attach" THEN Goto(p, "attach") ELSE End(p, "ok")

FindContainer(p) ==
    /\ At(p, "find")
    /\ CASE cpc.st = "running" -> Started(p)
         [] cpc.st = "none" -> Goto(p, "createCP")
         [] OTHER -> /\ run' = [run EXCEPT ![p].pc = "removeStale", ![p].cid = cpc.by]
                     /\ UNCHANGED <<out, runs>>
    /\ UNCHANGED world

\* Mutant: the container is only asked to stop.
MutRemoveStale(p) ==
    /\ At(p, "removeStale")
    /\ cpc' = [cpc EXCEPT !.st = "stopped"]
    /\ Goto(p, "createCP")
    /\ UNCHANGED <<node, kubeconfig, gateways>>

\* By ID and with force: the container goes even if it is running by now.
RemoveStale(p) ==
    /\ At(p, "removeStale")
    /\ IF cpc.by = run[p].cid
       THEN cpc' = NoContainer /\ Goto(p, "createCP")
       ELSE cpc' = cpc /\ End(p, "error")
    /\ UNCHANGED <<node, kubeconfig, gateways>>

\* The well-known name admits one container.
CreateContainer(p) ==
    /\ At(p, "createCP")
    /\ IF cpc.st = "none"
       THEN cpc' = [st |-> "created", by |-> run[p].id] /\ Goto(p, "startCP")
       ELSE cpc' = cpc /\ End(p, "error")
    /\ UNCHANGED <<node, kubeconfig, gateways>>

\* What becomes of a Start that fails: up --attach takes the error of a
\* cancellation that reached the command for the Ctrl-C it waits for, and
\* returns nil.
StartFails(p) == End(p, "error") \/ (run[p].cmd = "attach" /\ run[p].ctx /\ End(p, "ok"))

\* An engine call of Start meets the canceled context.
StartCanceled(p) ==
    /\ run[p].pc \in {"find", "removeStale", "createCP"} /\ run[p].ctx
    /\ StartFails(p)
    /\ UNCHANGED world

\* A container that cannot be started is removed again.
StartContainer(p) ==
    /\ At(p, "startCP")
    /\ \/ /\ cpc.by = run[p].id /\ ~ run[p].ctx
          /\ cpc' = [cpc EXCEPT !.st = "running"]
          /\ Started(p)
       \/ /\ cpc' = IF cpc.by = run[p].id THEN NoContainer ELSE cpc
          /\ StartFails(p)
    /\ UNCHANGED <<node, kubeconfig, gateways>>

\* The log stream ends with Ctrl-C or with the container.
Attach(p) ==
    /\ At(p, "attach") /\ (run[p].ctx \/ cpc.st # "running")
    /\ Goto(p, "stopFind")
    /\ UNCHANGED world

\* The provider (external) publishes services through envoy containers.
SpawnGateway ==
    /\ cpc.st = "running" /\ node.st = "ready" /\ ~ gateways
    /\ gateways' = TRUE
    /\ UNCHANGED <<node, kubeconfig, cpc, run, out, runs>>

-----------------------------------------------------------------------------
(* Controller.Stop, run by down and at the end of up --attach, and the     *)
(* rest of runDown.                                                        *)

Confirm(p) ==
    /\ At(p, "confirm")
    /\ End(p, "aborted") \/ Goto(p, "stopFind")
    /\ UNCHANGED world

\* Only down names the cluster, so only down removes the gateways.
Stopped(p) == IF run[p].cmd = "attach" THEN End(p, "ok") ELSE Goto(p, "gateways")

StopFind(p) ==
    /\ At(p, "stopFind")
    /\ IF cpc.st = "none" THEN Stopped(p)
       ELSE /\ run' = [run EXCEPT ![p].pc = "stopRemove", ![p].cid = cpc.by]
            /\ UNCHANGED <<out, runs>>
    /\ UNCHANGED world

\* up --attach only logs that its container is gone already.
StopRemove(p) ==
    /\ At(p, "stopRemove")
    /\ IF cpc.by = run[p].cid THEN cpc' = NoContainer /\ Stopped(p)
       ELSE cpc' = cpc /\ End(p, IF run[p].cmd = "attach" THEN "ok" ELSE "error")
    /\ UNCHANGED <<node, kubeconfig, gateways>>

\* Mutant: Stop is not told the cluster name.
MutRemoveGateways(p) ==
    /\ At(p, "gateways")
    /\ Goto(p, "delete")
    /\ UNCHANGED world

removeGatewayContainers(p) ==
    /\ At(p, "gateways")
    /\ gateways' = FALSE
    /\ Goto(p, "delete")
    /\ UNCHANGED <<node, kubeconfig, cpc>>

\* Kind deletes what is there, also nodes of a run that is still building. That
\* the kubeconfig copy could not be removed is only logged, and the command
\* still reports the cluster as deleted.
Delete(p) ==
    /\ At(p, "delete")
    /\ \/ run[p].ctx /\ End(p, "error") /\ UNCHANGED <<node, kubeconfig>>
       \/ ~ run[p].ctx /\ node' = NoNode /\ kubeconfig' = FALSE /\ End(p, "deleted")
       \/ ~ run[p].ctx /\ node' = NoNode /\ End(p, "deletedCopyLeft") /\ UNCHANGED kubeconfig
    /\ UNCHANGED <<cpc, gateways>>

-----------------------------------------------------------------------------
\* The process is killed, and Kind's goroutine with it; or, outside Create, a
\* call to the engine fails and the command returns.
Kill(p) ==
    /\ ~ At(p, "idle")
    /\ node' = Abandoned(p)
    /\ End(p, "killed")
    /\ UNCHANGED <<kubeconfig, cpc, gateways>>

KindStep(p) == KindCheck(p) \/ KindReady(p) \/ KindFails(p)

Step(p) ==
    \/ GetForUp(p) \/ GetForDown(p)
    \/ CreateReturns(p) \/ CreateCanceled(p) \/ Drain(p) \/ Cleanup(p) \/ Close(p)
    \/ ReadKubeConfig(p) \/ WriteKubeconfig(p)
    \/ FindContainer(p) \/ RemoveStale(p) \/ CreateContainer(p) \/ StartContainer(p)
    \/ StartCanceled(p) \/ Attach(p)
    \/ StopFind(p) \/ StopRemove(p) \/ removeGatewayContainers(p) \/ Delete(p)

Next ==
    \/ \E p \in Clis :
          \/ \E cmd \in Cmds : Begin(p, cmd)
          \/ Cancel(p) \/ KindStep(p) \/ Step(p) \/ Confirm(p) \/ Kill(p)
    \/ SpawnGateway

Spec == Init /\ [][Next]_vars

\* A process and its Kind goroutine are scheduled, and Kind's Create returns
\* (its waits are bounded by waitTimeout). Nobody has to press Ctrl-C.
FairSpec == Spec /\ \A p \in Clis : WF_vars(Step(p)) /\ WF_vars(KindStep(p))

-----------------------------------------------------------------------------
(* Properties.                                                             *)

\* A canceled cluster up whose cleanup succeeded leaves no nodes: the cleanup
\* deletes only after Kind's Create has finished, so nothing is built behind it
\* (Manager.Create). For one process at a time.
CanceledLeavesNoNodes == \A p \in Clis : out[p] = "canceled" => node = NoNode

\* A cluster down that reports success, whatever earlier runs were canceled or
\* killed, leaves no nodes, no provider and no gateway (runDown: the provider is
\* stopped before its gateways are removed, or it would spawn new ones), and no
\* kubeconfig copy unless its removal failed, which Manager.Delete only logs.
\* For one process at a time.
DownLeavesNothing == \A p \in Clis :
    out[p] \in {"deleted", "deletedCopyLeft"} =>
        /\ node = NoNode /\ cpc = NoContainer /\ ~ gateways
        /\ out[p] = "deleted" => ~ kubeconfig

\* A cluster up that reports success leaves a cluster and its kubeconfig copy
\* behind, though it may be one that a killed run left half-built: Kind refuses
\* the name and WithCreateIfMissing takes that for success. For one process at
\* a time.
UpLeavesCluster == \A p \in Clis :
    out[p] = "ok" => node.st \in {"ready", "partial"} /\ kubeconfig

\* "deletes the partial cluster" (Manager.Create): the cleanup after a canceled
\* Create deletes nodes of the canceled run only.
CleanupDeletesOwnCluster == [][\A p \in Clis :
    At(p, "cleanup") /\ node' # node /\ run'[p] # run[p] => node.by = run[p].id]_vars

\* Every command ends, once its prompt is answered and its foreground log
\* stream is interrupted; so does the cleanup that Close waits for.
CommandsEnd == \A p \in Clis :
    run[p].pc \notin {"idle", "confirm", "attach"}
        ~> run[p].pc \in {"idle", "confirm", "attach"}

\* What a command reports is what it leaves on the machine, whatever was
\* canceled or killed before it.
OutcomesTrue == TypeOK /\ CanceledLeavesNoNodes /\ DownLeavesNothing /\ UpLeavesCluster
=============================================================================
