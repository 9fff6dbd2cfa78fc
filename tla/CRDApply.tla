-------------------------------- MODULE CRDApply --------------------------------
(***************************************************************************)
(* extras.ApplyCRDs, the step of a deploy that Deploy takes in one action  *)
(* (crds): the CRDs of the bundle are read and written one by one under    *)
(* the --crds policy, then waited for one by one under a common deadline.  *)
(* Several deploys may do so at once with other versions of the CRDs, and  *)
(* a run that failed may be repeated. ExtrasDeploy has what comes before   *)
(* and after it, and the specification.                                    *)
(***************************************************************************)
EXTENDS Naturals

CONSTANTS
    Clis,      \* CLI processes
    Crds,      \* CRDs that bundles may have, numbered in bundle order
    Versions,  \* contents a bundle may have for them
    Absent,    \* no such CRD in the cluster
    Cluster    \* per CRD, the versions in which it is cluster-scoped

ASSUME CRDAssumption ==
    /\ Crds \subseteq Nat /\ Absent \notin Versions
    /\ Cluster \in [Crds -> SUBSET Versions]

VARIABLES
    content,      \* of the CRDs in the cluster
    established,  \* those that report Established
    run,          \* the local state of each process
    out           \* how its last run ended

crdVars == <<content, established, run, out>>

Policies == {"create", "create-replace"}

NoRun == [pc |-> "idle", policy |-> "create", ver |-> Absent, crds |-> {}, left |-> {},
          applied |-> {}]

TypeOK ==
    /\ content \in [Crds -> Versions \cup {Absent}]
    /\ established \in SUBSET Crds
    /\ run \in [Clis -> [pc : {"idle", "get", "create", "apply", "wait"},
                         policy : Policies, ver : Versions \cup {Absent}, crds : SUBSET Crds,
                         left : SUBSET Crds, applied : SUBSET Crds]]
    /\ out \in [Clis -> {"none", "ok", "error"}]

\* Others may have installed some of the CRDs.
CRDInit ==
    /\ content \in [Crds -> Versions \cup {Absent}]
    /\ established = {n \in Crds : content[n] # Absent}
    /\ run = [p \in Clis |-> NoRun] /\ out = [p \in Clis |-> "none"]

-----------------------------------------------------------------------------
At(p, s) == run[p].pc = s

First(S, n) == n \in S /\ \A m \in S : n <= m

End(p, result) == /\ run' = [run EXCEPT ![p] = NoRun]
                  /\ out' = [out EXCEPT ![p] = result]

Start(p, policy, ver, crds) ==
    /\ At(p, "idle")
    /\ run' = [run EXCEPT ![p] = [NoRun EXCEPT !.pc = "get", !.policy = policy,
                                               !.ver = ver, !.crds = crds, !.left = crds]]
    /\ out' = [out EXCEPT ![p] = "none"]
    /\ UNCHANGED <<content, established>>

\* CRD n is done with; after the last one the wait begins.
Applied(p, n) ==
    LET done == run[p].left = {n}
        all == run[p].applied \cup {n}
    IN  /\ run' = [run EXCEPT ![p].pc = IF done THEN "wait" ELSE "get",
                              ![p].left = IF done THEN all ELSE @ \ {n},
                              ![p].applied = all]
        /\ UNCHANGED out

\* Mutant: a CRD that exists is not waited for.
MutPresent(p, n) ==
    LET done == run[p].left = {n}
    IN  /\ run' = [run EXCEPT ![p].pc = IF done THEN "wait" ELSE "get",
                              ![p].left = IF done THEN run[p].applied ELSE @ \ {n}]
        /\ UNCHANGED out

\* PolicyCreate: a CRD that exists counts as applied.
Present(p, n) == Applied(p, n)

Get(p, n) ==
    /\ At(p, "get") /\ First(run[p].left, n)
    /\ IF content[n] # Absent /\ run[p].policy = "create" THEN Present(p, n)
       ELSE /\ run' = [run EXCEPT ![p].pc =
                           IF run[p].policy = "create" THEN "create" ELSE "apply"]
            /\ UNCHANGED out
    /\ UNCHANGED <<content, established>>

\* Mutant: what the Get saw is trusted.
MutCreate(p, n) ==
    /\ At(p, "create") /\ First(run[p].left, n)
    /\ content' = [content EXCEPT ![n] = run[p].ver]
    /\ Applied(p, n)
    /\ UNCHANGED established

\* The API server refuses a second CRD of the name, and the deploy fails.
Create(p, n) ==
    /\ At(p, "create") /\ First(run[p].left, n)
    /\ IF content[n] = Absent
       THEN content' = [content EXCEPT ![n] = run[p].ver] /\ Applied(p, n)
       ELSE UNCHANGED content /\ End(p, "error")
    /\ UNCHANGED established

\* Server-side apply with force creates or overwrites. The scope of a CRD
\* that is Established is immutable, and the server refuses to change it.
Apply(p, n) ==
    /\ At(p, "apply") /\ First(run[p].left, n)
    /\ IF n \in established /\ (content[n] \in Cluster[n]) # (run[p].ver \in Cluster[n])
       THEN UNCHANGED content /\ End(p, "error")
       ELSE content' = [content EXCEPT ![n] = run[p].ver] /\ Applied(p, n)
    /\ UNCHANGED established

\* waitEstablished: the next CRD is Established, and maybe it was the last one.
Wait(p, n) ==
    /\ At(p, "wait") /\ First(run[p].left, n) /\ n \in established
    /\ run' = [run EXCEPT ![p].left = @ \ {n}]
    /\ UNCHANGED <<content, established, out>>

WaitDone(p) ==
    /\ At(p, "wait") /\ run[p].left = {}
    /\ End(p, "ok")
    /\ UNCHANGED <<content, established>>

\* Mutant: only Ctrl-C and API errors end the wait.
MutDeadline(p) == FALSE /\ UNCHANGED crdVars

\* The common deadline passes while some CRD is not Established.
Deadline(p) ==
    /\ At(p, "wait") /\ run[p].left # {}
    /\ End(p, "error")
    /\ UNCHANGED <<content, established>>

\* Another API error, or the process is killed. Nothing is undone.
Fault(p) ==
    /\ ~ At(p, "idle")
    /\ End(p, "error")
    /\ UNCHANGED <<content, established>>

\* The API server (external).
Establish(n) ==
    /\ content[n] # Absent /\ n \notin established
    /\ established' = established \cup {n}
    /\ UNCHANGED <<content, run, out>>

Step(p) == \/ \E n \in Crds : Get(p, n) \/ Create(p, n) \/ Apply(p, n) \/ Wait(p, n)
           \/ WaitDone(p) \/ Deadline(p)

-----------------------------------------------------------------------------
(* Properties.                                                             *)

\* Under --crds create an existing CRD is left unchanged, whoever created it
\* and whenever.
CreateKeeps == [][\A n \in Crds :
    content[n] # Absent /\ content'[n] # content[n] =>
        \E p \in Clis : run[p].policy = "create-replace" /\ run'[p] # run[p]]_crdVars

\* Every run ends.
ApplyEnds == \A p \in Clis : ~ At(p, "idle") ~> At(p, "idle")
=============================================================================
