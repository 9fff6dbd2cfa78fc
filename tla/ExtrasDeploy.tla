------------------------------ MODULE ExtrasDeploy ------------------------------
(***************************************************************************)
(* The way of the custom manifests through a deploy: they are loaded with  *)
(* what discovery finds at that moment, rendered with the chart for the    *)
(* plan, the user confirms, the CRDs are applied (CRDApply), and Helm gets *)
(* the objects (Deploy). Several deploys of several checkouts of the       *)
(* project do this at once.                                                *)
(***************************************************************************)
EXTENDS CRDApply, Extras

CONSTANTS
    KindOf,     \* the kind each CRD declares
    Inputs      \* the starting points considered, see MCExtras

\* The CRDs are of kinds that deployah does not know, each of its own.
ASSUME KindsAssumption ==
    /\ ReleaseNs # ""
    /\ \A n \in Crds : KindOf[n] \notin DOMAIN builtInScope
    /\ \A m, n \in Crds : KindOf[m] = KindOf[n] => m = n

IsSeq(s) == s \in Seq(ToSet(s))
IsFiles(files) == IsSeq(files) /\ \A i \in DOMAIN files : IsSeq(files[i].docs)

\* Directories hold files, files hold documents; the CRDs of a tree are those
\* of its version, and among those considered; the chart has no object twice.
ASSUME InputsAssumption == \A x \in Inputs :
    /\ x.policies \subseteq Policies /\ "" \notin x.declared
    /\ IsSeq(x.generated) /\ checkDuplicateIdentities(x.generated)
    /\ \A i \in DOMAIN x.generated : x.generated[i].ns \in {"", ReleaseNs}
    /\ \A t \in x.trees :
          /\ t.ver \in Versions
          /\ IsFiles(t.top) /\ IsFiles(t.crds)
          /\ \A e \in DOMAIN t.dirs : IsFiles(t.dirs[e].files)
          /\ \A i \in DOMAIN t.crds : \A j \in DOMAIN t.crds[i].docs :
                t.crds[i].docs[j].kind = CRDKind =>
                    \E n \in Crds : t.crds[i].docs[j].declares = KindOf[n]
          /\ \A i \in DOMAIN t.crds : \A j \in DOMAIN t.crds[i].docs : \A n \in Crds :
                LET d == t.crds[i].docs[j]
                IN  d.declares = KindOf[n] => d.cluster = (t.ver \in Cluster[n])

VARIABLES
    dep,        \* per process the locals of runDeploy
    loads,      \* deploys started
    input       \* trees, declared environments, environment, generated objects,
                \* whether there is a REST config, kinds that discovery may
                \* fail for, bound on the deploys

vars == <<crdVars, dep, loads, input>>

NoDeploy == [pc |-> "idle"]

Init ==
    /\ CRDInit
    /\ dep = [p \in Clis |-> NoDeploy] /\ loads = 0
    /\ input \in Inputs

-----------------------------------------------------------------------------
\* What there is to discover: Kubernetes' own kinds and those of Established
\* CRDs, in the one version they have.
Served ==
    LET own == {"ConfigMap", "ClusterRole"}
        custom == {KindOf[n] : n \in established}
    IN  [k \in {"v1"} \X (own \cup custom) |->
           IF k[2] \in own THEN builtInScope[k[2]]
           ELSE \A n \in established : k[2] = KindOf[n] => content[n] \notin Cluster[n]]

\* What discovery answers when it fails for some kinds: the mapper keeps its
\* answers, so this is one for all the objects of a load. Without a REST config
\* it is not asked.
Discovery(online, lost) ==
    IF online THEN [k \in {s \in DOMAIN Served : s[2] \notin lost} |-> Served[k]] ELSE Nil

LoadFromSpec(tree, live) == LoadExtras(tree, input.env, input.declared, live)

\* runDeploy up to the prompt: the bundle and the plan, which renders it.
Load(p, tree, policy, online, lost) ==
    /\ dep[p].pc = "idle" /\ loads < input.loads
    /\ loads' = loads + 1
    /\ LET live == Discovery(online, lost)
           b == LoadFromSpec(tree, live)
           good == b # Nil /\ PostRender(input.generated, b.manifests) # Nil
       IN  dep' = [dep EXCEPT ![p] =
                     IF ~ good THEN NoDeploy
                     ELSE [pc |-> "confirm", bundle |-> b, tree |-> tree, policy |-> policy,
                           live |-> live]]
    /\ UNCHANGED <<crdVars, input>>

Goto(p, pc) == dep' = [dep EXCEPT ![p].pc = pc]

\* The CRDs that come with a bundle.
CrdsOf(bundle) == {n \in Crds : \E i \in DOMAIN bundle.crds : bundle.crds[i].declares = KindOf[n]}

\* The user says yes, to CRDs or to a release that has changes.
Confirm(p) ==
    /\ dep[p].pc = "confirm"
    /\ IF dep[p].bundle.crds # <<>>
       THEN /\ Start(p, dep[p].policy, dep[p].tree.ver, CrdsOf(dep[p].bundle))
            /\ Goto(p, "crds")
       ELSE Goto(p, "helm") /\ UNCHANGED crdVars
    /\ UNCHANGED <<loads, input>>

\* The user says no, or there is nothing to do (skipWhenIdle).
Abort(p) ==
    /\ dep[p].pc = "confirm"
    /\ dep' = [dep EXCEPT ![p] = NoDeploy]
    /\ UNCHANGED <<crdVars, loads, input>>

\* After the last CRD Helm follows, unless the release is unchanged
\* (applyCRDsOnly). Without the CRDs the deploy ends.
ApplyCRDs(p, step) ==
    /\ dep[p].pc = "crds" /\ step
    /\ IF ~ At(p, "idle")' THEN UNCHANGED dep
       ELSE \E next \in (IF out'[p] = "ok" THEN {"helm", "idle"} ELSE {"idle"}) :
               dep' = [dep EXCEPT ![p] = IF next = "idle" THEN NoDeploy ELSE [@ EXCEPT !.pc = next]]
    /\ UNCHANGED <<loads, input>>

\* Helm renders again and takes over.
Install(p) ==
    /\ dep[p].pc = "helm"
    /\ dep' = [dep EXCEPT ![p] = NoDeploy]
    /\ UNCHANGED <<crdVars, loads, input>>

Next ==
    \/ \E p \in Clis :
          \/ \E tree \in input.trees, policy \in input.policies, online \in input.online,
                lost \in input.lost : Load(p, tree, policy, online, lost)
          \/ Confirm(p) \/ Abort(p)
          \/ ApplyCRDs(p, Step(p)) \/ ApplyCRDs(p, Fault(p))
          \/ Install(p)
    \/ (\E n \in Crds : Establish(n)) /\ UNCHANGED <<dep, loads, input>>

Spec == Init /\ [][Next]_vars

\* The processes are scheduled and the deadline of the CRDs passes; a CRD may
\* never become Established and a prompt may stay open.
FairSpec == Spec /\ \A p \in Clis : WF_vars(ApplyCRDs(p, Step(p)))

-----------------------------------------------------------------------------
(* Properties.                                                             *)

Prepared(p) == dep[p].pc # "idle"

\* A deploy that gets past its CRDs finds every one of its bundle Established,
\* also those that another deploy created a moment ago and those an earlier run
\* had left behind (applyCRDs). This is what Deploy's Crds action takes for
\* granted.
CRDsEstablished == \A p \in Clis : dep[p].pc = "helm" => CrdsOf(dep[p].bundle) \subseteq established

\* When Helm gets a custom resource, a CRD of its kind is Established, and the
\* object has a namespace exactly when that CRD is namespaced, though its
\* namespace was settled before the prompt and the CRDs came after it.
\* Exceptions: a deploy without a REST config is told nothing of the cluster
\* and takes any kind; and where discovery did not answer for the object (the
\* CRD was not there, discovery failed, or the object has another version than
\* the CRD, which the table does not look at), the namespace follows the CRD of
\* the bundle, whose scope need not be that of the CRD in the cluster, as
\* --crds create keeps one that exists. That the CRD serves the version of the
\* object is not claimed, nor that the operators of the built-in list are
\* installed: the code checks neither.
ManifestsFit ==
    /\ TypeOK /\ CRDsEstablished
    /\ \A p \in Clis : dep[p].pc = "helm" /\ dep[p].live # Nil =>
          \A i \in DOMAIN dep[p].bundle.manifests, n \in Crds :
              LET o == dep[p].bundle.manifests[i]
                  clusterScoped == content[n] \in Cluster[n]
              IN  o.kind = KindOf[n] =>
                    /\ n \in established
                    /\ \/ (o.ns = "") = clusterScoped
                       \/ /\ ~ Discovered(o, dep[p].live)
                          /\ clusterScoped # (dep[p].tree.ver \in Cluster[n])

\* The documents that are meant for an environment: those of manifests/ and of
\* the directory with its name or else with the part before the slash.
Meant(tree) ==
    LET docs(files) == UNION {ToSet(files[i].docs) : i \in {j \in DOMAIN files : files[j].class = "yaml"}}
        dir == IF input.env \in input.declared THEN input.env ELSE Prefix[input.env]
    IN  docs(tree.top) \cup (IF dir \in DOMAIN tree.dirs THEN docs(tree.dirs[dir].files) ELSE {})

\* The release has every object of the chart, every document that is meant for
\* the environment and no other, and no two of its objects have the same
\* apiVersion, kind, name and namespace once the namespaces have been filled in.
\* One object written in two versions of its API passes for two, as it does in
\* Identity.
EachObjectOnce ==
    \A p \in Clis : Prepared(p) =>
        LET stream == PostRender(input.generated, dep[p].bundle.manifests)
            objects == input.generated \o dep[p].bundle.manifests
        IN  /\ stream = objects
            /\ \A i, j \in DOMAIN stream :
                  i # j => stream[i].kind # stream[j].kind \/ stream[i].api # stream[j].api
                           \/ stream[i].name # stream[j].name
                           \/ {stream[i].ns, stream[j].ns} = {"", ReleaseNs}
            /\ {<<o.kind, o.name>> : o \in ToSet(dep[p].bundle.manifests)}
                 = {<<o.kind, o.name>> : o \in Meant(dep[p].tree)}

\* Nothing passes for a component of the project, or for another environment:
\* whatever labels and annotations a document has, the reserved ones it leaves
\* with are those of this deploy, and the others are its own.
MarkedAsOwn ==
    \A p \in Clis : Prepared(p) =>
        \A o \in ToSet(dep[p].bundle.manifests) :
            /\ DOMAIN o.labels \cap Reserved = {LabelProject, LabelEnvironment}
            /\ o.labels[LabelEnvironment] = K8sSafe[input.env]
            /\ o.labels[LabelProject] = Project
            /\ DOMAIN o.notes \cap Reserved = {LabelProject, AnnotationSource}
            /\ \E d \in Meant(dep[p].tree) :
                  d.name = o.name /\ DOMAIN d.labels \ Reserved = DOMAIN o.labels \ Reserved

\* plan --offline shows what deploy does: for kinds that are built in or come
\* with the bundle, and CRDs whose scope in the cluster is the bundle's, the
\* bundle that is loaded without a cluster is the one that is loaded with it.
OfflineAgrees ==
    \A p \in Clis : Prepared(p) /\ dep[p].live # Nil =>
        LET b == dep[p].bundle
            own == {b.crds[i].declares : i \in DOMAIN b.crds}
            sameScope(o) == \A i \in DOMAIN b.crds :
                               b.crds[i].declares = o.kind /\ Discovered(o, dep[p].live) =>
                                   dep[p].live[<<o.api, o.kind>>] = ~ b.crds[i].cluster
        IN  (\A o \in ToSet(b.manifests) :
                o.kind \in DOMAIN builtInScope \cup own /\ sameScope(o))
            => LoadFromSpec(dep[p].tree, Nil) = b

\* What is sent next to the chart is what is meant, and marked as such.
BundleAsMeant == EachObjectOnce /\ MarkedAsOwn
=============================================================================
