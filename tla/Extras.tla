--------------------------------- MODULE Extras ---------------------------------
(***************************************************************************)
(* internal/extras without its CRD client: how the files of .deployah/     *)
(* become the objects that are added to a release.                         *)
(*                                                                         *)
(* Tree      [top, dirs, crds, crdDirs]: the files of manifests/, those of *)
(*           its directories with whether they have directories of their   *)
(*           own, the files of crds/, and whether there are directories    *)
(* File      [class, docs]: "yaml", "skipped" (dotfiles, READMEs) or       *)
(*           "unsupported"                                                 *)
(* Document  [api, kind, name, ns, labels, notes, declares, cluster]: the  *)
(*           last two are a CRD's kind ("" when it has none) and scope.    *)
(*           An empty apiVersion, kind, name or namespace is "".           *)
(* Live      what discovery answers: (apiVersion, kind) -> namespaced; Nil *)
(*           without a REST config                                         *)
(*                                                                         *)
(* An API group is part of the kind. Nil is an error.                      *)
(***************************************************************************)
EXTENDS EnvKeys, SequencesExt, TLC

CONSTANTS
    Nil,
    K8sSafe,       \* the label value of an environment's name
    Project,
    ReleaseNs

CRDKind == "CustomResourceDefinition"
crdAPIVersion == "v1"

LabelProject == "deployah.dev/project"
LabelEnvironment == "deployah.dev/environment"
AnnotationSource == "deployah.dev/source"
LabelComponent == "deployah.dev/component"

Reserved == {LabelProject, LabelEnvironment, AnnotationSource, LabelComponent}

-----------------------------------------------------------------------------
(* scope.go                                                                *)

\* Some kinds of Kubernetes, and one of the operators on the list, whose CRDs
\* need not be in the cluster.
builtInScope == [ConfigMap |-> TRUE, ClusterRole |-> FALSE, PrometheusRule |-> TRUE]

\* Kind -> namespaced, of CRDs that name a kind.
scopeFromCRDObjects(crds) ==
    LET declaring == {i \in DOMAIN crds : crds[i].declares # ""}
        last(k) == CHOOSE i \in declaring : /\ crds[i].declares = k
                                            /\ \A j \in declaring : crds[j].declares = k => j <= i
    IN  [k \in {crds[i].declares : i \in declaring} |-> ~ crds[last(k)].cluster]

\* TableResolver: the version of a kind is not looked at.
TableKnown(o, crdScope) == o.kind \in DOMAIN crdScope \cup DOMAIN builtInScope

TableNamespaced(o, crdScope) ==
    IF o.kind \in DOMAIN crdScope THEN crdScope[o.kind]
    ELSE IF o.kind \in DOMAIN builtInScope THEN builtInScope[o.kind]
    ELSE TRUE

\* The mapper has a mapping. An error of discovery is not told apart from a
\* type that is not there.
Discovered(o, live) == live # Nil /\ <<o.api, o.kind>> \in DOMAIN live

\* DiscoveryResolver: first the cluster, then the table.
Known(o, crdScope, live) == Discovered(o, live) \/ TableKnown(o, crdScope)

\* Mutant: first the CRDs of the directory, then the cluster.
MutNamespaced(o, crdScope, live) ==
    IF Discovered(o, live) /\ o.kind \notin DOMAIN crdScope THEN live[<<o.api, o.kind>>]
    ELSE TableNamespaced(o, crdScope)

Namespaced(o, crdScope, live) ==
    IF Discovered(o, live) THEN live[<<o.api, o.kind>>] ELSE TableNamespaced(o, crdScope)

\* Mutant: the resolver that was passed in is used as it is.
MutWithCRDScope(crdScope) == <<>>

\* Both resolvers are passed in without CRDs of their own.
withCRDScope(crdScope) == crdScope

-----------------------------------------------------------------------------
(* merge.go and object.go                                                  *)

Identity(o) == <<o.api, o.kind, o.ns, o.name>>

\* Mutant: only the keys that are set are protected.
MutOwned(labels, ours) ==
    [k \in DOMAIN ours \cup DOMAIN labels |-> IF k \in DOMAIN ours THEN ours[k] ELSE labels[k]]

\* Reserved keys are the tool's, all others the manifest's.
owned(labels, ours) ==
    [k \in DOMAIN ours \cup (DOMAIN labels \ Reserved) |->
       IF k \in DOMAIN ours THEN ours[k] ELSE labels[k]]

\* The labels and annotations of deployah. A CRD belongs to no environment.
identityLabels(environment, source) ==
    [k \in {LabelProject} \cup (IF source = "manifests" THEN {LabelEnvironment} ELSE {}) |->
       IF k = LabelProject THEN Project ELSE environment]
identityNotes(source) ==
    [k \in {LabelProject, AnnotationSource} |-> IF k = LabelProject THEN Project ELSE source]

\* Namespace, labels and annotations of an object; the rest stays.
mergeIdentity(o, environment, source, releaseNs, namespaced) ==
    IF namespaced /\ o.ns \notin {"", releaseNs} THEN Nil
    ELSE IF ~ namespaced /\ o.ns # "" THEN Nil
    ELSE [api |-> o.api, kind |-> o.kind, name |-> o.name,
          declares |-> o.declares, cluster |-> o.cluster,
          ns |-> IF namespaced THEN releaseNs ELSE "",
          labels |-> owned(o.labels, identityLabels(environment, source)),
          notes |-> owned(o.notes, identityNotes(source))]

-----------------------------------------------------------------------------
(* load.go                                                                 *)

classifyFile(file) == file.class # "unsupported"

\* The documents of each file, none of one that is skipped. All or nothing:
\* Nil when one of them is not to be loaded.
listYAMLFiles(files, nested) ==
    IF nested \/ \E i \in DOMAIN files : ~ classifyFile(files[i]) THEN Nil
    ELSE [i \in DOMAIN files |-> IF files[i].class = "yaml" THEN files[i].docs ELSE <<>>]

\* The files for every environment and those of the one that is meant.
listManifestFiles(tree, declared, key) ==
    LET top == listYAMLFiles(tree.top, FALSE)
        own == IF key \in DOMAIN tree.dirs
               THEN listYAMLFiles(tree.dirs[key].files, tree.dirs[key].nested) ELSE <<>>
    IN  IF DOMAIN tree.dirs \subseteq declared /\ top # Nil /\ own # Nil THEN top \o own ELSE Nil

listCRDFiles(tree) == listYAMLFiles(tree.crds, tree.crdDirs)

\* The documents of the listed files.
loadFiles(files, rejectCRD) ==
    LET docs == FlattenSeq(files)
    IN  IF \E i \in DOMAIN docs : \/ "" \in {docs[i].api, docs[i].kind, docs[i].name}
                                  \/ rejectCRD /\ docs[i].kind = CRDKind
        THEN Nil ELSE docs

\* Mutant: an object is compared with the one before it.
MutCheckDuplicateIdentities(objs) ==
    \A i \in 2 .. Len(objs) : Identity(objs[i]) # Identity(objs[i - 1])

checkDuplicateIdentities(objs) ==
    \A i, j \in DOMAIN objs : i # j => Identity(objs[i]) # Identity(objs[j])

\* spec.MatchEnvKey, "" for no match.
MatchEnvKey(e, declared) == IF matchEnvKey(e, declared) THEN MatchedKey(e, declared) ELSE ""

\* Load, from what the two directories hold.
LoadDocs(manifests, crds, environment, live) ==
    LET crdScope == withCRDScope(scopeFromCRDObjects(crds))
        known == live = Nil \/ \A i \in DOMAIN manifests : Known(manifests[i], crdScope, live)
        ms == [i \in DOMAIN manifests |->
                 mergeIdentity(manifests[i], K8sSafe[environment], "manifests", ReleaseNs,
                               Namespaced(manifests[i], crdScope, live))]
        cs == [i \in DOMAIN crds |-> mergeIdentity(crds[i], "", "crds", "", FALSE)]
    IN  IF /\ \A i \in DOMAIN crds : crds[i].kind = CRDKind /\ crds[i].api = crdAPIVersion
           /\ known
           /\ Nil \notin ToSet(ms) \cup ToSet(cs)
           /\ checkDuplicateIdentities(ms) /\ checkDuplicateIdentities(cs)
        THEN [manifests |-> ms, crds |-> cs] ELSE Nil

LoadExtras(tree, environment, declared, live) ==
    LET manifestFiles == listManifestFiles(tree, declared, MatchEnvKey(environment, declared))
        crdFiles == listCRDFiles(tree)
        manifests == loadFiles(manifestFiles, TRUE)
        crds == loadFiles(crdFiles, FALSE)
    IN  IF Nil \in {manifestFiles, crdFiles} THEN Nil
        ELSE IF Nil \in {manifests, crds} THEN Nil
        ELSE LoadDocs(manifests, crds, environment, live)

-----------------------------------------------------------------------------
\* PostRenderer.Run: the chart's objects and then the extras.
PostRender(generated, manifests) ==
    IF \E i \in DOMAIN generated, j \in DOMAIN manifests :
           Identity(generated[i]) = Identity(manifests[j])
    THEN Nil ELSE generated \o manifests
=============================================================================
