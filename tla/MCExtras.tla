-------------------------------- MODULE MCExtras --------------------------------
(***************************************************************************)
(* Inputs of ExtrasDeploy for TLC: every tree in a deploy of its own, and  *)
(* three trees, with all, some and no CRDs, in deploys that race.          *)
(***************************************************************************)
EXTENDS ExtrasDeploy

MCNames == {"prod", "r", "r/1"}
MCPrefix == [e \in MCNames |-> IF e = "r/1" THEN "r" ELSE e]
MCSafe == [e \in MCNames |-> IF e = "r/1" THEN "r-1" ELSE e]
MCKindOf == <<"Widget", "Gadget">>
\* Widgets are always namespaced, Gadgets in one version only.
MCCluster == <<{}, {"v2"}>>

Doc(kind, name) == [api |-> "v1", kind |-> kind, name |-> name, ns |-> "", labels |-> <<>>,
                    notes |-> <<>>, declares |-> "", cluster |-> FALSE]
In(doc, ns) == [doc EXCEPT !.ns = ns]
Yaml(docs) == [class |-> "yaml", docs |-> docs]
Readme == [class |-> "skipped", docs |-> <<>>]
Stray == [class |-> "unsupported", docs |-> <<>>]
Impostor == [Doc("ConfigMap", "b") EXCEPT
                !.labels = (LabelComponent :> "web") @@ (LabelEnvironment :> "prod") @@ ("app" :> "x"),
                !.notes = (AnnotationSource :> "chart") @@ (LabelEnvironment :> "prod")]

CRD(n, v) == [Doc(CRDKind, KindOf[n]) EXCEPT !.declares = KindOf[n], !.cluster = v \in Cluster[n]]
Both(v) == <<Yaml(<<CRD(1, v), CRD(2, v)>>)>>

Tree(v, top, dirs, crds) == [ver |-> v, top |-> top, dirs |-> dirs, crds |-> crds, crdDirs |-> FALSE]
Dir(docs) == [files |-> <<Yaml(docs), Readme>>, nested |-> FALSE]

Tops == {<<>>, <<Stray>>, <<Yaml(<<[Doc("ConfigMap", "a") EXCEPT !.name = ""]>>)>>,
         <<Yaml(<<CRD(1, "v1")>>)>>}
        \cup {<<Yaml(<<Doc("ConfigMap", "a"), x>>), Readme>> :
                x \in {Impostor, Doc("ClusterRole", "a"), In(Doc("ClusterRole", "a"), "ns"),
                       Doc("Widget", "a"), Doc("Gadget", "a"), In(Doc("Gadget", "a"), "ns"),
                       [Doc("Gadget", "a") EXCEPT !.api = "v2"], Doc("Other", "a"),
                       Doc("PrometheusRule", "a"), In(Doc("ConfigMap", "c"), "elsewhere"),
                       Doc("ConfigMap", "chart")}}
Dirs == {<<>>, "r" :> Dir(<<Doc("ConfigMap", "e")>>),
         "r" :> Dir(<<Doc("Gadget", "e"), In(Doc("ConfigMap", "a"), "ns")>>),
         ("r" :> [Dir(<<>>) EXCEPT !.nested = TRUE]) @@ ("prod" :> Dir(<<Doc("ConfigMap", "p")>>)),
         "old" :> Dir(<<>>)}
CRDFiles(v) == {<<>>, Both(v), <<Yaml(<<CRD(2, v)>>)>>, <<Yaml(<<Doc("ConfigMap", "a")>>)>>,
                <<Yaml(<<[CRD(1, v) EXCEPT !.api = "v1beta1"]>>)>>,
                <<Yaml(<<CRD(1, v), CRD(2, v)>>), Yaml(<<CRD(1, v)>>)>>}

Base == [env |-> "r/1", declared |-> {"r", "prod"}, generated |-> <<In(Doc("ConfigMap", "chart"), "ns")>>,
         online |-> {TRUE}, lost |-> {{}}, policies |-> {"create"}, loads |-> 1, trees |-> {}]

Single ==
    {[Base EXCEPT !.env = e, !.online = {o}, !.trees = {t}] :
       e \in {"r/1", "prod"}, o \in BOOLEAN,
       t \in UNION {{Tree(v, x, d, c) : x \in Tops, d \in Dirs, c \in CRDFiles(v)} : v \in Versions}
             \cup {[Tree("v1", <<>>, <<>>, <<>>) EXCEPT !.crdDirs = TRUE]}}

Resources == <<Yaml(<<Doc("Widget", "w"), Doc("Gadget", "g")>>)>>
Racing ==
    {[Base EXCEPT !.loads = 3, !.policies = Policies, !.lost = {{}, {"Gadget"}},
                  !.trees = {Tree("v1", Resources, <<>>, Both("v1")),
                             Tree("v2", Resources, <<>>, <<Yaml(<<CRD(2, "v2")>>)>>),
                             Tree("v1", Resources, <<>>, <<>>)}]}

MCInputs == Single \cup Racing
=============================================================================
