------------------------------- MODULE MCDeploy -------------------------------
(***************************************************************************)
(* Instances of Deploy for TLC.                                            *)
(***************************************************************************)
EXTENDS Deploy, TLC

MCSizes == {"1Gi", "2Gi"}
MCQty == ("1Gi" :> 1) @@ ("2Gi" :> 2)

C(kind, size, host) ==
    [kind |-> kind, role |-> "service", size |-> size, class |-> "", fqdn |-> host]

Fast(c) == [c EXCEPT !.class = "fast"]

M(comps, crds) == [comps |-> comps, crds |-> crds]

\* Two components with volumes: both grow (and bring CRDs), one moves to another
\* hostname while the other is removed, one changes its kind.
TwoComponents ==
    {M(<<C("StatefulSet", "1Gi", "a"), C("Deployment", "1Gi", NoHost)>>, FALSE),
     M(<<C("StatefulSet", "2Gi", "a"), C("Deployment", "2Gi", NoHost)>>, TRUE),
     M(<<C("StatefulSet", "1Gi", "b"), NoComp>>, FALSE),
     M(<<C("Deployment", "1Gi", "a"), C("Deployment", "1Gi", NoHost)>>, FALSE)}

\* One component whose volume grows, moves to another storage class or goes.
Growing == {M(<<C("StatefulSet", "1Gi", "a")>>, FALSE),
            M(<<C("StatefulSet", "2Gi", "a")>>, TRUE),
            M(<<Fast(C("StatefulSet", "1Gi", "a"))>>, FALSE),
            M(<<C("StatefulSet", NoSize, "a")>>, FALSE)}

\* One component that moves to another hostname.
Moving == {M(<<C("Deployment", NoSize, "a")>>, FALSE),
           M(<<C("Deployment", NoSize, "b")>>, FALSE)}

\* Without "k8s" there is no Kubernetes client.
SomeFlags == {{"k8s"}, {"k8s", "resize"}, {"force"}}
ResizeFlags == {{"k8s", "resize"}, {"resize", "reapply"}}
PlainFlags == {{"k8s"}}
=============================================================================
