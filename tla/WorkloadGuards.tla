---------------------------- MODULE WorkloadGuards ----------------------------
(***************************************************************************)
(* The deploy-time comparison of a manifest with the release it replaces: *)
(* the hostname guard, the workload guards and the detection of volume     *)
(* growth (cmd/deploy/deploy.go, guards.go, resize.go), next to what       *)
(* Kubernetes accepts when Helm applies the manifest in place.             *)
(*                                                                         *)
(* A manifest is what the chart values record of it (deployah.resolved):   *)
(* for every component its kind, role, persistence size, storage class and *)
(* FQDN, and whether the extras bundle of the deploy carries CRDs. A       *)
(* component that is absent, or not active in the environment, has kind    *)
(* "none".                                                                 *)
(***************************************************************************)
EXTENDS Integers

CONSTANTS
    Components,  \* component names, numbered in their sorted order
    Sizes,       \* spellings of a persistence.size ("1Gi", "1024Mi", ...)
    NoSize,      \* no persistence block
    Qty,         \* resource.ParseQuantity: the quantity a spelling denotes
    Classes,     \* storage classes ("" is the cluster's default)
    Hosts,       \* FQDNs the platform file can resolve
    NoHost       \* the component is not exposed

ASSUME ComponentsAssumption == Components \subseteq Nat
ASSUME SizesAssumption == /\ NoSize \notin Sizes
                          /\ Qty \in [Sizes -> Nat \ {0}]
ASSUME HostsAssumption == NoHost \notin Hosts

Kinds == {"Deployment", "StatefulSet"}

Comp == [kind : Kinds \cup {"none"}, role : {"", "service", "worker"},
         size : Sizes \cup {NoSize}, class : Classes \cup {""},
         fqdn : Hosts \cup {NoHost}]

Manifest == [comps : [Components -> Comp], crds : BOOLEAN]

NoComp == [kind |-> "none", role |-> "", size |-> NoSize, class |-> "",
           fqdn |-> NoHost]
NoManifest == [comps |-> [c \in Components |-> NoComp], crds |-> FALSE]

Quantity(s) == IF s = NoSize THEN 0 ELSE Qty[s]

Role(r) == IF r = "" THEN "service" ELSE r

(***************************************************************************)
(* hostnameChanges: the components exposed both before and now whose FQDN  *)
(* differs. A component that gains or loses its FQDN is not a change.      *)
(***************************************************************************)
HostnameChanges(prev, m) ==
    {c \in Components :
        /\ m.comps[c].kind # "none" /\ m.comps[c].fqdn # NoHost
        /\ prev.comps[c].kind # "none" /\ prev.comps[c].fqdn # NoHost
        /\ prev.comps[c].fqdn # m.comps[c].fqdn}

(***************************************************************************)
(* checkWorkloadGuards, one operator per rule; a component is compared     *)
(* only when it is active now and recorded in the previous release.        *)
(***************************************************************************)
Compared(prev, m) ==
    {c \in Components : m.comps[c].kind # "none" /\ prev.comps[c].kind # "none"}

persistenceSizeDecreased(prev, next) == Quantity(next) < Quantity(prev)

\* Mutant: the kind rule is missing.
MutKindChanged(p, n) == FALSE

KindChanged(p, n) == p.kind # n.kind
RoleChanged(p, n) == Role(p.role) # Role(n.role)
\* Mutant: only a removed volume is noticed, not an added one.
MutPersistenceToggled(p, n) ==
    /\ n.kind = "StatefulSet" \/ p.kind = "StatefulSet"
    /\ p.size # NoSize /\ n.size = NoSize
PersistenceToggled(p, n) ==
    /\ n.kind = "StatefulSet" \/ p.kind = "StatefulSet"
    /\ (p.size = NoSize) # (n.size = NoSize)
SizeDecreased(p, n) ==
    /\ n.size # NoSize /\ p.size # NoSize
    /\ persistenceSizeDecreased(p.size, n.size)

WorkloadErrors(prev, m) ==
    {c \in Compared(prev, m) :
        LET p == prev.comps[c]
            n == m.comps[c]
        IN  \/ KindChanged(p, n)
            \/ RoleChanged(p, n)
            \/ PersistenceToggled(p, n)
            \/ SizeDecreased(p, n)}

(***************************************************************************)
(* detectPersistenceResizes: the spellings differ and the new quantity is  *)
(* not smaller.                                                            *)
(***************************************************************************)
Resizes(prev, m) ==
    {c \in Compared(prev, m) :
        /\ m.comps[c].size # NoSize /\ prev.comps[c].size # NoSize
        /\ m.comps[c].size # prev.comps[c].size
        /\ ~ persistenceSizeDecreased(prev.comps[c].size, m.comps[c].size)}

StatefulResizes(prev, m) ==
    {c \in Resizes(prev, m) : m.comps[c].kind = "StatefulSet"}

(***************************************************************************)
(* The cluster side. A component owns at most one workload object of each  *)
(* kind and the claims that object mounts: a Deployment's claim is a chart *)
(* resource, a StatefulSet's claims come from its volumeClaimTemplates and *)
(* outlive it (pvcRetentionPolicy Retain, the chart default).              *)
(***************************************************************************)
Objs == Components \X Kinds

NoObj == -1    \* the object is not in the cluster

\* The size (0 without persistence) the chart renders for object o, or NoObj.
Want(m, o) == IF m.comps[o[1]].kind = o[2] THEN Quantity(m.comps[o[1]].size) ELSE NoObj

\* What of an object the API server holds fast: the size and the class of its
\* claims. For a StatefulSet the class stands for the whole rest of
\* volumeClaimTemplates: the storage class and the labels of a profile. The
\* access mode follows from the kind.
Object == [size : Nat \cup {NoObj}, class : Classes \cup {""}]

Absent == [size |-> NoObj, class |-> ""]

Rendered(m, o) == IF Want(m, o) = NoObj THEN Absent
                  ELSE [size |-> Want(m, o), class |-> m.comps[o[1]].class]

\* A StatefulSet in the cluster whose volumeClaimTemplates would change.
TemplateChanges(live, m, o) ==
    /\ o[2] = "StatefulSet" /\ live[o].size # NoObj
    /\ \/ live[o].size # Want(m, o)
       \/ Want(m, o) > 0 /\ live[o].class # m.comps[o[1]].class

\* A Deployment's claim that would shrink or move to another class.
ClaimChanges(live, pvc, m, o) ==
    /\ o[2] = "Deployment" /\ Want(m, o) > 0
    /\ pvc[o] > Want(m, o) \/ (pvc[o] > 0 /\ live[o].class # m.comps[o[1]].class)

\* What the API server refuses to patch in place.
Immutable(live, pvc, m, o) ==
    /\ Want(m, o) # NoObj
    /\ TemplateChanges(live, m, o) \/ ClaimChanges(live, pvc, m, o)

\* Helm's three-way update from manifest old to m, restricted to the objects
\* of S (a failed update may stop anywhere).
Updated(live, old, m, S) ==
    [o \in Objs |-> IF o \notin S THEN live[o]
                    ELSE IF Want(m, o) # NoObj THEN Rendered(m, o)
                    ELSE IF Want(old, o) # NoObj THEN Absent
                    ELSE live[o]]

\* Mutant: an object that is not rendered is given a claim of size NoObj.
MutClaims(pvc, old, m, S) ==
    [o \in Objs |-> IF o \in S /\ pvc[o] = 0 THEN Want(m, o) ELSE pvc[o]]

Claims(pvc, old, m, S) ==
    [o \in Objs |-> IF o \notin S THEN pvc[o]
                    ELSE IF Want(m, o) > 0 /\ (pvc[o] = 0 \/ o[2] = "Deployment")
                         THEN Want(m, o)
                    ELSE IF o[2] = "Deployment" /\ Want(old, o) > 0 THEN 0
                    ELSE pvc[o]]

\* A new claim is provisioned at its size; a grown one waits for the driver.
Capacity(cap, pvc, newPvc) ==
    [o \in Objs |-> IF newPvc[o] = 0 THEN 0
                    ELSE IF pvc[o] = 0 THEN newPvc[o]
                    ELSE cap[o]]
=============================================================================
