---------------------------- MODULE GuardedRelease ----------------------------
(***************************************************************************)
(* What the deploy guards promise about one release: the manifest that is  *)
(* the baseline of the next deploy keeps kinds, roles and volumes and      *)
(* shrinks none of them until the release is uninstalled. Deploy, run by   *)
(* one process at a time and reading its history truly, implements this    *)
(* specification.                                                          *)
(***************************************************************************)
EXTENDS WorkloadGuards

CONSTANT Manifests

VARIABLE base    \* the baseline manifest, NoManifest when not installed

\* A component that both manifests have keeps its kind and role, its volume
\* does not shrink, and a StatefulSet neither gains nor loses its volume.
Compatible(m, n) ==
    \A c \in Components :
        LET old == m.comps[c]
            new == n.comps[c]
        IN  old.kind # "none" /\ new.kind # "none" =>
                /\ new.kind = old.kind
                /\ (new.role = "worker") = (old.role = "worker")
                /\ new.size # NoSize => Quantity(new.size) >= Quantity(old.size)
                /\ new.kind = "StatefulSet" =>
                      (new.size = NoSize) = (old.size = NoSize)

Init == base = NoManifest

Install(m) == base = NoManifest /\ base' = m

Upgrade(m) == base # NoManifest /\ Compatible(base, m) /\ base' = m

Uninstall == base' = NoManifest

Next == \/ \E m \in Manifests : Install(m) \/ Upgrade(m)
        \/ Uninstall

Spec == Init /\ [][Next]_base
=============================================================================
