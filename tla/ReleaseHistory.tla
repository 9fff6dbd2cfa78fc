---------------------------- MODULE ReleaseHistory ----------------------------
(***************************************************************************)
(* A Helm release as its stored revisions, and how deployah reads them:    *)
(* plan.LastSuccessfulRelease, helm.newestRelease, and the rule Helm's     *)
(* upgrade action uses to pick the revision it supersedes (external).      *)
(*                                                                         *)
(* A history is a function on Revs; a revision that is not stored has      *)
(* status "none". History is never pruned (helm.GetReleaseHistory), so a   *)
(* gap only comes from an uninstall that was interrupted.                  *)
(***************************************************************************)
EXTENDS WorkloadGuards

CONSTANT MaxRev    \* bound on the revision number

ASSUME MaxRevAssumption == MaxRev \in Nat \ {0}

Revs == 1 .. MaxRev

Pending == {"pending-install", "pending-upgrade", "pending-rollback"}
Success == {"deployed", "superseded"}
Status == Pending \cup Success \cup {"none", "failed", "uninstalling"}

Rev == [status : Status, man : Manifest]
NoRev == [status |-> "none", man |-> NoManifest]

Stored(h) == {v \in Revs : h[v].status # "none"}

\* The highest revision of a set, 0 for none: both readers sort by Version
\* because Helm's storage drivers do not order the list.
Highest(S) == IF S = {} THEN 0 ELSE CHOOSE v \in S : \A w \in S : w <= v

newestRelease(h) == Highest(Stored(h))

\* Mutant: a superseded revision does not count.
MutSuccessful(h) == {v \in Revs : h[v].status = "deployed"}

Successful(h) == {v \in Revs : h[v].status \in Success}

LastSuccessfulRelease(h) == Highest(Successful(h))

\* The manifest a plan or a guard compares with; none before a first success.
Base(h) == LET v == LastSuccessfulRelease(h)
           IN  IF v = 0 THEN NoManifest ELSE h[v].man

IsPending(h) == newestRelease(h) # 0 /\ h[newestRelease(h)].status \in Pending

Deployed(h) == {v \in Revs : h[v].status = "deployed"}

\* Mutant: a pending newest revision is passed over.
MutUpgradeBase(h) ==
    IF newestRelease(h) = 0 THEN 0
    ELSE IF Deployed(h) # {} THEN Highest(Deployed(h)) ELSE newestRelease(h)

\* Helm's prepareUpgrade: the revision an upgrade replaces, 0 when it refuses.
UpgradeBase(h) ==
    LET last == newestRelease(h)
    IN  IF last = 0 \/ IsPending(h) THEN 0
        ELSE IF h[last].status = "deployed" THEN last
        ELSE IF Deployed(h) # {} THEN Highest(Deployed(h))
        ELSE IF h[last].status \in {"failed", "superseded"} THEN last
        ELSE 0

\* RenderManifests: a fresh name renders as an install, an existing one as a
\* dry-run upgrade, which Helm refuses like a real one.
Renderable(h) == Stored(h) = {} \/ UpgradeBase(h) # 0

\* The revisions of V take status s.
Mark(h, V, s) ==
    [v \in Revs |-> IF v \in V /\ h[v].status # "none"
                    THEN [status |-> s, man |-> h[v].man] ELSE h[v]]
=============================================================================
