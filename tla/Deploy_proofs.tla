---------------------------- MODULE Deploy_proofs ----------------------------
(***************************************************************************)
(* Proofs about Deploy for every set of processes, components, manifests   *)
(* and every bound on runs and revisions.                                  *)
(***************************************************************************)
EXTENDS Deploy, TLAPS, WellFoundedInduction

-----------------------------------------------------------------------------
\* The readers of the history.

(***************************************************************************)
(* Highest of a non-empty set of revisions is its maximum: the CHOOSE that *)
(* stands for "sort by Version, newest first" always has a witness.        *)
(***************************************************************************)
LEMMA HighestIsMax ==
    ASSUME NEW S \in SUBSET Revs, S # {}
    PROVE  Highest(S) \in S /\ \A w \in S : w <= Highest(S)
<1> DEFINE T == {MaxRev - v : v \in S}
<1>1. T \subseteq Nat /\ T # {}
  BY MaxRevAssumption DEF Revs
<1>2. PICK x \in T : \A y \in T : ~ (<<y, x>> \in OpToRel(<, Nat))
  <2> HIDE DEF T
  <2> QED BY <1>1, WFMin, NatLessThanWellFounded
<1>3. PICK v \in S : x = MaxRev - v
  OBVIOUS
<1>4. \A w \in S : w <= v
  <2> TAKE w \in S
  <2>1. MaxRev - w \in T /\ MaxRev - w \in Nat /\ x \in Nat
    BY <1>1
  <2>2. ~ (MaxRev - w < x)
    BY <1>2, <2>1 DEF OpToRel
  <2> QED BY <1>3, <2>2, MaxRevAssumption DEF Revs
<1> QED BY <1>4 DEF Highest

LEMMA HighestType ==
    ASSUME NEW S \in SUBSET Revs
    PROVE  /\ Highest(S) \in 0 .. MaxRev
           /\ Highest(S) # 0 => Highest(S) \in S
<1>1. CASE S = {}
  BY <1>1, MaxRevAssumption DEF Highest
<1>2. CASE S # {}
  <2>1. Highest(S) \in S
    BY <1>2, HighestIsMax
  <2>2. Highest(S) \in Revs
    BY <2>1
  <2> QED BY <2>1, <2>2, MaxRevAssumption DEF Revs
<1> QED BY <1>1, <1>2

LEMMA NewestType ==
    ASSUME NEW h \in [Revs -> Rev]
    PROVE  /\ newestRelease(h) \in 0 .. MaxRev
           /\ newestRelease(h) # 0 => newestRelease(h) \in Stored(h)
BY HighestType, Stored(h) \in SUBSET Revs DEF newestRelease, Stored

LEMMA NoManifestType == NoManifest \in Manifest
BY DEF NoManifest, NoComp, Manifest, Comp

LEMMA NoRevType == NoRev \in Rev
BY NoManifestType DEF NoRev, Rev, Status

LEMMA BaseType ==
    ASSUME NEW h \in [Revs -> Rev]
    PROVE  Base(h) \in Manifest
<1>1. /\ LastSuccessfulRelease(h) \in 0 .. MaxRev
      /\ LastSuccessfulRelease(h) # 0 => LastSuccessfulRelease(h) \in Revs
  BY HighestType, Successful(h) \in SUBSET Revs DEF LastSuccessfulRelease, Successful
<1> QED BY <1>1, NoManifestType DEF Base, Rev

LEMMA UpgradeBaseType ==
    ASSUME NEW h \in [Revs -> Rev]
    PROVE  UpgradeBase(h) \in 0 .. MaxRev
<1>1. Highest(Deployed(h)) \in 0 .. MaxRev
  BY HighestType, Deployed(h) \in SUBSET Revs DEF Deployed
<1> QED BY <1>1, NewestType, MaxRevAssumption DEF UpgradeBase

LEMMA MarkType ==
    ASSUME NEW h \in [Revs -> Rev], NEW V, NEW s \in Status
    PROVE  Mark(h, V, s) \in [Revs -> Rev]
BY DEF Mark, Rev

\* Mark changes no manifest and stores nothing new.
LEMMA MarkKeeps ==
    ASSUME NEW h \in [Revs -> Rev], NEW V, NEW s \in Status, NEW v \in Revs
    PROVE  Mark(h, V, s)[v].man = h[v].man
BY DEF Mark, Rev

-----------------------------------------------------------------------------
\* TypeOK by the part of the state an action touches.
ClusterOK == /\ live \in [Objs -> Object]
             /\ pvc \in [Objs -> Nat]
             /\ cap \in [Objs -> Nat]
ProcOK == /\ run \in [Clis -> Run]
          /\ out \in [Clis -> Outcomes]
          /\ runs \in Nat

Parts == /\ hist \in [Revs -> Rev]
         /\ crd \in BOOLEAN
         /\ jobs \in BOOLEAN
         /\ ClusterOK
         /\ ProcOK

LEMMA TypeParts == TypeOK <=> Parts
BY DEF TypeOK, ClusterOK, ProcOK, Parts

LEMMA NoRunType == NoRun \in Run
BY NoManifestType, MaxRevAssumption DEF NoRun, Run, Steps, Ops, Flags

LEMMA GotoType ==
    ASSUME ProcOK, NEW p \in Clis, NEW s \in Steps, Goto(p, s)
    PROVE  ProcOK'
BY DEF ProcOK, Goto, Run

LEMMA EndType ==
    ASSUME ProcOK, NEW p \in Clis, NEW r \in Outcomes, End(p, r)
    PROVE  ProcOK'
BY NoRunType DEF ProcOK, End

LEMMA CheckType ==
    ASSUME ProcOK, NEW p \in Clis, NEW ok, NEW s \in Steps, Check(p, ok, s)
    PROVE  ProcOK'
BY GotoType, EndType DEF Check, Outcomes

LEMMA LocalType ==
    ASSUME ProcOK, NEW p \in Clis, NEW r \in Run, run' = [run EXCEPT ![p] = r],
           UNCHANGED <<out, runs>>
    PROVE  ProcOK'
BY DEF ProcOK

LEMMA AdvanceType ==
    ASSUME ProcOK, NEW p \in Clis, NEW c \in Components, NEW s \in Steps,
           NEW rest \in SUBSET Components, Advance(p, c, s, rest)
    PROVE  ProcOK'
<1> DEFINE l == IF run[p].left = {c} THEN rest ELSE run[p].left \ {c}
           s0 == IF run[p].left = {c} THEN s ELSE run[p].pc
<1>1. l \in SUBSET Components /\ s0 \in Steps
  BY DEF ProcOK, Run
<1>2. run' = [run EXCEPT ![p].left = l, ![p].pc = s0] /\ UNCHANGED <<out, runs>>
  BY DEF Advance
<1> HIDE DEF l, s0
<1> QED BY <1>1, <1>2 DEF ProcOK, Run

LEMMA QuantityType ==
    ASSUME NEW s \in Sizes \cup {NoSize}
    PROVE  Quantity(s) \in Nat
BY SizesAssumption DEF Quantity

LEMMA WantType ==
    ASSUME NEW m \in Manifest, NEW o \in Objs
    PROVE  Want(m, o) \in Nat \cup {NoObj}
<1>1. o[1] \in Components
  BY DEF Objs
<1>2. m.comps[o[1]] \in Comp
  BY <1>1 DEF Manifest
<1> QED BY <1>2, QuantityType DEF Want, Comp

LEMMA RenderedType ==
    ASSUME NEW m \in Manifest, NEW o \in Objs
    PROVE  Rendered(m, o) \in Object
<1>1. m.comps[o[1]] \in Comp
  BY DEF Objs, Manifest
<1> QED BY <1>1, WantType DEF Rendered, Absent, Object, Comp

LEMMA AbsentType == Absent \in Object
BY DEF Absent, Object

LEMMA UpdateType ==
    ASSUME ClusterOK, NEW m \in Manifest, NEW n \in Manifest, NEW S,
           live' = Updated(live, m, n, S), pvc' = Claims(pvc, m, n, S),
           cap' = Capacity(cap, pvc, pvc')
    PROVE  ClusterOK'
<1>1. /\ \A o \in Objs : Want(m, o) \in Nat \cup {NoObj}
      /\ \A o \in Objs : Want(n, o) \in Nat \cup {NoObj}
  BY WantType
<1>2. live' \in [Objs -> Object]
  BY RenderedType, AbsentType DEF Updated, ClusterOK
<1>3. pvc' \in [Objs -> Nat]
  BY <1>1 DEF Claims, ClusterOK, NoObj
<1>4. cap' \in [Objs -> Nat]
  BY <1>3 DEF Capacity, ClusterOK
<1> QED BY <1>2, <1>3, <1>4 DEF ClusterOK

-----------------------------------------------------------------------------
(***************************************************************************)
(* Type correctness: every state any number of CLI processes can reach is  *)
(* well-formed, whatever fails or dies in between.                         *)
(***************************************************************************)
LEMMA TypeInit == Init => TypeOK
<1> SUFFICES ASSUME Init PROVE TypeOK
  OBVIOUS
<1>1. hist \in [Revs -> Rev] /\ run \in [Clis -> Run] /\ out \in [Clis -> Outcomes]
  BY NoRevType, NoRunType DEF Init, Outcomes
<1>2. live \in [Objs -> Object] /\ pvc \in [Objs -> Nat] /\ cap \in [Objs -> Nat]
  BY AbsentType DEF Init
<1> QED BY <1>1, <1>2 DEF Init, TypeOK

LEMMA TypeNext == TypeOK /\ [Next]_vars => TypeOK'
<1> SUFFICES ASSUME TypeOK, [Next]_vars PROVE TypeOK'
  OBVIOUS
<1>t. Parts
  BY TypeParts
<1>p. SUFFICES Parts'
  BY DEF TypeOK, ClusterOK, ProcOK, Parts
<1>s. UNCHANGED storage => ClusterOK'
  BY <1>t DEF storage, ClusterOK, Parts
<1>r. \A p \in Clis : run[p] \in Run
  BY <1>t DEF ProcOK, Parts
<1>1. ASSUME NEW p \in Clis, NEW m \in Manifests, NEW f \in FlagSets, Start(p, m, f)
      PROVE  Parts'
  <2>1. m \in Manifest /\ f \in SUBSET Flags
    BY RunAssumption
  <2>2. [NoRun EXCEPT !.pc = "render", !.op = "deploy", !.man = m, !.flags = f] \in Run
    BY <2>1, NoRunType DEF Run, Steps, Ops
  <2> QED BY <1>1, <1>t, <1>s, <2>2 DEF Parts, Start, ProcOK, Outcomes
<1>2. ASSUME NEW p \in Clis, NEW f \in FlagSets, StartDelete(p, f)
      PROVE  Parts'
  <2>2. [NoRun EXCEPT !.pc = "delRead", !.op = "delete", !.flags = f \cap {"k8s"}] \in Run
    BY NoRunType DEF Run, Steps, Ops, Flags
  <2> QED BY <1>2, <1>t, <1>s, <2>2 DEF Parts, StartDelete, ProcOK, Outcomes
<1>3. ASSUME NEW p \in Clis, Step(p)
      PROVE  Parts'
  <2>0. \A r \in {"ok", "noop", "aborted", "error", "deleted", "stsNotFound"} : r \in Outcomes
    BY DEF Outcomes
  <2>m. run[p] \in Run /\ run[p].man \in Manifest
    BY <1>r DEF Run
  <2>1. CASE Render(p)
    BY <2>1, <1>t, <1>s, CheckType DEF Parts, Render, Steps
  <2>2. CASE Plan(p)
    <3>1. PICK b \in BOOLEAN :
             run' = [run EXCEPT ![p].pc = "hostGuard", ![p].changed = b]
      BY <2>2, Zenon DEF Plan
    <3> DEFINE r == [run[p] EXCEPT !.pc = "hostGuard", !.changed = b]
    <3>a. r \in Run
      BY <2>m DEF Run, Steps
    <3>b. run' = [run EXCEPT ![p] = r]
      BY <3>1, <1>t DEF Parts, ProcOK
    <3> HIDE DEF r
    <3>2. ProcOK'
      BY <2>2, <3>a, <3>b, <1>t, LocalType DEF Parts, Plan
    <3> QED BY <2>2, <3>2, <1>t, <1>s DEF Parts, Plan
  <2>3. CASE HostGuard(p)
    BY <2>3, <1>t, <1>s, CheckType DEF Parts, HostGuard, Steps
  <2>4. CASE WorkGuard(p)
    <3>0. PICK h \in Reads : Guards(p, Base(h))
      BY <2>4 DEF WorkGuard
    <3>1. Resizes(Base(h), run[p].man) \in SUBSET Components
      BY DEF Resizes, Compared
    <3>2. CASE End(p, "error") \/ End(p, "noop")
      BY <2>4, <3>2, <1>t, <1>s, <2>0, EndType DEF Parts, WorkGuard
    <3>3. CASE ~ (End(p, "error") \/ End(p, "noop"))
      <4> DEFINE grown == Resizes(Base(h), run[p].man)
      <4>1. /\ run' = [run EXCEPT ![p].pc = "confirm", ![p].resizes = grown]
            /\ UNCHANGED <<out, runs>>
        BY <3>0, <3>3 DEF Guards
      <4> HIDE DEF grown
      <4>2. grown \in SUBSET Components
        BY <3>1 DEF grown
      <4>p. ProcOK
        BY <1>t DEF Parts
      <4>s. "confirm" \in Steps
        BY DEF Steps
      <4>3. ProcOK'
        BY <4>1, <4>2, <4>p, <4>s DEF ProcOK, Run
      <4> QED BY <2>4, <4>3, <1>t, <1>s DEF Parts, WorkGuard
    <3> QED BY <3>2, <3>3
  <2>5. CASE Confirm(p)
    BY <2>5, <1>t, <1>s, <2>0, EndType, GotoType DEF Parts, Confirm, Steps
  <2>6. CASE Verify(p)
    BY <2>6, <1>t, <1>s, CheckType DEF Parts, Verify, Steps
  <2>7. CASE Crds(p)
    <3>1. CASE End(p, "ok") \/ End(p, "error")
      BY <2>7, <3>1, <1>t, <1>s, <2>0, EndType DEF Parts, Crds
    <3>2. CASE Goto(p, "installApp")
      BY <2>7, <3>2, <1>t, <1>s, GotoType DEF Parts, Crds, Steps
    <3>3. CASE ~ (End(p, "ok") \/ End(p, "error") \/ Goto(p, "installApp"))
      BY <2>7, <3>3, <1>t, <1>s, <2>m DEF Parts, Crds, ProcOK, Run, Steps
    <3> QED BY <3>1, <3>2, <3>3
  <2>8. ASSUME NEW c \in Components, Patch(p, c) \/ Wait(p, c) \/ Orphan(p, c)
        PROVE  Parts'
    <3>1. run[p].man.comps[c] \in Comp
      BY <2>m DEF Manifest
    <3>2. Quantity(run[p].man.comps[c].size) \in Nat
      BY <3>1, QuantityType DEF Comp
    <3>3. run[p].resizes \in SUBSET Components /\ Stateful(p) \in SUBSET Components
      BY <2>m DEF Run, Stateful
    <3>4. CASE Patch(p, c)
      <4>1. ClusterOK'
        BY <3>4, <3>2, <1>t DEF Patch, Parts, ClusterOK
      <4>2. ProcOK'
        BY <3>4, <3>3, <1>t, <2>0, EndType, AdvanceType DEF Patch, Parts, Steps
      <4> QED BY <3>4, <4>1, <4>2, <1>t DEF Patch, Parts
    <3>5. CASE Wait(p, c)
      <4>1. ProcOK'
        BY <3>5, <3>3, <1>t, <2>0, EndType, AdvanceType DEF Wait, Parts, Steps
      <4> QED BY <3>5, <4>1, <1>t, <1>s DEF Wait, Parts
    <3>6. CASE Orphan(p, c)
      <4>1. ClusterOK'
        BY <3>6, <1>t, AbsentType DEF Orphan, Parts, ClusterOK
      <4>2. ProcOK'
        BY <3>6, <1>t, <2>0, EndType, AdvanceType, {} \in SUBSET Components
        DEF Orphan, Parts, Steps
      <4> QED BY <3>6, <4>1, <4>2, <1>t DEF Orphan, Parts
    <3> QED BY <2>8, <3>4, <3>5, <3>6
  <2>9. CASE InstallApp(p)
    <3>1. CASE End(p, "error")
      BY <2>9, <3>1, <1>t, <1>s, <2>0, EndType DEF Parts, InstallApp
    <3>2. CASE ~ End(p, "error")
      BY <2>9, <3>2, <1>t, <1>s DEF Parts, InstallApp, ProcOK, Run, Steps, Ops
    <3> QED BY <3>1, <3>2
  <2>10. CASE Prepare(p)
    <3>1. CASE End(p, "error")
      BY <2>10, <3>1, <1>t, <1>s, <2>0, EndType DEF Parts, Prepare
    <3>2. CASE ~ End(p, "error")
      <4> DEFINE last == newestRelease(hist)
                 base == IF run[p].op = "upgrade" THEN UpgradeBase(hist) ELSE last
                 m == IF run[p].op = "rollback" THEN Base(hist) ELSE run[p].man
      <4>1. /\ last < MaxRev
            /\ run' = [run EXCEPT ![p].pc = "create", ![p].rev = last + 1,
                                  ![p].cur = base, ![p].man = m]
            /\ UNCHANGED <<out, runs>>
        BY <2>10, <3>2 DEF Prepare
      <4>2. last \in 0 .. MaxRev /\ base \in 0 .. MaxRev /\ m \in Manifest
        BY <1>t, <2>m, NewestType, UpgradeBaseType, BaseType DEF Parts
      <4> HIDE DEF last, base, m
      <4>3. last + 1 \in 0 .. MaxRev
        BY <4>1, <4>2, MaxRevAssumption
      <4> DEFINE r == [run[p] EXCEPT !.pc = "create", !.rev = last + 1,
                                     !.cur = base, !.man = m]
      <4>a. r \in Run
        BY <2>m, <4>2, <4>3 DEF Run, Steps
      <4>b. run' = [run EXCEPT ![p] = r]
        BY <4>1, <1>t DEF Parts, ProcOK
      <4> HIDE DEF r
      <4>4. ProcOK'
        BY <4>1, <4>a, <4>b, <1>t, LocalType DEF Parts
      <4> QED BY <2>10, <4>4, <1>t, <1>s DEF Parts, Prepare
    <3> QED BY <3>1, <3>2
  <2>11. CASE Create(p)
    <3>1. ProcOK'
      BY <2>11, <1>t, <2>0, EndType, GotoType DEF Parts, Create, Steps
    <3>2. PendingStatus(p) \in Status
      BY DEF PendingStatus, Status, Pending
    <3>3. [status |-> PendingStatus(p), man |-> run[p].man] \in Rev
      BY <3>2, <2>m DEF Rev
    <3>4. hist' \in [Revs -> Rev]
      BY <2>11, <1>t, <3>3 DEF Parts, Create
    <3> QED BY <2>11, <3>1, <3>4, <1>t, <1>s DEF Parts, Create
  <2>r. Replaced(p) \in Manifest
    <3>1. run[p].cur \in 0 .. MaxRev
      BY <2>m DEF Run
    <3>2. run[p].cur # 0 => run[p].cur \in Revs
      BY <3>1, MaxRevAssumption DEF Revs
    <3> QED BY <3>2, <1>t, NoManifestType DEF Replaced, Parts, Rev
  <2>12. CASE ApplyOK(p)
    <3>1. ClusterOK'
      BY <2>12, <2>r, <2>m, <1>t, UpdateType DEF ApplyOK, Update, Parts
    <3> QED BY <2>12, <3>1, <1>t, GotoType DEF ApplyOK, Parts, Steps
  <2>13. ASSUME NEW S \in SUBSET Objs, ApplyFail(p, S)
         PROVE  Parts'
    <3>1. ClusterOK'
      BY <2>13, <2>r, <2>m, <1>t, UpdateType DEF ApplyFail, Update, Parts
    <3> QED BY <2>13, <3>1, <1>t, GotoType DEF ApplyFail, Parts, Steps
  <2>s. /\ "superseded" \in Status /\ "deployed" \in Status /\ "failed" \in Status
        /\ "uninstalling" \in Status
    BY DEF Status, Success
  <2>14. CASE Supersede(p)
    <3>1. hist' \in [Revs -> Rev]
      BY <2>14, <2>s, <1>t, MarkType DEF Supersede, Parts
    <3> QED BY <2>14, <3>1, <1>t, <1>s, GotoType DEF Supersede, Parts, Steps
  <2>15. CASE Commit(p)
    <3>1. hist' \in [Revs -> Rev]
      BY <2>15, <2>s, <1>t, MarkType DEF Commit, Parts
    <3> QED BY <2>15, <3>1, <1>t, <1>s, <2>0, EndType DEF Commit, Parts
  <2>16. CASE Failed(p)
    <3>1. hist' \in [Revs -> Rev]
      BY <2>16, <2>s, <1>t, MarkType DEF Failed, Parts
    <3>2. ProcOK'
      <4>1. CASE Goto(p, "unmark") \/ End(p, "error")
        BY <4>1, <1>t, <2>0, GotoType, EndType DEF Parts, Steps
      <4>2. CASE ~ (Goto(p, "unmark") \/ End(p, "error"))
        BY <2>16, <4>2, <1>t DEF Failed, Parts, ProcOK, Run, Steps, Ops
      <4> QED BY <4>1, <4>2
    <3> QED BY <2>16, <3>1, <3>2, <1>t, <1>s DEF Failed, Parts
  <2>17. CASE UnMark(p)
    <3>1. hist' \in [Revs -> Rev]
      BY <2>17, <2>s, <1>t, MarkType DEF UnMark, Parts
    <3>2. ProcOK'
      <4>1. CASE Uninstalled(p)
        BY <4>1, <1>t, <2>0, GotoType, EndType DEF Uninstalled, Parts, Steps
      <4>2. CASE ~ Uninstalled(p)
        <5> DEFINE last == newestRelease(hist)
        <5>1. /\ last # 0
              /\ run' = [run EXCEPT ![p].pc = "undelete", ![p].man = hist[last].man,
                                    ![p].vers = Stored(hist)]
              /\ UNCHANGED <<out, runs>>
          BY <2>17, <4>2 DEF UnMark
        <5>2. last \in Stored(hist) /\ Stored(hist) \in SUBSET Revs
          BY <5>1, <1>t, NewestType DEF Parts, Stored
        <5>3. hist[last].man \in Manifest
          BY <5>2, <1>t DEF Parts, Rev
        <5> HIDE DEF last
        <5> DEFINE r == [run[p] EXCEPT !.pc = "undelete", !.man = hist[last].man,
                                       !.vers = Stored(hist)]
        <5>a. r \in Run
          BY <2>m, <5>2, <5>3 DEF Run, Steps
        <5>b. run' = [run EXCEPT ![p] = r]
          BY <5>1, <1>t DEF Parts, ProcOK
        <5> HIDE DEF r
        <5> QED BY <5>1, <5>a, <5>b, <1>t, LocalType DEF Parts
      <4> QED BY <4>1, <4>2
    <3> QED BY <2>17, <3>1, <3>2, <1>t, <1>s DEF UnMark, Parts
  <2>18. CASE UnDelete(p)
    <3>1. ClusterOK'
      BY <2>18, <2>m, <1>t, NoManifestType, UpdateType DEF UnDelete, Parts
    <3> QED BY <2>18, <3>1, <1>t, GotoType DEF UnDelete, Parts, Steps
  <2>19. ASSUME NEW v \in Revs, Purge(p, v)
         PROVE  Parts'
    <3>1. hist' \in [Revs -> Rev]
      BY <2>19, <1>t, NoRevType DEF Purge, Parts
    <3>2. ProcOK'
      <4>1. CASE Uninstalled(p)
        BY <4>1, <1>t, <2>0, GotoType, EndType DEF Uninstalled, Parts, Steps
      <4>2. CASE ~ Uninstalled(p)
        BY <2>19, <4>2, <1>t DEF Purge, Parts, ProcOK, Run
      <4> QED BY <4>1, <4>2
    <3> QED BY <2>19, <3>1, <3>2, <1>t, <1>s DEF Purge, Parts
  <2>20. CASE DelRead(p)
    <3>1. CASE End(p, "noop")
      BY <2>20, <3>1, <1>t, <1>s, <2>0, EndType DEF Parts, DelRead
    <3>2. CASE ~ End(p, "noop")
      <4>0. PICK h \in Reads : Found(p, newestRelease(h))
        BY <2>20 DEF DelRead
      <4>1. h \in [Revs -> Rev]
        BY <1>t, NoRevType DEF Reads, NoHistory, Parts
      <4> DEFINE last == newestRelease(h)
      <4>2. last \in 0 .. MaxRev
        BY <4>1, NewestType
      <4>3. /\ run' = [run EXCEPT ![p].pc = "delConfirm", ![p].cur = last]
            /\ UNCHANGED <<out, runs>>
        BY <4>0, <3>2 DEF Found
      <4> HIDE DEF last
      <4>p. ProcOK
        BY <1>t DEF Parts
      <4>s. "delConfirm" \in Steps
        BY DEF Steps
      <4>4. ProcOK'
        BY <4>2, <4>3, <4>p, <4>s DEF ProcOK, Run
      <4> QED BY <2>20, <4>4, <1>t, <1>s DEF Parts, DelRead
    <3> QED BY <3>1, <3>2
  <2>21. CASE DelConfirm(p)
    BY <2>21, <1>t, <1>s, <2>0, EndType, GotoType DEF Parts, DelConfirm, Steps
  <2>22. CASE DelJobs(p)
    BY <2>22, <1>t, <1>s, <2>0, EndType DEF Parts, DelJobs, Outcomes
  <2> QED
    BY <1>3, <2>1, <2>2, <2>3, <2>4, <2>5, <2>6, <2>7, <2>8, <2>9, <2>10, <2>11,
       <2>12, <2>13, <2>14, <2>15, <2>16, <2>17, <2>18, <2>19, <2>20, <2>21, <2>22
    DEF Step
<1>4. ASSUME NEW p \in Clis, Fault(p)
      PROVE  Parts'
  BY <1>4, <1>t, <1>s, EndType DEF Parts, Fault, Outcomes
<1>5. ASSUME NEW o \in Objs, Expand(o)
      PROVE  Parts'
  BY <1>5, <1>t DEF Parts, Expand, ClusterOK, ProcOK
<1>6. CASE UNCHANGED vars
  BY <1>6, <1>t, <1>s DEF Parts, vars, storage, ProcOK
<1> QED BY <1>1, <1>2, <1>3, <1>4, <1>5, <1>6 DEF Next

THEOREM TypeCorrect == Spec => []TypeOK
BY TypeInit, TypeNext, PTL DEF Spec
-----------------------------------------------------------------------------
(***************************************************************************)
(* CRDs come before the release. What CRDsBeforeRelease lacks to be        *)
(* inductive is the memory of a process that is past applyBundleCRDs: its  *)
(* manifest may be written into the history steps later, or restored by a  *)
(* rollback after its upgrade failed.                                      *)
(***************************************************************************)
AfterCrds == {"patch", "wait", "orphan", "installApp", "prepare", "create",
              "apply", "failed"}

CRDSafe(p) == run[p].pc \in AfterCrds /\ run[p].man.crds => crd

CRDInv == /\ \A v \in Revs : hist[v].man.crds => crd
          /\ \A p \in Clis : CRDSafe(p)

\* No other process is disturbed.
Alone(p) == \A q \in Clis \ {p} : run'[q] = run[q]

LEMMA GotoMan ==
    ASSUME ProcOK, NEW p \in Clis, NEW s, Goto(p, s)
    PROVE  Alone(p) /\ run'[p].pc = s /\ run'[p].man = run[p].man
BY DEF ProcOK, Run, Goto, Alone

LEMMA EndMan ==
    ASSUME ProcOK, NEW p \in Clis, NEW r, End(p, r)
    PROVE  Alone(p) /\ run'[p].pc \notin AfterCrds
BY DEF ProcOK, End, Alone, NoRun, AfterCrds

LEMMA AdvanceMan ==
    ASSUME ProcOK, NEW p \in Clis, NEW c, NEW s, NEW rest, Advance(p, c, s, rest)
    PROVE  Alone(p) /\ run'[p].man = run[p].man
BY DEF ProcOK, Run, Advance, Alone

\* A step of p that forgets no CRD keeps the invariant.
LEMMA CRDKeep ==
    ASSUME CRDInv, NEW p \in Clis, Alone(p), crd => crd', CRDSafe(p)',
           \A v \in Revs : hist'[v].man.crds => crd'
    PROVE  CRDInv'
BY DEF CRDInv, CRDSafe, Alone

\* A step of p that leaves the history and the CRDs alone.
LEMMA CRDLocal ==
    ASSUME CRDInv, NEW p \in Clis, Alone(p), CRDSafe(p)', UNCHANGED <<hist, crd>>
    PROVE  CRDInv'
BY CRDKeep DEF CRDInv

LEMMA CRDBase == ASSUME TypeOK, CRDInv PROVE Base(hist).crds => crd
<1>1. LastSuccessfulRelease(hist) # 0 => LastSuccessfulRelease(hist) \in Revs
  BY HighestType DEF LastSuccessfulRelease, Successful
<1> QED BY <1>1 DEF Base, CRDInv, NoManifest

LEMMA CRDInit == Init => CRDInv
BY DEF Init, CRDInv, CRDSafe, NoRev, NoManifest, NoRun, AfterCrds

LEMMA CRDNext == TypeOK /\ CRDInv /\ [Next]_vars => CRDInv'
<1> SUFFICES ASSUME TypeOK, CRDInv, [Next]_vars PROVE CRDInv'
  OBVIOUS
<1>t. Parts
  BY TypeParts
<1>u. ProcOK /\ run \in [Clis -> Run]
  BY <1>t DEF Parts, ProcOK
<1>1. ASSUME NEW p \in Clis, NEW m \in Manifests, NEW f \in FlagSets, Start(p, m, f)
      PROVE  CRDInv'
  <2>1. Alone(p) /\ run'[p].pc = "render"
    BY <1>1, <1>u DEF Start, Alone, NoRun
  <2> QED BY <1>1, <2>1, CRDLocal DEF Start, CRDSafe, AfterCrds
<1>2. ASSUME NEW p \in Clis, NEW f \in FlagSets, StartDelete(p, f)
      PROVE  CRDInv'
  <2>1. Alone(p) /\ run'[p].pc = "delRead"
    BY <1>2, <1>u DEF StartDelete, Alone, NoRun
  <2> QED BY <1>2, <2>1, CRDLocal DEF StartDelete, CRDSafe, AfterCrds
<1>3. ASSUME NEW p \in Clis, Step(p)
      PROVE  CRDInv'
  <2>r. run[p] \in Run /\ CRDSafe(p)
    BY <1>u DEF CRDInv
  <2>e. ASSUME NEW r, End(p, r), UNCHANGED <<hist, crd>> PROVE CRDInv'
    BY <2>e, <1>u, EndMan, CRDLocal DEF CRDSafe
  <2>g. ASSUME NEW s, s \notin AfterCrds, Goto(p, s), UNCHANGED <<hist, crd>> PROVE CRDInv'
    BY <2>g, <1>u, GotoMan, CRDLocal DEF CRDSafe
  <2>l. ASSUME Alone(p), run'[p].man = run[p].man, run[p].pc \in AfterCrds,
               UNCHANGED <<hist, crd>>
        PROVE  CRDInv'
    BY <2>l, <2>r, CRDLocal DEF CRDSafe
  <2>1. CASE Render(p) \/ HostGuard(p)
    BY <2>1, <2>e, <2>g DEF Render, HostGuard, Check, AfterCrds
  <2>2. CASE Plan(p)
    <3>1. Alone(p) /\ run'[p].pc = "hostGuard"
      BY <2>2, <1>u, <2>r DEF Plan, Alone, Run
    <3> QED BY <2>2, <3>1, CRDLocal DEF Plan, CRDSafe, AfterCrds
  <2>4. CASE WorkGuard(p)
    <3>1. CASE End(p, "error") \/ End(p, "noop")
      BY <2>4, <3>1, <2>e DEF WorkGuard
    <3>2. CASE ~ (End(p, "error") \/ End(p, "noop"))
      <4>1. Alone(p) /\ run'[p].pc = "confirm"
        BY <2>4, <3>2, <1>u, <2>r DEF WorkGuard, Guards, Alone, Run
      <4> QED BY <2>4, <4>1, CRDLocal DEF WorkGuard, CRDSafe, AfterCrds
    <3> QED BY <3>1, <3>2
  <2>5. CASE Confirm(p) \/ Verify(p)
    BY <2>5, <2>e, <2>g DEF Confirm, Verify, Check, AfterCrds
  <2>7. CASE Crds(p)
    <3>1. Alone(p) /\ (run'[p].pc \in AfterCrds => run'[p].man = run[p].man)
      <4>1. CASE End(p, "ok") \/ End(p, "error")
        BY <4>1, <1>u, EndMan
      <4>2. CASE Goto(p, "installApp")
        BY <4>2, <1>u, GotoMan
      <4>3. CASE ~ (End(p, "ok") \/ End(p, "error") \/ Goto(p, "installApp"))
        BY <2>7, <4>3, <1>u, <2>r DEF Crds, Alone, Run
      <4> QED BY <4>1, <4>2, <4>3
    <3>2. (crd => crd') /\ (run[p].man.crds => crd') /\ hist' = hist
      BY <2>7 DEF Crds
    <3> QED BY <3>1, <3>2, CRDKeep DEF CRDSafe, CRDInv
  <2>8. ASSUME NEW c \in Components, Patch(p, c) \/ Wait(p, c) \/ Orphan(p, c)
        PROVE  CRDInv'
    <3>1. run[p].pc \in AfterCrds /\ UNCHANGED <<hist, crd>>
      BY <2>8 DEF Patch, Wait, Orphan, At, AfterCrds, storage
    <3>2. \/ \E r : End(p, r)
          \/ \E s, rest : Advance(p, c, s, rest)
      BY <2>8, Zenon DEF Patch, Wait, Orphan
    <3> QED BY <3>1, <3>2, <2>e, <2>l, <1>u, AdvanceMan
  <2>9. CASE InstallApp(p)
    <3>1. CASE End(p, "error")
      BY <2>9, <3>1, <2>e DEF InstallApp
    <3>2. CASE ~ End(p, "error")
      <4>1. Alone(p) /\ run'[p].man = run[p].man
        BY <2>9, <3>2, <1>u, <2>r DEF InstallApp, Alone, Run
      <4> QED BY <2>9, <4>1, <2>l DEF InstallApp, At, AfterCrds
    <3> QED BY <3>1, <3>2
  <2>10. CASE Prepare(p)
    <3>1. CASE End(p, "error")
      BY <2>10, <3>1, <2>e DEF Prepare
    <3>2. CASE ~ End(p, "error")
      <4> DEFINE last == newestRelease(hist)
                 base == IF run[p].op = "upgrade" THEN UpgradeBase(hist) ELSE last
                 m == IF run[p].op = "rollback" THEN Base(hist) ELSE run[p].man
      <4>1. run' = [run EXCEPT ![p].pc = "create", ![p].rev = last + 1,
                               ![p].cur = base, ![p].man = m]
        BY <2>10, <3>2 DEF Prepare
      <4>2. m.crds => crd
        BY <2>10, <2>r, CRDBase DEF Prepare, At, CRDSafe, AfterCrds
      <4> HIDE DEF last, base, m
      <4>3. Alone(p) /\ run'[p].man = m
        BY <4>1, <1>u, <2>r DEF Alone, Run
      <4>4. CRDSafe(p)'
        BY <2>10, <4>2, <4>3 DEF CRDSafe, Prepare
      <4> QED BY <2>10, <4>3, <4>4, CRDLocal DEF Prepare
    <3> QED BY <3>1, <3>2
  <2>11. CASE Create(p)
    <3>1. CASE End(p, "error") /\ hist' = hist
      BY <2>11, <3>1, <2>e DEF Create
    <3>2. CASE ~ (End(p, "error") /\ hist' = hist)
      <4>1. /\ hist' = [hist EXCEPT ![run[p].rev] =
                            [status |-> PendingStatus(p), man |-> run[p].man]]
            /\ Goto(p, "apply") /\ crd' = crd /\ run[p].pc \in AfterCrds
        BY <2>11, <3>2 DEF Create, At, AfterCrds
      <4>2. Alone(p) /\ CRDSafe(p)'
        BY <4>1, <1>u, <2>r, GotoMan DEF CRDSafe
      <4>3. \A v \in Revs : hist'[v].man.crds => crd'
        BY <4>1, <2>r, <1>t DEF CRDInv, CRDSafe, Parts
      <4> QED BY <4>1, <4>2, <4>3, CRDKeep
    <3> QED BY <3>1, <3>2
  <2>12. CASE ApplyOK(p)
    BY <2>12, <2>g DEF ApplyOK, AfterCrds
  <2>13. ASSUME NEW S \in SUBSET Objs, ApplyFail(p, S)
         PROVE  CRDInv'
    BY <2>13, <2>l, <1>u, GotoMan DEF ApplyFail, At, AfterCrds
  <2>k. ASSUME \A v \in Revs : hist'[v].man = hist[v].man, crd' = crd, Alone(p),
               CRDSafe(p)'
        PROVE  CRDInv'
    BY <2>k, CRDKeep DEF CRDInv
  <2>s. /\ "superseded" \in Status /\ "deployed" \in Status /\ "failed" \in Status
        /\ "uninstalling" \in Status /\ hist \in [Revs -> Rev]
    BY <1>t DEF Status, Success, Parts
  <2>14. CASE Supersede(p)
    <3>1. \A v \in Revs : hist'[v].man = hist[v].man
      BY <2>14, <2>s, MarkKeeps DEF Supersede
    <3>2. Alone(p) /\ CRDSafe(p)'
      BY <2>14, <1>u, GotoMan DEF Supersede, CRDSafe, AfterCrds
    <3> QED BY <2>14, <3>1, <3>2, <2>k DEF Supersede
  <2>15. CASE Commit(p)
    <3>1. \A v \in Revs : hist'[v].man = hist[v].man
      BY <2>15, <2>s, MarkKeeps DEF Commit
    <3> QED BY <2>15, <3>1, <2>k, <1>u, EndMan DEF Commit, CRDSafe
  <2>16. CASE Failed(p)
    <3>1. \A v \in Revs : hist'[v].man = hist[v].man
      BY <2>16, <2>s, MarkKeeps, MarkType DEF Failed
    <3>2. Alone(p) /\ (run'[p].pc \in AfterCrds => run'[p].man = run[p].man)
      <4>1. CASE Goto(p, "unmark") \/ End(p, "error")
        BY <4>1, <1>u, EndMan, GotoMan
      <4>2. CASE ~ (Goto(p, "unmark") \/ End(p, "error"))
        BY <2>16, <4>2, <1>u, <2>r DEF Failed, Alone, Run
      <4> QED BY <4>1, <4>2
    <3>3. CRDSafe(p)'
      BY <2>16, <3>2, <2>r DEF Failed, At, CRDSafe, AfterCrds
    <3> QED BY <2>16, <3>1, <3>2, <3>3, <2>k DEF Failed
  <2>d. ASSUME Uninstalled(p) PROVE Alone(p) /\ CRDSafe(p)'
    BY <2>d, <1>u, GotoMan, EndMan DEF Uninstalled, CRDSafe, AfterCrds
  <2>17. CASE UnMark(p)
    <3>1. \A v \in Revs : hist'[v].man = hist[v].man
      BY <2>17, <2>s, MarkKeeps DEF UnMark
    <3>2. Alone(p) /\ CRDSafe(p)'
      <4>1. CASE ~ Uninstalled(p)
        <5>1. Alone(p) /\ run'[p].pc = "undelete"
          BY <2>17, <4>1, <1>u, <2>r DEF UnMark, Alone, Run
        <5> QED BY <5>1 DEF CRDSafe, AfterCrds
      <4> QED BY <4>1, <2>d
    <3> QED BY <2>17, <3>1, <3>2, <2>k DEF UnMark
  <2>18. CASE UnDelete(p)
    BY <2>18, <2>g DEF UnDelete, AfterCrds
  <2>19. ASSUME NEW v \in Revs, Purge(p, v)
         PROVE  CRDInv'
    <3>1. \A w \in Revs : hist'[w].man.crds => crd'
      BY <2>19, <2>s DEF Purge, CRDInv, NoRev, NoManifest
    <3>2. Alone(p) /\ CRDSafe(p)'
      <4>1. CASE ~ Uninstalled(p)
        <5>1. Alone(p) /\ run'[p].pc = "purge"
          BY <2>19, <4>1, <1>u, <2>r DEF Purge, At, Alone, Run
        <5> QED BY <5>1 DEF CRDSafe, AfterCrds
      <4> QED BY <4>1, <2>d
    <3> QED BY <2>19, <3>1, <3>2, CRDKeep DEF Purge
  <2>20. CASE DelRead(p)
    <3>1. CASE End(p, "noop")
      BY <2>20, <3>1, <2>e DEF DelRead
    <3>2. CASE ~ End(p, "noop")
      <4>1. Alone(p) /\ run'[p].pc = "delConfirm"
        BY <2>20, <3>2, <1>u, <2>r DEF DelRead, Found, Alone, Run
      <4> QED BY <2>20, <4>1, CRDLocal DEF DelRead, CRDSafe, AfterCrds
    <3> QED BY <3>1, <3>2
  <2>21. CASE DelConfirm(p)
    BY <2>21, <2>e, <2>g DEF DelConfirm, AfterCrds
  <2>22. CASE DelJobs(p)
    BY <2>22, <2>e DEF DelJobs
  <2> QED
    BY <1>3, <2>1, <2>2, <2>4, <2>5, <2>7, <2>8, <2>9, <2>10, <2>11, <2>12, <2>13,
       <2>14, <2>15, <2>16, <2>17, <2>18, <2>19, <2>20, <2>21, <2>22
    DEF Step
<1>4. ASSUME NEW p \in Clis, Fault(p)
      PROVE  CRDInv'
  BY <1>4, <1>u, EndMan, CRDLocal DEF Fault, CRDSafe
<1>5. ASSUME NEW o \in Objs, Expand(o)
      PROVE  CRDInv'
  BY <1>5 DEF Expand, CRDInv, CRDSafe
<1>6. CASE UNCHANGED vars
  BY <1>6 DEF vars, CRDInv, CRDSafe
<1> QED BY <1>1, <1>2, <1>3, <1>4, <1>5, <1>6 DEF Next

\* However many processes deploy, fail, roll back, delete or die, no revision
\* whose bundle carries CRDs is recorded before they are Established.
THEOREM CRDsFirst == Spec => []CRDsBeforeRelease
<1>1. CRDInv => CRDsBeforeRelease
  BY DEF CRDInv, CRDsBeforeRelease, Stored
<1> QED BY <1>1, TypeCorrect, CRDInit, CRDNext, PTL DEF Spec

-----------------------------------------------------------------------------
(***************************************************************************)
(* Racing deploys. Without deletes the history has no gap, and only the    *)
(* first install of a release ever takes a revision back: while it runs    *)
(* the history is young, and no upgrade or rollback is past its Prepare.   *)
(* So the revision an upgrade has prepared is the next one when it is      *)
(* still free, and the one before it was not pending and never will be.    *)
(***************************************************************************)
HelmActions == {"install", "upgrade", "rollback"}
Late == {"apply", "supersede", "commit", "failed", "unmark", "undelete", "purge"}

Young == \A v \in Revs : hist[v].status # "none" =>
            v = 1 /\ hist[v].status \in {"pending-install", "uninstalling"}

NoGap == \A v, w \in Revs : hist[v].status # "none" /\ w < v => hist[w].status # "none"

Installing(p) == run[p].op = "install" /\ run[p].pc \in Late

Prepared(p) == run[p].pc = "create" =>
    /\ run[p].rev \in Revs
    /\ \A w \in Revs : w < run[p].rev => hist[w].status # "none"
    /\ run[p].op = "install" => run[p].rev = 1
    /\ run[p].op = "upgrade" => run[p].rev > 1 /\ hist[run[p].rev - 1].status \notin Pending

PSafe(p) ==
    /\ run[p].op # "delete" /\ run[p].pc \notin {"delRead", "delConfirm", "delJobs"}
    /\ run[p].pc \in {"prepare", "create"} \cup Late => run[p].op \in HelmActions
    /\ run[p].pc \in {"unmark", "undelete", "purge"} => run[p].op = "install"
    /\ run[p].pc \in {"undelete", "purge"} => run[p].vers = {1}
    /\ Installing(p) => Young /\ hist[1].status # "none" /\ run[p].rev = 1
    /\ run[p].op \in {"upgrade", "rollback"} /\ run[p].pc \in {"create"} \cup Late => ~ Young
    /\ Prepared(p)

OneInstall == \A p, q \in Clis : Installing(p) /\ Installing(q) => p = q

PInv == NoGap /\ OneInstall /\ \A p \in Clis : PSafe(p)

\* Goto, End and Advance in the fields that matter here.
LEMMA GotoFields ==
    ASSUME ProcOK, NEW p \in Clis, NEW s, Goto(p, s)
    PROVE  /\ Alone(p) /\ run'[p].pc = s /\ run'[p].op = run[p].op
           /\ run'[p].rev = run[p].rev /\ run'[p].vers = run[p].vers
BY DEF ProcOK, Run, Goto, Alone

LEMMA EndFields ==
    ASSUME ProcOK, NEW p \in Clis, NEW r, End(p, r)
    PROVE  Alone(p) /\ run'[p].pc = "idle" /\ run'[p].op = "none"
BY DEF ProcOK, End, Alone, NoRun

LEMMA AdvanceFields ==
    ASSUME ProcOK, NEW p \in Clis, NEW c, NEW s, NEW rest, Advance(p, c, s, rest)
    PROVE  Alone(p) /\ run'[p].op = run[p].op /\ run'[p].pc \in {run[p].pc, s}
BY DEF ProcOK, Run, Advance, Alone

-----------------------------------------------------------------------------
\* What the other processes need of a step.

LEMMA OneInRevs == 1 \in Revs
BY MaxRevAssumption DEF Revs

\* While the history is young nobody but the install is anywhere.
LEMMA YoungOthers ==
    ASSUME PInv, Young, NEW q \in Clis, ~ Installing(q), run'[q] = run[q]
    PROVE  PSafe(q)'
<1>1. PSafe(q)
  BY DEF PInv
<1>2. run[q].pc \notin Late
  BY <1>1 DEF PSafe, Installing, HelmActions
<1>3. run[q].pc = "create" => run[q].op = "install" /\ run[q].rev = 1
  BY <1>1 DEF PSafe, HelmActions, Prepared
<1>4. \A w \in Revs : ~ (w < 1)
  BY MaxRevAssumption DEF Revs
<1>5. Prepared(q)'
  BY <1>3, <1>4, OneInRevs DEF Prepared
<1>6. ~ Installing(q)'
  BY DEF Installing
<1> QED BY <1>1, <1>2, <1>3, <1>5, <1>6 DEF PSafe, Late

\* Later nothing is taken back and nothing becomes pending again.
LEMMA OldOthers ==
    ASSUME PInv, ~ Young, ~ Young', NEW q \in Clis, run'[q] = run[q],
           \A v \in Revs : hist[v].status # "none" =>
              /\ hist'[v].status # "none"
              /\ hist[v].status \notin Pending => hist'[v].status \notin Pending
    PROVE  PSafe(q)' /\ ~ Installing(q)'
<1>1. PSafe(q)
  BY DEF PInv
<1>2. ~ Installing(q)
  BY <1>1 DEF PSafe
<1>3. Prepared(q)'
  <2> SUFFICES ASSUME run[q].pc = "create" PROVE Prepared(q)'
    BY DEF Prepared
  <2>1. /\ run[q].rev \in Revs
        /\ \A w \in Revs : w < run[q].rev => hist[w].status # "none"
        /\ run[q].op = "install" => run[q].rev = 1
        /\ run[q].op = "upgrade" => run[q].rev > 1 /\ hist[run[q].rev - 1].status \notin Pending
    BY <1>1 DEF PSafe, Prepared
  <2>2. run[q].rev > 1 => run[q].rev - 1 \in Revs /\ run[q].rev - 1 < run[q].rev
    BY <2>1, MaxRevAssumption DEF Revs
  <2> QED BY <2>1, <2>2 DEF Prepared
<1> QED BY <1>1, <1>2, <1>3 DEF PSafe, Installing

LEMMA SameOthers ==
    ASSUME PInv, hist' = hist, NEW q \in Clis, run'[q] = run[q]
    PROVE  PSafe(q)' /\ Installing(q)' = Installing(q)
BY DEF PInv, PSafe, Prepared, Installing, Young

\* A step before Helm's: only the process moves.
LEMMA PEarly ==
    ASSUME PInv, NEW p \in Clis, Alone(p), hist' = hist,
           run'[p].pc \notin {"create", "delRead", "delConfirm", "delJobs"} \cup Late,
           run'[p].op # "delete", run'[p].pc = "prepare" => run'[p].op \in HelmActions
    PROVE  PInv'
<1>1. PSafe(p)' /\ ~ Installing(p)'
  BY DEF PSafe, Prepared, Installing, Late
<1>2. \A q \in Clis \ {p} : PSafe(q)' /\ Installing(q)' = Installing(q)
  BY SameOthers DEF Alone
<1>3. NoGap' /\ OneInstall'
  BY <1>1, <1>2 DEF PInv, NoGap, OneInstall
<1> QED BY <1>1, <1>2, <1>3 DEF PInv

\* Helm goes on without writing the history.
LEMMA PLate ==
    ASSUME PInv, NEW p \in Clis, Alone(p), hist' = hist, run[p].pc \in Late,
           run'[p].pc \in Late, run'[p].op = run[p].op, run'[p].rev = run[p].rev,
           run'[p].pc \in {"unmark", "undelete", "purge"} => run[p].op = "install",
           run'[p].pc \in {"undelete", "purge"} => run'[p].vers = {1}
    PROVE  PInv'
<1>0. PSafe(p) /\ run[p].op \in HelmActions
  BY DEF PInv, PSafe
<1>1. Installing(p)' = Installing(p) /\ Young' = Young
  BY DEF Installing, Young
<1>2. PSafe(p)'
  BY <1>0, <1>1 DEF PSafe, Prepared, Late, HelmActions
<1>3. \A q \in Clis \ {p} : PSafe(q)' /\ Installing(q)' = Installing(q)
  BY SameOthers DEF Alone
<1>4. NoGap' /\ OneInstall'
  BY <1>1, <1>3 DEF PInv, NoGap, OneInstall
<1> QED BY <1>2, <1>3, <1>4 DEF PInv

\* An upgrade or a rollback marks revisions and goes on or ends.
LEMMA PMark ==
    ASSUME PInv, NEW p \in Clis, Alone(p), ~ Young, hist \in [Revs -> Rev],
           \A v \in Revs : hist'[v].status = "none" <=> hist[v].status = "none",
           \A v \in Revs : hist'[v].status \in {hist[v].status, "superseded", "deployed", "failed"},
           run'[p].op # "delete", run'[p].op # "install",
           run'[p].pc \notin {"create", "delRead", "delConfirm", "delJobs", "unmark",
                              "undelete", "purge"},
           run'[p].pc \in {"prepare"} \cup Late => run'[p].op \in HelmActions
    PROVE  PInv'
<1>1. ~ Young'
  BY DEF Young
<1>2. \A v \in Revs : hist[v].status # "none" =>
         /\ hist'[v].status # "none"
         /\ hist[v].status \notin Pending => hist'[v].status \notin Pending
  BY DEF Pending
<1>3. \A q \in Clis \ {p} : PSafe(q)' /\ ~ Installing(q)'
  BY <1>1, <1>2, OldOthers DEF Alone
<1>4. PSafe(p)' /\ ~ Installing(p)'
  BY <1>1 DEF PSafe, Prepared, Installing, Late
<1>5. NoGap' /\ OneInstall'
  BY <1>3, <1>4 DEF PInv, NoGap, OneInstall
<1> QED BY <1>3, <1>4, <1>5 DEF PInv

-----------------------------------------------------------------------------
\* Without gaps the revision after the newest is the first free one.
LEMMA NextFree ==
    ASSUME NEW h \in [Revs -> Rev], newestRelease(h) < MaxRev,
           \A v, w \in Revs : h[v].status # "none" /\ w < v => h[w].status # "none"
    PROVE  /\ newestRelease(h) + 1 \in Revs
           /\ \A w \in Revs : w < newestRelease(h) + 1 => h[w].status # "none"
<1> DEFINE n == newestRelease(h)
<1>1. n \in 0 .. MaxRev /\ (n # 0 => n \in Revs /\ h[n].status # "none")
  BY NewestType DEF Stored
<1>2. n < MaxRev
  OBVIOUS
<1> HIDE DEF n
<1>3. n + 1 \in Revs
  BY <1>1, <1>2, MaxRevAssumption DEF Revs
<1>4. ASSUME NEW w \in Revs, w < n + 1 PROVE h[w].status # "none"
  <2>1. w = n \/ w < n
    BY <1>1, <1>4, MaxRevAssumption DEF Revs
  <2>2. n # 0
    BY <1>1, <1>4, MaxRevAssumption DEF Revs
  <2> QED BY <1>1, <2>1, <2>2
<1> QED BY <1>3, <1>4 DEF n

\* A free revision above which nothing is missing is just above the newest.
LEMMA NewestBelow ==
    ASSUME NEW h \in [Revs -> Rev], NEW r \in Revs, h[r].status = "none",
           \A v, w \in Revs : h[v].status # "none" /\ w < v => h[w].status # "none",
           \A w \in Revs : w < r => h[w].status # "none"
    PROVE  newestRelease(h) = r - 1
<1>1. \A v \in Stored(h) : v \in Revs /\ v < r
  <2> TAKE v \in Stored(h)
  <2>1. v \in Revs /\ h[v].status # "none"
    BY DEF Stored
  <2>2. ~ (r < v) /\ r # v
    BY <2>1
  <2> QED BY <2>1, <2>2, MaxRevAssumption DEF Revs
<1>2. CASE r = 1
  <2>1. Stored(h) = {}
    BY <1>1, <1>2, MaxRevAssumption DEF Revs
  <2> QED BY <1>2, <2>1 DEF newestRelease, Highest
<1>3. CASE r # 1
  <2>1. r - 1 \in Revs /\ r - 1 < r
    BY <1>3, MaxRevAssumption DEF Revs
  <2>2. r - 1 \in Stored(h)
    BY <2>1 DEF Stored
  <2>3. newestRelease(h) \in Stored(h) /\ \A w \in Stored(h) : w <= newestRelease(h)
    BY <2>2, HighestIsMax, Stored(h) \in SUBSET Revs DEF newestRelease, Stored
  <2> DEFINE n == newestRelease(h)
  <2>4. n \in Revs /\ n < r /\ r - 1 <= n
    BY <1>1, <2>2, <2>3
  <2> HIDE DEF n
  <2>5. n = r - 1
    BY <2>4, MaxRevAssumption DEF Revs
  <2> QED BY <2>5 DEF n
<1> QED BY <1>2, <1>3

\* A young history offers Helm nothing to upgrade or to roll back to.
LEMMA YoungIsNoBase ==
    ASSUME Young, hist \in [Revs -> Rev]
    PROVE  UpgradeBase(hist) = 0 /\ LastSuccessfulRelease(hist) = 0
<1>1. Successful(hist) = {} /\ Deployed(hist) = {}
  BY DEF Young, Successful, Success, Deployed
<1>2. newestRelease(hist) # 0 =>
         hist[newestRelease(hist)].status \in {"pending-install", "uninstalling"}
  BY NewestType DEF Young, Stored
<1>3. LastSuccessfulRelease(hist) = 0
  BY <1>1 DEF LastSuccessfulRelease, Highest
<1> QED BY <1>1, <1>2, <1>3 DEF UpgradeBase, IsPending, Pending

LEMMA PInit == Init => PInv
<1> SUFFICES ASSUME Init PROVE PInv
  OBVIOUS
<1>1. \A v \in Revs : hist[v].status = "none"
  BY DEF Init, NoRev
<1>2. \A p \in Clis : run[p].pc = "idle" /\ run[p].op = "none"
  BY DEF Init, NoRun
<1>3. NoGap /\ OneInstall
  BY <1>1, <1>2 DEF NoGap, OneInstall, Installing, Late
<1>4. \A p \in Clis : PSafe(p)
  BY <1>2 DEF PSafe, Installing, Late, Prepared
<1> QED BY <1>3, <1>4 DEF PInv

-----------------------------------------------------------------------------
\* Helm's steps.

LEMMA PEnd ==
    ASSUME ProcOK, PInv, NEW p \in Clis, NEW r, End(p, r), hist' = hist
    PROVE  PInv'
BY EndFields, PEarly DEF Late, HelmActions

LEMMA PPrepare ==
    ASSUME TypeOK, PInv, NEW p \in Clis, Prepare(p)
    PROVE  PInv'
<1>t. ProcOK /\ run \in [Clis -> Run] /\ run[p] \in Run /\ hist \in [Revs -> Rev]
  BY DEF TypeOK, ProcOK
<1>h. hist' = hist
  BY DEF Prepare
<1>1. CASE End(p, "error")
  BY <1>1, <1>t, <1>h, PEnd
<1>2. CASE ~ End(p, "error")
  <2> DEFINE last == newestRelease(hist)
             base == IF run[p].op = "upgrade" THEN UpgradeBase(hist) ELSE last
             m == IF run[p].op = "rollback" THEN Base(hist) ELSE run[p].man
  <2>1. /\ last < MaxRev
        /\ run' = [run EXCEPT ![p].pc = "create", ![p].rev = last + 1,
                              ![p].cur = base, ![p].man = m]
    BY <1>2 DEF Prepare
  <2>2. run[p].op \in HelmActions
    BY DEF PInv, PSafe, Prepare, At
  <2>3. /\ run[p].op = "install" => last = 0
        /\ run[p].op = "upgrade" => UpgradeBase(hist) # 0
        /\ run[p].op = "rollback" => LastSuccessfulRelease(hist) # 0
    BY <1>2, <2>2 DEF Prepare, HelmActions
  <2>4. last + 1 \in Revs /\ \A w \in Revs : w < last + 1 => hist[w].status # "none"
    BY <2>1, <1>t, NextFree DEF PInv, NoGap
  <2>5. run[p].op = "upgrade" => last \in Revs /\ hist[last].status \notin Pending
    BY <2>3, <1>t, NewestType DEF UpgradeBase, IsPending, Stored
  <2>6. run[p].op \in {"upgrade", "rollback"} => ~ Young
    BY <2>3, <1>t, YoungIsNoBase
  <2>7. last \in 0 .. MaxRev
    BY <1>t, NewestType
  <2> HIDE DEF last, base, m
  <2>8. /\ Alone(p) /\ run'[p].pc = "create" /\ run'[p].op = run[p].op
        /\ run'[p].rev = last + 1
    BY <2>1, <1>t DEF Run, Alone
  <2>9. run[p].op = "upgrade" => last + 1 > 1 /\ (last + 1) - 1 = last
    BY <2>5, <2>7, MaxRevAssumption DEF Revs
  <2>10. run[p].op = "install" => last + 1 = 1
    BY <2>3 DEF last
  <2>11. Prepared(p)'
    BY <2>4, <2>5, <2>8, <2>9, <2>10, <1>h DEF Prepared
  <2>12. PSafe(p)' /\ ~ Installing(p)'
    <3>1. Young' = Young
      BY <1>h DEF Young
    <3> QED BY <2>2, <2>6, <2>8, <2>11, <3>1 DEF PSafe, Installing, Late, HelmActions
  <2>13. \A q \in Clis \ {p} : PSafe(q)' /\ Installing(q)' = Installing(q)
    BY <2>8, <1>h, SameOthers DEF Alone
  <2>14. NoGap' /\ OneInstall'
    BY <2>12, <2>13, <1>h DEF PInv, NoGap, OneInstall
  <2> QED BY <2>12, <2>13, <2>14 DEF PInv
<1> QED BY <1>1, <1>2

LEMMA PCreate ==
    ASSUME TypeOK, PInv, NEW p \in Clis, Create(p)
    PROVE  PInv'
<1>t. ProcOK /\ run \in [Clis -> Run] /\ run[p] \in Run /\ hist \in [Revs -> Rev]
  BY DEF TypeOK, ProcOK
<1>1. CASE hist[run[p].rev].status # "none"
  BY <1>1, <1>t, PEnd DEF Create
<1>2. CASE hist[run[p].rev].status = "none"
  <2> DEFINE r == run[p].rev
             n == [status |-> PendingStatus(p), man |-> run[p].man]
  <2>1. hist' = [hist EXCEPT ![r] = n] /\ Goto(p, "apply")
    BY <1>2 DEF Create
  <2>2. /\ Alone(p) /\ run'[p].pc = "apply" /\ run'[p].op = run[p].op
        /\ run'[p].rev = run[p].rev
    BY <2>1, <1>t, GotoFields
  <2>3. PSafe(p) /\ run[p].pc = "create" /\ run[p].op \in HelmActions
    BY DEF PInv, PSafe, Create, At
  <2>4. /\ r \in Revs /\ hist[r].status = "none"
        /\ \A w \in Revs : w < r => hist[w].status # "none"
        /\ run[p].op = "install" => r = 1
    BY <1>2, <2>3 DEF PSafe, Prepared
  <2>5. n.status = PendingStatus(p) /\ PendingStatus(p) \in Pending
    BY <2>3 DEF PendingStatus, Pending, HelmActions
  <2>i. run[p].op = "install" => n.status = "pending-install"
    BY DEF PendingStatus
  <2> HIDE DEF r, n
  <2>6. /\ hist'[r] = n /\ n.status # "none"
        /\ \A v \in Revs \ {r} : hist'[v] = hist[v]
    BY <2>1, <2>4, <2>5, <1>t DEF Pending
  <2>7. NoGap'
    <3> SUFFICES ASSUME NEW v \in Revs, NEW w \in Revs, hist'[v].status # "none", w < v
                 PROVE  hist'[w].status # "none"
      BY DEF NoGap
    <3> QED BY <2>4, <2>6 DEF PInv, NoGap
  <2>8. CASE run[p].op = "install"
    <3>1. r = 1 /\ \A v \in Revs : hist[v].status = "none"
      <4>1. r = 1
        BY <2>4, <2>8
      <4>2. \A v \in Revs : v = 1 \/ 1 < v
        BY MaxRevAssumption DEF Revs
      <4> QED BY <2>4, <4>1, <4>2 DEF PInv, NoGap
    <3>2. Young /\ \A q \in Clis : ~ Installing(q)
      BY <3>1, OneInRevs DEF Young, PInv, PSafe
    <3>3. \A q \in Clis \ {p} : PSafe(q)' /\ ~ Installing(q)'
      BY <2>2, <3>2, YoungOthers DEF Alone, Installing
    <3>4. Young' /\ hist'[1].status # "none"
      BY <2>6, <2>8, <2>i, <3>1 DEF Young
    <3>5. PSafe(p)'
      BY <2>2, <2>8, <3>1, <3>4 DEF PSafe, Prepared, Late, HelmActions, r
    <3>6. OneInstall'
      BY <3>3 DEF OneInstall
    <3> QED BY <2>7, <3>3, <3>5, <3>6 DEF PInv
  <2>9. CASE run[p].op # "install"
    <3>1. ~ Young
      BY <2>3, <2>9 DEF PSafe, HelmActions
    <3>2. \A v \in Revs : hist[v].status # "none" => hist'[v] = hist[v]
      BY <2>4, <2>6
    <3>3. ~ Young'
      BY <3>1, <3>2 DEF Young
    <3>4. \A q \in Clis \ {p} : PSafe(q)' /\ ~ Installing(q)'
      BY <2>2, <3>1, <3>2, <3>3, OldOthers DEF Alone
    <3>5. PSafe(p)' /\ ~ Installing(p)'
      BY <2>2, <2>3, <2>9, <3>3 DEF PSafe, Prepared, Installing, Late, HelmActions
    <3>6. OneInstall'
      BY <3>4, <3>5 DEF OneInstall
    <3> QED BY <2>7, <3>4, <3>5, <3>6 DEF PInv
  <2> QED BY <2>8, <2>9
<1> QED BY <1>1, <1>2

\* What Mark does to the statuses.
LEMMA MarkStatus ==
    ASSUME NEW h \in [Revs -> Rev], NEW V, NEW s, s # "none", NEW v \in Revs
    PROVE  /\ Mark(h, V, s)[v].status \in {h[v].status, s}
           /\ Mark(h, V, s)[v].status = "none" <=> h[v].status = "none"
           /\ v \in V /\ h[v].status # "none" => Mark(h, V, s)[v].status = s
           /\ v \notin V => Mark(h, V, s)[v] = h[v]
BY DEF Mark, Rev

\* The end of an install that succeeded, or of its uninstall: only then does
\* the history stop being young, or lose its only revision.
LEMMA PLeaveInstall ==
    ASSUME PInv, NEW p \in Clis, Alone(p), Installing(p), run'[p].pc = "idle",
           run'[p].op = "none", hist \in [Revs -> Rev],
           \A v \in Revs \ {1} : hist'[v] = hist[v]
    PROVE  PInv'
<1>1. Young /\ \A v \in Revs \ {1} : hist[v].status = "none"
  BY DEF PInv, PSafe, Young
<1>2. \A q \in Clis \ {p} : ~ Installing(q)
  BY DEF PInv, OneInstall
<1>3. \A q \in Clis \ {p} : PSafe(q)' /\ ~ Installing(q)'
  BY <1>1, <1>2, YoungOthers DEF Alone, Installing
<1>4. PSafe(p)' /\ ~ Installing(p)'
  BY DEF PSafe, Prepared, Installing, Late
<1>5. NoGap'
  <2>1. \A v \in Revs \ {1} : hist'[v].status = "none"
    BY <1>1
  <2>2. \A w \in Revs : ~ (w < 1)
    BY MaxRevAssumption DEF Revs
  <2> QED BY <2>1, <2>2 DEF NoGap
<1>6. OneInstall'
  BY <1>3, <1>4 DEF OneInstall
<1> QED BY <1>3, <1>4, <1>5, <1>6 DEF PInv

LEMMA PSupersede ==
    ASSUME TypeOK, PInv, NEW p \in Clis, Supersede(p)
    PROVE  PInv'
<1>t. ProcOK /\ run[p] \in Run /\ hist \in [Revs -> Rev]
  BY DEF TypeOK, ProcOK
<1>1. /\ Alone(p) /\ run'[p].pc = "commit" /\ run'[p].op = run[p].op
      /\ run'[p].rev = run[p].rev /\ run'[p].vers = run[p].vers
  BY <1>t, GotoFields DEF Supersede
<1>2. PSafe(p) /\ run[p].pc = "supersede" /\ run[p].op \in HelmActions
  BY DEF PInv, PSafe, Supersede, At, Late
<1>3. CASE run[p].op = "install"
  <2>1. hist' = hist
    BY <1>3, <1>t DEF Supersede, Mark
  <2> QED BY <1>1, <1>2, <1>3, <2>1, PLate DEF Late
<1>4. CASE run[p].op # "install"
  <2>1. PICK V : hist' = Mark(hist, V, "superseded")
    BY DEF Supersede
  <2>2. \A v \in Revs : /\ hist'[v].status \in {hist[v].status, "superseded"}
                        /\ hist'[v].status = "none" <=> hist[v].status = "none"
    BY <2>1, <1>t, MarkStatus
  <2>3. ~ Young
    BY <1>2, <1>4 DEF PSafe, HelmActions, Late
  <2> QED BY <1>1, <1>2, <1>4, <1>t, <2>2, <2>3, PMark DEF Late, HelmActions
<1> QED BY <1>3, <1>4

LEMMA PCommit ==
    ASSUME TypeOK, PInv, NEW p \in Clis, Commit(p)
    PROVE  PInv'
<1>t. ProcOK /\ run[p] \in Run /\ hist \in [Revs -> Rev]
  BY DEF TypeOK, ProcOK
<1>1. Alone(p) /\ run'[p].pc = "idle" /\ run'[p].op = "none"
  BY <1>t, EndFields DEF Commit
<1>2. PSafe(p) /\ run[p].pc = "commit" /\ run[p].op \in HelmActions
  BY DEF PInv, PSafe, Commit, At, Late
<1>h. hist' = Mark(hist, {run[p].rev}, "deployed")
  BY DEF Commit
<1>3. CASE run[p].op = "install"
  <2>1. Installing(p) /\ run[p].rev = 1
    BY <1>2, <1>3 DEF Installing, Late, PSafe
  <2>2. \A v \in Revs \ {1} : hist'[v] = hist[v]
    BY <1>h, <1>t, <2>1, MarkStatus
  <2> QED BY <1>1, <1>t, <2>1, <2>2, PLeaveInstall
<1>4. CASE run[p].op # "install"
  <2>2. \A v \in Revs : /\ hist'[v].status \in {hist[v].status, "deployed"}
                        /\ hist'[v].status = "none" <=> hist[v].status = "none"
    BY <1>h, <1>t, MarkStatus
  <2>3. ~ Young
    BY <1>2, <1>4 DEF PSafe, HelmActions, Late
  <2> QED BY <1>1, <1>t, <2>2, <2>3, PMark DEF Late
<1> QED BY <1>3, <1>4

LEMMA PFailed ==
    ASSUME TypeOK, PInv, NEW p \in Clis, Failed(p)
    PROVE  PInv'
<1>t. ProcOK /\ run \in [Clis -> Run] /\ run[p] \in Run /\ hist \in [Revs -> Rev]
  BY DEF TypeOK, ProcOK
<1>2. PSafe(p) /\ run[p].pc = "failed" /\ run[p].op \in HelmActions
  BY DEF PInv, PSafe, Failed, At, Late
<1>3. CASE run[p].op = "install"
  <2>1. Goto(p, "unmark") /\ hist' = hist
    BY <1>3 DEF Failed
  <2> QED BY <1>2, <1>3, <1>t, <2>1, GotoFields, PLate DEF Late
<1>4. CASE run[p].op = "upgrade"
  <2>1. /\ hist' = Mark(hist, {run[p].rev}, "failed")
        /\ run' = [run EXCEPT ![p].pc = "prepare", ![p].op = "rollback"]
    BY <1>4 DEF Failed
  <2>2. Alone(p) /\ run'[p].pc = "prepare" /\ run'[p].op = "rollback"
    BY <2>1, <1>t DEF Alone, Run
  <2>3. \A v \in Revs : /\ hist'[v].status \in {hist[v].status, "failed"}
                        /\ hist'[v].status = "none" <=> hist[v].status = "none"
    BY <2>1, <1>t, MarkStatus
  <2>4. ~ Young
    BY <1>2, <1>4 DEF PSafe, HelmActions, Late
  <2> QED BY <1>t, <2>2, <2>3, <2>4, PMark DEF Late, HelmActions
<1>5. CASE run[p].op = "rollback"
  <2>1. PICK S : hist' = Mark(Mark(hist, S, "superseded"), {run[p].rev}, "failed")
    BY <1>5 DEF Failed
  <2>2. Alone(p) /\ run'[p].pc = "idle" /\ run'[p].op = "none"
    BY <1>5, <1>t, EndFields DEF Failed
  <2> DEFINE g == Mark(hist, S, "superseded")
  <2>3. g \in [Revs -> Rev]
    BY <1>t, MarkType DEF Status, Success
  <2>4. \A v \in Revs : /\ g[v].status \in {hist[v].status, "superseded"}
                        /\ g[v].status = "none" <=> hist[v].status = "none"
    BY <1>t, MarkStatus
  <2>a. hist' = Mark(g, {run[p].rev}, "failed")
    BY <2>1
  <2> HIDE DEF g
  <2>5. \A v \in Revs : /\ hist'[v].status \in {g[v].status, "failed"}
                        /\ hist'[v].status = "none" <=> g[v].status = "none"
    BY <2>a, <2>3, MarkStatus
  <2>6. ~ Young
    BY <1>2, <1>5 DEF PSafe, HelmActions, Late
  <2>7. \A v \in Revs : /\ hist'[v].status \in {hist[v].status, "superseded", "failed"}
                        /\ hist'[v].status = "none" <=> hist[v].status = "none"
    BY <2>4, <2>5
  <2> QED BY <1>t, <2>2, <2>6, <2>7, PMark DEF Late
<1> QED BY <1>2, <1>3, <1>4, <1>5 DEF HelmActions

LEMMA PUnMark ==
    ASSUME TypeOK, PInv, NEW p \in Clis, UnMark(p)
    PROVE  PInv'
<1>t. ProcOK /\ run \in [Clis -> Run] /\ run[p] \in Run /\ hist \in [Revs -> Rev]
  BY DEF TypeOK, ProcOK
<1>2. /\ PSafe(p) /\ run[p].pc = "unmark" /\ run[p].op = "install"
      /\ Installing(p) /\ Young /\ hist[1].status # "none" /\ run[p].rev = 1
  BY DEF PInv, PSafe, UnMark, At, Late, Installing
<1>3. Stored(hist) = {1}
  BY <1>2, OneInRevs DEF Young, Stored
<1>4. newestRelease(hist) = 1
  BY <1>3, <1>t, NewestType DEF newestRelease, Highest
<1> DEFINE m == hist[1].man
<1>5. /\ hist' = Mark(hist, {1}, "uninstalling")
      /\ run' = [run EXCEPT ![p].pc = "undelete", ![p].man = m, ![p].vers = {1}]
  BY <1>3, <1>4 DEF UnMark
<1> HIDE DEF m
<1>6. /\ Alone(p) /\ run'[p].pc = "undelete" /\ run'[p].op = "install"
      /\ run'[p].rev = 1 /\ run'[p].vers = {1}
  BY <1>2, <1>5, <1>t DEF Alone, Run
<1>7. /\ \A v \in Revs \ {1} : hist'[v] = hist[v]
      /\ hist'[1].status = "uninstalling"
  BY <1>2, <1>5, <1>t, OneInRevs, MarkStatus
<1>8. Young' /\ hist'[1].status # "none"
  BY <1>2, <1>7 DEF Young
<1>9. PSafe(p)'
  BY <1>6, <1>8 DEF PSafe, Prepared, Late, HelmActions
<1>10. \A q \in Clis \ {p} : ~ Installing(q)
  BY <1>2 DEF PInv, OneInstall
<1>11. \A q \in Clis \ {p} : PSafe(q)' /\ ~ Installing(q)'
  BY <1>2, <1>6, <1>10, YoungOthers DEF Alone, Installing
<1>12. NoGap' /\ OneInstall'
  <2>1. \A w \in Revs : ~ (w < 1)
    BY MaxRevAssumption DEF Revs
  <2> QED BY <1>8, <1>11, <2>1 DEF NoGap, OneInstall, Young
<1> QED BY <1>9, <1>11, <1>12 DEF PInv

LEMMA PPurge ==
    ASSUME TypeOK, PInv, NEW p \in Clis, NEW v \in Revs, Purge(p, v)
    PROVE  PInv'
<1>t. ProcOK /\ run[p] \in Run /\ hist \in [Revs -> Rev]
  BY DEF TypeOK, ProcOK
<1>2. /\ run[p].pc = "purge" /\ run[p].op = "install" /\ run[p].vers = {1}
      /\ Installing(p)
  BY DEF PInv, PSafe, Purge, At, Late, Installing
<1>3. v = 1 /\ run[p].vers = {v}
  BY <1>2 DEF Purge, First
<1>4. End(p, "error") /\ hist' = [hist EXCEPT ![1] = NoRev]
  BY <1>2, <1>3 DEF Purge, Uninstalled
<1>5. Alone(p) /\ run'[p].pc = "idle" /\ run'[p].op = "none"
  BY <1>4, <1>t, EndFields
<1>6. \A w \in Revs \ {1} : hist'[w] = hist[w]
  BY <1>4, <1>t
<1> QED BY <1>2, <1>5, <1>6, <1>t, PLeaveInstall

-----------------------------------------------------------------------------
LEMMA PNext == ~ Deleting /\ TypeOK /\ PInv /\ [Next]_vars => PInv'
<1> SUFFICES ASSUME ~ Deleting, TypeOK, PInv, [Next]_vars PROVE PInv'
  OBVIOUS
<1>u. ProcOK /\ run \in [Clis -> Run]
  BY DEF TypeOK, ProcOK
<1>e. ASSUME NEW p \in Clis, NEW r, End(p, r), hist' = hist PROVE PInv'
  BY <1>e, <1>u, PEnd
<1>1. ASSUME NEW p \in Clis, NEW m \in Manifests, NEW f \in FlagSets, Start(p, m, f)
      PROVE  PInv'
  <2>1. Alone(p) /\ run'[p].pc = "render" /\ run'[p].op = "deploy" /\ hist' = hist
    BY <1>1, <1>u DEF Start, Alone, NoRun
  <2> QED BY <2>1, PEarly DEF Late
<1>2. ASSUME NEW p \in Clis, NEW f \in FlagSets, StartDelete(p, f)
      PROVE  PInv'
  BY <1>2 DEF StartDelete
<1>3. ASSUME NEW p \in Clis, Step(p)
      PROVE  PInv'
  <2>r. run[p] \in Run /\ PSafe(p)
    BY <1>u DEF PInv
  <2>n. run[p].op # "delete" /\ run[p].pc \notin {"delRead", "delConfirm", "delJobs"}
    BY <2>r DEF PSafe
  <2>g. ASSUME NEW s, Goto(p, s), hist' = hist,
               s \in {"plan", "workGuard", "verify", "crds", "installApp"}
        PROVE  PInv'
    <3>1. Alone(p) /\ run'[p].pc = s /\ run'[p].op = run[p].op
      BY <2>g, <1>u, GotoFields
    <3> QED BY <2>g, <2>n, <3>1, PEarly DEF Late
  <2>1. CASE Render(p) \/ HostGuard(p)
    BY <2>1, <1>e, <2>g DEF Render, HostGuard, Check
  <2>2. CASE Plan(p)
    <3>1. Alone(p) /\ run'[p].pc = "hostGuard" /\ run'[p].op = run[p].op /\ hist' = hist
      BY <2>2, <1>u, <2>r DEF Plan, Alone, Run
    <3> QED BY <2>n, <3>1, PEarly DEF Late
  <2>4. CASE WorkGuard(p)
    <3>1. CASE End(p, "error") \/ End(p, "noop")
      BY <2>4, <3>1, <1>e DEF WorkGuard
    <3>2. CASE ~ (End(p, "error") \/ End(p, "noop"))
      <4>1. Alone(p) /\ run'[p].pc = "confirm" /\ run'[p].op = run[p].op /\ hist' = hist
        BY <2>4, <3>2, <1>u, <2>r DEF WorkGuard, Guards, Alone, Run
      <4> QED BY <2>n, <4>1, PEarly DEF Late
    <3> QED BY <3>1, <3>2
  <2>5. CASE Confirm(p) \/ Verify(p)
    BY <2>5, <1>e, <2>g DEF Confirm, Verify, Check
  <2>7. CASE Crds(p)
    <3>1. CASE End(p, "ok") \/ End(p, "error") \/ Goto(p, "installApp")
      BY <2>7, <3>1, <1>e, <2>g DEF Crds
    <3>2. CASE ~ (End(p, "ok") \/ End(p, "error") \/ Goto(p, "installApp"))
      <4>1. Alone(p) /\ run'[p].pc = "patch" /\ run'[p].op = run[p].op /\ hist' = hist
        BY <2>7, <3>2, <1>u, <2>r DEF Crds, Alone, Run
      <4> QED BY <2>n, <4>1, PEarly DEF Late
    <3> QED BY <3>1, <3>2
  <2>8. ASSUME NEW c \in Components, Patch(p, c) \/ Wait(p, c) \/ Orphan(p, c)
        PROVE  PInv'
    <3>1. run[p].pc \in {"patch", "wait", "orphan"} /\ hist' = hist
      BY <2>8 DEF Patch, Wait, Orphan, At
    <3>2. \/ \E r : End(p, r)
          \/ \E s \in {"wait", "orphan", "installApp"} : \E rest : Advance(p, c, s, rest)
      BY <2>8, Zenon DEF Patch, Wait, Orphan
    <3>3. ASSUME NEW s \in {"wait", "orphan", "installApp"}, NEW rest, Advance(p, c, s, rest)
          PROVE  PInv'
      <4>1. Alone(p) /\ run'[p].op = run[p].op /\ run'[p].pc \in {run[p].pc, s}
        BY <3>3, <1>u, AdvanceFields
      <4> QED BY <2>n, <3>1, <3>3, <4>1, PEarly DEF Late
    <3> QED BY <3>1, <3>2, <3>3, <1>e
  <2>9. CASE InstallApp(p)
    <3>1. CASE End(p, "error")
      BY <2>9, <3>1, <1>e DEF InstallApp
    <3>2. CASE ~ End(p, "error")
      <4>1. /\ Alone(p) /\ run'[p].pc = "prepare" /\ run'[p].op \in {"install", "upgrade"}
            /\ hist' = hist
        BY <2>9, <3>2, <1>u, <2>r DEF InstallApp, Alone, Run
      <4> QED BY <4>1, PEarly DEF Late, HelmActions
    <3> QED BY <3>1, <3>2
  <2>a. ASSUME NEW s \in {"supersede", "failed"}, Goto(p, s), hist' = hist,
               run[p].pc = "apply"
        PROVE  PInv'
    <3>1. /\ Alone(p) /\ run'[p].pc = s /\ run'[p].op = run[p].op
          /\ run'[p].rev = run[p].rev
      BY <2>a, <1>u, GotoFields
    <3> QED BY <2>a, <3>1, PLate DEF Late
  <2>12. CASE ApplyOK(p)
    BY <2>12, <2>a DEF ApplyOK, At
  <2>13. ASSUME NEW S \in SUBSET Objs, ApplyFail(p, S) PROVE PInv'
    BY <2>13, <2>a DEF ApplyFail, At
  <2>18. CASE UnDelete(p)
    <3>1. run[p].pc = "undelete" /\ Goto(p, "purge") /\ hist' = hist
      BY <2>18 DEF UnDelete, At
    <3>2. /\ Alone(p) /\ run'[p].pc = "purge" /\ run'[p].op = run[p].op
          /\ run'[p].rev = run[p].rev /\ run'[p].vers = run[p].vers
      BY <3>1, <1>u, GotoFields
    <3>3. run[p].op = "install" /\ run[p].vers = {1}
      BY <3>1, <2>r DEF PSafe
    <3> QED BY <3>1, <3>2, <3>3, PLate DEF Late
  <2>19. ASSUME NEW v \in Revs, Purge(p, v) PROVE PInv'
    BY <2>19, PPurge
  <2>20. CASE DelRead(p) \/ DelConfirm(p) \/ DelJobs(p)
    BY <2>20, <2>n DEF DelRead, DelConfirm, DelJobs, At
  <2> QED
    BY <1>3, <2>1, <2>2, <2>4, <2>5, <2>7, <2>8, <2>9, PPrepare, PCreate, <2>12,
       <2>13, PSupersede, PCommit, PFailed, PUnMark, <2>18, <2>19, <2>20
    DEF Step
<1>4. ASSUME NEW p \in Clis, Fault(p) PROVE PInv'
  BY <1>4, <1>e DEF Fault
<1>5. CASE hist' = hist /\ run' = run
  <2>1. \A q \in Clis : PSafe(q)' /\ Installing(q)' = Installing(q)
    BY <1>5, SameOthers
  <2> QED BY <1>5, <2>1 DEF PInv, NoGap, OneInstall
<1>6. ASSUME NEW o \in Objs, Expand(o) PROVE PInv'
  BY <1>6, <1>5 DEF Expand
<1>7. CASE UNCHANGED vars
  BY <1>7, <1>5 DEF vars
<1> QED BY <1>1, <1>2, <1>3, <1>4, <1>6, <1>7 DEF Next

\* A step of one process touches no other, and each step belongs to one place
\* in the program.
LEMMA StepAlone ==
    ASSUME ProcOK, NEW p \in Clis, Step(p)
    PROVE  Alone(p)
<1>e. ASSUME NEW r, End(p, r) PROVE Alone(p)
  BY <1>e, EndFields
<1>g. ASSUME NEW s, Goto(p, s) PROVE Alone(p)
  BY <1>g, GotoFields
<1>a. ASSUME NEW c, NEW s, NEW rest, Advance(p, c, s, rest) PROVE Alone(p)
  BY <1>a, AdvanceFields
<1>r. ASSUME NEW x, run' = [run EXCEPT ![p] = x] PROVE Alone(p)
  BY <1>r DEF ProcOK, Alone
<1>1. CASE Render(p) \/ HostGuard(p) \/ Verify(p) \/ Confirm(p)
  BY <1>1, <1>e, <1>g DEF Render, HostGuard, Verify, Confirm, Check
<1>2. CASE Plan(p)
  BY <1>2 DEF Plan, ProcOK, Alone
<1>3. CASE WorkGuard(p)
  BY <1>3, <1>e DEF WorkGuard, Guards, ProcOK, Alone
<1>4. CASE Crds(p)
  BY <1>4, <1>e, <1>g DEF Crds, ProcOK, Alone
<1>5. ASSUME NEW c \in Components, Patch(p, c) \/ Wait(p, c) \/ Orphan(p, c)
      PROVE  Alone(p)
  BY <1>5, <1>e, <1>a DEF Patch, Wait, Orphan
<1>6. CASE InstallApp(p) \/ Prepare(p)
  BY <1>6, <1>e DEF InstallApp, Prepare, ProcOK, Alone
<1>7. CASE Create(p) \/ ApplyOK(p) \/ Supersede(p) \/ Commit(p) \/ UnDelete(p)
  BY <1>7, <1>e, <1>g DEF Create, ApplyOK, Supersede, Commit, UnDelete
<1>8. ASSUME NEW S, ApplyFail(p, S) PROVE Alone(p)
  BY <1>8, <1>g DEF ApplyFail
<1>9. CASE Failed(p)
  BY <1>9, <1>e, <1>g DEF Failed, ProcOK, Alone
<1>10. CASE UnMark(p)
  BY <1>10, <1>e, <1>g DEF UnMark, Uninstalled, ProcOK, Alone
<1>11. ASSUME NEW v, Purge(p, v) PROVE Alone(p)
  BY <1>11, <1>e, <1>g DEF Purge, Uninstalled, ProcOK, Alone
<1>12. CASE DelRead(p) \/ DelConfirm(p) \/ DelJobs(p)
  BY <1>12, <1>e, <1>g DEF DelRead, Found, DelConfirm, DelJobs, ProcOK, Alone
<1> QED
  BY <1>1, <1>2, <1>3, <1>4, <1>5, <1>6, <1>7, <1>8, <1>9, <1>10, <1>11, <1>12 DEF Step

LEMMA StepAtCreate ==
    ASSUME NEW p \in Clis, Step(p), run[p].pc = "create"
    PROVE  Create(p)
BY DEF Step, At, Render, Plan, HostGuard, WorkGuard, Confirm, Verify, Crds, Patch, Wait,
       Orphan, InstallApp, Prepare, ApplyOK, ApplyFail, Supersede, Commit, Failed,
       UnMark, UnDelete, Purge, DelRead, DelConfirm, DelJobs

\* Only Create records an upgrade.
LEMMA UpgradesCreate ==
    ASSUME ProcOK, Next, NEW p \in Clis, Upgrades(p)
    PROVE  Create(p) /\ hist[run[p].rev].status = "none"
<1>t. run \in [Clis -> Run]
  BY DEF ProcOK
<1>p. run[p].pc = "create" /\ run'[p].pc = "apply"
  BY DEF Upgrades, At
<1>1. ASSUME NEW q \in Clis, NEW m, NEW f, Start(q, m, f) PROVE FALSE
  BY <1>1, <1>p, <1>t DEF Start, NoRun
<1>2. ASSUME NEW q \in Clis, NEW f, StartDelete(q, f) PROVE FALSE
  BY <1>2, <1>p, <1>t DEF StartDelete, NoRun
<1>3. ASSUME NEW q \in Clis, Fault(q) PROVE FALSE
  BY <1>3, <1>p, <1>t DEF Fault, End, NoRun
<1>4. ASSUME NEW o, Expand(o) PROVE FALSE
  BY <1>4, <1>p DEF Expand
<1>5. PICK q \in Clis : Step(q)
  BY <1>1, <1>2, <1>3, <1>4 DEF Next
<1>6. q = p
  BY <1>5, <1>p, StepAlone DEF Alone
<1>7. Create(p)
  BY <1>5, <1>6, <1>p, StepAtCreate
<1> QED BY <1>7, <1>p, EndFields DEF Create

\* However many deploys race, fail, roll back or die, an upgrade that Helm
\* records follows a newest revision that is not pending. The hypothesis is the
\* one the property needs: a delete that purges the history while an upgrade is
\* between Prepare and Create frees the numbers that made the two exclusive.
THEOREM NoRacingUpgrades ==
    ASSUME ~ Deleting
    PROVE  Spec => NoUpgradeOverPending
<1> DEFINE A == \A p \in Clis : Upgrades(p) => ~ IsPending(hist)
<1>1. TypeOK /\ PInv /\ [Next]_vars => [A]_vars
  <2> SUFFICES ASSUME TypeOK, PInv, Next, NEW p \in Clis, Upgrades(p)
               PROVE  ~ IsPending(hist)
    OBVIOUS
  <2>t. ProcOK /\ run \in [Clis -> Run] /\ hist \in [Revs -> Rev] /\ run[p] \in Run
    BY DEF TypeOK, ProcOK
  <2>p. PSafe(p) /\ run[p].pc = "create" /\ run[p].op = "upgrade" /\ run'[p].pc = "apply"
    BY DEF PInv, Upgrades, At
  <2>2. hist[run[p].rev].status = "none"
    BY <2>t, UpgradesCreate
  <2>3. /\ run[p].rev \in Revs /\ run[p].rev > 1
        /\ \A w \in Revs : w < run[p].rev => hist[w].status # "none"
        /\ hist[run[p].rev - 1].status \notin Pending
    BY <2>p DEF PSafe, Prepared
  <2>4. newestRelease(hist) = run[p].rev - 1
    BY <2>2, <2>3, <2>t, NewestBelow DEF PInv, NoGap
  <2> QED BY <2>3, <2>4 DEF IsPending
<1>2. TypeOK /\ PInv /\ [Next]_vars => PInv'
  BY PNext
<1> QED BY <1>1, <1>2, TypeCorrect, PInit, PTL DEF Spec, NoUpgradeOverPending

-----------------------------------------------------------------------------
(***************************************************************************)
(* One process at a time. Runs still fail, are killed at any step and      *)
(* follow one another; the properties proved here are the ones that        *)
(* concurrent runs, or a read of the history that is lost, can defeat.     *)
(***************************************************************************)
SingleProcess == \A p, q \in Clis : p = q

\* Without lost reads the guards and delete see the history as it is.
LEMMA ReadsTruly == ASSUME ~ LostReads PROVE Reads = {hist}
BY DEF Reads

-----------------------------------------------------------------------------
\* The readers of the history, when it changes.

LEMMA HighestIs ==
    ASSUME NEW S \in SUBSET Revs, NEW v \in S, \A w \in S : w <= v
    PROVE  Highest(S) = v
<1>1. Highest(S) \in S /\ v <= Highest(S) /\ Highest(S) <= v
  BY HighestIsMax
<1> DEFINE n == Highest(S)
<1>2. n \in Revs /\ v \in Revs /\ v <= n /\ n <= v
  BY <1>1
<1> HIDE DEF n
<1>3. n = v
  BY <1>2, MaxRevAssumption DEF Revs
<1> QED BY <1>3 DEF n

LEMMA NewestMax ==
    ASSUME NEW h, NEW v \in Revs, h[v].status # "none"
    PROVE  /\ newestRelease(h) \in Revs /\ v <= newestRelease(h)
           /\ h[newestRelease(h)].status # "none"
<1>1. v \in Stored(h) /\ Stored(h) \in SUBSET Revs
  BY DEF Stored
<1>2. newestRelease(h) \in Stored(h) /\ v <= newestRelease(h)
  BY <1>1, HighestIsMax DEF newestRelease
<1> QED BY <1>2 DEF Stored

LEMMA NewestZero ==
    ASSUME NEW h
    PROVE  newestRelease(h) = 0 <=> Stored(h) = {}
<1>1. CASE Stored(h) = {}
  BY <1>1 DEF newestRelease, Highest
<1>2. CASE Stored(h) # {}
  <2>1. newestRelease(h) \in Revs
    BY <1>2, HighestIsMax, Stored(h) \in SUBSET Revs DEF newestRelease, Stored
  <2> QED BY <1>2, <2>1, MaxRevAssumption DEF Revs
<1> QED BY <1>1, <1>2

\* The baseline depends on the successful revisions and the manifests only.
LEMMA BaseSame ==
    ASSUME NEW h, NEW g, Successful(g) = Successful(h),
           \A v \in Successful(h) : g[v].man = h[v].man
    PROVE  Base(g) = Base(h)
<1>1. LastSuccessfulRelease(g) = LastSuccessfulRelease(h)
  BY DEF LastSuccessfulRelease
<1>2. LastSuccessfulRelease(h) # 0 => LastSuccessfulRelease(h) \in Successful(h)
  BY HighestType, Successful(h) \in SUBSET Revs DEF LastSuccessfulRelease, Successful
<1> QED BY <1>1, <1>2 DEF Base

LEMMA BaseNone == ASSUME NEW h, Successful(h) = {} PROVE Base(h) = NoManifest
BY DEF Base, LastSuccessfulRelease, Highest

\* A successful newest revision is the baseline.
LEMMA BaseNewest ==
    ASSUME NEW h \in [Revs -> Rev], NEW v \in Revs, newestRelease(h) = v,
           h[v].status \in Success
    PROVE  Base(h) = h[v].man
<1>1. Successful(h) \in SUBSET Revs /\ v \in Successful(h)
  BY DEF Successful
<1>2. \A w \in Successful(h) : w <= v
  BY NewestMax DEF Successful, Success
<1>3. LastSuccessfulRelease(h) = v
  BY <1>1, <1>2, HighestIs DEF LastSuccessfulRelease
<1> QED BY <1>3, MaxRevAssumption DEF Base, Revs

\* Create: one more pending revision.
LEMMA AddPending ==
    ASSUME NEW h \in [Revs -> Rev], NEW v \in Revs, v = newestRelease(h) + 1,
           NEW g, g[v].status \in Pending, \A w \in Revs \ {v} : g[w] = h[w]
    PROVE  /\ h[v].status = "none"
           /\ newestRelease(g) = v
           /\ Successful(g) = Successful(h) /\ Deployed(g) = Deployed(h)
           /\ Base(g) = Base(h)
<1> DEFINE m == newestRelease(h)
<1>1. h[v].status = "none"
  <2> SUFFICES ASSUME h[v].status # "none" PROVE FALSE
    OBVIOUS
  <2>1. m \in Revs /\ v <= m /\ v = m + 1
    BY NewestMax
  <2> HIDE DEF m
  <2> QED BY <2>1, MaxRevAssumption DEF Revs
<1>2. \A w \in Revs \ {v} : g[w] = h[w]
  OBVIOUS
<1>3. Successful(g) = Successful(h) /\ Deployed(g) = Deployed(h)
  BY <1>1, <1>2 DEF Successful, Deployed, Success, Pending
<1>4. Base(g) = Base(h)
  BY <1>1, <1>2, <1>3, BaseSame DEF Successful, Success
<1>5. newestRelease(g) = v
  <2>1. v \in Stored(g) /\ Stored(g) \in SUBSET Revs
    BY <1>2 DEF Stored, Pending
  <2>2. ASSUME NEW w \in Stored(g) PROVE w <= v
    <3>1. CASE w = v
      BY <3>1, MaxRevAssumption DEF Revs
    <3>2. CASE w # v
      <4>1. w \in Revs /\ h[w].status # "none"
        BY <2>2, <3>2, <1>2 DEF Stored
      <4>2. m \in Revs /\ w <= m /\ v = m + 1
        BY <4>1, NewestMax
      <4> HIDE DEF m
      <4> QED BY <4>1, <4>2, MaxRevAssumption DEF Revs
    <3> QED BY <3>1, <3>2
  <2> QED BY <2>1, <2>2, HighestIs DEF newestRelease
<1> QED BY <1>1, <1>2, <1>3, <1>4, <1>5

\* Mark stores and forgets nothing.
LEMMA MarkStored ==
    ASSUME NEW h \in [Revs -> Rev], NEW V, NEW s \in Status, s # "none"
    PROVE  /\ Stored(Mark(h, V, s)) = Stored(h)
           /\ newestRelease(Mark(h, V, s)) = newestRelease(h)
           /\ \A v \in Revs : Mark(h, V, s)[v].man = h[v].man
<1>1. Stored(Mark(h, V, s)) = Stored(h)
  BY MarkStatus DEF Stored
<1> QED BY <1>1, MarkKeeps DEF newestRelease

\* Marking neither adds nor removes a success: the baseline stays.
LEMMA MarkBase ==
    ASSUME NEW h \in [Revs -> Rev], NEW V, NEW s \in Status, s # "none",
           \A v \in V \cap Revs : h[v].status # "none" =>
              (s \in Success <=> h[v].status \in Success)
    PROVE  /\ Successful(Mark(h, V, s)) = Successful(h)
           /\ Base(Mark(h, V, s)) = Base(h)
<1> DEFINE g == Mark(h, V, s)
<1>1. \A v \in Revs : g[v].status \in Success <=> h[v].status \in Success
  <2> TAKE v \in Revs
  <2>1. CASE v \in V /\ h[v].status # "none"
    BY <2>1, MarkStatus
  <2>2. CASE v \notin V
    BY <2>2, MarkStatus
  <2>3. CASE h[v].status = "none"
    BY <2>3, MarkStatus
  <2> QED BY <2>1, <2>2, <2>3
<1>2. \A v \in Revs : g[v].man = h[v].man
  BY MarkKeeps
<1> HIDE DEF g
<1>3. Successful(g) = Successful(h)
  BY <1>1 DEF Successful
<1>4. Base(g) = Base(h)
  BY <1>2, <1>3, BaseSame DEF Successful
<1> QED BY <1>3, <1>4 DEF g

-----------------------------------------------------------------------------
(***************************************************************************)
(* The inductive invariant of one process at a time, by what a run record  *)
(* r claims about the history h:                                           *)
(*   Checked   the guards it has passed still hold: nothing has moved the  *)
(*             baseline since;                                             *)
(*   Deletes   an uninstall knows every stored revision;                   *)
(*   Helms     the Helm action writes the newest revision, an upgrade      *)
(*             replaces a deployed one, a rollback restores the baseline   *)
(*             and leaves a failed upgrade that had passed the guards.     *)
(* HasDeployed is what makes Helm's fallback to a failed or superseded     *)
(* revision unreachable: without it an upgrade could supersede, and so     *)
(* promote to a baseline, a revision that never succeeded.                 *)
(***************************************************************************)
Known == Manifests \cup {NoManifest}

Early == {"render", "plan", "hostGuard", "workGuard", "confirm", "verify", "crds",
          "patch", "wait", "orphan", "installApp"}
PastHost == {"workGuard", "confirm", "verify", "crds", "patch", "wait", "orphan",
             "installApp", "prepare", "create"}
PastWork == {"confirm", "verify", "crds", "patch", "wait", "orphan",
             "installApp", "prepare", "create"}
Writing == {"apply", "supersede", "commit", "failed"}

HasDeployed(h) ==
    newestRelease(h) # 0 /\ h[newestRelease(h)].status \notin Pending \cup {"uninstalling"}
        => Deployed(h) # {}

HostSafe(r, h) == HostnameChanges(Base(h), r.man) = {} \/ "force" \in r.flags

Replaces(r, h) == r.cur \in Revs /\ h[r.cur].status = "deployed"

Leaves(v, h) ==
    /\ v \in Revs /\ h[v].status = "failed" /\ Deployed(h) # {}
    /\ WorkloadErrors(Base(h), h[v].man) = {}

Checked(r, h) ==
    /\ r.pc \in Early => r.op = "deploy"
    /\ r.pc \in PastHost /\ r.op # "rollback" => HostSafe(r, h)
    /\ r.pc \in PastWork /\ r.op # "rollback" =>
          /\ WorkloadErrors(Base(h), r.man) = {}
          /\ r.resizes = Resizes(Base(h), r.man)

Deletes(r, h) ==
    /\ r.pc = "delConfirm" => r.cur = newestRelease(h)
    /\ r.pc \in {"undelete", "purge"} =>
          /\ newestRelease(h) # 0 /\ h[newestRelease(h)].status = "uninstalling"
          /\ r.vers = Stored(h)
    /\ r.pc = "delJobs" => Stored(h) = {}

CreateReady(r, h) ==
    /\ r.rev \in Revs /\ r.rev = newestRelease(h) + 1
    /\ r.op = "install" => Stored(h) = {}
    /\ r.op = "upgrade" => Replaces(r, h) /\ \A w \in Deployed(h) : w <= r.cur
    /\ r.op = "rollback" => r.man = Base(h) /\ Leaves(r.cur, h)

Written(r, h) ==
    /\ r.rev \in Revs /\ r.rev = newestRelease(h)
    /\ h[r.rev].status \in Pending /\ h[r.rev].man = r.man
    /\ r.op = "install" => Successful(h) = {}
    /\ r.op = "upgrade" => WorkloadErrors(Base(h), r.man) = {}
    /\ r.op = "rollback" => r.man = Base(h)
    /\ r.op = "upgrade" /\ r.pc # "commit" => Replaces(r, h)
    /\ r.op = "rollback" /\ r.pc # "commit" => Leaves(r.cur, h)

Helms(r, h) ==
    /\ r.pc \in {"prepare", "create"} \cup Writing => r.op \in HelmActions
    /\ r.pc = "prepare" /\ r.op = "rollback" => Leaves(newestRelease(h), h)
    /\ r.pc = "create" => CreateReady(r, h)
    /\ r.pc \in Writing => Written(r, h)

Claim(r, h) == r.man \in Known /\ Checked(r, h) /\ Deletes(r, h) /\ Helms(r, h)

History(h) == HasDeployed(h) /\ \A v \in Revs : h[v].man \in Known

Gone(o, r, h, j) ==
    /\ o \in {"deleted", "deletedButJobs"} => r.pc = "idle" /\ Stored(h) = {}
    /\ o = "deleted" => ~ j

SInv == /\ History(hist)
        /\ \A p \in Clis : Claim(run[p], hist) /\ Gone(out[p], run[p], hist, jobs)

\* A step of the only process.
LEMMA SKeep ==
    ASSUME SingleProcess, NEW p \in Clis, History(hist'), Claim(run'[p], hist'),
           Gone(out'[p], run'[p], hist', jobs')
    PROVE  SInv'
<1>1. \A q \in Clis : q = p
  BY DEF SingleProcess
<1> QED BY <1>1 DEF SInv, History, Claim, Gone, Checked, Deletes, Helms, CreateReady,
                    Written, HasDeployed, HostSafe, Replaces, Leaves

LEMMA SInit == Init => SInv
<1> SUFFICES ASSUME Init PROVE SInv
  OBVIOUS
<1>1. Stored(hist) = {} /\ \A v \in Revs : hist[v].man = NoManifest
  BY DEF Init, NoRev, Stored
<1>2. newestRelease(hist) = 0
  BY <1>1, NewestZero
<1>3. History(hist)
  BY <1>1, <1>2 DEF History, HasDeployed, Known
<1>4. \A p \in Clis : run[p] = NoRun /\ out[p] = "none"
  BY DEF Init
<1>5. Claim(NoRun, hist)
  BY DEF Claim, NoRun, Known, Checked, Deletes, Helms, Early, PastHost, PastWork, Writing
<1> QED BY <1>3, <1>4, <1>5 DEF SInv, Gone

\* The run ends and leaves the history as it is.
LEMMA SEnd ==
    ASSUME ProcOK, SingleProcess, NEW p \in Clis, NEW r,
           r \notin {"deleted", "deletedButJobs"}, End(p, r), History(hist')
    PROVE  SInv'
<1>1. run'[p] = NoRun /\ out'[p] = r
  BY DEF ProcOK, End
<1>2. Claim(NoRun, hist')
  BY DEF Claim, NoRun, Known, Checked, Deletes, Helms, Early, PastHost, PastWork, Writing
<1> QED BY <1>1, <1>2, SKeep DEF Gone

\* Goto changes nothing but the place.
LEMMA GotoAll ==
    ASSUME ProcOK, NEW p \in Clis, NEW s, Goto(p, s)
    PROVE  /\ run'[p].pc = s /\ run'[p].op = run[p].op /\ run'[p].man = run[p].man
           /\ run'[p].flags = run[p].flags /\ run'[p].resizes = run[p].resizes
           /\ run'[p].left = run[p].left /\ run'[p].rev = run[p].rev
           /\ run'[p].cur = run[p].cur /\ run'[p].vers = run[p].vers
           /\ out'[p] = out[p]
BY DEF ProcOK, Run, Goto

\* A run that is not idle has reported nothing yet.
LEMMA NotGone ==
    ASSUME SInv, NEW p \in Clis, run[p].pc # "idle", NEW r, NEW h, NEW j
    PROVE  Gone(out[p], r, h, j)
BY DEF SInv, Gone

-----------------------------------------------------------------------------
\* The steps before Helm: only the process moves.

\* p keeps what the guards look at and goes on to step s.
Moves(p, s) ==
    /\ run'[p].pc = s /\ run'[p].op = run[p].op /\ run'[p].man = run[p].man
    /\ run'[p].flags = run[p].flags /\ run'[p].resizes = run[p].resizes
    /\ out'[p] = out[p] /\ hist' = hist

LEMMA SMove ==
    ASSUME SInv, SingleProcess, NEW p \in Clis, NEW s \in Early, Moves(p, s),
           run[p].pc \in Early,
           s \in PastHost => run[p].pc \in PastHost,
           s \in PastWork => run[p].pc \in PastWork
    PROVE  SInv'
<1>1. Claim(run[p], hist) /\ History(hist)
  BY DEF SInv
<1>2. run[p].op = "deploy"
  BY <1>1 DEF Claim, Checked
<1>3. Checked(run'[p], hist')
  BY <1>1, <1>2 DEF Claim, Checked, HostSafe, Moves
<1>4. Deletes(run'[p], hist') /\ Helms(run'[p], hist')
  BY DEF Moves, Deletes, Helms, Early, Writing
<1>5. Claim(run'[p], hist') /\ History(hist')
  BY <1>1, <1>3, <1>4 DEF Claim, Moves
<1>6. run[p].pc # "idle"
  BY DEF Early
<1>7. Gone(out'[p], run'[p], hist', jobs')
  BY <1>6, NotGone DEF Moves
<1> QED BY <1>5, <1>7, SKeep

LEMMA SGoto ==
    ASSUME ProcOK, NEW p \in Clis, NEW s, Goto(p, s), hist' = hist
    PROVE  Moves(p, s)
BY GotoAll DEF Moves

LEMMA SStart ==
    ASSUME TypeOK, SInv, SingleProcess, NEW p \in Clis, NEW m \in Manifests,
           NEW f \in FlagSets, Start(p, m, f)
    PROVE  SInv'
<1>t. run \in [Clis -> Run] /\ out \in [Clis -> Outcomes]
  BY DEF TypeOK
<1>1. /\ run'[p].pc = "render" /\ run'[p].op = "deploy" /\ run'[p].man = m
      /\ out'[p] = "none" /\ hist' = hist
  BY <1>t DEF Start, NoRun
<1>2. Claim(run'[p], hist')
  BY <1>1 DEF Claim, Known, Checked, Deletes, Helms, Early, PastHost, PastWork, Writing
<1> QED BY <1>1, <1>2, SKeep DEF SInv, Gone

LEMMA SStartDelete ==
    ASSUME TypeOK, SInv, SingleProcess, NEW p \in Clis, NEW f \in FlagSets,
           StartDelete(p, f)
    PROVE  SInv'
<1>t. run \in [Clis -> Run] /\ out \in [Clis -> Outcomes]
  BY DEF TypeOK
<1>1. /\ run'[p].pc = "delRead" /\ run'[p].man = NoManifest
      /\ out'[p] = "none" /\ hist' = hist
  BY <1>t DEF StartDelete, NoRun
<1>2. Claim(run'[p], hist')
  BY <1>1 DEF Claim, Known, Checked, Deletes, Helms, Early, PastHost, PastWork, Writing
<1> QED BY <1>1, <1>2, SKeep DEF SInv, Gone

LEMMA SGuards ==
    ASSUME TypeOK, SInv, SingleProcess, ~ LostReads, NEW p \in Clis,
           Render(p) \/ Plan(p) \/ HostGuard(p) \/ WorkGuard(p) \/ Confirm(p)
              \/ Verify(p) \/ Crds(p)
    PROVE  SInv'
<1>t. ProcOK /\ run \in [Clis -> Run] /\ run[p] \in Run /\ out \in [Clis -> Outcomes]
  BY DEF TypeOK, ProcOK
<1>i. Claim(run[p], hist) /\ History(hist)
  BY DEF SInv
<1>e. ASSUME NEW r, r \notin {"deleted", "deletedButJobs"}, End(p, r), hist' = hist PROVE SInv'
  BY <1>e, <1>t, <1>i, SEnd
<1>1. CASE Render(p)
  <2>1. CASE Goto(p, "plan")
    BY <1>1, <2>1, <1>t, SGoto, SMove DEF Render, At, Early, PastHost, PastWork
  <2> QED BY <1>1, <1>e, <2>1 DEF Render, Check
<1>2. CASE Plan(p)
  <2>1. Moves(p, "hostGuard")
    BY <1>2, <1>t DEF Plan, Moves, Run
  <2> QED BY <1>2, <2>1, SMove DEF Plan, At, Early, PastHost, PastWork
<1>3. CASE HostGuard(p)
  <2>0. At(p, "hostGuard") /\ Check(p, checkHostnameGuard(p, hist), "workGuard") /\ hist' = hist
    BY <1>3, ReadsTruly DEF HostGuard
  <2>1. CASE Goto(p, "workGuard") /\ checkHostnameGuard(p, hist)
    <3>1. Moves(p, "workGuard") /\ run[p].pc = "hostGuard" /\ run[p].op = "deploy"
      BY <2>0, <2>1, <1>t, <1>i, SGoto DEF At, Claim, Checked, Early
    <3>2. Checked(run'[p], hist')
      BY <2>1, <3>1 DEF Checked, HostSafe, checkHostnameGuard, Moves, PastWork
    <3>3. Claim(run'[p], hist')
      BY <3>1, <3>2, <1>i DEF Claim, Moves, Deletes, Helms, Writing
    <3> QED BY <3>1, <3>3, <1>i, NotGone, SKeep DEF Moves
  <2> QED BY <2>0, <1>e, <2>1 DEF Check
<1>4. CASE WorkGuard(p)
  <2>0. At(p, "workGuard") /\ Guards(p, Base(hist)) /\ hist' = hist
    BY <1>4, ReadsTruly DEF WorkGuard
  <2>1. CASE End(p, "error") \/ End(p, "noop")
    BY <2>0, <2>1, <1>e
  <2>2. CASE ~ (End(p, "error") \/ End(p, "noop"))
    <3> DEFINE grown == Resizes(Base(hist), run[p].man)
    <3>1. /\ WorkloadErrors(Base(hist), run[p].man) = {}
          /\ run' = [run EXCEPT ![p].pc = "confirm", ![p].resizes = grown]
          /\ out' = out /\ hist' = hist /\ run[p].pc = "workGuard"
      BY <2>0, <2>2 DEF Guards, At
    <3> HIDE DEF grown
    <3>2. /\ run'[p].pc = "confirm" /\ run'[p].op = run[p].op /\ run'[p].man = run[p].man
          /\ run'[p].flags = run[p].flags /\ run'[p].resizes = grown
      BY <3>1, <1>t DEF Run
    <3>3. Checked(run'[p], hist')
      BY <3>1, <3>2, <1>i DEF Checked, Claim, HostSafe, Early, PastHost, grown
    <3>4. Claim(run'[p], hist')
      BY <3>1, <3>2, <3>3, <1>i DEF Claim, Deletes, Helms, Writing
    <3> QED BY <3>1, <3>4, <1>i, NotGone, SKeep
  <2> QED BY <2>1, <2>2
<1>5. CASE Confirm(p) \/ Verify(p)
  <2>1. CASE Goto(p, "crds") \/ Goto(p, "verify")
    BY <1>5, <2>1, <1>t, SGoto, SMove DEF Confirm, Verify, At, Early, PastHost, PastWork
  <2> QED BY <1>5, <1>e, <2>1 DEF Confirm, Verify, Check
<1>6. CASE Crds(p)
  <2>0. run[p].pc = "crds" /\ hist' = hist
    BY <1>6 DEF Crds, At
  <2>1. CASE End(p, "ok") \/ End(p, "error")
    BY <2>0, <2>1, <1>e
  <2>2. CASE Goto(p, "installApp")
    BY <2>0, <2>2, <1>t, SGoto, SMove DEF Early, PastHost, PastWork
  <2>3. CASE ~ (End(p, "ok") \/ End(p, "error") \/ Goto(p, "installApp"))
    <3>1. Moves(p, "patch")
      BY <1>6, <2>3, <1>t DEF Crds, Moves, Run
    <3> QED BY <2>0, <3>1, SMove DEF Early, PastHost, PastWork
  <2> QED BY <2>1, <2>2, <2>3
<1> QED BY <1>1, <1>2, <1>3, <1>4, <1>5, <1>6

LEMMA SResize ==
    ASSUME TypeOK, SInv, SingleProcess, NEW p \in Clis, NEW c \in Components,
           Patch(p, c) \/ Wait(p, c) \/ Orphan(p, c)
    PROVE  SInv'
<1>t. ProcOK /\ run \in [Clis -> Run] /\ run[p] \in Run /\ History(hist)
  BY DEF TypeOK, ProcOK, SInv
<1>1. run[p].pc \in {"patch", "wait", "orphan"} /\ hist' = hist
  BY DEF Patch, Wait, Orphan, At
<1>2. \/ \E r : r \notin {"deleted", "deletedButJobs"} /\ End(p, r)
      \/ \E s \in {"wait", "orphan", "installApp"} : \E rest : Advance(p, c, s, rest)
  BY Zenon DEF Patch, Wait, Orphan
<1>3. ASSUME NEW s \in {"wait", "orphan", "installApp"}, NEW rest, Advance(p, c, s, rest)
      PROVE  SInv'
  <2> DEFINE l == IF run[p].left = {c} THEN rest ELSE run[p].left \ {c}
             s0 == IF run[p].left = {c} THEN s ELSE run[p].pc
  <2>1. /\ run' = [run EXCEPT ![p].left = l, ![p].pc = s0] /\ out' = out
        /\ s0 \in {"patch", "wait", "orphan", "installApp"}
    BY <1>1, <1>3 DEF Advance
  <2> HIDE DEF l, s0
  <2>2. Moves(p, s0)
    BY <2>1, <1>1, <1>t DEF Moves, Run
  <2> QED BY <1>1, <2>1, <2>2, SMove DEF Early, PastHost, PastWork
<1> QED BY <1>1, <1>2, <1>3, <1>t, SEnd

LEMMA SInstallApp ==
    ASSUME TypeOK, SInv, SingleProcess, NEW p \in Clis, InstallApp(p)
    PROVE  SInv'
<1>t. ProcOK /\ run \in [Clis -> Run] /\ run[p] \in Run
  BY DEF TypeOK, ProcOK
<1>i. Claim(run[p], hist) /\ History(hist) /\ hist' = hist /\ run[p].pc = "installApp"
  BY DEF SInv, InstallApp, At
<1>1. CASE End(p, "error")
  BY <1>1, <1>i, <1>t, SEnd
<1>2. CASE ~ End(p, "error")
  <2>1. /\ run'[p].pc = "prepare" /\ run'[p].op \in {"install", "upgrade"}
        /\ run'[p].man = run[p].man /\ run'[p].flags = run[p].flags
        /\ run'[p].resizes = run[p].resizes /\ out' = out
    BY <1>2, <1>t DEF InstallApp, Run
  <2>2. run[p].op = "deploy"
    BY <1>i DEF Claim, Checked, Early
  <2>3. Checked(run'[p], hist')
    BY <2>1, <2>2, <1>i DEF Claim, Checked, HostSafe, Early, PastHost, PastWork
  <2>4. Deletes(run'[p], hist') /\ Helms(run'[p], hist')
    BY <2>1 DEF Deletes, Helms, Writing, HelmActions
  <2> QED BY <2>1, <2>3, <2>4, <1>i, NotGone, SKeep DEF Claim
<1> QED BY <1>1, <1>2

-----------------------------------------------------------------------------
\* Helm's steps.

\* An upgrade replaces a deployed revision.
LEMMA UpgradeBaseDeployed ==
    ASSUME NEW h \in [Revs -> Rev], HasDeployed(h), UpgradeBase(h) # 0
    PROVE  /\ UpgradeBase(h) \in Revs /\ h[UpgradeBase(h)].status = "deployed"
           /\ \A w \in Deployed(h) : w <= UpgradeBase(h)
<1>1. newestRelease(h) # 0 /\ newestRelease(h) \in Revs /\ ~ IsPending(h)
  BY NewestType DEF UpgradeBase, Stored
<1>2. CASE h[newestRelease(h)].status = "deployed"
  <2>1. UpgradeBase(h) = newestRelease(h)
    BY <1>1, <1>2 DEF UpgradeBase
  <2>2. \A w \in Deployed(h) : w <= newestRelease(h)
    BY NewestMax DEF Deployed
  <2> QED BY <1>1, <1>2, <2>1, <2>2
<1>3. CASE h[newestRelease(h)].status # "deployed"
  <2>1. Deployed(h) # {}
    BY <1>1, <1>3 DEF UpgradeBase, HasDeployed, IsPending
  <2>2. /\ Highest(Deployed(h)) \in Deployed(h)
        /\ \A w \in Deployed(h) : w <= Highest(Deployed(h))
    BY <2>1, HighestIsMax, Deployed(h) \in SUBSET Revs DEF Deployed
  <2>3. UpgradeBase(h) = Highest(Deployed(h))
    BY <1>1, <1>3, <2>1 DEF UpgradeBase
  <2> QED BY <2>2, <2>3 DEF Deployed
<1> QED BY <1>2, <1>3

LEMMA BaseKnown ==
    ASSUME NEW h, \A v \in Revs : h[v].man \in Known
    PROVE  Base(h) \in Known
<1>1. LastSuccessfulRelease(h) # 0 => LastSuccessfulRelease(h) \in Revs
  BY HighestType, Successful(h) \in SUBSET Revs DEF LastSuccessfulRelease, Successful
<1> QED BY <1>1 DEF Base, Known

LEMMA SPrepare ==
    ASSUME TypeOK, SInv, SingleProcess, NEW p \in Clis, Prepare(p)
    PROVE  SInv'
<1>t. ProcOK /\ run \in [Clis -> Run] /\ run[p] \in Run /\ hist \in [Revs -> Rev]
  BY DEF TypeOK, ProcOK
<1>i. Claim(run[p], hist) /\ History(hist) /\ hist' = hist /\ run[p].pc = "prepare"
  BY DEF SInv, Prepare, At
<1>1. CASE End(p, "error")
  BY <1>1, <1>i, <1>t, SEnd
<1>2. CASE ~ End(p, "error")
  <2> DEFINE last == newestRelease(hist)
             base == IF run[p].op = "upgrade" THEN UpgradeBase(hist) ELSE last
             m == IF run[p].op = "rollback" THEN Base(hist) ELSE run[p].man
  <2>1. /\ last < MaxRev
        /\ run' = [run EXCEPT ![p].pc = "create", ![p].rev = last + 1,
                              ![p].cur = base, ![p].man = m]
        /\ out' = out
    BY <1>2 DEF Prepare
  <2>2. run[p].op \in HelmActions
    BY <1>i DEF Claim, Helms
  <2>3. /\ run[p].op = "install" => last = 0
        /\ run[p].op = "upgrade" => UpgradeBase(hist) # 0
    BY <1>2, <2>2 DEF Prepare, HelmActions
  <2>4. last \in 0 .. MaxRev
    BY <1>t, NewestType
  <2>5. run[p].op = "install" => Stored(hist) = {}
    BY <2>3, NewestZero
  <2>6. run[p].op = "upgrade" => /\ base \in Revs /\ hist[base].status = "deployed"
                                 /\ \A w \in Deployed(hist) : w <= base
    BY <2>3, <1>t, <1>i, UpgradeBaseDeployed DEF History
  <2>7. run[p].op = "rollback" => m = Base(hist) /\ base = last /\ Leaves(last, hist)
    BY <1>i DEF Claim, Helms
  <2>8. m \in Known /\ (run[p].op # "rollback" => m = run[p].man)
    BY <1>i, BaseKnown DEF Claim, History
  <2> HIDE DEF base, m
  <2>9. last + 1 \in Revs
    <3> HIDE DEF last
    <3> QED BY <2>1, <2>4, MaxRevAssumption DEF Revs
  <2>10. /\ run'[p].pc = "create" /\ run'[p].op = run[p].op /\ run'[p].man = m
         /\ run'[p].flags = run[p].flags /\ run'[p].resizes = run[p].resizes
         /\ run'[p].rev = last + 1 /\ run'[p].cur = base
    BY <2>1, <1>t DEF Run
  <2>11. CreateReady(run'[p], hist')
    BY <2>5, <2>6, <2>7, <2>9, <2>10, <1>i DEF CreateReady, Replaces
  <2>12. Checked(run'[p], hist')
    BY <2>8, <2>10, <1>i DEF Claim, Checked, HostSafe, Early, PastHost, PastWork
  <2>13. Deletes(run'[p], hist') /\ Helms(run'[p], hist')
    BY <2>2, <2>10, <2>11 DEF Deletes, Helms, Writing
  <2> QED BY <2>1, <2>8, <2>10, <2>12, <2>13, <1>i, NotGone, SKeep DEF Claim
<1> QED BY <1>1, <1>2

LEMMA SCreate ==
    ASSUME TypeOK, SInv, SingleProcess, NEW p \in Clis, Create(p)
    PROVE  /\ SInv' /\ Base(hist') = Base(hist)
           /\ newestRelease(hist') = run[p].rev
           /\ hist'[run[p].rev].status \in Pending
<1>t. ProcOK /\ run \in [Clis -> Run] /\ run[p] \in Run /\ hist \in [Revs -> Rev]
  BY DEF TypeOK, ProcOK
<1>i. Claim(run[p], hist) /\ History(hist) /\ run[p].pc = "create"
  BY DEF SInv, Create, At
<1>c. CreateReady(run[p], hist) /\ run[p].op \in HelmActions
  BY <1>i DEF Claim, Helms
<1> DEFINE r == run[p].rev
           n == [status |-> PendingStatus(p), man |-> run[p].man]
           g == [hist EXCEPT ![r] = n]
<1>1. PendingStatus(p) \in Pending /\ PendingStatus(p) \in Status
  BY DEF PendingStatus, Pending, Status
<1>2. n \in Rev /\ n.status \in Pending /\ n.man = run[p].man
  BY <1>1, <1>t DEF Rev, Run
<1>3. r \in Revs /\ r = newestRelease(hist) + 1
  BY <1>c DEF CreateReady
<1>g. g = [hist EXCEPT ![r] = n]
  OBVIOUS
<1> HIDE DEF n, g, r
<1>a. g[r] = n /\ \A w \in Revs \ {r} : g[w] = hist[w]
  BY <1>g, <1>3, <1>t
<1>b. /\ hist[r].status = "none"
      /\ newestRelease(g) = r
      /\ Successful(g) = Successful(hist) /\ Deployed(g) = Deployed(hist)
      /\ Base(g) = Base(hist)
  BY <1>2, <1>3, <1>t, <1>a, AddPending
<1>4. /\ hist[r].status = "none" /\ g[r] = n
      /\ \A w \in Revs \ {r} : g[w] = hist[w]
      /\ newestRelease(g) = r
      /\ Successful(g) = Successful(hist) /\ Deployed(g) = Deployed(hist)
      /\ Base(g) = Base(hist)
  BY <1>a, <1>b
<1>5. hist' = g /\ Goto(p, "apply")
  BY <1>4, <1>g DEF Create, n, r
<1>6. /\ run'[p].pc = "apply" /\ run'[p].op = run[p].op /\ run'[p].man = run[p].man
      /\ run'[p].rev = r /\ run'[p].cur = run[p].cur /\ out'[p] = out[p]
  BY <1>5, <1>t, GotoAll DEF r
<1>7. History(g)
  <2>1. HasDeployed(g)
    BY <1>2, <1>4 DEF HasDeployed
  <2>2. \A v \in Revs : g[v].man \in Known
    BY <1>2, <1>4, <1>i DEF Claim, History
  <2> QED BY <2>1, <2>2 DEF History
<1>8. run[p].op \in {"upgrade", "rollback"} => run[p].cur \in Revs \ {r}
  BY <1>c, <1>4 DEF CreateReady, Replaces, Leaves
<1>9. Written(run'[p], g)
  <2>1. run[p].op = "install" => Successful(g) = {}
    BY <1>c, <1>4 DEF CreateReady, Stored, Successful, Success
  <2>2. run[p].op = "upgrade" => WorkloadErrors(Base(g), run[p].man) = {}
    BY <1>i, <1>4 DEF Claim, Checked, PastWork
  <2>3. run[p].op = "upgrade" => Replaces(run'[p], g)
    BY <1>c, <1>4, <1>6, <1>8 DEF CreateReady, Replaces
  <2>4. run[p].op = "rollback" => run[p].man = Base(g) /\ Leaves(run[p].cur, g)
    BY <1>c, <1>4, <1>8 DEF CreateReady, Leaves
  <2> QED BY <1>2, <1>3, <1>4, <1>6, <2>1, <2>2, <2>3, <2>4 DEF Written
<1>10. Claim(run'[p], g)
  BY <1>6, <1>9, <1>i, <1>c DEF Claim, Checked, Deletes, Helms, Early, PastHost,
                                 PastWork, Writing
<1>11. Gone(out'[p], run'[p], hist', jobs')
  BY <1>6, <1>i, NotGone
<1>12. SInv'
  BY <1>5, <1>7, <1>10, <1>11, SKeep
<1> QED BY <1>2, <1>4, <1>5, <1>12 DEF r

LEMMA SApply ==
    ASSUME TypeOK, SInv, SingleProcess, NEW p \in Clis, run[p].pc = "apply", hist' = hist,
           Goto(p, "supersede") \/ Goto(p, "failed")
    PROVE  SInv'
<1>t. ProcOK
  BY DEF TypeOK, ProcOK
<1>i. Claim(run[p], hist) /\ History(hist)
  BY DEF SInv
<1>1. /\ run'[p].pc \in {"supersede", "failed"} /\ run'[p].op = run[p].op
      /\ run'[p].man = run[p].man /\ run'[p].rev = run[p].rev
      /\ run'[p].cur = run[p].cur /\ out'[p] = out[p]
  BY <1>t, GotoAll
<1>2. Written(run'[p], hist') /\ run'[p].op \in HelmActions
  BY <1>1, <1>i DEF Claim, Helms, Writing, Written, Replaces
<1>3. Claim(run'[p], hist')
  BY <1>1, <1>2, <1>i DEF Claim, Checked, Deletes, Helms, Early, PastHost, PastWork, Writing
<1> QED BY <1>1, <1>3, <1>i, NotGone, SKeep

\* A step that marks revisions, promotes none of them and keeps the newest
\* pending (so that HasDeployed asks nothing).
LEMMA HistoryPending ==
    ASSUME NEW h, NEW g, History(h), \A v \in Revs : g[v].man = h[v].man,
           g[newestRelease(g)].status \in Pending \cup {"uninstalling"}
    PROVE  History(g)
BY DEF History, HasDeployed

LEMMA SSupersede ==
    ASSUME TypeOK, SInv, SingleProcess, NEW p \in Clis, Supersede(p)
    PROVE  /\ SInv' /\ Base(hist') = Base(hist)
           /\ newestRelease(hist') = newestRelease(hist)
           /\ hist'[newestRelease(hist)] = hist[newestRelease(hist)]
<1>t. ProcOK /\ run[p] \in Run /\ hist \in [Revs -> Rev]
  BY DEF TypeOK, ProcOK
<1>i. Claim(run[p], hist) /\ History(hist) /\ run[p].pc = "supersede"
  BY DEF SInv, Supersede, At
<1>w. Written(run[p], hist) /\ run[p].op \in HelmActions
  BY <1>i DEF Claim, Helms, Writing
<1> DEFINE V == CASE run[p].op = "install" -> {}
                  [] run[p].op = "upgrade" -> {run[p].cur}
                  [] OTHER -> Deployed(hist)
<1>1. hist' = Mark(hist, V, "superseded") /\ Goto(p, "commit")
  BY DEF Supersede
<1>2. \A v \in V \cap Revs : hist[v].status = "deployed"
  BY <1>w, <1>i DEF Written, Replaces, Deployed, HelmActions
<1>3. "superseded" \in Status /\ "superseded" \in Success /\ "deployed" \in Success
  BY DEF Status, Success
<1> HIDE DEF V
<1>4. Successful(hist') = Successful(hist) /\ Base(hist') = Base(hist)
  BY <1>1, <1>2, <1>3, <1>t, MarkBase
<1>5. newestRelease(hist') = newestRelease(hist) /\ \A v \in Revs : hist'[v].man = hist[v].man
  BY <1>1, <1>3, <1>t, MarkStored
<1>6. /\ run'[p].pc = "commit" /\ run'[p].op = run[p].op /\ run'[p].man = run[p].man
      /\ run'[p].rev = run[p].rev /\ out'[p] = out[p]
  BY <1>1, <1>t, GotoAll
<1>7. run[p].rev \notin V /\ hist'[run[p].rev] = hist[run[p].rev]
  <2>1. run[p].rev \notin V
    BY <1>2, <1>w DEF Written, Pending
  <2> QED BY <2>1, <1>1, <1>w, <1>t, MarkStatus DEF Written
<1>8. Written(run'[p], hist')
  BY <1>4, <1>5, <1>6, <1>7, <1>w DEF Written
<1>9. Claim(run'[p], hist')
  BY <1>6, <1>8, <1>i, <1>w DEF Claim, Checked, Deletes, Helms, Early, PastHost,
                                 PastWork, Writing
<1>10. History(hist')
  BY <1>5, <1>7, <1>w, <1>i, HistoryPending DEF Written
<1>11. Gone(out'[p], run'[p], hist', jobs')
  BY <1>6, <1>i, NotGone
<1>12. SInv'
  BY <1>9, <1>10, <1>11, SKeep
<1> QED BY <1>4, <1>5, <1>7, <1>12, <1>w DEF Written

\* What Commit does to the history: the newest revision is deployed, and it is
\* the new baseline.
LEMMA CommitHist ==
    ASSUME TypeOK, SInv, NEW p \in Clis, Commit(p)
    PROVE  /\ Written(run[p], hist) /\ run[p].op \in HelmActions
           /\ newestRelease(hist') = run[p].rev /\ newestRelease(hist) = run[p].rev
           /\ hist'[run[p].rev].status = "deployed"
           /\ \A v \in Revs : hist'[v].man = hist[v].man
           /\ Base(hist') = run[p].man
<1>t. ProcOK /\ run[p] \in Run /\ hist \in [Revs -> Rev]
  BY DEF TypeOK, ProcOK
<1>w. Written(run[p], hist) /\ run[p].op \in HelmActions
  BY DEF SInv, Claim, Helms, Commit, At, Writing
<1> DEFINE r == run[p].rev
           g == Mark(hist, {r}, "deployed")
<1>1. hist' = g
  BY DEF Commit
<1>2. /\ r \in Revs /\ r = newestRelease(hist) /\ hist[r].status # "none"
      /\ hist[r].man = run[p].man
  BY <1>w DEF Written, Pending
<1>3. "deployed" \in Status /\ "deployed" \in Success
  BY DEF Status, Success
<1>4. /\ newestRelease(g) = newestRelease(hist)
      /\ \A v \in Revs : g[v].man = hist[v].man
  BY <1>3, <1>t, MarkStored
<1>5. g \in [Revs -> Rev]
  BY <1>3, <1>t, MarkType
<1>6. g[r].status = "deployed"
  BY <1>2, <1>t, MarkStatus
<1> HIDE DEF g
<1>7. Base(g) = g[r].man
  BY <1>2, <1>3, <1>4, <1>5, <1>6, BaseNewest
<1> QED BY <1>w, <1>1, <1>2, <1>4, <1>6, <1>7

LEMMA SCommit ==
    ASSUME TypeOK, SInv, SingleProcess, NEW p \in Clis, Commit(p)
    PROVE  SInv'
<1>t. ProcOK
  BY DEF TypeOK, ProcOK
<1>1. /\ newestRelease(hist') = run[p].rev /\ run[p].rev \in Revs
      /\ hist'[run[p].rev].status = "deployed"
      /\ \A v \in Revs : hist'[v].man = hist[v].man
  BY CommitHist DEF Written
<1>2. HasDeployed(hist')
  BY <1>1 DEF HasDeployed, Deployed
<1>3. History(hist')
  BY <1>1, <1>2 DEF SInv, History
<1>4. \E r \in {"ok", "error"} : End(p, r)
  BY DEF Commit
<1> QED BY <1>t, <1>3, <1>4, SEnd

\* A failed revision at the top: the deployed one below it is still there.
LEMMA HistoryFailed ==
    ASSUME NEW h, NEW g, History(h), \A v \in Revs : g[v].man = h[v].man,
           NEW d \in Revs, g[d].status = "deployed"
    PROVE  History(g) /\ Deployed(g) # {}
BY DEF History, HasDeployed, Deployed

LEMMA SFailedUpgrade ==
    ASSUME TypeOK, SInv, SingleProcess, NEW p \in Clis, Failed(p), run[p].op = "upgrade"
    PROVE  /\ SInv' /\ Base(hist') = Base(hist)
           /\ newestRelease(hist') = newestRelease(hist)
           /\ hist[newestRelease(hist)].status \in Pending
           /\ hist'[newestRelease(hist)].status = "failed"
<1>t. ProcOK /\ run \in [Clis -> Run] /\ run[p] \in Run /\ hist \in [Revs -> Rev]
  BY DEF TypeOK, ProcOK
<1>i. Claim(run[p], hist) /\ History(hist) /\ run[p].pc = "failed"
  BY DEF SInv, Failed, At
<1>w. Written(run[p], hist) /\ Replaces(run[p], hist)
  BY <1>i DEF Claim, Helms, Writing, Written
<1> DEFINE r == run[p].rev
           g == Mark(hist, {r}, "failed")
<1>1. /\ hist' = g /\ out' = out
      /\ run' = [run EXCEPT ![p].pc = "prepare", ![p].op = "rollback"]
  BY DEF Failed
<1>2. r \in Revs /\ r = newestRelease(hist) /\ hist[r].status \in Pending /\ hist[r].man = run[p].man
  BY <1>w DEF Written
<1>3. "failed" \in Status /\ "failed" \notin Success
  BY DEF Status, Success, Pending
<1>4. newestRelease(g) = newestRelease(hist) /\ \A v \in Revs : g[v].man = hist[v].man
  BY <1>3, <1>t, MarkStored
<1>5. Base(g) = Base(hist)
  <2>1. \A v \in {r} \cap Revs : hist[v].status \notin Success
    BY <1>2 DEF Pending, Success
  <2> HIDE DEF r
  <2> QED BY <2>1, <1>3, <1>t, MarkBase
<1>6. g[r].status = "failed" /\ g[run[p].cur].status = "deployed" /\ run[p].cur \in Revs
  <2>1. run[p].cur \in Revs /\ run[p].cur # r
    BY <1>2, <1>w DEF Replaces, Pending
  <2>2. hist[r].status # "none"
    BY <1>2 DEF Pending
  <2> QED BY <1>2, <2>1, <2>2, <1>w, <1>t, MarkStatus DEF Replaces
<1> HIDE DEF g, r
<1>7. History(g) /\ Deployed(g) # {}
  BY <1>4, <1>6, <1>i, HistoryFailed
<1>8. /\ run'[p].pc = "prepare" /\ run'[p].op = "rollback" /\ run'[p].man = run[p].man
  BY <1>1, <1>t DEF Run
<1>9. Leaves(newestRelease(g), g)
  BY <1>2, <1>4, <1>5, <1>6, <1>7, <1>w DEF Leaves, Written
<1>10. Claim(run'[p], g)
  BY <1>8, <1>9, <1>i DEF Claim, Checked, Deletes, Helms, Early, PastHost,
                           PastWork, Writing, HelmActions
<1>11. Gone(out'[p], run'[p], hist', jobs')
  BY <1>1, <1>i, NotGone
<1>12. SInv'
  BY <1>1, <1>7, <1>10, <1>11, SKeep
<1> QED BY <1>1, <1>2, <1>4, <1>5, <1>6, <1>12

\* One more success: the baseline stays or moves to it.
LEMMA OneMore ==
    ASSUME NEW h, NEW g, NEW c \in Revs, Successful(g) = Successful(h) \cup {c},
           \A v \in Revs : g[v].man = h[v].man
    PROVE  Base(g) \in {Base(h), h[c].man}
<1> DEFINE n == Highest(Successful(g))
<1>1. Successful(g) \in SUBSET Revs /\ Successful(h) \in SUBSET Revs
  BY DEF Successful
<1>2. n \in Successful(g) /\ \A w \in Successful(g) : w <= n
  BY <1>1, HighestIsMax
<1>3. n # 0 /\ n \in Revs
  BY <1>1, <1>2, MaxRevAssumption DEF Revs
<1>4. Base(g) = g[n].man
  BY <1>3 DEF Base, LastSuccessfulRelease
<1> HIDE DEF n
<1>5. CASE n = c
  BY <1>4, <1>5
<1>6. CASE n # c
  <2>1. n \in Successful(h) /\ \A w \in Successful(h) : w <= n
    BY <1>2, <1>6
  <2>2. Highest(Successful(h)) = n
    BY <1>1, <2>1, HighestIs
  <2> QED BY <1>3, <1>4, <2>2 DEF Base, LastSuccessfulRelease
<1> QED BY <1>5, <1>6

LEMMA SFailedRollback ==
    ASSUME TypeOK, SInv, SingleProcess, NEW p \in Clis, Failed(p), run[p].op = "rollback"
    PROVE  /\ SInv'
           /\ Leaves(run[p].cur, hist)
           /\ Base(hist') \in {Base(hist), hist[run[p].cur].man}
           /\ newestRelease(hist') = newestRelease(hist)
           /\ newestRelease(hist) = run[p].rev
           /\ hist[run[p].rev].status \in Pending
           /\ hist'[run[p].rev].status = "failed"
<1>t. ProcOK /\ run[p] \in Run /\ hist \in [Revs -> Rev]
  BY DEF TypeOK, ProcOK
<1>i. Claim(run[p], hist) /\ History(hist) /\ run[p].pc = "failed"
  BY DEF SInv, Failed, At
<1>w. Written(run[p], hist) /\ Leaves(run[p].cur, hist)
  BY <1>i DEF Claim, Helms, Writing, Written
<1> DEFINE r == run[p].rev
           c == run[p].cur
<1>1. PICK S \in {{}, {c}} :
         hist' = Mark(Mark(hist, S, "superseded"), {r}, "failed")
  BY DEF Failed
<1> DEFINE f == Mark(hist, S, "superseded")
           g == Mark(f, {r}, "failed")
<1>2. /\ r \in Revs /\ r = newestRelease(hist) /\ hist[r].status \in Pending
      /\ c \in Revs /\ hist[c].status = "failed"
  BY <1>w DEF Written, Leaves
<1>3. /\ "failed" \in Status /\ "failed" \notin Success
      /\ "superseded" \in Status /\ "superseded" \in Success
  BY DEF Status, Success, Pending
<1>4. f \in [Revs -> Rev] /\ newestRelease(f) = newestRelease(hist)
      /\ \A v \in Revs : f[v].man = hist[v].man
  BY <1>3, <1>t, MarkStored, MarkType
<1>5. \A v \in Revs \ {c} : f[v] = hist[v]
  BY <1>t, MarkStatus
<1>6. f[c].status = IF S = {c} THEN "superseded" ELSE "failed"
  BY <1>2, <1>t, MarkStatus
<1>7. hist' = g
  BY <1>1
<1> HIDE DEF f
<1>8. newestRelease(g) = newestRelease(hist) /\ \A v \in Revs : g[v].man = hist[v].man
  BY <1>3, <1>4, MarkStored
<1>9. (\A v \in Revs \ {r} : g[v] = f[v]) /\ g[r].status = "failed"
  <2>1. f[r].status # "none"
    BY <1>2, <1>5 DEF Pending
  <2> QED BY <1>2, <1>4, <2>1, MarkStatus
<1> HIDE DEF g
<1>10. PICK d \in Revs : hist[d].status = "deployed"
  BY <1>w DEF Leaves, Deployed
<1>11. g[d].status = "deployed"
  BY <1>2, <1>5, <1>9, <1>10 DEF Pending
<1>12. History(hist')
  BY <1>7, <1>8, <1>11, <1>i, HistoryFailed
<1>13. SInv'
  BY <1>12, <1>t, SEnd DEF Failed
<1>14. Base(g) \in {Base(hist), hist[c].man}
  <2>1. r # c
    BY <1>2 DEF Pending
  <2>2. CASE S = {c}
    <3>1. Successful(g) = Successful(hist) \cup {c}
      BY <1>2, <1>3, <1>5, <1>6, <1>9, <2>1, <2>2 DEF Successful, Success, Pending
    <3> QED BY <3>1, <1>2, <1>8, OneMore
  <2>3. CASE S # {c}
    <3>1. Successful(g) = Successful(hist)
      BY <1>2, <1>3, <1>5, <1>6, <1>9, <2>1, <2>3 DEF Successful, Success, Pending
    <3> QED BY <3>1, <1>8, BaseSame DEF Successful
  <2> QED BY <2>2, <2>3
<1> QED BY <1>w, <1>2, <1>7, <1>8, <1>9, <1>13, <1>14

\* The steps of an uninstall.
LEMMA SUninstalled ==
    ASSUME TypeOK, SInv, SingleProcess, NEW p \in Clis, run[p].pc # "idle",
           Uninstalled(p), History(hist'), Stored(hist') = {}
    PROVE  SInv'
<1>t. ProcOK
  BY DEF TypeOK, ProcOK
<1>1. CASE run[p].op = "delete"
  <2>1. run'[p].pc = "delJobs" /\ run'[p].man = run[p].man /\ out'[p] = out[p]
    BY <1>1, <1>t, GotoAll DEF Uninstalled
  <2>2. Claim(run'[p], hist')
    BY <2>1 DEF SInv, Claim, Checked, Deletes, Helms, Early, PastHost, PastWork, Writing
  <2> QED BY <2>1, <2>2, NotGone, SKeep
<1>2. CASE run[p].op # "delete"
  BY <1>2, <1>t, SEnd DEF Uninstalled
<1> QED BY <1>1, <1>2

LEMMA SUnMark ==
    ASSUME TypeOK, SInv, SingleProcess, NEW p \in Clis, UnMark(p)
    PROVE  /\ SInv'
           /\ newestRelease(hist') = newestRelease(hist)
           /\ newestRelease(hist) # 0 =>
                 hist'[newestRelease(hist)].status = "uninstalling"
           /\ newestRelease(hist) = 0 => hist' = hist
<1>t. ProcOK /\ run \in [Clis -> Run] /\ run[p] \in Run /\ hist \in [Revs -> Rev]
  BY DEF TypeOK, ProcOK
<1>i. Claim(run[p], hist) /\ History(hist) /\ run[p].pc = "unmark"
  BY DEF SInv, UnMark, At
<1> DEFINE last == newestRelease(hist)
<1>1. CASE last = 0
  <2>1. hist' = hist /\ Uninstalled(p) /\ Stored(hist) = {}
    BY <1>1, NewestZero DEF UnMark
  <2>2. SInv'
    BY <2>1, <1>i, SUninstalled
  <2> QED BY <1>1, <2>1, <2>2
<1>2. CASE last # 0
  <2> DEFINE g == Mark(hist, {last}, "uninstalling")
             m == hist[last].man
  <2>1. /\ hist' = g /\ out' = out
        /\ run' = [run EXCEPT ![p].pc = "undelete", ![p].man = m, ![p].vers = Stored(hist)]
    BY <1>2 DEF UnMark
  <2>2. last \in Revs /\ hist[last].status # "none"
    BY <1>2, <1>t, NewestType DEF Stored
  <2>3. "uninstalling" \in Status
    BY DEF Status
  <2>4. /\ Stored(g) = Stored(hist) /\ newestRelease(g) = last
        /\ \A v \in Revs : g[v].man = hist[v].man
    BY <2>3, <1>t, MarkStored
  <2>5. g[last].status = "uninstalling"
    BY <2>2, <1>t, MarkStatus
  <2>6. m \in Known
    BY <2>2, <1>i DEF History
  <2> HIDE DEF g, m, last
  <2>7. run'[p].pc = "undelete" /\ run'[p].man = m /\ run'[p].vers = Stored(hist)
    BY <2>1, <1>t DEF Run
  <2>8. History(g)
    BY <2>4, <2>5, <1>i, HistoryPending
  <2>9. Claim(run'[p], g)
    BY <1>2, <2>4, <2>5, <2>6, <2>7 DEF Claim, Checked, Deletes, Helms, Early, PastHost,
                                        PastWork, Writing
  <2>10. Gone(out'[p], run'[p], hist', jobs')
    BY <2>1, <1>i, NotGone
  <2>11. SInv'
    BY <2>1, <2>8, <2>9, <2>10, SKeep
  <2> QED BY <1>2, <2>1, <2>4, <2>5, <2>11 DEF last
<1> QED BY <1>1, <1>2

LEMMA SPurge ==
    ASSUME TypeOK, SInv, SingleProcess, NEW p \in Clis, NEW v \in Revs, Purge(p, v)
    PROVE  /\ SInv'
           /\ newestRelease(hist') # 0 =>
                 hist'[newestRelease(hist')].status = "uninstalling"
<1>t. ProcOK /\ run \in [Clis -> Run] /\ run[p] \in Run /\ hist \in [Revs -> Rev]
  BY DEF TypeOK, ProcOK
<1>i. Claim(run[p], hist) /\ History(hist) /\ run[p].pc = "purge"
  BY DEF SInv, Purge, At
<1> DEFINE n == newestRelease(hist)
<1>1. /\ n # 0 /\ hist[n].status = "uninstalling"
      /\ run[p].vers = Stored(hist)
  BY <1>i DEF Claim, Deletes
<1>2. v \in Stored(hist) /\ \A w \in Stored(hist) : v <= w
  BY <1>1 DEF Purge, First
<1>3. /\ hist' = [hist EXCEPT ![v] = NoRev]
      /\ \A w \in Revs \ {v} : hist'[w] = hist[w]
      /\ hist'[v].status = "none" /\ hist'[v].man = NoManifest
  BY <1>t DEF Purge, NoRev
<1>4. Stored(hist') = Stored(hist) \ {v}
  BY <1>3 DEF Stored
<1>5. n \in Stored(hist) /\ Stored(hist) \in SUBSET Revs /\ \A w \in Stored(hist) : w <= n
  BY <1>2, HighestIsMax DEF newestRelease, Stored
<1>6. CASE run[p].vers = {v}
  <2>1. Stored(hist') = {} /\ newestRelease(hist') = 0
    BY <1>1, <1>4, <1>6, NewestZero
  <2>2. History(hist')
    <3>1. \A w \in Revs : hist'[w].man \in Known
      BY <1>3, <1>i DEF History, Known
    <3> QED BY <2>1, <3>1 DEF History, HasDeployed
  <2>3. Uninstalled(p)
    BY <1>6 DEF Purge
  <2> QED BY <2>1, <2>2, <2>3, <1>i, SUninstalled
<1>7. CASE run[p].vers # {v}
  <2>1. PICK w \in Stored(hist) : w # v
    BY <1>1, <1>2, <1>7
  <2>2. n # v
    <3>1. w \in Revs /\ v <= w /\ w <= n
      BY <1>2, <1>5, <2>1
    <3> HIDE DEF n
    <3> QED BY <2>1, <3>1, MaxRevAssumption DEF Revs
  <2>3. newestRelease(hist') = n /\ hist'[n] = hist[n]
    <3>1. n \in Stored(hist') /\ Stored(hist') \in SUBSET Revs
          /\ \A x \in Stored(hist') : x <= n
      BY <1>4, <1>5, <2>2
    <3> HIDE DEF n
    <3>2. Highest(Stored(hist')) = n
      BY <3>1, HighestIs
    <3> QED BY <1>3, <1>5, <2>2, <3>2 DEF newestRelease
  <2> DEFINE vs == run[p].vers \ {v}
  <2>4. run' = [run EXCEPT ![p].vers = vs] /\ out' = out
    BY <1>7 DEF Purge
  <2>5. vs = Stored(hist')
    BY <1>1, <1>4
  <2> HIDE DEF vs, n
  <2>6. /\ run'[p].pc = "purge" /\ run'[p].vers = vs /\ run'[p].man = run[p].man
    BY <2>4, <1>t, <1>i DEF Run
  <2>7. History(hist')
    <3>1. \A x \in Revs : hist'[x].man \in Known
      BY <1>3, <1>i DEF History, Known
    <3> QED BY <1>1, <2>3, <3>1 DEF History, HasDeployed
  <2>8. Claim(run'[p], hist')
    BY <1>1, <1>i, <2>3, <2>5, <2>6 DEF Claim, Checked, Deletes, Helms, Early, PastHost,
                                        PastWork, Writing
  <2>9. Gone(out'[p], run'[p], hist', jobs')
    BY <2>4, <1>i, NotGone
  <2>10. SInv'
    BY <2>7, <2>8, <2>9, SKeep
  <2> QED BY <1>1, <2>3, <2>10
<1> QED BY <1>6, <1>7

\* The steps of an uninstall and of runDelete that write no revision.
LEMMA SDelete ==
    ASSUME TypeOK, SInv, SingleProcess, ~ LostReads, NEW p \in Clis,
           UnDelete(p) \/ DelRead(p) \/ DelConfirm(p) \/ DelJobs(p)
              \/ (Failed(p) /\ run[p].op = "install")
    PROVE  SInv' /\ hist' = hist
<1>t. ProcOK /\ run \in [Clis -> Run] /\ run[p] \in Run /\ out \in [Clis -> Outcomes]
  BY DEF TypeOK, ProcOK
<1>i. Claim(run[p], hist) /\ History(hist)
  BY DEF SInv
<1>h. hist' = hist
  BY DEF UnDelete, DelRead, DelConfirm, DelJobs, Failed
<1>g. ASSUME run[p].pc # "idle", run'[p].man = run[p].man, out'[p] = out[p],
             run'[p].pc \in {"unmark", "purge", "delConfirm", "delJobs"},
             Deletes(run'[p], hist)
      PROVE  SInv'
  <2>1. Claim(run'[p], hist')
    BY <1>g, <1>h, <1>i DEF Claim, Checked, Helms, Early, PastHost, PastWork, Writing
  <2> QED BY <2>1, <1>g, <1>h, <1>i, NotGone, SKeep
<1>1. CASE UnDelete(p)
  <2>1. Goto(p, "purge") /\ run[p].pc = "undelete"
    BY <1>1 DEF UnDelete, At
  <2>2. /\ run'[p].pc = "purge" /\ run'[p].man = run[p].man
        /\ run'[p].vers = run[p].vers /\ out'[p] = out[p]
    BY <2>1, <1>t, GotoAll
  <2>3. Deletes(run'[p], hist)
    BY <2>1, <2>2, <1>i DEF Claim, Deletes
  <2> QED BY <2>1, <2>2, <2>3, <1>g, <1>h
<1>2. CASE DelRead(p)
  <2>1. CASE End(p, "noop")
    BY <2>1, <1>t, <1>i, <1>h, SEnd
  <2>2. CASE ~ End(p, "noop")
    <3>0. At(p, "delRead") /\ Found(p, newestRelease(hist))
      BY <1>2, ReadsTruly DEF DelRead
    <3>1. /\ run[p].pc = "delRead" /\ run'[p].pc = "delConfirm" /\ run'[p].man = run[p].man
          /\ run'[p].cur = newestRelease(hist) /\ out'[p] = out[p]
      BY <3>0, <2>2, <1>t DEF Found, At, Run
    <3>2. Deletes(run'[p], hist)
      BY <3>1 DEF Deletes
    <3> QED BY <3>1, <3>2, <1>g, <1>h
  <2> QED BY <2>1, <2>2
<1>3. CASE DelConfirm(p)
  <2>1. CASE End(p, "aborted")
    BY <2>1, <1>t, <1>i, <1>h, SEnd
  <2>2. CASE ~ End(p, "aborted")
    <3>0. /\ run[p].pc = "delConfirm"
          /\ Goto(p, IF run[p].cur # 0 THEN "unmark" ELSE "delJobs")
      BY <1>3, <2>2 DEF DelConfirm, At
    <3>1. /\ run'[p].pc = IF run[p].cur # 0 THEN "unmark" ELSE "delJobs"
          /\ run'[p].man = run[p].man /\ out'[p] = out[p]
      BY <3>0, <1>t, GotoAll
    <3>2. run[p].cur = 0 => Stored(hist) = {}
      BY <3>0, <1>i, NewestZero DEF Claim, Deletes
    <3>3. Deletes(run'[p], hist)
      BY <3>1, <3>2 DEF Deletes
    <3> QED BY <3>0, <3>1, <3>3, <1>g, <1>h
  <2> QED BY <2>1, <2>2
<1>4. CASE DelJobs(p)
  <2>1. run[p].pc = "delJobs" /\ Stored(hist) = {}
    BY <1>4, <1>i DEF DelJobs, At, Claim, Deletes
  <2>2. run'[p] = NoRun /\ (out'[p] = "deleted" => ~ jobs')
    BY <1>4, <1>t DEF DelJobs, End
  <2>3. Claim(NoRun, hist')
    BY DEF Claim, NoRun, Known, Checked, Deletes, Helms, Early, PastHost, PastWork, Writing
  <2> QED BY <2>1, <2>2, <2>3, <1>h, <1>i, SKeep DEF Gone, NoRun
<1>5. CASE Failed(p) /\ run[p].op = "install"
  <2>1. Goto(p, "unmark") /\ run[p].pc = "failed"
    BY <1>5 DEF Failed, At
  <2>2. run'[p].pc = "unmark" /\ run'[p].man = run[p].man /\ out'[p] = out[p]
    BY <2>1, <1>t, GotoAll
  <2> QED BY <2>1, <2>2, <1>g, <1>h DEF Deletes
<1> QED BY <1>1, <1>2, <1>3, <1>4, <1>5, <1>h

-----------------------------------------------------------------------------
LEMMA SNext == SingleProcess /\ ~ LostReads /\ TypeOK /\ SInv /\ [Next]_vars => SInv'
<1> SUFFICES ASSUME SingleProcess, ~ LostReads, TypeOK, SInv, [Next]_vars PROVE SInv'
  OBVIOUS
<1>t. ProcOK /\ History(hist)
  BY DEF TypeOK, ProcOK, SInv
<1>1. ASSUME NEW p \in Clis, Step(p) PROVE SInv'
  <2>f. CASE Failed(p)
    <3>1. run[p].op \in HelmActions
      BY <2>f DEF SInv, Claim, Helms, Writing, Failed, At
    <3> QED BY <2>f, <3>1, SFailedUpgrade, SFailedRollback, SDelete DEF HelmActions
  <2>a. CASE ApplyOK(p)
    BY <2>a, SApply DEF ApplyOK, At
  <2>b. ASSUME NEW S, ApplyFail(p, S) PROVE SInv'
    BY <2>b, SApply DEF ApplyFail, At
  <2> QED
    BY <1>1, <2>f, <2>a, <2>b, SGuards, SResize, SInstallApp, SPrepare, SCreate,
       SSupersede, SCommit, SUnMark, SPurge, SDelete
    DEF Step
<1>2. ASSUME NEW p \in Clis, Fault(p) PROVE SInv'
  BY <1>2, <1>t, SEnd DEF Fault
<1>3. CASE UNCHANGED <<hist, run, out, jobs>>
  BY <1>3 DEF SInv, History, Claim, Gone, Checked, Deletes, Helms, CreateReady,
              Written, HasDeployed, HostSafe, Replaces, Leaves
<1>4. ASSUME NEW o, Expand(o) PROVE SInv'
  BY <1>4, <1>3 DEF Expand
<1>5. CASE UNCHANGED vars
  BY <1>5, <1>3 DEF vars
<1> QED BY <1>1, <1>2, <1>4, <1>5, SStart, SStartDelete DEF Next

\* A delete that reports success has removed every revision, with or without a
\* Kubernetes client, and with one the labelled Jobs, whatever earlier runs left
\* behind: gaps of an interrupted purge, failed or pending revisions.
THEOREM DeletesAreComplete ==
    ASSUME SingleProcess, ~ LostReads
    PROVE  Spec => []DeletedIsGone
<1>1. SInv => DeletedIsGone
  BY DEF SInv, Gone, DeletedIsGone
<1>2. TypeOK /\ SInv /\ [Next]_vars => SInv'
  BY SNext
<1> QED BY <1>1, <1>2, TypeCorrect, SInit, PTL DEF Spec

\* Unless a rollback has failed, the revision Helm replaces is the baseline.
LEMMA ReplacedIsBase ==
    ASSUME NEW h \in [Revs -> Rev], NEW v \in Revs, h[v].status = "deployed",
           \A w \in Deployed(h) : w <= v, ~ RollbackFailed(h)
    PROVE  Base(h) = h[v].man
<1>1. v \in Successful(h) /\ Successful(h) \in SUBSET Revs
  BY DEF Successful, Success
<1>2. ASSUME NEW w \in Successful(h) PROVE w <= v
  <2>1. CASE w \in Deployed(h)
    BY <2>1
  <2>2. CASE w \notin Deployed(h)
    <3>1. w \in Revs /\ h[w].status = "superseded"
      BY <1>2, <2>2 DEF Successful, Success, Deployed
    <3>2. PICK x \in Deployed(h) : ~ (x < w)
      BY <3>1 DEF RollbackFailed
    <3>3. x \in Revs /\ x <= v
      BY <3>2 DEF Deployed
    <3> QED BY <3>1, <3>2, <3>3, MaxRevAssumption DEF Revs
  <2> QED BY <2>1, <2>2
<1>3. LastSuccessfulRelease(h) = v
  BY <1>1, <1>2, HighestIs DEF LastSuccessfulRelease
<1> QED BY <1>3, MaxRevAssumption DEF Base, Revs

\* The guards were asked before the prompt, the second render and the volumes,
\* and about a revision that deployah had picked; it is still the one that Helm
\* replaces when it records the upgrade.
THEOREM UpgradesAreGuarded ==
    ASSUME SingleProcess, ~ LostReads
    PROVE  Spec => GuardedUpgrade
<1> DEFINE A == \A p \in Clis : Upgrades(p) /\ ~ RollbackFailed(hist) =>
                   /\ \/ HostnameChanges(Replaced(p), run[p].man) = {}
                      \/ "force" \in run[p].flags
                   /\ WorkloadErrors(Replaced(p), run[p].man) = {}
<1>1. TypeOK /\ SInv /\ [Next]_vars => [A]_vars
  <2> SUFFICES ASSUME TypeOK, SInv, NEW p \in Clis, Upgrades(p), ~ RollbackFailed(hist)
               PROVE  /\ \/ HostnameChanges(Replaced(p), run[p].man) = {}
                         \/ "force" \in run[p].flags
                      /\ WorkloadErrors(Replaced(p), run[p].man) = {}
    OBVIOUS
  <2>1. /\ run[p].pc = "create" /\ run[p].op = "upgrade" /\ Claim(run[p], hist)
        /\ hist \in [Revs -> Rev]
    BY DEF Upgrades, At, SInv, TypeOK
  <2>2. Checked(run[p], hist) /\ CreateReady(run[p], hist)
    BY <2>1 DEF Claim, Helms
  <2>3. HostSafe(run[p], hist) /\ WorkloadErrors(Base(hist), run[p].man) = {}
    BY <2>1, <2>2 DEF Checked, PastHost, PastWork
  <2>4. /\ run[p].cur \in Revs /\ hist[run[p].cur].status = "deployed"
        /\ \A w \in Deployed(hist) : w <= run[p].cur
    BY <2>1, <2>2 DEF CreateReady, Replaces
  <2>5. Base(hist) = hist[run[p].cur].man
    BY <2>1, <2>4, ReplacedIsBase
  <2>6. Replaced(p) = Base(hist)
    BY <2>4, <2>5, MaxRevAssumption DEF Replaced, Revs
  <2> QED BY <2>3, <2>6 DEF HostSafe
<1>2. TypeOK /\ SInv /\ [Next]_vars => SInv'
  BY SNext
<1> QED BY <1>1, <1>2, TypeCorrect, SInit, PTL DEF Spec, GuardedUpgrade

-----------------------------------------------------------------------------
\* Where the history, and where the baseline, can change.

\* The steps that write the history.
LEMMA HistSteps ==
    ASSUME Next, hist' # hist
    PROVE  \E p \in Clis : \/ Create(p) \/ Supersede(p) \/ Commit(p) \/ UnMark(p)
                           \/ Failed(p) /\ run[p].op # "install"
                           \/ \E v \in Revs : Purge(p, v)
<1>1. ASSUME NEW p \in Clis, NEW m, NEW f, Start(p, m, f) PROVE FALSE
  BY <1>1 DEF Start
<1>2. ASSUME NEW p \in Clis, NEW f, StartDelete(p, f) PROVE FALSE
  BY <1>2 DEF StartDelete
<1>3. ASSUME NEW p \in Clis, Fault(p) PROVE FALSE
  BY <1>3 DEF Fault
<1>4. ASSUME NEW o, Expand(o) PROVE FALSE
  BY <1>4 DEF Expand
<1>5. PICK p \in Clis : Step(p)
  BY <1>1, <1>2, <1>3, <1>4 DEF Next
<1>6. ~ (Failed(p) /\ run[p].op = "install")
  BY DEF Failed
<1> QED
  BY <1>5, <1>6 DEF Step, Render, Plan, HostGuard, WorkGuard, Confirm, Verify, Crds, Patch,
     Wait, Orphan, InstallApp, Prepare, ApplyOK, ApplyFail, UnDelete, DelRead, DelConfirm,
     DelJobs

\* An uninstall moves the process.
LEMMA UninstallMoves ==
    ASSUME TypeOK, NEW p \in Clis, UnMark(p) \/ \E v \in Revs : Purge(p, v)
    PROVE  run'[p] # run[p]
<1>t. ProcOK /\ run \in [Clis -> Run] /\ run[p] \in Run
  BY DEF TypeOK, ProcOK
<1>u. ASSUME Uninstalled(p), run[p].pc \in {"unmark", "purge"} PROVE run'[p] # run[p]
  BY <1>u, <1>t, GotoFields, EndFields DEF Uninstalled
<1>1. CASE UnMark(p)
  <2>1. CASE ~ Uninstalled(p)
    <3>1. run'[p].pc = "undelete"
      BY <1>1, <2>1, <1>t DEF UnMark, Run
    <3> QED BY <1>1, <3>1 DEF UnMark, At
  <2> QED BY <1>1, <2>1, <1>u DEF UnMark, At
<1>2. ASSUME NEW v \in Revs, Purge(p, v) PROVE run'[p] # run[p]
  <2>1. CASE run[p].vers # {v}
    <3>1. run'[p].vers = run[p].vers \ {v} /\ v \in run[p].vers
      BY <1>2, <2>1, <1>t DEF Purge, First, Run
    <3> QED BY <3>1
  <2>2. CASE run[p].vers = {v}
    BY <1>2, <2>2, <1>u DEF Purge, At
  <2> QED BY <2>1, <2>2
<1> QED BY <1>1, <1>2

\* The baseline of the next deploy moves only when a run completes, gives up
\* its rollback, or uninstalls. In particular Helm never takes a revision that
\* failed for one that succeeded, and a rollback restores what it should.
THEOREM BaselineMovesRarely ==
    ASSUME SingleProcess, ~ LostReads
    PROVE  Spec => BaselineStable
<1> DEFINE A == Base(hist') # Base(hist) =>
                  \E p \in Clis :
                     /\ run'[p] # run[p]
                     /\ \/ At(p, "commit") /\ run[p].op # "rollback"
                        \/ At(p, "failed") /\ run[p].op = "rollback"
                        \/ At(p, "unmark") \/ At(p, "purge")
<1>1. TypeOK /\ SInv /\ [Next]_vars => [A]_vars
  <2> SUFFICES ASSUME TypeOK, SInv, Next, Base(hist') # Base(hist) PROVE A
    OBVIOUS
  <2>t. ProcOK
    BY DEF TypeOK, ProcOK
  <2>1. PICK p \in Clis : \/ Create(p) \/ Supersede(p) \/ Commit(p) \/ UnMark(p)
                          \/ Failed(p) /\ run[p].op # "install"
                          \/ \E v \in Revs : Purge(p, v)
    BY HistSteps
  <2>2. ~ Create(p) /\ ~ Supersede(p)
    BY SCreate, SSupersede
  <2>3. CASE Commit(p)
    <3>1. run[p].op # "rollback"
      BY <2>3, CommitHist DEF Written
    <3>2. run[p].pc = "commit" /\ run'[p].pc = "idle"
      BY <2>3, <2>t, EndFields DEF Commit, At
    <3> QED BY <3>1, <3>2 DEF At
  <2>4. CASE Failed(p) /\ run[p].op # "install"
    <3>1. run[p].op = "rollback" /\ run[p].pc = "failed"
      BY <2>4, SFailedUpgrade DEF SInv, Claim, Helms, Writing, Failed, At, HelmActions
    <3>2. run'[p].pc = "idle"
      BY <2>4, <3>1, <2>t, EndFields DEF Failed
    <3> QED BY <3>1, <3>2 DEF At
  <2>5. CASE UnMark(p) \/ \E v \in Revs : Purge(p, v)
    <3>1. At(p, "unmark") \/ At(p, "purge")
      BY <2>5 DEF UnMark, Purge
    <3> QED BY <2>5, <3>1, UninstallMoves
  <2> QED BY <2>1, <2>2, <2>3, <2>4, <2>5
<1>2. TypeOK /\ SInv /\ [Next]_vars => SInv'
  BY SNext
<1> QED BY <1>1, <1>2, TypeCorrect, SInit, PTL DEF Spec, BaselineStable

-----------------------------------------------------------------------------
(***************************************************************************)
(* Refinement. Baseline is the guards' view of the release: the manifest   *)
(* of the last success, nothing once an uninstall has begun. Every step    *)
(* of a deploy or delete maps to a step of GuardedRelease or leaves the    *)
(* baseline alone. The two steps that are not plain completions: a Create  *)
(* over an uninstall that was interrupted brings the old baseline back     *)
(* (an Install), and a rollback that fails may promote the upgrade it was  *)
(* leaving, which the guards had compared with the same baseline.          *)
(***************************************************************************)
LEMMA SameWords ==
    /\ Guarded!NoManifest = NoManifest
    /\ \A s : Guarded!Quantity(s) = Quantity(s)
BY DEF Guarded!NoManifest, Guarded!NoComp, NoManifest, NoComp, Guarded!Quantity, Quantity

LEMMA CompatibleFrom ==
    ASSUME NEW m \in Manifest, NEW n \in Manifest, WorkloadErrors(m, n) = {}
    PROVE  Guarded!Compatible(m, n)
<1> SUFFICES ASSUME NEW c \in Components, m.comps[c].kind # "none", n.comps[c].kind # "none"
             PROVE  /\ n.comps[c].kind = m.comps[c].kind
                    /\ (n.comps[c].role = "worker") = (m.comps[c].role = "worker")
                    /\ n.comps[c].size # NoSize =>
                          Quantity(n.comps[c].size) >= Quantity(m.comps[c].size)
                    /\ n.comps[c].kind = "StatefulSet" =>
                          (n.comps[c].size = NoSize) = (m.comps[c].size = NoSize)
  BY SameWords DEF Guarded!Compatible
<1> DEFINE o == m.comps[c]
           w == n.comps[c]
<1>1. o \in Comp /\ w \in Comp
  BY DEF Manifest
<1>2. /\ ~ KindChanged(o, w) /\ ~ RoleChanged(o, w)
      /\ ~ PersistenceToggled(o, w) /\ ~ SizeDecreased(o, w)
  BY DEF WorkloadErrors, Compared
<1> HIDE DEF o, w
<1>3. w.kind = o.kind
  BY <1>2 DEF KindChanged
<1>4. (w.role = "worker") = (o.role = "worker")
  BY <1>1, <1>2 DEF RoleChanged, Role, Comp
<1>5. Quantity(o.size) \in Nat /\ Quantity(w.size) \in Nat
  BY <1>1, QuantityType DEF Comp
<1>6. w.size # NoSize => Quantity(w.size) >= Quantity(o.size)
  <2>1. CASE o.size = NoSize
    BY <1>5, <2>1 DEF Quantity
  <2>2. CASE o.size # NoSize
    BY <1>2, <1>5, <2>2 DEF SizeDecreased, persistenceSizeDecreased
  <2> QED BY <2>1, <2>2
<1>7. w.kind = "StatefulSet" => (w.size = NoSize) = (o.size = NoSize)
  BY <1>2 DEF PersistenceToggled
<1> QED BY <1>3, <1>4, <1>6, <1>7 DEF o, w

\* A baseline that passed the guards is an abstract step.
LEMMA GuardedMove ==
    ASSUME Baseline \in Manifest, Baseline' \in Known,
           \/ Baseline = NoManifest
           \/ Baseline' = NoManifest
           \/ WorkloadErrors(Baseline, Baseline') = {}
    PROVE  Guarded!Next
<1>1. CASE Baseline' = NoManifest
  BY <1>1, SameWords DEF Guarded!Next, Guarded!Uninstall
<1>2. CASE Baseline' # NoManifest
  <2>1. Baseline' \in Manifests /\ Baseline' \in Manifest
    BY <1>2, RunAssumption DEF Known
  <2>2. CASE Baseline = NoManifest
    BY <2>1, <2>2, SameWords DEF Guarded!Next, Guarded!Install
  <2>3. CASE Baseline # NoManifest
    <3>1. Guarded!Compatible(Baseline, Baseline')
      BY <1>2, <2>1, <2>3, CompatibleFrom
    <3> QED BY <2>1, <2>3, <3>1, SameWords DEF Guarded!Next, Guarded!Upgrade
  <2> QED BY <2>2, <2>3
<1> QED BY <1>1, <1>2

\* Baseline as a function of the history.
Seen(h) == IF newestRelease(h) # 0 /\ h[newestRelease(h)].status = "uninstalling"
           THEN NoManifest ELSE Base(h)

LEMMA SeenIs == Baseline = Seen(hist) /\ Baseline' = Seen(hist')
BY DEF Baseline, Seen

\* Every step is an abstract step or leaves the baseline alone.
LEMMA SimulateStep ==
    ASSUME SingleProcess, TypeOK, SInv, Next, hist' # hist, Baseline' # Baseline
    PROVE  Guarded!Next
<1>t. hist \in [Revs -> Rev] /\ hist' \in [Revs -> Rev]
  BY TypeNext DEF TypeOK
<1>k. Base(hist) \in Manifest /\ Base(hist) \in Known
  BY <1>t, BaseType, BaseKnown DEF SInv, History
<1>s. Seen(hist) \in {NoManifest, Base(hist)} /\ Seen(hist) \in Manifest
  BY <1>k, NoManifestType DEF Seen
<1>g. ASSUME Seen(hist') \in Known,
             \/ Seen(hist) = NoManifest
             \/ Seen(hist') = NoManifest
             \/ WorkloadErrors(Seen(hist), Seen(hist')) = {}
      PROVE  Guarded!Next
  BY <1>g, <1>s, SeenIs, GuardedMove
<1>n. Seen(hist') # Seen(hist) /\ NoManifest \in Known
  BY SeenIs DEF Known
<1>1. PICK p \in Clis : \/ Create(p) \/ Supersede(p) \/ Commit(p) \/ UnMark(p)
                        \/ Failed(p) /\ run[p].op # "install"
                        \/ \E v \in Revs : Purge(p, v)
  BY HistSteps
<1>2. CASE Create(p)
  <2>1. Seen(hist') = Base(hist)
    BY <1>2, SCreate DEF Seen, Pending
  <2> QED BY <2>1, <1>g, <1>k, <1>n, <1>s
<1>3. CASE Supersede(p)
  BY <1>3, <1>n, SSupersede DEF Seen
<1>4. CASE Commit(p)
  <2>1. Seen(hist') = run[p].man
    BY <1>4, CommitHist DEF Seen
  <2>2. Seen(hist) = Base(hist)
    BY <1>4, CommitHist DEF Seen, Written, Pending
  <2>3. \/ Base(hist) = NoManifest
        \/ Base(hist) = run[p].man
        \/ WorkloadErrors(Base(hist), run[p].man) = {}
    BY <1>4, CommitHist, BaseNone DEF Written, HelmActions
  <2>4. run[p].man \in Known
    BY DEF SInv, Claim
  <2> QED BY <2>1, <2>2, <2>3, <2>4, <1>g, <1>n
<1>5. CASE UnMark(p)
  <2>1. Seen(hist') = NoManifest
    BY <1>5, <1>n, SUnMark DEF Seen
  <2> QED BY <2>1, <1>g, <1>n
<1>6. CASE Failed(p) /\ run[p].op = "upgrade"
  BY <1>6, <1>n, SFailedUpgrade DEF Seen, Pending
<1>7. CASE Failed(p) /\ run[p].op = "rollback"
  <2>1. Seen(hist') = Base(hist') /\ Seen(hist) = Base(hist)
    BY <1>7, SFailedRollback DEF Seen, Pending
  <2>2. Base(hist') = hist[run[p].cur].man /\ Leaves(run[p].cur, hist)
    BY <1>7, <1>n, <2>1, SFailedRollback
  <2>3. hist[run[p].cur].man \in Known
    BY <2>2 DEF SInv, History, Leaves
  <2> QED BY <2>1, <2>2, <2>3, <1>g DEF Leaves
<1>8. ASSUME NEW v \in Revs, Purge(p, v) PROVE Guarded!Next
  <2>1. Seen(hist') = NoManifest
    <3>1. CASE newestRelease(hist') # 0
      BY <1>8, <3>1, SPurge DEF Seen
    <3>2. CASE newestRelease(hist') = 0
      <4>1. Successful(hist') = {}
        BY <3>2, NewestZero DEF Stored, Successful, Success
      <4> QED BY <3>2, <4>1, BaseNone DEF Seen
    <3> QED BY <3>1, <3>2
  <2> QED BY <2>1, <1>g, <1>n
<1>9. Failed(p) => run[p].op \in HelmActions
  BY DEF SInv, Claim, Helms, Writing, Failed, At
<1> QED BY <1>1, <1>2, <1>3, <1>4, <1>5, <1>6, <1>7, <1>8, <1>9 DEF HelmActions

\* The successive baselines of a release move only as GuardedRelease allows:
\* from nothing to a manifest, to a compatible one, or to nothing.
THEOREM RefinesGuardedRelease ==
    ASSUME SingleProcess, ~ LostReads
    PROVE  Spec => ImplementsGuardedRelease
<1>1. Init => Guarded!Init
  <2> SUFFICES ASSUME Init PROVE Guarded!Init
    OBVIOUS
  <2>1. Stored(hist) = {} /\ Successful(hist) = {}
    BY DEF Init, NoRev, Stored, Successful, Success
  <2>2. Baseline = NoManifest
    BY <2>1, BaseNone, NewestZero DEF Baseline
  <2> QED BY <2>2, SameWords DEF Guarded!Init
<1>2. TypeOK /\ SInv /\ [Next]_vars => [Guarded!Next]_Baseline
  <2> SUFFICES ASSUME TypeOK, SInv, [Next]_vars, Baseline' # Baseline PROVE Guarded!Next
    OBVIOUS
  <2>1. hist' # hist
    BY SeenIs
  <2>2. Next
    BY <2>1 DEF vars
  <2> QED BY <2>1, <2>2, SimulateStep
<1>3. TypeOK /\ SInv /\ [Next]_vars => SInv'
  BY SNext
<1> QED BY <1>1, <1>2, <1>3, TypeCorrect, SInit, PTL
        DEF Spec, ImplementsGuardedRelease, Guarded!Spec

-----------------------------------------------------------------------------
(***************************************************************************)
(* Growing volumes. What resizeVolumes has done so far, loop by loop: the  *)
(* claims before the component at hand ask for their new size; then they   *)
(* all do, and those before it have it; then they all have it, and the     *)
(* StatefulSets before it are gone.                                        *)
(***************************************************************************)
Size(r, c) == Quantity(r.man.comps[c].size)
Obj(r, c) == <<c, r.man.comps[c].kind>>
Sts(r) == {c \in r.resizes : r.man.comps[c].kind = "StatefulSet"}

ToHelm == {"installApp", "prepare", "create"}
Places == {"patch", "wait", "orphan"} \cup ToHelm

Asked(r, q, C) == \A c \in C : q[Obj(r, c)] >= Size(r, c)
Removed(l, C) == \A c \in C : l[<<c, "StatefulSet">>] = Absent

Grows(r, l, q, k) ==
    /\ r.pc \in {"patch", "wait"} => r.left \subseteq r.resizes
    /\ r.pc = "patch" => Asked(r, q, r.resizes \ r.left)
    /\ r.pc = "wait" => Asked(r, q, r.resizes) /\ Asked(r, k, r.resizes \ r.left)
    /\ r.pc = "orphan" => Asked(r, k, r.resizes) /\ Removed(l, Sts(r) \ r.left)
    /\ r.pc \in ToHelm /\ r.op # "rollback" =>
          Asked(r, k, r.resizes) /\ Removed(l, Sts(r))

GInv == \A p \in Clis : Grows(run[p], live, pvc, cap)

LEMMA GKeep ==
    ASSUME SingleProcess, NEW p \in Clis, Grows(run'[p], live', pvc', cap')
    PROVE  GInv'
<1>1. \A q \in Clis : q = p
  BY DEF SingleProcess
<1> QED BY <1>1 DEF GInv, Grows, Asked, Removed, Size, Obj, Sts

LEMMA GElsewhere ==
    ASSUME SingleProcess, NEW p \in Clis,
           run'[p].pc \notin Places \/ (run'[p].pc = "prepare" /\ run'[p].op = "rollback")
    PROVE  GInv'
BY GKeep DEF Grows, Places, ToHelm

\* The steps outside resizeVolumes and the way to Helm.
LEMMA GOther ==
    ASSUME TypeOK, SingleProcess, NEW p \in Clis, Step(p), ~ Crds(p), ~ InstallApp(p),
           ~ Prepare(p), ~ \E c \in Components : Patch(p, c) \/ Wait(p, c) \/ Orphan(p, c)
    PROVE  GInv'
<1>t. ProcOK /\ run \in [Clis -> Run] /\ run[p] \in Run
  BY DEF TypeOK, ProcOK
<1>e. ASSUME NEW r, End(p, r) PROVE GInv'
  BY <1>e, <1>t, EndFields, GElsewhere DEF Places, ToHelm
<1>g. ASSUME NEW s, s \notin Places, Goto(p, s) PROVE GInv'
  BY <1>g, <1>t, GotoFields, GElsewhere
<1>d. ASSUME Uninstalled(p) PROVE GInv'
  BY <1>d, <1>e, <1>g DEF Uninstalled, Places, ToHelm
<1>1. CASE Render(p) \/ HostGuard(p) \/ Verify(p) \/ Confirm(p)
  BY <1>1, <1>e, <1>g DEF Render, HostGuard, Verify, Confirm, Check, Places, ToHelm
<1>2. CASE Plan(p)
  <2>1. run'[p].pc = "hostGuard"
    BY <1>2, <1>t DEF Plan, Run
  <2> QED BY <2>1, GElsewhere DEF Places, ToHelm
<1>3. CASE WorkGuard(p)
  <2>1. CASE ~ (End(p, "error") \/ End(p, "noop"))
    <3>1. run'[p].pc = "confirm"
      BY <1>3, <2>1, <1>t DEF WorkGuard, Guards, Run
    <3> QED BY <3>1, GElsewhere DEF Places, ToHelm
  <2> QED BY <2>1, <1>e
<1>4. CASE Create(p) \/ ApplyOK(p) \/ Supersede(p) \/ Commit(p) \/ UnDelete(p)
  BY <1>4, <1>e, <1>g DEF Create, ApplyOK, Supersede, Commit, UnDelete, Places, ToHelm
<1>5. ASSUME NEW S, ApplyFail(p, S) PROVE GInv'
  BY <1>5, <1>g DEF ApplyFail, Places, ToHelm
<1>6. CASE Failed(p)
  <2>1. CASE End(p, "error") \/ Goto(p, "unmark")
    BY <2>1, <1>e, <1>g DEF Places, ToHelm
  <2>2. CASE ~ (End(p, "error") \/ Goto(p, "unmark"))
    <3>1. run'[p].pc = "prepare" /\ run'[p].op = "rollback"
      BY <1>6, <2>2, <1>t DEF Failed, Run
    <3> QED BY <3>1, GElsewhere
  <2> QED BY <2>1, <2>2
<1>7. CASE UnMark(p)
  <2>1. CASE ~ Uninstalled(p)
    <3>1. run'[p].pc = "undelete"
      BY <1>7, <2>1, <1>t DEF UnMark, Run
    <3> QED BY <3>1, GElsewhere DEF Places, ToHelm
  <2> QED BY <2>1, <1>d
<1>8. ASSUME NEW v \in Revs, Purge(p, v) PROVE GInv'
  <2>1. CASE ~ Uninstalled(p)
    <3>1. run'[p].pc = "purge"
      BY <1>8, <2>1, <1>t DEF Purge, At, Run
    <3> QED BY <3>1, GElsewhere DEF Places, ToHelm
  <2> QED BY <2>1, <1>d
<1>9. CASE DelRead(p)
  <2>1. CASE ~ End(p, "noop")
    <3>1. run'[p].pc = "delConfirm"
      BY <1>9, <2>1, <1>t DEF DelRead, Found, Run
    <3> QED BY <3>1, GElsewhere DEF Places, ToHelm
  <2> QED BY <2>1, <1>e
<1>10. CASE DelConfirm(p) \/ DelJobs(p)
  BY <1>10, <1>e, <1>g DEF DelConfirm, DelJobs, Places, ToHelm
<1> QED
  BY <1>1, <1>2, <1>3, <1>4, <1>5, <1>6, <1>7, <1>8, <1>9, <1>10 DEF Step

\* Opening the loops, and the way to Helm.
LEMMA GOpen ==
    ASSUME TypeOK, SInv, GInv, SingleProcess, NEW p \in Clis,
           Crds(p) \/ InstallApp(p) \/ Prepare(p)
    PROVE  GInv'
<1>t. ProcOK /\ run \in [Clis -> Run] /\ run[p] \in Run /\ Grows(run[p], live, pvc, cap)
  BY DEF TypeOK, ProcOK, GInv
<1>e. ASSUME NEW r, End(p, r) PROVE GInv'
  BY <1>e, <1>t, EndFields, GElsewhere DEF Places, ToHelm
<1>1. CASE Crds(p)
  <2>1. CASE End(p, "ok") \/ End(p, "error")
    BY <2>1, <1>e
  <2>2. CASE Goto(p, "installApp") /\ run[p].resizes = {}
    <3>1. run'[p].pc = "installApp" /\ run'[p].resizes = {}
      BY <2>2, <1>t, GotoAll
    <3>2. Grows(run'[p], live', pvc', cap')
      BY <3>1 DEF Grows, Asked, Removed, Sts, ToHelm
    <3> QED BY <3>2, GKeep
  <2>3. CASE ~ (End(p, "ok") \/ End(p, "error") \/ (Goto(p, "installApp") /\ run[p].resizes = {}))
    <3> DEFINE rs == run[p].resizes
    <3>1. run' = [run EXCEPT ![p].pc = "patch", ![p].left = rs]
      BY <1>1, <2>3 DEF Crds
    <3>2. rs = run[p].resizes
      OBVIOUS
    <3> HIDE DEF rs
    <3>3. run'[p].pc = "patch" /\ run'[p].left = rs /\ run'[p].resizes = rs
      BY <3>1, <3>2, <1>t DEF Run
    <3>4. Grows(run'[p], live', pvc', cap')
      BY <3>3 DEF Grows, Asked, ToHelm
    <3> QED BY <3>4, GKeep
  <2> QED BY <2>1, <2>2, <2>3
<1>h. ASSUME UNCHANGED <<live, cap>>, run[p].pc \in ToHelm, run'[p].pc \in ToHelm,
             run[p].op # "rollback", run'[p].man = run[p].man, run'[p].resizes = run[p].resizes
      PROVE  GInv'
  <2>1. Grows(run'[p], live', pvc', cap')
    BY <1>h, <1>t DEF Grows, Asked, Removed, Size, Obj, Sts, ToHelm
  <2> QED BY <2>1, GKeep
<1>2. CASE InstallApp(p)
  <2>1. CASE End(p, "error")
    BY <2>1, <1>e
  <2>2. CASE ~ End(p, "error")
    <3>1. /\ run[p].pc = "installApp" /\ run'[p].pc = "prepare" /\ run'[p].man = run[p].man
          /\ run'[p].resizes = run[p].resizes /\ UNCHANGED <<live, cap>>
      BY <1>2, <2>2, <1>t DEF InstallApp, At, Run, storage
    <3>2. run[p].op = "deploy"
      BY <3>1 DEF SInv, Claim, Checked, Early
    <3> QED BY <3>1, <3>2, <1>h DEF ToHelm
  <2> QED BY <2>1, <2>2
<1>3. CASE Prepare(p)
  <2>1. CASE End(p, "error")
    BY <2>1, <1>e
  <2>2. CASE ~ End(p, "error")
    <3> DEFINE last == newestRelease(hist)
               base == IF run[p].op = "upgrade" THEN UpgradeBase(hist) ELSE last
               m == IF run[p].op = "rollback" THEN Base(hist) ELSE run[p].man
    <3>1. /\ run' = [run EXCEPT ![p].pc = "create", ![p].rev = last + 1,
                                ![p].cur = base, ![p].man = m]
          /\ run[p].pc = "prepare" /\ UNCHANGED <<live, cap>>
      BY <1>3, <2>2 DEF Prepare, At, storage
    <3>m. run[p].op # "rollback" => m = run[p].man
      OBVIOUS
    <3> HIDE DEF last, base, m
    <3>2. /\ run'[p].pc = "create" /\ run'[p].op = run[p].op /\ run'[p].man = m
          /\ run'[p].resizes = run[p].resizes
      BY <3>1, <1>t DEF Run
    <3>3. CASE run[p].op = "rollback"
      BY <3>2, <3>3, GKeep DEF Grows, ToHelm
    <3>4. CASE run[p].op # "rollback"
      BY <3>1, <3>2, <3>m, <3>4, <1>h DEF ToHelm
    <3> QED BY <3>3, <3>4
  <2> QED BY <2>1, <2>2
<1> QED BY <1>1, <1>2, <1>3

LEMMA AdvanceAll ==
    ASSUME ProcOK, NEW p \in Clis, NEW c, NEW s, NEW rest, Advance(p, c, s, rest)
    PROVE  /\ run'[p].man = run[p].man /\ run'[p].resizes = run[p].resizes
           /\ run'[p].op = run[p].op
           /\ run[p].left = {c} => run'[p].pc = s /\ run'[p].left = rest
           /\ run[p].left # {c} => run'[p].pc = run[p].pc /\ run'[p].left = run[p].left \ {c}
<1> DEFINE l == IF run[p].left = {c} THEN rest ELSE run[p].left \ {c}
           s0 == IF run[p].left = {c} THEN s ELSE run[p].pc
<1>1. run' = [run EXCEPT ![p].left = l, ![p].pc = s0]
  BY DEF Advance
<1>2. /\ run[p].left = {c} => l = rest /\ s0 = s
      /\ run[p].left # {c} => l = run[p].left \ {c} /\ s0 = run[p].pc
  OBVIOUS
<1> HIDE DEF l, s0
<1>3. /\ run'[p].man = run[p].man /\ run'[p].resizes = run[p].resizes
      /\ run'[p].op = run[p].op /\ run'[p].pc = s0 /\ run'[p].left = l
  BY <1>1 DEF ProcOK, Run
<1> QED BY <1>2, <1>3

\* The claims of the components of a manifest, and their sizes, are numbers.
LEMMA ClaimTypes ==
    ASSUME TypeOK, NEW p \in Clis, NEW c \in run[p].resizes
    PROVE  /\ Obj(run[p], c) \in Objs \/ run[p].man.comps[c].kind = "none"
           /\ Size(run[p], c) \in Nat
<1>1. run[p] \in Run
  BY DEF TypeOK
<1>2. c \in Components
  BY <1>1 DEF Run
<1>3. run[p].man.comps[c] \in Comp
  BY <1>1, <1>2 DEF Run, Manifest
<1> QED BY <1>2, <1>3, QuantityType DEF Size, Obj, Objs, Comp

LEMMA GPatch ==
    ASSUME TypeOK, SInv, GInv, SingleProcess, NEW p \in Clis, NEW c \in Components,
           Patch(p, c)
    PROVE  GInv'
<1>t. ProcOK /\ run[p] \in Run /\ Grows(run[p], live, pvc, cap) /\ pvc \in [Objs -> Nat]
  BY DEF TypeOK, ProcOK, GInv
<1>p. run[p].pc = "patch" /\ c \in run[p].left /\ run[p].left \subseteq run[p].resizes
  BY <1>t DEF Patch, At, First, Grows
<1> DEFINE o == Obj(run[p], c)
           z == Size(run[p], c)
<1>1. CASE pvc[Mounting(p, c)] = 0
  <2>1. End(p, "error")
    BY <1>1 DEF Patch
  <2> QED BY <2>1, <1>t, EndFields, GElsewhere DEF Places, ToHelm
<1>2. CASE pvc[Mounting(p, c)] # 0
  <2>1. /\ pvc' = [pvc EXCEPT ![o] = IF @ >= z THEN @ ELSE z]
        /\ Advance(p, c, "wait", run[p].resizes)
    BY <1>2 DEF Patch, Mounting, Obj, Size
  <2>2. z \in Nat /\ (\A d \in run[p].resizes : Size(run[p], d) \in Nat)
    BY <1>p, ClaimTypes
  <2>s. run[p].resizes = Resizes(Base(hist), run[p].man)
    BY <1>p DEF SInv, Claim, Checked, Early, PastWork
  <2>3. \A d \in run[p].resizes : Obj(run[p], d) \in Objs
    BY <2>s, ClaimTypes DEF Resizes, Compared
  <2>4. o \in Objs /\ pvc[o] \in Nat
    BY <1>p, <1>t, <2>3
  <2>5. \A d \in run[p].resizes : pvc[Obj(run[p], d)] \in Nat
    BY <1>t, <2>3
  <2> DEFINE y == IF pvc[o] >= z THEN pvc[o] ELSE z
  <2>6. y \in Nat /\ y >= z /\ y >= pvc[o]
    BY <2>2, <2>4
  <2>7. pvc'[o] = y /\ \A x \in Objs \ {o} : pvc'[x] = pvc[x]
    BY <2>1, <2>4, <1>t
  <2> HIDE DEF o, z, y
  <2>8. ASSUME NEW d \in run[p].resizes, d = c \/ pvc[Obj(run[p], d)] >= Size(run[p], d)
        PROVE  pvc'[Obj(run[p], d)] >= Size(run[p], d)
    <3>1. CASE Obj(run[p], d) = o
      <4>1. d = c
        BY <3>1 DEF Obj, o
      <4> QED BY <3>1, <4>1, <2>6, <2>7 DEF o, z
    <3>2. CASE Obj(run[p], d) # o
      BY <2>3, <2>7, <2>8, <3>2 DEF o
    <3> QED BY <3>1, <3>2
  <2>9. \A d \in (run[p].resizes \ run[p].left) \cup {c} : pvc'[Obj(run[p], d)] >= Size(run[p], d)
    BY <1>p, <1>t, <2>8 DEF Grows, Asked
  <2>10. /\ run'[p].man = run[p].man /\ run'[p].resizes = run[p].resizes
         /\ run[p].left = {c} => run'[p].pc = "wait" /\ run'[p].left = run[p].resizes
         /\ run[p].left # {c} => run'[p].pc = "patch" /\ run'[p].left = run[p].left \ {c}
    BY <2>1, <1>t, <1>p, AdvanceAll
  <2>11. Grows(run'[p], live', pvc', cap')
    <3>1. CASE run[p].left = {c}
      <4>1. Asked(run'[p], pvc', run'[p].resizes)
        BY <2>9, <2>10, <3>1 DEF Asked, Obj, Size
      <4> QED BY <2>10, <3>1, <4>1 DEF Grows, Asked, ToHelm
    <3>2. CASE run[p].left # {c}
      <4>1. Asked(run'[p], pvc', run'[p].resizes \ run'[p].left)
        BY <2>9, <2>10, <3>2 DEF Asked, Obj, Size
      <4> QED BY <1>p, <2>10, <3>2, <4>1 DEF Grows, ToHelm
    <3> QED BY <3>1, <3>2
  <2> QED BY <2>11, GKeep
<1> QED BY <1>1, <1>2

LEMMA GWait ==
    ASSUME TypeOK, SInv, GInv, SingleProcess, NEW p \in Clis, NEW c \in Components,
           Wait(p, c)
    PROVE  GInv'
<1>t. /\ ProcOK /\ run[p] \in Run /\ Grows(run[p], live, pvc, cap)
      /\ pvc \in [Objs -> Nat] /\ cap \in [Objs -> Nat]
  BY DEF TypeOK, ProcOK, GInv
<1>p. /\ run[p].pc = "wait" /\ c \in run[p].left /\ run[p].left \subseteq run[p].resizes
      /\ UNCHANGED <<live, pvc, cap>>
  BY <1>t DEF Wait, At, First, Grows, storage
<1> DEFINE o == Obj(run[p], c)
           z == Size(run[p], c)
           s == IF Stateful(p) = {} THEN "installApp" ELSE "orphan"
<1>1. CASE pvc[Mounting(p, c)] = 0 \/ cap[Mounting(p, c)] < pvc[Mounting(p, c)]
  <2>1. End(p, "error")
    BY <1>1 DEF Wait
  <2> QED BY <2>1, <1>t, EndFields, GElsewhere DEF Places, ToHelm
<1>2. CASE ~ (pvc[Mounting(p, c)] = 0 \/ cap[Mounting(p, c)] < pvc[Mounting(p, c)])
  <2>1. ~ (cap[o] < pvc[o]) /\ Advance(p, c, s, Stateful(p))
    BY <1>2 DEF Wait, Mounting, Obj
  <2>s. run[p].resizes = Resizes(Base(hist), run[p].man)
    BY <1>p DEF SInv, Claim, Checked, Early, PastWork
  <2>2. o \in Objs /\ z \in Nat
    BY <1>p, <2>s, ClaimTypes DEF Resizes, Compared
  <2>3. cap[o] \in Nat /\ pvc[o] \in Nat /\ pvc[o] >= z
    BY <1>p, <1>t, <2>2 DEF Grows, Asked
  <2> HIDE DEF o, z
  <2>4. cap[o] >= z
    BY <2>1, <2>2, <2>3
  <2>5. Asked(run[p], cap, (run[p].resizes \ run[p].left) \cup {c})
    BY <1>p, <1>t, <2>4 DEF Grows, Asked, o, z
  <2> HIDE DEF s
  <2>6. /\ run'[p].man = run[p].man /\ run'[p].resizes = run[p].resizes
        /\ run'[p].op = run[p].op
        /\ run[p].left = {c} => run'[p].pc = s /\ run'[p].left = Stateful(p)
        /\ run[p].left # {c} => run'[p].pc = "wait" /\ run'[p].left = run[p].left \ {c}
    BY <2>1, <1>t, <1>p, AdvanceAll
  <2>7. Sts(run'[p]) = Stateful(p)
    BY <2>6 DEF Sts, Stateful
  <2>8. CASE run[p].left = {c}
    <3>1. Asked(run'[p], cap', run'[p].resizes)
      BY <1>p, <2>5, <2>6, <2>8 DEF Asked, Obj, Size
    <3>2. CASE Stateful(p) = {}
      <4>1. run'[p].pc = "installApp" /\ Sts(run'[p]) = {}
        BY <2>6, <2>7, <2>8, <3>2 DEF s
      <4> QED BY <3>1, <4>1, GKeep DEF Grows, Removed, ToHelm
    <3>3. CASE Stateful(p) # {}
      <4>1. run'[p].pc = "orphan" /\ Sts(run'[p]) \ run'[p].left = {}
        BY <2>6, <2>7, <2>8, <3>3 DEF s
      <4>2. Removed(live', Sts(run'[p]) \ run'[p].left)
        BY <4>1 DEF Removed
      <4> QED BY <3>1, <4>1, <4>2, GKeep DEF Grows, ToHelm
    <3> QED BY <3>2, <3>3
  <2>9. CASE run[p].left # {c}
    <3>1. Asked(run'[p], cap', run'[p].resizes \ run'[p].left)
      BY <1>p, <2>5, <2>6, <2>9 DEF Asked, Obj, Size
    <3>2. Asked(run'[p], pvc', run'[p].resizes)
      BY <1>p, <1>t, <2>6 DEF Grows, Asked, Obj, Size
    <3>3. run'[p].pc = "wait" /\ run'[p].left \subseteq run'[p].resizes
      BY <1>p, <2>6, <2>9
    <3> QED BY <3>1, <3>2, <3>3, GKeep DEF Grows, ToHelm
  <2> QED BY <2>8, <2>9
<1> QED BY <1>1, <1>2

LEMMA GOrphan ==
    ASSUME TypeOK, SInv, GInv, SingleProcess, NEW p \in Clis, NEW c \in Components,
           Orphan(p, c)
    PROVE  GInv'
<1>t. /\ ProcOK /\ run[p] \in Run /\ Grows(run[p], live, pvc, cap)
      /\ live \in [Objs -> Object]
  BY DEF TypeOK, ProcOK, GInv
<1>p. run[p].pc = "orphan" /\ c \in run[p].left /\ cap' = cap
  BY <1>t DEF Orphan, At, First
<1> DEFINE o == <<c, "StatefulSet">>
<1>1. CASE live[o] = Absent
  <2>1. End(p, "stsNotFound")
    BY <1>1 DEF Orphan
  <2> QED BY <2>1, <1>t, EndFields, GElsewhere DEF Places, ToHelm
<1>2. CASE live[o] # Absent
  <2>1. live' = [live EXCEPT ![o] = Absent] /\ Advance(p, c, "installApp", {})
    BY <1>2 DEF Orphan
  <2>2. o \in Objs
    BY DEF Objs, Kinds
  <2> HIDE DEF o
  <2>3. live'[o] = Absent /\ \A x \in Objs \ {o} : live'[x] = live[x]
    BY <2>1, <2>2, <1>t
  <2>4. \A d \in Sts(run[p]) : <<d, "StatefulSet">> \in Objs
    BY <1>t DEF Sts, Run, Objs, Kinds
  <2>5. Removed(live', (Sts(run[p]) \ run[p].left) \cup {c})
    BY <1>p, <1>t, <2>3, <2>4 DEF Grows, Removed, o
  <2>6. /\ run'[p].man = run[p].man /\ run'[p].resizes = run[p].resizes
        /\ run'[p].op = run[p].op
        /\ run[p].left = {c} => run'[p].pc = "installApp" /\ run'[p].left = {}
        /\ run[p].left # {c} => run'[p].pc = "orphan" /\ run'[p].left = run[p].left \ {c}
    BY <2>1, <1>t, <1>p, AdvanceAll
  <2>7. Sts(run'[p]) = Sts(run[p]) /\ Asked(run'[p], cap', run'[p].resizes)
    BY <1>p, <1>t, <2>6 DEF Grows, Asked, Sts, Obj, Size
  <2>8. Removed(live', Sts(run'[p]) \ (run[p].left \ {c}))
    BY <2>5, <2>7 DEF Removed
  <2>9. Grows(run'[p], live', pvc', cap')
    <3>1. CASE run[p].left = {c}
      <4>1. Removed(live', Sts(run'[p]))
        BY <2>8, <3>1 DEF Removed
      <4> QED BY <2>6, <2>7, <3>1, <4>1 DEF Grows, ToHelm
    <3>2. CASE run[p].left # {c}
      BY <2>6, <2>7, <2>8, <3>2 DEF Grows, ToHelm
    <3> QED BY <3>1, <3>2
  <2> QED BY <2>9, GKeep
<1> QED BY <1>1, <1>2

\* A volume that grows takes nothing back.
LEMMA GExpand ==
    ASSUME TypeOK, SInv, GInv, NEW o \in Objs, Expand(o)
    PROVE  GInv'
<1>1. /\ UNCHANGED <<live, pvc, run>> /\ cap \in [Objs -> Nat] /\ pvc \in [Objs -> Nat]
      /\ cap' = [cap EXCEPT ![o] = pvc[o]] /\ cap[o] < pvc[o]
  BY DEF TypeOK, Expand
<1>2. \A x \in Objs : cap[x] \in Nat /\ cap'[x] \in Nat /\ cap'[x] >= cap[x]
  BY <1>1
<1>3. ASSUME NEW p \in Clis PROVE Grows(run[p], live, pvc, cap')
  <2>1. Grows(run[p], live, pvc, cap)
    BY DEF GInv
  <2>2. ASSUME NEW C \in SUBSET run[p].resizes, Asked(run[p], cap, C),
               run[p].pc \in PastWork, run[p].op # "rollback"
        PROVE  Asked(run[p], cap', C)
    <3>1. run[p].resizes = Resizes(Base(hist), run[p].man)
      BY <2>2 DEF SInv, Claim, Checked
    <3> SUFFICES ASSUME NEW d \in C
                 PROVE  cap'[Obj(run[p], d)] >= Size(run[p], d)
      BY DEF Asked
    <3> DEFINE x == Obj(run[p], d)
               z == Size(run[p], d)
    <3>2. x \in Objs /\ z \in Nat
      BY <3>1, ClaimTypes DEF Resizes, Compared
    <3>3. cap[x] >= z
      BY <2>2 DEF Asked
    <3> HIDE DEF x, z
    <3>4. cap'[x] >= z
      BY <1>2, <3>2, <3>3
    <3> QED BY <3>4 DEF x, z
  <2>3. run[p].pc \in {"wait", "orphan"} => run[p].op # "rollback"
    BY DEF SInv, Claim, Checked, Early
  <2>4. run[p].pc = "wait" => Asked(run[p], cap', run[p].resizes \ run[p].left)
    BY <2>1, <2>2, <2>3 DEF Grows, PastWork
  <2>5. run[p].pc = "orphan" => Asked(run[p], cap', run[p].resizes)
    BY <2>1, <2>2, <2>3 DEF Grows, PastWork
  <2>6. run[p].pc \in ToHelm /\ run[p].op # "rollback" => Asked(run[p], cap', run[p].resizes)
    BY <2>1, <2>2 DEF Grows, PastWork, ToHelm
  <2> QED BY <2>1, <2>4, <2>5, <2>6 DEF Grows
<1>4. \A p \in Clis : Grows(run'[p], live', pvc', cap')
  BY <1>1, <1>3
<1> QED BY <1>4 DEF GInv, Grows, Asked, Removed, Size, Obj, Sts

LEMMA GInit == Init => GInv
BY DEF Init, GInv, Grows, NoRun, ToHelm

LEMMA GNext == SingleProcess /\ TypeOK /\ SInv /\ GInv /\ [Next]_vars => GInv'
<1> SUFFICES ASSUME SingleProcess, TypeOK, SInv, GInv, [Next]_vars PROVE GInv'
  OBVIOUS
<1>t. ProcOK /\ run \in [Clis -> Run]
  BY DEF TypeOK, ProcOK
<1>1. ASSUME NEW p \in Clis, NEW m, NEW f, Start(p, m, f) PROVE GInv'
  BY <1>1, <1>t, GElsewhere DEF Start, NoRun, Places, ToHelm
<1>2. ASSUME NEW p \in Clis, NEW f, StartDelete(p, f) PROVE GInv'
  BY <1>2, <1>t, GElsewhere DEF StartDelete, NoRun, Places, ToHelm
<1>3. ASSUME NEW p \in Clis, Step(p) PROVE GInv'
  BY <1>3, GOther, GOpen, GPatch, GWait, GOrphan
<1>4. ASSUME NEW p \in Clis, Fault(p) PROVE GInv'
  BY <1>4, <1>t, EndFields, GElsewhere DEF Fault, Places, ToHelm
<1>5. CASE UNCHANGED vars
  BY <1>5 DEF vars, GInv, Grows, Asked, Removed, Size, Obj, Sts
<1> QED BY <1>1, <1>2, <1>3, <1>4, <1>5, GExpand DEF Next

\* When an upgrade that grows volumes is recorded, every claim has its new size
\* and every StatefulSet that would have to change is gone: however often
\* earlier resizes were interrupted, and however late the storage driver was.
THEOREM GrowthIsPrepared ==
    ASSUME SingleProcess, ~ LostReads
    PROVE  Spec => GrowthPrepared
<1> DEFINE A == \A p \in Clis : Upgrades(p) =>
                   \A c \in Resizes(Base(hist), run[p].man) :
                      /\ cap[Mounting(p, c)] >= Quantity(run[p].man.comps[c].size)
                      /\ run[p].man.comps[c].kind = "StatefulSet"
                            => live[<<c, "StatefulSet">>] = Absent
<1>1. TypeOK /\ SInv /\ GInv /\ [Next]_vars => [A]_vars
  <2> SUFFICES ASSUME SInv, GInv, NEW p \in Clis, Upgrades(p),
                      NEW c \in Resizes(Base(hist), run[p].man)
               PROVE  /\ cap[Mounting(p, c)] >= Quantity(run[p].man.comps[c].size)
                      /\ run[p].man.comps[c].kind = "StatefulSet"
                            => live[<<c, "StatefulSet">>] = Absent
    OBVIOUS
  <2>1. run[p].pc = "create" /\ run[p].op = "upgrade"
    BY DEF Upgrades, At
  <2>2. c \in run[p].resizes
    BY <2>1 DEF SInv, Claim, Checked, PastWork
  <2>3. Asked(run[p], cap, run[p].resizes) /\ Removed(live, Sts(run[p]))
    BY <2>1 DEF GInv, Grows, ToHelm
  <2> QED BY <2>2, <2>3 DEF Asked, Removed, Sts, Obj, Size, Mounting
<1>2. TypeOK /\ SInv /\ [Next]_vars => SInv'
  BY SNext
<1>3. TypeOK /\ SInv /\ GInv /\ [Next]_vars => GInv'
  BY GNext
<1> QED BY <1>1, <1>2, <1>3, TypeCorrect, SInit, GInit, PTL DEF Spec, GrowthPrepared

\* No StatefulSet controller is removed before all the claims have grown.
THEOREM OrphansAfterExpansion ==
    ASSUME SingleProcess, ~ LostReads
    PROVE  Spec => OrphanAfterExpand
<1> DEFINE A == \A p \in Clis :
                   At(p, "orphan") /\ live' # live /\ run'[p] # run[p] =>
                      \A c \in run[p].resizes :
                         cap[Mounting(p, c)] >= Quantity(run[p].man.comps[c].size)
<1>1. GInv /\ [Next]_vars => [A]_vars
  BY DEF GInv, Grows, Asked, Obj, Size, Mounting, At
<1>2. TypeOK /\ SInv /\ [Next]_vars => SInv'
  BY SNext
<1>3. TypeOK /\ SInv /\ GInv /\ [Next]_vars => GInv'
  BY GNext
<1> QED BY <1>1, <1>2, <1>3, TypeCorrect, SInit, GInit, PTL DEF Spec, OrphanAfterExpand

-----------------------------------------------------------------------------
(* The guards cover what Kubernetes refuses.                               *)

LEMMA QuantityNat ==
    ASSUME NEW s \in Sizes \cup {NoSize}
    PROVE  /\ Quantity(s) \in Nat
           /\ Quantity(s) = 0 <=> s = NoSize
BY SizesAssumption DEF Quantity

\* One object: when Kubernetes would refuse it in place, a guard rejects the
\* component, or it is a StatefulSet that resizeVolumes removes, or it changes
\* its storage class and does not shrink.
LEMMA RefusedIsGuarded ==
    ASSUME NEW m \in Manifest, NEW n \in Manifest, NEW o \in Objs,
           Immutable(LiveOf(m), ClaimsOf(m), n, o)
    PROVE  \/ o[1] \in WorkloadErrors(m, n)
           \/ o[2] = "StatefulSet" /\ o[1] \in StatefulResizes(m, n)
           \/ m.comps[o[1]].class # n.comps[o[1]].class /\ Want(m, o) <= Want(n, o)
<1> DEFINE c == o[1]
           p == m.comps[c]
           x == n.comps[c]
<1>1. c \in Components /\ o[2] \in Kinds
  BY DEF Objs
<1>2. p \in Comp /\ x \in Comp
  BY <1>1 DEF Manifest
<1>3. /\ Quantity(p.size) \in Nat /\ (Quantity(p.size) = 0 <=> p.size = NoSize)
      /\ Quantity(x.size) \in Nat /\ (Quantity(x.size) = 0 <=> x.size = NoSize)
  BY <1>2, QuantityNat DEF Comp
<1>4. x.kind = o[2] /\ Want(n, o) = Quantity(x.size)
  BY DEF Immutable, Want
<1>l. LiveOf(m)[o] = Rendered(m, o)
  BY DEF LiveOf
<1>5. CASE TemplateChanges(LiveOf(m), n, o)
  <2>0. Rendered(m, o).size # NoObj /\ o[2] = "StatefulSet"
    BY <1>l, <1>5 DEF TemplateChanges
  <2>w. Want(m, o) # NoObj
    BY <2>0 DEF Rendered, Absent
  <2>1. /\ p.kind = "StatefulSet" /\ o[2] = "StatefulSet"
        /\ Want(m, o) = Quantity(p.size)
        /\ LiveOf(m)[o].size = Quantity(p.size) /\ LiveOf(m)[o].class = p.class
    <3>1. p.kind = "StatefulSet" /\ Want(m, o) = Quantity(p.size)
      BY <2>0, <2>w DEF Want
    <3>2. Rendered(m, o) = [size |-> Want(m, o), class |-> p.class]
      BY <2>w DEF Rendered
    <3> QED BY <1>l, <2>0, <3>1, <3>2
  <2>2. c \in Compared(m, n)
    BY <1>1, <1>4, <2>1 DEF Compared
  <2>3. CASE Quantity(p.size) = Quantity(x.size)
    <3>1. p.class # x.class
      BY <1>5, <1>4, <2>1, <2>3 DEF TemplateChanges
    <3> QED BY <3>1, <1>3, <1>4, <2>1, <2>3
  <2>4. CASE (p.size = NoSize) # (x.size = NoSize)
    BY <2>1, <2>2, <2>4 DEF WorkloadErrors, PersistenceToggled
  <2>5. CASE /\ p.size # NoSize /\ x.size # NoSize
             /\ Quantity(p.size) # Quantity(x.size)
    <3>1. CASE Quantity(x.size) < Quantity(p.size)
      BY <2>2, <2>5, <3>1 DEF WorkloadErrors, SizeDecreased, persistenceSizeDecreased
    <3>2. CASE ~ (Quantity(x.size) < Quantity(p.size))
      BY <1>4, <2>1, <2>2, <2>5, <3>2
      DEF StatefulResizes, Resizes, persistenceSizeDecreased
    <3> QED BY <3>1, <3>2
  <2> QED BY <1>3, <2>3, <2>4, <2>5
<1>6. CASE ClaimChanges(LiveOf(m), ClaimsOf(m), n, o)
  <2>1. /\ p.kind = "Deployment" /\ o[2] = "Deployment"
        /\ Want(m, o) = Quantity(p.size) /\ ClaimsOf(m)[o] = Quantity(p.size)
        /\ Quantity(p.size) > 0 /\ Quantity(x.size) > 0
        /\ Quantity(p.size) > Quantity(x.size) \/ LiveOf(m)[o].class # x.class
    BY <1>3, <1>4, <1>6 DEF ClaimChanges, ClaimsOf, Want, NoObj
  <2>2. LiveOf(m)[o].class = p.class
    BY <1>l, <1>3, <2>1 DEF Rendered, NoObj
  <2>3. c \in Compared(m, n) /\ p.size # NoSize /\ x.size # NoSize
    BY <1>1, <1>3, <1>4, <2>1 DEF Compared
  <2>4. CASE Quantity(x.size) < Quantity(p.size)
    BY <2>3, <2>4 DEF WorkloadErrors, SizeDecreased, persistenceSizeDecreased
  <2>5. CASE ~ (Quantity(x.size) < Quantity(p.size))
    BY <1>3, <1>4, <2>1, <2>2, <2>5
  <2> QED BY <2>4, <2>5
<1> QED BY <1>5, <1>6 DEF Immutable

\* checkWorkloadGuards and detectPersistenceResizes leave no other gap between
\* them than the storage class: whatever manifest the guards accept over
\* whatever manifest was the last successful one, what Helm applies is refused
\* as immutable only for StatefulSets that --resize-volumes removes first, and
\* for claims that move to another storage class without shrinking.
THEOREM GuardGapsKnown == Spec => []GuardGaps
<1>1. TypeOK => GuardGaps
  <2> SUFFICES ASSUME TypeOK, NEW m \in Manifests, WorkloadErrors(Base(hist), m) = {},
                      NEW o \in Objs, Immutable(LiveOf(Base(hist)), ClaimsOf(Base(hist)), m, o)
               PROVE  \/ o[2] = "StatefulSet" /\ o[1] \in StatefulResizes(Base(hist), m)
                      \/ /\ Base(hist).comps[o[1]].class # m.comps[o[1]].class
                         /\ Want(Base(hist), o) <= Want(m, o)
    BY DEF GuardGaps
  <2>1. Base(hist) \in Manifest /\ m \in Manifest
    BY BaseType, RunAssumption DEF TypeOK
  <2> QED BY <2>1, RefusedIsGuarded
<1> QED BY <1>1, TypeCorrect, PTL
=============================================================================
