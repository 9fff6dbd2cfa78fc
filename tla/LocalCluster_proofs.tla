-------------------------- MODULE LocalCluster_proofs --------------------------
(***************************************************************************)
(* What cluster up and cluster down report is what they leave behind, for  *)
(* one process at a time. Two processes really defeat this: one may delete *)
(* what the other is building (cluster_cancel.cfg).                        *)
(***************************************************************************)
EXTENDS LocalCluster, TLAPS

\* Commands take turns.
SingleProcess == \A p, q \in Clis : p = q

\* Nodes and containers that are gone are nobody's.
Clean == (node.st = "absent" => node = NoNode) /\ (cpc.st = "none" => cpc = NoContainer)

AfterCreate == {"kubeconfig", "writeKubeconfig", "find", "removeStale", "createCP", "startCP", "attach"}
WithCopy == {"find", "removeStale", "createCP", "startCP", "attach"}

\* Which command may be where.
Course(r) ==
    /\ r.pc \in AfterCreate \cup {"create"} => r.cmd # "down"
    /\ r.pc \in WithCopy => r.cmd # "noCloud"
    /\ r.pc = "attach" => r.cmd = "attach"
    /\ r.pc \in {"stopFind", "stopRemove"} => r.cmd \in {"attach", "down"}
    /\ r.pc \in {"confirm", "gateways", "delete"} => r.cmd = "down"
    /\ r.pc \in {"idle", "get"} => r.kind = "none"

\* An up that is past Create, and an up --attach that stops its provider.
Upped(r) == r.pc \in AfterCreate \/ (r.pc \in {"stopFind", "stopRemove"} /\ r.cmd = "attach")

\* Nothing is built without Kind's goroutine, and it is only at work while
\* Create or the cleanup waits for it.
Building(r, n) ==
    /\ n.st = "building" => r.kind = "build" /\ n.by = r.id
    /\ r.kind \in {"check", "build"} => r.pc \in {"create", "drain"}
    /\ r.kind = "ok" /\ r.pc = "create" => n.st = "ready"
    /\ r.kind = "exists" /\ r.pc = "create" => n.st \in {"ready", "partial"}
    /\ r.pc \in {"cleanup", "close"} => r.kind \in KindDone

\* What the machine has when the command is at r.
Machine(r, n, k, c, g) ==
    /\ Upped(r) => n.st \in {"ready", "partial"}
    /\ Upped(r) /\ r.pc \notin {"kubeconfig", "writeKubeconfig"} => k
    /\ r.pc = "close" => n = NoNode
    /\ r.pc \in {"gateways", "delete"} => c = NoContainer
    /\ r.pc = "delete" => ~ g

\* What an outcome says; a process that has one is idle.
Reported(r, o, n, k, c, g) ==
    /\ o # "none" => r.pc = "idle"
    /\ o = "canceled" => n = NoNode
    /\ o = "deleted" => ~ k
    /\ o \in {"deleted", "deletedCopyLeft"} => n = NoNode /\ c = NoContainer /\ ~ g
    /\ o = "ok" => n.st \in {"ready", "partial"} /\ k

Local(r, o) == /\ Course(r) /\ Building(r, node)
               /\ Machine(r, node, kubeconfig, cpc, gateways)
               /\ Reported(r, o, node, kubeconfig, cpc, gateways)

LInv == TypeOK /\ Clean /\ \A p \in Clis : Local(run[p], out[p])
-----------------------------------------------------------------------------
(* What the common endings of an action do to the local state.            *)

LEMMA GotoFacts ==
    ASSUME run \in [Clis -> Run], NEW p \in Clis, NEW s \in Steps, Goto(p, s)
    PROVE  /\ run' \in [Clis -> Run] /\ out' = out /\ runs' = runs
           /\ run'[p].pc = s /\ run'[p].cmd = run[p].cmd /\ run'[p].id = run[p].id
           /\ run'[p].ctx = run[p].ctx /\ run'[p].kind = run[p].kind
<1> DEFINE r == [run[p] EXCEPT !.pc = s]
<1>1. run[p] \in Run
  OBVIOUS
<1>2. r \in Run /\ r.pc = s /\ r.cmd = run[p].cmd /\ r.id = run[p].id
      /\ r.ctx = run[p].ctx /\ r.kind = run[p].kind
  BY <1>1 DEF Run
<1>3. run' = [run EXCEPT ![p] = r] /\ out' = out /\ runs' = runs
  BY DEF Goto
<1> HIDE DEF r
<1> QED BY <1>2, <1>3

LEMMA NoRunFacts ==
    /\ NoRun \in Run
    /\ NoRun.pc = "idle" /\ NoRun.kind = "none"
BY MaxRunsAssumption DEF NoRun, Run, Steps, AllCmds, Ids, KindState

LEMMA EndFacts ==
    ASSUME run \in [Clis -> Run], out \in [Clis -> Outcomes],
           NEW p \in Clis, NEW o \in Outcomes, End(p, o)
    PROVE  /\ run' \in [Clis -> Run] /\ out' \in [Clis -> Outcomes] /\ runs' = runs
           /\ run'[p] = NoRun /\ out'[p] = o
BY NoRunFacts DEF End

\* With one process there is one local state to look at.
LEMMA Assemble ==
    ASSUME SingleProcess, NEW p \in Clis, TypeOK', Clean', Local(run[p], out[p])'
    PROVE  LInv'
<1>1. \A q \in Clis : q = p
  BY DEF SingleProcess
<1> QED BY <1>1 DEF LInv

\* An idle process claims nothing of the machine but its outcome.
LEMMA IdleLocal ==
    ASSUME NEW p \in Clis, run'[p] = NoRun, node'.st # "building",
           Reported(NoRun, out'[p], node', kubeconfig', cpc', gateways')
    PROVE  Local(run[p], out[p])'
BY NoRunFacts DEF Local, Course, Building, Machine, Upped, AfterCreate, WithCopy, KindDone

LEMMA AbandonedFacts ==
    ASSUME LInv, NEW p \in Clis
    PROVE  Abandoned(p) \in Node /\ Abandoned(p).st # "building"
           /\ (Abandoned(p).st = "absent" => Abandoned(p) = NoNode)
           /\ (node = NoNode => Abandoned(p) = NoNode)
<1>1. node \in Node /\ Local(run[p], out[p]) /\ Clean /\ run[p] \in Run
  BY DEF LInv, TypeOK
<1>2. CASE run[p].kind = "build" /\ node = [st |-> "building", by |-> run[p].id]
  <2>1. Abandoned(p) = [node EXCEPT !.st = "partial"]
    BY <1>2 DEF Abandoned
  <2>2. node # NoNode
    BY <1>2 DEF NoNode
  <2> QED BY <1>1, <1>2, <2>1, <2>2 DEF Node, NoNode
<1>3. CASE ~(run[p].kind = "build" /\ node = [st |-> "building", by |-> run[p].id])
  <2>1. Abandoned(p) = node
    BY <1>3 DEF Abandoned
  <2>2. node.st # "building"
    <3> SUFFICES ASSUME node.st = "building" PROVE FALSE
      OBVIOUS
    <3>1. run[p].kind = "build" /\ node.by = run[p].id
      BY <1>1 DEF Local, Building
    <3>2. node = [st |-> "building", by |-> run[p].id]
      BY <1>1, <3>1 DEF Node
    <3> QED BY <1>3, <3>1, <3>2
  <2> QED BY <1>1, <2>1, <2>2 DEF Clean
<1> QED BY <1>2, <1>3

-----------------------------------------------------------------------------
(* The actions.                                                            *)

LEMMA LBegin ==
    ASSUME LInv, SingleProcess, NEW p \in Clis, NEW cmd \in Cmds, Begin(p, cmd)
    PROVE  LInv'
<1> USE DEF Local, Course, Building, Machine, Reported, Upped, AfterCreate, WithCopy, KindDone
<1>t. /\ TypeOK /\ Clean /\ Local(run[p], out[p])
      /\ run \in [Clis -> Run] /\ out \in [Clis -> Outcomes] /\ run[p] \in Run
  BY DEF LInv, TypeOK
<1> DEFINE r == [NoRun EXCEPT !.pc = "get", !.cmd = cmd, !.id = runs + 1]
<1>1. At(p, "idle") /\ runs' = runs + 1 /\ runs < MaxRuns /\ UNCHANGED world
      /\ run' = [run EXCEPT ![p] = r] /\ out' = [out EXCEPT ![p] = "none"]
  BY DEF Begin
<1>2. runs + 1 \in Ids /\ cmd \in AllCmds
  BY <1>t, <1>1, MaxRunsAssumption, CmdsAssumption DEF TypeOK, Ids
<1>3. r \in Run /\ r.pc = "get" /\ r.kind = "none"
  BY <1>2, NoRunFacts DEF Run, Steps
<1> HIDE DEF r
<1>4. "none" \in Outcomes
  BY DEF Outcomes
<1>5. TypeOK' /\ Clean'
  BY <1>t, <1>1, <1>2, <1>3, <1>4 DEF TypeOK, Clean, world
<1>6. run'[p] = r /\ out'[p] = "none"
  BY <1>t, <1>1
<1>7. node.st # "building"
  BY <1>t, <1>1 DEF At
<1>8. Local(run[p], out[p])'
  BY <1>1, <1>3, <1>6, <1>7 DEF world
<1> QED BY <1>5, <1>8, Assemble

LEMMA LCancel ==
    ASSUME LInv, SingleProcess, NEW p \in Clis, Cancel(p)
    PROVE  LInv'
<1> USE DEF Local, Course, Building, Machine, Reported, Upped, AfterCreate, WithCopy, KindDone
<1>t. /\ TypeOK /\ Clean /\ Local(run[p], out[p])
      /\ run \in [Clis -> Run] /\ out \in [Clis -> Outcomes] /\ run[p] \in Run
  BY DEF LInv, TypeOK
<1> DEFINE r == [run[p] EXCEPT !.ctx = TRUE]
<1>1. run' = [run EXCEPT ![p] = r] /\ out' = out /\ runs' = runs /\ UNCHANGED world
  BY DEF Cancel
<1>2. r \in Run /\ r.pc = run[p].pc /\ r.cmd = run[p].cmd /\ r.id = run[p].id /\ r.kind = run[p].kind
  BY <1>t DEF Run
<1> HIDE DEF r
<1>3. TypeOK' /\ Clean'
  BY <1>t, <1>1, <1>2 DEF TypeOK, Clean, world
<1>4. run'[p] = r /\ out'[p] = out[p]
  BY <1>t, <1>1
<1>5. Local(run[p], out[p])'
  BY <1>t, <1>1, <1>2, <1>4 DEF world
<1> QED BY <1>3, <1>5, Assemble

LEMMA LGetForUp ==
    ASSUME LInv, SingleProcess, NEW p \in Clis, GetForUp(p)
    PROVE  LInv'
<1> USE DEF Local, Course, Building, Machine, Reported, Upped, AfterCreate, WithCopy, KindDone
<1>t. /\ TypeOK /\ Clean /\ Local(run[p], out[p])
      /\ run \in [Clis -> Run] /\ out \in [Clis -> Outcomes] /\ run[p] \in Run
  BY DEF LInv, TypeOK
<1> DEFINE r == [run[p] EXCEPT !.pc = "create", !.kind = "check"]
<1>1. run' = [run EXCEPT ![p] = r] /\ out' = out /\ runs' = runs /\ UNCHANGED world
      /\ At(p, "get") /\ run[p].cmd # "down"
  BY <1>t DEF GetForUp
<1>2. r \in Run /\ r.pc = "create" /\ r.cmd = run[p].cmd /\ r.id = run[p].id /\ r.kind = "check"
  BY <1>t DEF Run, Steps, KindState
<1> HIDE DEF r
<1>3. TypeOK' /\ Clean'
  BY <1>t, <1>1, <1>2 DEF TypeOK, Clean, world
<1>4. run'[p] = r /\ out'[p] = out[p]
  BY <1>t, <1>1
<1>5. Local(run[p], out[p])'
  BY <1>t, <1>1, <1>2, <1>4 DEF world, At
<1> QED BY <1>3, <1>5, Assemble

LEMMA LKindCheck ==
    ASSUME LInv, SingleProcess, NEW p \in Clis, KindCheck(p)
    PROVE  LInv'
<1> USE DEF Local, Course, Building, Machine, Reported, Upped, AfterCreate, WithCopy, KindDone
<1>t. /\ TypeOK /\ Clean /\ Local(run[p], out[p])
      /\ run \in [Clis -> Run] /\ out \in [Clis -> Outcomes] /\ run[p] \in Run
  BY DEF LInv, TypeOK
<1> DEFINE r(k) == [run[p] EXCEPT !.kind = k]
<1>r. ASSUME NEW k \in KindState
      PROVE  r(k) \in Run /\ r(k).pc = run[p].pc /\ r(k).cmd = run[p].cmd
             /\ r(k).id = run[p].id /\ r(k).kind = k
  BY <1>t DEF Run
<1>1. /\ run[p].kind = "check" /\ UNCHANGED <<kubeconfig, cpc, gateways, out, runs>>
      /\ \/ node.st # "absent" /\ node' = node /\ run' = [run EXCEPT ![p] = r("exists")]
         \/ /\ node.st = "absent" /\ node' = [st |-> "building", by |-> run[p].id]
            /\ run' = [run EXCEPT ![p] = r("build")]
  BY DEF KindCheck
<1>2. "exists" \in KindState /\ "build" \in KindState
  BY DEF KindState
<1> HIDE DEF r
<1>3. CASE node.st # "absent" /\ node' = node /\ run' = [run EXCEPT ![p] = r("exists")]
  <2>1. run'[p] = r("exists") /\ out'[p] = out[p] /\ run' \in [Clis -> Run]
    BY <1>t, <1>1, <1>3, <1>r, <1>2
  <2>2. TypeOK' /\ Clean'
    BY <1>t, <1>1, <1>3, <2>1 DEF TypeOK, Clean
  <2>3. node.st \in {"ready", "partial"}
    BY <1>t, <1>1, <1>3 DEF TypeOK, Node
  <2>4. Local(run[p], out[p])'
    BY <1>t, <1>1, <1>r, <1>2, <1>3, <2>1, <2>3
  <2> QED BY <2>2, <2>4, Assemble
<1>4. CASE /\ node.st = "absent" /\ node' = [st |-> "building", by |-> run[p].id]
           /\ run' = [run EXCEPT ![p] = r("build")]
  <2>1. run'[p] = r("build") /\ out'[p] = out[p] /\ run' \in [Clis -> Run]
    BY <1>t, <1>1, <1>4, <1>r, <1>2
  <2>2. run[p].id \in Ids
    BY <1>t DEF Run
  <2>3. TypeOK' /\ Clean'
    BY <1>t, <1>1, <1>4, <2>1, <2>2 DEF TypeOK, Clean, Node
  <2>4. Local(run[p], out[p])'
    BY <1>t, <1>1, <1>r, <1>2, <1>4, <2>1
  <2> QED BY <2>3, <2>4, Assemble
<1> QED BY <1>1, <1>3, <1>4

LEMMA LKindEnds ==
    ASSUME LInv, SingleProcess, NEW p \in Clis, KindReady(p) \/ KindFails(p)
    PROVE  LInv'
<1> USE DEF Local, Course, Building, Machine, Reported, Upped, AfterCreate, WithCopy, KindDone
<1>t. /\ TypeOK /\ Clean /\ Local(run[p], out[p])
      /\ run \in [Clis -> Run] /\ out \in [Clis -> Outcomes] /\ run[p] \in Run
  BY DEF LInv, TypeOK
<1> DEFINE r(k) == [run[p] EXCEPT !.kind = k]
<1>r. ASSUME NEW k \in KindState
      PROVE  r(k) \in Run /\ r(k).pc = run[p].pc /\ r(k).cmd = run[p].cmd
             /\ r(k).id = run[p].id /\ r(k).kind = k
  BY <1>t DEF Run
<1>1. /\ run[p].kind = "build" /\ UNCHANGED <<cpc, gateways, out, runs>>
      /\ \/ node' = [st |-> "ready", by |-> run[p].id] /\ kubeconfig' = TRUE /\ run' = [run EXCEPT ![p] = r("ok")]
         \/ node' = NoNode /\ kubeconfig' = kubeconfig /\ run' = [run EXCEPT ![p] = r("err")]
  BY DEF KindReady, KindFails
<1>2. "ok" \in KindState /\ "err" \in KindState
  BY DEF KindState
<1>i. run[p].id \in Ids /\ NoNode \in Node
  BY <1>t, MaxRunsAssumption DEF Run, NoNode, Node, Ids
<1> HIDE DEF r
<1>3. CASE node' = [st |-> "ready", by |-> run[p].id] /\ kubeconfig' = TRUE /\ run' = [run EXCEPT ![p] = r("ok")]
  <2>1. run'[p] = r("ok") /\ out'[p] = out[p] /\ run' \in [Clis -> Run]
    BY <1>t, <1>1, <1>3, <1>r, <1>2
  <2>2. TypeOK' /\ Clean'
    BY <1>t, <1>1, <1>3, <1>i, <2>1 DEF TypeOK, Clean, Node
  <2>4. Local(run[p], out[p])'
    BY <1>t, <1>1, <1>r, <1>2, <1>3, <2>1
  <2> QED BY <2>2, <2>4, Assemble
<1>4. CASE node' = NoNode /\ kubeconfig' = kubeconfig /\ run' = [run EXCEPT ![p] = r("err")]
  <2>1. run'[p] = r("err") /\ out'[p] = out[p] /\ run' \in [Clis -> Run]
    BY <1>t, <1>1, <1>4, <1>r, <1>2
  <2>2. TypeOK' /\ Clean'
    BY <1>t, <1>1, <1>4, <1>i, <2>1 DEF TypeOK, Clean
  <2>4. Local(run[p], out[p])'
    BY <1>t, <1>1, <1>r, <1>2, <1>4, <2>1 DEF NoNode
  <2> QED BY <2>2, <2>4, Assemble
<1> QED BY <1>1, <1>3, <1>4
-----------------------------------------------------------------------------
(* The steps of the command itself: it goes on, or it ends.                *)

\* Like run[p], but at s.
Alike(r, p, s) == r.pc = s /\ r.cmd = run[p].cmd /\ r.id = run[p].id /\ r.kind = run[p].kind

WorldOK == node \in Node /\ kubeconfig \in BOOLEAN /\ cpc \in Container /\ gateways \in BOOLEAN

LEMMA MovesOn ==
    ASSUME LInv, SingleProcess, NEW p \in Clis, ~ At(p, "idle"), NEW s \in Steps,
           run' \in [Clis -> Run], out' = out, runs' = runs, Alike(run'[p], p, s),
           WorldOK', Clean',
           \A r \in Run : Alike(r, p, s) =>
              Course(r) /\ Building(r, node') /\ Machine(r, node', kubeconfig', cpc', gateways')
    PROVE  LInv'
<1>1. TypeOK /\ Local(run[p], out[p])
  BY DEF LInv
<1>3. out'[p] = "none"
  BY <1>1 DEF Local, Reported, At
<1>4. TypeOK'
  BY <1>1 DEF TypeOK, WorldOK
<1>5. Course(run'[p]) /\ Building(run'[p], node') /\ Machine(run'[p], node', kubeconfig', cpc', gateways')
  OBVIOUS
<1>6. Reported(run'[p], out'[p], node', kubeconfig', cpc', gateways')
  BY <1>3 DEF Reported
<1>7. Local(run[p], out[p])'
  BY <1>5, <1>6 DEF Local
<1> QED BY <1>4, <1>7, Assemble

LEMMA GoesOn ==
    ASSUME LInv, SingleProcess, NEW p \in Clis, ~ At(p, "idle"),
           NEW s \in Steps, Goto(p, s), WorldOK', Clean',
           \A r \in Run : Alike(r, p, s) =>
              Course(r) /\ Building(r, node') /\ Machine(r, node', kubeconfig', cpc', gateways')
    PROVE  LInv'
<1>1. run \in [Clis -> Run]
  BY DEF LInv, TypeOK
<1>2. run' \in [Clis -> Run] /\ out' = out /\ runs' = runs /\ Alike(run'[p], p, s)
  BY <1>1, GotoFacts DEF Alike
<1> QED BY <1>2, MovesOn

\* The same when the container that was found is noted.
LEMMA GoesOnNoting ==
    ASSUME LInv, SingleProcess, NEW p \in Clis, ~ At(p, "idle"), NEW s \in Steps,
           run' = [run EXCEPT ![p].pc = s, ![p].cid = cpc.by], UNCHANGED <<out, runs>>,
           WorldOK', Clean',
           \A r \in Run : Alike(r, p, s) =>
              Course(r) /\ Building(r, node') /\ Machine(r, node', kubeconfig', cpc', gateways')
    PROVE  LInv'
<1>1. run \in [Clis -> Run] /\ run[p] \in Run /\ cpc.by \in Ids
  BY DEF LInv, TypeOK, Container
<1> DEFINE r == [run[p] EXCEPT !.pc = s, !.cid = cpc.by]
<1>2. r \in Run /\ Alike(r, p, s)
  BY <1>1 DEF Run, Alike
<1>3. run' = [run EXCEPT ![p] = r]
  OBVIOUS
<1> HIDE DEF r
<1>4. run' \in [Clis -> Run] /\ run'[p] = r
  BY <1>1, <1>2, <1>3
<1> QED BY <1>2, <1>4, MovesOn

LEMMA Ends ==
    ASSUME LInv, SingleProcess, NEW p \in Clis,
           NEW o \in Outcomes, End(p, o), WorldOK', Clean', node'.st # "building",
           Reported(NoRun, o, node', kubeconfig', cpc', gateways')
    PROVE  LInv'
<1>1. TypeOK /\ run \in [Clis -> Run] /\ out \in [Clis -> Outcomes]
  BY DEF LInv, TypeOK
<1>2. /\ run' \in [Clis -> Run] /\ out' \in [Clis -> Outcomes] /\ runs' = runs
      /\ run'[p] = NoRun /\ out'[p] = o
  BY <1>1, EndFacts
<1>3. TypeOK'
  BY <1>1, <1>2 DEF TypeOK, WorldOK
<1>4. Local(run[p], out[p])'
  BY <1>2, IdleLocal
<1> QED BY <1>3, <1>4, Assemble

\* An end that says nothing of the machine.
LEMMA EndsWithError ==
    ASSUME LInv, SingleProcess, NEW p \in Clis,
           NEW o \in {"error", "noop", "aborted", "killed", "cleanupFailed"}, End(p, o),
           WorldOK', Clean', node'.st # "building"
    PROVE  LInv'
<1>1. o \in Outcomes
  BY DEF Outcomes
<1>2. Reported(NoRun, o, node', kubeconfig', cpc', gateways')
  BY NoRunFacts DEF Reported
<1> QED BY <1>1, <1>2, Ends

\* What is known of a process that is past Create, or has not got there.
LEMMA NotBuilding ==
    ASSUME LInv, NEW p \in Clis, run[p].pc \notin {"create", "drain"}
    PROVE  node.st # "building"
BY DEF LInv, Local, Building

LEMMA WorldStays ==
    ASSUME LInv
    PROVE  /\ WorldOK /\ Clean
           /\ UNCHANGED world => WorldOK' /\ Clean'
BY DEF LInv, TypeOK, WorldOK, Clean, world

LEMMA Nothing == NoNode \in Node /\ NoContainer \in Container
BY MaxRunsAssumption DEF NoNode, Node, NoContainer, Container, Ids

LEMMA LGetForDown ==
    ASSUME LInv, SingleProcess, NEW p \in Clis, GetForDown(p)
    PROVE  LInv'
<1> USE DEF Local, Course, Building, Machine, Reported, Upped, AfterCreate, WithCopy, KindDone
<1>t. /\ TypeOK /\ Clean /\ Local(run[p], out[p])
      /\ run \in [Clis -> Run] /\ out \in [Clis -> Outcomes] /\ run[p] \in Run
  BY DEF LInv, TypeOK
<1>1. At(p, "get") /\ run[p].cmd = "down" /\ UNCHANGED world
      /\ (End(p, "noop") \/ Goto(p, "confirm"))
  BY DEF GetForDown
<1>2. WorldOK' /\ Clean' /\ node.st # "building" /\ node' = node /\ cpc' = cpc
  BY <1>1, WorldStays, NotBuilding DEF At, world
<1>3. CASE End(p, "noop")
  BY <1>2, <1>3, EndsWithError
<1>4. CASE Goto(p, "confirm")
  <2>1. \A r \in Run : Alike(r, p, "confirm") =>
           Course(r) /\ Building(r, node') /\ Machine(r, node', kubeconfig', cpc', gateways')
    BY <1>t, <1>1, <1>2 DEF Alike, At
  <2> QED BY <1>1, <1>2, <1>4, <2>1, GoesOn DEF At, Steps
<1> QED BY <1>1, <1>3, <1>4

LEMMA LCreateReturns ==
    ASSUME LInv, SingleProcess, NEW p \in Clis, CreateReturns(p)
    PROVE  LInv'
<1> USE DEF Local, Course, Building, Machine, Reported, Upped, AfterCreate, WithCopy, KindDone
<1>t. /\ TypeOK /\ Clean /\ Local(run[p], out[p])
      /\ run \in [Clis -> Run] /\ out \in [Clis -> Outcomes] /\ run[p] \in Run
  BY DEF LInv, TypeOK
<1>1. /\ At(p, "create") /\ run[p].kind \in KindDone /\ UNCHANGED world
      /\ \/ run[p].kind # "err" /\ Goto(p, "kubeconfig")
         \/ Goto(p, "drain") \/ End(p, "error")
  BY DEF CreateReturns
<1>2. WorldOK' /\ Clean' /\ node.st # "building" /\ node' = node
  BY <1>t, <1>1, WorldStays DEF world
<1>3. CASE run[p].kind # "err" /\ Goto(p, "kubeconfig")
  <2>1. \A r \in Run : Alike(r, p, "kubeconfig") =>
           Course(r) /\ Building(r, node') /\ Machine(r, node', kubeconfig', cpc', gateways')
    BY <1>t, <1>1, <1>2, <1>3 DEF Alike, At
  <2> QED BY <1>1, <1>2, <1>3, <2>1, GoesOn DEF At, Steps
<1>4. CASE Goto(p, "drain")
  <2>1. \A r \in Run : Alike(r, p, "drain") =>
           Course(r) /\ Building(r, node') /\ Machine(r, node', kubeconfig', cpc', gateways')
    BY <1>t, <1>1, <1>2 DEF Alike, At
  <2> QED BY <1>1, <1>2, <1>4, <2>1, GoesOn DEF At, Steps
<1>5. CASE End(p, "error")
  BY <1>2, <1>5, EndsWithError
<1> QED BY <1>1, <1>3, <1>4, <1>5

LEMMA LDrain ==
    ASSUME LInv, SingleProcess, NEW p \in Clis, CreateCanceled(p) \/ Drain(p)
    PROVE  LInv'
<1> USE DEF Local, Course, Building, Machine, Reported, Upped, AfterCreate, WithCopy, KindDone
<1>t. /\ TypeOK /\ Clean /\ Local(run[p], out[p])
      /\ run \in [Clis -> Run] /\ out \in [Clis -> Outcomes] /\ run[p] \in Run
  BY DEF LInv, TypeOK
<1>1. /\ UNCHANGED world
      /\ \/ At(p, "create") /\ Goto(p, "drain")
         \/ At(p, "drain") /\ run[p].kind \in KindDone /\ Goto(p, "cleanup")
  BY DEF CreateCanceled, Drain
<1>2. WorldOK' /\ Clean' /\ node' = node
  BY <1>1, WorldStays DEF world
<1>3. CASE At(p, "create") /\ Goto(p, "drain")
  <2>1. \A r \in Run : Alike(r, p, "drain") =>
           Course(r) /\ Building(r, node') /\ Machine(r, node', kubeconfig', cpc', gateways')
    BY <1>t, <1>2, <1>3 DEF Alike, At
  <2> QED BY <1>2, <1>3, <2>1, GoesOn DEF At, Steps
<1>4. CASE At(p, "drain") /\ run[p].kind \in KindDone /\ Goto(p, "cleanup")
  <2>1. \A r \in Run : Alike(r, p, "cleanup") =>
           Course(r) /\ Building(r, node') /\ Machine(r, node', kubeconfig', cpc', gateways')
    BY <1>t, <1>2, <1>4 DEF Alike, At
  <2> QED BY <1>2, <1>4, <2>1, GoesOn DEF At, Steps
<1> QED BY <1>1, <1>3, <1>4

LEMMA LCleanup ==
    ASSUME LInv, SingleProcess, NEW p \in Clis, Cleanup(p)
    PROVE  LInv'
<1> USE DEF Local, Course, Building, Machine, Reported, Upped, AfterCreate, WithCopy, KindDone
<1>t. /\ TypeOK /\ Clean /\ Local(run[p], out[p])
      /\ run \in [Clis -> Run] /\ out \in [Clis -> Outcomes] /\ run[p] \in Run
  BY DEF LInv, TypeOK
<1>1. /\ At(p, "cleanup") /\ UNCHANGED <<kubeconfig, cpc, gateways>>
      /\ \/ node' = NoNode /\ Goto(p, "close")
         \/ node' = Abandoned(p) /\ End(p, "cleanupFailed")
  BY DEF Cleanup
<1>2. WorldOK /\ Clean
  BY WorldStays
<1>3. CASE node' = NoNode /\ Goto(p, "close")
  <2>1. WorldOK' /\ Clean'
    BY <1>1, <1>2, <1>3, Nothing DEF WorldOK, Clean
  <2>2. \A r \in Run : Alike(r, p, "close") =>
           Course(r) /\ Building(r, node') /\ Machine(r, node', kubeconfig', cpc', gateways')
    BY <1>t, <1>1, <1>3 DEF Alike, At, NoNode
  <2> QED BY <1>1, <1>3, <2>1, <2>2, GoesOn DEF At, Steps
<1>4. CASE node' = Abandoned(p) /\ End(p, "cleanupFailed")
  <2>1. WorldOK' /\ Clean' /\ node'.st # "building"
    BY <1>1, <1>2, <1>4, AbandonedFacts DEF WorldOK, Clean
  <2> QED BY <1>4, <2>1, EndsWithError
<1> QED BY <1>1, <1>3, <1>4

LEMMA LExit ==
    ASSUME LInv, SingleProcess, NEW p \in Clis, Close(p) \/ Kill(p)
    PROVE  LInv'
<1> USE DEF Local, Course, Building, Machine, Reported, Upped, AfterCreate, WithCopy, KindDone
<1>t. /\ TypeOK /\ Clean /\ Local(run[p], out[p])
      /\ run \in [Clis -> Run] /\ out \in [Clis -> Outcomes] /\ run[p] \in Run
  BY DEF LInv, TypeOK
<1>1. /\ node' = Abandoned(p) /\ UNCHANGED <<kubeconfig, cpc, gateways>>
      /\ \/ At(p, "close") /\ End(p, "canceled")
         \/ End(p, "killed")
  BY DEF Close, Kill
<1>2. WorldOK' /\ Clean' /\ node'.st # "building"
  BY <1>1, WorldStays, AbandonedFacts DEF WorldOK, Clean
<1>3. CASE At(p, "close") /\ End(p, "canceled")
  <2>1. node' = NoNode
    BY <1>t, <1>1, <1>3, AbandonedFacts DEF At
  <2>2. Reported(NoRun, "canceled", node', kubeconfig', cpc', gateways')
    BY <2>1, NoRunFacts
  <2>3. "canceled" \in Outcomes
    BY DEF Outcomes
  <2> QED BY <1>2, <1>3, <2>2, <2>3, Ends
<1>4. CASE End(p, "killed")
  BY <1>2, <1>4, EndsWithError
<1> QED BY <1>1, <1>3, <1>4

LEMMA LReadKubeConfig ==
    ASSUME LInv, SingleProcess, NEW p \in Clis, ReadKubeConfig(p)
    PROVE  LInv'
<1> USE DEF Local, Course, Building, Machine, Reported, Upped, AfterCreate, WithCopy, KindDone
<1>t. /\ TypeOK /\ Clean /\ Local(run[p], out[p])
      /\ run \in [Clis -> Run] /\ out \in [Clis -> Outcomes] /\ run[p] \in Run
  BY DEF LInv, TypeOK
<1>1. At(p, "kubeconfig") /\ UNCHANGED world /\ (Goto(p, "writeKubeconfig") \/ End(p, "error"))
  BY DEF ReadKubeConfig
<1>2. WorldOK' /\ Clean' /\ node' = node /\ node.st # "building"
  BY <1>1, WorldStays, NotBuilding DEF world, At
<1>3. CASE Goto(p, "writeKubeconfig")
  <2>g. \A r \in Run : Alike(r, p, "writeKubeconfig") =>
           Course(r) /\ Building(r, node') /\ Machine(r, node', kubeconfig', cpc', gateways')
    BY <1>t, <1>1, <1>2, <1>3 DEF Alike, At
  <2> QED BY <1>1, <1>2, <1>3, <2>g, GoesOn DEF At, Steps
<1>4. CASE End(p, "error")
  BY <1>2, <1>4, EndsWithError
<1> QED BY <1>1, <1>3, <1>4

\* A run that is past Create may report success at any point.
LEMMA EndsWell ==
    ASSUME LInv, SingleProcess, NEW p \in Clis, Upped(run[p]), End(p, "ok"),
           UNCHANGED node, kubeconfig' = TRUE, WorldOK', Clean'
    PROVE  LInv'
<1>1. node.st \in {"ready", "partial"}
  BY DEF LInv, Local, Machine
<1>2. Reported(NoRun, "ok", node', kubeconfig', cpc', gateways') /\ "ok" \in Outcomes
  BY <1>1, NoRunFacts DEF Reported, Outcomes
<1> QED BY <1>1, <1>2, Ends

LEMMA LWriteKubeconfig ==
    ASSUME LInv, SingleProcess, NEW p \in Clis, WriteKubeconfig(p)
    PROVE  LInv'
<1> USE DEF Local, Course, Building, Machine, Reported, Upped, AfterCreate, WithCopy, KindDone
<1>t. /\ TypeOK /\ Clean /\ Local(run[p], out[p])
      /\ run \in [Clis -> Run] /\ out \in [Clis -> Outcomes] /\ run[p] \in Run
  BY DEF LInv, TypeOK
<1>1. /\ At(p, "writeKubeconfig") /\ kubeconfig' = TRUE /\ UNCHANGED <<node, cpc, gateways>>
      /\ (End(p, "ok") \/ (run[p].cmd # "noCloud" /\ Goto(p, "find")))
  BY DEF WriteKubeconfig
<1>2. WorldOK' /\ Clean'
  BY <1>1, WorldStays DEF WorldOK, Clean
<1>3. CASE End(p, "ok")
  BY <1>1, <1>2, <1>3, EndsWell DEF At
<1>4. CASE run[p].cmd # "noCloud" /\ Goto(p, "find")
  <2>g. \A r \in Run : Alike(r, p, "find") =>
           Course(r) /\ Building(r, node') /\ Machine(r, node', kubeconfig', cpc', gateways')
    BY <1>t, <1>1, <1>2, <1>4 DEF Alike, At
  <2> QED BY <1>1, <1>2, <1>4, <2>g, GoesOn DEF At, Steps
<1> QED BY <1>1, <1>3, <1>4

\* The provider runs, or ran: what Started and Stopped make of it.
LEMMA LStarted ==
    ASSUME LInv, SingleProcess, NEW p \in Clis, run[p].pc \in {"find", "startCP"}, Started(p),
           UNCHANGED <<node, kubeconfig>>, WorldOK', Clean'
    PROVE  LInv'
<1> USE DEF Local, Course, Building, Machine, Reported, Upped, AfterCreate, WithCopy, KindDone
<1>t. /\ TypeOK /\ Clean /\ Local(run[p], out[p])
      /\ run \in [Clis -> Run] /\ out \in [Clis -> Outcomes] /\ run[p] \in Run
  BY DEF LInv, TypeOK
<1>1. (run[p].cmd = "attach" /\ Goto(p, "attach")) \/ End(p, "ok")
  BY DEF Started
<1>2. kubeconfig' = TRUE
  BY <1>t DEF WorldOK
<1>3. CASE End(p, "ok")
  BY <1>2, <1>3, EndsWell
<1>4. CASE run[p].cmd = "attach" /\ Goto(p, "attach")
  <2>g. \A r \in Run : Alike(r, p, "attach") =>
           Course(r) /\ Building(r, node') /\ Machine(r, node', kubeconfig', cpc', gateways')
    BY <1>t, <1>2, <1>4 DEF Alike, At
  <2> QED BY <1>2, <1>4, <2>g, GoesOn DEF At, Steps
<1> QED BY <1>1, <1>3, <1>4

LEMMA LFindContainer ==
    ASSUME LInv, SingleProcess, NEW p \in Clis, FindContainer(p)
    PROVE  LInv'
<1> USE DEF Local, Course, Building, Machine, Reported, Upped, AfterCreate, WithCopy, KindDone
<1>t. /\ TypeOK /\ Clean /\ Local(run[p], out[p])
      /\ run \in [Clis -> Run] /\ out \in [Clis -> Outcomes] /\ run[p] \in Run
  BY DEF LInv, TypeOK
<1>1. /\ At(p, "find") /\ UNCHANGED world
      /\ \/ Started(p)
         \/ Goto(p, "createCP")
         \/ /\ run' = [run EXCEPT ![p].pc = "removeStale", ![p].cid = cpc.by]
            /\ UNCHANGED <<out, runs>>
  BY DEF FindContainer
<1>2. WorldOK' /\ Clean' /\ UNCHANGED <<node, kubeconfig>>
  BY <1>1, WorldStays DEF world
<1>3. CASE Started(p)
  BY <1>1, <1>2, <1>3, LStarted DEF At
<1>4. CASE Goto(p, "createCP")
  <2>g. \A r \in Run : Alike(r, p, "createCP") =>
           Course(r) /\ Building(r, node') /\ Machine(r, node', kubeconfig', cpc', gateways')
    BY <1>t, <1>1, <1>2, <1>4 DEF Alike, At
  <2> QED BY <1>1, <1>2, <1>4, <2>g, GoesOn DEF At, Steps
<1>5. CASE /\ run' = [run EXCEPT ![p].pc = "removeStale", ![p].cid = cpc.by]
           /\ UNCHANGED <<out, runs>>
  <2>g. \A r \in Run : Alike(r, p, "removeStale") =>
           Course(r) /\ Building(r, node') /\ Machine(r, node', kubeconfig', cpc', gateways')
    BY <1>t, <1>1, <1>2, <1>5 DEF Alike, At
  <2> QED BY <1>1, <1>2, <1>5, <2>g, GoesOnNoting DEF At, Steps
<1> QED BY <1>1, <1>3, <1>4, <1>5

LEMMA LContainer ==
    ASSUME LInv, SingleProcess, NEW p \in Clis, RemoveStale(p) \/ CreateContainer(p) \/ StartContainer(p)
    PROVE  LInv'
<1> USE DEF Local, Course, Building, Machine, Reported, Upped, AfterCreate, WithCopy, KindDone
<1>t. /\ TypeOK /\ Clean /\ Local(run[p], out[p])
      /\ run \in [Clis -> Run] /\ out \in [Clis -> Outcomes] /\ run[p] \in Run
  BY DEF LInv, TypeOK
<1>1. /\ run[p].pc \in {"removeStale", "createCP", "startCP"} /\ UNCHANGED <<node, kubeconfig, gateways>>
      /\ cpc' \in {cpc, NoContainer, [st |-> "created", by |-> run[p].id], [cpc EXCEPT !.st = "running"]}
      /\ \/ End(p, "error")
         \/ Goto(p, "createCP")
         \/ Goto(p, "startCP")
         \/ run[p].pc = "startCP" /\ Started(p)
         \/ run[p].pc = "startCP" /\ End(p, "ok")
  BY DEF RemoveStale, CreateContainer, StartContainer, StartFails, At
<1>2. run[p].id \in Ids
  BY <1>t DEF Run
<1>3. cpc' \in Container /\ (cpc'.st = "none" => cpc' = NoContainer)
  BY <1>t, <1>1, <1>2, Nothing DEF TypeOK, Clean, Container
<1>4. WorldOK' /\ Clean' /\ node.st # "building" /\ node' = node
  BY <1>t, <1>1, <1>3, NotBuilding DEF TypeOK, WorldOK, Clean
<1>5. CASE End(p, "error")
  BY <1>4, <1>5, EndsWithError
<1>6. CASE Goto(p, "createCP")
  <2>g. \A r \in Run : Alike(r, p, "createCP") =>
           Course(r) /\ Building(r, node') /\ Machine(r, node', kubeconfig', cpc', gateways')
    BY <1>t, <1>1, <1>4, <1>6 DEF Alike, At
  <2> QED BY <1>1, <1>4, <1>6, <2>g, GoesOn DEF At, Steps
<1>7. CASE Goto(p, "startCP")
  <2>g. \A r \in Run : Alike(r, p, "startCP") =>
           Course(r) /\ Building(r, node') /\ Machine(r, node', kubeconfig', cpc', gateways')
    BY <1>t, <1>1, <1>4, <1>7 DEF Alike, At
  <2> QED BY <1>1, <1>4, <1>7, <2>g, GoesOn DEF At, Steps
<1>8. CASE run[p].pc = "startCP" /\ Started(p)
  BY <1>1, <1>4, <1>8, LStarted
<1>9. CASE run[p].pc = "startCP" /\ End(p, "ok")
  <2>1. kubeconfig' = TRUE /\ Upped(run[p])
    BY <1>t, <1>1, <1>4, <1>9 DEF WorldOK
  <2> QED BY <1>1, <1>4, <1>9, <2>1, EndsWell
<1> QED BY <1>1, <1>5, <1>6, <1>7, <1>8, <1>9

LEMMA LStartCanceled ==
    ASSUME LInv, SingleProcess, NEW p \in Clis, StartCanceled(p)
    PROVE  LInv'
<1> USE DEF Local, Machine, Upped, AfterCreate, WithCopy
<1>t. TypeOK /\ Local(run[p], out[p])
  BY DEF LInv
<1>1. /\ run[p].pc \in {"find", "removeStale", "createCP"} /\ UNCHANGED world
      /\ (End(p, "error") \/ End(p, "ok"))
  BY DEF StartCanceled, StartFails
<1>2. WorldOK' /\ Clean' /\ UNCHANGED <<node, kubeconfig>> /\ node.st # "building"
  BY <1>1, WorldStays, NotBuilding DEF world
<1>3. CASE End(p, "error")
  BY <1>2, <1>3, EndsWithError
<1>4. CASE End(p, "ok")
  <2>1. kubeconfig' = TRUE /\ Upped(run[p])
    BY <1>t, <1>1, <1>2 DEF WorldOK
  <2> QED BY <1>2, <1>4, <2>1, EndsWell
<1> QED BY <1>1, <1>3, <1>4

LEMMA LToStop ==
    ASSUME LInv, SingleProcess, NEW p \in Clis, Attach(p) \/ Confirm(p)
    PROVE  LInv'
<1> USE DEF Local, Course, Building, Machine, Reported, Upped, AfterCreate, WithCopy, KindDone
<1>t. /\ TypeOK /\ Clean /\ Local(run[p], out[p])
      /\ run \in [Clis -> Run] /\ out \in [Clis -> Outcomes] /\ run[p] \in Run
  BY DEF LInv, TypeOK
<1>1. /\ run[p].pc \in {"attach", "confirm"} /\ UNCHANGED world
      /\ (Goto(p, "stopFind") \/ End(p, "aborted"))
  BY DEF Attach, Confirm, At
<1>2. WorldOK' /\ Clean' /\ UNCHANGED <<node, kubeconfig>> /\ node.st # "building"
  BY <1>1, WorldStays, NotBuilding DEF world
<1>3. CASE Goto(p, "stopFind")
  <2>g. \A r \in Run : Alike(r, p, "stopFind") =>
           Course(r) /\ Building(r, node') /\ Machine(r, node', kubeconfig', cpc', gateways')
    BY <1>t, <1>1, <1>2, <1>3 DEF Alike, At
  <2> QED BY <1>1, <1>2, <1>3, <2>g, GoesOn DEF At, Steps
<1>4. CASE End(p, "aborted")
  BY <1>2, <1>4, EndsWithError
<1> QED BY <1>1, <1>3, <1>4

LEMMA LStopped ==
    ASSUME LInv, SingleProcess, NEW p \in Clis, run[p].pc \in {"stopFind", "stopRemove"}, Stopped(p),
           cpc' = NoContainer, UNCHANGED <<node, kubeconfig>>, WorldOK', Clean'
    PROVE  LInv'
<1> USE DEF Local, Course, Building, Machine, Reported, Upped, AfterCreate, WithCopy, KindDone
<1>t. /\ TypeOK /\ Clean /\ Local(run[p], out[p])
      /\ run \in [Clis -> Run] /\ out \in [Clis -> Outcomes] /\ run[p] \in Run
  BY DEF LInv, TypeOK
<1>1. \/ run[p].cmd = "attach" /\ End(p, "ok")
      \/ run[p].cmd # "attach" /\ Goto(p, "gateways")
  BY DEF Stopped
<1>2. CASE run[p].cmd = "attach" /\ End(p, "ok")
  <2>1. kubeconfig' = TRUE /\ Upped(run[p])
    BY <1>t, <1>2 DEF WorldOK
  <2> QED BY <1>2, <2>1, EndsWell
<1>3. CASE run[p].cmd # "attach" /\ Goto(p, "gateways")
  <2>g. \A r \in Run : Alike(r, p, "gateways") =>
           Course(r) /\ Building(r, node') /\ Machine(r, node', kubeconfig', cpc', gateways')
    BY <1>t, <1>3 DEF Alike, At
  <2> QED BY <1>3, <2>g, GoesOn DEF At, Steps
<1> QED BY <1>1, <1>2, <1>3

LEMMA LStopFind ==
    ASSUME LInv, SingleProcess, NEW p \in Clis, StopFind(p)
    PROVE  LInv'
<1> USE DEF Local, Course, Building, Machine, Reported, Upped, AfterCreate, WithCopy, KindDone
<1>t. /\ TypeOK /\ Clean /\ Local(run[p], out[p])
      /\ run \in [Clis -> Run] /\ out \in [Clis -> Outcomes] /\ run[p] \in Run
  BY DEF LInv, TypeOK
<1>1. /\ At(p, "stopFind") /\ UNCHANGED world
      /\ \/ cpc.st = "none" /\ Stopped(p)
         \/ /\ run' = [run EXCEPT ![p].pc = "stopRemove", ![p].cid = cpc.by]
            /\ UNCHANGED <<out, runs>>
  BY DEF StopFind
<1>2. WorldOK' /\ Clean' /\ UNCHANGED <<node, kubeconfig, cpc>>
  BY <1>1, WorldStays DEF world
<1>3. CASE cpc.st = "none" /\ Stopped(p)
  <2>1. cpc' = NoContainer
    BY <1>t, <1>2, <1>3 DEF Clean
  <2> QED BY <1>1, <1>2, <1>3, <2>1, LStopped DEF At
<1>4. CASE /\ run' = [run EXCEPT ![p].pc = "stopRemove", ![p].cid = cpc.by]
           /\ UNCHANGED <<out, runs>>
  <2>g. \A r \in Run : Alike(r, p, "stopRemove") =>
           Course(r) /\ Building(r, node') /\ Machine(r, node', kubeconfig', cpc', gateways')
    BY <1>t, <1>1, <1>2, <1>4 DEF Alike, At
  <2> QED BY <1>1, <1>2, <1>4, <2>g, GoesOnNoting DEF At, Steps
<1> QED BY <1>1, <1>3, <1>4

LEMMA LStopRemove ==
    ASSUME LInv, SingleProcess, NEW p \in Clis, StopRemove(p)
    PROVE  LInv'
<1> USE DEF Local, Course, Building, Machine, Reported, Upped, AfterCreate, WithCopy, KindDone
<1>t. /\ TypeOK /\ Clean /\ Local(run[p], out[p])
      /\ run \in [Clis -> Run] /\ out \in [Clis -> Outcomes] /\ run[p] \in Run
  BY DEF LInv, TypeOK
<1>1. /\ At(p, "stopRemove") /\ UNCHANGED <<node, kubeconfig, gateways>>
      /\ \/ cpc' = NoContainer /\ Stopped(p)
         \/ cpc' = cpc /\ run[p].cmd = "attach" /\ End(p, "ok")
         \/ cpc' = cpc /\ End(p, "error")
  BY DEF StopRemove
<1>2. WorldOK' /\ Clean' /\ node.st # "building"
  BY <1>1, WorldStays, NotBuilding, Nothing DEF WorldOK, Clean, At
<1>3. CASE cpc' = NoContainer /\ Stopped(p)
  BY <1>1, <1>2, <1>3, LStopped DEF At
<1>4. CASE cpc' = cpc /\ run[p].cmd = "attach" /\ End(p, "ok")
  <2>1. kubeconfig' = TRUE /\ Upped(run[p])
    BY <1>t, <1>1, <1>2, <1>4 DEF WorldOK, At
  <2> QED BY <1>1, <1>2, <1>4, <2>1, EndsWell
<1>5. CASE cpc' = cpc /\ End(p, "error")
  BY <1>1, <1>2, <1>5, EndsWithError
<1> QED BY <1>1, <1>3, <1>4, <1>5

LEMMA LRemoveGateways ==
    ASSUME LInv, SingleProcess, NEW p \in Clis, removeGatewayContainers(p)
    PROVE  LInv'
<1> USE DEF Local, Course, Building, Machine, Reported, Upped, AfterCreate, WithCopy, KindDone
<1>t. /\ TypeOK /\ Clean /\ Local(run[p], out[p])
      /\ run \in [Clis -> Run] /\ out \in [Clis -> Outcomes] /\ run[p] \in Run
  BY DEF LInv, TypeOK
<1>1. At(p, "gateways") /\ gateways' = FALSE /\ Goto(p, "delete") /\ UNCHANGED <<node, kubeconfig, cpc>>
  BY DEF removeGatewayContainers
<1>2. WorldOK' /\ Clean'
  BY <1>1, WorldStays DEF WorldOK, Clean
<1> QED
  <2>g. \A r \in Run : Alike(r, p, "delete") =>
           Course(r) /\ Building(r, node') /\ Machine(r, node', kubeconfig', cpc', gateways')
    BY <1>t, <1>1, <1>2 DEF Alike, At
  <2> QED BY <1>1, <1>2, <2>g, GoesOn DEF At, Steps

LEMMA LDelete ==
    ASSUME LInv, SingleProcess, NEW p \in Clis, Delete(p)
    PROVE  LInv'
<1> USE DEF Local, Course, Building, Machine, Reported, Upped, AfterCreate, WithCopy, KindDone
<1>t. /\ TypeOK /\ Clean /\ Local(run[p], out[p])
      /\ run \in [Clis -> Run] /\ out \in [Clis -> Outcomes] /\ run[p] \in Run
  BY DEF LInv, TypeOK
<1>1. /\ At(p, "delete") /\ UNCHANGED <<cpc, gateways>>
      /\ \/ End(p, "error") /\ UNCHANGED <<node, kubeconfig>>
         \/ node' = NoNode /\ kubeconfig' = FALSE /\ End(p, "deleted")
         \/ node' = NoNode /\ kubeconfig' = kubeconfig /\ End(p, "deletedCopyLeft")
  BY DEF Delete
<1>2. CASE End(p, "error") /\ UNCHANGED <<node, kubeconfig>>
  <2>1. WorldOK' /\ Clean' /\ node'.st # "building"
    BY <1>1, <1>2, WorldStays, NotBuilding DEF WorldOK, Clean, At
  <2> QED BY <1>2, <2>1, EndsWithError
<1>3. CASE node' = NoNode /\ kubeconfig' = FALSE /\ End(p, "deleted")
  <2>1. WorldOK' /\ Clean' /\ node'.st # "building"
    BY <1>1, <1>3, WorldStays, Nothing DEF WorldOK, Clean, NoNode
  <2>2. cpc' = NoContainer /\ ~ gateways'
    BY <1>t, <1>1 DEF At
  <2>3. Reported(NoRun, "deleted", node', kubeconfig', cpc', gateways') /\ "deleted" \in Outcomes
    BY <1>3, <2>2, NoRunFacts DEF Outcomes
  <2> QED BY <1>3, <2>1, <2>3, Ends
<1>4. CASE node' = NoNode /\ kubeconfig' = kubeconfig /\ End(p, "deletedCopyLeft")
  <2>1. WorldOK' /\ Clean' /\ node'.st # "building"
    BY <1>1, <1>4, WorldStays, Nothing DEF WorldOK, Clean, NoNode
  <2>2. cpc' = NoContainer /\ ~ gateways'
    BY <1>t, <1>1 DEF At
  <2>3. Reported(NoRun, "deletedCopyLeft", node', kubeconfig', cpc', gateways')
        /\ "deletedCopyLeft" \in Outcomes
    BY <1>4, <2>2, NoRunFacts DEF Outcomes
  <2> QED BY <1>4, <2>1, <2>3, Ends
<1> QED BY <1>1, <1>2, <1>3, <1>4

\* The provider is gone before down removes its gateways, so no new one comes
\* behind its back.
LEMMA LSpawnGateway ==
    ASSUME LInv, SpawnGateway
    PROVE  LInv'
<1>1. /\ cpc.st = "running" /\ gateways' = TRUE
      /\ UNCHANGED <<node, kubeconfig, cpc, run, out, runs>>
  BY DEF SpawnGateway
<1>2. TypeOK' /\ Clean'
  BY <1>1 DEF LInv, TypeOK, Clean
<1>3. cpc # NoContainer
  BY <1>1 DEF NoContainer
<1>4. ASSUME NEW p \in Clis PROVE Local(run[p], out[p])'
  <2>1. Local(run[p], out[p])
    BY DEF LInv
  <2>2. run[p].pc \notin {"gateways", "delete"} /\ out[p] \notin {"deleted", "deletedCopyLeft"}
    BY <1>3, <2>1 DEF Local, Machine, Reported
  <2> QED BY <1>1, <2>1, <2>2 DEF Local, Course, Building, Machine, Reported
<1> QED BY <1>2, <1>4 DEF LInv

-----------------------------------------------------------------------------
LEMMA LInit == Init => LInv
<1> SUFFICES ASSUME Init PROVE LInv
  OBVIOUS
<1>1. TypeOK /\ Clean
  <2>1. run \in [Clis -> Run] /\ out \in [Clis -> Outcomes]
    BY NoRunFacts DEF Init, Outcomes
  <2>2. kubeconfig \in BOOLEAN /\ gateways \in BOOLEAN
    BY DEF Init
  <2>3. node \in Node /\ cpc \in Container /\ Clean
    BY Nothing DEF Init, Clean
  <2>4. runs \in Ids
    BY MaxRunsAssumption DEF Init, Ids
  <2> QED BY <2>1, <2>2, <2>3, <2>4 DEF TypeOK
<1>2. ASSUME NEW p \in Clis PROVE Local(run[p], out[p])
  <2>1. run[p] = NoRun /\ out[p] = "none" /\ node.st # "building"
    BY DEF Init, NoNode
  <2> QED BY <2>1, NoRunFacts DEF Local, Course, Building, Machine, Reported, Upped,
                                  AfterCreate, WithCopy, KindDone
<1> QED BY <1>1, <1>2 DEF LInv

LEMMA LNext ==
    ASSUME SingleProcess, LInv, [Next]_vars
    PROVE  LInv'
<1>1. CASE UNCHANGED vars
  BY <1>1 DEF vars, LInv, TypeOK, Clean, Local
<1>2. CASE SpawnGateway
  BY <1>2, LSpawnGateway
<1>3. ASSUME NEW p \in Clis, NEW cmd \in Cmds, Begin(p, cmd) PROVE LInv'
  BY <1>3, LBegin
<1>4. ASSUME NEW p \in Clis, Cancel(p) \/ Confirm(p) \/ Kill(p) PROVE LInv'
  BY <1>4, LCancel, LToStop, LExit
<1>5. ASSUME NEW p \in Clis, KindStep(p) PROVE LInv'
  BY <1>5, LKindCheck, LKindEnds DEF KindStep
<1>6. ASSUME NEW p \in Clis, Step(p) PROVE LInv'
  BY <1>6, LGetForUp, LGetForDown, LCreateReturns, LDrain, LCleanup, LExit, LReadKubeConfig,
     LWriteKubeconfig, LFindContainer, LContainer, LStartCanceled, LToStop, LStopFind, LStopRemove,
     LRemoveGateways, LDelete DEF Step
<1> QED BY <1>1, <1>2, <1>3, <1>4, <1>5, <1>6 DEF Next

\* With one command at a time, whatever was canceled, failed or killed before
\* it: a canceled cluster up leaves no nodes (Manager.Create); a cluster down
\* leaves no nodes, provider or gateway, and no kubeconfig copy unless removing
\* it failed (runDown, Manager.Delete); a cluster up leaves a cluster with its
\* kubeconfig copy.
THEOREM ClusterOutcomesTrue ==
    ASSUME SingleProcess
    PROVE  Spec => []OutcomesTrue
<1>1. LInv => OutcomesTrue
  BY DEF LInv, Local, Reported, OutcomesTrue, CanceledLeavesNoNodes, DownLeavesNothing, UpLeavesCluster
<1>2. LInv /\ [Next]_vars => LInv'
  BY LNext
<1> QED BY <1>1, <1>2, LInit, PTL DEF Spec
=============================================================================
