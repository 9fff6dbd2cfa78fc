---------------------------- MODULE TaskRun_proofs ----------------------------
(***************************************************************************)
(* What deployah run reports of its Job is true, the Jobs it creates are   *)
(* well formed, and a delete that reports success has removed what it      *)
(* listed: for any number of processes, any flags and fanouts, any lag of  *)
(* the API server below jobNotFoundLimit.                                  *)
(***************************************************************************)
EXTENDS TaskRun, TLAPS

(***************************************************************************)
(* The inductive invariant, one process at a time. Sized: what             *)
(* NewTaskJobSpec has let through. Created: only a process that waits or   *)
(* has ended has a Job. Counted: a Job is complete when and only when all  *)
(* its copies have succeeded. Lagging: as long as the Job exists, every    *)
(* NotFound in a row was a read that lagged. Reported: an outcome is final *)
(* and true. Deleting: a Job that was listed once exists is never created  *)
(* again, so that a Job that is done with stays gone.                      *)
(***************************************************************************)
WellSized(r) == /\ 1 <= r.par /\ r.par <= r.want
                /\ r.want <= MaxInt32 /\ r.par <= MaxFanoutParallelism

Sized(p) == run[p].pc = "create" => WellSized(run[p])

Created(p) == /\ run[p].pc \in {"start", "create"} => job[p] = NoJob /\ run[p].notFound = 0
              /\ run[p].pc = "wait" => job[p].st # "none"

Counted(p) == /\ job[p].st = "complete" <=> job[p].st # "none" /\ job[p].succ = job[p].want
              /\ job[p].st # "none" => WellSized(job[p]) /\ job[p].succ <= job[p].want
              /\ job[p].exists => job[p].st # "none"

Lagging(p) == run[p].pc = "wait" /\ job[p].exists => run[p].notFound <= stale[p]

Reported(p) == /\ run[p].pc # "ended" => out[p] = "none"
               /\ out[p] = "completed" => job[p].st = "complete"
               /\ out[p] = "failed" => job[p].st = "failed"
               /\ out[p] = "notFound" => ~ job[p].exists

Deleting(p) == p \in del.listed => /\ job[p].st # "none"
                                   /\ p \notin del.left \cup del.failed => ~ job[p].exists

DeleteOver == /\ del.left \subseteq del.listed
              /\ del.pc = "ok" => del.left = {} /\ del.failed = {}

PInv(p) == /\ Sized(p) /\ Created(p) /\ Counted(p) /\ Lagging(p)
           /\ Reported(p) /\ Deleting(p)

TInv == TypeOK /\ DeleteOver /\ \A p \in Clis : PInv(p)

RunState == [pc : {"start", "create", "wait", "ended"}, detach : BOOLEAN,
             want : Nat, par : Nat, notFound : 0 .. jobNotFoundLimit - 1]
JobState == [st : {"none", "active", "complete", "failed"},
             exists : BOOLEAN, want : Nat, par : Nat, succ : Nat]

-----------------------------------------------------------------------------
\* A step that leaves the state of a process, its Job and its entry in the
\* delete alone keeps its part of the invariant.
LEMMA Frame ==
    ASSUME NEW q, PInv(q), run'[q] = run[q], job'[q] = job[q],
           stale'[q] = stale[q], out'[q] = out[q],
           q \in del'.listed <=> q \in del.listed,
           q \in del'.left \cup del'.failed <=> q \in del.left \cup del.failed
    PROVE  PInv(q)'
BY DEF PInv, Sized, Created, Counted, Lagging, Reported, Deleting, WellSized

LEMMA TInit == Init => TInv
<1> SUFFICES ASSUME Init PROVE TInv
  OBVIOUS
<1>1. TypeOK
  BY FanoutAssumption, LagAssumption DEF Init, TypeOK, NoJob, Outcomes
<1>2. DeleteOver
  BY DEF Init, DeleteOver
<1>3. ASSUME NEW p \in Clis PROVE PInv(p)
  BY DEF Init, PInv, Sized, Created, Counted, Lagging, Reported, Deleting, WellSized, NoJob
<1> QED BY <1>1, <1>2, <1>3 DEF TInv

\* The flags and the fanout, whatever their mix, come out well sized.
LEMMA NewTaskJobSpecSized ==
    ASSUME NEW n \in Nat \ {0}, NEW k \in Nat \ {0},
           k <= MaxFanoutParallelism, n <= MaxInt32
    PROVE  /\ Clamp(k, n) \in Nat /\ 1 <= Clamp(k, n) /\ Clamp(k, n) <= n
           /\ Clamp(k, n) <= MaxFanoutParallelism
BY FanoutAssumption DEF Clamp

LEMMA OrPositive ==
    ASSUME NEW n \in Nat, NEW d \in Nat \ {0}
    PROVE  Or(n, d) \in Nat \ {0}
BY DEF Or

LEMMA TRunTask ==
    ASSUME TInv, NEW p \in Clis, NEW f \in Fanouts, NEW c \in Counts, NEW k \in Counts,
           NEW d \in BOOLEAN, runTask(p, f, c, k, d)
    PROVE  TInv'
<1> DEFINE n == Or(c, Or(f.count, 1))
           m == Or(k, Or(f.parallelism, 1))
<1>0. TypeOK /\ DeleteOver /\ \A q \in Clis : PInv(q)
  BY DEF TInv
<1>1. n \in Nat \ {0} /\ m \in Nat \ {0}
  <2>1. f.count \in Nat /\ f.parallelism \in Nat /\ c \in Nat /\ k \in Nat
    BY FanoutAssumption
  <2>2. Or(f.count, 1) \in Nat \ {0} /\ Or(f.parallelism, 1) \in Nat \ {0}
    BY <2>1, OrPositive
  <2> QED BY <2>1, <2>2, OrPositive
<1> HIDE DEF n, m
<1>2. At(p, "start") /\ job' = job /\ stale' = stale /\ del' = del
  BY DEF runTask
<1>3. CASE FlagsOK(c, k) /\ m <= MaxFanoutParallelism /\ n <= MaxInt32
  <2>1. run' = [run EXCEPT ![p].pc = "create", ![p].detach = d, ![p].want = n,
                           ![p].par = Clamp(m, n)] /\ out' = out
    BY <1>3 DEF runTask, n, m
  <2>2. /\ Clamp(m, n) \in Nat /\ 1 <= Clamp(m, n) /\ Clamp(m, n) <= n
        /\ Clamp(m, n) <= MaxFanoutParallelism
    BY <1>1, <1>3, NewTaskJobSpecSized
  <2>3. TypeOK'
    <3>1. run \in [Clis -> RunState]
      BY <1>0 DEF TypeOK, RunState
    <3>2. run' = [run EXCEPT ![p] = [run[p] EXCEPT !.pc = "create", !.detach = d,
                                            !.want = n, !.par = Clamp(m, n)]]
      BY <2>1, <3>1
    <3>3. [run[p] EXCEPT !.pc = "create", !.detach = d, !.want = n, !.par = Clamp(m, n)] \in RunState
      BY <1>1, <2>2, <3>1 DEF RunState
    <3>4. run' \in [Clis -> RunState]
      BY <3>1, <3>2, <3>3
    <3> QED BY <1>0, <1>2, <2>1, <3>4 DEF TypeOK, RunState
  <2>4. PInv(p)'
    BY <1>0, <1>1, <1>2, <1>3, <2>1, <2>2
    DEF TypeOK, At, PInv, Sized, Created, Counted, Lagging, Reported, Deleting, WellSized,
        NoJob
  <2>5. ASSUME NEW q \in Clis, q # p PROVE PInv(q)'
    BY <1>0, <1>2, <2>1, <2>5, Frame DEF TypeOK
  <2> QED BY <1>0, <1>2, <2>3, <2>4, <2>5 DEF TInv, DeleteOver
<1>4. CASE ~ (FlagsOK(c, k) /\ m <= MaxFanoutParallelism /\ n <= MaxInt32)
  <2>1. End(p, "rejected")
    BY <1>4 DEF runTask, n, m
  <2>2. TypeOK'
    BY <1>0, <1>2, <2>1 DEF TypeOK, End, Outcomes
  <2>3. PInv(p)'
    BY <1>0, <1>2, <2>1
    DEF End, TypeOK, At, PInv, Sized, Created, Counted, Lagging, Reported, Deleting,
        WellSized, NoJob
  <2>4. ASSUME NEW q \in Clis, q # p PROVE PInv(q)'
    BY <1>0, <1>2, <2>1, <2>4, Frame DEF TypeOK, End
  <2> QED BY <1>0, <1>2, <2>2, <2>3, <2>4 DEF TInv, DeleteOver
<1> QED BY <1>3, <1>4

\* A run that ends before it has a Job, or with an outcome that says nothing
\* about the Job.
LEMMA TEnd ==
    ASSUME TInv, NEW p \in Clis, NEW o \in Outcomes \ {"none"}, End(p, o),
           ~ At(p, "ended"), job' = job, del' = del, stale' \in [Clis -> 0 .. MaxLag],
           \A q \in Clis \ {p} : stale'[q] = stale[q],
           o = "completed" => job[p].st = "complete",
           o = "failed" => job[p].st = "failed",
           o = "notFound" => ~ job[p].exists
    PROVE  TInv'
<1>0. TypeOK /\ DeleteOver /\ \A q \in Clis : PInv(q)
  BY DEF TInv
<1>1. TypeOK'
  BY <1>0 DEF TypeOK, End
<1>2. PInv(p)'
  BY <1>0 DEF End, TypeOK, At, PInv, Sized, Created, Counted, Lagging, Reported, Deleting,
              WellSized, NoJob
<1>3. ASSUME NEW q \in Clis, q # p PROVE PInv(q)'
  BY <1>0, <1>3, Frame DEF TypeOK, End
<1> QED BY <1>0, <1>1, <1>2, <1>3 DEF TInv, DeleteOver

\* A poll that goes on: only the two counters of the process change.
LEMMA TPollAgain ==
    ASSUME TInv, NEW p \in Clis, NEW n \in 0 .. jobNotFoundLimit - 1,
           At(p, "wait"), run' = [run EXCEPT ![p].notFound = n],
           UNCHANGED <<job, out, del>>, stale' \in [Clis -> 0 .. MaxLag],
           \A q \in Clis \ {p} : stale'[q] = stale[q],
           job[p].exists => n <= stale'[p]
    PROVE  TInv'
<1>0. TypeOK /\ DeleteOver /\ \A q \in Clis : PInv(q)
  BY DEF TInv
<1>1. TypeOK'
  <2>1. run \in [Clis -> RunState]
    BY <1>0 DEF TypeOK, RunState
  <2>2. [run[p] EXCEPT !.notFound = n] \in RunState
    BY <2>1 DEF RunState
  <2>3. run' \in [Clis -> RunState]
    BY <2>1, <2>2
  <2> QED BY <1>0, <2>3 DEF TypeOK, RunState
<1>2. PInv(p)'
  BY <1>0 DEF TypeOK, At, PInv, Sized, Created, Counted, Lagging, Reported, Deleting,
              WellSized, NoJob
<1>3. ASSUME NEW q \in Clis, q # p PROVE PInv(q)'
  BY <1>0, <1>3, Frame DEF TypeOK
<1> QED BY <1>0, <1>1, <1>2, <1>3 DEF TInv, DeleteOver

LEMMA TCreate == ASSUME TInv, NEW p \in Clis, CreateTaskJob(p) PROVE TInv'
<1>0. TypeOK /\ DeleteOver /\ \A q \in Clis : PInv(q)
  BY DEF TInv
<1>1. At(p, "create") /\ stale' = stale /\ del' = del
  BY DEF CreateTaskJob
<1>2. run[p].pc = "create" /\ job[p] = NoJob /\ WellSized(run[p]) /\ p \notin del.listed
  BY <1>0, <1>1 DEF At, PInv, Created, Sized, Deleting, NoJob
<1>3. CASE End(p, "createFailed") /\ UNCHANGED job
  BY <1>0, <1>1, <1>2, <1>3, TEnd DEF TypeOK, At, Outcomes, NoJob
<1>4. CASE /\ job' = [job EXCEPT ![p] = [st |-> "active", exists |-> TRUE, succ |-> 0,
                                          want |-> run[p].want, par |-> run[p].par]]
           /\ IF run[p].detach THEN End(p, "detached")
              ELSE run' = [run EXCEPT ![p].pc = "wait"] /\ UNCHANGED out
  <2>1. /\ run' \in {[run EXCEPT ![p].pc = "ended"], [run EXCEPT ![p].pc = "wait"]}
        /\ \/ /\ out' = [out EXCEPT ![p] = "detached"]
              /\ run' = [run EXCEPT ![p].pc = "ended"]
           \/ out' = out
    BY <1>4 DEF End
  <2>2. TypeOK'
    <3>1. run' \in [Clis -> RunState]
      BY <1>0, <2>1 DEF TypeOK, RunState
    <3>2. job' \in [Clis -> JobState]
      BY <1>0, <1>4 DEF TypeOK, JobState, RunState
    <3> QED BY <1>0, <1>1, <2>1, <3>1, <3>2 DEF TypeOK, Outcomes, RunState, JobState
  <2>3. run[p].notFound = 0
    BY <1>0, <1>2 DEF PInv, Created
  <2>4. PInv(p)'
    BY <1>0, <1>1, <1>2, <1>4, <2>1, <2>3
    DEF TypeOK, PInv, Sized, Created, Counted, Lagging, Reported, Deleting, WellSized, NoJob
  <2>5. ASSUME NEW q \in Clis, q # p PROVE PInv(q)'
    BY <1>0, <1>1, <1>4, <2>1, <2>5, Frame DEF TypeOK
  <2> QED BY <1>0, <1>1, <2>2, <2>4, <2>5 DEF TInv, DeleteOver
<1> QED BY <1>3, <1>4 DEF CreateTaskJob

\* What a poll makes of the three answers it may get.
LEMMA TPollFound == ASSUME TInv, NEW p \in Clis, PollFound(p) PROVE TInv'
<1>0. TypeOK /\ PInv(p)
  BY DEF TInv
<1>1. /\ At(p, "wait") /\ ~ At(p, "ended") /\ job[p].exists /\ job' = job /\ del' = del
      /\ stale' = [stale EXCEPT ![p] = 0]
  BY DEF PollFound, At
<1>2. /\ stale' \in [Clis -> 0 .. MaxLag]
      /\ stale'[p] = 0 /\ \A q \in Clis \ {p} : stale'[q] = stale[q]
  BY <1>0, <1>1, LagAssumption DEF TypeOK
<1>3. job[p].st # "none"
  BY <1>0, <1>1 DEF PInv, Created, At
<1>4. CASE Succeeded(job[p])
  <2>1. End(p, "completed")
    BY <1>4 DEF PollFound
  <2>2. job[p].st = "complete"
    <3>1. job[p].succ \in Nat /\ job[p].want \in Nat
      BY <1>0 DEF TypeOK
    <3>2. job[p].succ = job[p].want
      BY <1>0, <1>3, <1>4, <3>1 DEF PInv, Counted, Succeeded
    <3> QED BY <1>0, <1>3, <3>2 DEF PInv, Counted
  <2> QED BY <1>1, <1>2, <2>1, <2>2, TEnd DEF Outcomes
<1>5. CASE ~ Succeeded(job[p]) /\ job[p].st = "failed"
  <2>1. End(p, "failed")
    BY <1>5 DEF PollFound
  <2> QED BY <1>1, <1>2, <1>5, <2>1, TEnd DEF Outcomes
<1>6. CASE ~ Succeeded(job[p]) /\ job[p].st # "failed"
  <2>1. run' = [run EXCEPT ![p].notFound = 0] /\ out' = out
    BY <1>6 DEF PollFound
  <2>2. 0 \in 0 .. jobNotFoundLimit - 1 /\ 0 <= stale'[p]
    BY <1>2, LagAssumption
  <2> QED BY <1>1, <1>2, <2>1, <2>2, TPollAgain
<1> QED BY <1>4, <1>5, <1>6

\* A Job that exists is missed at most MaxLag times in a row, which does not
\* reach jobNotFoundLimit.
LEMMA TPollNotFound == ASSUME TInv, NEW p \in Clis, PollNotFound(p) PROVE TInv'
<1>0. TypeOK /\ PInv(p)
  BY DEF TInv
<1>1. At(p, "wait") /\ ~ At(p, "ended") /\ job' = job /\ del' = del
  BY DEF PollNotFound, At
<1>2. /\ stale' \in [Clis -> 0 .. MaxLag]
      /\ \A q \in Clis \ {p} : stale'[q] = stale[q]
      /\ job[p].exists => stale'[p] = stale[p] + 1
  BY <1>0, LagAssumption DEF PollNotFound, TypeOK
<1>3. job[p].exists => run[p].notFound + 1 <= stale'[p]
  BY <1>0, <1>1, <1>2 DEF PInv, Lagging, At, TypeOK
<1>4. CASE run[p].notFound + 1 >= jobNotFoundLimit
  <2>1. End(p, "notFound")
    BY <1>4 DEF PollNotFound
  <2>2. ~ job[p].exists
    BY <1>0, <1>2, <1>3, <1>4, LagAssumption DEF TypeOK
  <2> QED BY <1>1, <1>2, <2>1, <2>2, TEnd DEF Outcomes
<1>5. CASE ~ (run[p].notFound + 1 >= jobNotFoundLimit)
  <2>1. run' = [run EXCEPT ![p].notFound = run[p].notFound + 1] /\ out' = out
    BY <1>5 DEF PollNotFound
  <2>2. run[p].notFound + 1 \in 0 .. jobNotFoundLimit - 1
    BY <1>0, <1>5, LagAssumption DEF TypeOK
  <2> QED BY <1>1, <1>2, <1>3, <2>1, <2>2, TPollAgain
<1> QED BY <1>4, <1>5

LEMMA TPollError == ASSUME TInv, NEW p \in Clis, PollError(p) PROVE TInv'
<1>1. /\ At(p, "wait") /\ ~ At(p, "ended") /\ job' = job /\ del' = del
      /\ stale' = [stale EXCEPT ![p] = 0]
  BY DEF PollError, At
<1>2. /\ stale' \in [Clis -> 0 .. MaxLag]
      /\ stale'[p] = 0 /\ \A q \in Clis \ {p} : stale'[q] = stale[q]
  BY <1>1, LagAssumption DEF TInv, TypeOK
<1>3. CASE run' = [run EXCEPT ![p].notFound = 0] /\ UNCHANGED out
  <2>1. 0 \in 0 .. jobNotFoundLimit - 1 /\ 0 <= stale'[p]
    BY <1>2, LagAssumption
  <2> QED BY <1>1, <1>2, <1>3, <2>1, TPollAgain
<1>4. CASE End(p, "permanent")
  BY <1>1, <1>2, <1>4, TEnd DEF Outcomes
<1> QED BY <1>3, <1>4 DEF PollError

\* The prompt is declined, or the session timeout passes.
LEMMA TQuit == ASSUME TInv, NEW p \in Clis, Decline(p) \/ Timeout(p) PROVE TInv'
<1>1. stale \in [Clis -> 0 .. MaxLag]
  BY DEF TInv, TypeOK
<1>2. CASE Decline(p)
  BY <1>1, <1>2, TEnd DEF Decline, At, Outcomes
<1>3. CASE Timeout(p)
  BY <1>1, <1>3, TEnd DEF Timeout, At, Outcomes
<1> QED BY <1>2, <1>3

\* The controllers: a Job that is complete or failed stays so, one that is
\* gone stays gone.
LEMMA TController ==
    ASSUME TInv, NEW p \in Clis, CopySucceeds(p) \/ JobFails(p) \/ JobExpires(p)
    PROVE  TInv'
<1>0. TypeOK /\ DeleteOver /\ \A q \in Clis : PInv(q)
  BY DEF TInv
<1>1. run' = run /\ stale' = stale /\ out' = out /\ del' = del
  BY DEF CopySucceeds, JobFails, JobExpires
<1>2. job \in [Clis -> JobState]
  BY <1>0 DEF TypeOK, JobState
<1>3. job' \in [Clis -> JobState] /\ \A q \in Clis \ {p} : job'[q] = job[q]
  <2>1. CASE CopySucceeds(p)
    <3> DEFINE st == IF job[p].succ + 1 = job[p].want THEN "complete" ELSE job[p].st
               n == job[p].succ + 1
    <3>1. /\ job[p] \in JobState /\ n \in Nat
          /\ st \in {"complete", "active", "none", "failed"}
      BY <1>2 DEF JobState
    <3>2. job' = [job EXCEPT ![p] = [job[p] EXCEPT !.succ = n, !.st = st]]
      BY <1>2, <2>1 DEF CopySucceeds, JobState
    <3> HIDE DEF st, n
    <3>3. [job[p] EXCEPT !.succ = n, !.st = st] \in JobState
      BY <3>1 DEF JobState
    <3> QED BY <1>2, <3>2, <3>3
  <2>2. CASE JobFails(p)
    BY <1>2, <2>2 DEF JobFails, JobState
  <2>3. CASE JobExpires(p)
    BY <1>2, <2>3 DEF JobExpires, JobState
  <2> QED BY <2>1, <2>2, <2>3
<1>4. TypeOK'
  BY <1>0, <1>1, <1>3 DEF TypeOK, JobState
<1>5. PInv(p)'
  <2>1. CASE CopySucceeds(p)
    <3>1. /\ job[p].exists /\ job[p].st = "active" /\ job[p].succ \in Nat /\ job[p].want \in Nat
          /\ job'[p].succ = job[p].succ + 1 /\ job'[p].want = job[p].want
          /\ job'[p].par = job[p].par /\ job'[p].exists
          /\ job'[p].st = IF job[p].succ + 1 = job[p].want THEN "complete" ELSE "active"
      BY <1>2, <2>1 DEF CopySucceeds, JobState
    <3> QED BY <1>0, <1>1, <3>1
    DEF PInv, Sized, Created, Counted, Lagging, Reported, Deleting,
        WellSized, NoJob
  <2>2. CASE JobFails(p)
    BY <1>0, <1>1, <1>2, <2>2
    DEF JobFails, JobState, PInv, Sized, Created, Counted, Lagging, Reported, Deleting,
        WellSized, NoJob
  <2>3. CASE JobExpires(p)
    BY <1>0, <1>1, <1>2, <2>3
    DEF JobExpires, JobState, PInv, Sized, Created, Counted, Lagging, Reported, Deleting,
        WellSized, NoJob
  <2> QED BY <2>1, <2>2, <2>3
<1>6. ASSUME NEW q \in Clis, q # p PROVE PInv(q)'
  BY <1>0, <1>1, <1>3, <1>6, Frame
<1> QED BY <1>0, <1>1, <1>4, <1>5, <1>6 DEF TInv, DeleteOver

LEMMA TListJobs == ASSUME TInv, ListJobs PROVE TInv'
<1>0. TypeOK /\ \A q \in Clis : PInv(q)
  BY DEF TInv
<1> DEFINE found == {p \in Clis : job[p].exists}
<1>1. /\ run' = run /\ job' = job /\ stale' = stale /\ out' = out
      /\ del' = [pc |-> "delete", listed |-> found, left |-> found, failed |-> {}]
  BY DEF ListJobs
<1>2. TypeOK' /\ DeleteOver'
  BY <1>0, <1>1 DEF TypeOK, DeleteOver
<1>3. ASSUME NEW q \in Clis PROVE PInv(q)'
  <2>1. q \in found => job[q].st # "none"
    BY <1>0 DEF PInv, Counted
  <2> QED BY <1>0, <1>1, <2>1
          DEF PInv, Sized, Created, Counted, Lagging, Reported, Deleting, WellSized, NoJob
<1> QED BY <1>2, <1>3 DEF TInv

LEMMA TDeleteJob == ASSUME TInv, NEW p \in Clis, DeleteJob(p) PROVE TInv'
<1>0. TypeOK /\ DeleteOver /\ \A q \in Clis : PInv(q)
  BY DEF TInv
<1>1. /\ run' = run /\ stale' = stale /\ out' = out /\ del.pc = "delete" /\ p \in del.left
      /\ del'.pc = del.pc /\ del'.listed = del.listed /\ del'.left = del.left \ {p}
      /\ \/ /\ job' = [job EXCEPT ![p].exists = FALSE]
            /\ del'.failed = del.failed
         \/ job' = job /\ del'.failed = del.failed \cup {p}
  BY <1>0 DEF DeleteJob, TypeOK
<1>2. TypeOK'
  <2>1. job' \in [Clis -> JobState]
    <3>1. job \in [Clis -> JobState] /\ [job[p] EXCEPT !.exists = FALSE] \in JobState
      BY <1>0 DEF TypeOK, JobState
    <3> QED BY <1>1, <3>1
  <2>2. del' \in [pc : {"start", "delete", "ok", "errors"}, listed : SUBSET Clis,
                  left : SUBSET Clis, failed : SUBSET Clis]
    <3>1. CASE del' = [del EXCEPT !.left = @ \ {p}]
      BY <1>0, <3>1 DEF TypeOK
    <3>2. CASE del' = [del EXCEPT !.left = @ \ {p}, !.failed = @ \cup {p}]
      BY <1>0, <3>2 DEF TypeOK
    <3> QED BY <3>1, <3>2 DEF DeleteJob
  <2> QED BY <1>0, <1>1, <2>1, <2>2 DEF TypeOK, JobState
<1>3. PInv(p)'
  <2>1. job[p] # NoJob
    BY <1>0, <1>1 DEF PInv, Deleting, NoJob, DeleteOver
  <2> QED BY <1>0, <1>1, <2>1
  DEF TypeOK, PInv, Sized, Created, Counted, Lagging, Reported, Deleting, WellSized
<1>4. ASSUME NEW q \in Clis, q # p PROVE PInv(q)'
  <2>1. job'[q] = job[q]
    BY <1>0, <1>1, <1>4 DEF TypeOK
  <2>2. q \in del'.left \cup del'.failed <=> q \in del.left \cup del.failed
    BY <1>1, <1>4
  <2> QED BY <1>0, <1>1, <2>1, <2>2, Frame
<1> QED BY <1>1, <1>2, <1>3, <1>4 DEF TInv, DeleteOver

LEMMA TDeleteDone == ASSUME TInv, DeleteDone PROVE TInv'
<1>0. TypeOK /\ \A q \in Clis : PInv(q)
  BY DEF TInv
<1>1. /\ run' = run /\ job' = job /\ stale' = stale /\ out' = out /\ del.left = {}
      /\ del' = [del EXCEPT !.pc = IF del.failed = {} THEN "ok" ELSE "errors"]
  BY DEF DeleteDone
<1>2. TypeOK' /\ DeleteOver'
  BY <1>0, <1>1 DEF TypeOK, DeleteOver
<1>3. ASSUME NEW q \in Clis PROVE PInv(q)'
  BY <1>0, <1>1, Frame DEF TypeOK
<1> QED BY <1>2, <1>3 DEF TInv

LEMMA TNext == TInv /\ [Next]_vars => TInv'
<1> SUFFICES ASSUME TInv, [Next]_vars PROVE TInv'
  OBVIOUS
<1>1. CASE UNCHANGED vars
  <2>1. run' = run /\ job' = job /\ stale' = stale /\ out' = out /\ del' = del
    BY <1>1 DEF vars
  <2>2. \A q \in Clis : PInv(q)'
    BY <2>1, Frame DEF TInv
  <2> QED BY <2>1, <2>2 DEF TInv, TypeOK, DeleteOver
<1> QED BY <1>1, TRunTask, TQuit, TCreate, TPollFound, TPollNotFound, TPollError, TController,
           TListJobs, TDeleteJob, TDeleteDone DEF Next, Wait

(***************************************************************************)
(* For any number of runs: completed and failed are said of Jobs that are, *)
(* and no Job that exists is reported missing, as long as the API server   *)
(* lags for fewer reads than jobNotFoundLimit (WaitForJob).                *)
(***************************************************************************)
THEOREM ReportsAreTrue == Spec => []ReportIsTrue
<1>1. TInv => ReportIsTrue
  BY DEF TInv, PInv, Reported, ReportIsTrue
<1> QED BY TInit, TNext, <1>1, PTL DEF Spec

(***************************************************************************)
(* Every Job that is created can be run by Kubernetes, for every mix of    *)
(* --count, --parallelism and fanout and every limit (NewTaskJobSpec).     *)
(***************************************************************************)
THEOREM JobsWellFormed == Spec => []JobWellFormed
<1>1. TInv => JobWellFormed
  BY DEF TInv, PInv, Counted, WellSized, JobWellFormed
<1> QED BY TInit, TNext, <1>1, PTL DEF Spec

(***************************************************************************)
(* A delete that reports success leaves none of the Jobs it has listed     *)
(* (DeleteJobs), whatever runs and controllers do meanwhile.               *)
(***************************************************************************)
THEOREM DeleteRemovesListed == Spec => []DeletedListed
<1>1. TInv => DeletedListed
  BY DEF TInv, TypeOK, PInv, Deleting, DeleteOver, DeletedListed
<1> QED BY TInit, TNext, <1>1, PTL DEF Spec
=============================================================================
