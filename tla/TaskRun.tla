-------------------------------- MODULE TaskRun --------------------------------
(***************************************************************************)
(* deployah run: every process turns one task into a Job of its own        *)
(* (NewTaskJobSpec, BuildTaskJob), creates it and, unless detached, waits  *)
(* for it (WaitForJob), while the Job controller works, finished Jobs      *)
(* expire and a deployah delete removes the Jobs of the environment        *)
(* (DeleteJobs). A read may be served by an API server that does not know  *)
(* the Job yet.                                                            *)
(***************************************************************************)
EXTENDS Integers

CONSTANTS
    Clis,                   \* processes, each of which runs one task
    Fanouts,                \* fanout of the tasks: [count, parallelism], 0 when unset
    Counts,                 \* values of --count and --parallelism, 0 when unset
    MaxFanoutParallelism,   \* 100000 in the code
    MaxInt32,
    jobNotFoundLimit,       \* 5 in the code
    MaxLag                  \* longest run of reads that miss an existing Job

ASSUME FanoutAssumption ==
    /\ Fanouts \subseteq [count : Nat, parallelism : Nat]
    /\ Counts \subseteq Nat
    /\ MaxFanoutParallelism \in Nat \ {0} /\ MaxInt32 \in Nat \ {0}
    /\ MaxFanoutParallelism <= MaxInt32

\* "Covers brief apiserver lag after Create."
ASSUME LagAssumption ==
    /\ jobNotFoundLimit \in Nat \ {0} /\ MaxLag \in Nat
    /\ MaxLag < jobNotFoundLimit

VARIABLES
    run,      \* the local state of each process
    job,      \* its Job
    stale,    \* reads in a row that missed an existing Job
    out,      \* how the run ended
    del       \* the delete: its step, and the Jobs it listed and has left

vars == <<run, job, stale, out, del>>

NoJob == [st |-> "none", exists |-> FALSE, want |-> 0, par |-> 0, succ |-> 0]

Outcomes == {"none", "rejected", "aborted", "createFailed", "detached", "completed",
             "failed", "notFound", "permanent", "timeout"}

TypeOK ==
    /\ run \in [Clis -> [pc : {"start", "create", "wait", "ended"}, detach : BOOLEAN,
                         want : Nat, par : Nat, notFound : 0 .. jobNotFoundLimit - 1]]
    /\ job \in [Clis -> [st : {"none", "active", "complete", "failed"},
                         exists : BOOLEAN, want : Nat, par : Nat, succ : Nat]]
    /\ stale \in [Clis -> 0 .. MaxLag]
    /\ out \in [Clis -> Outcomes]
    /\ del \in [pc : {"start", "delete", "ok", "errors"}, listed : SUBSET Clis,
                left : SUBSET Clis, failed : SUBSET Clis]

Init ==
    /\ run = [p \in Clis |-> [pc |-> "start", detach |-> FALSE, want |-> 0, par |-> 0,
                              notFound |-> 0]]
    /\ job = [p \in Clis |-> NoJob]
    /\ stale = [p \in Clis |-> 0]
    /\ out = [p \in Clis |-> "none"]
    /\ del = [pc |-> "start", listed |-> {}, left |-> {}, failed |-> {}]

-----------------------------------------------------------------------------
At(p, s) == run[p].pc = s

End(p, result) == /\ run' = [run EXCEPT ![p].pc = "ended"]
                  /\ out' = [out EXCEPT ![p] = result]

Or(n, default) == IF n <= 0 THEN default ELSE n

\* runTask's checks of the flags.
FlagsOK(count, par) == par <= MaxFanoutParallelism /\ (count > 0 => par <= count)

\* Mutant: the parallelism is not clamped.
MutClamp(par, count) == par

Clamp(par, count) == IF par > count THEN count ELSE par

\* runTask up to BuildTaskJob: after the checks of the flags the user may still
\* decline. NewTaskJobSpec prefers the flags to the fanout of the spec (1, 1
\* when unset), rejects a parallelism above the limit and a count that is no
\* int32, and clamps the parallelism.
runTask(p, f, count, par, detach) ==
    LET n == Or(count, Or(f.count, 1))
        k == Or(par, Or(f.parallelism, 1))
    IN  /\ At(p, "start")
        /\ IF FlagsOK(count, par) /\ k <= MaxFanoutParallelism /\ n <= MaxInt32
           THEN /\ run' = [run EXCEPT ![p].pc = "create", ![p].detach = detach,
                                      ![p].want = n, ![p].par = Clamp(k, n)]
                /\ UNCHANGED out
           ELSE End(p, "rejected")
        /\ UNCHANGED <<job, stale, del>>

\* The prompt, before anything is built.
Decline(p) ==
    /\ At(p, "start")
    /\ End(p, "aborted")
    /\ UNCHANGED <<job, stale, del>>

\* executeRun: GenerateName gives every Job a name of its own.
CreateTaskJob(p) ==
    /\ At(p, "create")
    /\ \/ /\ job' = [job EXCEPT ![p] = [st |-> "active", exists |-> TRUE, succ |-> 0,
                                        want |-> run[p].want, par |-> run[p].par]]
          /\ IF run[p].detach THEN End(p, "detached")
             ELSE run' = [run EXCEPT ![p].pc = "wait"] /\ UNCHANGED out
       \/ End(p, "createFailed") /\ UNCHANGED job
    /\ UNCHANGED <<stale, del>>

-----------------------------------------------------------------------------
(* WaitForJob: what a poll may get, and what it makes of it.               *)

\* Mutant: only the first read resets the counter.
MutPollFound(p) ==
    /\ At(p, "wait") /\ job[p].exists
    /\ stale' = [stale EXCEPT ![p] = 0]
    /\ CASE job[p].succ >= job[p].want -> End(p, "completed")
         [] job[p].st = "failed" -> End(p, "failed")
         [] OTHER -> UNCHANGED <<run, out>>
    /\ UNCHANGED <<job, del>>

\* Mutant: one finished copy is taken for the whole Job.
MutSucceeded(j) == j.succ >= 1

Succeeded(j) == j.succ >= j.want

\* The Job: enough copies succeeded, its Failed condition is set, or neither.
PollFound(p) ==
    /\ At(p, "wait") /\ job[p].exists
    /\ stale' = [stale EXCEPT ![p] = 0]
    /\ CASE Succeeded(job[p]) -> End(p, "completed")
         [] ~ Succeeded(job[p]) /\ job[p].st = "failed" -> End(p, "failed")
         [] OTHER -> run' = [run EXCEPT ![p].notFound = 0] /\ UNCHANGED out
    /\ UNCHANGED <<job, del>>

\* Mutant: off by one.
MutPollNotFound(p) ==
    /\ At(p, "wait")
    /\ \/ ~ job[p].exists /\ UNCHANGED stale
       \/ /\ job[p].exists /\ stale[p] < MaxLag
          /\ stale' = [stale EXCEPT ![p] = @ + 1]
    /\ IF run[p].notFound + 1 > jobNotFoundLimit THEN End(p, "notFound")
       ELSE run' = [run EXCEPT ![p].notFound = @ + 1] /\ UNCHANGED out
    /\ UNCHANGED <<job, del>>

\* NotFound: the Job is gone, or the server lags behind.
PollNotFound(p) ==
    /\ At(p, "wait")
    /\ \/ ~ job[p].exists /\ UNCHANGED stale
       \/ /\ job[p].exists /\ stale[p] < MaxLag
          /\ stale' = [stale EXCEPT ![p] = @ + 1]
    /\ IF run[p].notFound + 1 >= jobNotFoundLimit THEN End(p, "notFound")
       ELSE run' = [run EXCEPT ![p].notFound = @ + 1] /\ UNCHANGED out
    /\ UNCHANGED <<job, del>>

\* Another error: retried, unless isPermanentJobGet.
PollError(p) ==
    /\ At(p, "wait")
    /\ stale' = [stale EXCEPT ![p] = 0]
    /\ \/ run' = [run EXCEPT ![p].notFound = 0] /\ UNCHANGED out
       \/ End(p, "permanent")
    /\ UNCHANGED <<job, del>>

\* Mutant: the wait is not bounded by the session timeout.
MutTimeout(p) == FALSE /\ UNCHANGED vars

\* The session timeout, or Ctrl-C.
Timeout(p) ==
    /\ At(p, "wait")
    /\ End(p, "timeout")
    /\ UNCHANGED <<job, stale, del>>

-----------------------------------------------------------------------------
(* The Job controller and the TTL controller (external).                   *)

CopySucceeds(p) ==
    /\ job[p].exists /\ job[p].st = "active"
    /\ job' = [job EXCEPT ![p].succ = @ + 1,
                          ![p].st = IF job[p].succ + 1 = job[p].want THEN "complete" ELSE @]
    /\ UNCHANGED <<run, stale, out, del>>

JobFails(p) ==
    /\ job[p].exists /\ job[p].st = "active"
    /\ job' = [job EXCEPT ![p].st = "failed"]
    /\ UNCHANGED <<run, stale, out, del>>

JobExpires(p) ==
    /\ job[p].exists /\ job[p].st \in {"complete", "failed"}
    /\ job' = [job EXCEPT ![p].exists = FALSE]
    /\ UNCHANGED <<run, stale, out, del>>

-----------------------------------------------------------------------------
(* DeleteJobs: the Jobs listed by label are deleted one by one; NotFound   *)
(* is no error, another error does not keep the rest from being deleted.   *)

ListJobs ==
    /\ del.pc = "start"
    /\ LET found == {p \in Clis : job[p].exists}
       IN  del' = [pc |-> "delete", listed |-> found, left |-> found, failed |-> {}]
    /\ UNCHANGED <<run, job, stale, out>>

DeleteJob(p) ==
    /\ del.pc = "delete" /\ p \in del.left
    /\ \/ /\ job' = [job EXCEPT ![p].exists = FALSE]
          /\ del' = [del EXCEPT !.left = @ \ {p}]
       \/ /\ job[p].exists
          /\ del' = [del EXCEPT !.left = @ \ {p}, !.failed = @ \cup {p}]
          /\ UNCHANGED job
    /\ UNCHANGED <<run, stale, out>>

\* Mutant: a delete that failed for some Jobs reports success.
MutDeleteDone ==
    /\ del.pc = "delete" /\ del.left = {}
    /\ del' = [del EXCEPT !.pc = "ok"]
    /\ UNCHANGED <<run, job, stale, out>>

DeleteDone ==
    /\ del.pc = "delete" /\ del.left = {}
    /\ del' = [del EXCEPT !.pc = IF del.failed = {} THEN "ok" ELSE "errors"]
    /\ UNCHANGED <<run, job, stale, out>>

-----------------------------------------------------------------------------
Wait(p) == PollFound(p) \/ PollNotFound(p) \/ PollError(p)

Next ==
    \/ \E p \in Clis :
          \/ \E f \in Fanouts, c \in Counts, k \in Counts, d \in BOOLEAN :
                runTask(p, f, c, k, d)
          \/ Decline(p)
          \/ CreateTaskJob(p) \/ Wait(p) \/ Timeout(p)
          \/ CopySucceeds(p) \/ JobFails(p) \/ JobExpires(p)
          \/ DeleteJob(p)
    \/ ListJobs \/ DeleteDone

Spec == Init /\ [][Next]_vars

\* The processes run and the session timeout passes; nothing makes the API
\* server answer well or a Job finish.
FairSpec == Spec /\ \A p \in Clis : WF_vars(CreateTaskJob(p)) /\ WF_vars(Wait(p))
                                    /\ WF_vars(Timeout(p))

-----------------------------------------------------------------------------
(* Properties.                                                             *)

\* A run that reports completion saw every copy of its Job succeed, a run that
\* reports a failed Job saw it fail (WaitForJob), whatever reads were lost. A
\* Job is reported missing only when it is gone: reads that lag behind, in as
\* many bursts as there may be, never add up to jobNotFoundLimit.
ReportIsTrue == \A p \in Clis :
    /\ out[p] = "completed" => job[p].st = "complete"
    /\ out[p] = "failed" => job[p].st = "failed"
    /\ out[p] = "notFound" => ~ job[p].exists

\* A created Job can be run by Kubernetes, whatever mix of flags and fanout it
\* comes from: at least one copy, no more copies at once than copies, and
\* nothing above the limits.
JobWellFormed ==
    /\ TypeOK
    /\ \A p \in Clis : job[p].st # "none" =>
          /\ 1 <= job[p].par /\ job[p].par <= job[p].want
          /\ job[p].want <= MaxInt32 /\ job[p].par <= MaxFanoutParallelism

\* A delete that reports success removed every Job it listed, though runs and
\* the TTL controller were at work.
DeletedListed == del.pc = "ok" => \A p \in del.listed : ~ job[p].exists

\* Every run ends, though the Job may never finish and every read may fail.
RunsEnd == \A p \in Clis : At(p, "create") ~> At(p, "ended")
=============================================================================
