------------------------------- MODULE MCTaskRun -------------------------------
(***************************************************************************)
(* Instances of TaskRun for TLC.                                           *)
(***************************************************************************)
EXTENDS TaskRun

\* A fanout whose parallelism is above its own count, or above the default of
\* 1; flags at and above the limits change either.
MCFanouts == {[count |-> 0, parallelism |-> 2], [count |-> 1, parallelism |-> 2]}
=============================================================================
