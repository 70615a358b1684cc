---------------------------- MODULE JobLifecycle ----------------------------
(***************************************************************************)
(* What the jobs table promises its readers (the navbar bell, the admin    *)
(* Jobs Log): a job is created queued, is started at most once, runs alone, *)
(* and ends in a terminal status that only the worker still holding it may  *)
(* revise.  A job whose process died keeps the status `running` until the   *)
(* next start reaps it.                                                     *)
(*                                                                         *)
(* JobWorker implements this specification (models/job.py, JobStatus).      *)
(***************************************************************************)
EXTENDS Integers

CONSTANT JobIds         \* the primary keys the jobs table can hand out

VARIABLES
    status,             \* the status of each job, "absent" before its insert
    held                \* the job a live worker is running, 0 when there is none

lvars == <<status, held>>

Terminal == {"succeeded", "failed"}

LInit == /\ status = [j \in JobIds |-> "absent"]
         /\ held = 0

\* One insert transaction: a single job, or the whole flock a season sweep enqueues.
Create(S) == /\ S # {}
             /\ \A j \in S : status[j] = "absent"
             /\ status' = [j \in JobIds |-> IF j \in S THEN "queued" ELSE status[j]]
             /\ UNCHANGED held

\* A worker that runs nothing takes one queued job.
Start(j) == /\ held = 0
            /\ status[j] = "queued"
            /\ status' = [status EXCEPT ![j] = "running"]
            /\ held' = j

\* The claim is committed but the worker never learns of it.
Lose(j) == /\ held = 0
           /\ status[j] = "queued"
           /\ status' = [status EXCEPT ![j] = "running"]
           /\ UNCHANGED held

\* The outcome of the job the worker runs; no other job can be given one.
Finish(j, outcome) == /\ held = j
                      /\ status' = [status EXCEPT ![j] = outcome]
                      /\ held' = 0

\* Success is committed but the worker is told otherwise, and still holds the job:
\* it goes on to record a failure over it.
Unacknowledged(j) == /\ held = j
                     /\ status[j] = "running"
                     /\ status' = [status EXCEPT ![j] = "succeeded"]
                     /\ UNCHANGED held

\* The worker lets go without recording an outcome: it died, it was cancelled,
\* or the write of the failure record failed.
Abandon == /\ held # 0
           /\ held' = 0
           /\ UNCHANGED status

\* The next start of the process fails every job left running, all at once.
Reap == /\ held = 0
        /\ status' = [j \in JobIds |->
                        IF status[j] = "running" THEN "failed" ELSE status[j]]
        /\ UNCHANGED held

LNext == \/ \E S \in SUBSET JobIds : Create(S)
         \/ \E j \in JobIds : Start(j) \/ Lose(j) \/ Unacknowledged(j)
         \/ \E j \in JobIds, o \in Terminal : Finish(j, o)
         \/ Abandon
         \/ Reap

LSpec == LInit /\ [][LNext]_lvars
=============================================================================
