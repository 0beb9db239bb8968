----------------------------- MODULE JobLifecycle -----------------------------
(***************************************************************************)
(* What the ingestion queue promises about one job, whoever runs it: the   *)
(* life of a row of ingestion_jobs seen from outside, with no workers,     *)
(* leases, clocks or tokens.  A submitted job is started a number of       *)
(* times; each start ends in exactly one way, by finishing the job for     *)
(* good or by spending one attempt, and a job whose attempts are spent is  *)
(* dead.  JobQueue.tla is shown to implement this specification.           *)
(***************************************************************************)
EXTENDS Naturals

CONSTANTS
    NumJobs,       \* rows of ingestion_jobs that are ever inserted
    MaxAttempts    \* settings.max_attempts

Jobs == 1..NumJobs

VARIABLES
    status,        \* status[j]: the status column, or "absent" / "deleted"
    attempts       \* attempts[j]: the attempts column

vars == <<status, attempts>>

Status == {"absent", "queued", "running", "done", "dead", "deleted"}

Settled == {"done", "dead", "deleted"}

TypeOK ==
    /\ status \in [Jobs -> Status]
    /\ attempts \in [Jobs -> 0..MaxAttempts]

Init ==
    /\ status = [j \in Jobs |-> "absent"]
    /\ attempts = [j \in Jobs |-> 0]

(***************************************************************************)
(* The moves of one job.                                                   *)
(***************************************************************************)
Submit(j) ==
    /\ status[j] = "absent"
    /\ status'[j] = "queued"
    /\ attempts'[j] = attempts[j]

Start(j) ==
    /\ status[j] = "queued"
    /\ status'[j] = "running"
    /\ attempts'[j] = attempts[j]

Finish(j) ==
    /\ status[j] = "running"
    /\ status'[j] = "done"
    /\ attempts'[j] = attempts[j]

\* An ordinary failure, or a start nobody heard of again.
Spend(j) ==
    /\ status[j] = "running"
    /\ attempts'[j] = attempts[j] + 1
    /\ status'[j] = IF attempts[j] + 1 < MaxAttempts THEN "queued" ELSE "dead"

\* A document that must not be tried again.
Condemn(j) ==
    /\ status[j] = "running"
    /\ attempts'[j] = attempts[j] + 1
    /\ status'[j] = "dead"

Withdraw(j) ==
    /\ status[j] \notin {"absent", "deleted"}
    /\ status'[j] = "deleted"
    /\ attempts'[j] = attempts[j]

Stay(j) ==
    /\ status'[j] = status[j]
    /\ attempts'[j] = attempts[j]

Move(j) ==
    \/ Submit(j) \/ Start(j) \/ Finish(j) \/ Spend(j) \/ Condemn(j) \/ Withdraw(j)
    \/ Stay(j)

\* Jobs move independently: one transaction of the reaper moves several.
Next ==
    /\ status' \in [Jobs -> Status]
    /\ attempts' \in [Jobs -> 0..MaxAttempts]
    /\ \A j \in Jobs : Move(j)

\* A job that waits or runs moves on.
Advance(j) ==
    /\ status[j] \in {"queued", "running"}
    /\ Next
    /\ status'[j] # status[j]

SafeSpec == Init /\ [][Next]_vars

Spec == SafeSpec /\ \A j \in Jobs : WF_vars(Advance(j))

===============================================================================
