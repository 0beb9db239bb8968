------------------------------- MODULE JobQueue -------------------------------
(***************************************************************************)
(* The ingestion job queue and the workers that drain it:                  *)
(*   app/ingest/adapters/queue/postgres.py   the rows and their updates    *)
(*   app/ingest/worker.py                    the poll loop                 *)
(*   app/ingest/pipeline/runner.py           the stages of one job         *)
(*   app/ingest/pipeline/lease.py            the renewal thread            *)
(*   app/ingest/adapters/publication.py      the commit of the last stage  *)
(*                                                                         *)
(* A worker claims the oldest due job under a fresh token and a lease, a   *)
(* thread of it renews the lease, and every write about the job names the  *)
(* token and needs an unexpired lease.  Workers crash, stall past their    *)
(* lease, lose replies of commits that happened, and come back with a      *)
(* claim that is no longer theirs.  Each database transaction is one       *)
(* action, which PostgreSQL's row locks justify.                           *)
(*                                                                         *)
(* Time is what is left: leaseLeft is lease_expires_at - now, backoff is   *)
(* available_at - now, and Tick counts both down to 0, so the state space  *)
(* is finite without a bound on the clock.                                 *)
(***************************************************************************)
EXTENDS Naturals, FiniteSets

CONSTANTS
    NumJobs,       \* jobs ever submitted; job j is the j-th by created_at
    Workers,       \* worker processes
    MaxAttempts,   \* settings.max_attempts (5)
    LeaseTime,     \* settings.job_lease_seconds (300)
    NumStages,     \* stages of the pipeline (8), the last one publishes
    RetryBase,     \* RETRY_BASE_SECONDS (2)
    RetryMax       \* RETRY_MAX_SECONDS (60)

ASSUME JobQueueAssumption ==
    /\ NumJobs \in Nat \ {0}
    /\ MaxAttempts \in Nat \ {0}
    /\ LeaseTime \in Nat \ {0}
    /\ NumStages \in Nat \ {0}
    /\ RetryMax \in Nat
    /\ \A a \in 1..MaxAttempts : RetryBase^a \in Nat

Jobs == 1..NumJobs
NoJob == 0
NoToken == 0

VARIABLES
    \* the rows of ingestion_jobs
    status,        \* status[j], "absent" before the insert, "deleted" after the delete
    attempts,      \* attempts[j]
    token,         \* lease_token[j]; tokens of a job are numbered, NoToken is NULL
    leaseLeft,     \* time until lease_expires_at[j]
    backoff,       \* time until available_at[j]
    summary,       \* route_summary[j]: the claim whose run wrote it, NoToken is NULL
    \* the workers
    pc,            \* pc[w]: where worker w is in its poll loop
    job,           \* job[w]: the job it claimed
    tok,           \* tok[w]: the token it claimed it under
    stage,         \* stage[w]: the pipeline stage it is at
    renewFailed,   \* renewFailed[w]: the `failures` list of renewed_lease is not empty
    unsafe,        \* unsafe[w]: the exception it handles is an UnsafeContentError
    \* history
    claims,        \* claims[j]: claims of j so far; also numbers the tokens
    publications   \* publications[j]: commits of publish for j

\* The columns every decision of the queue reads, and the whole row.
columns == <<status, attempts, token, leaseLeft, backoff>>
rows == <<status, attempts, token, leaseLeft, backoff, summary>>
wvars == <<pc, job, tok, stage, renewFailed, unsafe>>
history == <<claims, publications>>
vars == <<rows, wvars, history>>

Status == {"absent", "queued", "running", "done", "dead", "deleted"}
Settled == {"done", "dead", "deleted"}
PC == {"reap", "claim", "open", "boundary", "handler", "fail"}

\* The places of a worker inside run_job or its failure handler.
Busy(w) == pc[w] \in {"open", "boundary", "handler", "fail"}

RetryDelay(a) ==
    IF a < 1 THEN 0 ELSE IF RetryBase^a < RetryMax THEN RetryBase^a ELSE RetryMax

TypeOK ==
    /\ status \in [Jobs -> Status]
    /\ attempts \in [Jobs -> 0..MaxAttempts]
    /\ token \in [Jobs -> Nat]
    /\ leaseLeft \in [Jobs -> 0..LeaseTime]
    /\ backoff \in [Jobs -> Nat]
    /\ summary \in [Jobs -> Nat]
    /\ pc \in [Workers -> PC]
    /\ job \in [Workers -> Jobs \cup {NoJob}]
    /\ tok \in [Workers -> Nat]
    /\ stage \in [Workers -> 0..NumStages]
    /\ renewFailed \in [Workers -> BOOLEAN]
    /\ unsafe \in [Workers -> BOOLEAN]
    /\ claims \in [Jobs -> Nat]
    /\ publications \in [Jobs -> Nat]

Init ==
    /\ status = [j \in Jobs |-> "absent"]
    /\ attempts = [j \in Jobs |-> 0]
    /\ token = [j \in Jobs |-> NoToken]
    /\ leaseLeft = [j \in Jobs |-> 0]
    /\ backoff = [j \in Jobs |-> 0]
    /\ summary = [j \in Jobs |-> NoToken]
    /\ pc = [w \in Workers |-> "reap"]
    /\ job = [w \in Workers |-> NoJob]
    /\ tok = [w \in Workers |-> NoToken]
    /\ stage = [w \in Workers |-> 0]
    /\ renewFailed = [w \in Workers |-> FALSE]
    /\ unsafe = [w \in Workers |-> FALSE]
    /\ claims = [j \in Jobs |-> 0]
    /\ publications = [j \in Jobs |-> 0]

(***************************************************************************)
(* The WHERE clauses.                                                      *)
(***************************************************************************)

\* status='queued' AND available_at <= now()
Due(j) == status[j] = "queued" /\ backoff[j] = 0

\* Defect: the reaper forgets the status filter.
ExpiredAnyStatus(j) == status[j] # "absent" /\ leaseLeft[j] = 0

\* Defect: the reaper only takes rows whose holder gave the token back.
ExpiredWithoutHolder(j) == status[j] = "running" /\ token[j] = NoToken

\* status='running' AND lease_expires_at <= now()
Expired(j) == status[j] = "running" /\ leaseLeft[j] = 0

\* status='running' AND lease_token=%s AND lease_expires_at > clock_timestamp()
Owns(w) ==
    /\ job[w] \in Jobs
    /\ status[job[w]] = "running"
    /\ token[job[w]] = tok[w]
    /\ leaseLeft[job[w]] > 0

(***************************************************************************)
(* Moves of a worker that several actions share.                           *)
(***************************************************************************)

\* Back to the top of the loop: the claim, if any, is forgotten.
Return(w) ==
    /\ pc' = [pc EXCEPT ![w] = "reap"]
    /\ job' = [job EXCEPT ![w] = NoJob]
    /\ tok' = [tok EXCEPT ![w] = NoToken]
    /\ stage' = [stage EXCEPT ![w] = 0]
    /\ renewFailed' = [renewFailed EXCEPT ![w] = FALSE]
    /\ unsafe' = [unsafe EXCEPT ![w] = FALSE]

\* run_job raised something other than StaleLeaseError.
Raise(w, isUnsafe) ==
    /\ pc' = [pc EXCEPT ![w] = "fail"]
    /\ unsafe' = [unsafe EXCEPT ![w] = isUnsafe]
    /\ UNCHANGED <<job, tok, stage, renewFailed>>

GoTo(w, place) ==
    /\ pc' = [pc EXCEPT ![w] = place]
    /\ UNCHANGED <<job, tok, stage, renewFailed, unsafe>>

\* SET lease_expires_at = clock_timestamp() + lease
ExtendLease(j) == leaseLeft' = [leaseLeft EXCEPT ![j] = LeaseTime]

(***************************************************************************)
(* Submission and deletion, from the API.                                  *)
(***************************************************************************)
Submit(j) ==
    /\ status[j] = "absent"
    /\ \A i \in Jobs : i < j => status[i] # "absent"
    /\ status' = [status EXCEPT ![j] = "queued"]
    /\ UNCHANGED <<attempts, token, leaseLeft, backoff, summary, wvars, history>>

\* delete_document removes the row whatever its status, a running one too.
Delete(j) ==
    /\ status[j] \notin {"absent", "deleted"}
    /\ status' = [status EXCEPT ![j] = "deleted"]
    /\ token' = [token EXCEPT ![j] = NoToken]
    /\ leaseLeft' = [leaseLeft EXCEPT ![j] = 0]
    /\ backoff' = [backoff EXCEPT ![j] = 0]
    /\ summary' = [summary EXCEPT ![j] = NoToken]
    /\ UNCHANGED <<attempts, wvars, history>>

(***************************************************************************)
(* The poll loop: reap, then claim.                                        *)
(***************************************************************************)

\* Defect: a reclaimed job does not pay for the attempt that vanished.
ReapFree(w, taken) ==
    /\ pc[w] = "reap"
    /\ \A j \in taken : Expired(j)
    /\ status' = [j \in Jobs |-> IF j \in taken THEN "queued" ELSE status[j]]
    /\ token' = [j \in Jobs |-> IF j \in taken THEN NoToken ELSE token[j]]
    /\ GoTo(w, "claim")
    /\ UNCHANGED <<attempts, leaseLeft, backoff, summary, history>>

\* reap_expired: `taken` are the expired rows FOR UPDATE SKIP LOCKED returned
\* to this transaction, none of them when it fails (the error is swallowed).
Reap(w, taken) ==
    /\ pc[w] = "reap"
    /\ \A j \in taken : Expired(j)
    /\ attempts' = [j \in Jobs |-> IF j \in taken THEN attempts[j] + 1 ELSE attempts[j]]
    /\ status' = [j \in Jobs |->
            IF j \notin taken THEN status[j]
            ELSE IF attempts[j] + 1 < MaxAttempts THEN "queued" ELSE "dead"]
    /\ token' = [j \in Jobs |-> IF j \in taken THEN NoToken ELSE token[j]]
    /\ leaseLeft' = [j \in Jobs |-> IF j \in taken THEN 0 ELSE leaseLeft[j]]
    /\ backoff' = [j \in Jobs |->
            IF j \in taken THEN RetryDelay(attempts[j] + 1) ELSE backoff[j]]
    /\ GoTo(w, "claim")
    /\ UNCHANGED <<summary, history>>

\* The row claim_next picks: the oldest due one, or a younger one when another
\* worker's claim may hold the lock of an older one (SKIP LOCKED).
Claimable(w, j) ==
    /\ Due(j)
    /\ \/ \A i \in Jobs : i < j => ~Due(i)
       \/ \E v \in Workers \ {w} : pc[v] = "claim"

\* The UPDATE of claim_next: a fresh token and generation, a full lease.
TakeRow(j) ==
    /\ status' = [status EXCEPT ![j] = "running"]
    /\ token' = [token EXCEPT ![j] = claims[j] + 1]
    /\ ExtendLease(j)
    /\ claims' = [claims EXCEPT ![j] = claims[j] + 1]
    /\ UNCHANGED <<attempts, backoff, summary, publications>>

\* Defect: the token names the job, not the claim.
ClaimReusingToken(w, j) ==
    /\ pc[w] = "claim"
    /\ Claimable(w, j)
    /\ status' = [status EXCEPT ![j] = "running"]
    /\ token' = [token EXCEPT ![j] = j]
    /\ ExtendLease(j)
    /\ claims' = [claims EXCEPT ![j] = claims[j] + 1]
    /\ pc' = [pc EXCEPT ![w] = "open"]
    /\ job' = [job EXCEPT ![w] = j]
    /\ tok' = [tok EXCEPT ![w] = j]
    /\ UNCHANGED <<attempts, backoff, summary, publications, stage, renewFailed, unsafe>>

Claim(w, j) ==
    /\ pc[w] = "claim"
    /\ Claimable(w, j)
    /\ TakeRow(j)
    /\ pc' = [pc EXCEPT ![w] = "open"]
    /\ job' = [job EXCEPT ![w] = j]
    /\ tok' = [tok EXCEPT ![w] = claims[j] + 1]
    /\ UNCHANGED <<stage, renewFailed, unsafe>>

\* The claim commits but the connection dies before the worker hears of it.
ClaimReplyLost(w, j) ==
    /\ pc[w] = "claim"
    /\ Claimable(w, j)
    /\ TakeRow(j)
    /\ Return(w)

\* Nothing is due, or the queue is unavailable: sleep and poll again.
ClaimNothing(w) ==
    /\ pc[w] = "claim"
    /\ Return(w)
    /\ UNCHANGED <<rows, history>>

(***************************************************************************)
(* Renewal: once before the stages start, then by a thread.                *)
(***************************************************************************)
FirstRenewal(w) ==
    /\ pc[w] = "open"
    /\ Owns(w)
    /\ ExtendLease(job[w])
    /\ pc' = [pc EXCEPT ![w] = "boundary"]
    /\ stage' = [stage EXCEPT ![w] = 1]
    /\ UNCHANGED <<status, attempts, token, backoff, summary, job, tok, renewFailed, unsafe, history>>

FirstRenewalStale(w) ==
    /\ pc[w] = "open"
    /\ ~Owns(w)
    /\ Return(w)
    /\ UNCHANGED <<rows, history>>

\* The update fails, or commits and its reply is lost.
FirstRenewalError(w) ==
    /\ pc[w] = "open"
    /\ \/ Owns(w) /\ ExtendLease(job[w])
       \/ UNCHANGED leaseLeft
    /\ Raise(w, FALSE)
    /\ UNCHANGED <<status, attempts, token, backoff, summary, history>>

\* The renewal thread lives while run_job does and its list of failures is empty.
RenewerAlive(w) == pc[w] \in {"boundary", "handler"} /\ ~renewFailed[w]

\* Defect: the renewal names the job and nothing else.
RenewUnfenced(w) ==
    /\ RenewerAlive(w)
    /\ ExtendLease(job[w])
    /\ UNCHANGED <<status, attempts, token, backoff, summary, wvars, history>>

Renew(w) ==
    /\ RenewerAlive(w)
    /\ Owns(w)
    /\ ExtendLease(job[w])
    /\ UNCHANGED <<status, attempts, token, backoff, summary, wvars, history>>

\* StaleLeaseError, a lock or statement timeout, or a lost reply: the thread
\* records the failure and ends.
RenewFails(w) ==
    /\ RenewerAlive(w)
    /\ renewFailed' = [renewFailed EXCEPT ![w] = TRUE]
    /\ \/ Owns(w) /\ ExtendLease(job[w])
       \/ UNCHANGED leaseLeft
    /\ UNCHANGED <<status, attempts, token, backoff, summary, pc, job, tok, stage, unsafe, history>>

(***************************************************************************)
(* The stages of _run_claimed_job.                                         *)
(***************************************************************************)

\* check() passes and set_stage finds the row.
EnterStage(w) ==
    /\ pc[w] = "boundary"
    /\ ~renewFailed[w]
    /\ Owns(w)
    /\ GoTo(w, "handler")
    /\ UNCHANGED <<rows, history>>

\* check() or set_stage raises StaleLeaseError; the worker leaves the row alone.
StageStale(w) ==
    /\ pc[w] = "boundary"
    /\ renewFailed[w] \/ ~Owns(w)
    /\ Return(w)
    /\ UNCHANGED <<rows, history>>

\* Anything else that raises between the stages: the database, or, before the
\* first one, the workspace, the document row or the blob.
BoundaryError(w) ==
    /\ pc[w] = "boundary"
    /\ ~renewFailed[w] \/ stage[w] = 1
    /\ Raise(w, FALSE)
    /\ UNCHANGED <<rows, history>>

\* The first stage, PARSE, ends with set_route_summary, which finds the row by
\* its id alone: neither the token nor the lease nor the status is asked for.
PutSummary(w) ==
    /\ summary' = IF stage[w] = 1 /\ status[job[w]] # "deleted"
                  THEN [summary EXCEPT ![job[w]] = tok[w]] ELSE summary
    /\ UNCHANGED columns

StageDone(w) ==
    /\ pc[w] = "handler"
    /\ stage[w] < NumStages
    /\ PutSummary(w)
    /\ pc' = [pc EXCEPT ![w] = "boundary"]
    /\ stage' = [stage EXCEPT ![w] = stage[w] + 1]
    /\ UNCHANGED <<job, tok, renewFailed, unsafe, history>>

\* The handler raises: an ordinary exception, the lost reply of the write of
\* the summary among them, or an UnsafeContentError.
StageError(w, isUnsafe) ==
    /\ pc[w] = "handler"
    /\ Raise(w, isUnsafe)
    /\ \/ ~isUnsafe /\ PutSummary(w)
       \/ UNCHANGED rows
    /\ UNCHANGED history

\* The handler raises StaleLeaseError: its own check_lease, or publish finding
\* the document gone, changed, or the claim no longer current.
StageLeaseLost(w) ==
    /\ pc[w] = "handler"
    /\ renewFailed[w] \/ stage[w] = NumStages
    /\ Return(w)
    /\ UNCHANGED <<rows, history>>

\* Defect: publication trusts the claim the worker started with.
PublishRowUnfenced(w) ==
    /\ pc[w] = "handler"
    /\ stage[w] = NumStages
    /\ ~renewFailed[w]
    /\ status' = [status EXCEPT ![job[w]] = "done"]
    /\ token' = [token EXCEPT ![job[w]] = NoToken]
    /\ leaseLeft' = [leaseLeft EXCEPT ![job[w]] = 0]
    /\ publications' = [publications EXCEPT ![job[w]] = publications[job[w]] + 1]
    /\ UNCHANGED <<attempts, backoff, summary, claims>>

\* The row update of publish, whose WHERE clauses are checked under the lock.
PublishRow(w) ==
    /\ pc[w] = "handler"
    /\ stage[w] = NumStages
    /\ ~renewFailed[w]
    /\ Owns(w)
    /\ status' = [status EXCEPT ![job[w]] = "done"]
    /\ token' = [token EXCEPT ![job[w]] = NoToken]
    /\ leaseLeft' = [leaseLeft EXCEPT ![job[w]] = 0]
    /\ publications' = [publications EXCEPT ![job[w]] = publications[job[w]] + 1]
    /\ UNCHANGED <<attempts, backoff, summary, claims>>

Publish(w) ==
    /\ PublishRow(w)
    /\ Return(w)

\* publish commits but its reply is lost: the worker goes on to record a failure.
PublishReplyLost(w) ==
    /\ PublishRow(w)
    /\ Raise(w, FALSE)

(***************************************************************************)
(* _handle_job_failure.                                                    *)
(***************************************************************************)
\* Defect: off by one in the limit.
AttemptLimitPlusOne(w) == MaxAttempts + 1

AttemptLimit(w) == IF unsafe[w] THEN 1 ELSE MaxAttempts

\* Defect: the failure is recorded against the job, not against the claim.
RecordFailureUnfenced(w) ==
    LET j == job[w] IN
    /\ pc[w] = "fail"
    /\ status[j] = "running"
    /\ attempts' = [attempts EXCEPT ![j] = attempts[j] + 1]
    /\ status' = [status EXCEPT
            ![j] = IF attempts[j] + 1 < AttemptLimit(w) THEN "queued" ELSE "dead"]
    /\ token' = [token EXCEPT ![j] = NoToken]
    /\ leaseLeft' = [leaseLeft EXCEPT ![j] = 0]
    /\ Return(w)
    /\ UNCHANGED <<backoff, summary, history>>

\* retry_or_dead commits; whether its reply arrives makes no difference.
RecordFailure(w) ==
    LET j == job[w] IN
    /\ pc[w] = "fail"
    /\ Owns(w)
    /\ attempts' = [attempts EXCEPT ![j] = attempts[j] + 1]
    /\ status' = [status EXCEPT
            ![j] = IF attempts[j] + 1 < AttemptLimit(w) THEN "queued" ELSE "dead"]
    /\ token' = [token EXCEPT ![j] = NoToken]
    /\ leaseLeft' = [leaseLeft EXCEPT ![j] = 0]
    /\ backoff' = [backoff EXCEPT ![j] = RetryDelay(attempts[j] + 1)]
    /\ Return(w)
    /\ UNCHANGED <<summary, history>>

\* retry_or_dead raises, because the claim is stale or the store is down: the
\* row is left as it is, for the reaper if it still says running.
FailureNotRecorded(w) ==
    /\ pc[w] = "fail"
    /\ Return(w)
    /\ UNCHANGED <<rows, history>>

(***************************************************************************)
(* The environment.                                                        *)
(***************************************************************************)

\* The process dies, its renewal thread with it, and a new one starts.
Crash(w) ==
    /\ Busy(w)
    /\ Return(w)
    /\ UNCHANGED <<rows, history>>

Tick ==
    /\ \E j \in Jobs : leaseLeft[j] > 0 \/ backoff[j] > 0
    /\ leaseLeft' = [j \in Jobs |-> IF leaseLeft[j] > 0 THEN leaseLeft[j] - 1 ELSE 0]
    /\ backoff' = [j \in Jobs |-> IF backoff[j] > 0 THEN backoff[j] - 1 ELSE 0]
    /\ UNCHANGED <<status, attempts, token, summary, wvars, history>>

\* What the main thread of worker w does next.
WorkerStep(w) ==
    \/ \E taken \in SUBSET Jobs : Reap(w, taken)
    \/ \E j \in Jobs : Claim(w, j) \/ ClaimReplyLost(w, j)
    \/ ClaimNothing(w)
    \/ FirstRenewal(w) \/ FirstRenewalStale(w) \/ FirstRenewalError(w)
    \/ EnterStage(w) \/ StageStale(w) \/ BoundaryError(w)
    \/ StageDone(w) \/ StageLeaseLost(w)
    \/ \E isUnsafe \in BOOLEAN : StageError(w, isUnsafe)
    \/ Publish(w) \/ PublishReplyLost(w)
    \/ RecordFailure(w) \/ FailureNotRecorded(w)

Next ==
    \/ \E j \in Jobs : Submit(j) \/ Delete(j)
    \/ \E w \in Workers : WorkerStep(w) \/ Renew(w) \/ RenewFails(w) \/ Crash(w)
    \/ Tick

Spec == Init /\ [][Next]_vars

(***************************************************************************)
(* Fairness: time passes, a worker's main thread keeps moving (every call  *)
(* it makes has a timeout), and a reap or a claim that is possible again   *)
(* and again succeeds some time, the database being up often enough and    *)
(* row locks lasting no longer than a transaction.  Nothing is assumed of  *)
(* renewals, crashes, or of how stages and publications end.               *)
(***************************************************************************)
Fairness ==
    /\ WF_vars(Tick)
    /\ \A w \in Workers : WF_vars(WorkerStep(w))
    /\ \A j \in Jobs :
        /\ SF_vars(\E w \in Workers, taken \in SUBSET Jobs : j \in taken /\ Reap(w, taken))
        /\ SF_vars(\E w \in Workers : Claim(w, j))

FairSpec == Spec /\ Fairness

-------------------------------------------------------------------------------
(***************************************************************************)
(* Properties.                                                             *)
(***************************************************************************)
Live(j) == status[j] \notin {"absent", "deleted"}

(* Every claim of a job is either the one in force, the one that finished  *)
(* it, or paid for by exactly one attempt: a crash, a lost reply, a        *)
(* failure the store could not record and the reaper racing the worker     *)
(* neither lose an attempt nor charge one twice (retry_or_dead and         *)
(* reap_expired both increment it).                                        *)
ClaimAccounting ==
    \A j \in Jobs : Live(j) =>
        claims[j] = attempts[j] + (IF status[j] \in {"running", "done"} THEN 1 ELSE 0)

(* A job is claimed at most MaxAttempts times in all, whatever happens to  *)
(* its workers, so a document that kills every process that opens it stops *)
(* doing so.                                                               *)
RunsBounded == \A j \in Jobs : claims[j] <= MaxAttempts

(* The last stage commits at most once per job, exactly when the row says  *)
(* done, although two workers may be running the same job and a worker may *)
(* retry after a commit whose reply it lost.                               *)
SinglePublication ==
    \A j \in Jobs :
        /\ publications[j] <= 1
        /\ Live(j) => (publications[j] = 1 <=> status[j] = "done")

(* At most one worker holds the claim in force on a job; a worker that     *)
(* lost it is told apart by its token even after the job was reclaimed.    *)
HolderUnique ==
    \A v, w \in Workers : (v # w /\ Owns(v) /\ Owns(w)) => job[v] # job[w]

(* The lease columns say running and nothing else does: a token or lease   *)
(* left behind would let a late worker back in, a missing one would hide   *)
(* the row from the reaper and from its holder.                            *)
LeaseMatchesStatus ==
    \A j \in Jobs :
        /\ token[j] # NoToken <=> status[j] = "running"
        /\ leaseLeft[j] > 0 => status[j] = "running"

(* A step of worker w, taken under a claim that is no longer in force.     *)
StaleStepOf(w) == Busy(w) /\ ~Owns(w) /\ <<pc[w], stage[w]>>' # <<pc[w], stage[w]>>

(* A step of a worker that holds a claim no longer in force, at whatever   *)
(* stage and with whatever exception, leaves alone every column the queue  *)
(* goes by: status, attempts, lease_token, lease_expires_at, available_at, *)
(* of every job.  What it can still change is route_summary, of the job it *)
(* had, at the end of the PARSE stage (set_route_summary has no fence).    *)
StaleWorkerHarmless ==
    [][\A w \in Workers : StaleStepOf(w) =>
        /\ UNCHANGED columns
        /\ UNCHANGED summary
           \/ /\ pc[w] = "handler" /\ stage[w] = 1
              /\ summary' = [summary EXCEPT ![job[w]] = tok[w]]]_vars

(* done and dead are final: nothing but deletion changes the status of     *)
(* such a row, late workers and the reaper included.                       *)
SettledForever ==
    [][\A j \in Jobs : status[j] \in Settled => status'[j] \in {status[j], "deleted"}]_vars

(* Every submitted job is some day done, dead or deleted: no crash, lost   *)
(* reply or unrecorded failure leaves a row queued or running for ever     *)
(* ("a crash mid-job just leaves the row claimable/retryable").            *)
JobsSettle ==
    \A j \in Jobs : status[j] \in {"queued", "running"} ~> status[j] \in Settled

JL == INSTANCE JobLifecycle WITH status <- status, attempts <- attempts

(* The queue with its workers, leases and failures implements the life of  *)
(* a job that JobLifecycle promises, its liveness included.                *)
ImplementsJobLifecycle == JL!Spec

===============================================================================
