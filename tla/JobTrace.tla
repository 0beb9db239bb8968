------------------------------- MODULE JobTrace --------------------------------
(***************************************************************************)
(* The trace of a job: what its runs write into job_events                 *)
(* (_run_claimed_job and _record_event in app/ingest/pipeline/runner.py),  *)
(* and what get_job_trace (app/api/ingest_routes.py) makes of it.          *)
(*                                                                         *)
(* A lease may be lost at any time, and its worker find out only at the    *)
(* next check: so two workers write into the trace of one job.  Leases     *)
(* themselves, and what a run does, are in JobQueue and DocumentStore.     *)
(***************************************************************************)
EXTENDS Integers, FiniteSets

CONSTANTS
    Workers,
    Stages,      \* how many stages a run has, the last of which publishes
    MaxAttempts,
    NoWorker

ASSUME JobTraceAssumption ==
    /\ Stages \in Nat \ {0}
    /\ MaxAttempts \in Nat \ {0}
    /\ NoWorker \notin Workers

VARIABLES
    row,      \* the job's row in ingestion_jobs
    holder,   \* the worker whose lease token it has
    trail,    \* its rows in job_events
    worker,   \* what each worker is doing
    kept,     \* whether the document is there
    watcher   \* what a reader of a trace knows, and is told

traceVars == <<row, holder, trail, worker, kept, watcher>>

AtRest == [at |-> "rest"]

TraceInit ==
    /\ row = [status |-> "queued", attempts |-> 0, stage |-> 0]
    /\ holder = NoWorker
    /\ trail = {}
    /\ worker = [w \in Workers |-> AtRest]
    /\ kept = TRUE
    /\ watcher = [at |-> "none"]

Becomes(w, state) == worker' = [worker EXCEPT ![w] = state]

\* claim_next, and the reads before the first stage.
ClaimRun(w) ==
    /\ worker[w] = AtRest
    /\ row.status = "queued"
    /\ row' = [row EXCEPT !.status = "running"]
    /\ holder' = w
    /\ Becomes(w, [at |-> "next", attempt |-> row.attempts, stage |-> 0])
    /\ UNCHANGED <<trail, kept, watcher>>

\* check_lease, set_stage: a worker that lost its lease stops here, without an event.
EnterStage(w) ==
    /\ worker[w].at = "next"
    /\ IF holder = w
       THEN /\ row' = [row EXCEPT !.stage = worker[w].stage + 1]
            /\ Becomes(w, [worker[w] EXCEPT !.at = "stage", !.stage = @ + 1])
       ELSE Becomes(w, AtRest) /\ UNCHANGED row
    /\ UNCHANGED <<holder, trail, kept, watcher>>

\* check_lease or set_stage raises something else, its write made or not: there is no
\* event of a stage that was not entered.
StageNotEntered(w) ==
    /\ worker[w].at = "next"
    /\ Becomes(w, [worker[w] EXCEPT !.at = "failing"])
    /\ \/ UNCHANGED row
       \/ holder = w /\ row' = [row EXCEPT !.stage = worker[w].stage + 1]
    /\ UNCHANGED <<holder, trail, kept, watcher>>

\* The transaction of publish, in the last stage, which asks for the lease.
Published(w) ==
    /\ worker[w].stage = Stages
    /\ holder = w
    /\ row' = [row EXCEPT !.status = "done"]
    /\ holder' = NoWorker

\* A handler that returns: the last one published, and the job is done with that.
StageDone(w) ==
    /\ worker[w].at = "stage"
    /\ Becomes(w, [worker[w] EXCEPT !.at = "ok"])
    /\ \/ Published(w)
       \/ worker[w].stage # Stages /\ UNCHANGED <<row, holder>>
    /\ UNCHANGED <<trail, kept, watcher>>

\* publish commits, but its reply is lost: to its worker the stage failed.
PublishReplyLost(w) ==
    /\ worker[w].at = "stage"
    /\ Becomes(w, [worker[w] EXCEPT !.at = "error"])
    /\ Published(w)
    /\ UNCHANGED <<trail, kept, watcher>>

\* One that raises, for a lost lease among other reasons.
StageRaises(w) ==
    /\ worker[w].at = "stage"
    /\ Becomes(w, [worker[w] EXCEPT !.at = "error"])
    /\ UNCHANGED <<row, holder, trail, kept, watcher>>

\* _record_event: it may fail, and nothing comes of that.
RecordEvent(w) ==
    /\ worker[w].at \in {"ok", "error"}
    /\ trail' \in {trail, trail \cup {[attempt |-> worker[w].attempt, seq |-> worker[w].stage,
                                       status |-> worker[w].at]}}
    /\ Becomes(w, IF worker[w].at = "error" THEN [worker[w] EXCEPT !.at = "failing"]
                  ELSE IF worker[w].stage = Stages THEN AtRest
                  ELSE [worker[w] EXCEPT !.at = "next"])
    /\ UNCHANGED <<row, holder, kept, watcher>>

\* Defect: attempts counted before the one that ends is added.
NextAttemptLate ==
    /\ row' = [row EXCEPT !.attempts = @ + 1,
                          !.status = IF row.attempts + 1 <= MaxAttempts THEN "queued" ELSE "dead"]
    /\ holder' = NoWorker

\* The next attempt, or none.
NextAttempt ==
    /\ row' = [row EXCEPT !.attempts = @ + 1,
                          !.status = IF row.attempts + 1 < MaxAttempts THEN "queued" ELSE "dead"]
    /\ holder' = NoWorker

\* _handle_job_failure: of a stale worker nothing is heard.
FailJob(w) ==
    /\ worker[w].at = "failing"
    /\ IF holder = w THEN NextAttempt ELSE UNCHANGED <<row, holder>>
    /\ Becomes(w, AtRest)
    /\ UNCHANGED <<trail, kept, watcher>>

\* A worker dies, between any two steps; its job stays with it until it is reaped.
WorkerDies(w) ==
    /\ worker[w] # AtRest
    /\ Becomes(w, AtRest)
    /\ UNCHANGED <<row, holder, trail, kept, watcher>>

\* reap_expired, whatever the worker is doing.
ReapLease ==
    /\ row.status = "running"
    /\ NextAttempt
    /\ UNCHANGED <<trail, worker, kept, watcher>>

\* delete_document: the job and its events go; events written afterwards stay for good.
DeleteTraced ==
    /\ kept /\ kept' = FALSE
    /\ row' = [row EXCEPT !.status = "deleted"]
    /\ holder' = NoWorker
    /\ trail' = {}
    /\ UNCHANGED <<worker, watcher>>

\* get_job_trace: the job ...
OpenTrace ==
    /\ watcher.at = "none"
    /\ row.status # "deleted"
    /\ watcher' = [at |-> "job", row |-> row]
    /\ UNCHANGED <<row, holder, trail, worker, kept>>

\* ... its document, or 404 ...
TraceDocument ==
    /\ watcher.at = "job"
    /\ watcher' = IF kept THEN [watcher EXCEPT !.at = "document"] ELSE [at |-> "refused"]
    /\ UNCHANGED <<row, holder, trail, worker, kept>>

\* ... and its events, which are told by attempt and seq.
TraceEvents ==
    /\ watcher.at = "document"
    /\ watcher' = [at |-> "trace", row |-> watcher.row, events |-> trail]
    /\ UNCHANGED <<row, holder, trail, worker, kept>>

TraceNext ==
    \/ \E w \in Workers :
         \/ ClaimRun(w) \/ EnterStage(w) \/ StageNotEntered(w)
         \/ StageDone(w) \/ PublishReplyLost(w) \/ StageRaises(w)
         \/ RecordEvent(w) \/ FailJob(w) \/ WorkerDies(w)
    \/ ReapLease \/ DeleteTraced
    \/ OpenTrace \/ TraceDocument \/ TraceEvents

(***************************************************************************)
(* Properties                                                              *)
(***************************************************************************)
\* Type invariant.
TraceTypeOK ==
    /\ row.status \in {"queued", "running", "done", "dead", "deleted"}
    /\ row.attempts \in 0..MaxAttempts /\ row.stage \in 0..Stages
    /\ \A e \in trail : e.seq \in 1..Stages /\ e.status \in {"ok", "error"}
    /\ \A w \in Workers : worker[w].at \in {"rest", "next", "stage", "ok", "error", "failing"}

\* A trace tells one story for each attempt, whichever worker wrote it and when:
\* its stages in their order, each once, nothing after an error; and in the attempt of
\* a job that was read as done no error, save that of a publication whose reply was lost.
TraceTruthful ==
    watcher.at = "trace" =>
        /\ \A e, f \in watcher.events :
             e # f /\ e.attempt = f.attempt => e.seq # f.seq /\ (e.seq < f.seq => e.status = "ok")
        /\ watcher.row.status = "done" =>
             \A e \in watcher.events :
                 e.attempt = watcher.row.attempts => e.status = "ok" \/ e.seq = Stages

================================================================================
