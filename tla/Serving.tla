-------------------------------- MODULE Serving -------------------------------
(***************************************************************************)
(* A request from its admission to the release of its slot:                *)
(*   app/api/admission.py               the slot, its renewal, the release *)
(*   app/shared/execution.py            the budget and its cancellation    *)
(*   app/shared/adapters/postgres/db.py transactions                       *)
(*   app/shared/gateway/client.py       calls with retries                 *)
(*   app/shared/workspace_runtime.py    the models of its workspace        *)
(*   app/api/retrieval_routes.py        the handlers                       *)
(*                                                                         *)
(* A handler makes calls one after the other: transactions, gateway calls, *)
(* model runs.  Threads interleave between any two steps of a call.  A     *)
(* request under a budget stops at the checks in front of and inside its   *)
(* calls; the others run as long as they take.  The renewal of a slot is a *)
(* task beside the handler, and what it sends may reach Redis late.        *)
(***************************************************************************)
EXTENDS RequestGate, ConnectionPool, WorkspaceRuntime, FiniteSetsExt

CONSTANTS
    Deadline,       \* request_timeout_seconds (90, at most 110), in ticks
    Grace,          \* how long a call may outlast its budget: socket timeouts, backoff
    MaxRetries      \* LiteLLMClient.max_retries (3)

\* The settings keep the deadline, and what a call may add to it, below the lease.
ASSUME ServingAssumption ==
    /\ Threads = Requests
    /\ Deadline \in Nat \ {0} /\ Grace \in Nat
    /\ Deadline + Grace < Lease
    /\ MaxRetries \in Nat \ {0}

VARIABLES
    phase,          \* phase[r]: where request r is
    then,           \* then[r]: what its transaction is for
    ok,             \* ok[r]: its transaction has met no exception so far
    left,           \* left[r]: time until its deadline, plus Grace
    renewer,        \* renewer[r]: the renewal task is alive
    inflight,       \* inflight[r]: a renewal is on its way to Redis
    target,         \* target[r]: the connection its monitor thread would cancel, or NoConn
    tries           \* tries[r]: attempts of its gateway call

reqVars == <<phase, then, ok, left, renewer, inflight, target, tries>>
vars == <<gateVars, poolVars, runtimeVars, reqVars>>

Over == {"absent", "leave", "done"}
Running(r) == phase[r] \notin Over
HoldsSlot == {"connect", "query", "join", "return", "free"}
HoldsConn == {"query", "join", "return"}

\* ExecutionBudget.check raises: the deadline passed, or the renewal cancelled the budget.
Exhausted(r) == r \in Scoped /\ left[r] <= Grace

Init ==
    /\ GateInit /\ PoolInit /\ RuntimeInit
    /\ phase = [r \in Requests |-> "absent"]
    /\ then = [r \in Requests |-> "work"]
    /\ ok = [r \in Requests |-> TRUE]
    /\ left = [r \in Requests |-> Deadline + Grace]
    /\ renewer = [r \in Requests |-> FALSE]
    /\ inflight = [r \in Requests |-> FALSE]
    /\ target = [r \in Requests |-> NoConn]
    /\ tries = [r \in Requests |-> 0]

Goto(r, p) == phase' = [phase EXCEPT ![r] = p]

\* An exception leaves the handler, or a caller in it takes it for a missing result.
Fails(r) ==
    \/ Goto(r, "leave")
    \/ then[r] # "workspace" /\ Goto(r, "work")

-------------------------------------------------------------------------------
(* Admission. *)

\* The budget starts, the renewal task starts; the handler asks for its workspace first.
Admit(r) ==
    /\ phase[r] = "absent" /\ r \in Admitted
    /\ Acquire(r)
    /\ Goto(r, IF r \in Scoped THEN "slot" ELSE "work")
    /\ then' = [then EXCEPT ![r] = IF r \in Scoped THEN "workspace" ELSE "work"]
    /\ renewer' = [renewer EXCEPT ![r] = TRUE]
    /\ UNCHANGED <<poolVars, runtimeVars, ok, left, inflight, target, tries>>

\* A route without admission: no slot, no budget.
Enter(r) ==
    /\ phase[r] = "absent" /\ r \notin Admitted
    /\ Goto(r, "work")
    /\ UNCHANGED <<gateVars, poolVars, runtimeVars, then, ok, left, renewer, inflight, target, tries>>

\* 503: the script ran, its reply did not come; the token is nobody's.
AdmissionReplyLost(r) ==
    /\ phase[r] = "absent" /\ r \in Admitted
    /\ Acquire(r)
    /\ Goto(r, "done")
    /\ UNCHANGED <<poolVars, runtimeVars, then, ok, left, renewer, inflight, target, tries>>

\* 429, or 503 before the script ran.
Refuse(r) ==
    /\ phase[r] = "absent" /\ r \in Admitted
    /\ Goto(r, "done")
    /\ UNCHANGED <<gateVars, poolVars, runtimeVars, then, ok, left, renewer, inflight, target, tries>>

\* Another request takes the place of one that left no trace.
NewRequest(r) ==
    /\ phase[r] = "done"
    /\ slotLeft[r] = 0 /\ rateLeft[r] = 0 /\ ~inflight[r]
    /\ Goto(r, "absent")
    /\ UNCHANGED <<gateVars, poolVars, runtimeVars, then, ok, left, renewer, inflight, target, tries>>

\* The renewal task ends and cancels the budget.
StopRenewing(r) ==
    /\ renewer' = [renewer EXCEPT ![r] = FALSE]
    /\ left' = [left EXCEPT ![r] = Min({@, Grace})]

SendRenewal(r) ==
    /\ renewer[r] /\ ~inflight[r]
    /\ inflight' = [inflight EXCEPT ![r] = TRUE]
    /\ UNCHANGED <<gateVars, poolVars, runtimeVars, phase, then, ok, left, renewer, target, tries>>

\* The script runs, perhaps after its sender has gone; an expired slot is an error.
RenewalArrives(r) ==
    /\ inflight[r]
    /\ Renew(r)
    /\ inflight' = [inflight EXCEPT ![r] = FALSE]
    /\ IF renewer[r] /\ slotLeft[r] = 0 THEN StopRenewing(r) ELSE UNCHANGED <<renewer, left>>
    /\ UNCHANGED <<poolVars, runtimeVars, phase, then, ok, target, tries>>

\* Redis times out; the script may still arrive, or never will.
RenewalFails(r) ==
    /\ renewer[r] /\ inflight[r]
    /\ StopRenewing(r)
    /\ \E late \in BOOLEAN : inflight' = [inflight EXCEPT ![r] = late]
    /\ UNCHANGED <<gateVars, poolVars, runtimeVars, phase, then, ok, target, tries>>

\* The finally of admit_request: the task is cancelled, what it sent is not called back.
Leave(r) ==
    /\ phase[r] = "leave"
    /\ renewer' = [renewer EXCEPT ![r] = FALSE]
    /\ \/ Release(r)
       \/ UNCHANGED gateVars     \* failed; the lease will expire
    /\ left' = [left EXCEPT ![r] = Deadline + Grace]
    /\ Goto(r, "done")
    /\ UNCHANGED <<poolVars, runtimeVars, then, ok, inflight, target, tries>>

-------------------------------------------------------------------------------
(* The handler. *)

\* for_tenant: the root models, or those of a selection, which prepare submits.
ChooseRuntime(r) ==
    /\ phase[r] = "runtime" /\ then[r] = "workspace"
    /\ \/ Goto(r, "work") /\ then' = [then EXCEPT ![r] = "work"] /\ UNCHANGED runtimeVars
       \/ \E s \in Selections :
            /\ Prepare(s)
            /\ then' = [then EXCEPT ![r] = s]
            /\ UNCHANGED phase
    /\ UNCHANGED <<gateVars, poolVars, ok, left, renewer, inflight, target, tries>>

\* A request never waits for a build: 503 until it is ready.
UseRuntime(r) ==
    /\ phase[r] = "runtime" /\ then[r] \in Selections
    /\ Goto(r, IF future[then[r]] = "ready" THEN "work" ELSE "leave")
    /\ then' = [then EXCEPT ![r] = "work"]
    /\ UNCHANGED <<gateVars, poolVars, runtimeVars, ok, left, renewer, inflight, target, tries>>

\* The next call of the handler; a gateway call reads its configuration first.
NextCall(r) ==
    /\ phase[r] = "work"
    /\ \/ \E t \in IF r \in Scoped THEN {"work", "gateway"} ELSE {"work"} :
            Goto(r, "slot") /\ then' = [then EXCEPT ![r] = t]
       \/ /\ r \in Scoped
          /\ IF Exhausted(r) THEN Fails(r) ELSE Goto(r, "native")
          /\ UNCHANGED then
    /\ UNCHANGED <<gateVars, poolVars, runtimeVars, ok, left, renewer, inflight, target, tries>>

\* The response, or an error of the handler's own.
Finish(r) ==
    /\ phase[r] = "work"
    /\ Goto(r, "leave")
    /\ UNCHANGED <<gateVars, poolVars, runtimeVars, then, ok, left, renewer, inflight, target, tries>>

\* run_onnx: its monitor terminates the run when the budget is exhausted.
NativeEnds(r) ==
    /\ phase[r] = "native"
    /\ \/ Goto(r, "work") /\ ~Exhausted(r)
       \/ Fails(r)
    /\ UNCHANGED <<gateVars, poolVars, runtimeVars, then, ok, left, renewer, inflight, target, tries>>

\* Defect: one retry too many.
GatewayAttemptOnceMore(r) ==
    /\ phase[r] = "gateway"
    /\ \/ /\ (~Exhausted(r) /\ Goto(r, "work")) \/ Fails(r)
          /\ tries' = [tries EXCEPT ![r] = 0]
       \/ /\ ~Exhausted(r)
          /\ tries[r] < MaxRetries
          /\ tries' = [tries EXCEPT ![r] = @ + 1]
          /\ UNCHANGED phase
    /\ UNCHANGED <<gateVars, poolVars, runtimeVars, then, ok, left, renewer, inflight, target>>

\* One attempt of _post: an answer in time, an error that is not retried, or another attempt.
GatewayAttempt(r) ==
    /\ phase[r] = "gateway"
    /\ \/ /\ (~Exhausted(r) /\ Goto(r, "work")) \/ Fails(r)
          /\ tries' = [tries EXCEPT ![r] = 0]
       \/ /\ ~Exhausted(r)
          /\ tries[r] + 1 < MaxRetries
          /\ tries' = [tries EXCEPT ![r] = @ + 1]
          /\ UNCHANGED phase
    /\ UNCHANGED <<gateVars, poolVars, runtimeVars, then, ok, left, renewer, inflight, target>>

-------------------------------------------------------------------------------
(* A transaction: getconn, the statements under a monitor thread, putconn. *)

\* Defect: the semaphore is awaited without a timeout.
AwaitSlotPatiently(r) ==
    /\ phase[r] = "slot"
    /\ TakeSlot
    /\ Goto(r, "connect")
    /\ UNCHANGED <<gateVars, runtimeVars, then, ok, left, renewer, inflight, target, tries>>

\* check_execution, then the semaphore; three seconds at most, and no longer than the budget.
AwaitSlot(r) ==
    /\ phase[r] = "slot"
    /\ \/ ~Exhausted(r) /\ TakeSlot /\ Goto(r, "connect") /\ UNCHANGED then
       \/ /\ Exhausted(r) \/ slots = 0
          /\ Fails(r)
          /\ then' = [then EXCEPT ![r] = "work"]
          /\ UNCHANGED poolVars
    /\ UNCHANGED <<gateVars, runtimeVars, ok, left, renewer, inflight, target, tries>>

\* The inner pool raises: it is exhausted or the server does not answer.
ConnectFails(r) ==
    /\ phase[r] = "connect"
    /\ FreeSlot
    /\ Fails(r)
    /\ then' = [then EXCEPT ![r] = "work"]
    /\ UNCHANGED <<gateVars, runtimeVars, ok, left, renewer, inflight, target, tries>>

\* A connection whose timeouts are set, and the monitor thread of a request with a budget;
\* or the set-up fails or finds the budget exhausted.
Connect(r) ==
    /\ phase[r] = "connect"
    /\ \E c \in Conns :
        /\ GetConn(r, c)
        /\ \/ /\ ~Exhausted(r)
              /\ Goto(r, "query")
              /\ target' = [target EXCEPT ![r] = IF r \in Scoped THEN c ELSE NoConn]
              /\ UNCHANGED ok
           \/ /\ Goto(r, "return")
              /\ ok' = [ok EXCEPT ![r] = FALSE]
              /\ UNCHANGED target
    /\ UNCHANGED <<gateVars, runtimeVars, then, left, renewer, inflight, tries>>

\* The statements end, with a result or an error; the monitor is told to stop.
QueryEnds(r) ==
    /\ phase[r] = "query"
    /\ \E result \in BOOLEAN : ok' = [ok EXCEPT ![r] = result]
    /\ Goto(r, "join")
    /\ UNCHANGED <<gateVars, poolVars, runtimeVars, then, left, renewer, inflight, target, tries>>

\* The monitor found the budget exhausted and cancels what its connection is at; it may
\* have looked before it was told to stop.
MonitorCancels(r) ==
    /\ target[r] # NoConn
    /\ Exhausted(r)
    /\ target' = [target EXCEPT ![r] = NoConn]
    /\ IF phase[r] = "query"
         THEN Goto(r, "join") /\ ok' = [ok EXCEPT ![r] = FALSE]
         ELSE UNCHANGED <<phase, ok>>
    /\ UNCHANGED <<gateVars, poolVars, runtimeVars, then, left, renewer, inflight, tries>>

MonitorStops(r) ==
    /\ target[r] # NoConn
    /\ phase[r] # "query"
    /\ target' = [target EXCEPT ![r] = NoConn]
    /\ UNCHANGED <<gateVars, poolVars, runtimeVars, phase, then, ok, left, renewer, inflight, tries>>

\* Defect: the transaction ends without waiting for the monitor thread.
EndTransactionWithoutJoin(r) ==
    /\ phase[r] = "join"
    /\ ok' = [ok EXCEPT ![r] = @ /\ ~Exhausted(r)]
    /\ Goto(r, "return")
    /\ UNCHANGED <<gateVars, poolVars, runtimeVars, then, left, renewer, inflight, target, tries>>

\* watcher.join, the last checks, then commit or rollback.
EndTransaction(r) ==
    /\ phase[r] = "join"
    /\ target[r] = NoConn
    /\ \/ ok' = [ok EXCEPT ![r] = @ /\ ~Exhausted(r)]
       \/ ok' = [ok EXCEPT ![r] = FALSE]     \* the commit fails
    /\ Goto(r, "return")
    /\ UNCHANGED <<gateVars, poolVars, runtimeVars, then, left, renewer, inflight, target, tries>>

\* putconn: first the connection; one that broke is not kept.
ReturnConn(r) ==
    /\ phase[r] = "return"
    /\ \E keep \in BOOLEAN : (ok[r] => keep) /\ PutConn(r, keep)
    /\ Goto(r, "free")
    /\ UNCHANGED <<gateVars, runtimeVars, then, ok, left, renewer, inflight, target, tries>>

\* What the transaction was for, when it was committed.
Continue(r) ==
    /\ IF ok[r] THEN Goto(r, CASE then[r] = "workspace" -> "runtime"
                               [] then[r] = "gateway" -> "gateway"
                               [] OTHER -> "work")
                ELSE Fails(r)
    /\ then' = [then EXCEPT ![r] = IF ok[r] /\ @ = "workspace" THEN @ ELSE "work"]
    /\ ok' = [ok EXCEPT ![r] = TRUE]

\* Defect: the slot is not returned when the transaction failed.
ReturnSlotOnSuccess(r) ==
    /\ phase[r] = "free"
    /\ IF ok[r] THEN FreeSlot ELSE UNCHANGED poolVars
    /\ Continue(r)
    /\ UNCHANGED <<gateVars, runtimeVars, left, renewer, inflight, target, tries>>

\* then the slot, whatever putconn did.
ReturnSlot(r) ==
    /\ phase[r] = "free"
    /\ FreeSlot
    /\ Continue(r)
    /\ UNCHANGED <<gateVars, runtimeVars, left, renewer, inflight, target, tries>>

-------------------------------------------------------------------------------
\* A call ends within Grace after the budget of its request: every call has a timeout, or
\* a monitor, that follows the budget.
Tick ==
    /\ \A r \in Scoped : Running(r) => left[r] > 0
    /\ GateTick
    /\ left' = [r \in Requests |-> IF r \in Scoped /\ Running(r) THEN left[r] - 1 ELSE left[r]]
    /\ UNCHANGED <<poolVars, runtimeVars, phase, then, ok, renewer, inflight, target, tries>>

Load(s) ==
    /\ StartBuild(s) \/ FinishBuild(s)
    /\ UNCHANGED <<gateVars, poolVars, reqVars>>

TransactionStep(r) ==
    \/ AwaitSlot(r) \/ Connect(r) \/ ConnectFails(r)
    \/ QueryEnds(r) \/ EndTransaction(r) \/ ReturnConn(r) \/ ReturnSlot(r)

HandlerStep(r) ==
    \/ ChooseRuntime(r) \/ UseRuntime(r) \/ NextCall(r)
    \/ NativeEnds(r) \/ GatewayAttempt(r)
    \/ TransactionStep(r)

Next ==
    \/ \E r \in Requests :
        \/ Admit(r) \/ AdmissionReplyLost(r) \/ Refuse(r) \/ Enter(r) \/ NewRequest(r)
        \/ SendRenewal(r) \/ RenewalArrives(r) \/ RenewalFails(r)
        \/ Leave(r) \/ Finish(r) \/ HandlerStep(r)
        \/ MonitorCancels(r) \/ MonitorStops(r)
    \/ \E s \in Selections : Load(s)
    \/ Tick

Spec == Init /\ [][Next]_vars

\* Threads run, the monitor polls, a handler makes finitely many calls, builds end.
Fairness ==
    /\ \A r \in Requests :
        /\ WF_vars(HandlerStep(r))
        /\ SF_vars(Finish(r))
        /\ WF_vars(MonitorCancels(r) \/ MonitorStops(r))
        /\ WF_vars(Leave(r))
    /\ WF_vars(\E s \in Selections : Load(s))
    /\ WF_vars(Tick)

FairSpec == Spec /\ Fairness

-------------------------------------------------------------------------------
TypeOK ==
    /\ slotLeft \in [Requests -> 0..Lease]
    /\ rateLeft \in [Requests -> 0..Window]
    /\ slots \in 0..MaxConn
    /\ idle \in SUBSET Conns
    /\ held \in [Requests -> Conns \cup {NoConn}]
    /\ future \in [Selections -> {"none", "pending", "ready", "failed"}]
    /\ builds \in [Selections -> Nat]
    /\ loading \in SUBSET Selections
    /\ phase \in [Requests -> Over \cup HoldsSlot \cup {"slot", "runtime", "work", "native", "gateway"}]
    /\ then \in [Requests -> {"workspace", "work", "gateway"} \cup Selections]
    /\ ok \in [Requests -> BOOLEAN]
    /\ left \in [Requests -> 0..(Deadline + Grace)]
    /\ renewer \in [Requests -> BOOLEAN]
    /\ inflight \in [Requests -> BOOLEAN]
    /\ target \in [Requests -> Conns \cup {NoConn}]
    /\ tries \in [Requests -> 0..(MaxRetries - 1)]

\* The semaphore counts the threads between getconn and putconn, on every error path, and
\* a thread that has a slot always gets a connection: the inner pool is never exhausted
\* for it.  (db.py 41-72)
SlotsConserved ==
    /\ slots + Cardinality({r \in Requests : phase[r] \in HoldsSlot}) = MaxConn
    /\ \A r \in Requests : phase[r] = "connect" => Cardinality(InUse) < MaxConn
    /\ \A r \in Requests : (phase[r] \in HoldsConn) = (held[r] # NoConn)

\* A monitor thread cancels the statements of its own request and of no other: as long as
\* it may do so, its request has the connection.  (execution.py 91-118, db.py 88-103)
CancelsOwnCall ==
    \A r \in Requests : target[r] # NoConn =>
        /\ held[r] = target[r]
        /\ \A q \in Requests \ {r} : held[q] # target[r]
        /\ target[r] \notin idle

\* Queries and answers that run are within the limits, whatever happens to their renewals:
\* none outlives its slot.  (request_gate.py 13-31, admission.py 36-53)
RunningWithinLimits ==
    LET running == {r \in Scoped : Running(r)}
    IN  /\ Cardinality(running) <= GlobalLimit
        /\ \A r \in running : /\ Cardinality(running \cap OfTenant(r)) <= TenantLimit
                              /\ Cardinality(running \cap OfUser(r)) <= UserLimit

\* A slot that was released or expired comes back by an admission only: a renewal that
\* reaches Redis late does not revive it.  (request_gate.py 33-44)
SlotsByAdmission ==
    [][\A r \in Requests : slotLeft[r] = 0 /\ slotLeft'[r] > 0 => phase[r] = "absent"]_vars

\* However many requests want the models of a workspace, one build of them is under way at
\* most, and none once they are there.  (workspace_runtime.py 35-41)
OneBuild ==
    \A s \in Selections : builds[s] <= 1 /\ (future[s] = "ready" => builds[s] = 0)

\* Every admitted request ends and its slot is free again: no wait for a connection, a
\* monitor or a gateway lasts for ever, and no slot outlives its lease.
RequestsEnd ==
    \A r \in Requests : /\ Running(r) ~> ~Running(r)
                        /\ slotLeft[r] > 0 ~> slotLeft[r] = 0

===============================================================================
