---------------------------- MODULE JobQueue_proofs ----------------------------
(***************************************************************************)
(* Proofs about JobQueue, for any number of jobs and workers, any lease,   *)
(* any number of attempts and stages.                                      *)
(*                                                                         *)
(* The argument.  Tokens of a job are numbered by its claims, so the token *)
(* in force on a running row is the number of claims so far and every      *)
(* worker holds a smaller or equal one, no two of them the same (TokenInv).*)
(* Hence a write that names a token reaches the row for one worker at      *)
(* most, and each claim is closed once: by the publication that makes the  *)
(* row done, or by the one attempt it is charged (AccountInv).             *)
(***************************************************************************)
EXTENDS JobQueue, TLAPS

(* What the rows' counters add up to. *)
RowAccount(j) ==
    /\ Live(j) =>
        claims[j] = attempts[j] + (IF status[j] \in {"running", "done"} THEN 1 ELSE 0)
    /\ status[j] \in {"queued", "running", "done"} => attempts[j] < MaxAttempts
    /\ status[j] = "absent" => claims[j] = 0 /\ attempts[j] = 0 /\ publications[j] = 0
    /\ claims[j] <= MaxAttempts
    /\ publications[j] <= 1
    /\ Live(j) => (publications[j] = 1 <=> status[j] = "done")

AccountInv == \A j \in Jobs : RowAccount(j)

(* Which tokens exist. *)
RowToken(j) ==
    /\ token[j] # NoToken <=> status[j] = "running"
    /\ leaseLeft[j] > 0 => status[j] = "running"
    /\ status[j] = "running" => token[j] = claims[j]

HeldToken(w) ==
    /\ Busy(w) => job[w] \in Jobs /\ tok[w] > 0 /\ tok[w] <= claims[job[w]]
    /\ ~Busy(w) => job[w] = NoJob

RowTokens == \A j \in Jobs : RowToken(j)

HeldTokens ==
    /\ \A w \in Workers : HeldToken(w)
    /\ \A v, w \in Workers :
        (v # w /\ Busy(v) /\ Busy(w) /\ job[v] = job[w]) => tok[v] # tok[w]

TokenInv == RowTokens /\ HeldTokens

IndInv == TypeOK /\ AccountInv /\ TokenInv

-------------------------------------------------------------------------------
(* A retry delay is a number of ticks. *)
LEMMA RetryDelayNat ==
  ASSUME NEW a \in Nat, a <= MaxAttempts
  PROVE  RetryDelay(a) \in Nat
  BY JobQueueAssumption DEF RetryDelay

(* Every step keeps the types: in particular attempts never pass the limit. *)
LEMMA TypeStep ==
  ASSUME IndInv, [Next]_vars
  PROVE  TypeOK'
  <1> USE JobQueueAssumption, RetryDelayNat DEF IndInv, TypeOK
  <1>1. ASSUME NEW j \in Jobs, Submit(j) PROVE TypeOK'
    BY <1>1 DEF Submit, wvars, history, AccountInv, RowAccount, Status, PC, NoJob, NoToken
  <1>2. ASSUME NEW j \in Jobs, Delete(j) PROVE TypeOK'
    BY <1>2 DEF Delete, wvars, history, AccountInv, RowAccount, Status, PC, NoJob, NoToken
  <1>3. ASSUME NEW w \in Workers, NEW taken \in SUBSET Jobs, Reap(w, taken) PROVE TypeOK'
    BY <1>3 DEF Reap, GoTo, Expired, history, AccountInv, RowAccount, Status, PC, NoJob, NoToken
  <1>4. ASSUME NEW w \in Workers, NEW j \in Jobs, Claim(w, j) PROVE TypeOK'
    BY <1>4 DEF Claim, TakeRow, ExtendLease, Claimable, Due, AccountInv, RowAccount, Status, PC, NoJob, NoToken
  <1>5. ASSUME NEW w \in Workers, NEW j \in Jobs, ClaimReplyLost(w, j) PROVE TypeOK'
    BY <1>5 DEF ClaimReplyLost, TakeRow, ExtendLease, Claimable, Due, Return, AccountInv, RowAccount, Status, PC, NoJob, NoToken
  <1>6. ASSUME NEW w \in Workers, ClaimNothing(w) PROVE TypeOK'
    BY <1>6 DEF ClaimNothing, Return, rows, history, AccountInv, RowAccount, Status, PC, NoJob, NoToken
  <1>7. ASSUME NEW w \in Workers, FirstRenewal(w) PROVE TypeOK'
    BY <1>7 DEF FirstRenewal, ExtendLease, Owns, history, AccountInv, RowAccount, Status, PC, NoJob, NoToken
  <1>8. ASSUME NEW w \in Workers, FirstRenewalStale(w) PROVE TypeOK'
    BY <1>8 DEF FirstRenewalStale, Return, rows, history, AccountInv, RowAccount, Status, PC, NoJob, NoToken
  <1>9. ASSUME NEW w \in Workers, FirstRenewalError(w) PROVE TypeOK'
    BY <1>9 DEF FirstRenewalError, ExtendLease, Owns, Raise, history, AccountInv, RowAccount, Status, PC, NoJob, NoToken
  <1>10. ASSUME NEW w \in Workers, EnterStage(w) PROVE TypeOK'
    BY <1>10 DEF EnterStage, GoTo, rows, history, AccountInv, RowAccount, Status, PC, NoJob, NoToken
  <1>11. ASSUME NEW w \in Workers, StageStale(w) PROVE TypeOK'
    BY <1>11 DEF StageStale, Return, rows, history, AccountInv, RowAccount, Status, PC, NoJob, NoToken
  <1>12. ASSUME NEW w \in Workers, BoundaryError(w) PROVE TypeOK'
    BY <1>12 DEF BoundaryError, Raise, rows, history, AccountInv, RowAccount, Status, PC, NoJob, NoToken
  <1>13. ASSUME NEW w \in Workers, StageDone(w) PROVE TypeOK'
    <2>1. summary' \in [Jobs -> Nat]
      BY <1>13 DEF StageDone, PutSummary
    <2> QED
      BY <1>13, <2>1 DEF StageDone, PutSummary, columns, history, AccountInv, RowAccount, Status, PC, NoJob, NoToken
  <1>14. ASSUME NEW w \in Workers, StageLeaseLost(w) PROVE TypeOK'
    BY <1>14 DEF StageLeaseLost, Return, rows, history, AccountInv, RowAccount, Status, PC, NoJob, NoToken
  <1>15. ASSUME NEW w \in Workers, NEW isUnsafe \in BOOLEAN, StageError(w, isUnsafe) PROVE TypeOK'
    <2>1. summary' \in [Jobs -> Nat]
      BY <1>15 DEF StageError, PutSummary, rows
    <2> QED
      BY <1>15, <2>1 DEF StageError, PutSummary, columns, Raise, rows, history, AccountInv, RowAccount, Status, PC, NoJob, NoToken
  <1>16. ASSUME NEW w \in Workers, Publish(w) PROVE TypeOK'
    BY <1>16 DEF Publish, PublishRow, Owns, Return, AccountInv, RowAccount, Status, PC, NoJob, NoToken
  <1>17. ASSUME NEW w \in Workers, PublishReplyLost(w) PROVE TypeOK'
    BY <1>17 DEF PublishReplyLost, PublishRow, Owns, Raise, AccountInv, RowAccount, Status, PC, NoJob, NoToken
  <1>18. ASSUME NEW w \in Workers, RecordFailure(w) PROVE TypeOK'
    BY <1>18 DEF RecordFailure, Owns, AttemptLimit, Return, history, AccountInv, RowAccount, Status, PC, NoJob, NoToken
  <1>19. ASSUME NEW w \in Workers, FailureNotRecorded(w) PROVE TypeOK'
    BY <1>19 DEF FailureNotRecorded, Return, rows, history, AccountInv, RowAccount, Status, PC, NoJob, NoToken
  <1>20. ASSUME NEW w \in Workers, Renew(w) PROVE TypeOK'
    BY <1>20 DEF Renew, RenewerAlive, Owns, ExtendLease, wvars, history, AccountInv, RowAccount, Status, PC, NoJob, NoToken
  <1>21. ASSUME NEW w \in Workers, RenewFails(w) PROVE TypeOK'
    BY <1>21 DEF RenewFails, RenewerAlive, Owns, ExtendLease, history, AccountInv, RowAccount, Status, PC, NoJob, NoToken
  <1>22. ASSUME NEW w \in Workers, Crash(w) PROVE TypeOK'
    BY <1>22 DEF Crash, Return, rows, history, AccountInv, RowAccount, Status, PC, NoJob, NoToken
  <1>23. ASSUME Tick PROVE TypeOK'
    BY <1>23 DEF Tick, wvars, history, AccountInv, RowAccount, Status, PC, NoJob, NoToken
  <1>24. CASE UNCHANGED vars
    BY <1>24 DEF vars, rows, wvars, history, AccountInv, RowAccount, Status, PC, NoJob, NoToken
  <1> QED
    BY <1>1, <1>2, <1>3, <1>4, <1>5, <1>6, <1>7, <1>8, <1>9, <1>10, <1>11, <1>12, <1>13, <1>14, <1>15, <1>16, <1>17, <1>18, <1>19, <1>20, <1>21, <1>22, <1>23, <1>24 DEF Next, WorkerStep

(* Every step keeps the account of every row.  A step that ends a claim    *)
(* finds the row running, so publications is still 0 and one claim is open. *)
LEMMA AccountStep ==
  ASSUME IndInv, [Next]_vars
  PROVE  AccountInv'
  <1> USE JobQueueAssumption DEF IndInv, TypeOK, AccountInv, RowAccount, Live
  <1>1. ASSUME NEW j \in Jobs, Submit(j) PROVE AccountInv'
    BY <1>1 DEF Submit, wvars, history
  <1>2. ASSUME NEW j \in Jobs, Delete(j) PROVE AccountInv'
    <2>1. RowAccount(j)'
      BY <1>2 DEF Delete, wvars, history
    <2>2. ASSUME NEW i \in Jobs, i # j PROVE RowAccount(i)'
      BY <1>2, <2>2 DEF Delete, wvars, history
    <2> QED
      BY <2>1, <2>2
  <1>3. ASSUME NEW w \in Workers, NEW taken \in SUBSET Jobs, Reap(w, taken) PROVE AccountInv'
    BY <1>3 DEF Reap, GoTo, Expired, history
  <1>4. ASSUME NEW w \in Workers, NEW j \in Jobs, Claim(w, j) PROVE AccountInv'
    BY <1>4 DEF Claim, TakeRow, ExtendLease, Claimable, Due
  <1>5. ASSUME NEW w \in Workers, NEW j \in Jobs, ClaimReplyLost(w, j) PROVE AccountInv'
    BY <1>5 DEF ClaimReplyLost, TakeRow, ExtendLease, Claimable, Due, Return
  <1>6. ASSUME NEW w \in Workers, ClaimNothing(w) PROVE AccountInv'
    BY <1>6 DEF ClaimNothing, Return, rows, history
  <1>7. ASSUME NEW w \in Workers, FirstRenewal(w) PROVE AccountInv'
    BY <1>7 DEF FirstRenewal, ExtendLease, Owns, history
  <1>8. ASSUME NEW w \in Workers, FirstRenewalStale(w) PROVE AccountInv'
    BY <1>8 DEF FirstRenewalStale, Return, rows, history
  <1>9. ASSUME NEW w \in Workers, FirstRenewalError(w) PROVE AccountInv'
    BY <1>9 DEF FirstRenewalError, ExtendLease, Owns, Raise, history
  <1>10. ASSUME NEW w \in Workers, EnterStage(w) PROVE AccountInv'
    BY <1>10 DEF EnterStage, GoTo, rows, history
  <1>11. ASSUME NEW w \in Workers, StageStale(w) PROVE AccountInv'
    BY <1>11 DEF StageStale, Return, rows, history
  <1>12. ASSUME NEW w \in Workers, BoundaryError(w) PROVE AccountInv'
    BY <1>12 DEF BoundaryError, Raise, rows, history
  <1>13. ASSUME NEW w \in Workers, StageDone(w) PROVE AccountInv'
    BY <1>13 DEF StageDone, PutSummary, columns, history
  <1>14. ASSUME NEW w \in Workers, StageLeaseLost(w) PROVE AccountInv'
    BY <1>14 DEF StageLeaseLost, Return, rows, history
  <1>15. ASSUME NEW w \in Workers, NEW isUnsafe \in BOOLEAN, StageError(w, isUnsafe) PROVE AccountInv'
    BY <1>15 DEF StageError, PutSummary, columns, Raise, rows, history
  <1>16. ASSUME NEW w \in Workers, Publish(w) PROVE AccountInv'
    <2>1. PICK j \in Jobs : j = job[w] /\ status[j] = "running" /\ publications[j] = 0
      BY <1>16 DEF Publish, PublishRow, Owns
    <2>2. RowAccount(j)'
      BY <1>16, <2>1 DEF Publish, PublishRow
    <2>3. ASSUME NEW i \in Jobs, i # j PROVE RowAccount(i)'
      BY <1>16, <2>3, <2>1 DEF Publish, PublishRow
    <2> QED
      BY <2>2, <2>3
  <1>17. ASSUME NEW w \in Workers, PublishReplyLost(w) PROVE AccountInv'
    <2>1. PICK j \in Jobs : j = job[w] /\ status[j] = "running" /\ publications[j] = 0
      BY <1>17, SMTT(30) DEF PublishReplyLost, PublishRow, Owns
    <2>2. RowAccount(j)'
      BY <1>17, <2>1 DEF PublishReplyLost, PublishRow
    <2>3. ASSUME NEW i \in Jobs, i # j PROVE RowAccount(i)'
      BY <1>17, <2>3, <2>1 DEF PublishReplyLost, PublishRow
    <2> QED
      BY <2>2, <2>3
  <1>18. ASSUME NEW w \in Workers, RecordFailure(w) PROVE AccountInv'
    BY <1>18 DEF RecordFailure, Owns, AttemptLimit, Return, history
  <1>19. ASSUME NEW w \in Workers, FailureNotRecorded(w) PROVE AccountInv'
    BY <1>19 DEF FailureNotRecorded, Return, rows, history
  <1>20. ASSUME NEW w \in Workers, Renew(w) PROVE AccountInv'
    BY <1>20 DEF Renew, RenewerAlive, Owns, ExtendLease, wvars, history
  <1>21. ASSUME NEW w \in Workers, RenewFails(w) PROVE AccountInv'
    BY <1>21 DEF RenewFails, RenewerAlive, Owns, ExtendLease, history
  <1>22. ASSUME NEW w \in Workers, Crash(w) PROVE AccountInv'
    BY <1>22 DEF Crash, Return, rows, history
  <1>23. ASSUME Tick PROVE AccountInv'
    BY <1>23 DEF Tick, wvars, history
  <1>24. CASE UNCHANGED vars
    BY <1>24 DEF vars, rows, wvars, history
  <1> QED
    BY <1>1, <1>2, <1>3, <1>4, <1>5, <1>6, <1>7, <1>8, <1>9, <1>10, <1>11, <1>12, <1>13, <1>14, <1>15, <1>16, <1>17, <1>18, <1>19, <1>20, <1>21, <1>22, <1>23, <1>24 DEF Next, WorkerStep

(* Every step keeps the lease columns in agreement with the status. *)
LEMMA RowTokenStep ==
  ASSUME IndInv, [Next]_vars
  PROVE  RowTokens'
  <1> USE JobQueueAssumption DEF IndInv, TypeOK, TokenInv, RowTokens, RowToken, NoToken
  <1>1. ASSUME NEW j \in Jobs, Submit(j) PROVE RowTokens'
    BY <1>1 DEF Submit, wvars, history
  <1>2. ASSUME NEW j \in Jobs, Delete(j) PROVE RowTokens'
    BY <1>2 DEF Delete, wvars, history
  <1>3. ASSUME NEW w \in Workers, NEW taken \in SUBSET Jobs, Reap(w, taken) PROVE RowTokens'
    BY <1>3 DEF Reap, GoTo, Expired, history
  <1>4. ASSUME NEW w \in Workers, NEW j \in Jobs, Claim(w, j) PROVE RowTokens'
    BY <1>4 DEF Claim, TakeRow, ExtendLease, Claimable, Due
  <1>5. ASSUME NEW w \in Workers, NEW j \in Jobs, ClaimReplyLost(w, j) PROVE RowTokens'
    BY <1>5 DEF ClaimReplyLost, TakeRow, ExtendLease, Claimable, Due, Return
  <1>6. ASSUME NEW w \in Workers, ClaimNothing(w) PROVE RowTokens'
    BY <1>6 DEF ClaimNothing, Return, rows, history
  <1>7. ASSUME NEW w \in Workers, FirstRenewal(w) PROVE RowTokens'
    BY <1>7 DEF FirstRenewal, ExtendLease, Owns, history
  <1>8. ASSUME NEW w \in Workers, FirstRenewalStale(w) PROVE RowTokens'
    BY <1>8 DEF FirstRenewalStale, Return, rows, history
  <1>9. ASSUME NEW w \in Workers, FirstRenewalError(w) PROVE RowTokens'
    BY <1>9 DEF FirstRenewalError, ExtendLease, Owns, Raise, history
  <1>10. ASSUME NEW w \in Workers, EnterStage(w) PROVE RowTokens'
    BY <1>10 DEF EnterStage, GoTo, rows, history
  <1>11. ASSUME NEW w \in Workers, StageStale(w) PROVE RowTokens'
    BY <1>11 DEF StageStale, Return, rows, history
  <1>12. ASSUME NEW w \in Workers, BoundaryError(w) PROVE RowTokens'
    BY <1>12 DEF BoundaryError, Raise, rows, history
  <1>13. ASSUME NEW w \in Workers, StageDone(w) PROVE RowTokens'
    BY <1>13 DEF StageDone, PutSummary, columns, history
  <1>14. ASSUME NEW w \in Workers, StageLeaseLost(w) PROVE RowTokens'
    BY <1>14 DEF StageLeaseLost, Return, rows, history
  <1>15. ASSUME NEW w \in Workers, NEW isUnsafe \in BOOLEAN, StageError(w, isUnsafe) PROVE RowTokens'
    BY <1>15 DEF StageError, PutSummary, columns, Raise, rows, history
  <1>16. ASSUME NEW w \in Workers, Publish(w) PROVE RowTokens'
    BY <1>16 DEF Publish, PublishRow, Owns, Return
  <1>17. ASSUME NEW w \in Workers, PublishReplyLost(w) PROVE RowTokens'
    BY <1>17 DEF PublishReplyLost, PublishRow, Owns, Raise
  <1>18. ASSUME NEW w \in Workers, RecordFailure(w) PROVE RowTokens'
    BY <1>18 DEF RecordFailure, Owns, AttemptLimit, Return, history
  <1>19. ASSUME NEW w \in Workers, FailureNotRecorded(w) PROVE RowTokens'
    BY <1>19 DEF FailureNotRecorded, Return, rows, history
  <1>20. ASSUME NEW w \in Workers, Renew(w) PROVE RowTokens'
    BY <1>20 DEF Renew, RenewerAlive, Owns, ExtendLease, wvars, history
  <1>21. ASSUME NEW w \in Workers, RenewFails(w) PROVE RowTokens'
    BY <1>21 DEF RenewFails, RenewerAlive, Owns, ExtendLease, history
  <1>22. ASSUME NEW w \in Workers, Crash(w) PROVE RowTokens'
    BY <1>22 DEF Crash, Return, rows, history
  <1>23. ASSUME Tick PROVE RowTokens'
    BY <1>23 DEF Tick, wvars, history
  <1>24. CASE UNCHANGED vars
    BY <1>24 DEF vars, rows, wvars, history
  <1> QED
    BY <1>1, <1>2, <1>3, <1>4, <1>5, <1>6, <1>7, <1>8, <1>9, <1>10, <1>11, <1>12, <1>13, <1>14, <1>15, <1>16, <1>17, <1>18, <1>19, <1>20, <1>21, <1>22, <1>23, <1>24 DEF Next, WorkerStep

(* A worker that drops its claim leaves the tokens of the others apart. *)
LEMMA ReturnKeepsTokens ==
  ASSUME IndInv, TypeOK', NEW w \in Workers, Return(w),
         \A j \in Jobs : claims'[j] >= claims[j]
  PROVE  HeldTokens'
  <1> USE DEF IndInv, TypeOK, TokenInv, HeldTokens, HeldToken, Busy, NoJob
  <1>1. \A v \in Workers \ {w} : Busy(v)' = Busy(v) /\ job'[v] = job[v] /\ tok'[v] = tok[v]
    BY DEF Return
  <1>2. ~Busy(w)' /\ job'[w] = NoJob
    BY DEF Return
  <1>3. ASSUME NEW v \in Workers PROVE HeldToken(v)'
    <2>1. CASE v = w
      BY <2>1, <1>2
    <2>2. CASE v # w
      BY <2>2, <1>1, SMTT(30)
    <2> QED
      BY <2>1, <2>2
  <1>4. ASSUME NEW u \in Workers, NEW v \in Workers, u # v, (Busy(u) /\ Busy(v) /\ job[u] = job[v])'
        PROVE  tok'[u] # tok'[v]
    <2>1. u # w /\ v # w
      BY <1>2, <1>4
    <2> QED
      BY <2>1, <1>1, <1>4
  <1> QED
    BY <1>3, <1>4

(* So does a step of a worker that keeps its claim, or has none. *)
LEMMA MoveKeepsTokens ==
  ASSUME IndInv, UNCHANGED <<job, tok, claims>>, \A v \in Workers : Busy(v)' = Busy(v)
  PROVE  HeldTokens'
  <1> USE DEF IndInv, TokenInv, HeldTokens, HeldToken
  <1>1. ASSUME NEW v \in Workers PROVE HeldToken(v)'
    OBVIOUS
  <1> QED
    BY <1>1

(* Every step keeps the tokens of the workers apart: a claim hands out a   *)
(* number no worker holds yet, every other step hands out none.            *)
LEMMA HeldTokenStep ==
  ASSUME IndInv, [Next]_vars, TypeOK'
  PROVE  HeldTokens'
  <1> USE DEF IndInv, TypeOK
  <1>1. ASSUME NEW j \in Jobs, Submit(j) PROVE HeldTokens'
    BY <1>1, MoveKeepsTokens DEF Submit, wvars, history, Busy
  <1>2. ASSUME NEW j \in Jobs, Delete(j) PROVE HeldTokens'
    BY <1>2, MoveKeepsTokens DEF Delete, wvars, history, Busy
  <1>3. ASSUME NEW w \in Workers, NEW taken \in SUBSET Jobs, Reap(w, taken) PROVE HeldTokens'
    BY <1>3, MoveKeepsTokens DEF Reap, GoTo, Expired, history, Busy
  <1>4. ASSUME NEW w \in Workers, NEW j \in Jobs, Claim(w, j) PROVE HeldTokens'
    <2> USE DEF HeldTokens, HeldToken, TokenInv, Busy, NoJob, TakeRow, Claim
    <2>1. ASSUME NEW v \in Workers PROVE HeldToken(v)'
      BY <1>4, <2>1
    <2>2. \A v \in Workers \ {w} : Busy(v) /\ job[v] = j => tok[v] <= claims[j]
      OBVIOUS
    <2>3. \A v \in Workers \ {w} : Busy(v)' = Busy(v) /\ job'[v] = job[v] /\ tok'[v] = tok[v]
      BY <1>4
    <2>4. job'[w] = j /\ tok'[w] = claims[j] + 1
      BY <1>4
    <2>5. ASSUME NEW u \in Workers, NEW v \in Workers, u # v, (Busy(u) /\ Busy(v) /\ job[u] = job[v])'
          PROVE  tok'[u] # tok'[v]
      <3>1. CASE u = w
        <4>1. v \in Workers \ {w} /\ Busy(v) /\ job[v] = j /\ tok'[v] = tok[v]
          BY <3>1, <2>5, <2>3, <2>4
        <4>2. tok[v] <= claims[j] /\ tok[v] \in Nat /\ claims[j] \in Nat
          BY <4>1, <2>2
        <4> QED
          BY <4>1, <4>2, <3>1, <2>4
      <3>2. CASE v = w
        <4>1. u \in Workers \ {w} /\ Busy(u) /\ job[u] = j /\ tok'[u] = tok[u]
          BY <3>2, <2>5, <2>3, <2>4
        <4>2. tok[u] <= claims[j] /\ tok[u] \in Nat /\ claims[j] \in Nat
          BY <4>1, <2>2
        <4> QED
          BY <4>1, <4>2, <3>2, <2>4
      <3>3. CASE u # w /\ v # w
        BY <3>3, <2>5, <2>3
      <3> QED
        BY <3>1, <3>2, <3>3
    <2> QED
      BY <2>1, <2>5
  <1>5. ASSUME NEW w \in Workers, NEW j \in Jobs, ClaimReplyLost(w, j) PROVE HeldTokens'
    BY <1>5, ReturnKeepsTokens DEF ClaimReplyLost, TakeRow, ExtendLease, Claimable, Due
  <1>6. ASSUME NEW w \in Workers, ClaimNothing(w) PROVE HeldTokens'
    BY <1>6, ReturnKeepsTokens DEF ClaimNothing, rows, history
  <1>7. ASSUME NEW w \in Workers, FirstRenewal(w) PROVE HeldTokens'
    BY <1>7, MoveKeepsTokens DEF FirstRenewal, ExtendLease, Owns, history, Busy
  <1>8. ASSUME NEW w \in Workers, FirstRenewalStale(w) PROVE HeldTokens'
    BY <1>8, ReturnKeepsTokens DEF FirstRenewalStale, rows, history
  <1>9. ASSUME NEW w \in Workers, FirstRenewalError(w) PROVE HeldTokens'
    BY <1>9, MoveKeepsTokens DEF FirstRenewalError, ExtendLease, Owns, Raise, history, Busy
  <1>10. ASSUME NEW w \in Workers, EnterStage(w) PROVE HeldTokens'
    BY <1>10, MoveKeepsTokens DEF EnterStage, GoTo, rows, history, Busy
  <1>11. ASSUME NEW w \in Workers, StageStale(w) PROVE HeldTokens'
    BY <1>11, ReturnKeepsTokens DEF StageStale, rows, history
  <1>12. ASSUME NEW w \in Workers, BoundaryError(w) PROVE HeldTokens'
    BY <1>12, MoveKeepsTokens DEF BoundaryError, Raise, rows, history, Busy
  <1>13. ASSUME NEW w \in Workers, StageDone(w) PROVE HeldTokens'
    BY <1>13, MoveKeepsTokens DEF StageDone, PutSummary, columns, history, Busy
  <1>14. ASSUME NEW w \in Workers, StageLeaseLost(w) PROVE HeldTokens'
    BY <1>14, ReturnKeepsTokens DEF StageLeaseLost, rows, history
  <1>15. ASSUME NEW w \in Workers, NEW isUnsafe \in BOOLEAN, StageError(w, isUnsafe) PROVE HeldTokens'
    BY <1>15, MoveKeepsTokens DEF StageError, PutSummary, columns, Raise, rows, history, Busy
  <1>16. ASSUME NEW w \in Workers, Publish(w) PROVE HeldTokens'
    BY <1>16, ReturnKeepsTokens DEF Publish, PublishRow, Owns
  <1>17. ASSUME NEW w \in Workers, PublishReplyLost(w) PROVE HeldTokens'
    BY <1>17, MoveKeepsTokens DEF PublishReplyLost, PublishRow, Owns, Raise, Busy
  <1>18. ASSUME NEW w \in Workers, RecordFailure(w) PROVE HeldTokens'
    BY <1>18, ReturnKeepsTokens DEF RecordFailure, Owns, AttemptLimit, history
  <1>19. ASSUME NEW w \in Workers, FailureNotRecorded(w) PROVE HeldTokens'
    BY <1>19, ReturnKeepsTokens DEF FailureNotRecorded, rows, history
  <1>20. ASSUME NEW w \in Workers, Renew(w) PROVE HeldTokens'
    BY <1>20, MoveKeepsTokens DEF Renew, RenewerAlive, Owns, ExtendLease, wvars, history, Busy
  <1>21. ASSUME NEW w \in Workers, RenewFails(w) PROVE HeldTokens'
    BY <1>21, MoveKeepsTokens DEF RenewFails, RenewerAlive, Owns, ExtendLease, history, Busy
  <1>22. ASSUME NEW w \in Workers, Crash(w) PROVE HeldTokens'
    BY <1>22, ReturnKeepsTokens DEF Crash, rows, history
  <1>23. ASSUME Tick PROVE HeldTokens'
    BY <1>23, MoveKeepsTokens DEF Tick, wvars, history, Busy
  <1>24. CASE UNCHANGED vars
    BY <1>24, MoveKeepsTokens DEF vars, rows, wvars, history, Busy
  <1> QED
    BY <1>1, <1>2, <1>3, <1>4, <1>5, <1>6, <1>7, <1>8, <1>9, <1>10, <1>11, <1>12, <1>13, <1>14, <1>15, <1>16, <1>17, <1>18, <1>19, <1>20, <1>21, <1>22, <1>23, <1>24 DEF Next, WorkerStep

-------------------------------------------------------------------------------
(* A fresh database and workers at the top of their loop satisfy the       *)
(* inductive invariant.                                                    *)
LEMMA IndInvInit == Init => IndInv
  <1> SUFFICES ASSUME Init PROVE IndInv
    OBVIOUS
  <1> USE JobQueueAssumption DEF Init, NoJob, NoToken
  <1>1. TypeOK
    BY DEF TypeOK, Status, PC
  <1>2. AccountInv
    BY DEF AccountInv, RowAccount, Live
  <1>3. TokenInv
    BY DEF TokenInv, RowTokens, RowToken, HeldTokens, HeldToken, Busy
  <1> QED
    BY <1>1, <1>2, <1>3 DEF IndInv

(* Every step of queue, workers and clock keeps the inductive invariant.   *)
LEMMA IndInvStep == IndInv /\ [Next]_vars => IndInv'
  BY TypeStep, AccountStep, RowTokenStep, HeldTokenStep DEF IndInv, TokenInv

(* The inductive invariant holds in every reachable state: the columns and *)
(* the counters of a row agree, and tokens tell the workers apart, after   *)
(* any interleaving of the statements of queue/postgres.py.                *)
THEOREM Invariance == Spec => []IndInv
  BY IndInvInit, IndInvStep, PTL DEF Spec

(* Types, and with them attempts <= MaxAttempts in every row: neither      *)
(* retry_or_dead nor reap_expired, which both increment it, takes it past  *)
(* the limit.                                                              *)
THEOREM TypeCorrect == Spec => []TypeOK
  <1>1. IndInv => TypeOK
    BY DEF IndInv
  <1> QED
    BY <1>1, Invariance, PTL

(* Each claim is in force, finished the job, or cost exactly one attempt:  *)
(* claim_next, retry_or_dead, reap_expired and publish between them lose   *)
(* no attempt and charge none twice.                                       *)
THEOREM AccountingCorrect == Spec => []ClaimAccounting
  <1>1. IndInv => ClaimAccounting
    BY DEF IndInv, AccountInv, RowAccount, ClaimAccounting
  <1> QED
    BY <1>1, Invariance, PTL

(* claim_next hands a job out at most MaxAttempts times, whatever becomes  *)
(* of the workers that had it.                                             *)
THEOREM RunsAreBounded == Spec => []RunsBounded
  <1>1. IndInv => RunsBounded
    BY DEF IndInv, AccountInv, RowAccount, RunsBounded
  <1> QED
    BY <1>1, Invariance, PTL

(* publish commits once at most for a job, and has committed exactly for   *)
(* the jobs whose row says done.                                           *)
THEOREM PublishesOnce == Spec => []SinglePublication
  <1>1. IndInv => SinglePublication
    BY DEF IndInv, AccountInv, RowAccount, SinglePublication
  <1> QED
    BY <1>1, Invariance, PTL

(* No two workers hold the claim in force on the same job: the test of     *)
(* status, lease_token and lease_expires_at that renew, set_stage, publish *)
(* and retry_or_dead share is passed by one worker at most.                *)
THEOREM MutualExclusion == Spec => []HolderUnique
  <1>1. IndInv => HolderUnique
    <2> SUFFICES ASSUME IndInv, NEW v \in Workers, NEW w \in Workers, v # w,
                        Owns(v), Owns(w), job[v] = job[w]
                 PROVE  FALSE
      BY DEF HolderUnique
    <2>1. Busy(v) /\ Busy(w)
      BY DEF IndInv, TokenInv, HeldTokens, HeldToken, Owns, Jobs, NoJob
    <2>2. tok[v] = tok[w]
      BY DEF Owns
    <2> QED
      BY <2>1, <2>2 DEF IndInv, TokenInv, HeldTokens
  <1> QED
    BY <1>1, Invariance, PTL

(* lease_token is set exactly while the row says running, and no lease     *)
(* outlasts that status.                                                   *)
THEOREM LeasesMatch == Spec => []LeaseMatchesStatus
  <1>1. IndInv => LeaseMatchesStatus
    BY DEF IndInv, TokenInv, RowTokens, RowToken, LeaseMatchesStatus
  <1> QED
    BY <1>1, Invariance, PTL

-------------------------------------------------------------------------------
(* A step of one worker leaves the place of every other worker alone.      *)
LEMMA OthersStandStill ==
  ASSUME NEW v \in Workers, NEW w \in Workers, v # w, TypeOK,
         WorkerStep(w) \/ Renew(w) \/ RenewFails(w) \/ Crash(w)
  PROVE  pc'[v] = pc[v] /\ stage'[v] = stage[v]
  BY DEF TypeOK, WorkerStep, Reap, Claim, ClaimReplyLost, ClaimNothing, FirstRenewal,
         FirstRenewalStale, FirstRenewalError, EnterStage, StageStale, BoundaryError,
         StageDone, StageLeaseLost, StageError, PutSummary, Publish, PublishRow,
         PublishReplyLost, RecordFailure, FailureNotRecorded, Renew, RenewFails, Crash, Return, Raise,
         GoTo, wvars, rows, history

(* What a step of a stale worker may do to the rows. *)
Spares(w) ==
    /\ UNCHANGED columns
    /\ UNCHANGED summary
       \/ /\ pc[w] = "handler" /\ stage[w] = 1
          /\ summary' = [summary EXCEPT ![job[w]] = tok[w]]

(* No step of a worker without the claim in force writes a column the      *)
(* queue goes by: each statement that does repeats the test Owns in its    *)
(* WHERE clause.                                                           *)
LEMMA StaleStep ==
  ASSUME NEW w \in Workers, TypeOK, Busy(w), ~Owns(w),
         WorkerStep(w) \/ Renew(w) \/ RenewFails(w) \/ Crash(w)
  PROVE  Spares(w)
  <1> USE DEF Busy, Spares, columns
  <1>1. CASE \E taken \in SUBSET Jobs : Reap(w, taken)
    BY <1>1 DEF Reap
  <1>2. CASE \E j \in Jobs : Claim(w, j) \/ ClaimReplyLost(w, j)
    BY <1>2 DEF Claim, ClaimReplyLost
  <1>3. CASE ClaimNothing(w) \/ FirstRenewalStale(w) \/ EnterStage(w) \/ StageStale(w)
             \/ BoundaryError(w) \/ StageLeaseLost(w)
             \/ FailureNotRecorded(w) \/ Crash(w)
    BY <1>3 DEF ClaimNothing, FirstRenewalStale, EnterStage, StageStale, BoundaryError,
                StageLeaseLost, FailureNotRecorded, Crash, rows
  <1>6. CASE StageDone(w) \/ (\E isUnsafe \in BOOLEAN : StageError(w, isUnsafe))
    BY <1>6 DEF StageDone, StageError, PutSummary, rows
  <1>4. CASE FirstRenewal(w) \/ Publish(w) \/ PublishReplyLost(w) \/ RecordFailure(w) \/ Renew(w)
    BY <1>4 DEF FirstRenewal, Publish, PublishReplyLost, PublishRow, RecordFailure, Renew
  <1>5. CASE FirstRenewalError(w) \/ RenewFails(w)
    BY <1>5 DEF FirstRenewalError, RenewFails, rows
  <1> QED
    BY <1>1, <1>2, <1>3, <1>4, <1>5, <1>6 DEF WorkerStep

(* Fencing: a worker whose lease was lost, at whatever stage and with      *)
(* whatever exception in hand, changes none of the columns of              *)
(* ingestion_jobs that claim, reaper, renewal, failure and publication go  *)
(* by, in any row; the unfenced set_route_summary at the end of PARSE is   *)
(* the one write it has left, to the job it had.                           *)
THEOREM Fencing == Spec => StaleWorkerHarmless
  <1> DEFINE Harmless == \A w \in Workers : StaleStepOf(w) => Spares(w)
  <1>1. IndInv /\ [Next]_vars => [Harmless]_vars
    <2> SUFFICES ASSUME IndInv, Next, NEW w \in Workers, Busy(w), ~Owns(w),
                        <<pc[w], stage[w]>>' # <<pc[w], stage[w]>>
                 PROVE  Spares(w)
      BY DEF vars, StaleStepOf
    <2>1. TypeOK
      BY DEF IndInv
    <2>2. CASE \E j \in Jobs : Submit(j) \/ Delete(j)
      BY <2>2 DEF Submit, Delete, wvars
    <2>3. CASE Tick
      BY <2>3 DEF Tick, wvars
    <2>4. ASSUME NEW v \in Workers, WorkerStep(v) \/ Renew(v) \/ RenewFails(v) \/ Crash(v)
          PROVE  Spares(w)
      <3>1. v = w
        BY <2>1, <2>4, OthersStandStill
      <3> QED
        BY <3>1, <2>1, <2>4, StaleStep
    <2> QED
      BY <2>2, <2>3, <2>4 DEF Next
  <1> QED
    <2>1. Spec => [][Harmless]_vars
      BY <1>1, Invariance, PTL DEF Spec
    <2> QED
      BY <2>1 DEF StaleWorkerHarmless, Spares

-------------------------------------------------------------------------------
(* Each step of the queue moves every job as JobLifecycle allows.          *)
LEMMA StepMovesJobs ==
  ASSUME IndInv, [Next]_vars, NEW i \in Jobs
  PROVE  JL!Move(i)
  <1> USE DEF IndInv, TypeOK, AccountInv, RowAccount, JL!Move, JL!Stay
  <1>1. ASSUME NEW j \in Jobs, Submit(j) PROVE JL!Move(i)
    BY <1>1 DEF Submit, wvars, history, JL!Submit
  <1>2. ASSUME NEW j \in Jobs, Delete(j) PROVE JL!Move(i)
    BY <1>2 DEF Delete, wvars, history, JL!Withdraw
  <1>3. ASSUME NEW w \in Workers, NEW taken \in SUBSET Jobs, Reap(w, taken) PROVE JL!Move(i)
    BY <1>3 DEF Reap, Expired, history, JL!Spend
  <1>4. ASSUME NEW w \in Workers, NEW j \in Jobs, Claim(w, j) PROVE JL!Move(i)
    BY <1>4 DEF Claim, TakeRow, ExtendLease, Claimable, Due, JL!Start
  <1>5. ASSUME NEW w \in Workers, NEW j \in Jobs, ClaimReplyLost(w, j) PROVE JL!Move(i)
    BY <1>5 DEF ClaimReplyLost, TakeRow, ExtendLease, Claimable, Due, JL!Start
  <1>6. ASSUME NEW w \in Workers, ClaimNothing(w) PROVE JL!Move(i)
    BY <1>6 DEF ClaimNothing, rows, history
  <1>7. ASSUME NEW w \in Workers, FirstRenewal(w) PROVE JL!Move(i)
    BY <1>7 DEF FirstRenewal, ExtendLease, Owns, history
  <1>8. ASSUME NEW w \in Workers, FirstRenewalStale(w) PROVE JL!Move(i)
    BY <1>8 DEF FirstRenewalStale, rows, history
  <1>9. ASSUME NEW w \in Workers, FirstRenewalError(w) PROVE JL!Move(i)
    BY <1>9 DEF FirstRenewalError, ExtendLease, Owns, history
  <1>10. ASSUME NEW w \in Workers, EnterStage(w) PROVE JL!Move(i)
    BY <1>10 DEF EnterStage, rows, history
  <1>11. ASSUME NEW w \in Workers, StageStale(w) PROVE JL!Move(i)
    BY <1>11 DEF StageStale, rows, history
  <1>12. ASSUME NEW w \in Workers, BoundaryError(w) PROVE JL!Move(i)
    BY <1>12 DEF BoundaryError, rows, history
  <1>13. ASSUME NEW w \in Workers, StageDone(w) PROVE JL!Move(i)
    BY <1>13 DEF StageDone, PutSummary, columns, history
  <1>14. ASSUME NEW w \in Workers, StageLeaseLost(w) PROVE JL!Move(i)
    BY <1>14 DEF StageLeaseLost, rows, history
  <1>15. ASSUME NEW w \in Workers, NEW isUnsafe \in BOOLEAN, StageError(w, isUnsafe) PROVE JL!Move(i)
    BY <1>15 DEF StageError, PutSummary, columns, rows, history
  <1>16. ASSUME NEW w \in Workers, Publish(w) PROVE JL!Move(i)
    BY <1>16 DEF Publish, PublishRow, Owns, JL!Finish
  <1>17. ASSUME NEW w \in Workers, PublishReplyLost(w) PROVE JL!Move(i)
    BY <1>17 DEF PublishReplyLost, PublishRow, Owns, JL!Finish
  <1>18. ASSUME NEW w \in Workers, RecordFailure(w) PROVE JL!Move(i)
    BY <1>18 DEF RecordFailure, Owns, AttemptLimit, history, JL!Spend, JL!Condemn
  <1>19. ASSUME NEW w \in Workers, FailureNotRecorded(w) PROVE JL!Move(i)
    BY <1>19 DEF FailureNotRecorded, rows, history
  <1>20. ASSUME NEW w \in Workers, Renew(w) PROVE JL!Move(i)
    BY <1>20 DEF Renew, RenewerAlive, Owns, ExtendLease, wvars, history
  <1>21. ASSUME NEW w \in Workers, RenewFails(w) PROVE JL!Move(i)
    BY <1>21 DEF RenewFails, RenewerAlive, Owns, ExtendLease, history
  <1>22. ASSUME NEW w \in Workers, Crash(w) PROVE JL!Move(i)
    BY <1>22 DEF Crash, rows, history
  <1>23. ASSUME Tick PROVE JL!Move(i)
    BY <1>23 DEF Tick, wvars, history
  <1>24. CASE UNCHANGED vars
    BY <1>24 DEF vars, rows
  <1> QED
    BY <1>1, <1>2, <1>3, <1>4, <1>5, <1>6, <1>7, <1>8, <1>9, <1>10, <1>11, <1>12, <1>13, <1>14, <1>15, <1>16, <1>17, <1>18, <1>19, <1>20, <1>21, <1>22, <1>23, <1>24 DEF Next, WorkerStep

(* The queue implements the safety part of JobLifecycle: seen from outside *)
(* a job is started, and each start finishes it, costs an attempt, or is   *)
(* cut short by deletion.                                                  *)
THEOREM ImplementsLifecycle == Spec => JL!SafeSpec
  <1>1. Init => JL!Init
    BY DEF Init, JL!Init, JL!Jobs, Jobs
  <1>2. IndInv /\ IndInv' /\ [Next]_vars => [JL!Next]_(JL!vars)
    <2> SUFFICES ASSUME IndInv, IndInv', [Next]_vars PROVE JL!Next
      BY DEF JL!vars
    <2>1. \A i \in Jobs : JL!Move(i)
      BY StepMovesJobs
    <2> QED
      BY <2>1 DEF JL!Next, IndInv, TypeOK, JL!Jobs, Jobs, JL!Status, Status
  <1> QED
    BY <1>1, <1>2, Invariance, PTL DEF Spec, JL!SafeSpec

(* done and dead are final: neither the reaper nor a late worker changes   *)
(* such a row, and only delete_document removes it.                        *)
THEOREM SettledIsFinal == Spec => SettledForever
  <1> DEFINE Final == \A j \in Jobs : status[j] \in Settled => status'[j] \in {status[j], "deleted"}
  <1>1. IndInv /\ [Next]_vars => [Final]_vars
    <2> SUFFICES ASSUME IndInv, [Next]_vars, NEW j \in Jobs, status[j] \in Settled
                 PROVE  status'[j] \in {status[j], "deleted"}
      BY DEF vars
    <2>1. JL!Move(j)
      BY StepMovesJobs
    <2> QED
      BY <2>1 DEF JL!Move, JL!Submit, JL!Start, JL!Finish, JL!Spend, JL!Condemn,
                  JL!Withdraw, JL!Stay, Settled
  <1> QED
    BY <1>1, Invariance, PTL DEF Spec, SettledForever

===============================================================================
