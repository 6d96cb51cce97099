-------------------------- MODULE ReviewQueueProofs --------------------------
(***************************************************************************)
(* Proofs about ReviewQueue, for any number of repositories, commits,      *)
(* jobs, claims and workers and for any values of the limits.              *)
(***************************************************************************)
EXTENDS ReviewQueue, TLAPS

-----------------------------------------------------------------------------
(* The rows that the store methods write are rows of review_jobs.          *)

LEMMA NoJobType == NoJob \in Job
BY DEF NoJob, Job, NoRange, NoOutcome, Never, NoToken, Token, Time

LEMMA NewJobType ==
  ASSUME NEW range \in Range, NEW n \in Nat, NEW t \in Nat
  PROVE  NewJob(range, n, t) \in Job
BY NoJobType DEF NewJob, Job, Time

LEMMA LeasedType ==
  ASSUME NEW job \in Job, NEW c \in ClaimId, NEW t \in Nat
  PROVE  Leased(job, c, t) \in Job
<1>1. job.attemptCount + 1 \in Nat /\ t + LeaseFor \in Nat
  BY LeaseAssumption DEF LeaseAssumption, Job
<1>2. QED
  BY <1>1 DEF Leased, Job, Time, Token

LEMMA RequeuedType ==
  ASSUME NEW job \in Job, NEW lastOutcome \in {"FAILED", "RECOVERED"}, NEW t \in Nat
  PROVE  [Released(job, "PENDING", lastOutcome) EXCEPT !.availableAt = t] \in Job
BY DEF Released, Job, Time, Token, NoToken, Never

LEMMA FailedType ==
  ASSUME NEW job \in Job
  PROVE  [Released(job, "FAILED", "FAILED") EXCEPT !.failedAt = TRUE] \in Job
BY DEF Released, Job, Time, Token, NoToken, Never

LEMMA CompletedType ==
  ASSUME NEW job \in Job
  PROVE  [Released(job, "COMPLETED", "COMPLETED") EXCEPT !.completedAt = TRUE] \in Job
BY DEF Released, Job, Time, Token, NoToken, Never

LEMMA ReviewedType ==
  ASSUME NEW job \in Job, NEW outcome \in Outcome, NEW succeeds \in BOOLEAN
  PROVE  [Released(job, "COMPLETED", "COMPLETED")
            EXCEPT !.completedAt = TRUE, !.failedAt = FALSE,
                   !.outcome = outcome, !.cursorAdvancedAt = succeeds] \in Job
BY DEF Released, Job, Time, Token, NoToken, Never

LEMMA ClaimBatchClaimable ==
  ASSUME NEW t, NEW locked
  PROVE  ClaimBatch(t, locked) \subseteq Claimable(t)
BY DEF ClaimBatch, Available

LEMMA RecoverBatchExpired ==
  ASSUME NEW t, NEW locked
  PROVE  RecoverBatch(t, locked) \subseteq Expired(t)
BY DEF RecoverBatch, Recoverable

LEMMA DueRangeType ==
  ASSUME TypeOK
  PROVE  ListDueReviewCandidates \subseteq Range
BY DEF ListDueReviewCandidates, Due, Routable, Eligible, DueRange, TypeOK, Range,
       RegistryRow, Mode

(* Both ways of enqueueing create one row with a next attempt number.      *)
LEMMA EnqueueCreates ==
  ASSUME TypeOK, NEW range, NEW t, Enqueue(range, t)
  PROVE  \E j \in JobId, n \in Nat : Create(j, range, n, t)
<1>1. CASE \E j \in JobId : Create(j, range, 1, t)
  BY <1>1
<1>2. CASE \E latest, j \in JobId :
             Create(j, range, jobs[latest].attemptNumber + 1, t)
  <2>1. \A latest \in JobId : jobs[latest].attemptNumber + 1 \in Nat
    BY DEF TypeOK, Job
  <2>2. QED
    BY <1>2, <2>1
<1>3. QED
  BY <1>1, <1>2 DEF Enqueue

-----------------------------------------------------------------------------
(* Type correctness.                                                       *)

LEMMA InitTypeOK == Init => TypeOK
BY NoJobType DEF Init, TypeOK

LEMMA NextTypeOK == TypeOK /\ [Next]_queueVars => TypeOK'
<1>. SUFFICES ASSUME TypeOK, [Next]_queueVars
              PROVE  TypeOK'
  OBVIOUS
<1>. USE DEF TypeOK
<1>a. \A j \in JobId : jobs[j] \in Job
  OBVIOUS
<1>1. CASE ListCandidates
  BY <1>1, DueRangeType DEF ListCandidates
<1>2. ASSUME NEW range \in listed, NEW t \in CallTime, Enqueue(range, t)
      PROVE  TypeOK'
  <2>1. PICK j \in JobId, n \in Nat : Create(j, range, n, t)
    BY <1>2, EnqueueCreates
  <2>2. NewJob(range, n, t) \in Job
    BY NewJobType DEF CallTime
  <2>3. Event("enqueued", j, NoToken) \in AuditKey
    BY DEF Event, AuditKey, EventType, NoToken, Token
  <2>4. QED
    BY <2>1, <2>2, <2>3 DEF Create
<1>3. ASSUME NEW t \in CallTime, NEW locked \in SUBSET JobId,
             RecoverExpiredLeases(t, locked)
      PROVE  TypeOK'
  <2>1. \A j \in JobId :
          [Released(jobs[j], "PENDING", "RECOVERED") EXCEPT !.availableAt = t] \in Job
    BY <1>a, RequeuedType DEF CallTime
  <2>2. \A j \in JobId : Event("recovered", j, jobs[j].leaseToken) \in AuditKey
    BY <1>a DEF Job, Event, AuditKey, EventType
  <2>3. RecoverBatch(t, locked) \subseteq JobId
    BY RecoverBatchExpired DEF Expired
  <2>4. jobs' \in [JobId -> Job]
    BY <1>3, <1>a, <2>1 DEF RecoverExpiredLeases
  <2>5. audit' \subseteq AuditKey
    BY <1>3, <2>2, <2>3 DEF RecoverExpiredLeases
  <2>6. QED
    BY <1>3, <2>4, <2>5 DEF RecoverExpiredLeases
<1>4. ASSUME NEW t \in CallTime, NEW locked \in SUBSET JobId,
             NEW c \in ClaimId, NEW w \in WorkerId, ClaimDue(c, w, t, locked)
      PROVE  TypeOK'
  <2>1. \A j \in JobId : Leased(jobs[j], c, t) \in Job
    BY <1>a, LeasedType DEF CallTime
  <2>2. \A j \in JobId : Event("claimed", j, jobs[j].attemptCount + 1) \in AuditKey
    <3>1. \A j \in JobId : jobs[j].attemptCount + 1 \in Nat
      BY <1>a DEF Job
    <3>2. QED
      BY <3>1 DEF Event, AuditKey, EventType, Token
  <2>3. ClaimBatch(t, locked) \subseteq JobId
    BY ClaimBatchClaimable DEF Claimable
  <2>4. jobs' \in [JobId -> Job]
    BY <1>4, <1>a, <2>1 DEF ClaimDue
  <2>5. audit' \subseteq AuditKey
    BY <1>4, <2>2, <2>3 DEF ClaimDue
  <2>6. QED
    BY <1>4, <2>4, <2>5 DEF ClaimDue
<1>5. ASSUME NEW j \in JobId, NEW token \in 1..jobs[j].attemptCount,
             NEW t \in CallTime, NEW willRetry \in BOOLEAN, Fail(j, token, t, willRetry)
      PROVE  TypeOK'
  <2>1. t + RetryDelay \in Nat
    BY RetryAssumption DEF RetryAssumption, CallTime
  <2>2. [Released(jobs[j], "PENDING", "FAILED") EXCEPT !.availableAt = t + RetryDelay] \in Job
    BY <1>a, <2>1, RequeuedType
  <2>3. [Released(jobs[j], "FAILED", "FAILED") EXCEPT !.failedAt = TRUE] \in Job
    BY <1>a, FailedType
  <2>4. Event("failed", j, token) \in AuditKey
    BY <1>a DEF Job, Event, AuditKey, EventType, Token
  <2>5. QED
    BY <1>5, <2>2, <2>3, <2>4 DEF Fail
<1>6. ASSUME NEW j \in JobId, NEW token \in 1..jobs[j].attemptCount,
             CompleteLease(j, token)
      PROVE  TypeOK'
  <2>1. [Released(jobs[j], "COMPLETED", "COMPLETED") EXCEPT !.completedAt = TRUE] \in Job
    BY <1>a, CompletedType
  <2>2. Event("completed", j, token) \in AuditKey
    BY <1>a DEF Job, Event, AuditKey, EventType, Token
  <2>3. QED
    BY <1>6, <2>1, <2>2 DEF CompleteLease
<1>7. ASSUME NEW j \in JobId, NEW t \in CallTime,
             NEW class \in Classification, RecordEvidence(j, t, class)
      PROVE  TypeOK'
  BY <1>7 DEF RecordEvidence
<1>8. ASSUME NEW j \in JobId, NEW t \in CallTime, CreateProposal(j, t)
      PROVE  TypeOK'
  BY <1>8 DEF CreateProposal
<1>9. ASSUME NEW j \in JobId, NEW t \in CallTime,
             NEW outcome \in Outcome, CompleteReview(j, t, outcome)
      PROVE  TypeOK'
  <2>1. [Released(jobs[j], "COMPLETED", "COMPLETED")
           EXCEPT !.completedAt = TRUE, !.failedAt = FALSE,
                  !.outcome = outcome, !.cursorAdvancedAt = (outcome # "INCOMPLETE")] \in Job
    BY <1>a, ReviewedType
  <2>2. jobs[j].range.head \in Commit \cup {NoCommit}
    BY <1>a DEF Job, Range, NoRange
  <2>3. cursor' \in [Repo -> Commit \cup {NoCommit}]
    BY <1>9, <2>2 DEF CompleteReview, AdvanceCursor
  <2>4. Event("outcome", j, NoToken) \in AuditKey
    BY DEF Event, AuditKey, EventType, NoToken, Token
  <2>5. QED
    BY <1>9, <2>1, <2>3, <2>4 DEF CompleteReview
<1>10. ASSUME NEW r \in Repo, NEW row \in RegistryRow, RegistryChanges(r, row)
       PROVE  TypeOK'
  BY <1>10 DEF RegistryChanges
<1>11. CASE Tick
  BY <1>11 DEF Tick
<1>12. CASE UNCHANGED queueVars
  BY <1>12 DEF queueVars
<1>. HIDE DEF TypeOK
<1>13. CASE DispatcherCall
  BY <1>13, <1>1, <1>2, <1>3, <1>4, <1>5, <1>6 DEF DispatcherCall
<1>14. CASE SessionCall
  BY <1>14, <1>7, <1>8, <1>9 DEF SessionCall
<1>15. CASE Environment
  BY <1>15, <1>10, <1>11 DEF Environment
<1>16. QED
  BY <1>12, <1>13, <1>14, <1>15 DEF Next

(* Every state of the queue is made of rows of the database schema.        *)
THEOREM TypeCorrect == Spec => []TypeOK
<1>1. QED
  BY InitTypeOK, NextTypeOK, PTL DEF Spec

-----------------------------------------------------------------------------
(* What one step may do to the table: create the next row, or move rows    *)
(* that are open.  A closed row never changes again, and no row ever       *)
(* changes its range or its attempt number.                                *)

Creates == \E range \in listed, t \in CallTime : Enqueue(range, t)

RowMoves(j) ==
  /\ jobs[j].status \in {"PENDING", "LEASED"}
  /\ jobs'[j].status \in {"PENDING", "LEASED", "COMPLETED", "FAILED"}
  /\ jobs'[j].range = jobs[j].range
  /\ jobs'[j].attemptNumber = jobs[j].attemptNumber

OpenRowsMove == \A j \in JobId : jobs'[j] = jobs[j] \/ RowMoves(j)

LEMMA StepMovesRows ==
  ASSUME TypeOK, [Next]_queueVars
  PROVE  Creates \/ OpenRowsMove
<1>a. jobs \in [JobId -> Job] /\ \A j \in JobId : jobs[j] \in Job
  BY DEF TypeOK
<1>1. CASE ListCandidates
  BY <1>1 DEF ListCandidates, OpenRowsMove
<1>2. ASSUME NEW range \in listed, NEW t \in CallTime, Enqueue(range, t)
      PROVE  Creates
  BY <1>2 DEF Creates
<1>3. ASSUME NEW t \in CallTime, NEW locked \in SUBSET JobId,
             RecoverExpiredLeases(t, locked)
      PROVE  OpenRowsMove
  <2>1. \A j \in RecoverBatch(t, locked) : jobs[j].status = "LEASED"
    BY RecoverBatchExpired DEF Expired
  <2>2. QED
    BY <1>3, <1>a, <2>1
       DEF RecoverExpiredLeases, OpenRowsMove, RowMoves, Released, Job
<1>4. ASSUME NEW t \in CallTime, NEW locked \in SUBSET JobId,
             NEW c \in ClaimId, NEW w \in WorkerId, ClaimDue(c, w, t, locked)
      PROVE  OpenRowsMove
  <2>1. \A j \in ClaimBatch(t, locked) : jobs[j].status = "PENDING"
    BY ClaimBatchClaimable DEF Claimable
  <2>2. QED
    BY <1>4, <1>a, <2>1 DEF ClaimDue, OpenRowsMove, RowMoves, Leased, Job
<1>5. ASSUME NEW j \in JobId, NEW token \in 1..jobs[j].attemptCount,
             NEW t \in CallTime, NEW willRetry \in BOOLEAN, Fail(j, token, t, willRetry)
      PROVE  OpenRowsMove
  BY <1>5, <1>a DEF Fail, HoldsLease, OpenRowsMove, RowMoves, Released, Job
<1>6. ASSUME NEW j \in JobId, NEW token \in 1..jobs[j].attemptCount,
             CompleteLease(j, token)
      PROVE  OpenRowsMove
  <2>1. CASE jobs' = jobs
    BY <2>1 DEF OpenRowsMove
  <2>2. CASE /\ HoldsLease(j, token)
             /\ jobs' = [jobs EXCEPT ![j] =
                  [Released(@, "COMPLETED", "COMPLETED") EXCEPT !.completedAt = TRUE]]
    BY <2>2, <1>a DEF HoldsLease, OpenRowsMove, RowMoves, Released, Job
  <2>3. QED
    BY <1>6, <2>1, <2>2 DEF CompleteLease
<1>7. ASSUME NEW j \in JobId, NEW t \in CallTime,
             NEW class \in Classification, RecordEvidence(j, t, class)
      PROVE  OpenRowsMove
  BY <1>7 DEF RecordEvidence, OpenRowsMove
<1>8. ASSUME NEW j \in JobId, NEW t \in CallTime, CreateProposal(j, t)
      PROVE  OpenRowsMove
  BY <1>8 DEF CreateProposal, OpenRowsMove
<1>9. ASSUME NEW j \in JobId, NEW t \in CallTime,
             NEW outcome \in Outcome, CompleteReview(j, t, outcome)
      PROVE  OpenRowsMove
  BY <1>9, <1>a DEF CompleteReview, RequireActive, OpenRowsMove, RowMoves, Released, Job
<1>10. ASSUME NEW r \in Repo, NEW row \in RegistryRow, RegistryChanges(r, row)
       PROVE  OpenRowsMove
  BY <1>10 DEF RegistryChanges, OpenRowsMove
<1>11. CASE Tick
  BY <1>11 DEF Tick, OpenRowsMove
<1>12. CASE UNCHANGED queueVars
  BY <1>12 DEF queueVars, OpenRowsMove
<1>13. CASE DispatcherCall
  BY <1>13, <1>1, <1>2, <1>3, <1>4, <1>5, <1>6 DEF DispatcherCall
<1>14. CASE SessionCall
  BY <1>14, <1>7, <1>8, <1>9 DEF SessionCall
<1>15. CASE Environment
  BY <1>15, <1>10, <1>11 DEF Environment
<1>16. QED
  BY <1>12, <1>13, <1>14, <1>15 DEF Next

-----------------------------------------------------------------------------
(* At most one attempt at a range is open.                                 *)

LEMMA InitOneOpenAttempt == Init => OneOpenAttempt
BY DEF Init, OneOpenAttempt, Exists, NoJob

(* The new row follows every earlier attempt, and all of those are         *)
(* inconclusive: the latest by the guard, the others by the invariant.     *)
Follows(range, n) ==
  \A k \in Attempts(range) : jobs[k].attemptNumber < n /\ PermitsRetry(k)

LEMMA EnqueueFollows ==
  ASSUME TypeOK, OneOpenAttempt, NEW range, NEW t, Enqueue(range, t)
  PROVE  \E j \in JobId, n \in Nat : Create(j, range, n, t) /\ Follows(range, n)
<1>a. \A j \in JobId : jobs[j].attemptNumber \in Nat
  BY DEF TypeOK, Job
<1>1. CASE Attempts(range) = {} /\ \E j \in JobId : Create(j, range, 1, t)
  BY <1>1 DEF Follows
<1>2. ASSUME NEW latest \in JobId, IsLatestAttempt(latest, range), PermitsRetry(latest),
             NEW j \in JobId, Create(j, range, jobs[latest].attemptNumber + 1, t)
      PROVE  \E i \in JobId, n \in Nat : Create(i, range, n, t) /\ Follows(range, n)
  <2>. DEFINE m == jobs[latest].attemptNumber + 1
  <2>1. m \in Nat
    BY <1>a
  <2>2. ASSUME NEW k \in Attempts(range)
        PROVE  jobs[k].attemptNumber < m /\ PermitsRetry(k)
    <3>1. k \in JobId /\ Exists(k) /\ jobs[k].range = range
      BY DEF Attempts
    <3>2. Exists(latest) /\ jobs[latest].range = range
      BY <1>2 DEF IsLatestAttempt, Attempts
    <3>3. jobs[k].attemptNumber <= jobs[latest].attemptNumber
      BY <1>2 DEF IsLatestAttempt
    <3>4. k # latest => jobs[k].attemptNumber # jobs[latest].attemptNumber
                        /\ (jobs[k].attemptNumber < jobs[latest].attemptNumber
                              => PermitsRetry(k))
      BY <3>1, <3>2 DEF OneOpenAttempt
    <3>5. QED
      BY <1>a, <1>2, <3>1, <3>3, <3>4
  <2>3. Follows(range, m)
    BY <2>2 DEF Follows
  <2>4. QED
    BY <1>2, <2>1, <2>3
<1>3. QED
  BY <1>1, <1>2 DEF Enqueue

LEMMA CreateOneOpenAttempt ==
  ASSUME TypeOK, OneOpenAttempt, NEW range, NEW t, Enqueue(range, t)
  PROVE  OneOpenAttempt'
<1>a. \A j \in JobId : jobs[j] \in Job /\ jobs[j].attemptNumber \in Nat
  BY DEF TypeOK, Job
<1>1. PICK new \in JobId, n \in Nat :
        /\ Create(new, range, n, t)
        /\ \A k \in Attempts(range) : jobs[k].attemptNumber < n /\ PermitsRetry(k)
  BY EnqueueFollows DEF Follows
<1>2. ~Exists(new) /\ jobs' = [jobs EXCEPT ![new] = NewJob(range, n, t)]
  BY <1>1 DEF Create, IsNextRow
<1>3. jobs'[new].range = range /\ jobs'[new].attemptNumber = n
  BY <1>2 DEF TypeOK, NewJob, NoJob
<1>4. \A j \in JobId \ {new} : jobs'[j] = jobs[j]
  BY <1>2 DEF TypeOK
<1>5. ASSUME NEW j \in JobId, NEW k \in JobId, j # k, Exists(j)', Exists(k)',
             jobs'[j].range = jobs'[k].range
      PROVE  /\ jobs'[j].attemptNumber # jobs'[k].attemptNumber
             /\ jobs'[j].attemptNumber < jobs'[k].attemptNumber => PermitsRetry(j)'
  <2>1. CASE j # new /\ k # new
    BY <2>1, <1>4, <1>5 DEF OneOpenAttempt, Exists, PermitsRetry
  <2>2. CASE j = new
    <3>1. k \in Attempts(range)
      BY <2>2, <1>3, <1>4, <1>5 DEF Attempts, Exists
    <3>2. jobs'[k].attemptNumber < jobs'[j].attemptNumber
      BY <3>1, <1>1, <1>3, <1>4, <1>5, <2>2
    <3>3. QED
      BY <3>2, <1>a, <1>3, <1>4, <1>5, <2>2
  <2>3. CASE k = new
    <3>1. j \in Attempts(range)
      BY <2>3, <1>3, <1>4, <1>5 DEF Attempts, Exists
    <3>2. jobs'[j].attemptNumber < jobs'[k].attemptNumber /\ PermitsRetry(j)
      BY <3>1, <1>1, <1>3, <1>4, <1>5, <2>3
    <3>3. QED
      BY <3>2, <1>a, <1>3, <1>4, <1>5, <2>3 DEF PermitsRetry
  <2>4. QED
    BY <2>1, <2>2, <2>3
<1>6. QED
  BY <1>5 DEF OneOpenAttempt

LEMMA MoveOneOpenAttempt ==
  ASSUME OneOpenAttempt, OpenRowsMove
  PROVE  OneOpenAttempt'
<1>1. \A j \in JobId : /\ Exists(j)' => Exists(j)
                       /\ jobs'[j].range = jobs[j].range
                       /\ jobs'[j].attemptNumber = jobs[j].attemptNumber
                       /\ PermitsRetry(j) => PermitsRetry(j)'
  BY DEF OpenRowsMove, RowMoves, Exists, PermitsRetry
<1>2. QED
  BY <1>1 DEF OneOpenAttempt

(* A range has at most one open attempt, and a second one only after every *)
(* earlier one was inconclusive.                                           *)
THEOREM OneOpenAttemptHolds == Spec => []OneOpenAttempt
<1>1. TypeOK /\ OneOpenAttempt /\ [Next]_queueVars => OneOpenAttempt'
  BY StepMovesRows, CreateOneOpenAttempt, MoveOneOpenAttempt DEF Creates
<1>2. QED
  BY InitOneOpenAttempt, <1>1, TypeCorrect, PTL DEF Spec

-----------------------------------------------------------------------------
(* Every row written satisfies the CHECK constraints, provided the row it  *)
(* replaces did.                                                           *)

LEMMA NoneIsNoOutcome == NoOutcome \notin Outcome
BY OutcomeAssumption DEF OutcomeAssumption, NoOutcome

LEMMA NewJobAccepted ==
  ASSUME NEW range, NEW n, NEW t
  PROVE  RowAccepted(NewJob(range, n, t))
BY DEF NewJob, NoJob, RowAccepted, NoLease, NoOutcome

LEMMA LeasedAccepted ==
  ASSUME NEW job \in Job, job.status = "PENDING", RowAccepted(job),
         NEW c \in ClaimId, NEW t \in Nat
  PROVE  RowAccepted(Leased(job, c, t))
<1>1. job.attemptCount + 1 # NoToken /\ t + LeaseFor # Never
  BY LeaseAssumption DEF LeaseAssumption, Job, NoToken, Never
<1>2. QED
  BY <1>1, NoneIsNoOutcome DEF Leased, RowAccepted, NoLease, Job

LEMMA RequeuedAccepted ==
  ASSUME NEW job \in Job, job.status = "LEASED", RowAccepted(job),
         NEW lastOutcome \in {"FAILED", "RECOVERED"}, NEW t
  PROVE  RowAccepted([Released(job, "PENDING", lastOutcome) EXCEPT !.availableAt = t])
BY NoneIsNoOutcome DEF Released, RowAccepted, NoLease, Job

LEMMA FailedAccepted ==
  ASSUME NEW job \in Job, job.status = "LEASED", RowAccepted(job)
  PROVE  RowAccepted([Released(job, "FAILED", "FAILED") EXCEPT !.failedAt = TRUE])
BY NoneIsNoOutcome DEF Released, RowAccepted, NoLease, Job

LEMMA CompletedAccepted ==
  ASSUME NEW job \in Job, job.status = "LEASED", RowAccepted(job)
  PROVE  RowAccepted(
           [Released(job, "COMPLETED", "COMPLETED") EXCEPT !.completedAt = TRUE])
BY NoneIsNoOutcome DEF Released, RowAccepted, NoLease, Job

LEMMA ReviewedAccepted ==
  ASSUME NEW job \in Job, job.status = "LEASED", RowAccepted(job),
         NEW outcome \in Outcome
  PROVE  RowAccepted(
           [Released(job, "COMPLETED", "COMPLETED")
              EXCEPT !.completedAt = TRUE, !.failedAt = FALSE,
                     !.outcome = outcome, !.cursorAdvancedAt = (outcome # "INCOMPLETE")])
BY NoneIsNoOutcome DEF Released, RowAccepted, NoLease, Job

LEMMA InitRowsAccepted == Init => RowsAccepted
BY DEF Init, RowsAccepted, Exists, NoJob

LEMMA NextRowsAccepted ==
  ASSUME TypeOK, RowsAccepted, [Next]_queueVars
  PROVE  RowsAccepted'
<1>a. jobs \in [JobId -> Job] /\ \A j \in JobId : jobs[j] \in Job
  BY DEF TypeOK
<1>b. \A j \in JobId : jobs[j].status # "ABSENT" => RowAccepted(jobs[j])
  BY DEF RowsAccepted, Exists
<1>c. CallTime \subseteq Nat
  BY DEF CallTime
<1>1. ASSUME jobs' = jobs
      PROVE  RowsAccepted'
  BY <1>1, <1>b DEF RowsAccepted, Exists
<1>2. ASSUME NEW range \in listed, NEW t \in CallTime, Enqueue(range, t)
      PROVE  RowsAccepted'
  <2>1. PICK j \in JobId, n \in Nat : Create(j, range, n, t)
    BY <1>2, EnqueueCreates
  <2>2. jobs' = [jobs EXCEPT ![j] = NewJob(range, n, t)]
    BY <2>1 DEF Create
  <2>3. QED
    BY <2>2, <1>a, <1>b, NewJobAccepted DEF RowsAccepted, Exists
<1>3. ASSUME NEW t \in CallTime, NEW locked \in SUBSET JobId,
             RecoverExpiredLeases(t, locked)
      PROVE  RowsAccepted'
  <2>1. \A j \in RecoverBatch(t, locked) : jobs[j].status = "LEASED"
    BY RecoverBatchExpired DEF Expired
  <2>2. \A j \in JobId : jobs[j].status = "LEASED" => RowAccepted(
          [Released(jobs[j], "PENDING", "RECOVERED") EXCEPT !.availableAt = t])
    BY <1>a, <1>b, RequeuedAccepted
  <2>3. \A j \in JobId : jobs'[j] =
          IF j \in RecoverBatch(t, locked)
            THEN [Released(jobs[j], "PENDING", "RECOVERED") EXCEPT !.availableAt = t]
            ELSE jobs[j]
    BY <1>3 DEF RecoverExpiredLeases
  <2>4. QED
    BY <2>1, <2>2, <2>3, <1>b DEF RowsAccepted, Exists
<1>4. ASSUME NEW t \in CallTime, NEW locked \in SUBSET JobId,
             NEW c \in ClaimId, NEW w \in WorkerId, ClaimDue(c, w, t, locked)
      PROVE  RowsAccepted'
  <2>1. \A j \in ClaimBatch(t, locked) : jobs[j].status = "PENDING"
    BY ClaimBatchClaimable DEF Claimable
  <2>2. \A j \in JobId : jobs[j].status = "PENDING" => RowAccepted(Leased(jobs[j], c, t))
    BY <1>a, <1>b, <1>c, LeasedAccepted
  <2>3. \A j \in JobId : jobs'[j] =
          IF j \in ClaimBatch(t, locked) THEN Leased(jobs[j], c, t) ELSE jobs[j]
    BY <1>4 DEF ClaimDue
  <2>4. QED
    BY <2>1, <2>2, <2>3, <1>b DEF RowsAccepted, Exists
<1>5. ASSUME NEW j \in JobId, NEW row, RowAccepted(row), jobs' = [jobs EXCEPT ![j] = row]
      PROVE  RowsAccepted'
  BY <1>5, <1>a, <1>b DEF RowsAccepted, Exists
<1>6. ASSUME NEW j \in JobId, NEW token \in 1..jobs[j].attemptCount,
             NEW t \in CallTime, NEW willRetry \in BOOLEAN, Fail(j, token, t, willRetry)
      PROVE  RowsAccepted'
  <2>1. RowAccepted([Released(jobs[j], "PENDING", "FAILED")
                       EXCEPT !.availableAt = t + RetryDelay])
    BY <1>6, <1>a, <1>b, RequeuedAccepted DEF Fail, HoldsLease
  <2>2. RowAccepted([Released(jobs[j], "FAILED", "FAILED") EXCEPT !.failedAt = TRUE])
    BY <1>6, <1>a, <1>b, FailedAccepted DEF Fail, HoldsLease
  <2>3. QED
    BY <1>6, <2>1, <2>2, <1>5 DEF Fail
<1>7. ASSUME NEW j \in JobId, NEW token \in 1..jobs[j].attemptCount,
             CompleteLease(j, token)
      PROVE  RowsAccepted'
  <2>1. CASE HoldsLease(j, token) /\ jobs' = [jobs EXCEPT ![j] =
               [Released(@, "COMPLETED", "COMPLETED") EXCEPT !.completedAt = TRUE]]
    <3>1. RowAccepted(
            [Released(jobs[j], "COMPLETED", "COMPLETED") EXCEPT !.completedAt = TRUE])
      BY <2>1, <1>a, <1>b, CompletedAccepted DEF HoldsLease
    <3>2. QED
      BY <2>1, <3>1, <1>5
  <2>2. QED
    BY <1>7, <2>1, <1>1 DEF CompleteLease
<1>8. ASSUME NEW j \in JobId, NEW t \in CallTime,
             NEW outcome \in Outcome, CompleteReview(j, t, outcome)
      PROVE  RowsAccepted'
  <2>1. RowAccepted(
          [Released(jobs[j], "COMPLETED", "COMPLETED")
             EXCEPT !.completedAt = TRUE, !.failedAt = FALSE,
                    !.outcome = outcome, !.cursorAdvancedAt = (outcome # "INCOMPLETE")])
    BY <1>8, <1>a, <1>b, ReviewedAccepted DEF CompleteReview, RequireActive
  <2>2. QED
    BY <1>8, <2>1, <1>5 DEF CompleteReview
<1>9. CASE DispatcherCall
  BY <1>9, <1>1, <1>2, <1>3, <1>4, <1>6, <1>7 DEF DispatcherCall, ListCandidates
<1>10. CASE SessionCall
  BY <1>10, <1>1, <1>8 DEF SessionCall, RecordEvidence, CreateProposal
<1>11. CASE Environment
  BY <1>11, <1>1 DEF Environment, RegistryChanges, Tick
<1>12. QED
  BY <1>1, <1>9, <1>10, <1>11 DEF Next, queueVars

(* No transaction of a store is ever rejected by the CHECK constraints of  *)
(* review_jobs.                                                            *)
THEOREM RowsAlwaysAccepted == Spec => []RowsAccepted
<1>1. QED
  BY InitRowsAccepted, NextRowsAccepted, TypeCorrect, PTL DEF Spec

-----------------------------------------------------------------------------
(* Finished reviews.                                                       *)

(* A row number that is not in use yet carries no data.                    *)
AbsentRowsEmpty == \A j \in JobId : ~Exists(j) => jobs[j] = NoJob

QueueInv == TypeOK /\ RowsAccepted /\ AbsentRowsEmpty

LEMMA CreatesOneRow ==
  ASSUME TypeOK, Creates
  PROVE  \E range \in listed, new \in JobId, n \in Nat, t \in CallTime :
           /\ Create(new, range, n, t)
           /\ ~Exists(new)
           /\ jobs' = [jobs EXCEPT ![new] = NewJob(range, n, t)]
<1>1. PICK range \in listed, t \in CallTime : Enqueue(range, t)
  BY DEF Creates
<1>2. PICK new \in JobId, n \in Nat : Create(new, range, n, t)
  BY <1>1, EnqueueCreates
<1>3. ~Exists(new) /\ jobs' = [jobs EXCEPT ![new] = NewJob(range, n, t)]
  BY <1>2 DEF Create, IsNextRow
<1>4. QED
  BY <1>2, <1>3

LEMMA RowsStay ==
  ASSUME TypeOK, [Next]_queueVars, NEW j \in JobId, Exists(j)
  PROVE  /\ Exists(j)'
         /\ jobs'[j].range = jobs[j].range
         /\ jobs[j].status \in {"COMPLETED", "FAILED"} => jobs'[j] = jobs[j]
<1>1. CASE Creates
  BY <1>1, CreatesOneRow DEF TypeOK, Exists
<1>2. CASE OpenRowsMove
  BY <1>2 DEF OpenRowsMove, RowMoves, Exists
<1>3. QED
  BY <1>1, <1>2, StepMovesRows

LEMMA InitAbsentRowsEmpty == Init => AbsentRowsEmpty
BY DEF Init, AbsentRowsEmpty

LEMMA NextAbsentRowsEmpty ==
  ASSUME TypeOK, AbsentRowsEmpty, [Next]_queueVars
  PROVE  AbsentRowsEmpty'
<1>1. CASE Creates
  <2>1. PICK range \in listed, new \in JobId, n \in Nat, t \in CallTime :
          jobs' = [jobs EXCEPT ![new] = NewJob(range, n, t)]
    BY <1>1, CreatesOneRow
  <2>2. NewJob(range, n, t).status = "PENDING"
    BY DEF NewJob, NoJob
  <2>3. QED
    BY <2>1, <2>2 DEF AbsentRowsEmpty, Exists, TypeOK
<1>2. CASE OpenRowsMove
  BY <1>2 DEF OpenRowsMove, RowMoves, AbsentRowsEmpty, Exists
<1>3. QED
  BY <1>1, <1>2, StepMovesRows

(* The inductive invariant of the queue holds always, whoever calls it.    *)
THEOREM QueueInvHolds == Spec => []QueueInv
<1>1. QueueInv /\ [Next]_queueVars => AbsentRowsEmpty'
  BY NextAbsentRowsEmpty DEF QueueInv
<1>2. Spec => []AbsentRowsEmpty
  BY <1>1, InitAbsentRowsEmpty, TypeCorrect, RowsAlwaysAccepted, PTL DEF Spec, QueueInv
<1>3. QED
  BY <1>2, TypeCorrect, RowsAlwaysAccepted, PTL DEF QueueInv

LEMMA OutcomeMeansCompleted ==
  ASSUME QueueInv, NEW j \in JobId,
         jobs[j].outcome # NoOutcome \/ jobs[j].cursorAdvancedAt
  PROVE  jobs[j].status = "COMPLETED" /\ Exists(j)
<1>1. Exists(j)
  BY DEF QueueInv, AbsentRowsEmpty, NoJob
<1>2. RowAccepted(jobs[j])
  BY <1>1 DEF QueueInv, RowsAccepted
<1>3. QED
  BY <1>1, <1>2, NoneIsNoOutcome DEF RowAccepted

(* Evidence and proposals are written under a lease only.                  *)
LEMMA EvidenceNeedsLease ==
  ASSUME TypeOK, [Next]_queueVars, NEW j \in JobId, jobs[j].status # "LEASED"
  PROVE  /\ comparisons'[j] = comparisons[j]
         /\ j \in proposed' <=> j \in proposed
<1>1. ASSUME comparisons' = comparisons, proposed' = proposed
      PROVE  comparisons'[j] = comparisons[j] /\ (j \in proposed' <=> j \in proposed)
  BY <1>1
<1>2. CASE DispatcherCall
  BY <1>1, <1>2 DEF DispatcherCall, ListCandidates, Enqueue, Create,
     RecoverExpiredLeases, ClaimDue, Fail, CompleteLease
<1>3. CASE SessionCall
  BY <1>1, <1>3 DEF SessionCall, RecordEvidence, CreateProposal, CompleteReview,
     RequireActive, TypeOK
<1>4. CASE Environment
  BY <1>1, <1>4 DEF Environment, RegistryChanges, Tick
<1>5. QED
  BY <1>1, <1>2, <1>3, <1>4 DEF Next, queueVars

LEMMA FinishedStay ==
  ASSUME QueueInv, [Next]_queueVars, NEW j \in JobId, jobs[j].outcome # NoOutcome
  PROVE  /\ jobs'[j] = jobs[j]
         /\ comparisons'[j] = comparisons[j]
         /\ j \in proposed' <=> j \in proposed
BY OutcomeMeansCompleted, RowsStay, EvidenceNeedsLease DEF QueueInv

(* No call, however late, touches a finished review or what it rests on.   *)
THEOREM FinishedJobsStayFrozen == Spec => FinishedJobsAreFrozen
<1>1. QueueInv /\ [Next]_queueVars =>
        [\A j \in JobId : jobs[j].outcome # NoOutcome =>
           /\ jobs'[j] = jobs[j]
           /\ comparisons'[j] = comparisons[j]
           /\ j \in proposed' <=> j \in proposed]_queueVars
  BY FinishedStay
<1>2. QED
  BY <1>1, QueueInvHolds, PTL DEF Spec, FinishedJobsAreFrozen

-----------------------------------------------------------------------------
(* Outcomes and cursors change only when a session completes its review.   *)

LEMMA OnlyReviewsRecord ==
  ASSUME QueueInv, [Next]_queueVars
  PROVE  \/ \E j \in JobId, t \in CallTime, outcome \in Outcome :
              CompleteReview(j, t, outcome)
         \/ /\ cursor' = cursor
            /\ \A j \in JobId : /\ jobs'[j].outcome = jobs[j].outcome
                                /\ jobs'[j].cursorAdvancedAt = jobs[j].cursorAdvancedAt
<1>. DEFINE Same == \A j \in JobId :
                      /\ jobs'[j].outcome = jobs[j].outcome
                      /\ jobs'[j].cursorAdvancedAt = jobs[j].cursorAdvancedAt
<1>a. jobs \in [JobId -> Job] /\ \A j \in JobId : jobs[j] \in Job
  BY DEF QueueInv, TypeOK
<1>1. ASSUME jobs' = jobs
      PROVE  Same
  BY <1>1
<1>2. ASSUME NEW range \in listed, NEW t \in CallTime, Enqueue(range, t)
      PROVE  Same /\ cursor' = cursor
  <2>1. PICK j \in JobId, n \in Nat : Create(j, range, n, t)
    BY <1>2, EnqueueCreates DEF QueueInv
  <2>2. jobs' = [jobs EXCEPT ![j] = NewJob(range, n, t)] /\ ~Exists(j)
    BY <2>1 DEF Create, IsNextRow
  <2>3. jobs[j] = NoJob
    BY <2>2 DEF QueueInv, AbsentRowsEmpty
  <2>4. /\ NewJob(range, n, t).outcome = NoJob.outcome
        /\ NewJob(range, n, t).cursorAdvancedAt = NoJob.cursorAdvancedAt
    BY DEF NewJob, NoJob
  <2>5. QED
    BY <2>1, <2>2, <2>3, <2>4, <1>a DEF Create
<1>3. ASSUME NEW t \in CallTime, NEW locked \in SUBSET JobId,
             RecoverExpiredLeases(t, locked)
      PROVE  Same /\ cursor' = cursor
  BY <1>3, <1>a DEF RecoverExpiredLeases, Released, Job
<1>4. ASSUME NEW t \in CallTime, NEW locked \in SUBSET JobId,
             NEW c \in ClaimId, NEW w \in WorkerId, ClaimDue(c, w, t, locked)
      PROVE  Same /\ cursor' = cursor
  BY <1>4, <1>a DEF ClaimDue, Leased, Job
<1>5. ASSUME NEW j \in JobId, NEW token \in 1..jobs[j].attemptCount,
             NEW t \in CallTime, NEW willRetry \in BOOLEAN, Fail(j, token, t, willRetry)
      PROVE  Same /\ cursor' = cursor
  BY <1>5, <1>a DEF Fail, Released, Job
<1>6. ASSUME NEW j \in JobId, NEW token \in 1..jobs[j].attemptCount,
             CompleteLease(j, token)
      PROVE  Same /\ cursor' = cursor
  <2>1. CASE jobs' = [jobs EXCEPT ![j] =
               [Released(@, "COMPLETED", "COMPLETED") EXCEPT !.completedAt = TRUE]]
    BY <2>1, <1>6, <1>a DEF CompleteLease, Released, Job
  <2>2. QED
    BY <2>1, <1>1, <1>6 DEF CompleteLease
<1>7. CASE DispatcherCall
  BY <1>7, <1>1, <1>2, <1>3, <1>4, <1>5, <1>6 DEF DispatcherCall, ListCandidates
<1>8. CASE SessionCall
  BY <1>8, <1>1 DEF SessionCall, RecordEvidence, CreateProposal
<1>9. CASE Environment
  BY <1>9, <1>1 DEF Environment, RegistryChanges, Tick
<1>10. QED
  BY <1>1, <1>7, <1>8, <1>9 DEF Next, queueVars

LEMMA InitOutcomeJustified == Init => OutcomeJustified
BY DEF Init, OutcomeJustified, NoJob

LEMMA NextOutcomeJustified ==
  ASSUME QueueInv, OutcomeJustified, [Next]_queueVars
  PROVE  OutcomeJustified'
<1>1. ASSUME NEW j \in JobId, jobs[j].outcome # NoOutcome
      PROVE  EvidenceSupports(j, jobs[j].outcome)'
  <2>1. EvidenceSupports(j, jobs[j].outcome)
    BY <1>1 DEF OutcomeJustified
  <2>2. QED
    BY <2>1, <1>1, FinishedStay DEF EvidenceSupports
<1>2. ASSUME NEW k \in JobId, NEW t \in CallTime, NEW outcome \in Outcome,
             CompleteReview(k, t, outcome),
             NEW j \in JobId, jobs[j].outcome = NoOutcome, jobs'[j].outcome # NoOutcome
      PROVE  EvidenceSupports(j, jobs[j].outcome)'
  <2>1. j = k /\ jobs'[j].outcome = outcome
    BY <1>2 DEF CompleteReview, Released, QueueInv, TypeOK, Job
  <2>2. EvidenceSupports(j, outcome) /\ UNCHANGED <<comparisons, proposed>>
    BY <1>2, <2>1 DEF CompleteReview
  <2>3. QED
    BY <2>1, <2>2 DEF EvidenceSupports
<1>3. QED
  BY <1>1, <1>2, OnlyReviewsRecord DEF OutcomeJustified

(* The evidence stored for a finished review supports its outcome, for     *)
(* good: nothing written before, during or after completion contradicts it.*)
THEOREM OutcomesStayJustified == Spec => []OutcomeJustified
<1>1. QED
  BY InitOutcomeJustified, NextOutcomeJustified, QueueInvHolds, PTL DEF Spec

LEMMA InitCursorReviewed == Init => CursorReviewed
BY DEF Init, CursorReviewed

LEMMA NextCursorReviewed ==
  ASSUME QueueInv, CursorReviewed, [Next]_queueVars
  PROVE  CursorReviewed'
<1>. DEFINE Witness(j, r) == /\ jobs[j].cursorAdvancedAt
                             /\ jobs[j].range.repo = r
                             /\ jobs[j].range.head = cursor[r]
<1>1. ASSUME NEW j \in JobId, jobs[j].cursorAdvancedAt
      PROVE  jobs'[j] = jobs[j]
  BY <1>1, OutcomeMeansCompleted, RowsStay DEF QueueInv
<1>2. ASSUME NEW r \in Repo, cursor'[r] = cursor[r], cursor[r] # NoCommit
      PROVE  \E j \in JobId : Witness(j, r)'
  <2>1. PICK j \in JobId : Witness(j, r)
    BY <1>2 DEF CursorReviewed
  <2>2. QED
    BY <2>1, <1>1, <1>2
<1>3. ASSUME NEW k \in JobId, NEW t \in CallTime, NEW outcome \in Outcome,
             CompleteReview(k, t, outcome), outcome # "INCOMPLETE",
             NEW r \in Repo, r = jobs[k].range.repo
      PROVE  Witness(k, r)'
  <2>a. jobs \in [JobId -> Job] /\ jobs[k] \in Job /\ cursor \in [Repo -> Commit \cup {NoCommit}]
    BY DEF QueueInv, TypeOK
  <2>1. jobs'[k] = [Released(jobs[k], "COMPLETED", "COMPLETED")
           EXCEPT !.completedAt = TRUE, !.failedAt = FALSE,
                  !.outcome = outcome, !.cursorAdvancedAt = (outcome # "INCOMPLETE")]
    BY <1>3, <2>a DEF CompleteReview
  <2>2. jobs'[k].range = jobs[k].range /\ jobs'[k].cursorAdvancedAt
    BY <1>3, <2>a, <2>1 DEF Released, Job
  <2>3. cursor'[r] = jobs[k].range.head
    BY <1>3, <2>a DEF CompleteReview, AdvanceCursor
  <2>4. QED
    BY <1>3, <2>2, <2>3
<1>4. ASSUME NEW k \in JobId, NEW t \in CallTime, NEW outcome \in Outcome,
             CompleteReview(k, t, outcome),
             NEW r \in Repo, outcome = "INCOMPLETE" \/ r # jobs[k].range.repo
      PROVE  cursor'[r] = cursor[r]
  BY <1>4 DEF CompleteReview, AdvanceCursor, QueueInv, TypeOK
<1>5. ASSUME NEW r \in Repo, cursor'[r] # NoCommit
      PROVE  \E j \in JobId : Witness(j, r)'
  BY <1>2, <1>3, <1>4, <1>5, OnlyReviewsRecord
<1>6. QED
  BY <1>5 DEF CursorReviewed

(* The cursor of a repository is always the head of a review that          *)
(* succeeded.                                                              *)
THEOREM CursorAlwaysReviewed == Spec => []CursorReviewed
<1>1. QED
  BY InitCursorReviewed, NextCursorReviewed, QueueInvHolds, PTL DEF Spec

-----------------------------------------------------------------------------
(* The order of commits, as long as heads only move forward.               *)

(* A range runs forward to a head the registry has reached.                *)
Forward(range) ==
  /\ range \in Range
  /\ range.base <= range.head
  /\ range.head <= registry[range.repo].head

CommitsInOrder ==
  /\ \A range \in listed : Forward(range)
  /\ \A j \in JobId : Exists(j) => Forward(jobs[j].range)
  /\ \A r \in Repo : cursor[r] <= registry[r].head
  /\ \A j \in JobId : jobs[j].cursorAdvancedAt =>
       jobs[j].range.head <= cursor[jobs[j].range.repo]

LEMMA CommitNumbers ==
  ASSUME TypeOK
  PROVE  /\ \A r \in Repo : registry[r].head \in Nat /\ cursor[r] \in Nat
         /\ \A range \in Range :
              range.repo \in Repo /\ range.base \in Nat /\ range.head \in Nat
<1>1. Commit \subseteq Nat /\ NoCommit \in Nat
  BY CommitAssumption DEF CommitAssumption, NoCommit
<1>2. \A r \in Repo : registry[r].head \in Commit /\ cursor[r] \in Commit \cup {NoCommit}
  BY DEF TypeOK, RegistryRow
<1>3. \A range \in Range : /\ range.repo \in Repo
                           /\ range.base \in Commit \cup {NoCommit}
                           /\ range.head \in Commit
  BY DEF Range
<1>4. QED
  BY <1>1, <1>2, <1>3

LEMMA InitCommitsInOrder == Init => CommitsInOrder
<1>. SUFFICES ASSUME Init
              PROVE  CommitsInOrder
  OBVIOUS
<1>1. \A r \in Repo : registry[r].head \in Nat /\ cursor[r] = 0
  BY InitTypeOK, CommitNumbers DEF Init, NoCommit
<1>2. QED
  BY <1>1 DEF Init, CommitsInOrder, Exists, NoJob

LEMMA RegistryMovesForward ==
  ASSUME ~HeadMayMoveBack, TypeOK, [Next]_queueVars
  PROVE  \A r \in Repo : registry'[r].head >= registry[r].head
<1>. SUFFICES ASSUME registry' # registry
              PROVE  \A r \in Repo : registry'[r].head >= registry[r].head
  BY CommitNumbers
<1>1. ~DispatcherCall
  BY DEF DispatcherCall, ListCandidates, Enqueue, Create, RecoverExpiredLeases,
     ClaimDue, Fail, CompleteLease
<1>2. ~SessionCall
  BY DEF SessionCall, RecordEvidence, CreateProposal, CompleteReview
<1>3. PICK r \in Repo, row \in RegistryRow : RegistryChanges(r, row)
  BY <1>1, <1>2 DEF Next, Environment, Tick, queueVars
<1>4. QED
  BY <1>3, CommitNumbers DEF RegistryChanges, TypeOK

LEMMA ListedMoveForward ==
  ASSUME TypeOK, CommitsInOrder, [Next]_queueVars, NEW range \in listed'
  PROVE  Forward(range)
<1>1. ListDueReviewCandidates \subseteq {DueRange(r) : r \in Repo}
  BY DEF ListDueReviewCandidates
<1>2. \A r \in Repo : DueRange(r).repo = r /\ DueRange(r).base = cursor[r]
                      /\ DueRange(r).head = registry[r].head
  BY DEF DueRange
<1>3. \A due \in ListDueReviewCandidates : Forward(due)
  BY <1>1, <1>2, DueRangeType, CommitNumbers DEF Forward, CommitsInOrder
<1>4. CASE listed' = listed
  BY <1>4 DEF CommitsInOrder
<1>5. CASE ListCandidates
  BY <1>5, <1>3 DEF ListCandidates, CommitsInOrder
<1>6. ListCandidates \/ listed' = listed
  <2>1. CASE DispatcherCall
    BY <2>1 DEF DispatcherCall, Enqueue, Create, RecoverExpiredLeases, ClaimDue,
       Fail, CompleteLease
  <2>2. CASE SessionCall
    BY <2>2 DEF SessionCall, RecordEvidence, CreateProposal, CompleteReview
  <2>3. CASE Environment
    BY <2>3 DEF Environment, RegistryChanges, Tick
  <2>4. QED
    BY <2>1, <2>2, <2>3 DEF Next, queueVars
<1>7. QED
  BY <1>4, <1>5, <1>6

LEMMA JobsMoveForward ==
  ASSUME TypeOK, CommitsInOrder, [Next]_queueVars, NEW j \in JobId, Exists(j)'
  PROVE  Forward(jobs'[j].range)
<1>1. CASE Creates
  <2>1. PICK range \in listed, new \in JobId, n \in Nat, t \in CallTime :
          jobs' = [jobs EXCEPT ![new] = NewJob(range, n, t)]
    BY <1>1, CreatesOneRow
  <2>2. NewJob(range, n, t).range = range
    BY DEF NewJob, NoJob
  <2>3. QED
    BY <2>1, <2>2 DEF CommitsInOrder, Exists, TypeOK
<1>2. CASE OpenRowsMove
  BY <1>2 DEF OpenRowsMove, RowMoves, CommitsInOrder, Exists
<1>3. QED
  BY <1>1, <1>2, StepMovesRows

(* A completed review takes the cursor from the base of its range, or      *)
(* leaves it at the head.                                                  *)
LEMMA CursorMovesForward ==
  ASSUME QueueInv, CommitsInOrder, [Next]_queueVars, NEW r \in Repo
  PROVE  cursor'[r] >= cursor[r] /\ cursor'[r] <= registry[r].head
<1>a. TypeOK
  BY DEF QueueInv
<1>1. CASE cursor' = cursor
  BY <1>1, <1>a, CommitNumbers DEF CommitsInOrder
<1>2. ASSUME NEW j \in JobId, NEW t \in CallTime, NEW outcome \in Outcome,
             CompleteReview(j, t, outcome)
      PROVE  cursor'[r] >= cursor[r] /\ cursor'[r] <= registry[r].head
  <2>. DEFINE range == jobs[j].range
  <2>1. Exists(j)
    BY <1>2 DEF CompleteReview, RequireActive, Exists
  <2>2. Forward(range)
    BY <2>1 DEF CommitsInOrder
  <2>3. CASE cursor[range.repo] \in {range.base, range.head}
             /\ cursor' = [cursor EXCEPT ![range.repo] = range.head]
    <3>1. CASE r = range.repo
      BY <3>1, <2>2, <2>3, <1>a, CommitNumbers DEF Forward, TypeOK
    <3>2. CASE r # range.repo
      BY <3>2, <2>3, <1>a, CommitNumbers DEF CommitsInOrder, TypeOK
    <3>3. QED
      BY <3>1, <3>2
  <2>4. QED
    BY <1>1, <1>2, <2>3 DEF CompleteReview, AdvanceCursor
<1>3. QED
  BY <1>1, <1>2, OnlyReviewsRecord

LEMMA NextCommitsInOrder ==
  ASSUME ~HeadMayMoveBack, QueueInv, CommitsInOrder, [Next]_queueVars
  PROVE  CommitsInOrder'
<1>a. TypeOK /\ TypeOK'
  BY NextTypeOK DEF QueueInv
<1>b. \A r \in Repo : registry[r].head \in Nat /\ registry'[r].head \in Nat
                      /\ cursor[r] \in Nat /\ cursor'[r] \in Nat
  <2>1. \A r \in Repo : registry'[r].head \in Commit /\ cursor'[r] \in Commit \cup {NoCommit}
    BY <1>a DEF TypeOK, RegistryRow
  <2>2. Commit \subseteq Nat /\ NoCommit \in Nat
    BY CommitAssumption DEF CommitAssumption, NoCommit
  <2>3. \A r \in Repo : registry[r].head \in Nat /\ cursor[r] \in Nat
    BY <1>a, CommitNumbers
  <2>4. QED
    BY <2>1, <2>2, <2>3
<1>c. \A range : Forward(range) => Forward(range)'
  <2>. SUFFICES ASSUME NEW range, Forward(range)
                PROVE  Forward(range)'
    OBVIOUS
  <2>1. range.repo \in Repo /\ range.head \in Nat
    BY <1>a, CommitNumbers DEF Forward
  <2>2. registry'[range.repo].head >= registry[range.repo].head
    BY <2>1, <1>a, RegistryMovesForward
  <2>3. QED
    BY <2>1, <2>2, <1>b DEF Forward
<1>1. \A range \in listed' : Forward(range)'
  <2>. SUFFICES ASSUME NEW range \in listed'
                PROVE  Forward(range)'
    OBVIOUS
  <2>1. Forward(range)
    BY <1>a, ListedMoveForward
  <2>2. QED
    BY <2>1, <1>c
<1>2. \A j \in JobId : Exists(j)' => Forward(jobs[j].range)'
  <2>. SUFFICES ASSUME NEW j \in JobId, Exists(j)'
                PROVE  Forward(jobs[j].range)'
    OBVIOUS
  <2>1. Forward(jobs'[j].range)
    BY <1>a, JobsMoveForward
  <2>2. QED
    BY <2>1, <1>a, <1>b, CommitNumbers, RegistryMovesForward DEF Forward
<1>3. \A r \in Repo : cursor'[r] <= registry'[r].head
  BY <1>a, <1>b, CursorMovesForward, RegistryMovesForward
<1>4. ASSUME NEW j \in JobId, jobs'[j].cursorAdvancedAt
      PROVE  jobs'[j].range.head <= cursor'[jobs'[j].range.repo]
  <2>1. CASE jobs[j].cursorAdvancedAt
    <3>1. Exists(j) /\ jobs'[j] = jobs[j]
      BY <2>1, <1>a, OutcomeMeansCompleted, RowsStay
    <3>2. Forward(jobs[j].range)
      BY <3>1 DEF CommitsInOrder
    <3>3. jobs[j].range.repo \in Repo /\ jobs[j].range.head \in Nat
      BY <3>2, <1>a, CommitNumbers DEF Forward
    <3>4. jobs[j].range.head <= cursor[jobs[j].range.repo]
      BY <2>1 DEF CommitsInOrder
    <3>5. QED
      BY <3>1, <3>3, <3>4, <1>b, CursorMovesForward
  <2>2. CASE ~jobs[j].cursorAdvancedAt
    <3>1. PICK k \in JobId, t \in CallTime, outcome \in Outcome :
            CompleteReview(k, t, outcome)
      BY <2>2, <1>4, OnlyReviewsRecord
    <3>2. j = k /\ outcome # "INCOMPLETE" /\ jobs'[j].range = jobs[j].range
      <4>a. jobs \in [JobId -> Job] /\ jobs[j] \in Job /\ jobs[k] \in Job
        BY <1>a DEF TypeOK
      <4>1. jobs' = [jobs EXCEPT ![k] =
              [Released(@, "COMPLETED", "COMPLETED")
                 EXCEPT !.completedAt = TRUE, !.failedAt = FALSE,
                        !.outcome = outcome, !.cursorAdvancedAt = (outcome # "INCOMPLETE")]]
        BY <3>1 DEF CompleteReview
      <4>2. j = k
        BY <2>2, <1>4, <4>a, <4>1
      <4>3. QED
        BY <1>4, <4>a, <4>1, <4>2 DEF Released, Job
    <3>3. Forward(jobs[j].range)
      BY <3>1, <3>2 DEF CompleteReview, RequireActive, CommitsInOrder, Exists
    <3>4. jobs[j].range.repo \in Repo /\ jobs[j].range.head \in Nat
      BY <3>3, <1>a, CommitNumbers DEF Forward
    <3>5. cursor'[jobs[j].range.repo] = jobs[j].range.head
      BY <3>1, <3>2, <3>4, <1>a DEF CompleteReview, AdvanceCursor, TypeOK
    <3>6. QED
      BY <3>2, <3>4, <3>5
  <2>3. QED
    BY <2>1, <2>2
<1>5. QED
  BY <1>1, <1>2, <1>3, <1>4 DEF CommitsInOrder

LEMMA CommitsStayInOrder ==
  ASSUME ~HeadMayMoveBack
  PROVE  Spec => [](QueueInv /\ CommitsInOrder)
<1>1. QueueInv /\ CommitsInOrder /\ [Next]_queueVars => CommitsInOrder'
  BY NextCommitsInOrder
<1>2. QED
  BY <1>1, InitCommitsInOrder, QueueInvHolds, PTL DEF Spec

(* No completion order, however late, takes a cursor back to an earlier    *)
(* commit.                                                                 *)
THEOREM CursorsOnlyAdvance == Spec => CursorNeverMovesBack
<1>1. CASE HeadMayMoveBack
  <2>1. [~HeadMayMoveBack => \A r \in Repo : cursor'[r] >= cursor[r]]_queueVars
    BY <1>1
  <2>2. QED
    BY <2>1, PTL DEF CursorNeverMovesBack
<1>2. CASE ~HeadMayMoveBack
  <2>1. QueueInv /\ CommitsInOrder /\ [Next]_queueVars =>
          [~HeadMayMoveBack => \A r \in Repo : cursor'[r] >= cursor[r]]_queueVars
    BY CursorMovesForward
  <2>2. Spec => [](QueueInv /\ CommitsInOrder)
    BY <1>2, CommitsStayInOrder
  <2>3. QED
    BY <2>1, <2>2, PTL DEF Spec, CursorNeverMovesBack
<1>3. QED
  BY <1>1, <1>2

(* While heads only move forward, a range that was reviewed successfully   *)
(* never becomes due again, so no repository is stuck on a finished job.   *)
THEOREM ReviewedRangesStayDone ==
  ASSUME ~HeadMayMoveBack
  PROVE  Spec => []ReviewedRangeIsNotDue
<1>1. ASSUME QueueInv, CommitsInOrder
      PROVE  ReviewedRangeIsNotDue
  <2>. SUFFICES ASSUME NEW r \in Repo, Due(r), NEW j \in Attempts(DueRange(r)),
                       jobs[j].cursorAdvancedAt
                PROVE  FALSE
    BY DEF ReviewedRangeIsNotDue
  <2>1. jobs[j].range.repo = r /\ jobs[j].range.head = registry[r].head
    BY DEF Attempts, DueRange
  <2>2. jobs[j].range.head <= cursor[r] /\ cursor[r] <= registry[r].head
    BY <1>1, <2>1 DEF CommitsInOrder, Attempts
  <2>3. registry[r].head \in Nat /\ cursor[r] \in Nat
    BY <1>1, CommitNumbers DEF QueueInv
  <2>4. QED
    BY <2>1, <2>2, <2>3 DEF Due
<1>2. QED
  BY <1>1, CommitsStayInOrder, PTL
=============================================================================
