-------------------------- MODULE ReviewLeaseProofs --------------------------
(***************************************************************************)
(* Proofs about the leases of ReviewQueue: what one step may do to a job   *)
(* and its audit events, the ledger of leases, the replay of claims, and   *)
(* the contract that the queue fulfils.                                    *)
(***************************************************************************)
EXTENDS ReviewQueueProofs

-----------------------------------------------------------------------------
(* What one step may do to a job and to the audit events about it.         *)

Silent(j) ==
  \A type \in EventType, n \in Nat : Event(type, j, n) \in audit' <=> Event(type, j, n) \in audit

Writes(j, kind, token) ==
  \A type \in EventType, n \in Nat :
    Event(type, j, n) \in audit' <=>
      Event(type, j, n) \in audit \/ (type = kind /\ n = token)

RowStays(j) == jobs'[j] = jobs[j] /\ Silent(j)

RowCreated(j) ==
  /\ ~Exists(j)
  /\ \E range \in listed, n \in Nat, t \in CallTime : jobs'[j] = NewJob(range, n, t)
  /\ Writes(j, "enqueued", NoToken)

LeaseGiven(j, c) ==
  /\ claims[c] = NoClaim
  /\ claims'[c] # NoClaim
  /\ jobs[j].status = "PENDING"
  /\ \E t \in CallTime : jobs'[j] = Leased(jobs[j], c, t)
  /\ Writes(j, "claimed", jobs[j].attemptCount + 1)

(* A session that completes its review writes its own kind of event.       *)
LeaseEnds(j, kind) ==
  /\ jobs[j].status = "LEASED"
  /\ jobs'[j].status \in {"PENDING", "COMPLETED", "FAILED"}
  /\ jobs'[j].status = "COMPLETED" <=> kind \in {"completed", "outcome"}
  /\ jobs'[j].claim = jobs[j].claim
  /\ jobs'[j].attemptCount = jobs[j].attemptCount
  /\ jobs'[j].leaseToken = NoToken
  /\ jobs'[j].lastLeaseToken = jobs[j].leaseToken
  /\ Writes(j, kind, IF kind = "outcome" THEN NoToken ELSE jobs[j].leaseToken)

(* A completion that is repeated after the job completed.                  *)
EndRepeated(j) ==
  /\ jobs[j].status = "COMPLETED"
  /\ jobs'[j] = jobs[j]
  /\ Writes(j, "completed", jobs[j].lastLeaseToken)

RowStep(j) ==
  \/ RowStays(j)
  \/ RowCreated(j)
  \/ \E c \in ClaimId : LeaseGiven(j, c)
  \/ \E kind \in LeaseEnd \cup {"outcome"} : LeaseEnds(j, kind)
  \/ EndRepeated(j)

LEMMA EventsDiffer ==
  ASSUME NEW a, NEW j, NEW m, NEW b, NEW k, NEW n, Event(a, j, m) = Event(b, k, n)
  PROVE  a = b /\ j = k /\ m = n
BY DEF Event

LEMMA QuietStep ==
  ASSUME UNCHANGED <<jobs, audit>>, NEW j \in JobId
  PROVE  RowStep(j)
BY DEF RowStep, RowStays, Silent

LEMMA OneEventStep ==
  ASSUME NEW k \in JobId, NEW kind, NEW token,
         audit' = audit \cup {Event(kind, k, token)}
  PROVE  Writes(k, kind, token) /\ \A j \in JobId \ {k} : Silent(j)
<1>1. ASSUME NEW type \in EventType, NEW j \in JobId, NEW n \in Nat
      PROVE  Event(type, j, n) \in audit' <=>
               Event(type, j, n) \in audit \/ (type = kind /\ j = k /\ n = token)
  BY EventsDiffer
<1> QED BY <1>1 DEF Writes, Silent

(* One method changes one job and writes one event about it.               *)
LEMMA OneRowStep ==
  ASSUME TypeOK, NEW k \in JobId, NEW row, NEW kind, NEW token,
         jobs' = [jobs EXCEPT ![k] = row],
         audit' = audit \cup {Event(kind, k, token)},
         NEW j \in JobId, j # k
  PROVE  RowStep(j)
<1>1. jobs'[j] = jobs[j] BY DEF TypeOK
<1>2. Silent(j) BY OneEventStep
<1> QED BY <1>1, <1>2 DEF RowStep, RowStays

LEMMA EnqueueStep ==
  ASSUME TypeOK, NEW range \in listed, NEW t \in CallTime, Enqueue(range, t), NEW j \in JobId
  PROVE  RowStep(j)
<1>1. PICK k \in JobId, n \in Nat : Create(k, range, n, t)
  BY EnqueueCreates
<1>2. /\ ~Exists(k)
      /\ jobs' = [jobs EXCEPT ![k] = NewJob(range, n, t)]
      /\ audit' = audit \cup {Event("enqueued", k, NoToken)}
  BY <1>1 DEF Create, IsNextRow
<1>3. CASE j = k
  <2>1. jobs'[j] = NewJob(range, n, t) BY <1>2, <1>3 DEF TypeOK
  <2>2. Writes(j, "enqueued", NoToken) BY <1>2, <1>3, OneEventStep
  <2> QED BY <1>2, <1>3, <2>1, <2>2 DEF RowStep, RowCreated
<1>4. CASE j # k BY <1>2, <1>4, OneRowStep
<1> QED BY <1>3, <1>4

LEMMA ClaimStep ==
  ASSUME TypeOK, NEW t \in CallTime, NEW locked \in SUBSET JobId,
         NEW c \in ClaimId, NEW w \in WorkerId, ClaimDue(c, w, t, locked), NEW j \in JobId
  PROVE  RowStep(j)
<1>. DEFINE batch == ClaimBatch(t, locked)
            claimed == {Event("claimed", k, jobs[k].attemptCount + 1) : k \in batch}
<1>1. /\ claims[c] = NoClaim
      /\ claims' = [claims EXCEPT ![c] = w]
      /\ jobs' = [k \in JobId |-> IF k \in batch THEN Leased(jobs[k], c, t) ELSE jobs[k]]
      /\ audit' = audit \cup claimed
  BY DEF ClaimDue
<1>2. claims'[c] # NoClaim
  BY <1>1, NullAssumption DEF TypeOK, NullAssumption
<1>3. \A k \in batch : k \in JobId /\ jobs[k].status = "PENDING"
  BY ClaimBatchClaimable DEF Claimable
<1>4. ASSUME NEW type \in EventType, NEW n \in Nat
      PROVE  Event(type, j, n) \in claimed <=>
               type = "claimed" /\ j \in batch /\ n = jobs[j].attemptCount + 1
  BY EventsDiffer
<1>5. CASE j \in batch
  <2>1. Writes(j, "claimed", jobs[j].attemptCount + 1)
    BY <1>1, <1>4, <1>5 DEF Writes
  <2> QED BY <1>1, <1>2, <1>3, <1>5, <2>1 DEF RowStep, LeaseGiven
<1>6. CASE j \notin batch
  BY <1>1, <1>4, <1>6 DEF RowStep, RowStays, Silent
<1> QED BY <1>5, <1>6

LEMMA RecoverStep ==
  ASSUME TypeOK, NEW t \in CallTime, NEW locked \in SUBSET JobId,
         RecoverExpiredLeases(t, locked), NEW j \in JobId
  PROVE  RowStep(j)
<1>. DEFINE batch == RecoverBatch(t, locked)
            recovered == {Event("recovered", k, jobs[k].leaseToken) : k \in batch}
            row == [Released(jobs[j], "PENDING", "RECOVERED") EXCEPT !.availableAt = t]
<1>1. /\ j \in batch => jobs'[j] = row
      /\ j \notin batch => jobs'[j] = jobs[j]
      /\ audit' = audit \cup recovered
  BY DEF RecoverExpiredLeases
<1>2. j \in batch => jobs[j].status = "LEASED"
  BY RecoverBatchExpired DEF Expired
<1>3. ASSUME NEW type \in EventType, NEW n \in Nat
      PROVE  Event(type, j, n) \in recovered <=>
               type = "recovered" /\ j \in batch /\ n = jobs[j].leaseToken
  BY EventsDiffer
<1>4. CASE j \in batch
  <2>1. jobs[j] \in Job BY DEF TypeOK
  <2>2. /\ row.status = "PENDING" /\ row.claim = jobs[j].claim
        /\ row.attemptCount = jobs[j].attemptCount
        /\ row.leaseToken = NoToken /\ row.lastLeaseToken = jobs[j].leaseToken
    BY <2>1 DEF Released, Job
  <2>3. Writes(j, "recovered", jobs[j].leaseToken)
    BY <1>1, <1>3, <1>4 DEF Writes
  <2>. HIDE DEF row
  <2>4. LeaseEnds(j, "recovered")
    BY <1>1, <1>2, <1>4, <2>2, <2>3 DEF LeaseEnds
  <2> QED BY <2>4 DEF RowStep, LeaseEnd
<1>5. CASE j \notin batch
  BY <1>1, <1>3, <1>5 DEF RowStep, RowStays, Silent
<1> QED BY <1>4, <1>5

(* A row that lost its lease, whatever else is written to it.              *)
LEMMA EndStep ==
  ASSUME TypeOK, NEW k \in JobId, NEW row, NEW kind \in LeaseEnd \cup {"outcome"},
         jobs[k].status = "LEASED",
         row.status \in {"PENDING", "COMPLETED", "FAILED"},
         row.status = "COMPLETED" <=> kind \in {"completed", "outcome"},
         row.claim = jobs[k].claim, row.attemptCount = jobs[k].attemptCount,
         row.leaseToken = NoToken, row.lastLeaseToken = jobs[k].leaseToken,
         jobs' = [jobs EXCEPT ![k] = row],
         audit' = audit \cup {Event(kind, k, IF kind = "outcome" THEN NoToken
                                             ELSE jobs[k].leaseToken)},
         NEW j \in JobId
  PROVE  RowStep(j)
<1>1. CASE j = k
  <2>1. jobs'[j] = row BY <1>1 DEF TypeOK
  <2>2. Writes(j, kind, IF kind = "outcome" THEN NoToken ELSE jobs[j].leaseToken)
    BY <1>1, OneEventStep
  <2>3. LeaseEnds(j, kind) BY <1>1, <2>1, <2>2 DEF LeaseEnds
  <2> QED BY <2>3 DEF RowStep
<1>2. CASE j # k BY <1>2, OneRowStep
<1> QED BY <1>1, <1>2

LEMMA FailStep ==
  ASSUME TypeOK, NEW k \in JobId, NEW token, NEW t, NEW willRetry \in BOOLEAN,
         Fail(k, token, t, willRetry), NEW j \in JobId
  PROVE  RowStep(j)
<1>. DEFINE row == IF willRetry
       THEN [Released(jobs[k], "PENDING", "FAILED") EXCEPT !.availableAt = t + RetryDelay]
       ELSE [Released(jobs[k], "FAILED", "FAILED") EXCEPT !.failedAt = TRUE]
<1>1. /\ jobs[k].status = "LEASED" /\ jobs[k].leaseToken = token
      /\ jobs' = [jobs EXCEPT ![k] = row]
      /\ audit' = audit \cup {Event("failed", k, token)}
  BY DEF Fail, HoldsLease
<1>2. jobs[k] \in Job BY DEF TypeOK
<1>3. /\ row.status \in {"PENDING", "FAILED"}
      /\ row.claim = jobs[k].claim /\ row.attemptCount = jobs[k].attemptCount
      /\ row.leaseToken = NoToken /\ row.lastLeaseToken = jobs[k].leaseToken
  BY <1>2 DEF Released, Job
<1>. HIDE DEF row
<1> QED BY <1>1, <1>3, EndStep DEF LeaseEnd

LEMMA CompleteStep ==
  ASSUME TypeOK, NEW k \in JobId, NEW token, CompleteLease(k, token), NEW j \in JobId
  PROVE  RowStep(j)
<1>. DEFINE row == [Released(jobs[k], "COMPLETED", "COMPLETED") EXCEPT !.completedAt = TRUE]
<1>0. audit' = audit \cup {Event("completed", k, token)} BY DEF CompleteLease
<1>1. CASE HoldsLease(k, token) /\ jobs' = [jobs EXCEPT ![k] = row]
  <2>1. jobs[k] \in Job BY DEF TypeOK
  <2>2. /\ row.status = "COMPLETED" /\ row.claim = jobs[k].claim
        /\ row.attemptCount = jobs[k].attemptCount
        /\ row.leaseToken = NoToken /\ row.lastLeaseToken = jobs[k].leaseToken
    BY <2>1 DEF Released, Job
  <2>. HIDE DEF row
  <2> QED BY <1>0, <1>1, <2>2, EndStep DEF LeaseEnd, HoldsLease
<1>2. CASE jobs[k].status = "COMPLETED" /\ jobs[k].lastLeaseToken = token /\ jobs' = jobs
  <2>1. CASE j = k
    BY <1>0, <1>2, <2>1, OneEventStep DEF RowStep, EndRepeated
  <2>2. CASE j # k
    BY <1>0, <1>2, <2>2, OneEventStep DEF RowStep, RowStays
  <2> QED BY <2>1, <2>2
<1> QED BY <1>1, <1>2 DEF CompleteLease

LEMMA ReviewStep ==
  ASSUME TypeOK, NEW k \in JobId, NEW t, NEW outcome, CompleteReview(k, t, outcome),
         NEW j \in JobId
  PROVE  RowStep(j)
<1>. DEFINE row == [Released(jobs[k], "COMPLETED", "COMPLETED")
                      EXCEPT !.completedAt = TRUE, !.failedAt = FALSE,
                             !.outcome = outcome, !.cursorAdvancedAt = (outcome # "INCOMPLETE")]
<1>1. /\ jobs[k].status = "LEASED"
      /\ jobs' = [jobs EXCEPT ![k] = row]
      /\ audit' = audit \cup {Event("outcome", k, NoToken)}
  BY DEF CompleteReview, RequireActive
<1>2. jobs[k] \in Job BY DEF TypeOK
<1>3. /\ row.status = "COMPLETED" /\ row.claim = jobs[k].claim
      /\ row.attemptCount = jobs[k].attemptCount
      /\ row.leaseToken = NoToken /\ row.lastLeaseToken = jobs[k].leaseToken
  BY <1>2 DEF Released, Job
<1>. HIDE DEF row
<1> QED BY <1>1, <1>3, EndStep

LEMMA EveryStep ==
  ASSUME TypeOK, [Next]_queueVars, NEW j \in JobId
  PROVE  RowStep(j)
<1>1. CASE DispatcherCall
  BY <1>1, QuietStep, EnqueueStep, ClaimStep, RecoverStep, FailStep, CompleteStep
  DEF DispatcherCall, ListCandidates
<1>2. CASE SessionCall
  BY <1>2, QuietStep, ReviewStep DEF SessionCall, RecordEvidence, CreateProposal
<1>3. CASE Environment
  BY <1>3, QuietStep DEF Environment, RegistryChanges, Tick
<1>4. CASE UNCHANGED queueVars
  BY <1>4, QuietStep DEF queueVars
<1> QED BY <1>1, <1>2, <1>3, <1>4 DEF Next

-----------------------------------------------------------------------------
(* The ledger of leases.                                                   *)

(* What the audit trail says of one job, and what ties it to the row: the  *)
(* current lease is the last one given, only completed jobs have an        *)
(* outcome event, and the last lease of a completed job ended by           *)
(* completing it.                                                          *)
Numbered(j) ==
  /\ \A type \in EventType, n \in Nat : Event(type, j, n) \in audit => n <= jobs[j].attemptCount
  /\ jobs[j].status = "LEASED" =>
       jobs[j].leaseToken = jobs[j].attemptCount /\ jobs[j].leaseToken # NoToken

Completed(j) ==
  /\ Event("outcome", j, NoToken) \in audit => jobs[j].status = "COMPLETED"
  /\ jobs[j].status = "COMPLETED" =>
       jobs[j].lastLeaseToken \in 1..jobs[j].attemptCount /\ Ended("completed", j, jobs[j].lastLeaseToken)

Running(j, n) == \A kind \in LeaseEnd : ~Ended(kind, j, n)

EndedOnce(j, n) ==
  \E kind \in LeaseEnd : Ended(kind, j, n) /\ \A other \in LeaseEnd \ {kind} : ~Ended(other, j, n)

Told(j, n) ==
  /\ Event("claimed", j, n) \in audit
  /\ Current(j, n) => Running(j, n)
  /\ ~Current(j, n) => EndedOnce(j, n)

LedgerOf(j) == Numbered(j) /\ Completed(j) /\ \A n \in 1..jobs[j].attemptCount : Told(j, n)

LedgerInv == \A j \in JobId : LedgerOf(j)

LEMMA LedgerFollows ==
  ASSUME TypeOK, LedgerInv
  PROVE  LeaseLedger
<1>1. ASSUME NEW event \in audit PROVE event.token <= jobs[event.job].attemptCount
  <2>1. /\ event.type \in EventType /\ event.job \in JobId /\ event.token \in Nat
        /\ event = Event(event.type, event.job, event.token)
    BY DEF TypeOK, AuditKey, Token, Event
  <2> QED BY <2>1 DEF LedgerInv, LedgerOf, Numbered
<1>2. ASSUME NEW j \in JobId, NEW n \in 1..jobs[j].attemptCount
      PROVE  Told(j, n)
  BY DEF LedgerInv, LedgerOf
<1> QED BY <1>1, <1>2 DEF LeaseLedger, Told, Running, EndedOnce

LEMMA InitLedger == Init => LedgerInv
BY DEF Init, LedgerInv, LedgerOf, Numbered, Completed, NoJob

LEMMA CountsAreNumbers ==
  ASSUME TypeOK, NEW j \in JobId
  PROVE  /\ jobs[j].attemptCount \in Nat
         /\ jobs[j].leaseToken \in Nat
         /\ jobs[j].lastLeaseToken \in Nat
BY DEF TypeOK, Job, Token

LEMMA EndIsEvent == LeaseEnd \subseteq EventType /\ "outcome" \in EventType \ LeaseEnd
                    /\ "claimed" \in EventType \ LeaseEnd /\ "enqueued" \in EventType \ LeaseEnd
BY DEF LeaseEnd, EventType

LEMMA StaysLedger ==
  ASSUME TypeOK, NEW j \in JobId, LedgerOf(j), RowStays(j)
  PROVE  LedgerOf(j)'
<1>1. /\ jobs'[j] = jobs[j]
      /\ \A type \in EventType, n \in Nat : Event(type, j, n) \in audit' <=> Event(type, j, n) \in audit
      /\ Event("outcome", j, NoToken) \in audit' <=> Event("outcome", j, NoToken) \in audit
  BY EndIsEvent DEF RowStays, Silent, NoToken
<1>2. \A kind \in LeaseEnd, n \in Nat : Ended(kind, j, n)' <=> Ended(kind, j, n)
  BY <1>1, EndIsEvent DEF Ended, LeaseEnd
<1>3. Numbered(j)' BY <1>1 DEF LedgerOf, Numbered
<1>4. Completed(j)'
  BY <1>1, <1>2, CountsAreNumbers DEF LedgerOf, Completed, LeaseEnd
<1>5. ASSUME NEW n \in 1..jobs'[j].attemptCount PROVE Told(j, n)'
  <2>1. n \in 1..jobs[j].attemptCount /\ n \in Nat BY <1>1
  <2>2. Event("claimed", j, n) \in audit' /\ (Current(j, n)' <=> Current(j, n))
    BY <1>1, <2>1, EndIsEvent DEF LedgerOf, Told, Current
  <2> QED BY <1>2, <2>1, <2>2 DEF LedgerOf, Told, Running, EndedOnce
<1> QED BY <1>3, <1>4, <1>5 DEF LedgerOf

LEMMA CreatedLedger ==
  ASSUME QueueInv, NEW j \in JobId, LedgerOf(j), RowCreated(j)
  PROVE  LedgerOf(j)'
<1>1. jobs[j] = NoJob BY DEF RowCreated, QueueInv, AbsentRowsEmpty
<1>2. jobs'[j].attemptCount = 0 /\ jobs'[j].status = "PENDING"
  BY DEF RowCreated, NewJob, NoJob
<1>3. jobs[j].attemptCount = 0 /\ jobs[j].status = "ABSENT" BY <1>1 DEF NoJob
<1>4. Numbered(j)'
  BY <1>2, <1>3 DEF LedgerOf, Numbered, RowCreated, Writes, NoToken
<1>5. Completed(j)'
  BY <1>2, <1>3, EndIsEvent DEF LedgerOf, Completed, RowCreated, Writes, NoToken
<1> QED BY <1>2, <1>4, <1>5 DEF LedgerOf

LEMMA GivenLedger ==
  ASSUME QueueInv, NEW j \in JobId, LedgerOf(j), NEW c \in ClaimId, LeaseGiven(j, c)
  PROVE  LedgerOf(j)'
<1>. DEFINE m == jobs[j].attemptCount + 1
<1>a. TypeOK BY DEF QueueInv
<1>1. /\ jobs'[j].status = "LEASED" /\ jobs'[j].attemptCount = m /\ jobs'[j].leaseToken = m
      /\ jobs'[j].lastLeaseToken = jobs[j].lastLeaseToken
  BY <1>a DEF LeaseGiven, Leased, TypeOK, Job
<1>2. jobs[j].status = "PENDING" BY DEF LeaseGiven
<1>3. \A type \in EventType, n \in Nat :
        Event(type, j, n) \in audit' <=> Event(type, j, n) \in audit \/ (type = "claimed" /\ n = m)
  BY DEF LeaseGiven, Writes
<1>4. jobs[j].attemptCount \in Nat /\ m \in Nat /\ m # NoToken
  BY <1>a, CountsAreNumbers DEF NoToken
<1>5. Event("outcome", j, NoToken) \notin audit /\ Event("outcome", j, NoToken) \notin audit'
  BY <1>2, <1>3, EndIsEvent DEF LedgerOf, Completed, NoToken
<1>6. \A kind \in LeaseEnd, n \in Nat :
        /\ Ended(kind, j, n)' <=> Ended(kind, j, n)
        /\ Ended(kind, j, n) <=> Event(kind, j, n) \in audit
  BY <1>3, <1>5, EndIsEvent DEF Ended
<1>7. Numbered(j)'
  BY <1>1, <1>3, <1>4 DEF LedgerOf, Numbered
<1>8. Completed(j)'
  BY <1>1, <1>5 DEF Completed
<1>9. ASSUME NEW n \in 1..jobs'[j].attemptCount PROVE Told(j, n)'
  <2>1. CASE n = m
    <3>1. \A kind \in LeaseEnd : Event(kind, j, n) \notin audit
      BY <1>4, <2>1, EndIsEvent DEF LedgerOf, Numbered
    <3>2. Event("claimed", j, n) \in audit' /\ Current(j, n)'
      BY <1>1, <1>3, <1>4, <2>1, EndIsEvent DEF Current
    <3> QED BY <1>4, <1>6, <2>1, <3>1, <3>2 DEF Told, Running
  <2>2. CASE n # m
    <3>1. n \in 1..jobs[j].attemptCount /\ n \in Nat BY <1>1, <1>4, <2>2
    <3>2. ~Current(j, n) /\ ~Current(j, n)' BY <1>1, <1>2, <2>2 DEF Current
    <3>3. Event("claimed", j, n) \in audit' BY <1>3, <3>1, EndIsEvent DEF LedgerOf, Told
    <3> QED BY <1>6, <3>1, <3>2, <3>3 DEF LedgerOf, Told, EndedOnce
  <2> QED BY <2>1, <2>2
<1> QED BY <1>7, <1>8, <1>9 DEF LedgerOf

LEMMA EndsLedger ==
  ASSUME QueueInv, NEW j \in JobId, LedgerOf(j),
         NEW kind \in LeaseEnd \cup {"outcome"}, LeaseEnds(j, kind)
  PROVE  LedgerOf(j)'
<1>. DEFINE m == jobs[j].attemptCount
            how == IF kind = "outcome" THEN "completed" ELSE kind
<1>a. TypeOK BY DEF QueueInv
<1>1. /\ jobs[j].status = "LEASED" /\ jobs[j].leaseToken = m /\ m # NoToken
      /\ jobs'[j].status # "LEASED" /\ jobs'[j].attemptCount = m
      /\ jobs'[j].lastLeaseToken = m
      /\ jobs'[j].status = "COMPLETED" <=> how = "completed"
  BY DEF LeaseEnds, LedgerOf, Numbered, LeaseEnd
<1>2. m \in Nat /\ m \in 1..m BY <1>1, <1>a, CountsAreNumbers DEF NoToken
<1>3. \A type \in EventType, n \in Nat :
        Event(type, j, n) \in audit' <=>
          \/ Event(type, j, n) \in audit
          \/ type = kind /\ n = IF kind = "outcome" THEN NoToken ELSE m
  BY <1>1 DEF LeaseEnds, Writes
<1>4. Event("outcome", j, NoToken) \notin audit
  BY <1>1 DEF LedgerOf, Completed
<1>5. Event("outcome", j, NoToken) \in audit' <=> kind = "outcome"
  BY <1>3, <1>4, EndIsEvent DEF NoToken
<1>6. \A end \in LeaseEnd, n \in 1..m :
        Ended(end, j, n)' <=> Ended(end, j, n) \/ (end = how /\ n = m)
  <2>. SUFFICES ASSUME NEW end \in LeaseEnd, NEW n \in 1..m
                PROVE  Ended(end, j, n)' <=> Ended(end, j, n) \/ (end = how /\ n = m)
    OBVIOUS
  <2>1. n \in Nat /\ n # NoToken BY <1>2 DEF NoToken
  <2>2. Ended(end, j, n) <=> Event(end, j, n) \in audit
    BY <1>4 DEF Ended
  <2>3. CASE kind = "outcome"
    <3>1. Event(end, j, n) \in audit' <=> Event(end, j, n) \in audit
      BY <1>3, <2>1, <2>3, EndIsEvent
    <3> QED BY <1>1, <1>5, <2>2, <2>3, <3>1 DEF Ended
  <2>4. CASE kind # "outcome"
    <3>1. Event(end, j, n) \in audit' <=> Event(end, j, n) \in audit \/ (end = kind /\ n = m)
      BY <1>3, <2>1, <2>4, EndIsEvent
    <3>2. Ended(end, j, n)' <=> Event(end, j, n) \in audit'
      BY <1>5, <2>4 DEF Ended
    <3> QED BY <2>2, <2>4, <3>1, <3>2
  <2> QED BY <2>3, <2>4
<1>7. how \in LeaseEnd BY DEF LeaseEnd
<1>8. Numbered(j)'
  <2>1. ASSUME NEW type \in EventType, NEW n \in Nat, Event(type, j, n) \in audit'
        PROVE  n <= m
    BY <1>2, <1>3, <2>1 DEF LedgerOf, Numbered, NoToken
  <2> QED BY <1>1, <2>1 DEF Numbered
<1>9. Completed(j)'
  <2>1. PICK n \in 1..m : n = m BY <1>2
  <2>2. jobs'[j].status = "COMPLETED" => Ended("completed", j, n)'
    BY <1>1, <1>6, <2>1 DEF LeaseEnd
  <2>3. Event("outcome", j, NoToken) \in audit' => jobs'[j].status = "COMPLETED"
    BY <1>1, <1>5
  <2> QED BY <1>1, <1>2, <2>1, <2>2, <2>3 DEF Completed
<1>10. ASSUME NEW n \in 1..jobs'[j].attemptCount PROVE Told(j, n)'
  <2>1. n \in 1..m /\ n \in Nat /\ ~Current(j, n)' BY <1>1, <1>2 DEF Current
  <2>2. Told(j, n) BY <2>1 DEF LedgerOf
  <2>3. Event("claimed", j, n) \in audit' BY <1>3, <2>1, <2>2, EndIsEvent DEF Told
  <2>4. CASE n = m
    <3>1. Running(j, n) BY <1>1, <2>2, <2>4 DEF Told, Current
    <3>2. EndedOnce(j, n)' BY <1>6, <1>7, <2>1, <2>4, <3>1 DEF Running, EndedOnce
    <3> QED BY <2>1, <2>3, <3>2 DEF Told
  <2>5. CASE n # m
    <3>1. EndedOnce(j, n) BY <1>1, <2>2, <2>5 DEF Told, Current
    <3>2. EndedOnce(j, n)' BY <1>6, <2>1, <2>5, <3>1 DEF EndedOnce
    <3> QED BY <2>1, <2>3, <3>2 DEF Told
  <2> QED BY <2>4, <2>5
<1> QED BY <1>8, <1>9, <1>10 DEF LedgerOf

LEMMA RepeatedLedger ==
  ASSUME QueueInv, NEW j \in JobId, LedgerOf(j), EndRepeated(j)
  PROVE  LedgerOf(j)'
<1>. DEFINE m == jobs[j].lastLeaseToken
<1>a. TypeOK BY DEF QueueInv
<1>1. /\ jobs'[j] = jobs[j] /\ jobs[j].status = "COMPLETED"
      /\ m \in 1..jobs[j].attemptCount /\ Ended("completed", j, m)
  BY DEF EndRepeated, LedgerOf, Completed
<1>2. jobs[j].attemptCount \in Nat /\ m \in Nat BY <1>a, CountsAreNumbers
<1>3. \A type \in EventType, n \in Nat :
        Event(type, j, n) \in audit' <=> Event(type, j, n) \in audit \/ (type = "completed" /\ n = m)
  BY DEF EndRepeated, Writes
<1>4. Event("outcome", j, NoToken) \in audit' <=> Event("outcome", j, NoToken) \in audit
  BY <1>3, EndIsEvent DEF NoToken
<1>5. \A kind \in LeaseEnd, n \in Nat : Ended(kind, j, n)' <=> Ended(kind, j, n)
  BY <1>1, <1>3, <1>4, EndIsEvent DEF Ended
<1>6. Numbered(j)'
  BY <1>1, <1>2, <1>3 DEF LedgerOf, Numbered
<1>7. Completed(j)'
  BY <1>1, <1>2, <1>4, <1>5 DEF Completed, LeaseEnd
<1>8. ASSUME NEW n \in 1..jobs'[j].attemptCount PROVE Told(j, n)'
  <2>1. n \in 1..jobs[j].attemptCount /\ n \in Nat BY <1>1
  <2>2. Told(j, n) /\ (Current(j, n)' <=> Current(j, n))
    BY <1>1, <2>1 DEF LedgerOf, Current
  <2>3. Event("claimed", j, n) \in audit' BY <1>3, <2>1, <2>2, EndIsEvent DEF Told
  <2> QED BY <1>5, <2>1, <2>2, <2>3 DEF Told, Running, EndedOnce
<1> QED BY <1>6, <1>7, <1>8 DEF LedgerOf

LEMMA NextLedger ==
  ASSUME QueueInv, LedgerInv, [Next]_queueVars
  PROVE  LedgerInv'
<1>1. ASSUME NEW j \in JobId PROVE LedgerOf(j)'
  <2>1. RowStep(j) /\ LedgerOf(j) BY EveryStep DEF QueueInv, LedgerInv
  <2> QED BY <2>1, StaysLedger, CreatedLedger, GivenLedger, EndsLedger, RepeatedLedger
          DEF RowStep, QueueInv
<1> QED BY <1>1 DEF LedgerInv

LEMMA LedgerInvHolds == Spec => [](QueueInv /\ LedgerInv)
<1>1. QueueInv /\ LedgerInv /\ [Next]_queueVars => LedgerInv'
  BY NextLedger
<1> QED BY <1>1, InitLedger, QueueInvHolds, PTL DEF Spec

(* The audit trail accounts for every lease of every job: given once, and, *)
(* once it is over, ended exactly once and in one way, whichever of a late *)
(* failure report, a recovery and a completion came first.                 *)
THEOREM LedgerComplete == Spec => []LeaseLedger
<1>1. QueueInv /\ LedgerInv => LeaseLedger BY LedgerFollows DEF QueueInv
<1> QED BY <1>1, LedgerInvHolds, PTL

-----------------------------------------------------------------------------
(* Repeated claims.                                                        *)

LEMMA ClaimKeeps ==
  ASSUME QueueInv, NEW j \in JobId, NEW c \in ClaimId, claims[c] # NoClaim,
         RowStep(j), jobs'[j].claim = c
  PROVE  /\ jobs[j].claim = c
         /\ jobs'[j].status = "LEASED" => jobs'[j].leaseToken = jobs[j].leaseToken
<1>1. CASE jobs'[j] = jobs[j] BY <1>1
<1>2. CASE RowCreated(j)
  <2>1. jobs'[j].claim = NoClaim BY <1>2 DEF RowCreated, NewJob, NoJob
  <2> QED BY <2>1, NullAssumption DEF NullAssumption
<1>3. ASSUME NEW d \in ClaimId, LeaseGiven(j, d) PROVE FALSE
  <2>1. jobs'[j].claim = d BY <1>3 DEF LeaseGiven, Leased, QueueInv, TypeOK, Job
  <2> QED BY <1>3, <2>1 DEF LeaseGiven
<1>4. ASSUME NEW kind, LeaseEnds(j, kind) PROVE jobs[j].claim = c /\ jobs'[j].status # "LEASED"
  BY <1>4 DEF LeaseEnds
<1> QED BY <1>1, <1>2, <1>3, <1>4 DEF RowStep, RowStays, EndRepeated

(* A claim that is repeated, however late, is answered with jobs of its    *)
(* own batch and with the leases these were given then.                    *)
THEOREM ReplaysNeverLease == Spec => ReplayNeverLeases
<1>1. QueueInv /\ [Next]_queueVars =>
        [\A c \in ClaimId : claims[c] # NoClaim =>
           \A j \in JobId : jobs'[j].claim = c =>
             /\ jobs[j].claim = c
             /\ jobs'[j].status = "LEASED" => jobs'[j].leaseToken = jobs[j].leaseToken]_queueVars
  BY EveryStep, ClaimKeeps DEF QueueInv
<1> QED BY <1>1, QueueInvHolds, PTL DEF Spec, ReplayNeverLeases

-----------------------------------------------------------------------------
(* The contract: every step of the queue is a step of the contract, or     *)
(* changes nothing the contract speaks of.                                 *)

ContractStep == [Contract!Next]_(Contract!vars)

Unseen(j) ==
  /\ Stage(jobs'[j]) = Stage(jobs[j])
  /\ jobs'[j].range = jobs[j].range
  /\ jobs'[j].attemptCount = jobs[j].attemptCount

LEMMA UnseenStutters ==
  ASSUME \A j \in JobId : Unseen(j), cursor' = cursor
  PROVE  ContractStep
BY DEF Unseen, ContractStep, Contract!vars

LEMMA SameJobsUnseen ==
  ASSUME jobs' = jobs
  PROVE  \A j \in JobId : Unseen(j)
BY DEF Unseen

(* A new row is submitted.  An attempt at the same range that is still     *)
(* open would have been returned instead.                                  *)
LEMMA EnqueueSubmits ==
  ASSUME TypeOK, OneOpenAttempt, AbsentRowsEmpty,
         NEW range \in listed, NEW t \in CallTime, Enqueue(range, t)
  PROVE  ContractStep
<1>1. PICK j \in JobId, n \in Nat : Create(j, range, n, t) /\ Follows(range, n)
  BY EnqueueFollows
<1>2. /\ ~Exists(j) /\ cursor' = cursor
      /\ jobs' = [jobs EXCEPT ![j] = NewJob(range, n, t)]
  BY <1>1 DEF Create, IsNextRow
<1>3. range \in Range /\ range # NoRange
  <2>1. range \in Range BY DEF TypeOK
  <2>2. range.mode \in Mode BY <2>1 DEF Range
  <2> QED BY <2>1, <2>2 DEF NoRange, Mode
<1>4. Stage(jobs[j]) = "absent" /\ jobs[j].attemptCount = 0
  BY <1>2 DEF AbsentRowsEmpty, Stage, NoJob
<1>5. /\ Stage(jobs'[j]) = "waiting" /\ jobs'[j].range = range /\ jobs'[j].attemptCount = 0
      /\ \A k \in JobId \ {j} : jobs'[k] = jobs[k]
  BY <1>2 DEF TypeOK, NewJob, NoJob, Stage
<1>6. ASSUME NEW k \in JobId, jobs[k].range = range
      PROVE  Stage(jobs[k]) = "inconclusive"
  <2>1. Exists(k) BY <1>3, <1>6 DEF AbsentRowsEmpty, NoJob
  <2>2. PermitsRetry(k) BY <1>1, <1>6, <2>1 DEF Follows, Attempts
  <2> QED BY <2>2 DEF PermitsRetry, Stage, NoOutcome
<1>7. range \in Contract!Range BY <1>3 DEF Contract!Range, Range
<1>8. Contract!Submit(j)
  <2>1. [k \in JobId |-> Stage(jobs[k])]' =
          [[k \in JobId |-> Stage(jobs[k])] EXCEPT ![j] = "waiting"]
    BY <1>5
  <2>2. [k \in JobId |-> jobs[k].range]' = [[k \in JobId |-> jobs[k].range] EXCEPT ![j] = range]
    BY <1>5
  <2>3. [k \in JobId |-> jobs[k].attemptCount]' = [k \in JobId |-> jobs[k].attemptCount]
    BY <1>4, <1>5
  <2> QED BY <1>2, <1>4, <1>6, <1>7, <2>1, <2>2, <2>3 DEF Contract!Submit
<1> QED BY <1>8 DEF ContractStep, Contract!Next

LEMMA ClaimDelivers ==
  ASSUME TypeOK, NEW t \in CallTime, NEW locked \in SUBSET JobId,
         NEW c \in ClaimId, NEW w \in WorkerId, ClaimDue(c, w, t, locked)
  PROVE  ContractStep
<1>1. PICK batch : batch = ClaimBatch(t, locked) OBVIOUS
<1>2. batch \in SUBSET JobId /\ \A j \in batch : jobs[j].status = "PENDING"
  BY <1>1, ClaimBatchClaimable DEF Claimable
<1>3. /\ cursor' = cursor
      /\ \A j \in JobId : jobs'[j] = IF j \in batch THEN Leased(jobs[j], c, t) ELSE jobs[j]
  BY <1>1 DEF ClaimDue
<1>4. \A j \in JobId : /\ Leased(jobs[j], c, t).status = "LEASED"
                       /\ Leased(jobs[j], c, t).range = jobs[j].range
                       /\ Leased(jobs[j], c, t).attemptCount = jobs[j].attemptCount + 1
  BY DEF TypeOK, Job, Leased
<1>5. Contract!Deliver(batch)
  <2>1. \A j \in batch : Stage(jobs[j]) = "waiting" BY <1>2 DEF Stage
  <2>2. \A j \in JobId : Stage(Leased(jobs[j], c, t)) = "held" BY <1>4 DEF Stage
  <2>5. \A j \in JobId : Stage(jobs'[j]) = IF j \in batch THEN "held" ELSE Stage(jobs[j])
    BY <1>3, <2>2
  <2>3. \A j \in JobId : jobs'[j].range = jobs[j].range BY <1>3, <1>4
  <2>4. \A j \in JobId : jobs'[j].attemptCount =
          IF j \in batch THEN jobs[j].attemptCount + 1 ELSE jobs[j].attemptCount
    BY <1>3, <1>4
  <2> QED BY <1>2, <1>3, <2>1, <2>3, <2>4, <2>5 DEF Contract!Deliver
<1> QED BY <1>2, <1>5 DEF ContractStep, Contract!Next

LEMMA RecoveryGivesBack ==
  ASSUME TypeOK, NEW t \in CallTime, NEW locked \in SUBSET JobId,
         RecoverExpiredLeases(t, locked)
  PROVE  ContractStep
<1>. DEFINE row(j) == [Released(jobs[j], "PENDING", "RECOVERED") EXCEPT !.availableAt = t]
<1>1. PICK batch : batch = RecoverBatch(t, locked) OBVIOUS
<1>2. batch \in SUBSET JobId /\ \A j \in batch : jobs[j].status = "LEASED"
  BY <1>1, RecoverBatchExpired DEF Expired
<1>3. /\ cursor' = cursor
      /\ \A j \in JobId : jobs'[j] = IF j \in batch THEN row(j) ELSE jobs[j]
  BY <1>1 DEF RecoverExpiredLeases
<1>4. ASSUME NEW j \in JobId
      PROVE  /\ row(j).status = "PENDING" /\ row(j).range = jobs[j].range
             /\ row(j).attemptCount = jobs[j].attemptCount
  <2>1. jobs[j] \in Job BY DEF TypeOK
  <2> QED BY <2>1 DEF Job, Released
<1>. HIDE DEF row
<1>5. \A j \in JobId : jobs'[j].range = jobs[j].range /\ jobs'[j].attemptCount = jobs[j].attemptCount
  BY <1>3, <1>4
<1>6. Contract!GiveBack(batch)
  <2>1. \A j \in batch : Stage(jobs[j]) = "held" BY <1>2 DEF Stage
  <2>2. \A j \in JobId : Stage(row(j)) = "waiting" BY <1>4 DEF Stage
  <2>3. \A j \in JobId : Stage(jobs'[j]) = IF j \in batch THEN "waiting" ELSE Stage(jobs[j])
    BY <1>3, <2>2
  <2> QED BY <1>2, <1>3, <1>5, <2>1, <2>3 DEF Contract!GiveBack
<1> QED BY <1>2, <1>6 DEF ContractStep, Contract!Next

(* One held review moves on and the cursor stays.                          *)
LEMMA HeldMovesOn ==
  ASSUME TypeOK, NEW k \in JobId, NEW row, jobs[k].status = "LEASED",
         jobs' = [jobs EXCEPT ![k] = row], cursor' = cursor,
         row.range = jobs[k].range, row.attemptCount = jobs[k].attemptCount,
         Stage(row) \in {"waiting", "abandoned", "inconclusive"}
  PROVE  ContractStep
<1>1. Stage(jobs[k]) = "held" BY DEF Stage
<1>2. jobs'[k] = row /\ \A j \in JobId \ {k} : jobs'[j] = jobs[j] BY DEF TypeOK
<1>3. \A j \in JobId : jobs'[j].range = jobs[j].range /\ jobs'[j].attemptCount = jobs[j].attemptCount
  BY <1>2
<1>4. \A j \in JobId : Stage(jobs'[j]) = IF j = k THEN Stage(row) ELSE Stage(jobs[j])
  BY <1>2
<1>5. CASE Stage(row) = "waiting"
  <2>1. Contract!GiveBack({k}) BY <1>1, <1>3, <1>4, <1>5 DEF Contract!GiveBack
  <2> QED BY <2>1 DEF ContractStep, Contract!Next
<1>6. CASE Stage(row) \in {"abandoned", "inconclusive"}
  <2>1. Contract!Close(k, Stage(row)) BY <1>1, <1>3, <1>4 DEF Contract!Close
  <2> QED BY <1>6, <2>1 DEF ContractStep, Contract!Next
<1> QED BY <1>5, <1>6

LEMMA FailureGivesBack ==
  ASSUME TypeOK, NEW k \in JobId, NEW token, NEW t, NEW willRetry \in BOOLEAN,
         Fail(k, token, t, willRetry)
  PROVE  ContractStep
<1>. DEFINE row == IF willRetry
       THEN [Released(jobs[k], "PENDING", "FAILED") EXCEPT !.availableAt = t + RetryDelay]
       ELSE [Released(jobs[k], "FAILED", "FAILED") EXCEPT !.failedAt = TRUE]
<1>1. jobs[k].status = "LEASED" /\ jobs' = [jobs EXCEPT ![k] = row] /\ cursor' = cursor
  BY DEF Fail, HoldsLease
<1>2. /\ row.range = jobs[k].range /\ row.attemptCount = jobs[k].attemptCount
      /\ Stage(row) \in {"waiting", "abandoned"}
  BY DEF TypeOK, Job, Released, Stage
<1>. HIDE DEF row
<1> QED BY <1>1, <1>2, HeldMovesOn

(* A lease that is completed without an outcome gives the review up.       *)
LEMMA CompletionAbandons ==
  ASSUME QueueInv, NEW k \in JobId, NEW token, CompleteLease(k, token)
  PROVE  ContractStep
<1>. DEFINE row == [Released(jobs[k], "COMPLETED", "COMPLETED") EXCEPT !.completedAt = TRUE]
<1>a. TypeOK BY DEF QueueInv
<1>b. cursor' = cursor BY DEF CompleteLease
<1>1. CASE HoldsLease(k, token) /\ jobs' = [jobs EXCEPT ![k] = row]
  <2>1. jobs[k].status = "LEASED" BY <1>1 DEF HoldsLease
  <2>2. jobs[k].outcome = NoOutcome BY <2>1, OutcomeMeansCompleted
  <2>3. /\ row.range = jobs[k].range /\ row.attemptCount = jobs[k].attemptCount
        /\ Stage(row) = "abandoned"
    BY <1>a, <2>2 DEF TypeOK, Job, Released, Stage
  <2>. HIDE DEF row
  <2> QED BY <1>a, <1>b, <1>1, <2>1, <2>3, HeldMovesOn
<1>2. CASE jobs' = jobs BY <1>b, <1>2, SameJobsUnseen, UnseenStutters
<1> QED BY <1>1, <1>2 DEF CompleteLease

LEMMA ReviewSucceeds ==
  ASSUME TypeOK, NEW k \in JobId, NEW t, NEW outcome \in Outcome, CompleteReview(k, t, outcome)
  PROVE  ContractStep
<1>. DEFINE row == [Released(jobs[k], "COMPLETED", "COMPLETED")
                      EXCEPT !.completedAt = TRUE, !.failedAt = FALSE,
                             !.outcome = outcome, !.cursorAdvancedAt = (outcome # "INCOMPLETE")]
<1>1. /\ jobs[k].status = "LEASED"
      /\ jobs' = [jobs EXCEPT ![k] = row]
      /\ outcome # "INCOMPLETE" => AdvanceCursor(jobs[k].range)
      /\ outcome = "INCOMPLETE" => cursor' = cursor
  BY DEF CompleteReview, RequireActive
<1>2. /\ row.range = jobs[k].range /\ row.attemptCount = jobs[k].attemptCount
      /\ row.status = "COMPLETED" /\ row.outcome = outcome /\ outcome # NoOutcome
  BY NoneIsNoOutcome DEF TypeOK, Job, Released
<1>. HIDE DEF row
<1>3. CASE outcome = "INCOMPLETE"
  <2>1. Stage(row) = "inconclusive" BY <1>2, <1>3 DEF Stage
  <2> QED BY <1>1, <1>2, <1>3, <2>1, HeldMovesOn
<1>4. CASE outcome # "INCOMPLETE"
  <2>1. Stage(jobs[k]) = "held" /\ Stage(row) = "succeeded" BY <1>1, <1>2, <1>4 DEF Stage
  <2>2. jobs'[k] = row /\ \A j \in JobId \ {k} : jobs'[j] = jobs[j] BY <1>1 DEF TypeOK
  <2>3. \A j \in JobId : jobs'[j].range = jobs[j].range
                         /\ jobs'[j].attemptCount = jobs[j].attemptCount
    BY <1>2, <2>2
  <2>4. \A j \in JobId : Stage(jobs'[j]) = IF j = k THEN "succeeded" ELSE Stage(jobs[j])
    BY <2>1, <2>2
  <2>5. /\ cursor[jobs[k].range.repo] \in {jobs[k].range.base, jobs[k].range.head}
        /\ cursor' = [cursor EXCEPT ![jobs[k].range.repo] = jobs[k].range.head]
    BY <1>1, <1>4 DEF AdvanceCursor
  <2>6. Contract!Succeed(k) BY <2>1, <2>3, <2>4, <2>5 DEF Contract!Succeed
  <2> QED BY <2>6 DEF ContractStep, Contract!Next
<1> QED BY <1>3, <1>4

(* Leases that expire, retries, stale candidate lists, repeated claims and *)
(* late sessions never show: callers of the queue see reviews that are     *)
(* submitted once, delivered to one reviewer at a time, and concluded at   *)
(* most once, and positions that move along reviews that succeeded.        *)
THEOREM QueueImplementsContract == Spec => QueueFulfilsContract
<1>1. Init => Contract!Init
  BY DEF Init, Contract!Init, Stage, NoJob
<1>2. QueueInv /\ OneOpenAttempt /\ [Next]_queueVars => ContractStep
  <2>. SUFFICES ASSUME QueueInv, OneOpenAttempt, [Next]_queueVars
                PROVE  ContractStep
    OBVIOUS
  <2>1. TypeOK /\ AbsentRowsEmpty BY DEF QueueInv
  <2>2. CASE UNCHANGED <<jobs, cursor>> BY <2>2, SameJobsUnseen, UnseenStutters
  <2>3. CASE DispatcherCall
    BY <2>1, <2>2, <2>3, EnqueueSubmits, ClaimDelivers, RecoveryGivesBack, FailureGivesBack,
       CompletionAbandons
    DEF DispatcherCall, ListCandidates
  <2>4. CASE SessionCall
    BY <2>1, <2>2, <2>4, ReviewSucceeds DEF SessionCall, RecordEvidence, CreateProposal
  <2>5. CASE Environment \/ UNCHANGED queueVars
    BY <2>2, <2>5 DEF Environment, RegistryChanges, Tick, queueVars
  <2> QED BY <2>3, <2>4, <2>5 DEF Next
<1> QED BY <1>1, <1>2, QueueInvHolds, OneOpenAttemptHolds, PTL
        DEF Spec, ContractStep, QueueFulfilsContract, Contract!Spec
=============================================================================
