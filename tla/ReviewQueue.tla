---------------------------- MODULE ReviewQueue ----------------------------
(***************************************************************************)
(* The durable review-job queue of the control plane: the tables           *)
(* review_jobs, review_job_claim_invocations, repository_cursors,          *)
(* evidence_claims, change_proposals and audit_events, and the store       *)
(* methods that change them.  Every store method runs in one database      *)
(* transaction that locks the rows it decides on, so every method is one   *)
(* action.  The registry row of a repository changes underneath the queue. *)
(*                                                                         *)
(* What a caller read earlier and passes in (a candidate range, a point in *)
(* time) may be stale when the transaction runs: candidates are taken from *)
(* everything listed so far, times from every instant up to now.           *)
(***************************************************************************)
EXTENDS Integers, FiniteSets

CONSTANTS
  Repo,           \* repositories in the registry
  Commit,         \* head commits, numbered in the order they were pushed
  MaxJob,         \* bound: rows of review_jobs, numbered in creation order
  ClaimId,        \* claim IDs, one per dispatcher invocation
  WorkerId,       \* worker IDs
  ClaimLimit,     \* claimLimit of the dispatcher configuration
  LeaseFor,       \* leaseForMs, in ticks
  RetryDelay,     \* failureRetryMs, in ticks
  MaxTime,        \* bound: the clock stops here
  Classification, \* behavior-comparison classifications in use
  Outcome,        \* outcomes a session may complete its job with
  Eligibility,    \* whether a row may be eligible for reviews, and may not
  Scopes,         \* projections of the Roadie scope the registry may hold
  HeadMayMoveBack \* a head may return to an earlier commit

ASSUME CommitAssumption == Commit \subseteq Nat \ {0}
ASSUME JobAssumption == MaxJob \in Nat
ASSUME ClaimLimitAssumption == ClaimLimit \in 1..100
ASSUME LeaseAssumption == LeaseFor \in Nat \ {0}
ASSUME RetryAssumption == RetryDelay \in Nat \ {0}
ASSUME TimeAssumption == MaxTime \in Nat
ASSUME ClassificationAssumption ==
  Classification \subseteq
    {"consistent", "contradictory", "insufficient-evidence"}
ASSUME OutcomeAssumption ==
  Outcome \subseteq {"NO_CHANGE", "IN_SYNC", "PROPOSAL_CREATED", "INCOMPLETE"}
ASSUME EligibilityAssumption == Eligibility \subseteq BOOLEAN
ASSUME ScopesAssumption == Scopes \subseteq {"unresolved", "stale", "fresh"}
ASSUME HeadAssumption == HeadMayMoveBack \in BOOLEAN

VARIABLES
  registry,     \* the scheduling columns of each repository_registry row
  cursor,       \* lastSuccessfullyReviewedSha of each repository
  jobs,         \* rows of review_jobs
  claims,       \* the worker recorded under each claim ID
  listed,       \* ranges returned by listDueReviewCandidates so far
  comparisons,  \* classifications among the evidence claims of each job
  proposed,     \* jobs with a persisted change proposal
  audit,        \* idempotency keys of audit_events
  now           \* the clock

queueVars ==
  <<registry, cursor, jobs, claims, listed, comparisons, proposed, audit, now>>

JobId == 1..MaxJob
NoCommit == 0     \* a NULL commit column
NoToken == 0      \* a NULL lease token
Never == 0        \* a NULL timestamp; the clock starts at 1
NoClaim == "none" \* a NULL claim, and a claim ID nobody has used
Mode == {"INCREMENTAL", "RECONCILIATION"}
NoOutcome == "none"
Time == Nat

ASSUME NullAssumption == NoClaim \notin ClaimId /\ NoClaim \notin WorkerId

Range == [repo : Repo, base : Commit \cup {NoCommit}, head : Commit, mode : Mode]

RegistryRow == [eligible : Eligibility, scope : Scopes, head : Commit]

NoRange == [repo |-> "none", base |-> NoCommit, head |-> NoCommit, mode |-> "none"]

(* Lease tokens are fresh UUIDs and are only ever compared next to the job *)
(* ID, so the token of a job's n-th lease is written n.                    *)
Token == Nat

Job ==
  [ status           : {"ABSENT", "PENDING", "LEASED", "COMPLETED", "FAILED"},
    range            : Range \cup {NoRange},
    attemptNumber    : Nat,
    availableAt      : Time,
    attemptCount     : Nat,
    claim            : ClaimId \cup {NoClaim},
    leaseToken       : Token,
    leaseExpiresAt   : Time,
    lastLeaseToken   : Token,
    lastLeaseOutcome : {"none", "COMPLETED", "FAILED", "RECOVERED"},
    completedAt      : BOOLEAN,  \* whether the column is set
    failedAt         : BOOLEAN,
    outcome          : Outcome \cup {NoOutcome},
    cursorAdvancedAt : BOOLEAN ]

NoJob ==
  [ status |-> "ABSENT", range |-> NoRange, attemptNumber |-> 0,
    availableAt |-> Never, attemptCount |-> 0, claim |-> NoClaim,
    leaseToken |-> NoToken, leaseExpiresAt |-> Never,
    lastLeaseToken |-> NoToken, lastLeaseOutcome |-> "none",
    completedAt |-> FALSE, failedAt |-> FALSE, outcome |-> NoOutcome,
    cursorAdvancedAt |-> FALSE ]

EventType == {"enqueued", "claimed", "failed", "recovered", "completed", "outcome"}

AuditKey == [type : EventType, job : JobId, token : Token]

Event(type, j, token) == [type |-> type, job |-> j, token |-> token]

TypeOK ==
  /\ registry \in [Repo -> RegistryRow]
  /\ cursor \in [Repo -> Commit \cup {NoCommit}]
  /\ jobs \in [JobId -> Job]
  /\ claims \in [ClaimId -> WorkerId \cup {NoClaim}]
  /\ listed \subseteq Range
  /\ comparisons \in [JobId -> SUBSET Classification]
  /\ proposed \subseteq JobId
  /\ audit \subseteq AuditKey
  /\ now \in Nat \ {0}

Init ==
  /\ registry \in [Repo -> RegistryRow]
  /\ cursor = [r \in Repo |-> NoCommit]
  /\ jobs = [j \in JobId |-> NoJob]
  /\ claims = [c \in ClaimId |-> NoClaim]
  /\ listed = {}
  /\ comparisons = [j \in JobId |-> {}]
  /\ proposed = {}
  /\ audit = {}
  /\ now = 1

-----------------------------------------------------------------------------
(* Reading the registry.                                                   *)

Eligible(r) == registry[r].eligible

(* A resolved row always has a Slack channel; freshness is judged against  *)
(* the roadieFreshAfter boundary of the reader.                            *)
Resolved(r) == registry[r].scope \in {"stale", "fresh"}
Routable(r) == Eligible(r) /\ registry[r].scope = "fresh"

DueRange(r) ==
  [ repo |-> r, base |-> cursor[r], head |-> registry[r].head,
    mode |-> IF cursor[r] = NoCommit THEN "RECONCILIATION" ELSE "INCREMENTAL" ]

Due(r) == Routable(r) /\ cursor[r] # registry[r].head

ListDueReviewCandidates == {DueRange(r) : r \in {q \in Repo : Due(q)}}

ListCandidates ==
  /\ listed' = listed \cup ListDueReviewCandidates
  /\ UNCHANGED <<registry, cursor, jobs, claims, comparisons, proposed, audit, now>>

-----------------------------------------------------------------------------
(* Enqueueing.  Only a completed attempt with the outcome INCOMPLETE makes *)
(* room for another attempt at the same range; otherwise the latest        *)
(* attempt is returned and nothing changes.                                *)

Exists(j) == jobs[j].status # "ABSENT"

Attempts(range) == {j \in JobId : Exists(j) /\ jobs[j].range = range}

(* Mutant: the dedup lookup takes any attempt instead of the latest.       *)
AnyAttempt(j, range) == j \in Attempts(range)

IsLatestAttempt(j, range) ==
  /\ j \in Attempts(range)
  /\ \A k \in Attempts(range) : jobs[k].attemptNumber <= jobs[j].attemptNumber

PermitsRetry(j) == jobs[j].status = "COMPLETED" /\ jobs[j].outcome = "INCOMPLETE"

NewJob(range, attemptNumber, availableAt) ==
  [NoJob EXCEPT !.status = "PENDING", !.range = range,
                !.attemptNumber = attemptNumber, !.availableAt = availableAt]

(* Rows are created in the order of their numbers.                         *)
IsNextRow(j) == ~Exists(j) /\ \A k \in JobId : k < j => Exists(k)

Create(j, range, attemptNumber, t) ==
  /\ IsNextRow(j)
  /\ jobs' = [jobs EXCEPT ![j] = NewJob(range, attemptNumber, t)]
  /\ audit' = audit \cup {Event("enqueued", j, NoToken)}
  /\ UNCHANGED <<registry, cursor, claims, listed, comparisons, proposed, now>>

Enqueue(range, t) ==
  \/ /\ Attempts(range) = {}
     /\ \E j \in JobId : Create(j, range, 1, t)
  \/ \E latest \in JobId :
       /\ IsLatestAttempt(latest, range)
       /\ PermitsRetry(latest)
       /\ \E j \in JobId : Create(j, range, jobs[latest].attemptNumber + 1, t)

HasCurrentAttempt(range) ==
  \E latest \in JobId : IsLatestAttempt(latest, range) /\ ~PermitsRetry(latest)

-----------------------------------------------------------------------------
(* Claiming and the ends of a lease.                                       *)

ClaimedBefore(k, j) ==
  \/ jobs[k].availableAt < jobs[j].availableAt
  \/ jobs[k].availableAt = jobs[j].availableAt /\ k < j

ExpiredBefore(k, j) ==
  \/ jobs[k].leaseExpiresAt < jobs[j].leaseExpiresAt
  \/ jobs[k].leaseExpiresAt = jobs[j].leaseExpiresAt /\ k < j

(* Mutant: jobs that failed for good are claimed again.                    *)
ClaimableOrFailed(t) ==
  {j \in JobId : /\ jobs[j].status \in {"PENDING", "FAILED"}
                 /\ jobs[j].availableAt <= t
                 /\ Eligible(jobs[j].range.repo)}

Claimable(t) ==
  {j \in JobId : /\ jobs[j].status = "PENDING"
                 /\ jobs[j].availableAt <= t
                 /\ Eligible(jobs[j].range.repo)}

Expired(t) ==
  {j \in JobId : jobs[j].status = "LEASED" /\ jobs[j].leaseExpiresAt <= t}

(* SKIP LOCKED: rows that another transaction holds at this moment (a late *)
(* call of a session locks its job before it looks at it) are passed over. *)
Available(t, locked) == Claimable(t) \ locked
Recoverable(t, locked) == Expired(t) \ locked

(* ORDER BY ... LIMIT: fewer than ClaimLimit rows come before.              *)
ClaimBatch(t, locked) ==
  {j \in Available(t, locked) :
     Cardinality({k \in Available(t, locked) : ClaimedBefore(k, j)}) < ClaimLimit}

RecoverBatch(t, locked) ==
  {j \in Recoverable(t, locked) :
     Cardinality({k \in Recoverable(t, locked) : ExpiredBefore(k, j)}) < ClaimLimit}

Leased(job, c, t) ==
  [job EXCEPT !.status = "LEASED", !.attemptCount = @ + 1, !.claim = c,
              !.leaseToken = job.attemptCount + 1, !.leaseExpiresAt = t + LeaseFor]

(* Mutant: the claim ID is not looked up first, so a retry leases again.   *)
ClaimDueUnchecked(c, w, t, locked) ==
  LET batch == ClaimBatch(t, locked) IN
  /\ claims' = [claims EXCEPT ![c] = w]
  /\ jobs' = [j \in JobId |-> IF j \in batch THEN Leased(jobs[j], c, t) ELSE jobs[j]]
  /\ audit' = audit \cup {Event("claimed", j, jobs[j].attemptCount + 1) : j \in batch}
  /\ UNCHANGED <<registry, cursor, listed, comparisons, proposed, now>>

(* A claim ID nobody has used leases one batch and is recorded even when   *)
(* the batch is empty.                                                     *)
ClaimDue(c, w, t, locked) ==
  LET batch == ClaimBatch(t, locked) IN
  /\ claims[c] = NoClaim
  /\ claims' = [claims EXCEPT ![c] = w]
  /\ jobs' = [j \in JobId |-> IF j \in batch THEN Leased(jobs[j], c, t) ELSE jobs[j]]
  /\ audit' = audit \cup {Event("claimed", j, jobs[j].attemptCount + 1) : j \in batch}
  /\ UNCHANGED <<registry, cursor, listed, comparisons, proposed, now>>

(* Mutant: the replay returns leased jobs of every claim.                  *)
ReplayOfAnyClaim(c) == {j \in JobId : jobs[j].status = "LEASED"}

(* A used claim ID only reads: what it returns, or the conflict it raises. *)
ClaimReplay(c) == {j \in JobId : jobs[j].claim = c /\ jobs[j].status = "LEASED"}
ClaimConflict(c, w) == claims[c] \notin {NoClaim, w}

HoldsLease(j, token) == jobs[j].status = "LEASED" /\ jobs[j].leaseToken = token

(* Mutant: the expiry of the lease is left in the row.                     *)
ReleasedWithExpiry(job, status, lastOutcome) ==
  [job EXCEPT !.status = status, !.leaseToken = NoToken,
              !.lastLeaseToken = job.leaseToken, !.lastLeaseOutcome = lastOutcome]

Released(job, status, lastOutcome) ==
  [job EXCEPT !.status = status, !.leaseToken = NoToken, !.leaseExpiresAt = Never,
              !.lastLeaseToken = job.leaseToken, !.lastLeaseOutcome = lastOutcome]

(* Mutant: the status is checked, the lease token is not.                  *)
FailAnyLease(j, token, t, willRetry) ==
  /\ jobs[j].status = "LEASED"
  /\ jobs' = [jobs EXCEPT ![j] =
       IF willRetry
         THEN [Released(@, "PENDING", "FAILED") EXCEPT !.availableAt = t + RetryDelay]
         ELSE [Released(@, "FAILED", "FAILED") EXCEPT !.failedAt = TRUE]]
  /\ audit' = audit \cup {Event("failed", j, token)}
  /\ UNCHANGED <<registry, cursor, claims, listed, comparisons, proposed, now>>

(* With a retry time the job is pending again, without one it has failed.  *)
(* A repeated call finds its own transition and changes nothing.           *)
Fail(j, token, t, willRetry) ==
  /\ HoldsLease(j, token)
  /\ jobs' = [jobs EXCEPT ![j] =
       IF willRetry
         THEN [Released(@, "PENDING", "FAILED") EXCEPT !.availableAt = t + RetryDelay]
         ELSE [Released(@, "FAILED", "FAILED") EXCEPT !.failedAt = TRUE]]
  /\ audit' = audit \cup {Event("failed", j, token)}
  /\ UNCHANGED <<registry, cursor, claims, listed, comparisons, proposed, now>>

RecoverExpiredLeases(t, locked) ==
  LET batch == RecoverBatch(t, locked) IN
  /\ jobs' = [j \in JobId |->
       IF j \in batch
         THEN [Released(jobs[j], "PENDING", "RECOVERED") EXCEPT !.availableAt = t]
         ELSE jobs[j]]
  /\ audit' = audit \cup {Event("recovered", j, jobs[j].leaseToken) : j \in batch}
  /\ UNCHANGED <<registry, cursor, claims, listed, comparisons, proposed, now>>

(* ReviewJobStore.complete closes a lease without an outcome; repeated for *)
(* a lease that already completed it only records its audit event.         *)
CompleteLease(j, token) ==
  /\ \/ /\ HoldsLease(j, token)
        /\ jobs' = [jobs EXCEPT ![j] =
                      [Released(@, "COMPLETED", "COMPLETED") EXCEPT !.completedAt = TRUE]]
     \/ /\ jobs[j].status = "COMPLETED"
        /\ jobs[j].lastLeaseToken = token
        /\ jobs[j].lastLeaseOutcome = "COMPLETED"
        /\ jobs' = jobs
  /\ audit' = audit \cup {Event("completed", j, token)}
  /\ UNCHANGED <<registry, cursor, claims, listed, comparisons, proposed, now>>

-----------------------------------------------------------------------------
(* What a review session writes.  A session names its job and no lease.    *)

RequireActive(j, t) ==
  /\ jobs[j].status = "LEASED"
  /\ jobs[j].leaseExpiresAt > t
  /\ Eligible(jobs[j].range.repo)
  /\ Resolved(jobs[j].range.repo)

(* Mutant: evidence is accepted for any job the session names.             *)
RecordEvidenceLate(j, t, class) ==
  /\ Exists(j)
  /\ comparisons' = [comparisons EXCEPT ![j] = @ \cup {class}]
  /\ UNCHANGED <<registry, cursor, jobs, claims, listed, proposed, audit, now>>

(* Evidence is validated to hold at least one behavior comparison.         *)
RecordEvidence(j, t, class) ==
  /\ RequireActive(j, t)
  /\ comparisons' = [comparisons EXCEPT ![j] = @ \cup {class}]
  /\ UNCHANGED <<registry, cursor, jobs, claims, listed, proposed, audit, now>>

(* Mutant: a proposal only needs evidence, not an active job.              *)
CreateProposalLate(j, t) ==
  /\ comparisons[j] # {}
  /\ proposed' = proposed \cup {j}
  /\ UNCHANGED <<registry, cursor, jobs, claims, listed, comparisons, audit, now>>

(* A proposal cites at least one evidence claim of the same job.           *)
CreateProposal(j, t) ==
  /\ RequireActive(j, t)
  /\ comparisons[j] # {}
  /\ proposed' = proposed \cup {j}
  /\ UNCHANGED <<registry, cursor, jobs, claims, listed, comparisons, audit, now>>

EvidenceSupports(j, outcome) ==
  outcome # "INCOMPLETE" =>
    /\ comparisons[j] # {}
    /\ "insufficient-evidence" \notin comparisons[j]
    /\ outcome \in {"NO_CHANGE", "IN_SYNC"} => "contradictory" \notin comparisons[j]
    /\ outcome = "PROPOSAL_CREATED" =>
         "contradictory" \in comparisons[j] /\ j \in proposed

(* Mutants: no comparison with the job's base; the head of the registry    *)
(* instead of the job's; an insert that leaves an existing row alone.      *)
AdvanceCursorBlindly(range) ==
  cursor' = [cursor EXCEPT ![range.repo] = range.head]

AdvanceCursorToLatest(range) ==
  /\ cursor[range.repo] \in {range.base, range.head}
  /\ cursor' = [cursor EXCEPT ![range.repo] = registry[range.repo].head]

AdvanceCursorOnce(range) ==
  /\ cursor[range.repo] \in {range.base, range.head}
  /\ cursor' = [cursor EXCEPT ![range.repo] = IF @ = NoCommit THEN range.head ELSE @]

(* The cursor moves only from the job's base, or stays where it already    *)
(* equals the job's head.                                                  *)
AdvanceCursor(range) ==
  /\ cursor[range.repo] \in {range.base, range.head}
  /\ cursor' = [cursor EXCEPT ![range.repo] = range.head]

CompleteReview(j, t, outcome) ==
  LET succeeds == outcome # "INCOMPLETE" IN
  /\ RequireActive(j, t)
  /\ jobs[j].leaseToken # NoToken
  /\ EvidenceSupports(j, outcome)
  /\ IF succeeds THEN AdvanceCursor(jobs[j].range) ELSE cursor' = cursor
  /\ jobs' = [jobs EXCEPT ![j] =
       [Released(@, "COMPLETED", "COMPLETED")
          EXCEPT !.completedAt = TRUE, !.failedAt = FALSE,
                 !.outcome = outcome, !.cursorAdvancedAt = succeeds]]
  /\ audit' = audit \cup {Event("outcome", j, NoToken)}
  /\ UNCHANGED <<registry, claims, listed, comparisons, proposed, now>>

(* `true` only after complete_review_job completed this exact lease.       *)
HasRecordedOutcome(j, token) ==
  /\ jobs[j].status = "COMPLETED"
  /\ jobs[j].outcome # NoOutcome
  /\ jobs[j].lastLeaseToken = token
  /\ jobs[j].lastLeaseOutcome = "COMPLETED"

-----------------------------------------------------------------------------
(* The registry row changes with every control-plane refresh and with      *)
(* every pause: eligibility, Roadie scope and default-branch head.         *)
RegistryChanges(r, row) ==
  /\ row # registry[r]
  /\ HeadMayMoveBack \/ row.head >= registry[r].head
  /\ registry' = [registry EXCEPT ![r] = row]
  /\ UNCHANGED <<cursor, jobs, claims, listed, comparisons, proposed, audit, now>>

Tick ==
  /\ now < MaxTime
  /\ now' = now + 1
  /\ UNCHANGED <<registry, cursor, jobs, claims, listed, comparisons, proposed, audit>>

CallTime == 1..now

DispatcherCall ==
  \/ ListCandidates
  \/ \E range \in listed, t \in CallTime : Enqueue(range, t)
  \/ \E t \in CallTime, locked \in SUBSET JobId :
       \/ RecoverExpiredLeases(t, locked)
       \/ \E c \in ClaimId, w \in WorkerId : ClaimDue(c, w, t, locked)
  \/ \E j \in JobId : \E token \in 1..jobs[j].attemptCount :
       \/ \E t \in CallTime, willRetry \in BOOLEAN : Fail(j, token, t, willRetry)
       \/ CompleteLease(j, token)

SessionCall ==
  \E j \in JobId, t \in CallTime :
    \/ \E class \in Classification : RecordEvidence(j, t, class)
    \/ CreateProposal(j, t)
    \/ \E outcome \in Outcome : CompleteReview(j, t, outcome)

Environment ==
  \/ \E r \in Repo, row \in RegistryRow : RegistryChanges(r, row)
  \/ Tick

Next == DispatcherCall \/ SessionCall \/ Environment

Spec == Init /\ [][Next]_queueVars

-----------------------------------------------------------------------------
(* Properties.                                                             *)

(* Every write leaves a row that the CHECK constraints of review_jobs      *)
(* accept (prisma/migrations: review_jobs_state_consistent,                *)
(* review_jobs_previous_lease_consistent, review_jobs_outcome_state_check, *)
(* review_jobs_cursor_outcome_check); a row they reject would abort the    *)
(* transaction, and the session or dispatcher would see the review fail.   *)
NoLease(job) == job.leaseToken = NoToken /\ job.leaseExpiresAt = Never

RowAccepted(job) ==
  /\ \/ job.status = "PENDING" /\ NoLease(job) /\ ~job.completedAt /\ ~job.failedAt
     \/ /\ job.status = "LEASED" /\ ~job.completedAt /\ ~job.failedAt
        /\ job.leaseToken # NoToken /\ job.leaseExpiresAt # Never
     \/ /\ job.status = "COMPLETED" /\ NoLease(job)
        /\ job.completedAt /\ ~job.failedAt /\ job.lastLeaseOutcome = "COMPLETED"
     \/ /\ job.status = "FAILED" /\ NoLease(job)
        /\ ~job.completedAt /\ job.failedAt /\ job.lastLeaseOutcome = "FAILED"
  /\ (job.lastLeaseToken = NoToken) <=> (job.lastLeaseOutcome = "none")
  /\ job.outcome # NoOutcome => job.status = "COMPLETED"
  /\ job.cursorAdvancedAt => job.outcome \in Outcome \ {"INCOMPLETE"}

RowsAccepted == \A j \in JobId : Exists(j) => RowAccepted(jobs[j])

(* Of all attempts at one range, every one but the latest ended with the   *)
(* outcome INCOMPLETE, and no two share an attempt number: whatever        *)
(* concurrent dispatchers enqueue from however stale a candidate list, a   *)
(* range never has two open attempts, and a reviewed range no second one.  *)
OneOpenAttempt ==
  \A j, k \in JobId :
    /\ j # k
    /\ Exists(j) /\ Exists(k)
    /\ jobs[j].range = jobs[k].range
    => /\ jobs[j].attemptNumber # jobs[k].attemptNumber
       /\ jobs[j].attemptNumber < jobs[k].attemptNumber => PermitsRetry(j)

(* The audit trail tells the life of every lease: each was claimed, the    *)
(* current one has not ended, and every earlier one ended exactly once, by *)
(* failure, by recovery or by completing the job.  A late failure report,  *)
(* a repeated call or a recovery racing a session never ends a lease       *)
(* twice, nor a lease it does not name.                                    *)
Ended(kind, j, n) ==
  IF kind = "completed"
    THEN \/ Event("completed", j, n) \in audit
         \/ jobs[j].lastLeaseToken = n /\ Event("outcome", j, NoToken) \in audit
    ELSE Event(kind, j, n) \in audit

LeaseEnd == {"failed", "recovered", "completed"}

Current(j, n) == jobs[j].status = "LEASED" /\ n = jobs[j].leaseToken

LeaseLedger ==
  /\ \A event \in audit : event.token <= jobs[event.job].attemptCount
  /\ \A j \in JobId : \A n \in 1..jobs[j].attemptCount :
       /\ Event("claimed", j, n) \in audit
       /\ Current(j, n) => \A kind \in LeaseEnd : ~Ended(kind, j, n)
       /\ ~Current(j, n) => \E kind \in LeaseEnd :
            Ended(kind, j, n) /\ \A other \in LeaseEnd \ {kind} : ~Ended(other, j, n)

(* A recorded outcome stays true of what is stored about the job: the      *)
(* comparisons and proposals it was judged on cannot change any more, so   *)
(* no late call of another session can contradict a finished review.       *)
OutcomeJustified ==
  \A j \in JobId : jobs[j].outcome # NoOutcome => EvidenceSupports(j, jobs[j].outcome)

(* The cursor of a repository names a commit whose review succeeded: the   *)
(* head of one of its jobs whose completion advanced the cursor.           *)
CursorReviewed ==
  \A r \in Repo : cursor[r] # NoCommit =>
    \E j \in JobId : /\ jobs[j].cursorAdvancedAt
                     /\ jobs[j].range.repo = r
                     /\ jobs[j].range.head = cursor[r]

(* As long as no head returns to an earlier commit, the cursor of a        *)
(* repository never moves back, however late a job of an earlier range     *)
(* completes and in whatever order overlapping ranges are reviewed.        *)
CursorNeverMovesBack ==
  [][~HeadMayMoveBack => \A r \in Repo : cursor'[r] >= cursor[r]]_queueVars

(* While heads only move forward, a range that was reviewed successfully   *)
(* does not become due again: the enqueuer would find the finished         *)
(* attempt, enqueue nothing, and the repository would stay due without     *)
(* ever being reviewed.                                                    *)
ReviewedRangeIsNotDue ==
  \A r \in Repo : Due(r) =>
    \A j \in Attempts(DueRange(r)) : ~jobs[j].cursorAdvancedAt

(* A finished job is history: no later call touches its row, its evidence  *)
(* or its proposals.                                                       *)
FinishedJobsAreFrozen ==
  [][\A j \in JobId : jobs[j].outcome # NoOutcome =>
       /\ jobs'[j] = jobs[j]
       /\ comparisons'[j] = comparisons[j]
       /\ j \in proposed' <=> j \in proposed]_queueVars

(* One claim ID leases one batch: jobs never join a claim after the        *)
(* transaction that recorded it, so a repeated claim returns work of its   *)
(* own batch only.                                                         *)
ReplayNeverLeases ==
  [][\A c \in ClaimId : claims[c] # NoClaim =>
       \A j \in JobId : jobs'[j].claim = c =>
         /\ jobs[j].claim = c
         /\ jobs'[j].status = "LEASED" => jobs'[j].leaseToken = jobs[j].leaseToken]_queueVars

-----------------------------------------------------------------------------
(* What the queue promises, free of leases, times and audit events.        *)

Stage(job) ==
  CASE job.status = "ABSENT"  -> "absent"
    [] job.status = "PENDING" -> "waiting"
    [] job.status = "LEASED"  -> "held"
    [] job.status = "FAILED"  -> "abandoned"
    [] job.status = "COMPLETED" ->
         IF job.outcome = NoOutcome THEN "abandoned"
         ELSE IF job.outcome = "INCOMPLETE" THEN "inconclusive" ELSE "succeeded"

Contract ==
  INSTANCE ReviewContract WITH
    Review <- JobId, NoSubject <- NoRange,
    stage <- [j \in JobId |-> Stage(jobs[j])],
    subject <- [j \in JobId |-> jobs[j].range],
    deliveries <- [j \in JobId |-> jobs[j].attemptCount],
    position <- cursor

(* The queue, with expiring leases, retries, stale candidate lists and a   *)
(* registry that changes underneath, delivers reviews as the contract says.*)
QueueFulfilsContract == Contract!Spec
=============================================================================
