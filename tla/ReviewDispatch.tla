--------------------------- MODULE ReviewDispatch ---------------------------
(***************************************************************************)
(* Scheduled invocations of the review dispatcher, and the Eve sessions    *)
(* they start, on top of the queue of ReviewQueue.  Invocations overlap:   *)
(* the schedule starts a new one whether or not the earlier one is done,   *)
(* any of them may be killed or lose the database between two steps, and   *)
(* the sessions it started live on.                                        *)
(*                                                                         *)
(* An invocation creates one claim ID and one worker ID; both are named    *)
(* after the invocation.                                                   *)
(***************************************************************************)
EXTENDS ReviewQueue

CONSTANTS
  ClaimAttempts,     \* claimAttempts of the dispatcher configuration
  ConcurrencyLimit,  \* concurrencyLimit of the dispatcher configuration
  Locks              \* sets of job rows a batch query may find locked

Dispatcher == ClaimId

ASSUME DispatcherAssumption == WorkerId = ClaimId
ASSUME ClaimAttemptsAssumption == ClaimAttempts \in 1..5
ASSUME ConcurrencyAssumption == ConcurrencyLimit \in 1..ClaimLimit
ASSUME LocksAssumption == Locks \subseteq SUBSET JobId

VARIABLES
  phase,    \* where each invocation is
  time,     \* the invocationTime it read when it began
  todo,     \* listed candidates it has not enqueued yet
  tries,    \* claim attempts it has made
  lease,    \* for each job of its claimed batch, the lease token it was given
  routes,   \* jobs of its batch with a trusted Slack route
  work,     \* the progress of dispatchJob for each job of its batch
  session   \* the review session it started for each job of its batch

dispatchVars == <<phase, time, todo, tries, lease, routes, work, session>>
vars == <<queueVars, dispatchVars>>

Phase == {"idle", "listing", "enqueueing", "claiming", "routing", "dispatching",
          "done", "aborted"}
Settled == {"settled waiting", "settled completed"}
Working == {"running", "failing"} \cup Settled
Reported == {"completed", "waiting", "failed"}
WorkState == {"none", "queued"} \cup Working \cup Reported
SessionState == {"none", "running", "waiting", "completed", "failed"}

DispatchTypeOK ==
  /\ phase \in [Dispatcher -> Phase]
  /\ time \in [Dispatcher -> Time]
  /\ todo \in [Dispatcher -> SUBSET Range]
  /\ tries \in [Dispatcher -> 0..ClaimAttempts]
  /\ lease \in [Dispatcher -> [JobId -> Token]]
  /\ routes \in [Dispatcher -> SUBSET JobId]
  /\ work \in [Dispatcher -> [JobId -> WorkState]]
  /\ session \in [Dispatcher -> [JobId -> SessionState]]

DispatchInit ==
  /\ Init
  /\ phase = [d \in Dispatcher |-> "idle"]
  /\ time = [d \in Dispatcher |-> Never]
  /\ todo = [d \in Dispatcher |-> {}]
  /\ tries = [d \in Dispatcher |-> 0]
  /\ lease = [d \in Dispatcher |-> [j \in JobId |-> NoToken]]
  /\ routes = [d \in Dispatcher |-> {}]
  /\ work = [d \in Dispatcher |-> [j \in JobId |-> "none"]]
  /\ session = [d \in Dispatcher |-> [j \in JobId |-> "none"]]

Moves(d, from, to) == phase[d] = from /\ phase' = [phase EXCEPT ![d] = to]

Batch(d) == {j \in JobId : lease[d][j] # NoToken}

-----------------------------------------------------------------------------
(* Enqueueing due work, recovering expired leases and claiming a batch.    *)

Begin(d) ==
  /\ Moves(d, "idle", "listing")
  /\ time' = [time EXCEPT ![d] = now]
  /\ UNCHANGED <<queueVars, todo, tries, lease, routes, work, session>>

List(d) ==
  /\ Moves(d, "listing", "enqueueing")
  /\ ListCandidates
  /\ todo' = [todo EXCEPT ![d] = ListDueReviewCandidates]
  /\ UNCHANGED <<time, tries, lease, routes, work, session>>

(* Mutant: every candidate is enqueued as an incremental review.           *)
EnqueueIncremental(d) ==
  /\ phase[d] = "enqueueing"
  /\ \E range \in todo[d] :
       LET incremental == [range EXCEPT !.mode = "INCREMENTAL"] IN
       /\ \/ Enqueue(incremental, time[d])
          \/ HasCurrentAttempt(incremental) /\ UNCHANGED queueVars
       /\ todo' = [todo EXCEPT ![d] = @ \ {range}]
  /\ UNCHANGED <<phase, time, tries, lease, routes, work, session>>

EnqueueCandidate(d) ==
  /\ phase[d] = "enqueueing"
  /\ \E range \in todo[d] :
       /\ \/ Enqueue(range, time[d])
          \/ HasCurrentAttempt(range) /\ UNCHANGED queueVars
       /\ todo' = [todo EXCEPT ![d] = @ \ {range}]
  /\ UNCHANGED <<phase, time, tries, lease, routes, work, session>>

Recover(d) ==
  /\ todo[d] = {}
  /\ Moves(d, "enqueueing", "claiming")
  /\ \E locked \in Locks : RecoverExpiredLeases(time[d], locked)
  /\ UNCHANGED <<time, todo, tries, lease, routes, work, session>>

(* The claim transaction: a new batch the first time, then replays.        *)
ClaimTransaction(d) ==
  \/ \E locked \in Locks : ClaimDue(d, d, time[d], locked)
  \/ claims[d] # NoClaim /\ ~ClaimConflict(d, d) /\ UNCHANGED queueVars

(* Mutant: an answer for a used claim ID is taken for an empty batch.      *)
FreshlyClaimed(d) == IF claims[d] = NoClaim THEN ClaimReplay(d)' ELSE {}

(* The answer, new or replayed, is the leased jobs of the claim.           *)
ClaimedJobs(d) == ClaimReplay(d)'

ClaimAnswered(d) ==
  /\ Moves(d, "claiming", "routing")
  /\ tries[d] < ClaimAttempts
  /\ ClaimTransaction(d)
  /\ lease' = [lease EXCEPT ![d] =
       [j \in JobId |-> IF j \in ClaimedJobs(d) THEN jobs'[j].leaseToken ELSE NoToken]]
  /\ work' = [work EXCEPT ![d] =
       [j \in JobId |-> IF j \in ClaimedJobs(d) THEN "queued" ELSE "none"]]
  /\ UNCHANGED <<time, todo, tries, routes, session>>

(* Mutant: the last attempt is retried like the others.                    *)
ClaimRetriedForever(d) ==
  /\ phase[d] = "claiming"
  /\ UNCHANGED queueVars \/ ClaimTransaction(d)
  /\ tries' = [tries EXCEPT ![d] = @ + 1]
  /\ UNCHANGED <<phase, time, todo, lease, routes, work, session>>

(* The transaction fails, or commits and its answer is lost.  After the    *)
(* last attempt the error ends the invocation.                             *)
ClaimUnanswered(d) ==
  /\ phase[d] = "claiming"
  /\ tries[d] < ClaimAttempts
  /\ UNCHANGED queueVars \/ ClaimTransaction(d)
  /\ tries' = [tries EXCEPT ![d] = @ + 1]
  /\ phase' = [phase EXCEPT ![d] =
       IF tries[d] + 1 = ClaimAttempts THEN "aborted" ELSE "claiming"]
  /\ UNCHANGED <<time, todo, lease, routes, work, session>>

LoadDispatchRoutes(d) ==
  /\ Moves(d, "routing", "dispatching")
  /\ routes' = [routes EXCEPT ![d] = {j \in Batch(d) : Routable(jobs[j].range.repo)}]
  /\ UNCHANGED <<queueVars, time, todo, tries, lease, work, session>>

-----------------------------------------------------------------------------
(* Dispatching the batch with a bounded number of concurrent sessions.     *)

Busy(d) == {j \in JobId : work[d][j] \in Working}

Step(d, j, from, to) ==
  /\ phase[d] = "dispatching"
  /\ work[d][j] = from
  /\ work' = [work EXCEPT ![d][j] = to]

SameInvocation == UNCHANGED <<phase, time, todo, tries, lease, routes>>

(* Without a route, or when the channel refuses the delivery, there is no  *)
(* session and the job is failed at once.                                  *)
StartJob(d, j) ==
  /\ Cardinality(Busy(d)) < ConcurrencyLimit
  /\ \/ /\ j \in routes[d]
        /\ Step(d, j, "queued", "running")
        /\ session' = [session EXCEPT ![d][j] = "running"]
     \/ Step(d, j, "queued", "failing") /\ session' = session
  /\ SameInvocation
  /\ UNCHANGED queueVars

(* The event stream ends before the first turn settled: the dispatcher     *)
(* sees an error, the session goes on.                                     *)
StreamEnds(d, j) ==
  /\ Step(d, j, "running", "failing")
  /\ SameInvocation
  /\ UNCHANGED <<queueVars, session>>

(* Mutant: a completed session counts as a completed review.               *)
TrustSession(d, j) ==
  /\ \/ Step(d, j, "settled completed", "completed")
     \/ ~HasRecordedOutcome(j, lease[d][j]) /\ Step(d, j, "settled waiting", "waiting")
     \/ \E settled \in Settled : Step(d, j, settled, "failing")
  /\ SameInvocation
  /\ UNCHANGED <<queueVars, session>>

CheckOutcome(d, j) ==
  /\ \/ /\ HasRecordedOutcome(j, lease[d][j])
        /\ \E settled \in Settled : Step(d, j, settled, "completed")
     \/ /\ ~HasRecordedOutcome(j, lease[d][j])
        /\ Step(d, j, "settled waiting", "waiting")
     \* no outcome to show for a completed session, or the query itself failed
     \/ \E settled \in Settled : Step(d, j, settled, "failing")
  /\ SameInvocation
  /\ UNCHANGED <<queueVars, session>>

(* Mutants: the job is failed under whatever lease it has now; an error of *)
(* the failure transaction is not caught.                                  *)
FailJobNow(d, j) ==
  /\ Step(d, j, "failing", "failed")
  /\ Fail(j, jobs[j].leaseToken, now, TRUE) \/ UNCHANGED queueVars
  /\ SameInvocation
  /\ UNCHANGED session

FailJobOrStay(d, j) ==
  /\ Step(d, j, "failing", "failed")
  /\ Fail(j, lease[d][j], now, TRUE)
  /\ SameInvocation
  /\ UNCHANGED session

(* A lease conflict, or a failure that cannot be persisted, is swallowed;  *)
(* lease expiry is the second recovery path.                               *)
FailJob(d, j) ==
  /\ Step(d, j, "failing", "failed")
  /\ Fail(j, lease[d][j], now, TRUE) \/ UNCHANGED queueVars
  /\ SameInvocation
  /\ UNCHANGED session

Finish(d) ==
  /\ \A j \in Batch(d) : work[d][j] \in Reported
  /\ Moves(d, "dispatching", "done")
  /\ UNCHANGED <<queueVars, time, todo, tries, lease, routes, work, session>>

(* A database error outside the claim, a timeout or a crash.               *)
Abort(d) ==
  /\ phase[d] \in {"listing", "enqueueing", "claiming", "routing", "dispatching"}
  /\ phase' = [phase EXCEPT ![d] = "aborted"]
  /\ UNCHANGED <<queueVars, time, todo, tries, lease, routes, work, session>>

-----------------------------------------------------------------------------
(* Eve sessions.  The tools of a session resolve its job from the session, *)
(* whichever lease the job is under by then.                               *)

SessionReviews(d, j) ==
  /\ session[d][j] = "running"
  /\ \/ \E class \in Classification : RecordEvidence(j, now, class)
     \/ CreateProposal(j, now)
     \/ \E outcome \in Outcome : CompleteReview(j, now, outcome)
  /\ UNCHANGED dispatchVars

(* The first settlement reaches the dispatcher while it still listens.     *)
SessionSettles(d, j) ==
  /\ session[d][j] = "running"
  /\ \E s \in {"waiting", "completed", "failed"} :
       /\ session' = [session EXCEPT ![d][j] = s]
       /\ work' = [work EXCEPT ![d][j] =
            IF phase[d] = "dispatching" /\ @ = "running"
              THEN CASE s = "waiting"   -> "settled waiting"
                     [] s = "completed" -> "settled completed"
                     [] s = "failed"    -> "failing"
              ELSE @]
  /\ SameInvocation
  /\ UNCHANGED queueVars

(* A parked session continues once its approval is answered.               *)
SessionResumes(d, j) ==
  /\ session[d][j] = "waiting"
  /\ session' = [session EXCEPT ![d][j] = "running"]
  /\ SameInvocation
  /\ UNCHANGED <<queueVars, work>>

-----------------------------------------------------------------------------
DispatcherStep(d) ==
  \/ Begin(d) \/ List(d) \/ EnqueueCandidate(d) \/ Recover(d)
  \/ ClaimAnswered(d) \/ ClaimUnanswered(d) \/ LoadDispatchRoutes(d) \/ Finish(d)
  \/ \E j \in JobId : StartJob(d, j) \/ CheckOutcome(d, j) \/ FailJob(d, j)

SessionStep(d, j) ==
  SessionReviews(d, j) \/ SessionSettles(d, j) \/ SessionResumes(d, j)

DispatchNext ==
  \/ \E d \in Dispatcher :
       \/ DispatcherStep(d) \/ Abort(d)
       \/ \E j \in JobId : SessionStep(d, j) \/ StreamEnds(d, j)
  \/ Environment /\ UNCHANGED dispatchVars

DispatchSpec == DispatchInit /\ [][DispatchNext]_vars

(* The runtime keeps executing an invocation that was not aborted, and Eve *)
(* settles every turn of a session.                                        *)
FairDispatchSpec ==
  /\ DispatchSpec
  /\ \A d \in Dispatcher :
       /\ WF_vars(DispatcherStep(d))
       /\ \A j \in JobId : WF_vars(SessionSettles(d, j))

-----------------------------------------------------------------------------
(* Properties.                                                             *)

(* Dispatchers and sessions use the queue only through the calls of        *)
(* ReviewQueue and only with arguments its specification allows, so what   *)
(* is shown of the queue alone holds of the system.                        *)
DispatchUsesQueue == Spec

(* No two invocations are ever given the same lease, whatever claims are   *)
(* repeated, lost or overtaken by a recovery: each lease has one holder,   *)
(* so each lease starts at most one session.                               *)
LeasesHaveOneHolder ==
  \A d, e \in Dispatcher : d # e =>
    \A j \in Batch(d) \cap Batch(e) : lease[d][j] # lease[e][j]

(* An invocation whose claim was answered knows every job that is leased   *)
(* under its claim ID, also when the first answer was lost and the claim   *)
(* was repeated: no lease is left to expire without anybody working on it. *)
NoLeaseUnclaimed ==
  \A d \in Dispatcher : phase[d] \in {"routing", "dispatching", "done"} =>
    \A j \in ClaimReplay(d) : lease[d][j] = jobs[j].leaseToken

(* A lease ends as failed only by the word of the invocation that held it: *)
(* an invocation that lost its lease to recovery can neither fail the job  *)
(* of the next holder nor requeue a finished one.                          *)
OnlyHolderFails ==
  \A j \in JobId : \A n \in 1..jobs[j].attemptCount :
    Event("failed", j, n) \in audit =>
      \E d \in Dispatcher : lease[d][j] = n /\ work[d][j] = "failed"

(* A review reported as completed has an outcome under the reported lease, *)
(* and stays so: no recovery, retry or late session takes it back.         *)
ReportedCompletionIsFinal ==
  \A d \in Dispatcher, j \in JobId :
    work[d][j] = "completed" => HasRecordedOutcome(j, lease[d][j])

(* Every invocation comes to an end: neither a failed session, a lost      *)
(* lease nor a failure that cannot be persisted leaves a concurrency slot  *)
(* occupied, and every job of the batch gets its turn.                     *)
InvocationsEnd ==
  \A d \in Dispatcher :
    phase[d] = "listing" ~> phase[d] \in {"done", "aborted"}

(* dispatch-review-jobs.ts:95: "starts one peer root session per           *)
(* repository": one invocation never runs two sessions for a repository.   *)
OneSessionPerRepository ==
  \A d \in Dispatcher : \A j, k \in Busy(d) :
    /\ j # k
    /\ work[d][j] = "running" /\ work[d][k] = "running"
    => jobs[j].range.repo # jobs[k].range.repo
=============================================================================
