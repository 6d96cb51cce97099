------------------------ MODULE ReviewDispatchProofs ------------------------
(***************************************************************************)
(* Proofs about ReviewDispatch: dispatchers and sessions use the queue as  *)
(* ReviewQueue allows, so that what is proved of the queue holds of the    *)
(* whole system, and the leases they hold are theirs.                      *)
(***************************************************************************)
EXTENDS ReviewDispatch, ReviewLeaseProofs

-----------------------------------------------------------------------------
(* Where an invocation is tells what it has read and been given so far.    *)

Answered == {"routing", "dispatching", "done"}
BeforeAnswer == {"idle", "listing", "enqueueing", "claiming"}

ReadEarlier ==
  \A d \in Dispatcher :
    /\ phase[d] # "idle" => time[d] \in 1..now
    /\ todo[d] \subseteq listed

ClaimsRecorded ==
  \A d \in Dispatcher :
    /\ phase[d] \in Answered => claims[d] # NoClaim
    /\ phase[d] \in BeforeAnswer => \A j \in JobId : work[d][j] = "none"

DispatchInv == DispatchTypeOK /\ ReadEarlier /\ ClaimsRecorded

-----------------------------------------------------------------------------
(* Every step of a dispatcher or a session is a step of the queue, or      *)
(* leaves the queue alone.                                                 *)

LEMMA TransactionUsesQueue ==
  ASSUME NEW d \in Dispatcher, time[d] \in CallTime, ClaimTransaction(d)
  PROVE  [Next]_queueVars
<1>1. CASE \E locked \in Locks : ClaimDue(d, d, time[d], locked)
  <2>1. PICK locked \in SUBSET JobId : ClaimDue(d, d, time[d], locked)
    BY <1>1, LocksAssumption DEF LocksAssumption
  <2>2. d \in ClaimId /\ d \in WorkerId
    BY DispatcherAssumption DEF DispatcherAssumption, Dispatcher
  <2> QED BY <2>1, <2>2 DEF Next, DispatcherCall
<1>2. CASE UNCHANGED queueVars BY <1>2
<1> QED BY <1>1, <1>2 DEF ClaimTransaction

LEMMA EnqueueUsesQueue ==
  ASSUME ReadEarlier, NEW d \in Dispatcher, EnqueueCandidate(d)
  PROVE  [Next]_queueVars
<1>1. PICK range \in todo[d] :
        Enqueue(range, time[d]) \/ (HasCurrentAttempt(range) /\ UNCHANGED queueVars)
  BY DEF EnqueueCandidate
<1>2. range \in listed /\ time[d] \in CallTime
  BY DEF EnqueueCandidate, ReadEarlier, CallTime
<1> QED BY <1>1, <1>2 DEF Next, DispatcherCall

LEMMA RecoverUsesQueue ==
  ASSUME ReadEarlier, NEW d \in Dispatcher, Recover(d)
  PROVE  [Next]_queueVars
<1>1. PICK locked \in SUBSET JobId : RecoverExpiredLeases(time[d], locked)
  BY LocksAssumption DEF Recover, LocksAssumption
<1>2. time[d] \in CallTime BY DEF Recover, Moves, ReadEarlier, CallTime
<1> QED BY <1>1, <1>2 DEF Next, DispatcherCall

(* Only a lease the job has now can be failed, and that one was given.     *)
LEMMA FailUsesQueue ==
  ASSUME TypeOK, LedgerInv, NEW d \in Dispatcher, NEW j \in JobId, FailJob(d, j)
  PROVE  [Next]_queueVars
<1>1. CASE Fail(j, lease[d][j], now, TRUE)
  <2>1. lease[d][j] \in 1..jobs[j].attemptCount
    BY <1>1, CountsAreNumbers DEF Fail, HoldsLease, LedgerInv, LedgerOf, Numbered, NoToken
  <2>2. now \in CallTime BY DEF TypeOK, CallTime
  <2>3. PICK token \in 1..jobs[j].attemptCount, t \in CallTime, willRetry \in BOOLEAN :
          Fail(j, token, t, willRetry)
    BY <1>1, <2>1, <2>2
  <2> QED BY <2>3 DEF Next, DispatcherCall
<1>2. CASE UNCHANGED queueVars BY <1>2
<1> QED BY <1>1, <1>2 DEF FailJob

LEMMA SessionUsesQueue ==
  ASSUME TypeOK, NEW d \in Dispatcher, NEW j \in JobId, SessionReviews(d, j)
  PROVE  [Next]_queueVars
<1>1. now \in CallTime BY DEF TypeOK, CallTime
<1> QED BY <1>1 DEF SessionReviews, Next, SessionCall

LEMMA StepUsesQueue ==
  ASSUME TypeOK, LedgerInv, DispatchInv, [DispatchNext]_vars
  PROVE  [Next]_queueVars
<1>a. ReadEarlier BY DEF DispatchInv
<1>1. ASSUME NEW d \in Dispatcher, DispatcherStep(d)
      PROVE  [Next]_queueVars
  <2>1. CASE List(d) BY <2>1 DEF List, Next, DispatcherCall
  <2>2. CASE EnqueueCandidate(d) BY <1>a, <2>2, EnqueueUsesQueue
  <2>3. CASE Recover(d) BY <1>a, <2>3, RecoverUsesQueue
  <2>4. CASE ClaimAnswered(d) \/ ClaimUnanswered(d)
    <3>1. phase[d] = "claiming" /\ (ClaimTransaction(d) \/ UNCHANGED queueVars)
      BY <2>4 DEF ClaimAnswered, ClaimUnanswered, Moves
    <3>2. time[d] \in CallTime BY <1>a, <3>1 DEF ReadEarlier, CallTime
    <3> QED BY <3>1, <3>2, TransactionUsesQueue
  <2>5. ASSUME NEW j \in JobId, FailJob(d, j) PROVE [Next]_queueVars
    BY <2>5, FailUsesQueue
  <2> QED BY <1>1, <2>1, <2>2, <2>3, <2>4, <2>5
          DEF DispatcherStep, Begin, LoadDispatchRoutes, Finish, StartJob, CheckOutcome
<1>2. ASSUME NEW d \in Dispatcher, NEW j \in JobId, SessionStep(d, j) \/ StreamEnds(d, j)
      PROVE  [Next]_queueVars
  BY <1>2, SessionUsesQueue DEF SessionStep, SessionSettles, SessionResumes, StreamEnds
<1>3. CASE \E d \in Dispatcher : Abort(d) BY <1>3 DEF Abort
<1>4. CASE Environment BY <1>4 DEF Next
<1>5. CASE UNCHANGED vars BY <1>5 DEF vars
<1> QED BY <1>1, <1>2, <1>3, <1>4, <1>5 DEF DispatchNext

-----------------------------------------------------------------------------
(* What the steps keep.                                                    *)

LEMMA InitDispatchInv == DispatchInit => DispatchInv
BY ClaimAttemptsAssumption
DEF DispatchInit, DispatchInv, DispatchTypeOK, ReadEarlier, ClaimsRecorded, Answered,
    ClaimAttemptsAssumption, Phase, Never, Time, NoToken, Token, WorkState, SessionState

(* What the dispatcher sees of a session that settles.                     *)
SettledWork(d, j, s) ==
  IF phase[d] = "dispatching" /\ work[d][j] = "running"
    THEN CASE s = "waiting"   -> "settled waiting"
           [] s = "completed" -> "settled completed"
           [] s = "failed"    -> "failing"
    ELSE work[d][j]

LEMMA OneEntryType ==
  ASSUME NEW S, NEW f \in [Dispatcher -> [JobId -> S]],
         NEW d \in Dispatcher, NEW j \in JobId, NEW v \in S
  PROVE  [f EXCEPT ![d][j] = v] \in [Dispatcher -> [JobId -> S]]
<1>1. [f[d] EXCEPT ![j] = v] \in [JobId -> S] OBVIOUS
<1> QED BY <1>1

LEMMA OneEntry ==
  ASSUME NEW S, NEW f \in [Dispatcher -> [JobId -> S]],
         NEW d \in Dispatcher, NEW j \in JobId, NEW v
  PROVE  \A e \in Dispatcher, k \in JobId :
           [f EXCEPT ![d][j] = v][e][k] = IF e = d /\ k = j THEN v ELSE f[e][k]
<1>1. \A k \in JobId : [f[d] EXCEPT ![j] = v][k] = IF k = j THEN v ELSE f[d][k]
  OBVIOUS
<1> QED BY <1>1

LEMMA StepKeepsType ==
  ASSUME TypeOK, TypeOK', DispatchTypeOK, [DispatchNext]_vars
  PROVE  DispatchTypeOK'
<1>. USE DEF DispatchTypeOK
<1>a. \A from, to, d : Moves(d, from, to) /\ to \in Phase => phase' \in [Dispatcher -> Phase]
  BY DEF Moves
<1>b. \A d \in Dispatcher, j \in JobId : \A from, to :
        Step(d, j, from, to) /\ to \in WorkState => work' \in [Dispatcher -> [JobId -> WorkState]]
  BY OneEntryType DEF Step
<1>c. ClaimAttempts \in Nat
  BY ClaimAttemptsAssumption DEF ClaimAttemptsAssumption
<1>1. ASSUME NEW d \in Dispatcher, DispatcherStep(d)
      PROVE  DispatchTypeOK'
  <2>1. CASE Begin(d)
    BY <1>a, <2>1 DEF Begin, Phase, TypeOK, Time
  <2>2. CASE List(d)
    BY <1>a, <2>2, DueRangeType DEF List, Phase
  <2>3. CASE EnqueueCandidate(d)
    BY <2>3 DEF EnqueueCandidate
  <2>4. CASE Recover(d)
    BY <1>a, <2>4 DEF Recover, Phase
  <2>5. CASE ClaimAnswered(d)
    <3>1. \A j \in JobId : jobs'[j].leaseToken \in Token /\ NoToken \in Token
      BY DEF TypeOK, Job, Token, NoToken
    <3>2. "queued" \in WorkState /\ "none" \in WorkState BY DEF WorkState
    <3> QED BY <1>a, <2>5, <3>1, <3>2 DEF ClaimAnswered, Phase
  <2>6. CASE ClaimUnanswered(d)
    <3>1. tries[d] + 1 \in 0..ClaimAttempts BY <1>c, <2>6 DEF ClaimUnanswered
    <3> QED BY <2>6, <3>1 DEF ClaimUnanswered, Phase
  <2>7. CASE LoadDispatchRoutes(d)
    BY <1>a, <2>7 DEF LoadDispatchRoutes, Batch, Phase
  <2>8. CASE Finish(d)
    BY <1>a, <2>8 DEF Finish, Phase
  <2>9. ASSUME NEW j \in JobId, StartJob(d, j) \/ CheckOutcome(d, j) \/ FailJob(d, j)
        PROVE  DispatchTypeOK'
    <3>1. work' \in [Dispatcher -> [JobId -> WorkState]]
      BY <1>b, <2>9 DEF StartJob, CheckOutcome, FailJob, WorkState, Working, Reported
    <3>2. session' = session \/ session' = [session EXCEPT ![d][j] = "running"]
      <4>1. CASE StartJob(d, j) BY <4>1, Zenon DEF StartJob
      <4>2. CASE CheckOutcome(d, j) \/ FailJob(d, j) BY <4>2 DEF CheckOutcome, FailJob
      <4> QED BY <2>9, <4>1, <4>2
    <3>3. "running" \in SessionState BY DEF SessionState
    <3>4. session' \in [Dispatcher -> [JobId -> SessionState]]
      <4>1. [session EXCEPT ![d][j] = "running"] \in [Dispatcher -> [JobId -> SessionState]]
        BY <3>3, OneEntryType
      <4> QED BY <3>2, <4>1, Zenon
    <3> QED BY <2>9, <3>1, <3>4 DEF StartJob, CheckOutcome, FailJob, SameInvocation
  <2> QED BY <1>1, <2>1, <2>2, <2>3, <2>4, <2>5, <2>6, <2>7, <2>8, <2>9 DEF DispatcherStep
<1>2. ASSUME NEW d \in Dispatcher, Abort(d) PROVE DispatchTypeOK'
  BY <1>2 DEF Abort, Phase
<1>3. ASSUME NEW d \in Dispatcher, NEW j \in JobId, SessionReviews(d, j) PROVE DispatchTypeOK'
  BY <1>3 DEF SessionReviews, dispatchVars
<1>4. ASSUME NEW d \in Dispatcher, NEW j \in JobId, SessionSettles(d, j) PROVE DispatchTypeOK'
  <2>1. PICK s \in {"waiting", "completed", "failed"} :
          /\ session' = [session EXCEPT ![d][j] = s]
          /\ work' = [work EXCEPT ![d][j] = SettledWork(d, j, s)]
    BY <1>4, Zenon DEF SessionSettles, SettledWork
  <2>2. s \in SessionState BY DEF SessionState
  <2>3. SettledWork(d, j, s) \in WorkState
    <3>1. {"settled waiting", "settled completed", "failing"} \subseteq WorkState
      BY DEF WorkState, Working, Settled
    <3>2. work[d][j] \in WorkState OBVIOUS
    <3> QED BY <3>1, <3>2 DEF SettledWork
  <2> QED BY <1>4, <2>1, <2>2, <2>3, OneEntryType DEF SessionSettles, SameInvocation
<1>5. ASSUME NEW d \in Dispatcher, NEW j \in JobId, SessionResumes(d, j) PROVE DispatchTypeOK'
  BY <1>5 DEF SessionResumes, SameInvocation, SessionState
<1>6. ASSUME NEW d \in Dispatcher, NEW j \in JobId, StreamEnds(d, j) PROVE DispatchTypeOK'
  BY <1>b, <1>6 DEF StreamEnds, SameInvocation, WorkState, Working
<1>7. CASE UNCHANGED dispatchVars
  BY <1>7 DEF dispatchVars
<1> QED BY <1>1, <1>2, <1>3, <1>4, <1>5, <1>6, <1>7 DEF DispatchNext, SessionStep, vars

(* A claim ID stays with the worker that used it first, nothing that was   *)
(* listed is forgotten, and the clock does not go back.                    *)
LEMMA StepKeepsRecords ==
  ASSUME TypeOK, [Next]_queueVars
  PROVE  /\ \A c \in ClaimId : claims[c] # NoClaim => claims'[c] = claims[c]
         /\ listed \subseteq listed'
         /\ now' \in Nat /\ now' >= now
<1>1. CASE DispatcherCall
  <2>1. ASSUME NEW c \in ClaimId, NEW w \in WorkerId, NEW t, NEW locked, ClaimDue(c, w, t, locked)
        PROVE  \A d \in ClaimId : claims[d] # NoClaim => claims'[d] = claims[d]
    BY <2>1 DEF ClaimDue, TypeOK
  <2>2. \A c \in ClaimId : claims[c] # NoClaim => claims'[c] = claims[c]
    BY <1>1, <2>1 DEF DispatcherCall, ListCandidates, Enqueue, Create, RecoverExpiredLeases,
                      Fail, CompleteLease
  <2>3. listed \subseteq listed' /\ now' = now
    BY <1>1 DEF DispatcherCall, ListCandidates, Enqueue, Create, RecoverExpiredLeases,
                ClaimDue, Fail, CompleteLease
  <2> QED BY <2>2, <2>3 DEF TypeOK
<1>2. CASE SessionCall
  <2>1. claims' = claims /\ listed' = listed /\ now' = now
    BY <1>2 DEF SessionCall, RecordEvidence, CreateProposal, CompleteReview
  <2> QED BY <2>1 DEF TypeOK
<1>3. CASE Environment
  BY <1>3 DEF Environment, RegistryChanges, Tick, TypeOK
<1>4. CASE UNCHANGED queueVars
  BY <1>4 DEF queueVars, TypeOK
<1> QED BY <1>1, <1>2, <1>3, <1>4 DEF Next

LEMMA StepKeepsReads ==
  ASSUME TypeOK, DispatchInv, [DispatchNext]_vars, [Next]_queueVars
  PROVE  ReadEarlier'
<1>a. now \in Nat \ {0} /\ now' \in Nat /\ now' >= now /\ listed \subseteq listed'
  BY StepKeepsRecords DEF TypeOK
<1>. SUFFICES ASSUME NEW e \in Dispatcher
              PROVE  /\ phase'[e] # "idle" => time'[e] \in 1..now'
                     /\ todo'[e] \subseteq listed'
  BY DEF ReadEarlier
<1>b. /\ phase[e] # "idle" => time[e] \in 1..now'
      /\ todo[e] \subseteq listed'
  BY <1>a DEF DispatchInv, ReadEarlier
<1>. USE DEF DispatchInv, DispatchTypeOK
<1>1. ASSUME NEW d \in Dispatcher, Begin(d) \/ List(d)
      PROVE  /\ phase'[e] # "idle" => time'[e] \in 1..now'
             /\ todo'[e] \subseteq listed'
  <2>1. CASE Begin(d) BY <1>a, <1>b, <2>1 DEF Begin, Moves
  <2>2. CASE List(d) BY <1>b, <2>2 DEF List, ListCandidates, Moves
  <2> QED BY <1>1, <2>1, <2>2
<1>2. ASSUME time' = time, todo'[e] \subseteq todo[e], phase[e] = "idle" => phase'[e] = "idle"
      PROVE  /\ phase'[e] # "idle" => time'[e] \in 1..now'
             /\ todo'[e] \subseteq listed'
  BY <1>b, <1>2
<1>3. ASSUME NEW d \in Dispatcher, DispatcherStep(d), ~Begin(d), ~List(d)
      PROVE  /\ time' = time /\ todo'[e] \subseteq todo[e]
             /\ phase[e] = "idle" => phase'[e] = "idle"
  BY <1>3 DEF DispatcherStep, EnqueueCandidate, Recover, ClaimAnswered, ClaimUnanswered,
              LoadDispatchRoutes, Finish, StartJob, CheckOutcome, FailJob, SameInvocation, Moves
<1>4. ASSUME NEW d \in Dispatcher, Abort(d)
      PROVE  /\ time' = time /\ todo'[e] \subseteq todo[e]
             /\ phase[e] = "idle" => phase'[e] = "idle"
  BY <1>4 DEF Abort
<1>5. ASSUME NEW d \in Dispatcher, NEW j \in JobId, SessionStep(d, j) \/ StreamEnds(d, j)
      PROVE  time' = time /\ todo' = todo /\ phase' = phase
  BY <1>5 DEF SessionStep, SessionReviews, SessionSettles, SessionResumes, StreamEnds,
              SameInvocation, dispatchVars
<1>6. CASE UNCHANGED dispatchVars
  BY <1>2, <1>6 DEF dispatchVars
<1> QED BY <1>1, <1>2, <1>3, <1>4, <1>5, <1>6 DEF DispatchNext, vars

-----------------------------------------------------------------------------
(* What one step may do to an invocation: nothing but move its phase on,   *)
(* answer its claim, or move one job of its batch on.                      *)

SameWork(e) ==
  /\ lease'[e] = lease[e]
  /\ \A j \in JobId : work'[e][j] = work[e][j]
  /\ phase'[e] \in BeforeAnswer => phase[e] \in BeforeAnswer
  /\ phase'[e] \in Answered => phase[e] \in Answered

WorkMoves(e, j) ==
  /\ phase[e] = "dispatching" /\ phase'[e] = phase[e]
  /\ lease'[e] = lease[e]
  /\ work[e][j] \notin Reported \cup {"none"}
  /\ \A k \in JobId \ {j} : work'[e][k] = work[e][k]
  /\ work'[e][j] = "completed" => HasRecordedOutcome(j, lease[e][j]) /\ UNCHANGED queueVars

LEMMA WorkStep ==
  ASSUME DispatchTypeOK, NEW d \in Dispatcher, NEW j \in JobId,
         StartJob(d, j) \/ CheckOutcome(d, j) \/ FailJob(d, j) \/ StreamEnds(d, j),
         NEW e \in Dispatcher
  PROVE  SameWork(e) \/ \E k \in JobId : WorkMoves(e, k)
<1>1. lease' = lease /\ phase' = phase /\ phase[d] = "dispatching"
  BY DEF StartJob, CheckOutcome, FailJob, StreamEnds, SameInvocation, Step
<1>2. PICK from, to :
        /\ Step(d, j, from, to)
        /\ from \in {"queued"} \cup Working
        /\ to = "completed" => HasRecordedOutcome(j, lease[d][j]) /\ UNCHANGED queueVars
  <2>1. CASE StartJob(d, j)
    <3>1. PICK to \in {"running", "failing"} : Step(d, j, "queued", to) /\ to # "completed"
      BY <2>1 DEF StartJob
    <3> QED BY <3>1
  <2>2. CASE CheckOutcome(d, j)
    <3>1. PICK from \in Settled, to \in {"completed", "waiting", "failing"} :
            /\ Step(d, j, from, to)
            /\ to = "completed" => HasRecordedOutcome(j, lease[d][j])
      BY <2>2 DEF CheckOutcome, Settled
    <3>2. UNCHANGED queueVars BY <2>2 DEF CheckOutcome
    <3> QED BY <3>1, <3>2 DEF Working
  <2>3. CASE FailJob(d, j)
    <3>1. Step(d, j, "failing", "failed") BY <2>3 DEF FailJob
    <3>2. "failing" \in Working BY DEF Working
    <3> QED BY <3>1, <3>2
  <2>4. CASE StreamEnds(d, j)
    <3>1. Step(d, j, "running", "failing") BY <2>4 DEF StreamEnds
    <3>2. "running" \in Working BY DEF Working
    <3> QED BY <3>1, <3>2
  <2> QED BY <2>1, <2>2, <2>3, <2>4
<1>3. work[d][j] = from /\ work' = [work EXCEPT ![d][j] = to]
  BY <1>2, Zenon DEF Step
<1>4. \A f \in Dispatcher, k \in JobId :
        work'[f][k] = IF f = d /\ k = j THEN to ELSE work[f][k]
  <2>1. work \in [Dispatcher -> [JobId -> WorkState]] BY DEF DispatchTypeOK
  <2>2. \A f \in Dispatcher, k \in JobId :
          [work EXCEPT ![d][j] = to][f][k] = IF f = d /\ k = j THEN to ELSE work[f][k]
    BY <2>1, OneEntry
  <2> QED BY <1>3, <2>2, Zenon
<1>5. from \notin Reported \cup {"none"} BY <1>2 DEF Working, Settled, Reported
<1>6. CASE e = d
  <2>1. WorkMoves(e, j) BY <1>1, <1>2, <1>3, <1>4, <1>5, <1>6 DEF WorkMoves
  <2> QED BY <2>1
<1>7. CASE e # d BY <1>1, <1>4, <1>7 DEF SameWork
<1> QED BY <1>6, <1>7

LEMMA SettleStep ==
  ASSUME DispatchTypeOK, NEW d \in Dispatcher, NEW j \in JobId, SessionSettles(d, j),
         NEW e \in Dispatcher
  PROVE  SameWork(e) \/ \E k \in JobId : WorkMoves(e, k)
<1>1. lease' = lease /\ phase' = phase BY DEF SessionSettles, SameInvocation
<1>2. PICK s \in {"waiting", "completed", "failed"} :
        work' = [work EXCEPT ![d][j] = SettledWork(d, j, s)]
  BY Zenon DEF SessionSettles, SettledWork
<1>3. \A f \in Dispatcher, k \in JobId :
        work'[f][k] = IF f = d /\ k = j THEN SettledWork(d, j, s) ELSE work[f][k]
  <2>1. work \in [Dispatcher -> [JobId -> WorkState]] BY DEF DispatchTypeOK
  <2>2. \A f \in Dispatcher, k \in JobId :
          [work EXCEPT ![d][j] = SettledWork(d, j, s)][f][k] =
            IF f = d /\ k = j THEN SettledWork(d, j, s) ELSE work[f][k]
    BY <2>1, OneEntry
  <2> QED BY <1>2, <2>2, Zenon
<1>4. CASE e = d /\ phase[d] = "dispatching" /\ work[d][j] = "running"
  <2>1. SettledWork(d, j, s) # "completed" BY <1>4 DEF SettledWork
  <2>2. WorkMoves(e, j) BY <1>1, <1>3, <1>4, <2>1 DEF WorkMoves, Reported
  <2> QED BY <2>2
<1>5. CASE ~(e = d /\ phase[d] = "dispatching" /\ work[d][j] = "running")
  BY <1>1, <1>3, <1>5 DEF SameWork, SettledWork
<1> QED BY <1>4, <1>5

LEMMA InvocationStep ==
  ASSUME DispatchTypeOK, [DispatchNext]_vars, NEW e \in Dispatcher
  PROVE  SameWork(e) \/ ClaimAnswered(e) \/ \E j \in JobId : WorkMoves(e, j)
<1>1. ASSUME NEW d \in Dispatcher, DispatcherStep(d)
      PROVE  SameWork(e) \/ ClaimAnswered(e) \/ \E j \in JobId : WorkMoves(e, j)
  <2>1. CASE \E j \in JobId : StartJob(d, j) \/ CheckOutcome(d, j) \/ FailJob(d, j)
    BY <2>1, WorkStep
  <2>2. CASE ClaimAnswered(d) /\ d # e
    BY <2>2 DEF ClaimAnswered, Moves, SameWork, DispatchTypeOK
  <2>3. CASE Begin(d) \/ List(d) \/ EnqueueCandidate(d) \/ Recover(d) \/ ClaimUnanswered(d)
             \/ LoadDispatchRoutes(d) \/ Finish(d)
    BY <2>3 DEF Begin, List, EnqueueCandidate, Recover, ClaimUnanswered, LoadDispatchRoutes,
                Finish, Moves, SameWork, DispatchTypeOK, BeforeAnswer, Answered
  <2> QED BY <1>1, <2>1, <2>2, <2>3 DEF DispatcherStep
<1>2. ASSUME NEW d \in Dispatcher, Abort(d) PROVE SameWork(e)
  BY <1>2 DEF Abort, SameWork, DispatchTypeOK, BeforeAnswer, Answered
<1>3. ASSUME NEW d \in Dispatcher, NEW j \in JobId, SessionReviews(d, j) \/ SessionResumes(d, j)
      PROVE  SameWork(e)
  BY <1>3 DEF SessionReviews, SessionResumes, SameInvocation, dispatchVars, SameWork
<1>4. CASE UNCHANGED dispatchVars
  BY <1>4 DEF dispatchVars, SameWork
<1> QED BY <1>1, <1>2, <1>3, <1>4, WorkStep, SettleStep DEF DispatchNext, SessionStep, vars

LEMMA StepKeepsClaims ==
  ASSUME TypeOK, DispatchInv, [DispatchNext]_vars, [Next]_queueVars
  PROVE  ClaimsRecorded'
<1>. SUFFICES ASSUME NEW e \in Dispatcher
              PROVE  /\ phase'[e] \in Answered => claims'[e] # NoClaim
                     /\ phase'[e] \in BeforeAnswer => \A j \in JobId : work'[e][j] = "none"
  BY DEF ClaimsRecorded
<1>a. e \in ClaimId /\ (claims[e] # NoClaim => claims'[e] # NoClaim)
  BY StepKeepsRecords DEF Dispatcher
<1>1. CASE SameWork(e)
  BY <1>1, <1>a DEF SameWork, DispatchInv, ClaimsRecorded
<1>2. CASE ClaimAnswered(e)
  <2>1. claims'[e] # NoClaim
    BY <1>2, <1>a, NullAssumption DEF ClaimAnswered, ClaimTransaction, ClaimDue, TypeOK, NullAssumption
  <2>2. phase'[e] = "routing"
    BY <1>2 DEF ClaimAnswered, Moves, DispatchInv, DispatchTypeOK
  <2> QED BY <2>1, <2>2 DEF BeforeAnswer
<1>3. CASE \E j \in JobId : WorkMoves(e, j)
  BY <1>3, <1>a DEF WorkMoves, DispatchInv, ClaimsRecorded, Answered, BeforeAnswer
<1> QED BY <1>1, <1>2, <1>3, InvocationStep DEF DispatchInv

-----------------------------------------------------------------------------
(* The queue under its dispatchers.                                        *)

SystemInv == QueueInv /\ LedgerInv /\ DispatchInv

LEMMA StepKeepsSystem ==
  ASSUME SystemInv, [DispatchNext]_vars
  PROVE  [Next]_queueVars /\ SystemInv'
<1>a. TypeOK /\ RowsAccepted /\ AbsentRowsEmpty /\ LedgerInv /\ DispatchInv
  BY DEF SystemInv, QueueInv
<1>1. [Next]_queueVars BY <1>a, StepUsesQueue
<1>2. QueueInv' /\ TypeOK'
  BY <1>1, <1>a, NextTypeOK, NextRowsAccepted, NextAbsentRowsEmpty DEF QueueInv
<1>3. LedgerInv' BY <1>1, NextLedger DEF SystemInv
<1>4. DispatchTypeOK' BY <1>a, <1>2, StepKeepsType DEF DispatchInv
<1>5. ReadEarlier' BY <1>a, <1>1, StepKeepsReads
<1>6. ClaimsRecorded' BY <1>a, <1>1, StepKeepsClaims
<1> QED BY <1>1, <1>2, <1>3, <1>4, <1>5, <1>6 DEF SystemInv, DispatchInv

LEMMA InitSystem == DispatchInit => SystemInv
BY InitTypeOK, InitRowsAccepted, InitAbsentRowsEmpty, InitLedger, InitDispatchInv
DEF DispatchInit, SystemInv, QueueInv

LEMMA SystemInvHolds == DispatchSpec => []SystemInv
<1>1. SystemInv /\ [DispatchNext]_vars => SystemInv' BY StepKeepsSystem
<1> QED BY <1>1, InitSystem, PTL DEF DispatchSpec

(* The dispatcher's own state keeps its types.                             *)
THEOREM DispatchTypeCorrect == DispatchSpec => []DispatchTypeOK
<1>1. SystemInv => DispatchTypeOK BY DEF SystemInv, DispatchInv
<1> QED BY <1>1, SystemInvHolds, PTL

(* Overlapping, dying and repeating invocations and late sessions stay     *)
(* within what the queue allows, so every theorem about the queue holds of *)
(* the running system.                                                     *)
THEOREM DispatchImplementsQueue == DispatchSpec => DispatchUsesQueue
<1>1. SystemInv /\ [DispatchNext]_vars => [Next]_queueVars BY StepKeepsSystem
<1>2. DispatchInit => Init BY DEF DispatchInit
<1> QED BY <1>1, <1>2, SystemInvHolds, PTL DEF DispatchSpec, DispatchUsesQueue, Spec

(* So the running system, and not just its queue, delivers reviews as the  *)
(* contract says.                                                          *)
THEOREM SystemFulfilsContract == DispatchSpec => QueueFulfilsContract
BY DispatchImplementsQueue, QueueImplementsContract, PTL DEF DispatchUsesQueue

-----------------------------------------------------------------------------
(* Who holds a lease.                                                      *)

(* A token an invocation was given was given by the queue, and while the   *)
(* job has no newer lease, it was given to this invocation's claim.        *)
LeaseIsOwn(d, j) ==
  lease[d][j] # NoToken =>
    /\ lease[d][j] \in 1..jobs[j].attemptCount
    /\ lease[d][j] = jobs[j].attemptCount => jobs[j].claim = d

LeasesAreOwn == \A d \in Dispatcher, j \in JobId : LeaseIsOwn(d, j)

LEMMA LeasesGrow ==
  ASSUME QueueInv, NEW j \in JobId, RowStep(j)
  PROVE  /\ jobs[j].attemptCount \in Nat /\ jobs'[j].attemptCount \in Nat
         /\ jobs'[j].attemptCount >= jobs[j].attemptCount
         /\ jobs'[j].attemptCount = jobs[j].attemptCount /\ jobs[j].attemptCount # 0 =>
              jobs'[j].claim = jobs[j].claim
<1>1. jobs[j] \in Job /\ jobs[j].attemptCount \in Nat BY DEF QueueInv, TypeOK, Job
<1>2. CASE jobs'[j] = jobs[j] BY <1>1, <1>2
<1>3. CASE RowCreated(j)
  BY <1>1, <1>3 DEF RowCreated, NewJob, NoJob, QueueInv, AbsentRowsEmpty
<1>4. ASSUME NEW c, NEW t, jobs'[j] = Leased(jobs[j], c, t)
      PROVE  jobs'[j].attemptCount = jobs[j].attemptCount + 1
  BY <1>1, <1>4 DEF Leased, Job
<1>5. ASSUME NEW kind, LeaseEnds(j, kind)
      PROVE  jobs'[j].attemptCount = jobs[j].attemptCount /\ jobs'[j].claim = jobs[j].claim
  BY <1>5 DEF LeaseEnds
<1> QED BY <1>1, <1>2, <1>3, <1>4, <1>5 DEF RowStep, RowStays, LeaseGiven, EndRepeated

(* The answer of a claim holds the current leases of the claim's jobs.     *)
LEMMA AnswerIsCurrent ==
  ASSUME QueueInv', LedgerInv', DispatchTypeOK, NEW d \in Dispatcher, ClaimAnswered(d),
         NEW j \in JobId, lease'[d][j] # NoToken
  PROVE  /\ lease'[d][j] = jobs'[j].attemptCount /\ jobs'[j].attemptCount \in Nat \ {0}
         /\ jobs'[j].claim = d
<1>1. lease'[d][j] = IF j \in ClaimReplay(d)' THEN jobs'[j].leaseToken ELSE NoToken
  BY DEF ClaimAnswered, ClaimedJobs, DispatchTypeOK
<1>2. jobs'[j].status = "LEASED" /\ jobs'[j].claim = d /\ lease'[d][j] = jobs'[j].leaseToken
  BY <1>1 DEF ClaimReplay
<1>3. jobs'[j].attemptCount \in Nat BY DEF QueueInv, TypeOK, Job
<1>4. jobs'[j].leaseToken = jobs'[j].attemptCount
  BY <1>2 DEF LedgerInv, LedgerOf, Numbered
<1> QED BY <1>2, <1>3, <1>4 DEF NoToken

LEMMA StepKeepsOwn ==
  ASSUME SystemInv, LeasesAreOwn, [DispatchNext]_vars
  PROVE  LeasesAreOwn'
<1>. SUFFICES ASSUME NEW d \in Dispatcher, NEW j \in JobId, lease'[d][j] # NoToken
              PROVE  /\ lease'[d][j] \in 1..jobs'[j].attemptCount
                     /\ lease'[d][j] = jobs'[j].attemptCount => jobs'[j].claim = d
  BY DEF LeasesAreOwn, LeaseIsOwn
<1>1. SystemInv' /\ [Next]_queueVars BY StepKeepsSystem
<1>2. RowStep(j) BY <1>1, EveryStep DEF SystemInv, QueueInv
<1>3. CASE ClaimAnswered(d)
  BY <1>1, <1>3, AnswerIsCurrent DEF SystemInv, DispatchInv
<1>4. CASE lease'[d] = lease[d]
  <2>1. LeaseIsOwn(d, j) BY DEF LeasesAreOwn
  <2> QED BY <1>2, <1>4, <2>1, LeasesGrow DEF LeaseIsOwn, SystemInv
<1> QED BY <1>3, <1>4, InvocationStep DEF SystemInv, DispatchInv, SameWork, WorkMoves

LEMMA StepKeepsOneHolder ==
  ASSUME SystemInv, LeasesAreOwn, LeasesHaveOneHolder, [DispatchNext]_vars
  PROVE  LeasesHaveOneHolder'
<1>. SUFFICES ASSUME NEW d \in Dispatcher, NEW e \in Dispatcher, d # e, NEW j \in JobId,
                     lease'[d][j] # NoToken, lease'[e][j] # NoToken
              PROVE  lease'[d][j] # lease'[e][j]
  BY DEF LeasesHaveOneHolder, Batch
<1>1. SystemInv' BY StepKeepsSystem
<1>2. LeaseIsOwn(d, j)' /\ LeaseIsOwn(e, j)' BY StepKeepsOwn DEF LeasesAreOwn
<1>3. ASSUME NEW f \in Dispatcher, lease'[f][j] # NoToken, ClaimAnswered(f)
      PROVE  lease'[f][j] = jobs'[j].attemptCount /\ jobs'[j].claim = f
  BY <1>1, <1>3, AnswerIsCurrent DEF SystemInv, DispatchInv
<1>4. CASE ClaimAnswered(d) BY <1>2, <1>3, <1>4 DEF LeaseIsOwn
<1>5. CASE ClaimAnswered(e) BY <1>2, <1>3, <1>5 DEF LeaseIsOwn
<1>6. CASE lease'[d] = lease[d] /\ lease'[e] = lease[e]
  BY <1>6 DEF LeasesHaveOneHolder, Batch
<1> QED BY <1>4, <1>5, <1>6, InvocationStep DEF SystemInv, DispatchInv, SameWork, WorkMoves

LEMMA InitOneHolder == DispatchInit => LeasesAreOwn /\ LeasesHaveOneHolder
BY DEF DispatchInit, LeasesAreOwn, LeaseIsOwn, LeasesHaveOneHolder, Batch

(* A lease is in the hands of one invocation, however claims are repeated  *)
(* and leases recovered.                                                   *)
THEOREM LeasesKeepOneHolder == DispatchSpec => []LeasesHaveOneHolder
<1>1. SystemInv /\ LeasesAreOwn /\ LeasesHaveOneHolder /\ [DispatchNext]_vars =>
        LeasesAreOwn' /\ LeasesHaveOneHolder'
  BY StepKeepsOwn, StepKeepsOneHolder
<1> QED BY <1>1, InitOneHolder, SystemInvHolds, PTL DEF DispatchSpec

-----------------------------------------------------------------------------
(* What the queue takes back from an invocation it answered, and what the  *)
(* invocation says of its jobs.                                            *)

(* A job that is leased under a used claim was leased under it before.     *)
LEMMA LeasedBefore ==
  ASSUME QueueInv, [Next]_queueVars, NEW j \in JobId, NEW c \in ClaimId, claims[c] # NoClaim,
         jobs'[j].claim = c, jobs'[j].status = "LEASED"
  PROVE  /\ jobs[j].claim = c /\ jobs[j].status = "LEASED"
         /\ jobs'[j].leaseToken = jobs[j].leaseToken
<1>1. RowStep(j) BY EveryStep DEF QueueInv
<1>2. jobs[j].claim = c /\ jobs'[j].leaseToken = jobs[j].leaseToken BY <1>1, ClaimKeeps
<1>3. CASE jobs'[j] = jobs[j] BY <1>2, <1>3
<1>4. CASE RowCreated(j) BY <1>4 DEF RowCreated, NewJob, NoJob
<1>5. ASSUME NEW d \in ClaimId, LeaseGiven(j, d) PROVE FALSE
  <2>1. jobs'[j].claim = d BY <1>5 DEF LeaseGiven, Leased, QueueInv, TypeOK, Job
  <2> QED BY <1>5, <2>1 DEF LeaseGiven
<1>6. ASSUME NEW kind, LeaseEnds(j, kind) PROVE FALSE BY <1>6 DEF LeaseEnds
<1> QED BY <1>1, <1>2, <1>3, <1>4, <1>5, <1>6 DEF RowStep, RowStays, EndRepeated

LEMMA StepKeepsClaimed ==
  ASSUME SystemInv, NoLeaseUnclaimed, [DispatchNext]_vars
  PROVE  NoLeaseUnclaimed'
<1>. SUFFICES ASSUME NEW d \in Dispatcher, phase'[d] \in Answered,
                     NEW j \in JobId, jobs'[j].claim = d, jobs'[j].status = "LEASED"
              PROVE  lease'[d][j] = jobs'[j].leaseToken
  BY DEF NoLeaseUnclaimed, ClaimReplay, Answered
<1>1. [Next]_queueVars BY StepKeepsSystem
<1>2. CASE ClaimAnswered(d)
  <2>1. lease'[d][j] = IF j \in ClaimReplay(d)' THEN jobs'[j].leaseToken ELSE NoToken
    BY <1>2 DEF ClaimAnswered, ClaimedJobs, SystemInv, DispatchInv, DispatchTypeOK
  <2> QED BY <2>1 DEF ClaimReplay
<1>3. CASE lease'[d] = lease[d] /\ phase[d] \in Answered
  <2>1. d \in ClaimId /\ claims[d] # NoClaim
    BY <1>3 DEF SystemInv, DispatchInv, ClaimsRecorded, Dispatcher
  <2>2. /\ jobs[j].claim = d /\ jobs[j].status = "LEASED"
        /\ jobs'[j].leaseToken = jobs[j].leaseToken
    BY <1>1, <2>1, LeasedBefore DEF SystemInv
  <2> QED BY <1>3, <2>2 DEF NoLeaseUnclaimed, ClaimReplay, Answered
<1> QED BY <1>2, <1>3, InvocationStep DEF SystemInv, DispatchInv, SameWork, WorkMoves

(* An invocation whose claim was answered, at once or on a repeated call,  *)
(* knows every lease that is out under its claim.                          *)
THEOREM LeasesAreClaimed == DispatchSpec => []NoLeaseUnclaimed
<1>1. DispatchInit => NoLeaseUnclaimed
  BY DEF DispatchInit, NoLeaseUnclaimed
<1>2. SystemInv /\ NoLeaseUnclaimed /\ [DispatchNext]_vars => NoLeaseUnclaimed'
  BY StepKeepsClaimed
<1> QED BY <1>1, <1>2, SystemInvHolds, PTL DEF DispatchSpec

(* What was reported of a job is reported for good.                        *)
LEMMA ReportsStay ==
  ASSUME SystemInv, [DispatchNext]_vars, NEW d \in Dispatcher, NEW j \in JobId,
         work[d][j] \in Reported
  PROVE  work'[d][j] = work[d][j] /\ lease'[d] = lease[d]
<1>1. work[d][j] # "none" BY DEF Reported
<1>2. ~ClaimAnswered(d)
  BY <1>1 DEF ClaimAnswered, Moves, SystemInv, DispatchInv, ClaimsRecorded, BeforeAnswer
<1>3. ASSUME NEW k \in JobId, WorkMoves(d, k)
      PROVE  work'[d][j] = work[d][j] /\ lease'[d] = lease[d]
  BY <1>3 DEF WorkMoves
<1> QED BY <1>2, <1>3, InvocationStep DEF SystemInv, DispatchInv, SameWork

LEMMA StepKeepsReported ==
  ASSUME SystemInv, ReportedCompletionIsFinal, [DispatchNext]_vars
  PROVE  ReportedCompletionIsFinal'
<1>. SUFFICES ASSUME NEW d \in Dispatcher, NEW j \in JobId, work'[d][j] = "completed"
              PROVE  HasRecordedOutcome(j, lease[d][j])' /\ lease'[d][j] = lease[d][j]
  BY DEF ReportedCompletionIsFinal
<1>1. [Next]_queueVars /\ QueueInv BY StepKeepsSystem DEF SystemInv
<1>2. CASE work[d][j] = "completed"
  <2>1. HasRecordedOutcome(j, lease[d][j]) BY <1>2 DEF ReportedCompletionIsFinal
  <2>2. jobs'[j] = jobs[j]
    <3>1. jobs[j].outcome # NoOutcome BY <2>1 DEF HasRecordedOutcome
    <3> QED BY <1>1, <3>1, FinishedStay
  <2>3. lease'[d] = lease[d] BY <1>2, ReportsStay DEF Reported
  <2> QED BY <2>1, <2>2, <2>3 DEF HasRecordedOutcome
<1>3. CASE work[d][j] # "completed"
  <2>1. ~ClaimAnswered(d)
    <3>1. work \in [Dispatcher -> [JobId -> WorkState]]
      BY DEF SystemInv, DispatchInv, DispatchTypeOK
    <3>2. ASSUME ClaimAnswered(d)
          PROVE  work'[d][j] = IF j \in ClaimedJobs(d) THEN "queued" ELSE "none"
      BY <3>1, <3>2 DEF ClaimAnswered
    <3> QED BY <3>2
  <2>2. WorkMoves(d, j)
    BY <1>3, <2>1, InvocationStep DEF SystemInv, DispatchInv, SameWork, WorkMoves
  <2> QED BY <2>2 DEF WorkMoves, HasRecordedOutcome, queueVars
<1> QED BY <1>2, <1>3

(* A dispatcher never reports a completion that is taken back.             *)
THEOREM ReportedCompletionsStay == DispatchSpec => []ReportedCompletionIsFinal
<1>1. DispatchInit => ReportedCompletionIsFinal
  BY DEF DispatchInit, ReportedCompletionIsFinal
<1>2. SystemInv /\ ReportedCompletionIsFinal /\ [DispatchNext]_vars =>
        ReportedCompletionIsFinal'
  BY StepKeepsReported
<1> QED BY <1>1, <1>2, SystemInvHolds, PTL DEF DispatchSpec

-----------------------------------------------------------------------------
(* Who fails a lease.                                                      *)

FailedByHolder(j, n) == \E d \in Dispatcher : lease[d][j] = n /\ work[d][j] = "failed"

FailuresAreOwn ==
  \A j \in JobId, n \in Nat : Event("failed", j, n) \in audit => FailedByHolder(j, n)

NoFailureWritten ==
  \A j \in JobId, n \in Nat : Event("failed", j, n) \in audit' => Event("failed", j, n) \in audit

LEMMA OtherEvent ==
  ASSUME NEW kind, kind # "failed", NEW j, NEW n, audit' = audit \cup {Event(kind, j, n)}
  PROVE  NoFailureWritten
BY EventsDiffer DEF NoFailureWritten

LEMMA OnlyFailWritesFailures ==
  ASSUME [DispatchNext]_vars
  PROVE  \/ NoFailureWritten
         \/ \E d \in Dispatcher, j \in JobId :
              FailJob(d, j) /\ audit' = audit \cup {Event("failed", j, lease[d][j])}
<1>b. audit' = audit => NoFailureWritten BY DEF NoFailureWritten
<1>1. ASSUME NEW range, NEW t, Enqueue(range, t) PROVE NoFailureWritten
  <2>1. PICK j : audit' = audit \cup {Event("enqueued", j, NoToken)}
    BY <1>1 DEF Enqueue, Create
  <2> QED BY <2>1, OtherEvent
<1>2. ASSUME NEW t, NEW locked, RecoverExpiredLeases(t, locked) PROVE NoFailureWritten
  <2>1. PICK batch : audit' = audit \cup {Event("recovered", j, jobs[j].leaseToken) : j \in batch}
    BY <1>2 DEF RecoverExpiredLeases
  <2> QED BY <2>1, EventsDiffer DEF NoFailureWritten
<1>3. ASSUME NEW d, ClaimTransaction(d) PROVE NoFailureWritten
  <2>1. CASE UNCHANGED queueVars BY <1>b, <2>1 DEF queueVars
  <2>2. ASSUME NEW locked, ClaimDue(d, d, time[d], locked) PROVE NoFailureWritten
    <3>1. PICK batch :
            audit' = audit \cup {Event("claimed", j, jobs[j].attemptCount + 1) : j \in batch}
      BY <2>2 DEF ClaimDue
    <3> QED BY <3>1, EventsDiffer DEF NoFailureWritten
  <2> QED BY <1>3, <2>1, <2>2 DEF ClaimTransaction
<1>4. ASSUME NEW j, NEW t, NEW outcome, CompleteReview(j, t, outcome) PROVE NoFailureWritten
  <2>1. audit' = audit \cup {Event("outcome", j, NoToken)} BY <1>4 DEF CompleteReview
  <2> QED BY <2>1, OtherEvent
<1>5. ASSUME NEW d \in Dispatcher, NEW j \in JobId, FailJob(d, j)
      PROVE  NoFailureWritten \/ audit' = audit \cup {Event("failed", j, lease[d][j])}
  BY <1>5, <1>b DEF FailJob, Fail, queueVars
<1>6. ASSUME NEW d \in Dispatcher, DispatcherStep(d)
      PROVE  NoFailureWritten \/ \E j \in JobId : FailJob(d, j)
  <2>1. CASE List(d) BY <1>b, <2>1 DEF List, ListCandidates
  <2>2. CASE EnqueueCandidate(d) BY <1>b, <1>1, <2>2 DEF EnqueueCandidate, queueVars
  <2>3. CASE Recover(d) BY <1>2, <2>3 DEF Recover
  <2>4. CASE ClaimAnswered(d) \/ ClaimUnanswered(d)
    BY <1>b, <1>3, <2>4 DEF ClaimAnswered, ClaimUnanswered, queueVars
  <2> QED BY <1>6, <1>b, <2>1, <2>2, <2>3, <2>4
          DEF DispatcherStep, Begin, LoadDispatchRoutes, Finish, StartJob, CheckOutcome, queueVars
<1>7. ASSUME NEW d \in Dispatcher, NEW j \in JobId, SessionStep(d, j) \/ StreamEnds(d, j) \/ Abort(d)
      PROVE  NoFailureWritten
  BY <1>7, <1>b, <1>4
  DEF SessionStep, SessionReviews, RecordEvidence, CreateProposal, SessionSettles,
      SessionResumes, StreamEnds, Abort, queueVars
<1>8. CASE Environment \/ UNCHANGED vars
  BY <1>8, <1>b DEF Environment, RegistryChanges, Tick, vars, queueVars
<1>9. ASSUME NEW d \in Dispatcher, Abort(d) PROVE NoFailureWritten
  BY <1>9, <1>b DEF Abort, queueVars
<1> QED BY <1>5, <1>6, <1>7, <1>8, <1>9 DEF DispatchNext

LEMMA StepKeepsFailures ==
  ASSUME SystemInv, FailuresAreOwn, [DispatchNext]_vars
  PROVE  FailuresAreOwn'
<1>. SUFFICES ASSUME NEW j \in JobId, NEW n \in Nat, Event("failed", j, n) \in audit'
              PROVE  \E d \in Dispatcher : lease'[d][j] = n /\ work'[d][j] = "failed"
  BY DEF FailuresAreOwn, FailedByHolder
<1>1. CASE Event("failed", j, n) \in audit
  <2>1. PICK d \in Dispatcher : lease[d][j] = n /\ work[d][j] = "failed"
    BY <1>1 DEF FailuresAreOwn, FailedByHolder
  <2> QED BY <2>1, ReportsStay DEF Reported
<1>2. CASE Event("failed", j, n) \notin audit
  <2>1. PICK d \in Dispatcher, k \in JobId :
          FailJob(d, k) /\ audit' = audit \cup {Event("failed", k, lease[d][k])}
    BY <1>2, OnlyFailWritesFailures DEF NoFailureWritten
  <2>2. j = k /\ n = lease[d][k] BY <1>2, <2>1, EventsDiffer
  <2>3. lease' = lease BY <2>1 DEF FailJob, SameInvocation
  <2>4. work' = [work EXCEPT ![d][k] = "failed"] BY <2>1, Zenon DEF FailJob, Step
  <2>5. work \in [Dispatcher -> [JobId -> WorkState]]
    BY DEF SystemInv, DispatchInv, DispatchTypeOK
  <2>6. [work EXCEPT ![d][k] = "failed"][d][k] = "failed" BY <2>5, OneEntry
  <2> QED BY <2>2, <2>3, <2>4, <2>6, Zenon
<1> QED BY <1>1, <1>2

(* Only the invocation that holds a lease ends it as failed.               *)
THEOREM HoldersFailTheirOwn == DispatchSpec => []OnlyHolderFails
<1>1. DispatchInit => FailuresAreOwn
  BY DEF DispatchInit, Init, FailuresAreOwn
<1>2. SystemInv /\ FailuresAreOwn /\ [DispatchNext]_vars => FailuresAreOwn'
  BY StepKeepsFailures
<1>3. FailuresAreOwn => OnlyHolderFails
  BY DEF FailuresAreOwn, FailedByHolder, OnlyHolderFails
<1> QED BY <1>1, <1>2, <1>3, SystemInvHolds, PTL DEF DispatchSpec
=============================================================================
