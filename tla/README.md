# Formal models of the documentation-review control plane

The repository is an agent that keeps documentation in step with code. A
schedule refreshes a registry of GitHub repositories, queues a review for every
repository whose default branch moved, and starts one Eve session per claimed
review. The session compares the code at an immutable commit with the
documentation, records evidence and proposals, and completes its job. People
approve pull requests and page updates in Slack.

This directory holds TLA+ models of that control plane, the TLC configurations
that check them on small instances, and TLAPS proofs of their main properties
for every value of the constants.

## Components and what makes them correct

Paths are relative to `src/agent/lib`.

| component | state | operations | what must hold |
|---|---|---|---|
| review job queue (`database/review-job-store.ts`) | `review_jobs`, `review_job_claim_invocations`, `audit_events` | enqueue, claimDue, complete, fail, recoverExpiredLeases | one open attempt per range; each lease is held by one claim and ends once; repeated calls change nothing |
| completion and cursor (`database/review-completion-store.ts`) | outcome of a job, `repository_cursors` | complete | an outcome is supported by the evidence; a cursor names a reviewed head and never moves back |
| evidence and proposals (`database/evidence-claim-store.ts`, `change-proposal-store.ts`) | `evidence_claims`, `change_proposals` | record, create | nothing is added to a finished review |
| candidates and routes (`database/repository-review-store.ts`, `application/review-jobs/enqueue-due-reviews.ts`) | none | listDueReviewCandidates, loadDispatchRoutes, enqueue | what is due gets a job |
| dispatcher (`application/review-jobs/dispatch-review-jobs.ts`) | one claim ID, a batch, a pool of running sessions | dispatch | invocations may overlap, die and retry without taking each other's jobs; every invocation ends |
| Eve session (`eve/review-session-receiver.ts`) | running, parked, settled | start, first settlement, tool calls | acts on its own job; may outlive the lease |
| inventory sync (`database/repository-registry-store.ts`, `github/control-plane-client.ts`) | `repository_registry` | list pages, read heads, synchronize | an older snapshot does not overwrite a newer one; the registry catches up with GitHub |
| Roadie scope sync (`database/repository-scope-store.ts`, `application/repositories/*roadie*`) | scope columns of the registry | listRoadieRefreshCandidates, resolve, applyResolution | a scope is for the name of its repository, no fresher than it says, and follows the catalog |
| pull requests (`application/repositories/create-repository-pull-request.ts`) | audit events, GitHub | load proposal, create, record | one pull request per change |
| page publication (`application/documentation/publish-confluence-page-update.ts`) | page lock, artifacts, Confluence | check draft, check baseline, update, record | a page is updated from the reviewed version only |
| Confluence review (`application/documentation/review-confluence-pages.ts`) | candidates, page snapshots | search, get, record, propose | claims and proposals cite stored snapshots; a proposal rests on a claim about its baseline |
| GitHub reader, tools, channels, config, logging | none of their own | reads, wrapping, layout | - |

The components meet in the database. Every store method is one transaction that
locks the rows it decides on (`FOR UPDATE`, `SKIP LOCKED`, advisory locks) or
changes them in one conditional `UPDATE`, so a method is one atomic step;
everything between two methods interleaves. What makes the system hard is what
callers carry from one method to the next: a candidate list, a point in time, a
lease token, a claim whose answer was lost, a session that is bound to a job and
not to a lease.

## Modules

**`ReviewQueue`** is the durable queue: the scheduling columns of the registry,
cursors, job rows, claim records, evidence and audit events, and one action per
store method. Where the queue is called from is left open:

- candidate ranges come from `listed`, everything listed so far, so any list may
  be arbitrarily stale when its ranges are enqueued;
- the `now`, `availableAt`, `failedAt` and `completedAt` arguments are any
  instant up to the clock, since callers read their clock before they call;
- `SKIP LOCKED` is any set of rows the batch query passes over;
- sessions may be told to record, propose or complete for any job.

| code | TLA+ |
|---|---|
| `listDueReviewCandidates` | `ListCandidates`, `Due`, `DueRange` |
| `enqueue` | `Enqueue`, `Create` (an existing attempt is returned: `HasCurrentAttempt`) |
| `claimDue` | `ClaimDue`; for a used claim ID `ClaimReplay`, `ClaimConflict` |
| `fail`, `complete`, `recoverExpiredLeases` | `Fail`, `CompleteLease`, `RecoverExpiredLeases` |
| `hasRecordedOutcome` | `HasRecordedOutcome` |
| evidence `record`, proposal `create` | `RecordEvidence`, `CreateProposal` |
| `ReviewCompletionStore.complete`, `advanceCursor` | `CompleteReview`, `AdvanceCursor`, `EvidenceSupports` |
| inventory and Roadie refresh, pausing | `RegistryChanges` |

A lease token is a random UUID that is only compared together with its job ID;
the token of a job's n-th lease is the number n. Commits are numbered in push
order, which the code never sees: the numbers only serve the properties about
order. Failure codes, summaries, digests and the text of evidence are left out.
Evidence is required to hold a comparison when it is parsed, so "some evidence"
and "some comparison" are the same condition. A call that only reads or that
throws is not a step. `CompleteLease` and a failure without a retry time are
part of the store's interface; the dispatcher does not use them today.

**`ReviewContract`** is what the queue promises, without leases, times, retries
or audit events: a review is submitted for a range, delivered to one reviewer at
a time, given back or concluded once; a range has one open review; a position
moves only to the head of a review that succeeded, from its base. `ReviewQueue`
instantiates it as `Contract` with a refinement mapping from job rows to stages.

**`ReviewDispatch`** extends `ReviewQueue` with the dispatcher's invocations and
the sessions they start. An invocation walks through the phases of `dispatch()`:
listing, enqueueing candidate by candidate, recovering, claiming with retries,
loading routes, dispatching. `dispatchJob` of each job is a small state machine
in `work`: queued, running, settled, failing, reported. The pool of
`mapWithConcurrency` is the guard of `StartJob`; the order of a batch is left
open, as PostgreSQL does not fix the order of `RETURNING`. The claim may fail, or
commit and lose its answer. `Abort` stands for every error that ends an
invocation (the database, the platform's time limit, a crash); its leases stay,
and its sessions live on. A session acts on its job under whatever lease the job
has by then, may park for an approval and resume, and may settle without having
recorded anything.

**`PullRequestCreation`** is one approved tool call from `loadProposal` to
`recordCreated`, as the database transactions and GitHub requests it consists of,
one action each (`CheckBase` is all three reads of the default branch). A call
may die after any of them or lose its answer (`Fail`), is delivered again when it
ended, and overlaps with others. Proposals with the same base, path and content
are one `Change`: they share the idempotency key, hence the branch and the record.
GitHub is what the requests ask of it: a reference that exists is not created
again, a file is replaced only if the blob is the one that was read, a branch has
at most one open pull request. A commit is its parent and the content of the one
file. Reviewers learn of a branch from its pull request; from then on they may
push to it, close, merge or delete. They do not reopen pull requests or
force-push, and a file that is missing or unreadable is a request that fails.
A request that GitHub carries out only after its call has died, while the repeated
call is under way, is not a case of `Fail`: the dead call is then one of two
overlapping calls of its proposal that takes its step late and fails afterwards.

| code | TLA+ |
|---|---|
| `loadProposal`, `findCreated` | `LoadProposal`, `FindCreated` |
| `readDefaultBranchHead`, the two checks in `create` | `CheckBase` |
| `ensureBranch` | `FindBranch`, `CreateBranch`, `FindRacedBranch` |
| `ensureFileReplacement` | `ReadFile`, `ReadFirstParent`, `WriteFile` |
| `ensurePullRequest` | `ListPulls`, `OpenPull` |
| `recordCreated` with its replay | `RecordCreated` |

**`PagePublication`** is `publishAssignedConfluencePageUpdate` in the same way, for
one page. The page lock is a transaction of its own that may time out or lose its
connection (`LockExpires`) while its callback goes on; the callback learns of it when
it returns and the commit fails (`Commit`). When a call dies or stops waiting for an
answer (`Fail`), its lock is free at once, but an update it has sent may still reach
Confluence (`UpdateLands`), at any later time and whoever holds the lock by then, or
never. `abandoned` has the proposals whose update was under way when a call died,
`late` those that were published so. The records are written in other
transactions and stay; PostgreSQL commits or rolls back the transaction of a dead call,
which is `Fail` after the record or before it. A version of a page never changes, so the version stands
for the body hash as well; what a version contains is reduced to who published it.
Confluence accepts only the version that follows the current one. People publish
and start or discard drafts at any time: nothing orders them with the draft check,
as the repository's README says.

| code | TLA+ |
|---|---|
| `loadProposal`, `withPageLock` | `LoadProposal`, `AcquireLock`, `LockExpires`, `Commit` |
| `getDraftState`, `recordBlockedByExistingDraft` | `GetDraftState`, `RecordBlockedByExistingDraft` |
| `getPage`, `matchesBaseline`, `replaceExactFragment` | `GetPage`, `MatchesBaseline`, `FragmentIsUnique` |
| `updatePage`, `recordPublished` | `UpdatePage`, for a dead call `UpdateLands`; `RecordPublished` |

**`InventoryRefresh`** is the first half of a scheduled refresh, next to a GitHub
that changes all the while. A call takes its time stamp (`Start`), reads page after
page, then the head of each default branch by name, in any order, and stores the
snapshot. `synchronize` is one transaction: the upsert goes through the snapshot
row by row, each row guarded by its refresh time, and fails as a whole when the
unique `repository_full_name` is held by another row (`NameTaken`). GitHub is
what is asked of it: repositories have an immutable ID and a name nobody else has
at the time, a name leads to the repository that has it or, as GitHub redirects,
had it last, and an empty repository has no head. The pages list the installation in
a fixed order (`Position`; a repository's place is the number before it), so what
joins or leaves shifts the later pages. Default branches are not renamed.

| code | TLA+ |
|---|---|
| `listAllRepositoryPages` | `Place`, `Page`, `ListPage` |
| `getDefaultBranchHead` under `mapWithConcurrency` | `Readable`, `ReadHead` |
| `validateSnapshot`, the upsert, the revocation | `NameTwice`; `Applies`, `Stored`, `NameTaken`; `Revoked` |
| `RepositoryRegistryStore.synchronize` | `Synchronize` |

**`RoadieScope`** is the resolver as operators over a catalog, one verdict per
stage: the component that declares the repository, its system, their owner, and
what all three declare. A verdict is one of the thirteen diagnostics or trust.
`TrustedScopes` says the same without the order of the code: which component,
system and owner may be trusted. Names and references are canonical, so case is
left out, and a link is its type and the page its URL leads to, if it does.

**`ScopeRefresh`** is the second half of a scheduled refresh: it selects a bounded
batch of pending and stale rows and resolves one after the other, each in separate
requests against a catalog that may have changed. The paged search for one name
is one request. An unparseable component makes the client throw, which skips
the repository (`Malformed`). An unparseable system or owner does the same in the code;
here it is a request that fails now and then (`CandidateFails`), not each time. Rows and calls hold ages in place of times, which
keeps the instance finite while time goes on for ever: the age of a row is that of
the refresh that wrote it, not of the write. The names come from
`InventoryRefresh` as `InventoryRenames`, which resets the scope as the upsert does.

| code | TLA+ |
|---|---|
| `refresh` | `Start`, `SelectBatch`, `WithNext`, `CandidateFails`, `RefreshFails` |
| `listRoadieRefreshCandidates` | `Stale`, `Candidates`, `Before` |
| `getResolutionTarget`, `resolve` | `GetResolutionTarget`; `FindComponents`, `ReadSystem`, `ReadOwner` with the verdicts of `RoadieScope` |
| `projectionData`, `applyResolution` | `Projection`, `Projected`, `ApplyResolution` |

**`ConfluenceReview`** is the documentation side of a session. A search makes the exact
pages of the scope candidates of the job and then fetches and attaches every candidate
the job has; a claim or proposal loads its candidate and is written in a later
transaction. Snapshots belong to a page and version and are shared by all jobs. Between
any two steps people publish, Confluence renders a version differently, a refresh
changes the scope, or the lease ends. A session makes one call at a time or, for the
jobs in `Parallel`, several. `get_document_candidate` reads what is stored and changes
nothing. A digest stands for what it digests, so an exact replay adds nothing to a set
of claims or proposals.

| code | TLA+ |
|---|---|
| `AssignedConfluencePageReviewer.search` | `BeginSearch`, `MaterializeCandidates`, `FetchPage`, `AttachSnapshot` |
| `requireSnapshot` | `RequireSnapshot` in `LoadForEvidence`, `LoadForProposal` |
| evidence `record`, proposal `create` | `RecordEvidence`, `CreateProposal`; for the repository `RecordRepositoryEvidence`, `CreateRepositoryProposal` |
| `isMatchingConfluenceBaseline` | `CitesBaseline` |

**`ArtifactContract`** is what both writers promise: the remote effect of an
approved change happens at most once, and its record is written at most once,
after the effect, and never replaced. Both instantiate it as `Contract`.

The **`MC*`** modules add symmetry sets and functions between model values for
TLC; the **`*Proofs`** modules hold the proofs. In the other modules, an operator
marked "Mutant" is a plausible mistake in the operator that follows it. It is
used nowhere; putting it in the place of that operator makes TLC refute one
property, which shows that the property depends on this piece of code.

## Runs

| run | question | instance | result |
|---|---|---|---|
| `queue_ranges` | do ranges, attempts and cursors stay consistent while the head moves and the scope goes stale? | 1 repository, 2 commits, 3 job rows, 2 claims of up to 2 jobs | holds, 99 000 states |
| `queue_leases` | does every lease end once, does a claim ID lease one batch, can an outcome lose its support, and does the queue fulfil its contract, whatever expires, is recovered, retried, leased again or repeated? | 1 repository, 2 commits, 2 rows, 2 claims of 1 job, 3 ticks, lease and retry delay of 1 tick, consistent and contradictory evidence, outcomes without change and with proposals, a registry that pauses | holds, 178 000 states |
| `dispatch_overlap` | do overlapping invocations respect each other's leases, and use the queue as specified? | 2 invocations, 1 job, 3 ticks, lease of 1 tick | holds, 650 000 states |
| `dispatch_liveness` | does every invocation end? | 1 invocation, 2 jobs, 1 slot, 2 claim attempts | holds, 106 000 states |
| `dispatch_repository_sessions` | does an invocation run one session per repository? | 2 invocations, 2 jobs of one repository | violated |
| `pr_retries` | does a call that dies and is repeated create and record one pull request, and get past its own leftovers? | 2 calls of 2 changes, one of them without effect, 2 failures, reviewers who may do everything | holds, 175 000 states |
| `pr_overlap` | do overlapping calls of one change share branch and record, and is the change recorded eventually? | 3 calls, 2 proposals of one change, 1 failure | holds, 77 000 states |
| `page_overlap` | is an edit ever lost, a proposal published or recorded twice, do calls get in each other's way, and does every call end? | 2 calls of competing proposals, 3 versions, 2 faults (dead calls or locks that end early), updates of dead calls that arrive late | holds, 197 000 states |
| `page_unrecorded` | is a published version recorded eventually? | 1 call, 1 failure | violated |
| `inventory` | is the registry right about what has not changed, and does it catch up? | 2 refreshes, 3 repositories, pages of 1, 2 changes or failures, 2 ticks | holds, 290 000 states |
| `scopes` | is a stored scope for its name and as fresh as it says, and does it converge? | 2 refreshes, 2 repositories, 17 catalogs, 1 change or failure, staleness after 1 tick | holds, 335 000 states |
| `review` | do claims and proposals cite what is stored, and candidates go forward? | 2 jobs, one with 2 calls at once, 1 page of 2 versions and 2 bodies, 2 changes or failures | holds, 1 470 000 states |

The bounds. `MaxJob` rows: three hold an attempt, its retry and a review of the
next range, the smallest table in which attempts and overlapping ranges meet.
`MaxTime`: with leases and retry delays of one tick, three ticks let a lease be
given, expire, be recovered, be given again and expire again; an audit trail with
two leases of one job is what the lease properties talk about. Two claims pass the
job between two holders, and either is repeated late. `queue_leases` leaves out
other evidence, inconclusive outcomes and scopes that go stale (`queue_ranges` has the
last two, without a lease that expires); `OutcomesStayJustified` and
`QueueImplementsContract` are about all of them at once.
`ClaimLimit` is 1 where the question is who gets the job, and 2 where a batch has
to contain two ranges. Two invocations are the smallest overlap; the job they
compete for passes from one to the other and a session of the first meets a lease
of the second. `dispatch_overlap` finds no row locked: skipping a row gives the
same result as calling a moment earlier there, and the queue runs check it.
The writers: a call passes the branch, the commit and the pull request, and two
failures interrupt it at any two of these points; a further commit beside those of
the writer is for reviewers, or for the second commit that must not happen. Three
versions of a page hold the first baseline, a proposal's version and one more, of a
person. Two faults are a call that dies at its update and another that dies, or whose
lock ends, before the update of the first arrives. Two calls are the smallest overlap; the safety properties of this run are
proved for any number of calls, so the run needs only one order of each kind.
Two refreshes are the smallest overlap as well. With pages of one repository, one
that disappears from the first page and one that appears at the end, between the two
requests, hide the one in the middle: the run reaches the exception that
`MirrorsTheNewestRefresh` makes. With two changes, one may also come between a page
and its head and the other before the snapshot is stored.
The seventeen catalogs of `scopes` hold one for each diagnostic the resolver can
return for them and some that are trusted; each change leads from or to the usual one,
between any two reads. In `review`, one page with two versions is what two jobs
need to find different bodies under one version, and different versions under one
candidate; the second tool call of the second job overlaps with the first.
The queue itself always has a step (listing candidates). The dispatch instances
stop when their finitely many invocations are over, so deadlock is not checked
there.

What the code allows and these properties exclude by assumption:

- A head that returns. With the cursor at commit 2 and the head back at commit 1,
  the range from 2 to 1 may have been reviewed before. `enqueue` returns the
  finished job, and the repository stays due without a review until its head
  moves. `ReviewedRangesStayDone` proves that this needs a head that goes back
  (`HeadMayMoveBack`).
- A name that is reused. A repository that left the installation keeps its name in
  the registry. When another one takes the name, every later snapshot violates the
  unique index and is rolled back. `EventuallyMirrored` assumes `NamesFree`.
- A repository without a commit ends every refresh at its head. `EventuallyMirrored`
  assumes `HeadsReadable`.
- A full batch. Repositories that stay pending because their component cannot be
  parsed come first in every batch; enough of them keep the others out.
  `ScopesConverge` assumes room for all.
- Overlapping searches of one session. The slower one attaches an older version last.
  `CandidatesNeverGoBack` is about sessions that make one call at a time. Claims
  still cite what is stored.
- A page that left the scope stays a candidate, is fetched by each later search and
  may fail it; claims and proposals about it are refused.
- A page shift that leaves the reported count as it was: a repository that leaves
  and another that appears between two pages hide a third one from the snapshot,
  which revokes its access until the next refresh. `MirrorsTheNewestRefresh` excepts
  this by `TwoChanged`, and `RegistryMirrors` proves that nothing less than two other
  repositories that change can cause it.

`dispatch_repository_sessions`: a head moves between two invocations, the
pending job of the earlier range and the job of the later one are claimed
together, and both sessions run at once. The comment of `ReviewJobDispatcher`
says one session per repository. The completion protocol keeps this harmless for
the cursor: see `CursorNeverMovesBack`.

The two pull-request runs keep overlapping calls and reviewers apart, because the
properties need it. When two calls have both listed no pull request, one opens it and a
reviewer closes it, the other opens a second one: GitHub refuses a second pull request
only while the first is open. And when a call has read the head of the branch, another
one finishes, and a reviewer reverts the file, the first puts its commit on top of the
revert and records it, or is told that its record conflicts. And even without reviewers,
a call that read the head of the branch just before another one committed, and the file
just after, is refused with a branch conflict; repeated, it takes the commit over. The same two
things can happen to a call that is repeated before the last request of its predecessor
has reached GitHub, for then the two overlap: a branch conflict, or, with a reviewer who
closes the pull request in between, a second one. `ConflictsAreForeign` and the contract
in `pr_retries` are about a predecessor whose requests were carried out or lost before
it is repeated; `pr_overlap` has two calls of one proposal, either of which may be the
dead one.
`OneCommitPerBranch` and `RecordedArtifactIsTheChange` hold for overlapping calls with
reviewers who close, merge and delete, but do not push, as `OneCommit` and
`RecordsAreTrue` prove. A branch that is deleted between a failed call and its
repetition leaves a record that names the new commit and the old, closed pull request;
both hold the approved change. Branch and key are derived from the content, so each
proposal of a review gets a pull request of its own, while `docs/system-plan.md:668`
speaks of one per review.

`page_unrecorded`: a call dies between the update and the record; repeated, it
reads the version it published itself, which is not its baseline, and ends as
stale each time. `UnrecordedOnlyAfterFailure` shows that this needs a failure:
locks that end early are not enough.

## Fairness

`FairDispatchSpec` assumes weak fairness of the steps of each invocation
(`DispatcherStep`) and of the settlement of each running session
(`SessionSettles`). The first is the JavaScript runtime running an async function
whose awaited calls answer or fail; an invocation that is cut off takes `Abort`
instead. The second is Eve ending or parking every turn, which the receiver
relies on: it waits for the first settlement without a time limit. Nothing is
assumed about the clock, the registry, or what sessions record.

`FairSpec` of the two writers assumes that a call goes on unless it fails, and that
an approved call is delivered again when it ended: `docs/system-plan.md:314` says
that delivery is at least once. For the page lock it assumes strong fairness of
`AcquireLock`, as PostgreSQL serves the waiters of a lock in turn.

`FairSpec` of the two refreshes assumes that the schedule keeps starting refreshes
(a cron trigger does) and that a refresh goes on unless it fails; failures are
bounded by `MaxEvents`, since a request that always fails reaches nothing. For
`ScopeRefresh` time goes on as well: rows must grow stale to be read again.
The time stamps of `InventoryRefresh` need not differ: `<=` lets equal ones through.

## Proofs

Every safety invariant, action property and refinement that a passing run checks is
proved as well, for every value of the constants that satisfies the named assumptions.
Only liveness is left to TLC. What is inductive is stronger than what is promised;
each section names it and says why.

`ReviewQueueProofs` proves, for any repositories, commits, jobs, claims, workers,
limits and durations that satisfy the named assumptions of `ReviewQueue`:

| theorem | states |
|---|---|
| `TypeCorrect` | `Spec => []TypeOK` |
| `OneOpenAttemptHolds` | `Spec => []OneOpenAttempt` |
| `RowsAlwaysAccepted` | `Spec => []RowsAccepted` |
| `FinishedJobsStayFrozen` | `Spec => FinishedJobsAreFrozen` |
| `OutcomesStayJustified` | `Spec => []OutcomeJustified` |
| `CursorAlwaysReviewed` | `Spec => []CursorReviewed` |
| `CursorsOnlyAdvance` | `Spec => CursorNeverMovesBack` |
| `ReviewedRangesStayDone` | `Spec => []ReviewedRangeIsNotDue`, if heads never move back |

The argument for the queue. `StepMovesRows` says what any step may do to the table:
create the next row or move open rows, never touching a closed row, a range or an
attempt number. With it `OneOpenAttempt` is inductive: a new row's number exceeds those
of all earlier attempts and those are inconclusive, and an inconclusive attempt is
closed. `RowsAccepted` is inductive with `TypeOK`, by one lemma for each operator that
writes a row. `QueueInv` adds that an unused row number carries no data; then an outcome
or an advanced cursor implies a completed, hence closed, row (`OutcomeMeansCompleted`),
evidence needs a lease (`EvidenceNeedsLease`), and only `CompleteReview` records
outcomes or moves cursors (`OnlyReviewsRecord`). The order properties are not inductive.
They need `CommitsInOrder`: every listed and every stored range runs forward to a head
its registry row has reached, no cursor is ahead of its head, and the head of a
successful review is not ahead of its cursor. The compare-and-set of the cursor against
the base of the range keeps the last two, and the assumption that heads move forward the
first.

`ReviewLeaseProofs` goes on with the leases and the contract:

| theorem | states |
|---|---|
| `LedgerComplete` | `Spec => []LeaseLedger` |
| `ReplaysNeverLease` | `Spec => ReplayNeverLeases` |
| `QueueImplementsContract` | `Spec => QueueFulfilsContract`, that is, `ReviewContract!Spec` under the refinement mapping |

`EveryStep` says what a step does to one row and to the audit events about it:
nothing, its creation, the start of a lease, the end of one, or a completion that is
repeated (`RowStep`). `LeaseLedger` follows from `LedgerInv`, which is about one job at
a time: its leases are numbered without gaps and the audit trail has no others; a
completed job remembers the lease it completed under; and each lease but the current
one has exactly one end. A token that was used up is what keeps a late failure report
and a recovery from ending the same lease twice. The refinement maps each `RowStep`
to a step of the contract or a stutter; `OneOpenAttempt` supplies the guard of
`Submit`, and the compare-and-set of the cursor that of a position's move.

`ReviewDispatchProofs` proves, for any number of invocations and jobs:

| theorem | states |
|---|---|
| `DispatchTypeCorrect` | `DispatchSpec => []DispatchTypeOK` |
| `DispatchImplementsQueue` | `DispatchSpec => DispatchUsesQueue`, that is, `ReviewQueue!Spec` |
| `SystemFulfilsContract` | `DispatchSpec => QueueFulfilsContract` |
| `LeasesKeepOneHolder` | `DispatchSpec => []LeasesHaveOneHolder` |
| `LeasesAreClaimed` | `DispatchSpec => []NoLeaseUnclaimed` |
| `ReportedCompletionsStay` | `DispatchSpec => []ReportedCompletionIsFinal` |
| `HoldersFailTheirOwn` | `DispatchSpec => []OnlyHolderFails` |

What `ReviewQueue` leaves open, an invocation fills in: the candidates it enqueues were
listed, the time it passes is not in the future, and a lease token it fails a job with
was given (`ReadEarlier`, and `LedgerInv` for the token). So every step is one of the
queue or leaves it alone, and the theorems about the queue hold of the system. The
rest needs the ledger of the queue as well: `LeasesAreOwn` says that a token an
invocation has was given by the queue, and to its own claim as long as the job has no
newer lease. Two invocations cannot have the same one, because the next lease gets a new
number and an answer repeats only the leases of its own claim. `FailuresAreOwn`
says whose each failure event is. An invocation has jobs only after its claim was
answered (`ClaimsRecorded`).

`PullRequestCreationProofs` proves, for any calls, proposals, changes and bounds:

| theorem | states | if |
|---|---|---|
| `TypeCorrect` | `Spec => []TypeOK` | |
| `OneCommit` | `Spec => []OneCommitPerBranch` | `Unpushed` |
| `RecordsAreTrue` | `Spec => []RecordedArtifactIsTheChange` | `Alone` or `Unpushed` |
| `ConflictsStayForeign` | `Spec => ConflictsAreForeign` | `Alone` |
| `OwnRecordsNeverConflict` | `Spec => OwnRecordNeverConflicts` | `Alone`, or no reviewer acts |
| `CreationImplementsContract` | `Spec => CreationFulfilsContract`, that is, `ArtifactContract!Spec` | `Alone` or `Unclosed` |

`Alone`: no two calls share a change (one call may still die and be delivered again
without end, each time when the requests of its predecessor were carried out or lost). `Unpushed`: nobody else commits to a documentation branch. `Unclosed`:
nobody closes a pull request. The code guarantees none of them: without them the
properties are false, as described under the runs above. They are tight: adding any one
right of the reviewers that a hypothesis excludes to `pr_overlap` (with a third commit,
for a push) makes TLC refute `CreationFulfilsContract` and `OwnRecordNeverConflicts`,
and `ConflictsAreForeign` is refuted there without any. Of the runs, `pr_retries`
satisfies `Alone` with reviewers who do everything, and `pr_overlap` the others with
calls that overlap. The theorems about `Unpushed` and `Unclosed` are wider than that
run, whose reviewers do nothing. `Inv` says what a branch, a pull request and a record
may be (`BranchIsRight`, `PullsAreRight`, `RecordIsRight`), and what a call carries from
one request to the next is still true or is refused: a commit it goes on with was the
approved one (`Carries`), a file it replaces was read at the base (`Looks`), and a call
that is alone finds the branch as it left it (`SeesItsOwn`). One commit per branch rests
on the blob that an update names: a call that read the base before another one committed
is refused by GitHub.

`PagePublicationProofs` proves, for any calls, proposals, baselines and bounds,
whatever locks end early and whatever updates of dead calls arrive late:

| theorem | states |
|---|---|
| `PublicationTypeCorrect` | `Spec => []TypeOK` |
| `NoEditIsLost` | `Spec => []ProposalsFollowTheirBaseline` |
| `PublishedMeansRecorded` | `Spec => []UnrecordedOnlyAfterFailure` |
| `CallsDoNotOvertake` | `Spec => LiveCallsDoNotOvertake` |
| `PublicationImplementsContract` | `Spec => PublicationFulfilsContract`, that is, `ArtifactContract!Spec` under the refinement mapping |

`TypeOK` is not inductive: the version a call records is in range only because the
call published it. `Inv` adds that a call at `recording update` has published its
version, that what is recorded was published, and that a call which records a block
saw a draft. A proposal publishes only the version after its baseline, so it has
published nothing as long as the page is at the baseline: `UpdatePage` and
`UpdateLands` are the contract's `Make`, `RecordPublished` its `Record`, everything else
a stutter. The lock plays no part in that argument. What it adds is
`LiveCallsDoNotOvertake`: while no lock has ended early, a call inside its callback holds
the lock, so no other call publishes, and a call about to update has read its baseline;
the version after it can only be a person's, or the late one of a dead call
(`ReadersSawBaseline`). The lock cannot keep out the latter: it is free as soon as its
holder is dead. For `UnrecordedOnlyAfterFailure`, `AbandonedMeansFailed` says that no
update arrives late before a call has died.

`InventoryRefreshProofs` proves, for any repositories, names, page size, order of the
list, calls and bounds:

| theorem | states |
|---|---|
| `TypeCorrect` | `Spec => []TypeOK` |
| `RegistryMirrors` | `Spec => []MirrorsTheNewestRefresh` |

The first half is an invariant of what was read: an entry about a repository that has not
changed since the refresh began is right (`EntryIsRight`; a request by name reaches that
repository because of `NamesLead`), and rows keep this through the guard on their time
stamps. The second half is about what was not read. If one repository at most changed
since the refresh began, the place of any other on the list moves by one at most, and
then the reported count changes as well, unless the one that changed is listed already
(`CountIncludes`); `NoneForgotten` follows when the last page completes the count.
`NoneBehind` strengthens the property by the row's time stamp, for a late refresh must
not overwrite what a newer one wrote.

`ScopeRefreshProofs` proves, for any catalogs of finitely many entities, repositories,
batch limit, interval and number of refreshes:

| theorem | states |
|---|---|
| `TypeCorrect` | `Spec => []TypeOK` |
| `ScopeKeepsItsName` | `Spec => []ScopeIsForItsName` |
| `AgesAreTruthful` | `Spec => []AgeIsTruthful` |

The verdicts of the resolver are proved first, one lemma per stage: a stage
trusts an entity exactly when the catalog means it (`ComponentFound`, `SystemFound`,
`OwnerFound`, `AllDocumented`), and together they trust exactly the `TrustedScopes`
(`TrustedScopesAreFound`, `NothingToTrust`). Then `Inv` says of a call which is younger
than the last change of the catalog that each entity it has read is the one the catalog
has (`ReadIsRight`), and of a row the same. A call that is older may have read a mixture
of two catalogs; what it stores is a scope for the right name, of an age that says so.

`ConfluenceReviewProofs` proves, for any jobs, pages, bodies, calls and bounds:

| theorem | states |
|---|---|
| `ReviewTypeCorrect` | `Spec => []TypeOK` |
| `BaselinesStayStored` | `Spec => []BaselinesAreStored` |
| `ProposalsStaySupported` | `Spec => []ProposalsAreSupported` |
| `CandidatesOnlyAdvance` | `Spec => CandidatesNeverGoBack` |

The strengthening is `Sound`: what a call read in its last step agrees with the
store, for good. It survives the steps of others because the store only grows
(`PagesGrow`, `SnapshotsStay`, `CandidatesStay`; lemma `Grows`): a stored body is
never replaced, as `AttachSnapshot` rejects another one. For a fetched page `Sound`
says that its version is not older than the candidate, which holds while no other
call of the job attaches anything; `OneAtATime` says so for the jobs outside
`Parallel`. A proposal's baseline is a real one because some claim of its evidence
has it, and every claim is typed.

Only model-checked: `InvocationsEnd`, `ApprovedChangesAreRecorded`, `CallsEnd`,
`EventuallyMirrored` and `ScopesConverge`. They are liveness properties under fairness,
and the proof system has neither `ENABLED` nor proof rules for fairness. The two
properties that a run refutes are false.

## Plan

1. `ReviewDispatch` with recurring invocations: a job whose holder died is recovered
   and reviewed eventually. It takes a bound on attempts and another run.
2. The composition of a scheduled refresh with the dispatch that follows it, which now
   meet in their interfaces only (`RegistryChanges`, `InventoryRenames`).
3. A contract for the two refreshes, as there is one for the queue and the writers.

## Not modelled

Text: prompts, evidence, patches, Slack blocks, log lines. Parsing of
configuration, token exchange, the pages of a catalog search and retries inside the
API clients. The GitHub reader (`github/repository-review-client.ts`): it reads at an
immutable commit, keeps no state, and its size limits end a call. Database
failover: a committed transaction stays committed. The recorders of unpublished Confluence
drafts, which no production tool calls. What the language model in a session
decides is nondeterministic.
