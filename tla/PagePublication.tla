-------------------------- MODULE PagePublication --------------------------
(***************************************************************************)
(* The approved publication of documentation proposals on one Confluence   *)
(* page: publishAssignedConfluencePageUpdate with its stores and clients.  *)
(* Calls are serialized by an advisory lock that lives as long as a        *)
(* database transaction; the transaction may end while its callback goes   *)
(* on, and a call may die while its update is on its way to Confluence.    *)
(* People edit the page meanwhile.  Confluence itself is modelled by the   *)
(* requests the clients make of it.                                        *)
(*                                                                         *)
(* A version of a page never changes, so the version of a baseline stands  *)
(* for its body hash, and the text of a version is abstracted to who       *)
(* published it.                                                           *)
(***************************************************************************)
EXTENDS Integers, Sequences

CONSTANTS
  Call,           \* tool calls in flight, each repeating itself when it ended
  Proposal,       \* stored proposals for the page
  ProposalOf,     \* the proposal of each call
  BaselineOf,     \* the version of the page each proposal was made from
  Ambiguous,      \* proposals whose fragment is not unique in their baseline
  People,         \* whoever else publishes versions of the page
  Nobody,         \* the holder of a free lock
  DraftVersion,   \* versions Confluence reports of an unpublished draft
  ScopeMayChange, \* may the page leave the exact scope, or the review stop?
  MaxVersion,     \* versions of the page
  MaxFaults       \* calls that die or lose an answer, and locks that end early

ASSUME ProposalOfAssumption == ProposalOf \in [Call -> Proposal]
ASSUME MaxVersionAssumption == MaxVersion \in Nat \ {0}
ASSUME BaselineOfAssumption == BaselineOf \in [Proposal -> 1..MaxVersion]
ASSUME AmbiguousAssumption == Ambiguous \subseteq Proposal
ASSUME PeopleAssumption == People \notin Proposal
ASSUME NobodyAssumption == Nobody \notin Call
ASSUME DraftVersionAssumption == DraftVersion \subseteq Nat \ {0}
ASSUME ScopeMayChangeAssumption == ScopeMayChange \in BOOLEAN
ASSUME MaxFaultsAssumption == MaxFaults \in Nat

VARIABLES
  author,    \* who published each version of the page
  draft,     \* the version of a real unpublished draft, or 0
  lock,      \* the call whose transaction holds the page lock
  inScope,   \* is the page an exact target of a reviewed repository?
  artifact,  \* the recorded published version of each proposal, or 0
  blocked,   \* audited refusals: proposal and version of the draft
  call,      \* where each call is, and the draft it has seen
  failures,  \* how many calls died
  expiries,  \* how many locks ended under a callback that went on
  abandoned, \* proposals whose update was on its way when a call died
  late       \* those of them that such an update has published

confluence == <<author, draft>>
records == <<artifact, blocked>>
faults == <<failures, expiries, abandoned, late>>
vars == <<confluence, lock, inScope, records, call, faults>>

Locked == {"checking draft", "recording block", "reading page", "updating page",
           "recording update", "committing"}
Running == {"locking"} \cup Locked
Ended == {"idle", "returned", "unavailable", "stale", "conflict", "rejected",
          "timed out", "failed"}

CallState == [step : Running \cup Ended, draft : DraftVersion \cup {0}]

At(step) == [step |-> step, draft |-> 0]

TypeOK ==
  /\ author \in Seq(Proposal \cup {People})
  /\ Len(author) \in 1..MaxVersion
  /\ draft \in DraftVersion \cup {0}
  /\ lock \in Call \cup {Nobody}
  /\ inScope \in BOOLEAN
  /\ artifact \in [Proposal -> 0..MaxVersion]
  /\ blocked \subseteq Proposal \X DraftVersion
  /\ call \in [Call -> CallState]
  /\ failures \in 0..MaxFaults
  /\ expiries \in 0..MaxFaults
  /\ abandoned \subseteq Proposal
  /\ late \subseteq abandoned

Init ==
  /\ author = <<People>>
  /\ draft = 0
  /\ lock = Nobody
  /\ inScope = TRUE
  /\ artifact = [p \in Proposal |-> 0]
  /\ blocked = {}
  /\ call = [c \in Call |-> At("idle")]
  /\ failures = 0
  /\ expiries = 0
  /\ abandoned = {}
  /\ late = {}

version == Len(author)
Baseline(c) == BaselineOf[ProposalOf[c]]
MatchesBaseline(c) == version = Baseline(c)
FragmentIsUnique(c) == ProposalOf[c] \notin Ambiguous

-----------------------------------------------------------------------------
(* The steps of a call.                                                    *)

Goes(c, from, to) == call[c].step = from /\ call' = [call EXCEPT ![c].step = to]

Released(c) == IF lock = c THEN Nobody ELSE lock

(* An error leaves the callback: the transaction rolls back and the lock   *)
(* is free.                                                                *)
Throws(c, how) ==
  /\ call' = [call EXCEPT ![c] = At(how)]
  /\ lock' = Released(c)

(* A proposal exists once its baseline was read.                           *)
LoadProposal(c) ==
  /\ call[c].step \in Ended
  /\ Baseline(c) <= version
  /\ call' = [call EXCEPT ![c] = At(IF inScope THEN "locking" ELSE "unavailable")]
  /\ UNCHANGED <<confluence, lock, inScope, records, faults>>

(* Mutant: the lock is taken whether or not it is held.                    *)
AcquireAnyLock(c) ==
  /\ Goes(c, "locking", "checking draft")
  /\ lock' = c
  /\ UNCHANGED <<confluence, inScope, records, faults>>

AcquireLock(c) ==
  /\ lock = Nobody
  /\ Goes(c, "locking", "checking draft")
  /\ lock' = c
  /\ UNCHANGED <<confluence, inScope, records, faults>>

(* The transaction of the lock times out, or loses its connection; its     *)
(* callback does not notice.                                               *)
LockExpires(c) ==
  /\ lock = c
  /\ failures + expiries < MaxFaults
  /\ expiries' = expiries + 1
  /\ lock' = Nobody
  /\ UNCHANGED <<confluence, inScope, records, call, failures, abandoned, late>>

GetDraftState(c) ==
  /\ call[c].step = "checking draft"
  /\ call' = [call EXCEPT ![c] =
       [step |-> IF draft = 0 THEN "reading page" ELSE "recording block", draft |-> draft]]
  /\ UNCHANGED <<confluence, lock, inScope, records, faults>>

(* An upsert: the same draft is recorded once.                             *)
RecordBlockedByExistingDraft(c) ==
  /\ Goes(c, "recording block", "committing")
  /\ blocked' = blocked \cup {<<ProposalOf[c], call[c].draft>>}
  /\ UNCHANGED <<confluence, lock, inScope, artifact, faults>>

(* Mutant: a stale page ends the call and keeps its lock.                  *)
GetPageKeepingLock(c) ==
  /\ call[c].step = "reading page"
  /\ IF MatchesBaseline(c) THEN Goes(c, "reading page", "updating page")
                           ELSE call' = [call EXCEPT ![c] = At("stale")]
  /\ UNCHANGED <<confluence, lock, inScope, records, faults>>

(* Mutant: the record is written before the update it is about.            *)
GetPageRecordingFirst(c) ==
  /\ call[c].step = "reading page"
  /\ IF ~MatchesBaseline(c) \/ ~FragmentIsUnique(c)
       THEN Throws(c, "stale") /\ UNCHANGED artifact
       ELSE /\ Goes(c, "reading page", "updating page") /\ UNCHANGED lock
            /\ artifact' = [artifact EXCEPT ![ProposalOf[c]] = Baseline(c) + 1]
  /\ UNCHANGED <<confluence, inScope, blocked, faults>>

(* The page must be at the baseline, with the replaced fragment in it      *)
(* exactly once.                                                           *)
GetPage(c) ==
  /\ call[c].step = "reading page"
  /\ IF ~MatchesBaseline(c) THEN Throws(c, "stale")
     ELSE IF ~FragmentIsUnique(c) THEN Throws(c, "conflict")
     ELSE Goes(c, "reading page", "updating page") /\ UNCHANGED lock
  /\ UNCHANGED <<confluence, inScope, records, faults>>

(* Mutant: the update goes on top of whatever version is current.          *)
UpdateCurrentPage(c) ==
  /\ Goes(c, "updating page", "recording update")
  /\ version < MaxVersion
  /\ author' = Append(author, ProposalOf[c])
  /\ UNCHANGED <<draft, lock, inScope, records, faults>>

(* Confluence accepts only the version that follows the current one.       *)
UpdatePage(c) ==
  /\ call[c].step = "updating page"
  /\ \/ /\ version = Baseline(c)
        /\ version < MaxVersion
        /\ author' = Append(author, ProposalOf[c])
        /\ Goes(c, "updating page", "recording update")
        /\ UNCHANGED lock
     \/ /\ version # Baseline(c)
        /\ Throws(c, "rejected")
        /\ UNCHANGED author
  /\ UNCHANGED <<draft, inScope, records, faults>>

(* Mutant: the record is written in the transaction of the lock, and lost  *)
(* with it.                                                                *)
RecordUnderLock(c) ==
  /\ Goes(c, "recording update", "committing")
  /\ artifact' = IF lock = c THEN [artifact EXCEPT ![ProposalOf[c]] = Baseline(c) + 1]
                             ELSE artifact
  /\ UNCHANGED <<confluence, lock, inScope, blocked, faults>>

(* A transaction of its own.  The artifact is unique for the proposal.     *)
RecordPublished(c) ==
  /\ call[c].step = "recording update"
  /\ IF artifact[ProposalOf[c]] = 0
       THEN /\ artifact' = [artifact EXCEPT ![ProposalOf[c]] = Baseline(c) + 1]
            /\ Goes(c, "recording update", "committing")
            /\ UNCHANGED lock
       ELSE Throws(c, "rejected") /\ UNCHANGED artifact
  /\ UNCHANGED <<confluence, inScope, blocked, faults>>

(* The callback returned: committing the transaction of the lock fails     *)
(* when it had timed out, and the result is lost with it.                  *)
Commit(c) ==
  /\ call[c].step = "committing"
  /\ Throws(c, IF lock = c THEN "returned" ELSE "timed out")
  /\ UNCHANGED <<confluence, inScope, records, faults>>

(* The process dies, a request fails, its answer is lost, or a call that   *)
(* waits for the lock runs out of time.  The lock ends with the call, but  *)
(* not an update that is already on its way to Confluence.                 *)
Fail(c) ==
  /\ call[c].step \in Running
  /\ failures + expiries < MaxFaults
  /\ failures' = failures + 1
  /\ abandoned' = IF call[c].step = "updating page" THEN abandoned \cup {ProposalOf[c]}
                                                   ELSE abandoned
  /\ Throws(c, "failed")
  /\ UNCHANGED <<confluence, inScope, records, expiries, late>>

CallStep(c) ==
  \/ GetDraftState(c) \/ RecordBlockedByExistingDraft(c) \/ GetPage(c)
  \/ UpdatePage(c) \/ RecordPublished(c) \/ Commit(c)

(* The update of a dead call reaches Confluence after all, whoever holds   *)
(* the lock by then.  Nobody waits for its answer.                         *)
UpdateLands(p) ==
  /\ p \in abandoned
  /\ version = BaselineOf[p]
  /\ version < MaxVersion
  /\ author' = Append(author, p)
  /\ late' = late \cup {p}
  /\ UNCHANGED <<draft, lock, inScope, records, call, failures, expiries, abandoned>>

-----------------------------------------------------------------------------
(* People and the registry.                                                *)

PeoplePublish ==
  /\ version < MaxVersion
  /\ author' = Append(author, People)
  /\ draft' = 0
  /\ UNCHANGED <<lock, inScope, records, call, faults>>

DraftChanges ==
  /\ \E d \in DraftVersion : draft' = IF draft = 0 THEN d ELSE 0
  /\ UNCHANGED <<author, lock, inScope, records, call, faults>>

ScopeChanges ==
  /\ ScopeMayChange
  /\ inScope' = ~inScope
  /\ UNCHANGED <<confluence, lock, records, call, faults>>

Next ==
  \/ \E c \in Call :
       LoadProposal(c) \/ AcquireLock(c) \/ LockExpires(c) \/ CallStep(c) \/ Fail(c)
  \/ \E p \in Proposal : UpdateLands(p)
  \/ PeoplePublish \/ DraftChanges \/ ScopeChanges

Spec == Init /\ [][Next]_vars

(* A call goes on unless it dies, an approved call that ended is delivered *)
(* again, and Postgres serves the waiters of an advisory lock in turn.     *)
FairSpec ==
  /\ Spec
  /\ \A c \in Call : /\ WF_vars(LoadProposal(c)) /\ WF_vars(CallStep(c))
                     /\ SF_vars(AcquireLock(c))

-----------------------------------------------------------------------------
(* Properties.                                                             *)

(* Whatever dies, is repeated, arrives late or outlives its lock, a        *)
(* proposal publishes at most one version of the page, and at most one     *)
(* artifact names exactly that version, after it exists.                   *)
Contract == INSTANCE ArtifactContract WITH
  Change <- Proposal,
  Artifact <- 1..MaxVersion,
  made <- [p \in Proposal |-> {v \in DOMAIN author : author[v] = p}],
  recorded <- [p \in Proposal |-> {artifact[p]} \ {0}]

PublicationFulfilsContract == Contract!Spec

(* No edit is lost: what a proposal publishes directly follows the version *)
(* it was reviewed against, although the page was read two requests        *)
(* earlier and the lock keeps out only other calls.                        *)
ProposalsFollowTheirBaseline ==
  \A v \in DOMAIN author : author[v] \in Proposal => v = BaselineOf[author[v]] + 1

(* Without a crash or a lost answer every published version is recorded or *)
(* about to be, also when the call outlived its lock and reports an error. *)
UnrecordedOnlyAfterFailure ==
  failures = 0 =>
    \A p \in Proposal : artifact[p] = 0 /\ (\E v \in DOMAIN author : author[v] = p) =>
      \E c \in Call : ProposalOf[c] = p /\ call[c].step = "recording update"

(* Until a lock ends under its callback, Confluence turns an update down   *)
(* only because people published, or because the update of a dead call     *)
(* arrived late: calls under way never overtake each other between reading *)
(* the page and writing it.                                                *)
LiveCallsDoNotOvertake ==
  [][\A c \in Call :
       expiries = 0 /\ call[c].step = "updating page" /\ call'[c].step = "rejected" =>
         author[Baseline(c) + 1] \in {People} \cup late]_vars

(* No call waits for the page lock, or anything else, for ever.            *)
CallsEnd == \A c \in Call : call[c].step \in Running ~> call[c].step \in Ended

(* system-plan.md:314: "Delivery is at least once. Review execution and    *)
(* artifact creation must therefore be idempotent": a published change     *)
(* whose call is delivered again ends up with its artifact.                *)
PublishedVersionsAreRecorded ==
  \A p \in Proposal : (\E v \in DOMAIN author : author[v] = p) ~> artifact[p] # 0
=============================================================================
