------------------------ MODULE PullRequestCreation ------------------------
(***************************************************************************)
(* The approved creation of pull requests for the documentation proposals  *)
(* of one repository: createAssignedRepositoryPullRequest with its store   *)
(* and its GitHub client.  A call is a sequence of database transactions   *)
(* and GitHub requests; it may die between any two of them, lose the       *)
(* answer of any of them, be repeated, and overlap with other calls.       *)
(*                                                                         *)
(* Proposals with the same base commit, path and content are the same      *)
(* Change: they share the idempotency key and so the branch.  A branch     *)
(* matters only for the file its change replaces, so a commit is a parent  *)
(* and the content of that file.  GitHub itself is modelled by the         *)
(* requests the client makes of it.                                        *)
(***************************************************************************)
EXTENDS Integers, Sequences

CONSTANTS
  Call,            \* tool calls in flight, each repeating itself when it ended
  Proposal,        \* stored repository proposals
  Change,          \* what they change
  Sha,             \* commits of the default branch
  Missing,         \* no branch, no commit
  ProposalOf,      \* the proposal of each call
  ChangeOf,        \* the change of each proposal
  BaseOf,          \* the base commit of each change
  NoOp,            \* changes whose base already has the proposed content
  ReviewerMay,     \* what people do with the pull requests
  EligibilityMayChange, \* may the repository be paused or become stale?
  MaxCommits,      \* commits made on documentation branches
  MaxFailures      \* calls that die or lose an answer

CommitId == 1..MaxCommits

ASSUME MaxCommitsAssumption == MaxCommits \in Nat
ASSUME MaxFailuresAssumption == MaxFailures \in Nat
ASSUME ShaAssumption == Sha \cap Nat = {}
ASSUME MissingAssumption == Missing \notin Sha \cup CommitId
ASSUME ProposalOfAssumption == ProposalOf \in [Call -> Proposal]
ASSUME ChangeOfAssumption == ChangeOf \in [Proposal -> Change]
ASSUME BaseOfAssumption == BaseOf \in [Change -> Sha]
ASSUME ReviewerAssumption == ReviewerMay \subseteq {"push", "close", "merge", "delete"}
ASSUME EligibilityAssumption == EligibilityMayChange \in BOOLEAN

VARIABLES
  defaultHead,  \* the head of the default branch
  eligible,     \* is the repository reviewed, and its Roadie scope resolved?
  branch,       \* the head of the documentation branch of each change
  commits,      \* the commits made on documentation branches, oldest first
  pulls,        \* the pull requests of each branch, oldest first
  artifact,     \* the recorded artifact of each idempotency key
  call,         \* where each call is, and what it has read
  failures      \* how many calls died

github == <<branch, commits, pulls>>
vars == <<defaultHead, eligible, github, artifact, call, failures>>

Content == {"base", "proposed", "other"}
CommitSha == Sha \cup CommitId
Pull == [open : BOOLEAN, commit : CommitId]
NoArtifact == [proposal |-> Missing, commit |-> Missing, pull |-> 0]
Artifact == [proposal : Proposal, commit : CommitId, pull : Nat \ {0}]

Running == {"finding", "checking base", "creating", "finding branch", "creating branch",
            "finding raced branch", "reading file", "reading parent", "writing file",
            "rechecking base", "listing pulls", "opening pull", "recording"}
Ended == {"idle", "returned", "unavailable", "stale", "branch conflict",
          "record conflict", "rejected", "failed"}

CallState == [step : Running \cup Ended, branchHead : CommitSha \cup {Missing},
              file : Content \cup {Missing}, commit : CommitId \cup {Missing}, pull : Nat]

At(step) == [step |-> step, branchHead |-> Missing, file |-> Missing,
             commit |-> Missing, pull |-> 0]

TypeOK ==
  /\ defaultHead \in Sha
  /\ eligible \in BOOLEAN
  /\ branch \in [Change -> CommitSha \cup {Missing}]
  /\ commits \in Seq([parent : CommitSha, content : Content])
  /\ Len(commits) <= MaxCommits
  /\ pulls \in [Change -> Seq(Pull)]
  /\ artifact \in [Change -> Artifact \cup {NoArtifact}]
  /\ call \in [Call -> CallState]
  /\ failures \in 0..MaxFailures

Init ==
  /\ defaultHead \in Sha
  /\ eligible = TRUE
  /\ branch = [ch \in Change |-> Missing]
  /\ commits = <<>>
  /\ pulls = [ch \in Change |-> <<>>]
  /\ artifact = [ch \in Change |-> NoArtifact]
  /\ call = [c \in Call |-> At("idle")]
  /\ failures = 0

ChangeBy(c) == ChangeOf[ProposalOf[c]]
Recorded(ch) == artifact[ch] # NoArtifact

(* The file of the change, as the tree of a commit has it.                 *)
FileAt(ch, sha) ==
  IF sha \in CommitId THEN commits[sha].content
  ELSE IF ch \in NoOp THEN "proposed" ELSE "base"

ParentOf(sha) == IF sha \in CommitId THEN commits[sha].parent ELSE Missing

OpenPulls(ch) == {n \in DOMAIN pulls[ch] : pulls[ch][n].open}

-----------------------------------------------------------------------------
(* The steps of a call.                                                    *)

Goes(c, from, to) == call[c].step = from /\ call' = [call EXCEPT ![c].step = to]
Ends(c, from, how) == call[c].step = from /\ call' = [call EXCEPT ![c] = At(how)]

(* loadProposal: the lease of the job may be long over, but the repository *)
(* must still be reviewed.                                                 *)
LoadProposal(c) ==
  /\ call[c].step \in Ended
  /\ call' = [call EXCEPT ![c] = At(IF eligible THEN "finding" ELSE "unavailable")]
  /\ UNCHANGED <<defaultHead, eligible, github, artifact, failures>>

FindCreated(c) ==
  /\ IF Recorded(ChangeBy(c)) THEN Ends(c, "finding", "returned")
                              ELSE Goes(c, "finding", "checking base")
  /\ UNCHANGED <<defaultHead, eligible, github, artifact, failures>>

(* The default branch is read before create, first in it, and once more    *)
(* between the commit and the pull request.                                *)
CheckBase(c) ==
  /\ \E s \in {<<"checking base", "creating">>, <<"creating", "finding branch">>,
               <<"rechecking base", "listing pulls">>} :
       IF defaultHead = BaseOf[ChangeBy(c)] THEN Goes(c, s[1], s[2])
                                            ELSE Ends(c, s[1], "stale")
  /\ UNCHANGED <<defaultHead, eligible, github, artifact, failures>>

FindBranch(c) ==
  /\ call[c].step = "finding branch"
  /\ call' = [call EXCEPT ![c].step = IF branch[ChangeBy(c)] = Missing
                                        THEN "creating branch" ELSE "reading file",
                          ![c].branchHead = branch[ChangeBy(c)]]
  /\ UNCHANGED <<defaultHead, eligible, github, artifact, failures>>

(* GitHub refuses to create a reference that exists.                       *)
CreateBranch(c) ==
  LET ch == ChangeBy(c) IN
  /\ call[c].step = "creating branch"
  /\ \/ /\ branch[ch] = Missing
        /\ branch' = [branch EXCEPT ![ch] = BaseOf[ch]]
        /\ call' = [call EXCEPT ![c].step = "reading file", ![c].branchHead = BaseOf[ch]]
     \/ /\ branch[ch] # Missing
        /\ Goes(c, "creating branch", "finding raced branch")
        /\ UNCHANGED branch
  /\ UNCHANGED <<defaultHead, eligible, commits, pulls, artifact, failures>>

FindRacedBranch(c) ==
  /\ call[c].step = "finding raced branch"
  /\ call' = [call EXCEPT ![c] =
       IF branch[ChangeBy(c)] = Missing THEN At("rejected")
       ELSE [@ EXCEPT !.step = "reading file", !.branchHead = branch[ChangeBy(c)]]]
  /\ UNCHANGED <<defaultHead, eligible, github, artifact, failures>>

(* Mutant: a branch that is not at its base is never taken over.           *)
ReadFileAtBase(c) ==
  LET ch == ChangeBy(c) IN
  /\ call[c].step = "reading file"
  /\ call' = [call EXCEPT ![c] =
       IF branch[ch] = Missing THEN At("rejected")
       ELSE IF FileAt(ch, branch[ch]) = "proposed" \/ @.branchHead # BaseOf[ch]
         THEN At("branch conflict")
       ELSE [@ EXCEPT !.step = "writing file", !.file = FileAt(ch, branch[ch])]]
  /\ UNCHANGED <<defaultHead, eligible, github, artifact, failures>>

(* The file is read from the branch by name, the head was read before: the *)
(* branch may have moved or gone in between.                               *)
ReadFile(c) ==
  LET ch == ChangeBy(c)
      content == FileAt(ch, branch[ch])
      atBase == call[c].branchHead = BaseOf[ch]
  IN
  /\ call[c].step = "reading file"
  /\ call' = [call EXCEPT ![c] =
       IF branch[ch] = Missing THEN At("rejected")
       ELSE IF (content = "proposed") = atBase THEN At("branch conflict")
       ELSE [@ EXCEPT !.step = IF atBase THEN "writing file" ELSE "reading parent",
                      !.file = content]]
  /\ UNCHANGED <<defaultHead, eligible, github, artifact, failures>>

(* Mutants: the parent is taken for the commit; it is not compared.        *)
ReadFirstParentAsCommit(c) ==
  /\ call[c].step = "reading parent"
  /\ call' = [call EXCEPT ![c].step = "rechecking base",
                          ![c].commit = ParentOf(call[c].branchHead)]
  /\ UNCHANGED <<defaultHead, eligible, github, artifact, failures>>

ReadAnyParent(c) ==
  /\ call[c].step = "reading parent"
  /\ call' = [call EXCEPT ![c].step = "rechecking base", ![c].commit = call[c].branchHead]
  /\ UNCHANGED <<defaultHead, eligible, github, artifact, failures>>

ReadFirstParent(c) ==
  LET head == call[c].branchHead IN
  /\ call[c].step = "reading parent"
  /\ call' = [call EXCEPT ![c] =
       IF ParentOf(head) = BaseOf[ChangeBy(c)]
         THEN [@ EXCEPT !.step = "rechecking base", !.commit = head]
         ELSE At("branch conflict")]
  /\ UNCHANGED <<defaultHead, eligible, github, artifact, failures>>

(* Mutant: the file is replaced whatever it is by now.                     *)
WriteFileBlindly(c) ==
  LET ch == ChangeBy(c) IN
  /\ call[c].step = "writing file"
  /\ branch[ch] # Missing
  /\ Len(commits) < MaxCommits
  /\ commits' = Append(commits, [parent |-> branch[ch], content |-> "proposed"])
  /\ branch' = [branch EXCEPT ![ch] = Len(commits) + 1]
  /\ call' = [call EXCEPT ![c].step = "rechecking base", ![c].commit = Len(commits) + 1]
  /\ UNCHANGED <<defaultHead, eligible, pulls, artifact, failures>>

(* GitHub refuses an update that names another blob than the branch has.   *)
WriteFile(c) ==
  LET ch == ChangeBy(c) IN
  /\ call[c].step = "writing file"
  /\ \/ /\ branch[ch] # Missing
        /\ FileAt(ch, branch[ch]) = call[c].file
        /\ Len(commits) < MaxCommits
        /\ commits' = Append(commits, [parent |-> branch[ch], content |-> "proposed"])
        /\ branch' = [branch EXCEPT ![ch] = Len(commits) + 1]
        /\ call' = [call EXCEPT ![c].step = "rechecking base",
                                ![c].commit = Len(commits) + 1]
     \/ /\ branch[ch] = Missing \/ FileAt(ch, branch[ch]) # call[c].file
        /\ Ends(c, "writing file", "rejected")
        /\ UNCHANGED <<commits, branch>>
  /\ UNCHANGED <<defaultHead, eligible, pulls, artifact, failures>>

(* Mutants: only open pull requests are listed; none is.                   *)
ListOpenPulls(c) ==
  /\ call[c].step = "listing pulls"
  /\ call' = [call EXCEPT
       ![c].step = IF OpenPulls(ChangeBy(c)) = {} THEN "opening pull" ELSE "recording",
       ![c].pull = Len(pulls[ChangeBy(c)])]
  /\ UNCHANGED <<defaultHead, eligible, github, artifact, failures>>

ListNoPulls(c) ==
  /\ Goes(c, "listing pulls", "opening pull")
  /\ UNCHANGED <<defaultHead, eligible, github, artifact, failures>>

(* Pull requests of the branch count whether open or closed.  GitHub lists *)
(* the newest first.                                                       *)
ListPulls(c) ==
  /\ call[c].step = "listing pulls"
  /\ call' = [call EXCEPT ![c].step = IF pulls[ChangeBy(c)] = <<>>
                                        THEN "opening pull" ELSE "recording",
                          ![c].pull = Len(pulls[ChangeBy(c)])]
  /\ UNCHANGED <<defaultHead, eligible, github, artifact, failures>>

(* GitHub refuses a second open pull request for a branch, and one for a   *)
(* branch that is gone or has nothing to merge.                            *)
OpenPull(c) ==
  LET ch == ChangeBy(c) IN
  /\ call[c].step = "opening pull"
  /\ \/ /\ OpenPulls(ch) = {} /\ branch[ch] \in CommitId
        /\ pulls' = [pulls EXCEPT ![ch] = Append(@, [open |-> TRUE, commit |-> branch[ch]])]
        /\ call' = [call EXCEPT ![c].step = "recording", ![c].pull = Len(pulls[ch]) + 1]
     \/ /\ OpenPulls(ch) # {} \/ branch[ch] \notin CommitId
        /\ Ends(c, "opening pull", "rejected")
        /\ UNCHANGED pulls
  /\ UNCHANGED <<defaultHead, eligible, branch, commits, artifact, failures>>

(* Mutant: a second record is a conflict, whatever it says.                *)
RecordCreatedOnce(c) ==
  LET ch == ChangeBy(c)
      record == [proposal |-> ProposalOf[c], commit |-> call[c].commit, pull |-> call[c].pull]
  IN
  /\ Ends(c, "recording", IF Recorded(ch) THEN "record conflict" ELSE "returned")
  /\ artifact' = IF Recorded(ch) THEN artifact ELSE [artifact EXCEPT ![ch] = record]
  /\ UNCHANGED <<defaultHead, eligible, github, failures>>

(* The unique idempotency key admits one record.  A later one returns the  *)
(* first when it is an exact replay.                                       *)
RecordCreated(c) ==
  LET ch == ChangeBy(c)
      record == [proposal |-> ProposalOf[c], commit |-> call[c].commit, pull |-> call[c].pull]
      stored == IF Recorded(ch) THEN artifact[ch] ELSE record
  IN
  /\ artifact' = [artifact EXCEPT ![ch] = stored]
  /\ Ends(c, "recording", IF stored = record THEN "returned" ELSE "record conflict")
  /\ UNCHANGED <<defaultHead, eligible, github, failures>>

(* The process dies, a request fails, or its answer is lost: what earlier  *)
(* steps wrote stays, what the call knew is gone.  A dead call whose last  *)
(* request is still on its way to GitHub is one that has yet to take that  *)
(* step before it fails, next to the call that repeats it: two members of  *)
(* Call with one proposal.                                                 *)
Fail(c) ==
  /\ call[c].step \in Running
  /\ failures < MaxFailures
  /\ failures' = failures + 1
  /\ call' = [call EXCEPT ![c] = At("failed")]
  /\ UNCHANGED <<defaultHead, eligible, github, artifact>>

CallStep(c) ==
  \/ LoadProposal(c) \/ FindCreated(c) \/ CheckBase(c)
  \/ FindBranch(c) \/ CreateBranch(c) \/ FindRacedBranch(c)
  \/ ReadFile(c) \/ ReadFirstParent(c) \/ WriteFile(c)
  \/ ListPulls(c) \/ OpenPull(c) \/ RecordCreated(c)

-----------------------------------------------------------------------------
(* People and other software: pushes to the default branch, the registry,  *)
(* and reviewers, who learn of a documentation branch from its pull        *)
(* request.                                                                *)

DefaultBranchMoves ==
  /\ \E sha \in Sha \ {defaultHead} : defaultHead' = sha
  /\ UNCHANGED <<eligible, github, artifact, call, failures>>

EligibilityChanges ==
  /\ EligibilityMayChange
  /\ eligible' = ~eligible
  /\ UNCHANGED <<defaultHead, github, artifact, call, failures>>

Closed(pullsOfBranch) == [n \in DOMAIN pullsOfBranch |-> [pullsOfBranch[n] EXCEPT !.open = FALSE]]

Push(ch) ==
  /\ "push" \in ReviewerMay
  /\ OpenPulls(ch) # {}
  /\ Len(commits) < MaxCommits
  /\ \E content \in Content :
       commits' = Append(commits, [parent |-> branch[ch], content |-> content])
  /\ branch' = [branch EXCEPT ![ch] = Len(commits) + 1]
  /\ UNCHANGED <<defaultHead, eligible, pulls, artifact, call, failures>>

Close(ch) ==
  /\ "close" \in ReviewerMay
  /\ OpenPulls(ch) # {}
  /\ pulls' = [pulls EXCEPT ![ch] = Closed(@)]
  /\ UNCHANGED <<defaultHead, eligible, branch, commits, artifact, call, failures>>

Merge(ch) ==
  /\ "merge" \in ReviewerMay
  /\ OpenPulls(ch) # {}
  /\ pulls' = [pulls EXCEPT ![ch] = Closed(@)]
  /\ \E sha \in Sha \ {defaultHead} : defaultHead' = sha
  /\ UNCHANGED <<eligible, branch, commits, artifact, call, failures>>

(* Deleting the branch closes its pull request.                            *)
DeleteBranch(ch) ==
  /\ "delete" \in ReviewerMay
  /\ pulls[ch] # <<>> /\ branch[ch] # Missing
  /\ branch' = [branch EXCEPT ![ch] = Missing]
  /\ pulls' = [pulls EXCEPT ![ch] = Closed(@)]
  /\ UNCHANGED <<defaultHead, eligible, commits, artifact, call, failures>>

Next ==
  \/ \E c \in Call : CallStep(c) \/ Fail(c)
  \/ DefaultBranchMoves \/ EligibilityChanges
  \/ \E ch \in Change : Push(ch) \/ Close(ch) \/ Merge(ch) \/ DeleteBranch(ch)

Spec == Init /\ [][Next]_vars

(* A call that has begun goes on unless it dies, and an approved call that *)
(* ended is delivered again.                                               *)
FairSpec == Spec /\ \A c \in Call : WF_vars(CallStep(c))

-----------------------------------------------------------------------------
(* Properties.                                                             *)

(* However a call dies, is repeated or overlaps with others, its change    *)
(* gets one pull request, and the audit trail names it once, after it      *)
(* exists: the list-then-open of ensurePullRequest and the record written  *)
(* last are a creation that is done exactly once.                          *)
Contract == INSTANCE ArtifactContract WITH
  Artifact <- 1..2,
  made <- [ch \in Change |-> DOMAIN pulls[ch]],
  recorded <- [ch \in Change |-> {artifact[ch].pull} \ {0}]

CreationFulfilsContract == Contract!Spec

(* A recorded artifact tells the truth: its commit, and the one its pull   *)
(* request was opened with, hold the approved content and nothing came     *)
(* between them and the base the proposal was reviewed at, also when the   *)
(* record was written by a later call than the one that made the commit.   *)
RecordedArtifactIsTheChange ==
  \A ch \in Change : Recorded(ch) =>
    /\ ChangeOf[artifact[ch].proposal] = ch
    /\ \A n \in {artifact[ch].commit, pulls[ch][artifact[ch].pull].commit} :
         commits[n] = [parent |-> BaseOf[ch], content |-> "proposed"]

(* A branch carries one commit of the writer at most: two calls that both  *)
(* found the branch at its base cannot both replace the file.              *)
OneCommitPerBranch ==
  \A ch \in Change : branch[ch] \in CommitId => commits[branch[ch]].parent = BaseOf[ch]

(* A repeated call whose predecessors have no request on its way any more  *)
(* is never refused because of what they left behind: a branch conflict    *)
(* means that the change is empty, or that somebody else committed to the  *)
(* branch or deleted it.                                                   *)
ConflictsAreForeign ==
  [][\A c \in Call :
       call[c].step # "branch conflict" /\ call'[c].step = "branch conflict" =>
         LET ch == ChangeBy(c) IN
         \/ ch \in NoOp
         \/ branch[ch] = Missing
         \/ branch[ch] \in CommitId /\ commits[branch[ch]].parent # BaseOf[ch]]_vars

(* The idempotency key is shared by proposals of the same content: a call  *)
(* whose own proposal is recorded is never told that its record conflicts. *)
OwnRecordNeverConflicts ==
  [][\A c \in Call :
       call[c].step = "recording" /\ call'[c].step = "record conflict" =>
         artifact[ChangeBy(c)].proposal # ProposalOf[c]]_vars

(* As long as calls are delivered again, no failure between two steps, and *)
(* no race with another call, leaves a state in which the change cannot be *)
(* finished and recorded while its base stays current.                     *)
ApprovedChangesAreRecorded ==
  \A c \in Call :
    <>[](eligible /\ defaultHead = BaseOf[ChangeBy(c)])
      => ChangeBy(c) \in NoOp \/ <>Recorded(ChangeBy(c))
=============================================================================
