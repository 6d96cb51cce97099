--------------------- MODULE PullRequestCreationProofs ---------------------
(***************************************************************************)
(* Proofs about PullRequestCreation, for any calls, proposals, changes and *)
(* bounds.  The guards of the code meet overlapping calls and people who   *)
(* use the pull requests, but not all of both at once: what a theorem      *)
(* needs to be true of them is one of the operators below.                 *)
(***************************************************************************)
EXTENDS PullRequestCreation, SequenceTheorems, TLAPS

(* No two calls are about the same change: one is repeated only when the   *)
(* requests of its predecessor have been carried out or are lost.          *)
Alone == \A c, d \in Call : ChangeBy(c) = ChangeBy(d) => c = d

(* Nobody else commits to a documentation branch.                          *)
Unpushed == "push" \notin ReviewerMay

(* Nobody closes a pull request, with or without merging or deleting.      *)
Unclosed == ReviewerMay \subseteq {"push"}

(* Nobody commits to a documentation branch or deletes it.                 *)
Untouched == ReviewerMay \cap {"push", "delete"} = {}

-----------------------------------------------------------------------------
(* The invariant.                                                          *)

Known(n) == n \in 1..Len(commits)

(* The approved content, straight on the reviewed base.                    *)
Right(ch, n) == Known(n) /\ commits[n].parent = BaseOf[ch] /\ commits[n].content = "proposed"

(* Only the writer commits to the default branch's commits.                *)
CommitsOnBase == \A n \in 1..Len(commits) : commits[n].parent \in Sha => commits[n].content = "proposed"

(* A branch is at its base or at a known commit, and before its first pull *)
(* request, or when nobody else commits, that is the one approved commit.  *)
BranchIsRight(ch) ==
  /\ branch[ch] \in Sha => branch[ch] = BaseOf[ch]
  /\ branch[ch] \in CommitId => Known(branch[ch])
  /\ OpenPulls(ch) # {} => branch[ch] \in CommitId
  /\ branch[ch] \in CommitId /\ (pulls[ch] = <<>> \/ Unpushed) => Right(ch, branch[ch])

PullsAreRight(ch) ==
  /\ \A n \in DOMAIN pulls[ch] :
       /\ Known(pulls[ch][n].commit)
       /\ Alone \/ Unpushed => Right(ch, pulls[ch][n].commit)
       /\ Unclosed => pulls[ch][n].open
  /\ Alone \/ Unclosed => Len(pulls[ch]) <= 1

RecordIsRight(ch) ==
  Recorded(ch) =>
    /\ ChangeOf[artifact[ch].proposal] = ch
    /\ artifact[ch].pull \in DOMAIN pulls[ch]
    /\ Known(artifact[ch].commit)
    /\ Alone \/ Unpushed => Right(ch, artifact[ch].commit)
    /\ Untouched => artifact[ch].commit = branch[ch]

(* A call that looks at a branch saw its base, or a commit; it replaces    *)
(* only a file that is not the proposed one yet.                           *)
Looks(c) ==
  LET s == call[c]
      ch == ChangeBy(c)
  IN
  /\ s.step \in {"reading file", "writing file"} => s.branchHead = BaseOf[ch] \/ Known(s.branchHead)
  /\ s.step = "reading parent" => Known(s.branchHead)
  /\ s.step = "writing file" => s.branchHead = BaseOf[ch] /\ s.file \in Content \ {"proposed"}
  /\ s.step \in {"reading file", "reading parent"} /\ s.branchHead \in CommitId /\ Untouched =>
       branch[ch] = s.branchHead

(* A call that goes on with a commit has one that deserves it, and then a  *)
(* pull request.                                                           *)
Committed(s) == s.step \in {"rechecking base", "listing pulls", "opening pull", "recording"}

Carries(c) ==
  LET s == call[c]
      ch == ChangeBy(c)
  IN
  /\ Committed(s) =>
       /\ Known(s.commit)
       /\ Alone \/ Unpushed => Right(ch, s.commit)
       /\ Untouched => s.commit = branch[ch]
  /\ s.step = "recording" => s.pull \in DOMAIN pulls[ch]

(* The branch is as the call saw it, or others have moved it.              *)
SeesItsOwn(c) ==
  LET s == call[c]
      ch == ChangeBy(c)
  IN
  /\ s.step \in {"reading file", "writing file"} /\ s.branchHead = BaseOf[ch] =>
       branch[ch] \in {BaseOf[ch], Missing}
  /\ s.step \in {"reading file", "reading parent"} /\ s.branchHead \in CommitId =>
       \/ branch[ch] \in {s.branchHead, Missing}
       \/ branch[ch] \in CommitId /\ commits[branch[ch]].parent # BaseOf[ch]
  /\ s.step = "opening pull" => pulls[ch] = <<>>
  /\ s.step \in Running \ {"finding"} => ~Recorded(ch)

CallIsRight(c) == Looks(c) /\ Carries(c) /\ (Alone => SeesItsOwn(c))

Inv ==
  /\ TypeOK
  /\ CommitsOnBase
  /\ \A ch \in Change : BranchIsRight(ch) /\ PullsAreRight(ch) /\ RecordIsRight(ch)
  /\ \A c \in Call : CallIsRight(c)

USE MaxCommitsAssumption, MaxFailuresAssumption, ShaAssumption, MissingAssumption,
    ProposalOfAssumption, ChangeOfAssumption, BaseOfAssumption, ReviewerAssumption,
    EligibilityAssumption

LEMMA ShaOrCommit ==
  /\ \A x \in CommitId : x \notin Sha /\ x # Missing /\ x \in Nat \ {0}
  /\ \A x \in Sha : x \notin CommitId /\ x # Missing
  /\ \A ch \in Change : BaseOf[ch] \in Sha /\ BaseOf[ch] \notin CommitId /\ BaseOf[ch] # Missing
  /\ \A c \in Call : ChangeBy(c) \in Change
BY DEF CommitId, ChangeBy

LEMMA KnownCommits ==
  ASSUME TypeOK
  PROVE  /\ Len(commits) \in Nat /\ DOMAIN commits = 1..Len(commits)
         /\ \A n : Known(n) => /\ n \in CommitId
                               /\ commits[n].parent \in CommitSha /\ commits[n].content \in Content
<1>1. commits \in Seq([parent : CommitSha, content : Content]) /\ Len(commits) <= MaxCommits
  BY DEF TypeOK
<1>2. Len(commits) \in Nat /\ DOMAIN commits = 1..Len(commits)
  BY <1>1, LenProperties
<1>3. \A n \in 1..Len(commits) : commits[n] \in [parent : CommitSha, content : Content]
  BY <1>1, ElementOfSeq
<1>4. \A n \in 1..Len(commits) : n \in CommitId
  BY <1>1, <1>2 DEF CommitId
<1> QED BY <1>2, <1>3, <1>4 DEF Known

(* The next commit.                                                        *)
NextCommit(new) == new = Len(commits) + 1

(* A commit is added; the others stay what they are.                       *)
LEMMA CommitAdded ==
  ASSUME TypeOK, NEW p \in CommitSha, NEW k \in Content, Len(commits) < MaxCommits,
         commits' = Append(commits, [parent |-> p, content |-> k]),
         NEW new, NextCommit(new)
  PROVE  /\ commits' \in Seq([parent : CommitSha, content : Content]) /\ Len(commits') <= MaxCommits
         /\ new \in CommitId /\ new \notin 1..Len(commits) /\ 1..Len(commits') = 1..new
         /\ commits'[new].parent = p /\ commits'[new].content = k
         /\ \A n \in 1..Len(commits) : n \in 1..Len(commits') /\ commits'[n] = commits[n]
         /\ \A n \in 1..Len(commits') : n \in 1..Len(commits) \/ n = new
<1> DEFINE Commit == [parent : CommitSha, content : Content]
           e == [parent |-> p, content |-> k]
<1>1. commits \in Seq(Commit) /\ Len(commits) <= MaxCommits /\ Len(commits) \in Nat
  BY KnownCommits DEF TypeOK
<1>2. e \in Commit /\ e.parent = p /\ e.content = k
  OBVIOUS
<1>3. commits' = Append(commits, e)
  OBVIOUS
<1> HIDE DEF Commit, e
<1>4. /\ commits' \in Seq(Commit) /\ Len(commits') = Len(commits) + 1
      /\ \A n \in 1..Len(commits) : commits'[n] = commits[n]
      /\ commits'[Len(commits) + 1] = e
  BY <1>1, <1>2, <1>3, AppendProperties
<1>5. Len(commits') <= MaxCommits /\ new \in CommitId
  BY <1>1, <1>4 DEF CommitId, NextCommit
<1>6. \A n \in 1..Len(commits') : n \in 1..Len(commits) \/ n = new
  BY <1>1, <1>4 DEF NextCommit
<1> QED BY <1>1, <1>2, <1>4, <1>5, <1>6 DEF Commit, NextCommit

LEMMA PullsTyped ==
  ASSUME TypeOK, NEW ch \in Change
  PROVE  /\ pulls[ch] \in Seq(Pull) /\ Len(pulls[ch]) \in Nat
         /\ DOMAIN pulls[ch] = 1..Len(pulls[ch])
         /\ \A n \in DOMAIN pulls[ch] : pulls[ch][n] \in Pull
         /\ pulls[ch] = <<>> <=> Len(pulls[ch]) = 0
         /\ pulls[ch] = <<>> => OpenPulls(ch) = {}
<1> DEFINE s == pulls[ch]
<1>1. s \in Seq(Pull)
  BY DEF TypeOK
<1> HIDE DEF s
<1>2. /\ Len(s) \in Nat /\ DOMAIN s = 1..Len(s) /\ \A n \in DOMAIN s : s[n] \in Pull
      /\ s = <<>> <=> Len(s) = 0
  BY <1>1, LenProperties, ElementOfSeq, EmptySeq
<1>3. s = <<>> => {n \in DOMAIN s : s[n].open} = {}
  BY <1>2
<1> QED BY <1>1, <1>2, <1>3 DEF s, OpenPulls

LEMMA InitInv ==
  ASSUME Init
  PROVE  Inv
<1>1. /\ Len(commits) = 0 /\ commits \in Seq([parent : CommitSha, content : Content])
      /\ 1..Len(commits) = {}
  BY EmptySeq DEF Init
<1>2. \A ch \in Change : pulls[ch] = <<>> /\ DOMAIN pulls[ch] = {} /\ Len(pulls[ch]) = 0
                         /\ OpenPulls(ch) = {} /\ branch[ch] = Missing /\ ~Recorded(ch)
  BY DEF Init, OpenPulls, Recorded
<1>3. \A c \in Call : call[c] = At("idle") /\ call[c].step = "idle"
  BY DEF Init, At
<1>4. At("idle") \in CallState
  BY DEF At, CallState, Ended
<1>5. TypeOK
  <2>1. pulls \in [Change -> Seq(Pull)]
    BY EmptySeq DEF Init
  <2>2. branch \in [Change -> CommitSha \cup {Missing}]
    BY DEF Init
  <2>3. artifact \in [Change -> Artifact \cup {NoArtifact}]
    BY DEF Init
  <2>4. call \in [Call -> CallState]
    BY <1>4 DEF Init
  <2> QED BY <1>1, <2>1, <2>2, <2>3, <2>4 DEF Init, TypeOK
<1>6. CommitsOnBase
  BY <1>1 DEF CommitsOnBase
<1>7. \A ch \in Change : BranchIsRight(ch) /\ PullsAreRight(ch) /\ RecordIsRight(ch)
  BY <1>2, ShaOrCommit DEF BranchIsRight, PullsAreRight, RecordIsRight
<1>8. \A c \in Call : CallIsRight(c)
  BY <1>3 DEF CallIsRight, Looks, Carries, SeesItsOwn, Committed, Running
<1> QED BY <1>5, <1>6, <1>7, <1>8 DEF Inv

-----------------------------------------------------------------------------
(* Steps that change nothing but a call.                                   *)

LEMMA CallMoves ==
  ASSUME Inv, NEW c \in Call, NEW x \in CallState, call' = [call EXCEPT ![c] = x],
         UNCHANGED <<branch, commits, pulls, artifact>>,
         defaultHead' \in Sha, eligible' \in BOOLEAN, failures' \in 0..MaxFailures,
         CallIsRight(c)'
  PROVE  Inv'
<1>1. call' \in [Call -> CallState] /\ \A d \in Call \ {c} : call'[d] = call[d]
  BY DEF Inv, TypeOK
<1>2. TypeOK'
  BY <1>1 DEF Inv, TypeOK
<1>3. CommitsOnBase'
  BY DEF Inv, CommitsOnBase
<1>4. \A ch \in Change : (BranchIsRight(ch) /\ PullsAreRight(ch) /\ RecordIsRight(ch))'
  BY DEF Inv, BranchIsRight, PullsAreRight, RecordIsRight, OpenPulls, Right, Known, Recorded
<1>5. ASSUME NEW d \in Call \ {c}
      PROVE  CallIsRight(d)'
  <2>1. CallIsRight(d)
    BY DEF Inv
  <2> QED BY <1>1, <2>1
          DEF CallIsRight, Looks, Carries, SeesItsOwn, Committed, Right, Known, Recorded
<1> QED BY <1>2, <1>3, <1>4, <1>5 DEF Inv

LEMMA CallBegins ==
  ASSUME Inv, NEW c \in Call, NEW how \in Ended \cup {"finding"},
         call' = [call EXCEPT ![c] = At(how)],
         UNCHANGED <<branch, commits, pulls, artifact>>,
         defaultHead' \in Sha, eligible' \in BOOLEAN, failures' \in 0..MaxFailures
  PROVE  Inv'
<1>1. At(how) \in CallState /\ At(how).step = how
  BY DEF At, CallState, Running
<1>2. call'[c].step = how
  BY <1>1 DEF Inv, TypeOK
<1>3. how \notin Running \ {"finding"}
  BY DEF Ended, Running
<1>4. CallIsRight(c)'
  <2>1. how \notin {"reading file", "writing file", "reading parent", "rechecking base",
                    "listing pulls", "opening pull", "recording"}
    BY <1>3 DEF Running
  <2> QED BY <1>2, <1>3, <2>1 DEF CallIsRight, Looks, Carries, SeesItsOwn, Committed
<1> QED BY <1>1, <1>4, CallMoves

LEMMA Typed ==
  ASSUME Inv
  PROVE  /\ TypeOK /\ defaultHead \in Sha /\ eligible \in BOOLEAN /\ failures \in 0..MaxFailures
         /\ \A c \in Call : call[c] \in CallState
         /\ \A ch \in Change : branch[ch] \in CommitSha \cup {Missing}
BY DEF Inv, TypeOK

LEMMA LoadProposalKeeps ==
  ASSUME Inv, NEW c \in Call, LoadProposal(c)
  PROVE  Inv'
<1>1. PICK how \in Ended \cup {"finding"} : call' = [call EXCEPT ![c] = At(how)]
  BY DEF LoadProposal, Ended
<1> QED BY <1>1, CallBegins, Typed DEF LoadProposal, github

LEMMA FailKeeps ==
  ASSUME Inv, NEW c \in Call, Fail(c)
  PROVE  Inv'
<1>1. "failed" \in Ended \cup {"finding"} /\ call' = [call EXCEPT ![c] = At("failed")]
  BY DEF Fail, Ended
<1>2. failures' \in 0..MaxFailures
  BY Typed DEF Fail
<1> QED BY <1>1, <1>2, CallBegins, Typed DEF Fail, github

LEMMA FindCreatedKeeps ==
  ASSUME Inv, NEW c \in Call, FindCreated(c)
  PROVE  Inv'
<1>1. UNCHANGED <<branch, commits, pulls, artifact, defaultHead, eligible, failures>>
  BY DEF FindCreated, github
<1>2. CASE Recorded(ChangeBy(c))
  <2>1. "returned" \in Ended \cup {"finding"} /\ call' = [call EXCEPT ![c] = At("returned")]
    BY <1>2 DEF FindCreated, Ends, Ended
  <2> QED BY <1>1, <2>1, CallBegins, Typed
<1>3. CASE ~Recorded(ChangeBy(c))
  <2> DEFINE x == [call[c] EXCEPT !.step = "checking base"]
  <2>1. call' = [call EXCEPT ![c] = x]
    BY <1>3, Typed DEF FindCreated, Goes
  <2>2. x \in CallState /\ x.step = "checking base"
    BY Typed DEF CallState, Running
  <2> HIDE DEF x
  <2>3. call'[c] = x
    BY <2>1, <2>2 DEF Inv, TypeOK
  <2>4. CallIsRight(c)'
    BY <1>1, <1>3, <2>2, <2>3 DEF CallIsRight, Looks, Carries, SeesItsOwn, Committed, Recorded
  <2> QED BY <1>1, <2>1, <2>2, <2>4, CallMoves, Typed
<1> QED BY <1>2, <1>3

LEMMA CheckBaseKeeps ==
  ASSUME Inv, NEW c \in Call, CheckBase(c)
  PROVE  Inv'
<1>1. UNCHANGED <<branch, commits, pulls, artifact, defaultHead, eligible, failures>>
  BY DEF CheckBase, github
<1>2. PICK s \in {<<"checking base", "creating">>, <<"creating", "finding branch">>,
                  <<"rechecking base", "listing pulls">>} :
        IF defaultHead = BaseOf[ChangeBy(c)] THEN Goes(c, s[1], s[2]) ELSE Ends(c, s[1], "stale")
  BY DEF CheckBase
<1>3. CASE defaultHead # BaseOf[ChangeBy(c)]
  <2>1. "stale" \in Ended \cup {"finding"} /\ call' = [call EXCEPT ![c] = At("stale")]
    BY <1>2, <1>3 DEF Ends, Ended
  <2> QED BY <1>1, <2>1, CallBegins, Typed
<1>4. CASE defaultHead = BaseOf[ChangeBy(c)]
  <2> DEFINE step == s[2]
             x == [call[c] EXCEPT !.step = step]
  <2>1. /\ call' = [call EXCEPT ![c] = x]
        /\ \/ step \in {"creating", "finding branch"}
              /\ call[c].step \in {"checking base", "creating"}
           \/ step = "listing pulls" /\ call[c].step = "rechecking base"
    <3>1. call[c].step = s[1] /\ call' = [call EXCEPT ![c].step = s[2]]
      BY <1>2, <1>4 DEF Goes
    <3>2. call' = [call EXCEPT ![c] = x]
      BY <3>1, Typed
    <3>3. \/ s[2] \in {"creating", "finding branch"} /\ s[1] \in {"checking base", "creating"}
          \/ s[2] = "listing pulls" /\ s[1] = "rechecking base"
      <4>1. CASE s = <<"checking base", "creating">>
        BY ONLY <4>1
      <4>2. CASE s = <<"creating", "finding branch">>
        BY ONLY <4>2
      <4>3. CASE s = <<"rechecking base", "listing pulls">>
        BY ONLY <4>3
      <4> QED BY <4>1, <4>2, <4>3
    <3> QED BY <3>1, <3>2, <3>3
  <2>2. step \in Running /\ call[c].step \in Running \ {"finding"}
    BY <2>1 DEF Running
  <2> HIDE DEF step
  <2>3. x \in CallState /\ x.step = step /\ x.commit = call[c].commit
    BY <2>2, Typed DEF CallState
  <2> HIDE DEF x
  <2>4. call'[c] = x
    BY <2>1, <2>3 DEF Inv, TypeOK
  <2>5. CallIsRight(c)
    BY DEF Inv
  <2>6. Looks(c)'
    BY <2>1, <2>3, <2>4 DEF Looks
  <2>7. Carries(c)'
    BY <1>1, <2>1, <2>3, <2>4, <2>5 DEF CallIsRight, Carries, Committed, Right, Known
  <2>8. Alone => SeesItsOwn(c)'
    BY <1>1, <2>1, <2>2, <2>3, <2>4, <2>5 DEF CallIsRight, SeesItsOwn, Recorded
  <2> QED BY <1>1, <2>1, <2>3, <2>6, <2>7, <2>8, CallMoves, Typed DEF CallIsRight
<1> QED BY <1>3, <1>4

(* A call that has seen where the branch is now.                           *)
LEMMA SeesBranch ==
  ASSUME Inv, NEW c \in Call, NEW ch \in Change, ch = ChangeBy(c),
         call[c].step \in Running \ {"finding"},
         call' = [call EXCEPT ![c] = [call[c] EXCEPT !.step = "reading file",
                                                     !.branchHead = branch[ch]]],
         branch[ch] # Missing,
         UNCHANGED <<branch, commits, pulls, artifact, defaultHead, eligible, failures>>
  PROVE  Inv'
<1> DEFINE x == [call[c] EXCEPT !.step = "reading file", !.branchHead = branch[ch]]
<1>1. x \in CallState /\ x.step = "reading file" /\ x.branchHead = branch[ch]
  BY Typed DEF CallState, Running
<1> HIDE DEF x
<1>2. call' = [call EXCEPT ![c] = x]
  BY DEF x
<1>3. call'[c] = x
  BY <1>1, <1>2 DEF Inv, TypeOK
<1>4. branch[ch] \in Sha \/ branch[ch] \in CommitId
  BY Typed DEF CommitSha
<1>5. BranchIsRight(ch) /\ CallIsRight(c)
  BY DEF Inv
<1>6. Looks(c)'
  BY <1>1, <1>3, <1>4, <1>5 DEF Looks, BranchIsRight, Known
<1>7. Carries(c)'
  BY <1>1, <1>3 DEF Carries, Committed
<1>8. Alone => SeesItsOwn(c)'
  BY <1>1, <1>3, <1>5 DEF SeesItsOwn, CallIsRight, Recorded
<1> QED BY <1>1, <1>2, <1>6, <1>7, <1>8, CallMoves, Typed DEF CallIsRight

(* A call that goes on to a step of which nothing is required but that no  *)
(* record exists.                                                          *)
LEMMA GoesOn ==
  ASSUME Inv, NEW c \in Call, NEW x \in CallState, call' = [call EXCEPT ![c] = x],
         call[c].step \in Running \ {"finding"},
         x.step \in {"creating branch", "finding raced branch"},
         UNCHANGED <<branch, commits, pulls, artifact, defaultHead, eligible, failures>>
  PROVE  Inv'
<1>1. call'[c] = x
  BY DEF Inv, TypeOK
<1>2. CallIsRight(c)
  BY DEF Inv
<1>3. CallIsRight(c)'
  BY <1>1, <1>2 DEF CallIsRight, Looks, Carries, SeesItsOwn, Committed, Recorded
<1> QED BY <1>3, CallMoves, Typed

LEMMA FindBranchKeeps ==
  ASSUME Inv, NEW c \in Call, FindBranch(c)
  PROVE  Inv'
<1>1. UNCHANGED <<branch, commits, pulls, artifact, defaultHead, eligible, failures>>
  BY DEF FindBranch, github
<1>2. PICK ch \in Change : ch = ChangeBy(c)
  BY ShaOrCommit
<1>3. call[c].step \in Running \ {"finding"}
  BY DEF FindBranch, Running
<1>4. CASE branch[ch] = Missing
  <2> DEFINE x == [call[c] EXCEPT !.step = "creating branch", !.branchHead = branch[ch]]
  <2>1. call' = [call EXCEPT ![c] = x]
    BY <1>2, <1>4, Typed DEF FindBranch
  <2>2. x \in CallState /\ x.step = "creating branch"
    BY Typed DEF CallState, Running
  <2> HIDE DEF x
  <2> QED BY <1>1, <1>3, <2>1, <2>2, GoesOn
<1>5. CASE branch[ch] # Missing
  <2>1. call' = [call EXCEPT ![c] = [call[c] EXCEPT !.step = "reading file",
                                                    !.branchHead = branch[ch]]]
    BY <1>2, <1>5, Typed DEF FindBranch
  <2> QED BY <1>1, <1>2, <1>3, <1>5, <2>1, SeesBranch
<1> QED BY <1>4, <1>5

LEMMA FindRacedBranchKeeps ==
  ASSUME Inv, NEW c \in Call, FindRacedBranch(c)
  PROVE  Inv'
<1>1. UNCHANGED <<branch, commits, pulls, artifact, defaultHead, eligible, failures>>
  BY DEF FindRacedBranch, github
<1>2. PICK ch \in Change : ch = ChangeBy(c)
  BY ShaOrCommit
<1>3. call[c].step \in Running \ {"finding"}
  BY DEF FindRacedBranch, Running
<1>4. CASE branch[ch] = Missing
  <2>1. "rejected" \in Ended \cup {"finding"} /\ call' = [call EXCEPT ![c] = At("rejected")]
    BY <1>2, <1>4 DEF FindRacedBranch, Ended
  <2> QED BY <1>1, <2>1, CallBegins, Typed
<1>5. CASE branch[ch] # Missing
  <2>1. call' = [call EXCEPT ![c] = [call[c] EXCEPT !.step = "reading file",
                                                    !.branchHead = branch[ch]]]
    BY <1>2, <1>5 DEF FindRacedBranch
  <2> QED BY <1>1, <1>2, <1>3, <1>5, <2>1, SeesBranch
<1> QED BY <1>4, <1>5

LEMMA ReadFileKeeps ==
  ASSUME Inv, NEW c \in Call, ReadFile(c)
  PROVE  Inv'
<1>1. UNCHANGED <<branch, commits, pulls, artifact, defaultHead, eligible, failures>>
  BY DEF ReadFile, github
<1>2. PICK ch \in Change : ch = ChangeBy(c)
  BY ShaOrCommit
<1> DEFINE content == FileAt(ch, branch[ch])
           atBase == call[c].branchHead = BaseOf[ch]
<1>3. ASSUME NEW how \in Ended, call' = [call EXCEPT ![c] = At(how)]
      PROVE  Inv'
  BY <1>1, <1>3, CallBegins, Typed
<1>4. CASE branch[ch] = Missing \/ (content = "proposed") = atBase
  <2>1. PICK how \in Ended : call' = [call EXCEPT ![c] = At(how)]
    <3>1. "rejected" \in Ended /\ "branch conflict" \in Ended
      BY DEF Ended
    <3> QED BY <1>2, <1>4, <3>1 DEF ReadFile
  <2> QED BY <1>3, <2>1
<1>5. CASE branch[ch] # Missing /\ (content = "proposed") # atBase
  <2> DEFINE step == IF atBase THEN "writing file" ELSE "reading parent"
             x == [call[c] EXCEPT !.step = step, !.file = content]
  <2>1. call' = [call EXCEPT ![c] = x]
    BY <1>2, <1>5 DEF ReadFile
  <2>2. content \in Content
    <3>1. BranchIsRight(ch) /\ TypeOK
      BY DEF Inv
    <3>2. branch[ch] \in CommitId => commits[branch[ch]].content \in Content
      BY <3>1, KnownCommits DEF BranchIsRight
    <3> QED BY <3>2 DEF FileAt, Content
  <2>3. atBase => content # "proposed"
    BY <1>5
  <2> HIDE DEF content
  <2>4. x \in CallState /\ x.step = step /\ x.branchHead = call[c].branchHead /\ x.file = content
    BY <2>2, Typed DEF CallState, Running
  <2> HIDE DEF x
  <2>5. call'[c] = x
    BY <2>1, <2>4 DEF Inv, TypeOK
  <2>6. CallIsRight(c) /\ call[c].step = "reading file"
    BY DEF Inv, ReadFile
  <2>7. Looks(c)'
    BY <1>1, <1>2, <2>2, <2>3, <2>4, <2>5, <2>6 DEF CallIsRight, Looks, Known
  <2>8. Carries(c)'
    BY <2>4, <2>5 DEF Carries, Committed
  <2>9. Alone => SeesItsOwn(c)'
    <3>1. "reading file" \in Running \ {"finding"}
      BY DEF Running
    <3> QED BY <1>1, <1>2, <2>4, <2>5, <2>6, <3>1 DEF CallIsRight, SeesItsOwn, Recorded
  <2> QED BY <1>1, <2>1, <2>4, <2>7, <2>8, <2>9, CallMoves, Typed DEF CallIsRight
<1> QED BY <1>4, <1>5

LEMMA ReadFirstParentKeeps ==
  ASSUME Inv, NEW c \in Call, ReadFirstParent(c)
  PROVE  Inv'
<1>1. UNCHANGED <<branch, commits, pulls, artifact, defaultHead, eligible, failures>>
  BY DEF ReadFirstParent, github
<1>2. PICK ch \in Change : ch = ChangeBy(c)
  BY ShaOrCommit
<1> DEFINE head == call[c].branchHead
<1>3. CallIsRight(c) /\ call[c].step = "reading parent" /\ Known(head) /\ head \in CommitId
  BY KnownCommits DEF Inv, ReadFirstParent, CallIsRight, Looks
<1>4. CASE ParentOf(head) # BaseOf[ch]
  <2>1. "branch conflict" \in Ended \cup {"finding"} /\ call' = [call EXCEPT ![c] = At("branch conflict")]
    BY <1>2, <1>4 DEF ReadFirstParent, Ended
  <2> QED BY <1>1, <2>1, CallBegins, Typed
<1>5. CASE ParentOf(head) = BaseOf[ch]
  <2> DEFINE x == [call[c] EXCEPT !.step = "rechecking base", !.commit = head]
  <2>1. call' = [call EXCEPT ![c] = x]
    BY <1>2, <1>5 DEF ReadFirstParent
  <2>2. x \in CallState /\ x.step = "rechecking base" /\ x.commit = head
    BY <1>3, Typed DEF CallState, Running
  <2> HIDE DEF x
  <2>3. call'[c] = x
    BY <2>1, <2>2 DEF Inv, TypeOK
  <2>4. Right(ch, head)
    <3>1. commits[head].parent = BaseOf[ch]
      BY <1>3, <1>5 DEF ParentOf
    <3>2. CommitsOnBase
      BY DEF Inv
    <3> QED BY <1>3, <3>1, <3>2, ShaOrCommit DEF Right, CommitsOnBase, Known
  <2>5. Looks(c)'
    BY <2>2, <2>3 DEF Looks
  <2>6. Untouched => head = branch[ch]
    BY <1>2, <1>3 DEF CallIsRight, Looks
  <2>7. Carries(c)'
    BY <1>1, <1>2, <1>3, <2>2, <2>3, <2>4, <2>6 DEF Carries, Committed, Right, Known
  <2>8. Alone => SeesItsOwn(c)'
    <3>1. "reading parent" \in Running \ {"finding"}
      BY DEF Running
    <3> QED BY <1>1, <1>3, <2>2, <2>3, <3>1 DEF CallIsRight, SeesItsOwn, Recorded
  <2> QED BY <1>1, <2>1, <2>2, <2>5, <2>7, <2>8, CallMoves, Typed DEF CallIsRight
<1> QED BY <1>4, <1>5

LEMMA ListPullsKeeps ==
  ASSUME Inv, NEW c \in Call, ListPulls(c)
  PROVE  Inv'
<1>1. UNCHANGED <<branch, commits, pulls, artifact, defaultHead, eligible, failures>>
  BY DEF ListPulls, github
<1>2. PICK ch \in Change : ch = ChangeBy(c)
  BY ShaOrCommit
<1> DEFINE step == IF pulls[ch] = <<>> THEN "opening pull" ELSE "recording"
           x == [call[c] EXCEPT !.step = step, !.pull = Len(pulls[ch])]
<1>3. /\ Len(pulls[ch]) \in Nat /\ DOMAIN pulls[ch] = 1..Len(pulls[ch])
      /\ pulls[ch] # <<>> => Len(pulls[ch]) \in DOMAIN pulls[ch]
  BY PullsTyped, Typed
<1>4. call' = [call EXCEPT ![c] = x]
  BY <1>2, Typed DEF ListPulls
<1>5. x \in CallState /\ x.step = step /\ x.commit = call[c].commit /\ x.pull = Len(pulls[ch])
  BY <1>3, Typed DEF CallState, Running
<1> HIDE DEF x
<1>6. call'[c] = x
  BY <1>4, <1>5 DEF Inv, TypeOK
<1>7. CallIsRight(c) /\ call[c].step = "listing pulls"
  BY DEF Inv, ListPulls
<1>8. Looks(c)'
  BY <1>5, <1>6 DEF Looks
<1>9. Carries(c)'
  BY <1>1, <1>2, <1>3, <1>5, <1>6, <1>7 DEF CallIsRight, Carries, Committed, Right, Known
<1>10. Alone => SeesItsOwn(c)'
  <2>1. "listing pulls" \in Running \ {"finding"}
    BY DEF Running
  <2> QED BY <1>1, <1>2, <1>5, <1>6, <1>7, <2>1 DEF CallIsRight, SeesItsOwn, Recorded
<1> QED BY <1>1, <1>4, <1>5, <1>8, <1>9, <1>10, CallMoves, Typed DEF CallIsRight

-----------------------------------------------------------------------------
(* Steps that change a branch.                                             *)

LEMMA CreateBranchKeeps ==
  ASSUME Inv, NEW c \in Call, CreateBranch(c)
  PROVE  Inv'
<1>1. PICK ch \in Change : ch = ChangeBy(c)
  BY ShaOrCommit
<1>2. UNCHANGED <<commits, pulls, artifact, defaultHead, eligible, failures>>
  BY DEF CreateBranch
<1>3. CallIsRight(c) /\ call[c].step = "creating branch" /\ call[c].step \in Running \ {"finding"}
  BY DEF Inv, CreateBranch, Running
<1>4. CASE branch[ch] # Missing
  <2> DEFINE x == [call[c] EXCEPT !.step = "finding raced branch"]
  <2>1. call' = [call EXCEPT ![c] = x] /\ UNCHANGED branch
    BY <1>1, <1>4, Typed DEF CreateBranch, Goes
  <2>2. x \in CallState /\ x.step = "finding raced branch"
    BY Typed DEF CallState, Running
  <2> HIDE DEF x
  <2> QED BY <1>2, <1>3, <2>1, <2>2, GoesOn
<1>5. CASE branch[ch] = Missing
  <2> DEFINE x == [call[c] EXCEPT !.step = "reading file", !.branchHead = BaseOf[ch]]
  <2>1. branch' = [branch EXCEPT ![ch] = BaseOf[ch]] /\ call' = [call EXCEPT ![c] = x]
    <3>1. /\ branch' = [branch EXCEPT ![ch] = BaseOf[ch]]
          /\ call' = [call EXCEPT ![c].step = "reading file", ![c].branchHead = BaseOf[ch]]
      BY <1>1, <1>5 DEF CreateBranch
    <3>2. call' = [call EXCEPT ![c] = x]
      BY <3>1, Typed
    <3> QED BY <3>1, <3>2
  <2>2. x \in CallState /\ x.step = "reading file" /\ x.branchHead = BaseOf[ch]
    BY Typed, ShaOrCommit DEF CallState, Running, CommitSha
  <2> HIDE DEF x
  <2>3. /\ call' \in [Call -> CallState] /\ call'[c] = x
        /\ \A d \in Call \ {c} : call'[d] = call[d]
    BY <2>1, <2>2 DEF Inv, TypeOK
  <2>4. /\ branch' \in [Change -> CommitSha \cup {Missing}] /\ branch'[ch] = BaseOf[ch]
        /\ \A k \in Change \ {ch} : branch'[k] = branch[k]
    BY <2>1, ShaOrCommit DEF Inv, TypeOK, CommitSha
  <2>5. TypeOK'
    BY <1>2, <2>3, <2>4 DEF Inv, TypeOK
  <2>6. ASSUME NEW k \in Change
        PROVE  (BranchIsRight(k) /\ PullsAreRight(k) /\ RecordIsRight(k))'
    <3>1. BranchIsRight(k) /\ PullsAreRight(k) /\ RecordIsRight(k)
      BY DEF Inv
    <3>2. BranchIsRight(k)'
      BY <1>2, <1>5, <2>4, <3>1, ShaOrCommit DEF BranchIsRight, OpenPulls, Right, Known
    <3>3. PullsAreRight(k)'
      BY <1>2, <3>1 DEF PullsAreRight, Right, Known
    <3>4. RecordIsRight(k)'
      <4>1. \A n : Known(n) => n # Missing
        BY KnownCommits, ShaOrCommit, Typed
      <4> QED BY <1>2, <1>5, <2>4, <3>1, <4>1 DEF RecordIsRight, Recorded, Right, Known
    <3> QED BY <3>2, <3>3, <3>4
  <2>7. CallIsRight(c)'
    <3>1. Looks(c)'
      BY <1>1, <2>2, <2>3, ShaOrCommit DEF Looks
    <3>2. Carries(c)'
      BY <2>2, <2>3 DEF Carries, Committed
    <3>3. Alone => SeesItsOwn(c)'
      BY <1>1, <1>2, <1>3, <2>2, <2>3, <2>4, ShaOrCommit DEF CallIsRight, SeesItsOwn, Recorded
    <3> QED BY <3>1, <3>2, <3>3 DEF CallIsRight
  <2>8. ASSUME NEW d \in Call \ {c}
        PROVE  CallIsRight(d)'
    <3>1. CallIsRight(d) /\ call'[d] = call[d] /\ ChangeBy(d) \in Change
      BY <2>3, ShaOrCommit DEF Inv
    <3>2. \A n : Known(n) => n # Missing
      BY KnownCommits, ShaOrCommit, Typed
    <3>3. Looks(d)'
      BY <1>2, <1>5, <2>4, <3>1, ShaOrCommit DEF CallIsRight, Looks, Known
    <3>4. Carries(d)'
      BY <1>2, <1>5, <2>4, <3>1, <3>2 DEF CallIsRight, Carries, Committed, Right, Known
    <3>5. Alone => SeesItsOwn(d)'
      <4>1. Alone => ChangeBy(d) # ch
        BY <1>1 DEF Alone
      <4> QED BY <1>2, <2>4, <3>1, <4>1 DEF CallIsRight, SeesItsOwn, Recorded
    <3> QED BY <3>3, <3>4, <3>5 DEF CallIsRight
  <2>9. CommitsOnBase'
    BY <1>2 DEF Inv, CommitsOnBase
  <2> QED BY <2>5, <2>6, <2>7, <2>8, <2>9 DEF Inv
<1> QED BY <1>4, <1>5

(* What holds of a commit holds after another one is added.                *)
LEMMA CommitsStay ==
  ASSUME TypeOK, NEW p \in CommitSha, NEW k \in Content, Len(commits) < MaxCommits,
         commits' = Append(commits, [parent |-> p, content |-> k])
  PROVE  \A n : Known(n) => /\ Known(n)' /\ commits'[n] = commits[n]
                            /\ \A ch : Right(ch, n) => Right(ch, n)'
<1>1. PICK new : NextCommit(new)
  BY DEF NextCommit
<1>2. \A n \in 1..Len(commits) : n \in 1..Len(commits') /\ commits'[n] = commits[n]
  BY <1>1, CommitAdded
<1> QED BY <1>2 DEF Known, Right

LEMMA CommitAddedOnBase ==
  ASSUME TypeOK, CommitsOnBase, NEW p \in CommitSha, NEW k \in Content, Len(commits) < MaxCommits,
         commits' = Append(commits, [parent |-> p, content |-> k]),
         p \in CommitId \/ k = "proposed"
  PROVE  CommitsOnBase'
<1>0. PICK new : NextCommit(new)
  BY DEF NextCommit
<1>1. /\ commits'[new].parent = p /\ commits'[new].content = k
      /\ \A n \in 1..Len(commits) : commits'[n] = commits[n]
      /\ \A n \in 1..Len(commits') : n \in 1..Len(commits) \/ n = new
  BY <1>0, CommitAdded
<1> QED BY <1>1, ShaOrCommit DEF CommitsOnBase

LEMMA BranchCommit ==
  ASSUME TypeOK, NEW ch \in Change, branch[ch] \in CommitSha, NEW k \in Content,
         Len(commits) < MaxCommits,
         commits' = Append(commits, [parent |-> branch[ch], content |-> k]),
         NEW new, NextCommit(new)
  PROVE  /\ commits' \in Seq([parent : CommitSha, content : Content]) /\ Len(commits') <= MaxCommits
         /\ new \in CommitId /\ new \in 1..Len(commits')
         /\ commits'[new].parent = branch[ch] /\ commits'[new].content = k
<1>1. new \in 1..new
  <2>1. Len(commits) \in Nat
    BY KnownCommits
  <2> QED BY <2>1 DEF NextCommit
<1>2. PICK p \in CommitSha : p = branch[ch]
  OBVIOUS
<1>3. commits' = Append(commits, [parent |-> p, content |-> k])
  BY <1>2
<1>4. commits' \in Seq([parent : CommitSha, content : Content]) /\ Len(commits') <= MaxCommits
  BY <1>3, CommitAdded
<1>5. new \in CommitId /\ 1..Len(commits') = 1..new /\ commits'[new].parent = p /\ commits'[new].content = k
  BY <1>3, CommitAdded
<1> QED BY <1>1, <1>2, <1>4, <1>5

LEMMA WriteFileKeeps ==
  ASSUME Inv, NEW c \in Call, WriteFile(c)
  PROVE  Inv'
<1>1. PICK ch \in Change : ch = ChangeBy(c)
  BY ShaOrCommit
<1>2. UNCHANGED <<pulls, artifact, defaultHead, eligible, failures>>
  BY DEF WriteFile
<1>3. CASE /\ Ends(c, "writing file", "rejected")
           /\ UNCHANGED <<commits, branch>>
  <2>1. "rejected" \in Ended \cup {"finding"} /\ call' = [call EXCEPT ![c] = At("rejected")]
    BY <1>3 DEF Ends, Ended
  <2> QED BY <1>2, <1>3, <2>1, CallBegins, Typed
<1>4. CASE /\ branch[ch] # Missing
           /\ FileAt(ch, branch[ch]) = call[c].file
           /\ Len(commits) < MaxCommits
           /\ commits' = Append(commits, [parent |-> branch[ch], content |-> "proposed"])
           /\ branch' = [branch EXCEPT ![ch] = Len(commits) + 1]
           /\ call' = [call EXCEPT ![c].step = "rechecking base", ![c].commit = Len(commits) + 1]
  <2>0. PICK new : NextCommit(new)
    BY DEF NextCommit
  <2>1. TypeOK /\ CommitsOnBase /\ CallIsRight(c) /\ call[c].step = "writing file"
        /\ BranchIsRight(ch) /\ "proposed" \in Content
    BY DEF Inv, WriteFile, Content
  <2>2. branch[ch] \in CommitSha
    BY <1>4, <2>1 DEF TypeOK
  <2>3. /\ commits' \in Seq([parent : CommitSha, content : Content]) /\ Len(commits') <= MaxCommits
        /\ new \in CommitId /\ new \in 1..Len(commits')
        /\ commits'[new].parent = branch[ch] /\ commits'[new].content = "proposed"
    BY <1>4, <2>0, <2>1, <2>2, BranchCommit
  <2>4. \A n : Known(n) => /\ Known(n)' /\ commits'[n] = commits[n]
                           /\ \A k : Right(k, n) => Right(k, n)'
    BY <1>4, <2>1, <2>2, CommitsStay
  <2> DEFINE x == [call[c] EXCEPT !.step = "rechecking base", !.commit = new]
  <2>5. call' = [call EXCEPT ![c] = x]
    BY <1>4, <2>0, Typed DEF NextCommit
  <2>6. x \in CallState /\ x.step = "rechecking base" /\ x.commit = new
    BY <2>3, Typed DEF CallState, Running
  <2> HIDE DEF x
  <2>7. /\ call' \in [Call -> CallState] /\ call'[c] = x
        /\ \A d \in Call \ {c} : call'[d] = call[d]
    BY <2>5, <2>6 DEF Inv, TypeOK
  <2>8. /\ branch' \in [Change -> CommitSha \cup {Missing}] /\ branch'[ch] = new
        /\ \A k \in Change \ {ch} : branch'[k] = branch[k]
    BY <1>4, <2>0, <2>1, <2>3 DEF TypeOK, CommitSha, NextCommit
  <2>9. TypeOK'
    BY <1>2, <2>1, <2>3, <2>7, <2>8 DEF TypeOK
  <2>10. CommitsOnBase'
    BY <1>4, <2>1, <2>2, CommitAddedOnBase
  <2>11. Alone \/ Unpushed \/ pulls[ch] = <<>> => branch[ch] = BaseOf[ch]
    <3>1. branch[ch] \in CommitId => commits[branch[ch]].content # "proposed"
      BY <1>1, <1>4, <2>1 DEF CallIsRight, Looks, FileAt
    <3>2. Unpushed \/ pulls[ch] = <<>> => branch[ch] \notin CommitId
      BY <2>1, <3>1 DEF BranchIsRight, Right
    <3>3. Alone => branch[ch] \in {BaseOf[ch], Missing}
      BY <1>1, <2>1 DEF CallIsRight, Looks, SeesItsOwn
    <3> QED BY <1>4, <2>1, <2>2, <3>2, <3>3 DEF BranchIsRight, CommitSha
  <2>12. Alone \/ Unpushed \/ pulls[ch] = <<>> => Right(ch, new)'
    BY <2>3, <2>11 DEF Right, Known
  <2>13. Untouched => branch[ch] \notin CommitId
    BY <2>11, ShaOrCommit DEF Untouched, Unpushed
  <2>14. ASSUME NEW k \in Change
         PROVE  (BranchIsRight(k) /\ PullsAreRight(k) /\ RecordIsRight(k))'
    <3>1. BranchIsRight(k) /\ PullsAreRight(k) /\ RecordIsRight(k)
      BY DEF Inv
    <3>2. BranchIsRight(k)'
      <4>1. CASE k = ch
        <5>1. /\ branch'[ch] = new /\ new \notin Sha /\ new \in CommitId
              /\ Known(new)' /\ pulls' = pulls
          BY <1>2, <2>3, <2>8, ShaOrCommit DEF Known
        <5> QED BY <2>12, <4>1, <5>1 DEF BranchIsRight
      <4>2. CASE k # ch
        <5>1. branch'[k] = branch[k] /\ pulls' = pulls
          BY <1>2, <2>8, <4>2
        <5> QED BY <2>4, <3>1, <5>1 DEF BranchIsRight, OpenPulls
      <4> QED BY <4>1, <4>2
    <3>3. PullsAreRight(k)'
      BY <1>2, <2>4, <3>1 DEF PullsAreRight
    <3>4. RecordIsRight(k)'
      <4>1. \A n : Known(n) => n \in CommitId
        BY <2>1, KnownCommits
      <4>2. k = ch => ~(Recorded(k) /\ Untouched)
        BY <2>13, <3>1, <4>1 DEF RecordIsRight
      <4> QED BY <1>2, <2>4, <2>8, <3>1, <4>2 DEF RecordIsRight, Recorded
    <3> QED BY <3>2, <3>3, <3>4
  <2>15. CallIsRight(c)'
    <3>1. Looks(c)'
      BY <2>6, <2>7 DEF Looks
    <3>2. Carries(c)'
      <4>1. Known(new)'
        BY <2>3 DEF Known
      <4> QED BY <1>1, <2>6, <2>7, <2>8, <2>12, <4>1 DEF Carries, Committed
    <3>3. Alone => SeesItsOwn(c)'
      <4>1. "writing file" \in Running \ {"finding"}
        BY DEF Running
      <4> QED BY <1>2, <2>1, <2>6, <2>7, <4>1 DEF CallIsRight, SeesItsOwn, Recorded
    <3> QED BY <3>1, <3>2, <3>3 DEF CallIsRight
  <2>16. ASSUME NEW d \in Call \ {c}
         PROVE  CallIsRight(d)'
    <3>1. CallIsRight(d) /\ call'[d] = call[d] /\ ChangeBy(d) \in Change
      BY <2>7, ShaOrCommit DEF Inv
    <3>2. \A n : Known(n) => n \in CommitId
      BY <2>1, KnownCommits
    <3>3. Looks(d)'
      BY <1>2, <2>4, <2>8, <2>13, <3>1 DEF CallIsRight, Looks
    <3>4. Carries(d)'
      BY <1>2, <2>4, <2>8, <2>13, <3>1, <3>2 DEF CallIsRight, Carries, Committed
    <3>5. Alone => SeesItsOwn(d)'
      <4>1. Alone => ChangeBy(d) # ch
        BY <1>1 DEF Alone
      <4>2. BranchIsRight(ChangeBy(d))
        BY <3>1 DEF Inv
      <4>3. ChangeBy(d) # ch =>
              /\ branch'[ChangeBy(d)] = branch[ChangeBy(d)]
              /\ branch[ChangeBy(d)] \in CommitId =>
                   commits'[branch[ChangeBy(d)]] = commits[branch[ChangeBy(d)]]
        BY <2>4, <2>8, <3>1, <4>2 DEF BranchIsRight
      <4> QED BY <1>2, <3>1, <4>1, <4>3 DEF CallIsRight, SeesItsOwn, Recorded
    <3> QED BY <3>3, <3>4, <3>5 DEF CallIsRight
  <2> QED BY <2>9, <2>10, <2>14, <2>15, <2>16 DEF Inv
<1> QED BY <1>1, <1>3, <1>4 DEF WriteFile

-----------------------------------------------------------------------------
(* Steps that open a pull request, and record one.                         *)

NextPull(ch, m) == m = Len(pulls[ch]) + 1

LEMMA PullAdded ==
  ASSUME TypeOK, NEW ch \in Change, branch[ch] \in CommitId,
         pulls' = [pulls EXCEPT ![ch] = Append(@, [open |-> TRUE, commit |-> branch[ch]])],
         NEW m, NextPull(ch, m)
  PROVE  /\ pulls' \in [Change -> Seq(Pull)] /\ \A k \in Change \ {ch} : pulls'[k] = pulls[k]
         /\ m \in Nat \ {0} /\ Len(pulls'[ch]) = m /\ DOMAIN pulls'[ch] = 1..m /\ pulls'[ch] # <<>>
         /\ pulls'[ch][m].open = TRUE /\ pulls'[ch][m].commit = branch[ch]
         /\ \A n \in DOMAIN pulls[ch] : n \in DOMAIN pulls'[ch] /\ pulls'[ch][n] = pulls[ch][n]
         /\ \A n \in DOMAIN pulls'[ch] : n \in DOMAIN pulls[ch] \/ n = m
<1> DEFINE e == [open |-> TRUE, commit |-> branch[ch]]
           s == pulls[ch]
           t == Append(s, e)
<1>1. s \in Seq(Pull) /\ Len(s) \in Nat /\ DOMAIN s = 1..Len(s)
  BY PullsTyped
<1>2. e \in Pull /\ e.open = TRUE /\ e.commit = branch[ch]
  BY DEF Pull
<1>3. pulls' = [pulls EXCEPT ![ch] = t]
  OBVIOUS
<1>4. m = Len(s) + 1
  BY DEF NextPull
<1> HIDE DEF e, s
<1>5. /\ t \in Seq(Pull) /\ Len(t) = Len(s) + 1
      /\ \A n \in 1..Len(s) : t[n] = s[n]
      /\ t[Len(s) + 1] = e
  BY <1>1, <1>2, AppendProperties
<1> HIDE DEF t
<1>6. DOMAIN t = 1..m /\ t # <<>>
  <2>1. Len(t) = m /\ m # 0
    BY <1>1, <1>4, <1>5
  <2> QED BY <1>5, <2>1, LenProperties, EmptySeq
<1>7. pulls' \in [Change -> Seq(Pull)] /\ pulls'[ch] = t /\ \A k \in Change \ {ch} : pulls'[k] = pulls[k]
  BY <1>3, <1>5 DEF TypeOK
<1>8. /\ m \in Nat \ {0} /\ Len(t) = m /\ t[m] = e
      /\ \A n \in DOMAIN s : n \in DOMAIN t /\ t[n] = s[n]
      /\ \A n \in DOMAIN t : n \in DOMAIN s \/ n = m
  BY <1>1, <1>4, <1>5, <1>6
<1>9. s = pulls[ch]
  BY DEF s
<1> QED BY <1>2, <1>6, <1>7, <1>8, <1>9

LEMMA OpenPullKeeps ==
  ASSUME Inv, NEW c \in Call, OpenPull(c)
  PROVE  Inv'
<1>1. PICK ch \in Change : ch = ChangeBy(c)
  BY ShaOrCommit
<1>2. UNCHANGED <<branch, commits, artifact, defaultHead, eligible, failures>>
  BY DEF OpenPull
<1>3. CASE Ends(c, "opening pull", "rejected") /\ UNCHANGED pulls
  <2>1. "rejected" \in Ended \cup {"finding"} /\ call' = [call EXCEPT ![c] = At("rejected")]
    BY <1>3 DEF Ends, Ended
  <2> QED BY <1>2, <1>3, <2>1, CallBegins, Typed
<1>4. CASE /\ OpenPulls(ch) = {} /\ branch[ch] \in CommitId
           /\ pulls' = [pulls EXCEPT ![ch] = Append(@, [open |-> TRUE, commit |-> branch[ch]])]
           /\ call' = [call EXCEPT ![c].step = "recording", ![c].pull = Len(pulls[ch]) + 1]
  <2>0. PICK m : NextPull(ch, m)
    BY DEF NextPull
  <2>1. TypeOK /\ CommitsOnBase /\ CallIsRight(c) /\ call[c].step = "opening pull"
        /\ BranchIsRight(ch) /\ PullsAreRight(ch)
    BY DEF Inv, OpenPull
  <2>2. /\ pulls' \in [Change -> Seq(Pull)] /\ \A k \in Change \ {ch} : pulls'[k] = pulls[k]
        /\ m \in Nat \ {0} /\ Len(pulls'[ch]) = m /\ DOMAIN pulls'[ch] = 1..m /\ pulls'[ch] # <<>>
        /\ pulls'[ch][m].open = TRUE /\ pulls'[ch][m].commit = branch[ch]
        /\ \A n \in DOMAIN pulls[ch] : n \in DOMAIN pulls'[ch] /\ pulls'[ch][n] = pulls[ch][n]
        /\ \A n \in DOMAIN pulls'[ch] : n \in DOMAIN pulls[ch] \/ n = m
    BY <1>4, <2>0, <2>1, PullAdded
  <2> DEFINE x == [call[c] EXCEPT !.step = "recording", !.pull = m]
  <2>3. call' = [call EXCEPT ![c] = x]
    BY <1>4, <2>0, Typed DEF NextPull
  <2>4. x \in CallState /\ x.step = "recording" /\ x.pull = m /\ x.commit = call[c].commit
    <3>1. m \in Nat /\ call[c] \in CallState
      BY <2>2, Typed
    <3> QED BY <3>1 DEF CallState, Running
  <2> HIDE DEF x
  <2>5. /\ call' \in [Call -> CallState] /\ call'[c] = x
        /\ \A d \in Call \ {c} : call'[d] = call[d]
    BY <2>3, <2>4 DEF Inv, TypeOK
  <2>6. TypeOK'
    BY <1>2, <2>1, <2>2, <2>5 DEF TypeOK
  <2>7. CommitsOnBase'
    BY <1>2, <2>1 DEF CommitsOnBase
  <2>8. \A n, k : (Known(n) => Known(n)') /\ (Right(k, n) => Right(k, n)')
    BY <1>2 DEF Right, Known
  <2>9. Alone => pulls[ch] = <<>>
    BY <1>1, <2>1 DEF CallIsRight, SeesItsOwn
  <2>10. Known(branch[ch]) /\ (Alone \/ Unpushed => Right(ch, branch[ch]))
    BY <1>4, <2>1, <2>9 DEF BranchIsRight
  <2>11. Alone \/ Unclosed => m = 1
    <3>1. Unclosed => DOMAIN pulls[ch] = {}
      BY <1>4, <2>1 DEF PullsAreRight, OpenPulls
    <3>2. Unclosed => Len(pulls[ch]) = 0
      <4>1. Len(pulls[ch]) \in Nat /\ DOMAIN pulls[ch] = 1..Len(pulls[ch])
        BY <2>1, PullsTyped
      <4>2. Unclosed => 1 \notin 1..Len(pulls[ch])
        BY <3>1, <4>1
      <4> QED BY <4>1, <4>2
    <3>3. Alone => Len(pulls[ch]) = 0
      BY <2>1, <2>9, PullsTyped
    <3> QED BY <2>0, <3>2, <3>3 DEF NextPull
  <2>12. ASSUME NEW k \in Change
         PROVE  (BranchIsRight(k) /\ PullsAreRight(k) /\ RecordIsRight(k))'
    <3>1. BranchIsRight(k) /\ PullsAreRight(k) /\ RecordIsRight(k)
      BY DEF Inv
    <3>2. CASE k # ch
      <4>1. pulls'[k] = pulls[k]
        BY <2>2, <3>2
      <4> QED BY <1>2, <2>8, <3>1, <4>1
              DEF BranchIsRight, PullsAreRight, RecordIsRight, OpenPulls, Recorded
    <3>3. CASE k = ch
      <4>1. BranchIsRight(ch)'
        BY <1>2, <1>4, <2>1, <2>2, <2>8, ShaOrCommit DEF BranchIsRight
      <4>2. PullsAreRight(ch)'
        <5>1. Len(pulls'[ch]) <= 1 \/ ~(Alone \/ Unclosed)
          BY <2>2, <2>11
        <5>2. ASSUME NEW n \in DOMAIN pulls'[ch]
              PROVE  (/\ Known(pulls[ch][n].commit)
                      /\ Alone \/ Unpushed => Right(ch, pulls[ch][n].commit)
                      /\ Unclosed => pulls[ch][n].open)'
          <6>1. CASE n = m
            BY <1>2, <2>2, <2>10, <6>1 DEF Right, Known
          <6>2. CASE n \in DOMAIN pulls[ch]
            BY <1>2, <2>1, <2>2, <6>2 DEF PullsAreRight, Right, Known
          <6> QED BY <2>2, <6>1, <6>2
        <5> QED BY <5>1, <5>2 DEF PullsAreRight
      <4>3. RecordIsRight(ch)'
        BY <1>2, <2>2, <2>8, <3>1, <3>3 DEF RecordIsRight, Recorded
      <4> QED BY <3>3, <4>1, <4>2, <4>3
    <3> QED BY <3>2, <3>3
  <2>13. CallIsRight(c)'
    <3>1. Looks(c)'
      BY <2>4, <2>5 DEF Looks
    <3>2. Carries(c)'
      <4>1. m \in DOMAIN pulls'[ch]
        BY <2>2
      <4> QED BY <1>1, <1>2, <2>1, <2>4, <2>5, <2>8, <4>1 DEF CallIsRight, Carries, Committed
    <3>3. Alone => SeesItsOwn(c)'
      <4>1. "opening pull" \in Running \ {"finding"}
        BY DEF Running
      <4> QED BY <1>2, <2>1, <2>4, <2>5, <4>1 DEF CallIsRight, SeesItsOwn, Recorded
    <3> QED BY <3>1, <3>2, <3>3 DEF CallIsRight
  <2>14. ASSUME NEW d \in Call \ {c}
         PROVE  CallIsRight(d)'
    <3>1. CallIsRight(d) /\ call'[d] = call[d] /\ ChangeBy(d) \in Change
      BY <2>5, ShaOrCommit DEF Inv
    <3>2. \A n \in DOMAIN pulls[ChangeBy(d)] : n \in DOMAIN pulls'[ChangeBy(d)]
      BY <2>2, <3>1
    <3>3. Looks(d)'
      BY <1>2, <3>1 DEF CallIsRight, Looks, Known
    <3>4. Carries(d)'
      BY <1>2, <2>8, <3>1, <3>2 DEF CallIsRight, Carries, Committed
    <3>5. Alone => SeesItsOwn(d)'
      <4>1. Alone => pulls'[ChangeBy(d)] = pulls[ChangeBy(d)]
        BY <1>1, <2>2, <3>1 DEF Alone
      <4> QED BY <1>2, <3>1, <4>1 DEF CallIsRight, SeesItsOwn, Recorded
    <3> QED BY <3>3, <3>4, <3>5 DEF CallIsRight
  <2> QED BY <2>6, <2>7, <2>12, <2>13, <2>14 DEF Inv
<1> QED BY <1>1, <1>3, <1>4 DEF OpenPull

LEMMA RecordCreatedKeeps ==
  ASSUME Inv, NEW c \in Call, RecordCreated(c)
  PROVE  Inv'
<1>1. PICK ch \in Change : ch = ChangeBy(c)
  BY ShaOrCommit
<1>2. UNCHANGED <<branch, commits, pulls, defaultHead, eligible, failures>>
  BY DEF RecordCreated, github
<1>3. TypeOK /\ CallIsRight(c) /\ call[c].step = "recording" /\ call[c] \in CallState
  BY DEF Inv, RecordCreated, Ends, TypeOK
<1> DEFINE s == call[c]
           record == [proposal |-> ProposalOf[c], commit |-> s.commit, pull |-> s.pull]
<1>4. /\ Known(s.commit) /\ s.commit \in CommitId /\ s.pull \in DOMAIN pulls[ch]
      /\ Alone \/ Unpushed => Right(ch, s.commit)
      /\ Untouched => s.commit = branch[ch]
  BY <1>1, <1>3, KnownCommits DEF CallIsRight, Carries, Committed
<1>5. PICK stored : stored = IF Recorded(ch) THEN artifact[ch] ELSE record
  OBVIOUS
<1>6. artifact' = [artifact EXCEPT ![ch] = stored]
  BY <1>1, <1>5 DEF RecordCreated
<1>7. PICK how \in Ended : call' = [call EXCEPT ![c] = At(how)]
  <2>1. "returned" \in Ended /\ "record conflict" \in Ended
    BY DEF Ended
  <2> QED BY <2>1 DEF RecordCreated, Ends
<1>8. record \in Artifact /\ ChangeOf[record.proposal] = ch
  <2>1. s.pull \in Nat \ {0}
    <3>1. DOMAIN pulls[ch] = 1..Len(pulls[ch]) /\ Len(pulls[ch]) \in Nat
      BY <1>3, PullsTyped
    <3> QED BY <1>4, <3>1
  <2> QED BY <1>1, <1>4, <2>1 DEF Artifact, ChangeBy
<1>9. record.commit = s.commit /\ record.pull = s.pull
  OBVIOUS
<1> HIDE DEF record
<1>10. /\ artifact' \in [Change -> Artifact \cup {NoArtifact}] /\ artifact'[ch] = stored
      /\ \A k \in Change \ {ch} : artifact'[k] = artifact[k]
  <2>1. artifact \in [Change -> Artifact \cup {NoArtifact}]
    BY <1>3 DEF TypeOK
  <2>2. stored \in Artifact \cup {NoArtifact}
    BY <1>5, <1>8, <2>1
  <2> QED BY <1>6, <2>1, <2>2
<1>11. At(how) \in CallState /\ At(how).step = how /\ how \notin Running
  BY DEF At, CallState, Ended, Running
<1>12. /\ call' \in [Call -> CallState] /\ call'[c].step = how
       /\ \A d \in Call \ {c} : call'[d] = call[d]
  BY <1>3, <1>7, <1>11 DEF TypeOK
<1>13. TypeOK' /\ CommitsOnBase'
  BY <1>2, <1>3, <1>10, <1>12 DEF Inv, TypeOK, CommitsOnBase
<1>14. ASSUME NEW k \in Change
       PROVE  (BranchIsRight(k) /\ PullsAreRight(k) /\ RecordIsRight(k))'
  <2>1. BranchIsRight(k) /\ PullsAreRight(k) /\ RecordIsRight(k)
    BY DEF Inv
  <2>2. (BranchIsRight(k) /\ PullsAreRight(k))'
    BY <1>2, <2>1 DEF BranchIsRight, PullsAreRight, OpenPulls, Right, Known
  <2>3. CASE artifact'[k] = artifact[k]
    BY <1>2, <2>1, <2>2, <2>3 DEF RecordIsRight, Recorded, Right, Known
  <2>4. CASE k = ch /\ stored = record
    BY <1>2, <1>4, <1>8, <1>9, <1>10, <2>2, <2>4 DEF RecordIsRight, Right, Known
  <2> QED BY <1>5, <1>10, <2>3, <2>4
<1>15. CallIsRight(c)'
  BY <1>11, <1>12 DEF CallIsRight, Looks, Carries, SeesItsOwn, Committed, Running
<1>16. ASSUME NEW d \in Call \ {c}
       PROVE  CallIsRight(d)'
  <2>1. CallIsRight(d) /\ call'[d] = call[d] /\ ChangeBy(d) \in Change
    BY <1>12, ShaOrCommit DEF Inv
  <2>2. Looks(d)' /\ Carries(d)'
    BY <1>2, <2>1 DEF CallIsRight, Looks, Carries, Committed, Right, Known
  <2>3. Alone => SeesItsOwn(d)'
    <3>1. Alone => artifact'[ChangeBy(d)] = artifact[ChangeBy(d)]
      BY <1>1, <1>10, <2>1 DEF Alone
    <3> QED BY <1>2, <2>1, <3>1 DEF CallIsRight, SeesItsOwn, Recorded
  <2> QED BY <2>2, <2>3 DEF CallIsRight
<1> QED BY <1>13, <1>14, <1>15, <1>16 DEF Inv

-----------------------------------------------------------------------------
(* What people and other software do.                                      *)

LEMMA WorldMoves ==
  ASSUME Inv, UNCHANGED <<branch, commits, pulls, artifact, call, failures>>,
         defaultHead' \in Sha, eligible' \in BOOLEAN
  PROVE  Inv'
<1>1. TypeOK' /\ CommitsOnBase'
  BY DEF Inv, TypeOK, CommitsOnBase
<1>2. \A ch \in Change : (BranchIsRight(ch) /\ PullsAreRight(ch) /\ RecordIsRight(ch))'
  BY DEF Inv, BranchIsRight, PullsAreRight, RecordIsRight, OpenPulls, Right, Known, Recorded
<1>3. \A c \in Call : CallIsRight(c)'
  BY DEF Inv, CallIsRight, Looks, Carries, SeesItsOwn, Committed, Right, Known, Recorded
<1> QED BY <1>1, <1>2, <1>3 DEF Inv

LEMMA PushKeeps ==
  ASSUME Inv, NEW ch \in Change, Push(ch)
  PROVE  Inv'
<1>0. PICK new : NextCommit(new)
  BY DEF NextCommit
<1>1. ~Unpushed /\ ~Untouched /\ OpenPulls(ch) # {} /\ Len(commits) < MaxCommits
  BY DEF Push, Unpushed, Untouched
<1>2. UNCHANGED <<defaultHead, eligible, pulls, artifact, call, failures>>
  BY DEF Push
<1>3. PICK content \in Content : commits' = Append(commits, [parent |-> branch[ch], content |-> content])
  BY DEF Push
<1>4. branch' = [branch EXCEPT ![ch] = new]
  BY <1>0 DEF Push, NextCommit
<1>5. TypeOK /\ CommitsOnBase /\ BranchIsRight(ch) /\ branch[ch] \in CommitId /\ branch[ch] \in CommitSha
  BY <1>1 DEF Inv, BranchIsRight, CommitSha
<1>6. pulls[ch] # <<>>
  BY <1>1, <1>5, PullsTyped
<1>7. /\ commits' \in Seq([parent : CommitSha, content : Content]) /\ Len(commits') <= MaxCommits
      /\ new \in CommitId /\ new \in 1..Len(commits')
      /\ commits'[new].parent = branch[ch] /\ commits'[new].content = content
  BY <1>0, <1>1, <1>3, <1>5, BranchCommit
<1>8. \A n : Known(n) => /\ Known(n)' /\ commits'[n] = commits[n]
                         /\ \A k : Right(k, n) => Right(k, n)'
  BY <1>1, <1>3, <1>5, CommitsStay
<1>9. /\ branch' \in [Change -> CommitSha \cup {Missing}] /\ branch'[ch] = new
      /\ \A k \in Change \ {ch} : branch'[k] = branch[k]
  BY <1>4, <1>5, <1>7 DEF TypeOK, CommitSha
<1>10. TypeOK'
  BY <1>2, <1>5, <1>7, <1>9 DEF TypeOK
<1>11. CommitsOnBase'
  BY <1>1, <1>3, <1>5, CommitAddedOnBase
<1>12. ASSUME NEW k \in Change
       PROVE  (BranchIsRight(k) /\ PullsAreRight(k) /\ RecordIsRight(k))'
  <2>1. BranchIsRight(k) /\ PullsAreRight(k) /\ RecordIsRight(k)
    BY DEF Inv
  <2>2. BranchIsRight(k)'
    <3>1. CASE k = ch
      <4>1. new \notin Sha /\ Known(new)'
        BY <1>7, ShaOrCommit DEF Known
      <4> QED BY <1>1, <1>2, <1>6, <1>7, <1>9, <3>1, <4>1 DEF BranchIsRight, Unpushed
    <3>2. CASE k # ch
      <4>1. branch'[k] = branch[k]
        BY <1>9, <3>2
      <4> QED BY <1>2, <1>8, <2>1, <4>1 DEF BranchIsRight, OpenPulls
    <3> QED BY <3>1, <3>2
  <2>3. (PullsAreRight(k) /\ RecordIsRight(k))'
    BY <1>1, <1>2, <1>8, <2>1 DEF PullsAreRight, RecordIsRight, Recorded, Untouched
  <2> QED BY <2>2, <2>3
<1>13. ASSUME NEW c \in Call
       PROVE  CallIsRight(c)'
  <2>1. CallIsRight(c) /\ ChangeBy(c) \in Change
    BY ShaOrCommit DEF Inv
  <2>2. Looks(c)' /\ Carries(c)'
    BY <1>1, <1>2, <1>8, <2>1 DEF CallIsRight, Looks, Carries, Committed, Untouched
  <2>3. Alone => SeesItsOwn(c)'
    <3>1. CASE ChangeBy(c) = ch
      BY <1>2, <1>5, <1>7, <1>9, <2>1, <3>1, ShaOrCommit
         DEF CallIsRight, SeesItsOwn, Recorded
    <3>2. CASE ChangeBy(c) # ch
      <4>1. BranchIsRight(ChangeBy(c))
        BY <2>1 DEF Inv
      <4>2. /\ branch'[ChangeBy(c)] = branch[ChangeBy(c)]
            /\ branch[ChangeBy(c)] \in CommitId =>
                 commits'[branch[ChangeBy(c)]] = commits[branch[ChangeBy(c)]]
        BY <1>8, <1>9, <2>1, <3>2, <4>1 DEF BranchIsRight
      <4> QED BY <1>2, <2>1, <4>2 DEF CallIsRight, SeesItsOwn, Recorded
    <3> QED BY <3>1, <3>2
  <2> QED BY <2>2, <2>3 DEF CallIsRight
<1> QED BY <1>10, <1>11, <1>12, <1>13 DEF Inv

LEMMA PullsClose ==
  ASSUME TypeOK, NEW ch \in Change, pulls' = [pulls EXCEPT ![ch] = Closed(@)]
  PROVE  /\ pulls' \in [Change -> Seq(Pull)] /\ \A k \in Change \ {ch} : pulls'[k] = pulls[k]
         /\ DOMAIN pulls'[ch] = DOMAIN pulls[ch] /\ Len(pulls'[ch]) = Len(pulls[ch])
         /\ pulls'[ch] = <<>> <=> pulls[ch] = <<>>
         /\ \A n \in DOMAIN pulls[ch] : /\ pulls'[ch][n].commit = pulls[ch][n].commit
                                        /\ pulls'[ch][n].open = FALSE
<1> DEFINE s == pulls[ch]
           t == Closed(s)
<1>1. s \in Seq(Pull) /\ Len(s) \in Nat /\ DOMAIN s = 1..Len(s) /\ \A n \in DOMAIN s : s[n] \in Pull
  BY PullsTyped
<1>2. pulls' = [pulls EXCEPT ![ch] = t]
  OBVIOUS
<1> HIDE DEF s
<1>3. DOMAIN t = 1..Len(s) /\ \A n \in DOMAIN s : t[n] = [s[n] EXCEPT !.open = FALSE]
  BY <1>1 DEF Closed
<1>4. \A n \in DOMAIN s : t[n] \in Pull /\ t[n].commit = s[n].commit /\ t[n].open = FALSE
  BY <1>1, <1>3 DEF Pull
<1>5. t \in Seq(Pull) /\ Len(t) = Len(s)
  <2>1. t \in [1..Len(s) -> Pull]
    BY <1>1, <1>3, <1>4 DEF Closed
  <2> HIDE DEF t
  <2>2. t \in Seq(Pull)
    BY <1>1, <2>1, SeqDef
  <2> QED BY <1>1, <1>3, <2>2, LenProperties
<1> HIDE DEF t
<1>6. t = <<>> <=> s = <<>>
  BY <1>1, <1>5, EmptySeq
<1>7. pulls' \in [Change -> Seq(Pull)] /\ pulls'[ch] = t /\ \A k \in Change \ {ch} : pulls'[k] = pulls[k]
  BY <1>2, <1>5 DEF TypeOK
<1>8. s = pulls[ch]
  BY DEF s
<1> QED BY <1>1, <1>3, <1>4, <1>5, <1>6, <1>7, <1>8

(* A pull request is closed, and its branch is deleted or stays.           *)
LEMMA ClosingKeeps ==
  ASSUME Inv, NEW ch \in Change, pulls' = [pulls EXCEPT ![ch] = Closed(@)], ~Unclosed,
         UNCHANGED <<eligible, commits, artifact, call, failures>>, defaultHead' \in Sha,
         \/ UNCHANGED branch
         \/ branch' = [branch EXCEPT ![ch] = Missing] /\ ~Untouched
  PROVE  Inv'
<1>1. TypeOK
  BY DEF Inv
<1>2. /\ pulls' \in [Change -> Seq(Pull)] /\ \A k \in Change \ {ch} : pulls'[k] = pulls[k]
      /\ DOMAIN pulls'[ch] = DOMAIN pulls[ch] /\ Len(pulls'[ch]) = Len(pulls[ch])
      /\ pulls'[ch] = <<>> <=> pulls[ch] = <<>>
      /\ \A n \in DOMAIN pulls[ch] : /\ pulls'[ch][n].commit = pulls[ch][n].commit
                                     /\ pulls'[ch][n].open = FALSE
  BY <1>1, PullsClose
<1>3. /\ branch' \in [Change -> CommitSha \cup {Missing}]
      /\ \A k \in Change \ {ch} : branch'[k] = branch[k]
      /\ branch'[ch] = branch[ch] \/ (branch'[ch] = Missing /\ ~Untouched)
  <2>1. branch \in [Change -> CommitSha \cup {Missing}]
    BY <1>1 DEF TypeOK
  <2>2. CASE UNCHANGED branch
    BY <2>1, <2>2
  <2>3. CASE branch' = [branch EXCEPT ![ch] = Missing] /\ ~Untouched
    <3>1. branch' \in [Change -> CommitSha \cup {Missing}] /\ branch'[ch] = Missing
      BY <2>1, <2>3
    <3>2. \A k \in Change \ {ch} : branch'[k] = branch[k]
      BY <2>1, <2>3
    <3> QED BY <2>3, <3>1, <3>2
  <2> QED BY <2>2, <2>3
<1>4. TypeOK'
  BY <1>1, <1>2, <1>3 DEF TypeOK
<1>5. CommitsOnBase'
  BY DEF Inv, CommitsOnBase
<1>6. \A n, k : (Known(n) => Known(n)') /\ (Right(k, n) => Right(k, n)')
  BY DEF Right, Known
<1>7. ASSUME NEW k \in Change
      PROVE  (BranchIsRight(k) /\ PullsAreRight(k) /\ RecordIsRight(k))'
  <2>1. BranchIsRight(k) /\ PullsAreRight(k) /\ RecordIsRight(k)
    BY DEF Inv
  <2>2. CASE k # ch
    <3>1. pulls'[k] = pulls[k] /\ branch'[k] = branch[k]
      BY <1>2, <1>3, <2>2
    <3> QED BY <1>6, <2>1, <3>1
            DEF BranchIsRight, PullsAreRight, RecordIsRight, OpenPulls, Recorded
  <2>3. CASE k = ch
    <3>1. BranchIsRight(ch)'
      <4>1. OpenPulls(ch)' = {}
        BY <1>2 DEF OpenPulls
      <4>2. CASE branch'[ch] = Missing
        BY <4>1, <4>2, ShaOrCommit DEF BranchIsRight
      <4>3. CASE branch'[ch] = branch[ch]
        BY <1>2, <1>6, <2>1, <2>3, <4>1, <4>3 DEF BranchIsRight
      <4> QED BY <1>3, <4>2, <4>3
    <3>2. PullsAreRight(ch)'
      BY <1>2, <1>6, <2>1, <2>3 DEF PullsAreRight, Right, Known
    <3>3. RecordIsRight(ch)'
      BY <1>2, <1>3, <1>6, <2>1, <2>3 DEF RecordIsRight, Recorded
    <3> QED BY <2>3, <3>1, <3>2, <3>3
  <2> QED BY <2>2, <2>3
<1>8. ASSUME NEW d \in Call
      PROVE  CallIsRight(d)'
  <2>1. PICK k \in Change : k = ChangeBy(d)
    BY ShaOrCommit
  <2>2. CallIsRight(d) /\ branch'[k] \in {branch[k], Missing} /\ DOMAIN pulls'[k] = DOMAIN pulls[k]
        /\ (pulls'[k] = <<>> <=> pulls[k] = <<>>) /\ (Untouched => branch'[k] = branch[k])
    BY <1>2, <1>3 DEF Inv
  <2>3. Looks(d)' /\ Carries(d)'
    BY <1>6, <2>1, <2>2 DEF CallIsRight, Looks, Carries, Committed
  <2>4. Alone => SeesItsOwn(d)'
    BY <2>1, <2>2 DEF CallIsRight, SeesItsOwn, Recorded
  <2> QED BY <2>3, <2>4 DEF CallIsRight
<1> QED BY <1>4, <1>5, <1>7, <1>8 DEF Inv

LEMMA Keeps ==
  ASSUME Inv, [Next]_vars
  PROVE  Inv'
<1>1. CASE UNCHANGED vars
  BY <1>1, WorldMoves, Typed DEF vars, github
<1>2. CASE \E c \in Call : CallStep(c) \/ Fail(c)
  BY <1>2, LoadProposalKeeps, FindCreatedKeeps, CheckBaseKeeps, FindBranchKeeps,
     CreateBranchKeeps, FindRacedBranchKeeps, ReadFileKeeps, ReadFirstParentKeeps,
     WriteFileKeeps, ListPullsKeeps, OpenPullKeeps, RecordCreatedKeeps, FailKeeps
  DEF CallStep
<1>3. CASE DefaultBranchMoves
  BY <1>3, WorldMoves, Typed DEF DefaultBranchMoves, github
<1>4. CASE EligibilityChanges
  BY <1>4, WorldMoves, Typed DEF EligibilityChanges, github
<1>5. ASSUME NEW ch \in Change, Push(ch) \/ Close(ch) \/ Merge(ch) \/ DeleteBranch(ch)
      PROVE  Inv'
  <2>1. CASE Push(ch)
    BY <2>1, PushKeeps
  <2>2. CASE Close(ch)
    BY <2>2, ClosingKeeps, Typed DEF Close, Unclosed
  <2>3. CASE Merge(ch)
    BY <2>3, ClosingKeeps, Typed DEF Merge, Unclosed
  <2>4. CASE DeleteBranch(ch)
    BY <2>4, ClosingKeeps, Typed DEF DeleteBranch, Unclosed, Untouched
  <2> QED BY <1>5, <2>1, <2>2, <2>3, <2>4
<1> QED BY <1>1, <1>2, <1>3, <1>4, <1>5 DEF Next

(* The invariant holds always, whatever calls and reviewers do: what needs *)
(* a hypothesis has it inside.                                             *)
THEOREM InvHolds == Spec => []Inv
BY InitInv, Keeps, PTL DEF Spec

-----------------------------------------------------------------------------
(* The state properties.                                                   *)

(* Type correctness: whatever calls and reviewers do, the branches, pull   *)
(* requests, records and what a call has read stay of their types, and the *)
(* bounds on commits and failures hold.                                    *)
THEOREM TypeCorrect == Spec => []TypeOK
<1>1. Inv => TypeOK
  BY DEF Inv
<1> QED BY <1>1, InvHolds, PTL

(* A branch carries at most one commit, made on the reviewed base, however *)
(* many calls write to it and whatever dies, when nobody else commits to   *)
(* it: the blob that the update names is what refuses the second commit.   *)
THEOREM OneCommit ==
  ASSUME Unpushed
  PROVE  Spec => []OneCommitPerBranch
<1>1. Inv => OneCommitPerBranch
  BY DEF Inv, BranchIsRight, Right, OneCommitPerBranch
<1> QED BY <1>1, InvHolds, PTL

(* A recorded artifact names the approved content on the reviewed base, in *)
(* its commit and in the one its pull request was opened with, when no two *)
(* calls are about the same change or nobody else commits to its branch.   *)
THEOREM RecordsAreTrue ==
  ASSUME Alone \/ Unpushed
  PROVE  Spec => []RecordedArtifactIsTheChange
<1>1. ASSUME Inv PROVE RecordedArtifactIsTheChange
  <2> SUFFICES ASSUME NEW ch \in Change, Recorded(ch)
               PROVE  /\ ChangeOf[artifact[ch].proposal] = ch
                      /\ \A n \in {artifact[ch].commit, pulls[ch][artifact[ch].pull].commit} :
                           commits[n] = [parent |-> BaseOf[ch], content |-> "proposed"]
    BY DEF RecordedArtifactIsTheChange
  <2>1. TypeOK /\ PullsAreRight(ch) /\ RecordIsRight(ch)
    BY <1>1 DEF Inv
  <2>2. /\ ChangeOf[artifact[ch].proposal] = ch
        /\ Right(ch, artifact[ch].commit) /\ Right(ch, pulls[ch][artifact[ch].pull].commit)
    BY <2>1 DEF PullsAreRight, RecordIsRight
  <2>3. ASSUME NEW n, Right(ch, n)
        PROVE  commits[n] = [parent |-> BaseOf[ch], content |-> "proposed"]
    <3>1. commits[n] \in [parent : CommitSha, content : Content]
      BY <2>1, <2>3, ElementOfSeq DEF TypeOK, Right, Known
    <3> QED BY <2>3, <3>1 DEF Right
  <2> QED BY <2>2, <2>3
<1> QED BY <1>1, InvHolds, PTL

-----------------------------------------------------------------------------
(* What a call is told.                                                    *)

(* A file that is as proposed where it should not be, or not where it      *)
(* should, and a commit that is not straight on the base.                  *)
FileRefused(c) ==
  LET ch == ChangeBy(c) IN
  /\ call[c].step = "reading file"
  /\ branch[ch] # Missing
  /\ (FileAt(ch, branch[ch]) = "proposed") = (call[c].branchHead = BaseOf[ch])

ParentRefused(c) ==
  /\ call[c].step = "reading parent"
  /\ ParentOf(call[c].branchHead) # BaseOf[ChangeBy(c)]

(* Only the checks that are made of a branch, and the store, end a call in *)
(* a conflict.                                                             *)
LEMMA HowCallsEnd ==
  ASSUME Inv, Next, NEW c \in Call, call'[c].step # call[c].step
  PROVE  /\ call'[c].step = "branch conflict" => FileRefused(c) \/ ParentRefused(c)
         /\ call'[c].step = "record conflict" => RecordCreated(c)
<1>1. call \in [Call -> CallState] /\ call[c] \in CallState
  BY DEF Inv, TypeOK
<1>2. ASSUME NEW d \in Call, CallStep(d) \/ Fail(d), d # c
      PROVE  call'[c] = call[c]
  BY <1>1, <1>2
  DEF CallStep, LoadProposal, FindCreated, CheckBase, FindBranch, CreateBranch, FindRacedBranch,
      ReadFile, ReadFirstParent, WriteFile, ListPulls, OpenPull, RecordCreated, Fail, Goes, Ends
<1>3. CallStep(c) \/ Fail(c)
  <2>1. CASE \E d \in Call : CallStep(d) \/ Fail(d)
    BY <1>2, <2>1
  <2>2. CASE UNCHANGED call
    BY <2>2
  <2> QED BY <2>1, <2>2 DEF Next, DefaultBranchMoves, EligibilityChanges, Push, Close, Merge,
                            DeleteBranch
<1>4. ASSUME NEW how, call' = [call EXCEPT ![c] = At(how)]
      PROVE  call'[c].step = how
  <2>1. At(how).step = how
    BY DEF At
  <2> QED BY <1>1, <1>4, <2>1
<1>5. ASSUME NEW step, call' = [call EXCEPT ![c].step = step]
      PROVE  call'[c].step = step
  BY <1>1, <1>5 DEF CallState
<1>6. LoadProposal(c) => call'[c].step \in {"finding", "unavailable"}
  BY <1>4 DEF LoadProposal
<1>7. Fail(c) => call'[c].step = "failed"
  BY <1>4 DEF Fail
<1>8. FindCreated(c) => call'[c].step \in {"returned", "checking base"}
  BY <1>4, <1>5 DEF FindCreated, Goes, Ends
<1>9. CheckBase(c) => call'[c].step \in {"creating", "finding branch", "listing pulls", "stale"}
  <2> SUFFICES ASSUME CheckBase(c)
               PROVE  call'[c].step \in {"creating", "finding branch", "listing pulls", "stale"}
    OBVIOUS
  <2>1. PICK s \in {<<"checking base", "creating">>, <<"creating", "finding branch">>,
                    <<"rechecking base", "listing pulls">>} :
          call' = [call EXCEPT ![c].step = s[2]] \/ call' = [call EXCEPT ![c] = At("stale")]
    BY DEF CheckBase, Goes, Ends
  <2>2. s[2] \in {"creating", "finding branch", "listing pulls"}
    <3>1. CASE s = <<"checking base", "creating">>
      BY ONLY <3>1
    <3>2. CASE s = <<"creating", "finding branch">>
      BY ONLY <3>2
    <3>3. CASE s = <<"rechecking base", "listing pulls">>
      BY ONLY <3>3
    <3> QED BY <3>1, <3>2, <3>3
  <2>3. call'[c].step = s[2] \/ call'[c].step = "stale"
    BY <1>4, <1>5, <2>1
  <2> QED BY <2>2, <2>3
<1>10. ASSUME FindBranch(c)
       PROVE  call'[c].step \in {"creating branch", "reading file"}
  <2> DEFINE ch == ChangeBy(c)
             x == [call[c] EXCEPT !.step = IF branch[ch] = Missing THEN "creating branch" ELSE "reading file",
                              !.branchHead = branch[ch]]
  <2>1. call' = [call EXCEPT ![c] = x]
    BY <1>1, <1>10 DEF FindBranch
  <2>2. x.step \in {"creating branch", "reading file"}
    BY <1>1 DEF CallState
  <2> HIDE DEF x
  <2> QED BY <1>1, <2>1, <2>2
<1>11. ASSUME FindRacedBranch(c)
       PROVE  call'[c].step \in {"rejected", "reading file"}
  <2> DEFINE ch == ChangeBy(c)
             x == IF branch[ch] = Missing THEN At("rejected")
                  ELSE [call[c] EXCEPT !.step = "reading file", !.branchHead = branch[ch]]
  <2>1. call' = [call EXCEPT ![c] = x]
    BY <1>1, <1>11 DEF FindRacedBranch
  <2>2. x.step \in {"rejected", "reading file"}
    BY <1>1 DEF CallState, At
  <2> HIDE DEF x
  <2> QED BY <1>1, <2>1, <2>2
<1>12. ASSUME CreateBranch(c)
       PROVE  call'[c].step \in {"reading file", "finding raced branch"}
  <2> DEFINE ch == ChangeBy(c)
             x == [call[c] EXCEPT !.step = "reading file", !.branchHead = BaseOf[ch]]
  <2>1. call' = [call EXCEPT ![c] = x] \/ call' = [call EXCEPT ![c].step = "finding raced branch"]
    BY <1>1, <1>12 DEF CreateBranch, Goes
  <2>2. x.step = "reading file"
    BY <1>1 DEF CallState
  <2> HIDE DEF x
  <2> QED BY <1>1, <1>4, <1>5, <2>1, <2>2
<1>13. ASSUME ReadFile(c)
       PROVE  /\ call'[c].step \in {"rejected", "branch conflict", "writing file", "reading parent"}
              /\ call'[c].step = "branch conflict" => FileRefused(c)
  <2> DEFINE ch == ChangeBy(c)
             x == IF branch[ch] = Missing THEN At("rejected")
                  ELSE IF (FileAt(ch, branch[ch]) = "proposed") = (call[c].branchHead = BaseOf[ch])
                    THEN At("branch conflict")
                  ELSE [call[c] EXCEPT !.step = IF call[c].branchHead = BaseOf[ch]
                                                  THEN "writing file" ELSE "reading parent",
                                       !.file = FileAt(ch, branch[ch])]
  <2>1. call' = [call EXCEPT ![c] = x]
    BY <1>1, <1>13 DEF ReadFile
  <2>2. /\ x.step \in {"rejected", "branch conflict", "writing file", "reading parent"}
        /\ x.step = "branch conflict" => FileRefused(c)
    BY <1>1, <1>13 DEF CallState, At, FileRefused, ReadFile
  <2> HIDE DEF x
  <2> QED BY <1>1, <2>1, <2>2
<1>14. ASSUME ReadFirstParent(c)
       PROVE  /\ call'[c].step \in {"branch conflict", "rechecking base"}
              /\ call'[c].step = "branch conflict" => ParentRefused(c)
  <2> DEFINE ch == ChangeBy(c)
             x == IF ParentOf(call[c].branchHead) = BaseOf[ch]
                    THEN [call[c] EXCEPT !.step = "rechecking base", !.commit = call[c].branchHead]
                  ELSE At("branch conflict")
  <2>1. call' = [call EXCEPT ![c] = x]
    BY <1>1, <1>14 DEF ReadFirstParent
  <2>2. /\ x.step \in {"branch conflict", "rechecking base"}
        /\ x.step = "branch conflict" => ParentRefused(c)
    BY <1>1, <1>14 DEF CallState, At, ParentRefused, ReadFirstParent
  <2> HIDE DEF x
  <2> QED BY <1>1, <2>1, <2>2
<1>15. ASSUME WriteFile(c)
       PROVE  call'[c].step \in {"rechecking base", "rejected"}
  <2> DEFINE ch == ChangeBy(c)
             x == [call[c] EXCEPT !.step = "rechecking base", !.commit = Len(commits) + 1]
  <2>1. call' = [call EXCEPT ![c] = x] \/ call' = [call EXCEPT ![c] = At("rejected")]
    BY <1>1, <1>15 DEF WriteFile, Ends
  <2>2. x.step = "rechecking base"
    BY <1>1 DEF CallState
  <2> HIDE DEF x
  <2> QED BY <1>1, <1>4, <1>5, <2>1, <2>2
<1>16. ASSUME ListPulls(c)
       PROVE  call'[c].step \in {"opening pull", "recording"}
  <2> DEFINE ch == ChangeBy(c)
             x == [call[c] EXCEPT !.step = IF pulls[ch] = <<>> THEN "opening pull" ELSE "recording",
                              !.pull = Len(pulls[ch])]
  <2>1. call' = [call EXCEPT ![c] = x]
    BY <1>1, <1>16 DEF ListPulls
  <2>2. x.step \in {"opening pull", "recording"}
    BY <1>1 DEF CallState
  <2> HIDE DEF x
  <2> QED BY <1>1, <2>1, <2>2
<1>17. ASSUME OpenPull(c)
       PROVE  call'[c].step \in {"recording", "rejected"}
  <2> DEFINE ch == ChangeBy(c)
             x == [call[c] EXCEPT !.step = "recording", !.pull = Len(pulls[ch]) + 1]
  <2>1. call' = [call EXCEPT ![c] = x] \/ call' = [call EXCEPT ![c] = At("rejected")]
    BY <1>1, <1>17 DEF OpenPull, Ends
  <2>2. x.step = "recording"
    BY <1>1 DEF CallState
  <2> HIDE DEF x
  <2> QED BY <1>1, <1>4, <1>5, <2>1, <2>2
<1>18. RecordCreated(c) => call'[c].step \in {"returned", "record conflict"}
  BY <1>4 DEF RecordCreated, Ends
<1> QED BY <1>3, <1>6, <1>7, <1>8, <1>9, <1>10, <1>11, <1>12, <1>13, <1>14, <1>15, <1>16, <1>17,
           <1>18 DEF CallStep

(* A call is refused for its branch only because the change is empty, or   *)
(* somebody else committed to the branch or deleted it: what its own       *)
(* earlier deliveries left behind is always taken over.                    *)
THEOREM ConflictsStayForeign ==
  ASSUME Alone
  PROVE  Spec => ConflictsAreForeign
<1> DEFINE Foreign(c) == LET ch == ChangeBy(c) IN
                         \/ ch \in NoOp
                         \/ branch[ch] = Missing
                         \/ branch[ch] \in CommitId /\ commits[branch[ch]].parent # BaseOf[ch]
           A == \A c \in Call :
                  call[c].step # "branch conflict" /\ call'[c].step = "branch conflict" => Foreign(c)
<1>1. ASSUME Inv, [Next]_vars PROVE [A]_vars
  <2> SUFFICES ASSUME Next, NEW c \in Call,
                      call[c].step # "branch conflict", call'[c].step = "branch conflict"
               PROVE  Foreign(c)
    BY <1>1
  <2>1. PICK ch \in Change : ch = ChangeBy(c)
    BY ShaOrCommit
  <2>2. FileRefused(c) \/ ParentRefused(c)
    BY <1>1, HowCallsEnd
  <2>3. /\ TypeOK /\ CommitsOnBase /\ BranchIsRight(ch) /\ Looks(c) /\ SeesItsOwn(c)
        /\ call \in [Call -> CallState] /\ call[c] \in CallState
    BY <1>1, <2>1 DEF Inv, CallIsRight, TypeOK
  <2>4. \A n : Known(n) => n \in CommitId
    BY <2>3, KnownCommits
  <2>5. CASE ParentRefused(c)
    <3>1. /\ call[c].step = "reading parent" /\ call[c].branchHead \in CommitId
          /\ ParentOf(call[c].branchHead) # BaseOf[ch]
      BY <2>1, <2>3, <2>4, <2>5 DEF ParentRefused, Looks
    <3> QED BY <2>1, <2>3, <3>1 DEF SeesItsOwn, ParentOf
  <2>6. CASE FileRefused(c)
    <3>1. /\ call[c].step = "reading file"
          /\ branch[ch] # Missing
          /\ (FileAt(ch, branch[ch]) = "proposed") = (call[c].branchHead = BaseOf[ch])
      BY <2>1, <2>6 DEF FileRefused
    <3>2. CASE call[c].branchHead = BaseOf[ch]
      <4>1. branch[ch] = BaseOf[ch] /\ branch[ch] \notin CommitId
        BY <2>1, <2>3, <3>1, <3>2, ShaOrCommit DEF SeesItsOwn
      <4> QED BY <2>1, <3>1, <3>2, <4>1 DEF FileAt
    <3>3. CASE call[c].branchHead # BaseOf[ch]
      <4>1. call[c].branchHead \in CommitId
        BY <2>1, <2>3, <2>4, <3>1, <3>3 DEF Looks
      <4>2. CASE branch[ch] = call[c].branchHead
        <5>1. Known(branch[ch]) /\ commits[branch[ch]].content # "proposed"
          BY <2>3, <3>1, <3>3, <4>1, <4>2 DEF BranchIsRight, FileAt
        <5>2. commits[branch[ch]].parent # BaseOf[ch]
          BY <2>3, <5>1, ShaOrCommit DEF CommitsOnBase, Known
        <5> QED BY <2>1, <4>1, <4>2, <5>2
      <4> QED BY <2>1, <2>3, <3>1, <4>1, <4>2 DEF SeesItsOwn
    <3> QED BY <3>2, <3>3
  <2> QED BY <2>2, <2>5, <2>6
<1>2. Spec => []Inv
  BY InvHolds
<1> QED BY <1>1, <1>2, PTL DEF Spec, ConflictsAreForeign

(* A call whose own proposal is the recorded one is never told that its    *)
(* record conflicts, when no two calls are about the same change, or when  *)
(* they are and nobody touches the pull requests.                          *)
THEOREM OwnRecordsNeverConflict ==
  ASSUME Alone \/ ReviewerMay = {}
  PROVE  Spec => OwnRecordNeverConflicts
<1> DEFINE A == \A c \in Call :
                  call[c].step = "recording" /\ call'[c].step = "record conflict" =>
                    artifact[ChangeBy(c)].proposal # ProposalOf[c]
<1>1. ASSUME Inv, [Next]_vars PROVE [A]_vars
  <2> SUFFICES ASSUME Next, NEW c \in Call,
                      call[c].step = "recording", call'[c].step = "record conflict",
                      artifact[ChangeBy(c)].proposal = ProposalOf[c]
               PROVE  FALSE
    BY <1>1
  <2>1. PICK ch \in Change : ch = ChangeBy(c)
    BY ShaOrCommit
  <2>2. RecordCreated(c)
    BY <1>1, HowCallsEnd
  <2>3. /\ TypeOK /\ PullsAreRight(ch) /\ RecordIsRight(ch) /\ Carries(c)
        /\ Alone => SeesItsOwn(c)
        /\ call \in [Call -> CallState] /\ artifact[ch] \in Artifact \cup {NoArtifact}
    BY <1>1, <2>1 DEF Inv, CallIsRight, TypeOK
  <2> DEFINE record == [proposal |-> ProposalOf[c], commit |-> call[c].commit, pull |-> call[c].pull]
  <2>4. Recorded(ch) /\ artifact[ch] # record
    BY <2>1, <2>2, <2>3 DEF RecordCreated, Ends, At
  <2>5. ReviewerMay = {}
    BY <2>1, <2>3, <2>4 DEF SeesItsOwn, Running
  <2>6. artifact[ch].commit = call[c].commit
    BY <2>1, <2>3, <2>4, <2>5 DEF RecordIsRight, Carries, Committed, Untouched
  <2>7. artifact[ch].pull = call[c].pull
    <3>1. artifact[ch].pull \in DOMAIN pulls[ch] /\ call[c].pull \in DOMAIN pulls[ch]
      BY <2>1, <2>3, <2>4 DEF RecordIsRight, Carries
    <3>2. Len(pulls[ch]) <= 1
      BY <2>3, <2>5 DEF PullsAreRight, Unclosed
    <3>3. DOMAIN pulls[ch] = 1..Len(pulls[ch]) /\ Len(pulls[ch]) \in Nat
      BY <2>3, PullsTyped
    <3>4. PICK last \in Nat : last = Len(pulls[ch])
      BY <3>3
    <3>5. last <= 1 /\ artifact[ch].pull \in 1..last /\ call[c].pull \in 1..last
      BY <3>1, <3>2, <3>3, <3>4
    <3> QED BY ONLY <3>4, <3>5
  <2>8. artifact[ch] \in Artifact
    BY <2>3, <2>4 DEF Recorded
  <2> QED BY <2>1, <2>4, <2>6, <2>7, <2>8 DEF Artifact
<1>2. Spec => []Inv
  BY InvHolds
<1> QED BY <1>1, <1>2, PTL DEF Spec, OwnRecordNeverConflicts

-----------------------------------------------------------------------------
(* The refinement.                                                         *)

Made(ch) == DOMAIN pulls[ch]
RecordedPulls(ch) == {artifact[ch].pull} \ {0}

(* A step that opens no pull request and records none is none of the       *)
(* contract.                                                               *)
LEMMA ContractStutters ==
  ASSUME \A ch \in Change : Made(ch)' = Made(ch), UNCHANGED artifact
  PROVE  UNCHANGED Contract!vars
BY DEF Contract!vars, Made

(* Opening a pull request is the contract's Make.                          *)
LEMMA OpenPullMakes ==
  ASSUME Inv, Alone \/ Unclosed, NEW c \in Call, OpenPull(c)
  PROVE  [Contract!Next]_(Contract!vars)
<1>1. PICK ch \in Change : ch = ChangeBy(c)
  BY ShaOrCommit
<1>2. CASE UNCHANGED pulls
  BY <1>2, ContractStutters DEF OpenPull, Made
<1>3. CASE /\ OpenPulls(ch) = {} /\ branch[ch] \in CommitId
           /\ pulls' = [pulls EXCEPT ![ch] = Append(@, [open |-> TRUE, commit |-> branch[ch]])]
  <2>0. PICK m : NextPull(ch, m)
    BY DEF NextPull
  <2>1. TypeOK /\ PullsAreRight(ch) /\ CallIsRight(c)
    BY DEF Inv
  <2>2. /\ \A k \in Change \ {ch} : pulls'[k] = pulls[k]
        /\ DOMAIN pulls'[ch] = 1..m
    BY <1>3, <2>0, <2>1, PullAdded
  <2>3. Len(pulls[ch]) = 0 /\ DOMAIN pulls[ch] = {}
    <3>1. /\ Len(pulls[ch]) \in Nat /\ DOMAIN pulls[ch] = 1..Len(pulls[ch])
          /\ pulls[ch] = <<>> => Len(pulls[ch]) = 0
      BY <2>1, PullsTyped
    <3>2. Unclosed => DOMAIN pulls[ch] = {}
      BY <1>3, <2>1 DEF PullsAreRight, OpenPulls
    <3>3. Unclosed => 1 \notin 1..Len(pulls[ch])
      BY <3>1, <3>2
    <3>4. Alone => pulls[ch] = <<>>
      BY <1>1, <2>1 DEF CallIsRight, SeesItsOwn, OpenPull
    <3>5. Len(pulls[ch]) = 0
      BY <3>1, <3>3, <3>4
    <3> QED BY <3>1, <3>5
  <2>4. Made(ch) = {} /\ Made(ch)' = {1}
    BY <2>0, <2>2, <2>3 DEF Made, NextPull
  <2>5. [k \in Change |-> Made(k)'] = [[k \in Change |-> Made(k)] EXCEPT ![ch] = {1}]
    BY <2>2, <2>4 DEF Made
  <2>6. 1 \in 1..2
    OBVIOUS
  <2>7. Contract!Make(ch)
    BY <2>4, <2>5, <2>6 DEF Contract!Make, OpenPull, Made
  <2> QED BY <2>7 DEF Contract!Next
<1> QED BY <1>1, <1>2, <1>3 DEF OpenPull

(* Recording one is the contract's Record.                                 *)
LEMMA RecordRecords ==
  ASSUME Inv, NEW c \in Call, RecordCreated(c)
  PROVE  [Contract!Next]_(Contract!vars)
<1>1. PICK ch \in Change : ch = ChangeBy(c)
  BY ShaOrCommit
<1>2. TypeOK /\ CallIsRight(c) /\ call[c].step = "recording" /\ UNCHANGED pulls
  BY DEF Inv, RecordCreated, Ends, github
<1>3. artifact \in [Change -> Artifact \cup {NoArtifact}]
  BY <1>2 DEF TypeOK
<1> DEFINE record == [proposal |-> ProposalOf[c], commit |-> call[c].commit, pull |-> call[c].pull]
<1>4. artifact' = [artifact EXCEPT ![ch] = IF Recorded(ch) THEN artifact[ch] ELSE record]
  BY <1>1 DEF RecordCreated
<1>5. CASE Recorded(ch)
  <2>1. artifact' = artifact
    BY <1>3, <1>4, <1>5
  <2> QED BY <1>2, <2>1, ContractStutters DEF Made
<1>6. CASE ~Recorded(ch)
  <2>1. PICK n \in DOMAIN pulls[ch] : n = call[c].pull
    BY <1>1, <1>2 DEF CallIsRight, Carries
  <2>2. n # 0
    <3>1. DOMAIN pulls[ch] = 1..Len(pulls[ch]) /\ Len(pulls[ch]) \in Nat
      BY <1>2, PullsTyped
    <3> QED BY <3>1
  <2>3. artifact[ch].pull = 0
    BY <1>3, <1>6 DEF Recorded, NoArtifact
  <2>4. record.pull = n
    BY <2>1
  <2> HIDE DEF record
  <2>5. artifact'[ch].pull = n /\ \A k \in Change \ {ch} : artifact'[k] = artifact[k]
    BY <1>3, <1>4, <1>6, <2>4
  <2>6. RecordedPulls(ch) = {} /\ RecordedPulls(ch)' = {n}
    BY <2>2, <2>3, <2>5 DEF RecordedPulls
  <2>7. [k \in Change |-> RecordedPulls(k)'] = [[k \in Change |-> RecordedPulls(k)] EXCEPT ![ch] = {n}]
    BY <2>5, <2>6 DEF RecordedPulls
  <2>8. \E a \in [k \in Change |-> Made(k)][ch] :
          [k \in Change |-> RecordedPulls(k)'] = [[k \in Change |-> RecordedPulls(k)] EXCEPT ![ch] = {a}]
    BY <2>1, <2>7 DEF Made
  <2>9. [k \in Change |-> RecordedPulls(k)][ch] = {}
    BY <2>6
  <2>10. [k \in Change |-> Made(k)]' = [k \in Change |-> Made(k)]
    BY <1>2 DEF Made
  <2>11. Contract!Record(ch)
    BY <2>8, <2>9, <2>10 DEF Contract!Record, Made, RecordedPulls
  <2> QED BY <2>11 DEF Contract!Next
<1> QED BY <1>5, <1>6

(* Closing pull requests takes none of them back.                          *)
LEMMA ClosingStutters ==
  ASSUME Inv, NEW ch \in Change, Close(ch) \/ Merge(ch) \/ DeleteBranch(ch)
  PROVE  UNCHANGED Contract!vars
<1>1. pulls' = [pulls EXCEPT ![ch] = Closed(@)] /\ UNCHANGED artifact
  BY DEF Close, Merge, DeleteBranch
<1>2. TypeOK
  BY DEF Inv
<1>3. DOMAIN pulls'[ch] = DOMAIN pulls[ch] /\ \A k \in Change \ {ch} : pulls'[k] = pulls[k]
  BY <1>1, <1>2, PullsClose
<1> QED BY <1>1, <1>3, ContractStutters DEF Made

(* However a call dies, is repeated or overlaps with others, its change    *)
(* gets at most one pull request, and the audit trail names that one at    *)
(* most once, after it exists, when no two calls are about the same change *)
(* or nobody closes the pull request between the list and the opening.     *)
THEOREM CreationImplementsContract ==
  ASSUME Alone \/ Unclosed
  PROVE  Spec => CreationFulfilsContract
<1>1. Init => Contract!Init
  <2> SUFFICES ASSUME Init PROVE Contract!Init
    OBVIOUS
  <2>1. \A ch \in Change : Made(ch) = {} /\ RecordedPulls(ch) = {}
    BY DEF Init, Made, RecordedPulls, NoArtifact
  <2> QED BY <2>1 DEF Contract!Init, Made, RecordedPulls
<1>2. Inv /\ [Next]_vars => [Contract!Next]_(Contract!vars)
  <2> SUFFICES ASSUME Inv, [Next]_vars PROVE [Contract!Next]_(Contract!vars)
    OBVIOUS
  <2>1. CASE \E c \in Call : OpenPull(c)
    BY <2>1, OpenPullMakes
  <2>2. CASE \E c \in Call : RecordCreated(c)
    BY <2>2, RecordRecords
  <2>3. CASE \E ch \in Change : Close(ch) \/ Merge(ch) \/ DeleteBranch(ch)
    BY <2>3, ClosingStutters
  <2>4. CASE UNCHANGED <<pulls, artifact>>
    BY <2>4, ContractStutters DEF Made
  <2> QED
    BY <2>1, <2>2, <2>3, <2>4
    DEF Next, CallStep, LoadProposal, FindCreated, CheckBase, FindBranch, CreateBranch,
        FindRacedBranch, ReadFile, ReadFirstParent, WriteFile, ListPulls, Fail,
        DefaultBranchMoves, EligibilityChanges, Push, vars, github
<1>3. Spec => []Inv
  BY InvHolds
<1> QED BY <1>1, <1>2, <1>3, PTL DEF Spec, CreationFulfilsContract, Contract!Spec
=============================================================================
