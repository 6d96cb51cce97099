------------------------ MODULE PagePublicationProofs ------------------------
(***************************************************************************)
(* Proofs about PagePublication, for any calls, proposals, baselines and   *)
(* bounds, whatever locks end early and whatever updates arrive late: no   *)
(* edit is lost, no published version goes unrecorded without a failure,   *)
(* calls under way do not overtake each other before a lock ends early,    *)
(* and the publication fulfils ArtifactContract.                           *)
(***************************************************************************)
EXTENDS PagePublication, SequenceTheorems, TLAPS

Published(p) ==
  /\ BaselineOf[p] + 1 \in DOMAIN author
  /\ author[BaselineOf[p] + 1] = p

(* A call that is about to record a block has seen a draft; one that is    *)
(* about to record an update has made it; what is recorded was published.  *)
BlockersSawDraft ==
  \A c \in Call : call[c].step = "recording block" => call[c].draft # 0

RecordersPublished ==
  \A c \in Call : call[c].step = "recording update" => Published(ProposalOf[c])

(* An update arrives late only when its call has died.                     *)
AbandonedMeansFailed == failures = 0 => abandoned = {}

ArtifactsPublished ==
  \A p \in Proposal : artifact[p] # 0 => artifact[p] = BaselineOf[p] + 1 /\ Published(p)

Inv ==
  /\ TypeOK
  /\ ProposalsFollowTheirBaseline
  /\ BlockersSawDraft
  /\ RecordersPublished
  /\ ArtifactsPublished
  /\ AbandonedMeansFailed

USE ProposalOfAssumption, MaxVersionAssumption, BaselineOfAssumption,
    PeopleAssumption, NobodyAssumption, DraftVersionAssumption,
    ScopeMayChangeAssumption, MaxFaultsAssumption

-----------------------------------------------------------------------------
(* Publishing a version adds it after those there are.                     *)
LEMMA NewVersion ==
  ASSUME TypeOK, NEW a \in Proposal \cup {People}, version < MaxVersion,
         author' = Append(author, a)
  PROVE  /\ author' \in Seq(Proposal \cup {People})
         /\ Len(author) \in Nat /\ Len(author') = Len(author) + 1
         /\ Len(author') \in 1..MaxVersion
         /\ DOMAIN author = 1..Len(author) /\ DOMAIN author' = 1..Len(author')
         /\ \A v \in DOMAIN author : author'[v] = author[v]
         /\ author'[Len(author')] = a
<1>1. author \in Seq(Proposal \cup {People}) /\ Len(author) \in 1..MaxVersion
  BY DEF TypeOK
<1> QED BY <1>1, AppendProperties DEF version

(* What was published stays published.                                     *)
LEMMA StaysPublished ==
  ASSUME TypeOK, NEW a \in Proposal \cup {People}, version < MaxVersion,
         author' = Append(author, a), NEW p \in Proposal, Published(p)
  PROVE  Published(p)'
BY NewVersion DEF Published

(* What a call does to itself leaves it, and the lock, well typed.         *)
LEMMA GoesTyped ==
  ASSUME TypeOK, NEW c \in Call, NEW from, NEW to \in Running \cup Ended, Goes(c, from, to)
  PROVE  call' \in [Call -> CallState]
BY DEF TypeOK, CallState, Goes

LEMMA ThrowsTyped ==
  ASSUME TypeOK, NEW c \in Call, NEW how \in Ended, Throws(c, how)
  PROVE  call' \in [Call -> CallState] /\ lock' \in Call \cup {Nobody}
BY DEF TypeOK, CallState, Throws, At, Released

-----------------------------------------------------------------------------
(* The invariant holds at first.                                           *)
LEMMA InitInv == Init => Inv
<1> SUFFICES ASSUME Init PROVE Inv OBVIOUS
<1>1. author \in Seq(Proposal \cup {People}) /\ Len(author) = 1
      /\ DOMAIN author = {1} /\ author[1] = People
  BY DEF Init
<1>2. TypeOK
  BY <1>1 DEF Init, TypeOK, CallState, At, Ended, Running, Locked
<1>3. ProposalsFollowTheirBaseline
  BY <1>1 DEF ProposalsFollowTheirBaseline
<1>4. BlockersSawDraft /\ RecordersPublished /\ ArtifactsPublished /\ AbandonedMeansFailed
  BY DEF Init, At, BlockersSawDraft, RecordersPublished, ArtifactsPublished,
         AbandonedMeansFailed
<1> QED BY <1>2, <1>3, <1>4 DEF Inv

(* No call comes to a recording unprepared.                                *)
Quiet ==
  \A c \in Call :
    /\ call'[c].step = "recording block" => call'[c].draft # 0
    /\ call'[c].step = "recording update" => call[c].step = "recording update"

LEMMA GoesQuietly ==
  ASSUME TypeOK, BlockersSawDraft, NEW c \in Call, NEW from, NEW to, Goes(c, from, to),
         to \notin {"recording block", "recording update"}
  PROVE  Quiet
<1>1. call \in [Call -> CallState] BY DEF TypeOK
<1>2. call' = [call EXCEPT ![c] = [call[c] EXCEPT !.step = to]] BY DEF Goes
<1>3. call[c] \in CallState BY <1>1
<1>4. call'[c].step = to BY <1>1, <1>2, <1>3 DEF CallState
<1>5. \A d \in Call \ {c} : call'[d] = call[d] BY <1>1, <1>2
<1> QED BY <1>4, <1>5 DEF Quiet, BlockersSawDraft

LEMMA ThrowsQuietly ==
  ASSUME TypeOK, BlockersSawDraft, NEW c \in Call, NEW how, Throws(c, how),
         how \notin {"recording block", "recording update"}
  PROVE  Quiet
<1>1. call'[c].step = how /\ \A d \in Call \ {c} : call'[d] = call[d]
  BY DEF Throws, At, TypeOK
<1> QED BY <1>1 DEF Quiet, BlockersSawDraft

(* A step of the calls that neither publishes nor records keeps the        *)
(* invariant when it is quiet.                                             *)
LEMMA QuietStep ==
  ASSUME Inv, UNCHANGED <<author, artifact>>, TypeOK', AbandonedMeansFailed', Quiet
  PROVE  Inv'
<1>1. ProposalsFollowTheirBaseline' /\ ArtifactsPublished'
  BY DEF Inv, ProposalsFollowTheirBaseline, ArtifactsPublished, Published
<1>2. BlockersSawDraft' /\ RecordersPublished'
  BY DEF Inv, Quiet, BlockersSawDraft, RecordersPublished, Published
<1> QED BY <1>1, <1>2 DEF Inv

(* Dead calls are counted before their updates arrive.                     *)
LEMMA FailuresCount ==
  ASSUME TypeOK, AbandonedMeansFailed, [Next]_vars
  PROVE  AbandonedMeansFailed'
<1>1. ASSUME NEW c \in Call, Fail(c) PROVE failures' # 0
  <2>1. failures \in Nat BY DEF TypeOK
  <2>2. failures' = failures + 1 BY <1>1 DEF Fail
  <2> QED BY <2>1, <2>2
<1>2. CASE UNCHANGED <<failures, abandoned>>
  BY <1>2 DEF AbandonedMeansFailed
<1> QED
  BY <1>1, <1>2
  DEF Next, CallStep, LoadProposal, AcquireLock, LockExpires, GetDraftState,
      RecordBlockedByExistingDraft, GetPage, UpdatePage, RecordPublished, Commit,
      UpdateLands, PeoplePublish, DraftChanges, ScopeChanges, AbandonedMeansFailed,
      vars, faults

LEMMA StepInv == Inv /\ [Next]_vars => Inv'
<1> SUFFICES ASSUME Inv, [Next]_vars PROVE Inv' OBVIOUS
<1> USE DEF confluence, records, faults, CallState
<1>t. /\ TypeOK
      /\ \A c \in Call : /\ call[c] \in CallState
                         /\ ProposalOf[c] \in Proposal
                         /\ Baseline(c) \in 1..MaxVersion
  BY DEF Inv, TypeOK, Baseline
<1>s. /\ Locked \subseteq Running \cup Ended
      /\ {"reading page", "recording block", "updating page", "recording update",
          "committing", "checking draft"} \subseteq Running \cup Ended
      /\ {"stale", "conflict", "rejected", "returned", "timed out", "failed"} \subseteq Ended
  BY DEF Running, Ended, Locked
<1>i. ProposalsFollowTheirBaseline /\ BlockersSawDraft /\ RecordersPublished
      /\ ArtifactsPublished
  BY DEF Inv
<1>a. AbandonedMeansFailed' BY FailuresCount DEF Inv
<1>1. ASSUME NEW c \in Call, LoadProposal(c) PROVE Inv'
  <2>1. TypeOK' BY <1>1, <1>t DEF LoadProposal, TypeOK, At, Running, Ended, Locked
  <2>2. Quiet
    <3>1. call'[c].step \in {"locking", "unavailable"}
          /\ \A d \in Call \ {c} : call'[d] = call[d]
      BY <1>1, <1>t DEF LoadProposal, At, TypeOK
    <3> QED BY <3>1, <1>i DEF Quiet, BlockersSawDraft
  <2> QED BY <1>1, <2>1, <2>2, <1>a, QuietStep DEF LoadProposal
<1>2. ASSUME NEW c \in Call, AcquireLock(c) PROVE Inv'
  <2>1. call' \in [Call -> CallState] BY <1>2, <1>s, <1>t, GoesTyped DEF AcquireLock
  <2>2. TypeOK' BY <1>2, <2>1, <1>t DEF AcquireLock, TypeOK
  <2>3. Quiet BY <1>2, <1>t, <1>i, GoesQuietly DEF AcquireLock
  <2> QED BY <1>2, <2>2, <2>3, <1>a, QuietStep DEF AcquireLock
<1>3. ASSUME NEW c \in Call, LockExpires(c) PROVE Inv'
  <2>1. TypeOK' BY <1>3, <1>t DEF LockExpires, TypeOK
  <2>2. Quiet BY <1>3, <1>i DEF LockExpires, Quiet, BlockersSawDraft
  <2> QED BY <1>3, <2>1, <2>2, <1>a, QuietStep DEF LockExpires
<1>4. ASSUME NEW c \in Call, GetDraftState(c) PROVE Inv'
  <2>0. call' \in [Call -> CallState]
    <3>1. [step |-> IF draft = 0 THEN "reading page" ELSE "recording block",
           draft |-> draft] \in CallState
      BY <1>s, <1>t DEF TypeOK
    <3> QED BY <1>4, <3>1, <1>t DEF GetDraftState, TypeOK
  <2>1. TypeOK' BY <1>4, <2>0, <1>t DEF GetDraftState, TypeOK
  <2>2. Quiet
    <3>1. /\ call'[c].step = "recording block" => call'[c].draft # 0
          /\ call'[c].step # "recording update"
          /\ \A d \in Call \ {c} : call'[d] = call[d]
      BY <1>4, <1>t DEF GetDraftState, TypeOK
    <3> QED BY <3>1, <1>i DEF Quiet, BlockersSawDraft
  <2> QED BY <1>4, <2>1, <2>2, <1>a, QuietStep DEF GetDraftState
<1>5. ASSUME NEW c \in Call, RecordBlockedByExistingDraft(c) PROVE Inv'
  <2>1. call[c].draft \in DraftVersion
    BY <1>5, <1>t, <1>i DEF RecordBlockedByExistingDraft, Goes, BlockersSawDraft
  <2>2. call' \in [Call -> CallState]
    BY <1>5, <1>s, <1>t, GoesTyped DEF RecordBlockedByExistingDraft
  <2>3. blocked' \subseteq Proposal \X DraftVersion
    <3>1. <<ProposalOf[c], call[c].draft>> \in Proposal \X DraftVersion
      BY <2>1, <1>t
    <3> QED BY <1>5, <3>1, <1>t DEF RecordBlockedByExistingDraft, TypeOK
  <2>4. TypeOK' BY <1>5, <1>t, <2>2, <2>3 DEF RecordBlockedByExistingDraft, TypeOK
  <2>5. Quiet BY <1>5, <1>t, <1>i, GoesQuietly DEF RecordBlockedByExistingDraft
  <2> QED BY <1>5, <2>4, <2>5, <1>a, QuietStep DEF RecordBlockedByExistingDraft
<1>6. ASSUME NEW c \in Call, GetPage(c) PROVE Inv'
  <2>0. call' \in [Call -> CallState] /\ lock' \in Call \cup {Nobody}
    BY <1>6, <1>s, <1>t, GoesTyped, ThrowsTyped DEF GetPage, TypeOK
  <2>1. TypeOK' BY <1>6, <2>0, <1>t DEF GetPage, TypeOK
  <2>2. Quiet
    <3>1. \/ Throws(c, "stale") \/ Throws(c, "conflict")
          \/ Goes(c, "reading page", "updating page")
      BY <1>6 DEF GetPage
    <3> QED BY <3>1, <1>t, <1>i, GoesQuietly, ThrowsQuietly
  <2> QED BY <1>6, <2>1, <2>2, <1>a, QuietStep DEF GetPage
<1>7. ASSUME NEW c \in Call, UpdatePage(c) PROVE Inv'
  <2>1. CASE Throws(c, "rejected") /\ author' = author
    <3>0. call' \in [Call -> CallState] /\ lock' \in Call \cup {Nobody}
      BY <2>1, <1>s, <1>t, ThrowsTyped
    <3>1. TypeOK' BY <1>7, <2>1, <3>0, <1>t DEF UpdatePage, TypeOK
    <3>2. Quiet BY <2>1, <1>t, <1>i, ThrowsQuietly
    <3> QED BY <1>7, <2>1, <3>1, <3>2, <1>a, QuietStep DEF UpdatePage
  <2>2. CASE /\ version = Baseline(c) /\ version < MaxVersion
             /\ author' = Append(author, ProposalOf[c])
             /\ Goes(c, "updating page", "recording update") /\ lock' = lock
    <3>1. /\ author' \in Seq(Proposal \cup {People})
          /\ Len(author) = Baseline(c) /\ Len(author') = Baseline(c) + 1
          /\ Len(author') \in 1..MaxVersion
          /\ DOMAIN author = 1..Baseline(c) /\ DOMAIN author' = 1..(Baseline(c) + 1)
          /\ \A v \in DOMAIN author : author'[v] = author[v]
          /\ author'[Baseline(c) + 1] = ProposalOf[c]
      BY <2>2, <1>t, NewVersion DEF version
    <3>0. call' \in [Call -> CallState]
      BY <2>2, <1>s, <1>t, GoesTyped
    <3>2. TypeOK' BY <1>7, <2>2, <3>0, <3>1, <1>t DEF UpdatePage, TypeOK
    <3>3. ProposalsFollowTheirBaseline'
      BY <3>1, <1>t, <1>i DEF ProposalsFollowTheirBaseline, Baseline
    <3>4. BlockersSawDraft'
      BY <2>2, <1>t, <1>i DEF Goes, BlockersSawDraft, TypeOK
    <3>5. \A p \in Proposal : Published(p) => Published(p)'
      BY <2>2, <1>t, StaysPublished
    <3>6. Published(ProposalOf[c])'
      BY <3>1, <1>t DEF Published, Baseline
    <3>7. RecordersPublished'
      BY <2>2, <3>5, <3>6, <1>t, <1>i DEF Goes, RecordersPublished, TypeOK
    <3>8. ArtifactsPublished'
      BY <1>7, <3>5, <1>i DEF UpdatePage, ArtifactsPublished
    <3> QED BY <1>a, <3>2, <3>3, <3>4, <3>7, <3>8 DEF Inv
  <2> QED BY <1>7, <2>1, <2>2 DEF UpdatePage
<1>8. ASSUME NEW c \in Call, RecordPublished(c) PROVE Inv'
  <2>1. CASE Throws(c, "rejected") /\ artifact' = artifact
    <3>0. call' \in [Call -> CallState] /\ lock' \in Call \cup {Nobody}
      BY <2>1, <1>s, <1>t, ThrowsTyped
    <3>1. TypeOK' BY <1>8, <2>1, <3>0, <1>t DEF RecordPublished, TypeOK
    <3>2. Quiet BY <2>1, <1>t, <1>i, ThrowsQuietly
    <3> QED BY <1>8, <2>1, <3>1, <3>2, <1>a, QuietStep DEF RecordPublished
  <2>2. CASE /\ artifact' = [artifact EXCEPT ![ProposalOf[c]] = Baseline(c) + 1]
             /\ Goes(c, "recording update", "committing") /\ lock' = lock
    <3>1. Published(ProposalOf[c])
      BY <2>2, <1>i DEF Goes, RecordersPublished
    <3>2. Baseline(c) + 1 \in 1..MaxVersion
      BY <3>1, <1>t DEF Published, Baseline, TypeOK
    <3>0. call' \in [Call -> CallState]
      BY <2>2, <1>s, <1>t, GoesTyped
    <3>7. artifact' \in [Proposal -> 0..MaxVersion]
      <4>1. Baseline(c) + 1 \in 0..MaxVersion BY <3>2
      <4> QED BY <2>2, <4>1, <1>t DEF TypeOK
    <3>3. TypeOK'
      BY <1>8, <2>2, <3>0, <3>7, <1>t DEF RecordPublished, TypeOK
    <3>4. ProposalsFollowTheirBaseline'
      BY <1>8, <1>i DEF RecordPublished, ProposalsFollowTheirBaseline
    <3>5. BlockersSawDraft' /\ RecordersPublished'
      BY <1>8, <2>2, <1>t, <1>i
      DEF RecordPublished, Goes, BlockersSawDraft, RecordersPublished, Published, TypeOK
    <3>6. ArtifactsPublished'
      BY <1>8, <2>2, <3>1, <1>t, <1>i
      DEF RecordPublished, ArtifactsPublished, Published, Baseline, TypeOK
    <3> QED BY <1>a, <3>3, <3>4, <3>5, <3>6 DEF Inv
  <2> QED BY <1>8, <2>1, <2>2 DEF RecordPublished
<1>9. ASSUME NEW c \in Call, Commit(c) PROVE Inv'
  <2>0. call' \in [Call -> CallState] /\ lock' \in Call \cup {Nobody}
    BY <1>9, <1>s, <1>t, ThrowsTyped DEF Commit
  <2>1. TypeOK' BY <1>9, <2>0, <1>t DEF Commit, TypeOK
  <2>2. Quiet BY <1>9, <1>t, <1>i, ThrowsQuietly DEF Commit
  <2> QED BY <1>9, <2>1, <2>2, <1>a, QuietStep DEF Commit
<1>10. ASSUME NEW c \in Call, Fail(c) PROVE Inv'
  <2>0. call' \in [Call -> CallState] /\ lock' \in Call \cup {Nobody}
    BY <1>10, <1>s, <1>t, ThrowsTyped DEF Fail
  <2>1. TypeOK'
    <3>1. abandoned' \subseteq Proposal /\ late' \subseteq abandoned'
      BY <1>10, <1>t DEF Fail, TypeOK
    <3>2. /\ failures' = failures + 1 /\ expiries' = expiries
          /\ failures + expiries < MaxFaults
      BY <1>10 DEF Fail
    <3>3. failures \in 0..MaxFaults /\ expiries \in 0..MaxFaults
      BY <1>t DEF TypeOK
    <3>4. failures' \in 0..MaxFaults /\ expiries' \in 0..MaxFaults
      BY <3>2, <3>3
    <3> QED BY <1>10, <2>0, <3>1, <3>4, <1>t DEF Fail, TypeOK
  <2>2. Quiet BY <1>10, <1>t, <1>i, ThrowsQuietly DEF Fail
  <2> QED BY <1>10, <2>1, <2>2, <1>a, QuietStep DEF Fail
<1>11. CASE PeoplePublish
  <2>1. /\ author' \in Seq(Proposal \cup {People})
        /\ Len(author) \in Nat /\ Len(author') = Len(author) + 1
        /\ Len(author') \in 1..MaxVersion
        /\ DOMAIN author = 1..Len(author) /\ DOMAIN author' = 1..Len(author')
        /\ \A v \in DOMAIN author : author'[v] = author[v]
        /\ author'[Len(author')] = People
    BY <1>11, <1>t, NewVersion DEF PeoplePublish
  <2>2. TypeOK'
    BY <1>11, <2>1, <1>t DEF PeoplePublish, TypeOK
  <2>3. ProposalsFollowTheirBaseline'
    BY <2>1, <1>i DEF ProposalsFollowTheirBaseline
  <2>4. \A p \in Proposal : Published(p) => Published(p)'
    BY <1>11, <1>t, StaysPublished DEF PeoplePublish
  <2>5. BlockersSawDraft' /\ RecordersPublished' /\ ArtifactsPublished'
    BY <1>11, <2>4, <1>t, <1>i
    DEF PeoplePublish, BlockersSawDraft, RecordersPublished, ArtifactsPublished
  <2> QED BY <1>a, <2>2, <2>3, <2>5 DEF Inv
<1>12. CASE DraftChanges
  <2>1. TypeOK' BY <1>12, <1>t DEF DraftChanges, TypeOK
  <2>2. Quiet BY <1>12, <1>i DEF DraftChanges, Quiet, BlockersSawDraft
  <2> QED BY <1>12, <2>1, <2>2, <1>a, QuietStep DEF DraftChanges
<1>13. CASE ScopeChanges
  <2>1. TypeOK' BY <1>13, <1>t DEF ScopeChanges, TypeOK
  <2>2. Quiet BY <1>13, <1>i DEF ScopeChanges, Quiet, BlockersSawDraft
  <2> QED BY <1>13, <2>1, <2>2, <1>a, QuietStep DEF ScopeChanges
<1>14. CASE UNCHANGED vars
  <2>1. TypeOK' BY <1>14, <1>t DEF vars, TypeOK
  <2>2. Quiet BY <1>14, <1>i DEF vars, Quiet, BlockersSawDraft
  <2> QED BY <1>14, <2>1, <2>2, <1>a, QuietStep DEF vars
<1>15. ASSUME NEW p \in Proposal, UpdateLands(p) PROVE Inv'
  <2>1. /\ author' \in Seq(Proposal \cup {People})
        /\ Len(author) = BaselineOf[p] /\ Len(author') = BaselineOf[p] + 1
        /\ Len(author') \in 1..MaxVersion
        /\ DOMAIN author = 1..BaselineOf[p] /\ DOMAIN author' = 1..(BaselineOf[p] + 1)
        /\ \A v \in DOMAIN author : author'[v] = author[v]
        /\ author'[BaselineOf[p] + 1] = p
    BY <1>15, <1>t, NewVersion DEF UpdateLands, version
  <2>2. TypeOK'
    BY <1>15, <2>1, <1>t DEF UpdateLands, TypeOK
  <2>3. ProposalsFollowTheirBaseline'
    BY <2>1, <1>i DEF ProposalsFollowTheirBaseline
  <2>4. \A q \in Proposal : Published(q) => Published(q)'
    BY <1>15, <1>t, StaysPublished DEF UpdateLands
  <2>5. BlockersSawDraft' /\ RecordersPublished' /\ ArtifactsPublished'
    BY <1>15, <2>4, <1>t, <1>i
    DEF UpdateLands, BlockersSawDraft, RecordersPublished, ArtifactsPublished
  <2> QED BY <1>a, <2>2, <2>3, <2>5 DEF Inv
<1> QED BY <1>1, <1>2, <1>3, <1>4, <1>5, <1>6, <1>7, <1>8, <1>9, <1>10,
           <1>11, <1>12, <1>13, <1>14, <1>15 DEF Next, CallStep

LEMMA InvHolds == Spec => []Inv
BY InitInv, StepInv, PTL DEF Spec

(* Every reachable state of the publication is well typed.                 *)
THEOREM PublicationTypeCorrect == Spec => []TypeOK
<1>1. Inv => TypeOK BY DEF Inv
<1> QED BY <1>1, InvHolds, PTL

(* No edit is lost: what a proposal publishes directly follows the version *)
(* it was reviewed against.                                                *)
THEOREM NoEditIsLost == Spec => []ProposalsFollowTheirBaseline
<1>1. Inv => ProposalsFollowTheirBaseline BY DEF Inv
<1> QED BY <1>1, InvHolds, PTL

-----------------------------------------------------------------------------
(* Records without failures.                                               *)

(* The versions are numbers.                                               *)
LEMMA VersionsTyped ==
  ASSUME TypeOK
  PROVE  /\ Len(author) \in Nat /\ version \in Nat /\ version = Len(author)
         /\ \A c \in Call : Baseline(c) \in Nat \ {0}
<1>1. Len(author) \in 1..MaxVersion BY DEF TypeOK
<1>2. Len(author) \in Nat BY <1>1
<1>3. \A c \in Call : BaselineOf[ProposalOf[c]] \in 1..MaxVersion OBVIOUS
<1> QED BY <1>2, <1>3 DEF version, Baseline

(* A call is a record.                                                     *)
LEMMA CallsTyped ==
  ASSUME TypeOK
  PROVE  call \in [Call -> CallState] /\ \A c \in Call : call[c] \in CallState
BY DEF TypeOK

(* Faults stay counted.                                                    *)
LEMMA FaultsCount ==
  ASSUME TypeOK, [Next]_vars
  PROVE  /\ failures' = 0 => failures = 0 /\ \A c \in Call : ~Fail(c)
         /\ expiries' = 0 => expiries = 0 /\ \A c \in Call : ~LockExpires(c)
<1>1. failures \in Nat /\ expiries \in Nat BY DEF TypeOK
<1>2. ASSUME NEW c \in Call, Fail(c) PROVE failures' = failures + 1 /\ expiries' = expiries
  BY <1>2 DEF Fail
<1>3. ASSUME NEW c \in Call, LockExpires(c)
      PROVE  failures' = failures /\ expiries' = expiries + 1
  BY <1>3 DEF LockExpires
<1>4. \/ \E c \in Call : Fail(c) \/ LockExpires(c)
      \/ failures' = failures /\ expiries' = expiries
  BY DEF Next, CallStep, LoadProposal, AcquireLock, GetDraftState,
         RecordBlockedByExistingDraft, GetPage, UpdatePage, RecordPublished, Commit,
         UpdateLands, PeoplePublish, DraftChanges, ScopeChanges, vars, faults
<1>5. /\ \A c \in Call : Fail(c) => failures' # 0 /\ expiries' = expiries
      /\ \A c \in Call : LockExpires(c) => expiries' # 0 /\ failures' = failures
  BY <1>1, <1>2, <1>3
<1> QED BY <1>4, <1>5

(* Only by recording, or by failing, a call ends its recording.            *)
LEMMA RecordersStay ==
  ASSUME TypeOK, [Next]_vars, NEW c \in Call, call[c].step = "recording update",
         failures' = 0
  PROVE  call'[c] = call[c] \/ RecordPublished(c)
<1> USE DEF TypeOK, Goes, Throws
<1>1. ASSUME NEW d \in Call, LoadProposal(d) \/ AcquireLock(d) \/ LockExpires(d)
      PROVE  call'[c] = call[c]
  BY <1>1 DEF LoadProposal, AcquireLock, LockExpires, Ended
<1>2. ASSUME NEW d \in Call, GetDraftState(d) \/ RecordBlockedByExistingDraft(d)
      PROVE  call'[c] = call[c]
  BY <1>2 DEF GetDraftState, RecordBlockedByExistingDraft
<1>3. ASSUME NEW d \in Call, GetPage(d) \/ UpdatePage(d) \/ Commit(d)
      PROVE  call'[c] = call[c]
  BY <1>3 DEF GetPage, UpdatePage, Commit
<1>4. ASSUME NEW d \in Call, RecordPublished(d)
      PROVE  call'[c] = call[c] \/ RecordPublished(c)
  BY <1>4 DEF RecordPublished
<1>5. \A d \in Call : ~Fail(d) BY FaultsCount
<1>6. CASE \/ PeoplePublish \/ DraftChanges \/ ScopeChanges \/ UNCHANGED vars
           \/ \E p \in Proposal : UpdateLands(p)
  BY <1>6 DEF PeoplePublish, DraftChanges, ScopeChanges, UpdateLands, vars
<1> QED BY <1>1, <1>2, <1>3, <1>4, <1>5, <1>6 DEF Next, CallStep

(* Until a call died, only an update adds a version of a proposal, and its *)
(* call records it.                                                        *)
LEMMA PublishersRecord ==
  ASSUME Inv, [Next]_vars, failures = 0, NEW p \in Proposal,
         \E v \in DOMAIN author' : author'[v] = p
  PROVE  \/ \E v \in DOMAIN author : author[v] = p
         \/ \E c \in Call : ProposalOf[c] = p /\ call'[c].step = "recording update"
<1> USE DEF confluence
<1>t. TypeOK /\ call \in [Call -> CallState] /\ \A c \in Call : call[c] \in CallState
  BY CallsTyped DEF Inv
<1>1. CASE author' = author BY <1>1
<1>2. ASSUME NEW c \in Call, UpdatePage(c), author' # author
      PROVE  \/ \E v \in DOMAIN author : author[v] = p
             \/ ProposalOf[c] = p /\ call'[c].step = "recording update"
  <2>1. /\ version < MaxVersion
        /\ author' = Append(author, ProposalOf[c])
        /\ Goes(c, "updating page", "recording update")
    BY <1>2 DEF UpdatePage
  <2>2. call'[c].step = "recording update" BY <1>t, <2>1 DEF Goes, CallState
  <2>3. /\ \A v \in DOMAIN author : author'[v] = author[v]
        /\ DOMAIN author = 1..Len(author) /\ DOMAIN author' = 1..Len(author')
        /\ Len(author) \in Nat /\ Len(author') = Len(author) + 1
        /\ author'[Len(author')] = ProposalOf[c]
    BY <1>t, <2>1, NewVersion
  <2>4. PICK v \in DOMAIN author' : author'[v] = p OBVIOUS
  <2>5. v \in DOMAIN author \/ v = Len(author') BY <2>3, <2>4
  <2> QED BY <2>2, <2>3, <2>4, <2>5
<1>3. CASE PeoplePublish
  <2>1. /\ \A v \in DOMAIN author : author'[v] = author[v]
        /\ DOMAIN author = 1..Len(author) /\ DOMAIN author' = 1..Len(author')
        /\ Len(author) \in Nat /\ Len(author') = Len(author) + 1
        /\ author'[Len(author')] = People
    BY <1>3, <1>t, NewVersion DEF PeoplePublish
  <2>2. PICK v \in DOMAIN author' : author'[v] = p OBVIOUS
  <2>3. v \in DOMAIN author \/ v = Len(author') BY <2>1, <2>2
  <2> QED BY <2>1, <2>2, <2>3
<1>4. \A q \in Proposal : ~UpdateLands(q)
  BY DEF Inv, AbandonedMeansFailed, UpdateLands
<1> QED
  BY <1>1, <1>2, <1>3, <1>4
  DEF Next, CallStep, LoadProposal, AcquireLock, LockExpires, GetDraftState,
      RecordBlockedByExistingDraft, GetPage, RecordPublished, Commit, Fail,
      DraftChanges, ScopeChanges, vars, records

(* Without a failure, every published version is recorded or a call is     *)
(* about to record it, whatever locks expire.                              *)
THEOREM PublishedMeansRecorded == Spec => []UnrecordedOnlyAfterFailure
<1>1. Init => UnrecordedOnlyAfterFailure
  <2> SUFFICES ASSUME Init PROVE \A v \in DOMAIN author : author[v] \notin Proposal
    BY DEF UnrecordedOnlyAfterFailure
  <2>1. DOMAIN author = {1} /\ author[1] = People BY DEF Init
  <2> QED BY <2>1
<1>2. Inv /\ UnrecordedOnlyAfterFailure /\ [Next]_vars => UnrecordedOnlyAfterFailure'
  <2> SUFFICES ASSUME Inv, UnrecordedOnlyAfterFailure, [Next]_vars, failures' = 0,
                      NEW p \in Proposal, artifact'[p] = 0,
                      \E v \in DOMAIN author' : author'[v] = p
               PROVE  \E c \in Call : /\ ProposalOf[c] = p
                                      /\ call'[c].step = "recording update"
    BY DEF UnrecordedOnlyAfterFailure
  <2>1. failures = 0 BY FaultsCount DEF Inv
  <2>2. artifact[p] = 0 /\ \A c \in Call : RecordPublished(c) => ProposalOf[c] # p
    <3>1. artifact' = artifact \/ \E c \in Call : RecordPublished(c)
      BY DEF Next, CallStep, LoadProposal, AcquireLock, LockExpires, GetDraftState,
             RecordBlockedByExistingDraft, GetPage, UpdatePage, Commit, Fail,
             UpdateLands, PeoplePublish, DraftChanges, ScopeChanges, vars, records
    <3>2. ASSUME NEW c \in Call, RecordPublished(c)
          PROVE  artifact[p] = 0 /\ ProposalOf[c] # p
      <4>1. /\ artifact \in [Proposal -> 0..MaxVersion]
            /\ Baseline(c) \in 1..MaxVersion /\ ProposalOf[c] \in Proposal
        BY DEF Inv, TypeOK, Baseline
      <4>2. CASE artifact' = artifact /\ artifact[ProposalOf[c]] # 0
        BY <4>2
      <4>3. CASE artifact' = [artifact EXCEPT ![ProposalOf[c]] = Baseline(c) + 1]
        BY <4>1, <4>3
      <4> QED BY <3>2, <4>2, <4>3 DEF RecordPublished
    <3> QED BY <3>1, <3>2
  <2>3. CASE \E v \in DOMAIN author : author[v] = p
    <3>1. PICK c \in Call : ProposalOf[c] = p /\ call[c].step = "recording update"
      BY <2>1, <2>2, <2>3 DEF UnrecordedOnlyAfterFailure
    <3>2. call'[c] = call[c]
      BY <2>2, <3>1, RecordersStay DEF Inv
    <3> QED BY <3>1, <3>2
  <2> QED BY <2>1, <2>3, PublishersRecord
<1>3. Spec => []Inv BY InvHolds
<1> QED BY <1>1, <1>2, <1>3, PTL DEF Spec

-----------------------------------------------------------------------------
(* Calls do not overtake each other.                                       *)

(* Who may publish between the reading and the writing of a call.          *)
Outside == {People} \cup late

(* Until a lock ends early, the callback of a call runs only under its     *)
(* lock, and what was published since it read the page is of people or of  *)
(* an update that arrived late.                                            *)
CallbacksHoldTheLock ==
  expiries = 0 => \A c \in Call : call[c].step \in Locked => lock = c

ReadersSawBaseline ==
  expiries = 0 =>
    \A c \in Call : call[c].step = "updating page" =>
      /\ Baseline(c) <= version
      /\ Baseline(c) < version => author[Baseline(c) + 1] \in Outside

LEMMA InitHolders == Init => CallbacksHoldTheLock /\ ReadersSawBaseline
<1> SUFFICES ASSUME Init PROVE CallbacksHoldTheLock /\ ReadersSawBaseline OBVIOUS
<1>1. \A c \in Call : call[c].step = "idle" BY DEF Init, At
<1> QED BY <1>1 DEF CallbacksHoldTheLock, ReadersSawBaseline, Locked

LEMMA StepHolders ==
  Inv /\ CallbacksHoldTheLock /\ [Next]_vars => CallbacksHoldTheLock'
<1> SUFFICES ASSUME TypeOK, CallbacksHoldTheLock, [Next]_vars, expiries' = 0,
                    NEW c \in Call, call'[c].step \in Locked
             PROVE  lock' = c
  BY DEF Inv, CallbacksHoldTheLock
<1>1. expiries = 0 /\ \A d \in Call : ~LockExpires(d) BY FaultsCount
<1>2. \A d \in Call : call[d].step \in Locked => lock = d
  BY <1>1 DEF CallbacksHoldTheLock
<1>3. call \in [Call -> CallState] BY DEF TypeOK
<1>4. ASSUME NEW d \in Call, LoadProposal(d) PROVE lock' = c
  BY <1>2, <1>3, <1>4 DEF LoadProposal, At, Locked
<1>5. ASSUME NEW d \in Call, AcquireLock(d) PROVE lock' = c
  BY <1>2, <1>3, <1>5 DEF AcquireLock, Goes
<1>6. ASSUME NEW d \in Call, NEW how \in Ended, Throws(d, how) PROVE lock' = c
  BY <1>2, <1>3, <1>6 DEF Throws, At, Released, Ended, Locked
<1>7. ASSUME NEW d \in Call, call[d].step \in Locked, UNCHANGED lock,
             \A e \in Call \ {d} : call'[e] = call[e]
      PROVE  lock' = c
  BY <1>2, <1>7
<1>8. ASSUME NEW d \in Call, CallStep(d) PROVE lock' = c
  <2>1. \/ \E how \in Ended : Throws(d, how)
        \/ /\ call[d].step \in Locked /\ UNCHANGED lock
           /\ \A e \in Call \ {d} : call'[e] = call[e]
    BY <1>3, <1>8
    DEF CallStep, GetDraftState, RecordBlockedByExistingDraft, GetPage, UpdatePage,
        RecordPublished, Commit, Goes, Locked, Ended
  <2> QED BY <1>6, <1>7, <2>1
<1>9. ASSUME NEW d \in Call, Fail(d) PROVE lock' = c
  BY <1>6, <1>9 DEF Fail, Ended
<1>10. CASE \/ PeoplePublish \/ DraftChanges \/ ScopeChanges \/ UNCHANGED vars
            \/ \E p \in Proposal : UpdateLands(p)
  BY <1>2, <1>10 DEF PeoplePublish, DraftChanges, ScopeChanges, UpdateLands, vars
<1> QED BY <1>1, <1>4, <1>5, <1>8, <1>9, <1>10 DEF Next

(* A call comes to its update by reading the page, and is rejected there   *)
(* when the page has changed.                                              *)
LEMMA Updaters ==
  ASSUME TypeOK, [Next]_vars, NEW c \in Call
  PROVE  /\ call'[c].step = "updating page" => call[c].step = "updating page" \/ GetPage(c)
         /\ call[c].step = "updating page" /\ call'[c].step = "rejected" =>
              UpdatePage(c) /\ version # Baseline(c)
<1>t. call \in [Call -> CallState] /\ \A d \in Call : call[d] \in CallState BY CallsTyped
<1>1. ASSUME NEW d \in Call, NEW to, call' = [call EXCEPT ![d].step = to], d # c
      PROVE  call'[c] = call[c]
  BY <1>1, <1>t
<1>2. ASSUME NEW d \in Call, NEW r, call' = [call EXCEPT ![d] = r], d # c
      PROVE  call'[c] = call[c]
  BY <1>2, <1>t
<1>3. ASSUME NEW d \in Call, d # c,
             LoadProposal(d) \/ AcquireLock(d) \/ CallStep(d) \/ Fail(d)
      PROVE  call'[c] = call[c]
  BY <1>1, <1>2, <1>3
  DEF LoadProposal, AcquireLock, CallStep, GetDraftState, RecordBlockedByExistingDraft,
      GetPage, UpdatePage, RecordPublished, Commit, Fail, Goes, Throws
<1>4. ASSUME LoadProposal(c) \/ AcquireLock(c)
      PROVE  call[c].step # "updating page" /\ call'[c].step # "updating page"
  <2>1. CASE LoadProposal(c)
    BY <1>t, <2>1 DEF LoadProposal, At, Ended
  <2>2. CASE AcquireLock(c)
    BY <1>t, <2>2 DEF AcquireLock, Goes, CallState
  <2> QED BY <1>4, <2>1, <2>2
<1>5. ASSUME GetDraftState(c) \/ RecordBlockedByExistingDraft(c)
      PROVE  call[c].step # "updating page" /\ call'[c].step # "updating page"
  <2>1. CASE GetDraftState(c) BY <1>t, <2>1 DEF GetDraftState
  <2>2. CASE RecordBlockedByExistingDraft(c)
    BY <1>t, <2>2 DEF RecordBlockedByExistingDraft, Goes, CallState
  <2> QED BY <1>5, <2>1, <2>2
<1>6. ASSUME RecordPublished(c) \/ Commit(c)
      PROVE  call[c].step # "updating page" /\ call'[c].step # "updating page"
  <2>1. call[c].step \in {"recording update", "committing"}
    BY <1>6 DEF RecordPublished, Commit, Goes
  <2>2. \/ Goes(c, "recording update", "committing")
        \/ \E how \in {"rejected", "returned", "timed out"} : Throws(c, how)
    BY <1>6 DEF RecordPublished, Commit
  <2>3. call'[c].step # "updating page"
    <3>1. CASE Goes(c, "recording update", "committing")
      BY <1>t, <3>1 DEF Goes, CallState
    <3>2. CASE Throws(c, "rejected") \/ Throws(c, "returned") \/ Throws(c, "timed out")
      <4>1. CASE Throws(c, "rejected") BY <1>t, <4>1 DEF Throws, At
      <4>2. CASE Throws(c, "returned") BY <1>t, <4>2 DEF Throws, At
      <4>3. CASE Throws(c, "timed out") BY <1>t, <4>3 DEF Throws, At
      <4> QED BY <3>2, <4>1, <4>2, <4>3
    <3> QED BY <2>2, <3>1, <3>2
  <2> QED BY <2>1, <2>3
<1>7. ASSUME Fail(c) PROVE call'[c].step = "failed"
  BY <1>7, <1>t DEF Fail, Throws, At
<1>8. ASSUME GetPage(c) PROVE call[c].step # "updating page"
  BY <1>8 DEF GetPage
<1>9. ASSUME UpdatePage(c)
      PROVE  call'[c].step # "updating page"
             /\ (call'[c].step = "rejected" => version # Baseline(c))
  <2>1. CASE Goes(c, "updating page", "recording update")
    BY <1>t, <2>1 DEF Goes, CallState
  <2>2. CASE Throws(c, "rejected") /\ version # Baseline(c)
    BY <1>t, <2>2 DEF Throws, At
  <2> QED BY <1>9, <2>1, <2>2 DEF UpdatePage
<1>10. ASSUME PeoplePublish \/ DraftChanges \/ ScopeChanges \/ UNCHANGED vars
              \/ (\E d \in Call : LockExpires(d)) \/ \E p \in Proposal : UpdateLands(p)
       PROVE  call'[c] = call[c]
  BY <1>10 DEF PeoplePublish, DraftChanges, ScopeChanges, LockExpires, UpdateLands, vars
<1> QED BY <1>3, <1>4, <1>5, <1>6, <1>7, <1>8, <1>9, <1>10 DEF Next, CallStep

(* What others publish after a page was read follows what was read.        *)
LEMMA OthersFollow ==
  ASSUME TypeOK, NEW a \in (Proposal \cup {People}) \cap Outside', version < MaxVersion,
         author' = Append(author, a), Outside \subseteq Outside',
         NEW c \in Call, Baseline(c) <= version,
         Baseline(c) < version => author[Baseline(c) + 1] \in Outside
  PROVE  /\ Baseline(c) <= version'
         /\ Baseline(c) < version' => author'[Baseline(c) + 1] \in Outside'
<1>1. /\ \A v \in DOMAIN author : author'[v] = author[v]
      /\ DOMAIN author = 1..Len(author)
      /\ Len(author') = Len(author) + 1 /\ author'[Len(author')] = a
  BY NewVersion
<1>2. Baseline(c) \in Nat /\ version \in Nat BY VersionsTyped
<1>3. version' = version + 1 BY <1>1 DEF version
<1>4. CASE Baseline(c) = version
  <2>1. Baseline(c) + 1 = Len(author') BY <1>1, <1>4 DEF version
  <2> QED BY <1>1, <1>2, <1>3, <1>4, <2>1
<1>5. CASE Baseline(c) < version
  <2>1. Baseline(c) + 1 \in 1..version BY <1>2, <1>5
  <2>2. Baseline(c) + 1 \in DOMAIN author BY <1>1, <2>1 DEF version
  <2>3. author[Baseline(c) + 1] \in Outside BY <1>5
  <2>4. author'[Baseline(c) + 1] \in Outside' BY <1>1, <2>2, <2>3
  <2>5. Baseline(c) <= version' BY <1>2, <1>3, <1>5
  <2> QED BY <2>4, <2>5
<1>6. Baseline(c) = version \/ Baseline(c) < version BY <1>2
<1> QED BY <1>4, <1>5, <1>6

(* What once arrived late did.                                             *)
LEMMA LateStays ==
  ASSUME [Next]_vars
  PROVE  Outside \subseteq Outside'
BY DEF Next, CallStep, LoadProposal, AcquireLock, LockExpires, GetDraftState,
       RecordBlockedByExistingDraft, GetPage, UpdatePage, RecordPublished, Commit, Fail,
       UpdateLands, PeoplePublish, DraftChanges, ScopeChanges, vars, faults, Outside

LEMMA StaleEnds ==
  ASSUME TypeOK, NEW c \in Call, Throws(c, "stale")
  PROVE  call'[c].step = "stale"
BY CallsTyped DEF Throws, At

LEMMA Above == \A m, n \in Nat : (m <= n /\ m # n => m < n) /\ m <= m /\ ~(m < m)
OBVIOUS

LEMMA StepReaders ==
  Inv /\ CallbacksHoldTheLock /\ ReadersSawBaseline /\ [Next]_vars => ReadersSawBaseline'
<1> SUFFICES ASSUME Inv, CallbacksHoldTheLock, ReadersSawBaseline, [Next]_vars,
                    expiries' = 0, NEW c \in Call, call'[c].step = "updating page"
             PROVE  /\ Baseline(c) <= version'
                    /\ Baseline(c) < version' => author'[Baseline(c) + 1] \in Outside'
  BY DEF ReadersSawBaseline, Baseline
<1> USE DEF confluence
<1>1. expiries = 0 BY FaultsCount DEF Inv
<1>2. /\ TypeOK /\ call \in [Call -> CallState] /\ Baseline(c) \in Nat
      /\ version \in Nat /\ version = Len(author)
  <2>1. TypeOK BY DEF Inv
  <2> QED BY <2>1, VersionsTyped DEF TypeOK
<1>b. Baseline(c) \in Nat BY <1>2
<1>c. call \in [Call -> CallState] BY <1>2
<1>3. call[c].step = "updating page" \/ GetPage(c)
  BY Updaters DEF Inv
<1>4. CASE GetPage(c)
  <2>1. author' = author BY <1>4 DEF GetPage
  <2>2. MatchesBaseline(c)
    <3>1. ~Throws(c, "stale") BY <1>2, StaleEnds
    <3> QED BY <1>4, <3>1 DEF GetPage
  <2>3. version' = Baseline(c) BY <2>1, <2>2 DEF MatchesBaseline, version
  <2> QED BY <1>b, <2>3, Above
<1>5. CASE call[c].step = "updating page"
  <2>1. /\ Baseline(c) <= version
        /\ Baseline(c) < version => author[Baseline(c) + 1] \in Outside
    BY <1>1, <1>5 DEF ReadersSawBaseline
  <2>2. CASE author' = author BY <2>1, <2>2, LateStays DEF version
  <2>3. ASSUME NEW d \in Call, UpdatePage(d), author' # author PROVE FALSE
    <3>1. lock = c /\ lock = d
      BY <1>1, <1>5, <2>3 DEF CallbacksHoldTheLock, UpdatePage, Locked
    <3>2. call'[c].step = "recording update"
      <4>1. call[c] \in CallState BY CallsTyped DEF Inv
      <4>2. c = d BY <3>1
      <4>3. Goes(c, "updating page", "recording update")
        BY <2>3, <4>2 DEF UpdatePage
      <4> QED BY <1>c, <4>1, <4>3 DEF Goes, CallState
    <3> QED BY <3>2
  <2>4. CASE PeoplePublish
    <3>1. People \in Outside' BY DEF Outside
    <3> QED BY <1>2, <2>1, <2>4, <3>1, LateStays, OthersFollow DEF PeoplePublish
  <2>5. ASSUME NEW p \in Proposal, UpdateLands(p)
        PROVE  /\ Baseline(c) <= version'
               /\ Baseline(c) < version' => author'[Baseline(c) + 1] \in Outside'
    <3>1. p \in Outside' BY <2>5 DEF UpdateLands, Outside
    <3> QED BY <1>2, <2>1, <2>5, <3>1, LateStays, OthersFollow DEF UpdateLands
  <2> QED
    BY <2>2, <2>3, <2>4, <2>5
    DEF Next, CallStep, LoadProposal, AcquireLock, LockExpires, GetDraftState,
        RecordBlockedByExistingDraft, GetPage, RecordPublished, Commit, Fail,
        DraftChanges, ScopeChanges, vars
<1> QED BY <1>3, <1>4, <1>5

(* Until a lock ends under its callback, an approved call loses its update *)
(* only to people or to the late update of a dead call, never to a call    *)
(* under way.                                                              *)
THEOREM CallsDoNotOvertake == Spec => LiveCallsDoNotOvertake
<1>1. Inv /\ CallbacksHoldTheLock /\ ReadersSawBaseline /\ [Next]_vars =>
        [\A c \in Call :
           expiries = 0 /\ call[c].step = "updating page" /\ call'[c].step = "rejected" =>
             author[Baseline(c) + 1] \in {People} \cup late]_vars
  <2> SUFFICES ASSUME Inv, ReadersSawBaseline, [Next]_vars, NEW c \in Call, expiries = 0,
                      call[c].step = "updating page", call'[c].step = "rejected"
               PROVE  author[Baseline(c) + 1] \in {People} \cup late
    OBVIOUS
  <2>1. Baseline(c) \in Nat /\ version \in Nat BY VersionsTyped DEF Inv
  <2>2. version # Baseline(c) BY Updaters DEF Inv
  <2>3. Baseline(c) <= version BY DEF ReadersSawBaseline
  <2>4. Baseline(c) < version BY <2>1, <2>2, <2>3, Above
  <2> QED BY <2>4 DEF ReadersSawBaseline, Outside
<1>2. Spec => []Inv BY InvHolds
<1>3. Spec => [](CallbacksHoldTheLock /\ ReadersSawBaseline)
  BY <1>2, InitHolders, StepHolders, StepReaders, PTL DEF Spec
<1> QED BY <1>1, <1>2, <1>3, PTL DEF Spec, LiveCallsDoNotOvertake

-----------------------------------------------------------------------------
(* The refinement.                                                         *)

VersionsBy(p) == {v \in DOMAIN author : author[v] = p}
RecordedFor(p) == {artifact[p]} \ {0}

(* A step that leaves the versions and the artifacts alone is none of the  *)
(* contract.                                                               *)
LEMMA ContractStutters ==
  ASSUME UNCHANGED <<author, artifact>>
  PROVE  UNCHANGED Contract!vars
BY DEF Contract!vars

(* Publishing a version of a proposal, in time or late, is the contract's  *)
(* Make.                                                                   *)
LEMMA PublishingMakes ==
  ASSUME Inv, NEW p \in Proposal, version = BaselineOf[p], version < MaxVersion,
         author' = Append(author, p), UNCHANGED artifact
  PROVE  [Contract!Next]_(Contract!vars)
<1>1. /\ Len(author) = BaselineOf[p] /\ BaselineOf[p] \in 1..MaxVersion
      /\ BaselineOf[p] + 1 \in 1..MaxVersion
      /\ DOMAIN author = 1..BaselineOf[p] /\ DOMAIN author' = 1..(BaselineOf[p] + 1)
      /\ \A v \in DOMAIN author : author'[v] = author[v]
      /\ author'[BaselineOf[p] + 1] = p
  BY NewVersion DEF Inv, version
<1>2. VersionsBy(p) = {}
  BY <1>1 DEF Inv, ProposalsFollowTheirBaseline, VersionsBy
<1>3. VersionsBy(p)' = {BaselineOf[p] + 1}
  BY <1>1, <1>2 DEF VersionsBy
<1>4. \A q \in Proposal \ {p} : VersionsBy(q)' = VersionsBy(q)
  BY <1>1 DEF VersionsBy
<1>5. [q \in Proposal |-> VersionsBy(q)']
        = [[q \in Proposal |-> VersionsBy(q)] EXCEPT ![p] = {BaselineOf[p] + 1}]
  BY <1>1, <1>3, <1>4
<1>6. Contract!Make(p)
  BY <1>1, <1>2, <1>5 DEF Contract!Make, VersionsBy
<1> QED BY <1>6 DEF Contract!Next

LEMMA UpdateMakes ==
  ASSUME Inv, NEW c \in Call, UpdatePage(c)
  PROVE  [Contract!Next]_(Contract!vars)
<1>1. CASE author' = author
  BY <1>1, ContractStutters DEF UpdatePage, records
<1>2. CASE /\ version = Baseline(c) /\ version < MaxVersion
           /\ author' = Append(author, ProposalOf[c])
  BY <1>2, PublishingMakes DEF UpdatePage, records, Baseline
<1> QED BY <1>1, <1>2 DEF UpdatePage

(* Recording a published version is the contract's Record.                 *)
LEMMA RecordRecords ==
  ASSUME Inv, NEW c \in Call, RecordPublished(c)
  PROVE  [Contract!Next]_(Contract!vars)
<1> DEFINE p == ProposalOf[c]
<1>1. CASE artifact' = artifact
  BY <1>1, ContractStutters DEF RecordPublished, confluence
<1>2. CASE /\ artifact[p] = 0 /\ call[c].step = "recording update"
           /\ artifact' = [artifact EXCEPT ![p] = Baseline(c) + 1]
  <2>1. /\ p \in Proposal /\ Baseline(c) + 1 \in VersionsBy(p)
        /\ Baseline(c) + 1 # 0 /\ artifact \in [Proposal -> 0..MaxVersion]
    <3>1. p \in Proposal /\ Published(p) BY <1>2 DEF Inv, RecordersPublished
    <3>2. BaselineOf[p] \in 1..MaxVersion BY <3>1
    <3> QED BY <3>1, <3>2 DEF Inv, TypeOK, Published, VersionsBy, Baseline
  <2>2. RecordedFor(p) = {} /\ RecordedFor(p)' = {Baseline(c) + 1}
    BY <1>2, <2>1 DEF RecordedFor
  <2>3. \A q \in Proposal \ {p} : RecordedFor(q)' = RecordedFor(q)
    BY <1>2, <2>1 DEF RecordedFor
  <2>4. [q \in Proposal |-> RecordedFor(q)']
          = [[q \in Proposal |-> RecordedFor(q)] EXCEPT ![p] = {Baseline(c) + 1}]
    BY <2>1, <2>2, <2>3
  <2>5. [q \in Proposal |-> VersionsBy(q)]' = [q \in Proposal |-> VersionsBy(q)]
    BY DEF RecordPublished, confluence, VersionsBy
  <2>6. \E a \in [q \in Proposal |-> VersionsBy(q)][p] :
          [q \in Proposal |-> RecordedFor(q)]'
            = [[q \in Proposal |-> RecordedFor(q)] EXCEPT ![p] = {a}]
    BY <2>1, <2>4
  <2>7. [q \in Proposal |-> RecordedFor(q)][p] = {}
    BY <2>1, <2>2
  <2>8. Contract!Record(p)
    BY <2>5, <2>6, <2>7 DEF Contract!Record, VersionsBy, RecordedFor
  <2> QED BY <2>1, <2>8 DEF Contract!Next
<1> QED BY <1>1, <1>2 DEF RecordPublished

(* What people publish belongs to no proposal.                             *)
LEMMA PeopleChangeNothing ==
  ASSUME Inv, PeoplePublish
  PROVE  UNCHANGED Contract!vars
<1>1. \A p \in Proposal : VersionsBy(p)' = VersionsBy(p)
  BY NewVersion DEF Inv, PeoplePublish, VersionsBy
<1> QED BY <1>1 DEF PeoplePublish, records, Contract!vars, VersionsBy

(* Whatever dies, is repeated, arrives late or outlives its lock, a        *)
(* proposal publishes at most one version of the page, and at most one     *)
(* artifact names exactly that version, after it exists.                   *)
THEOREM PublicationImplementsContract == Spec => PublicationFulfilsContract
<1>1. Init => Contract!Init
  <2> SUFFICES ASSUME Init PROVE Contract!Init OBVIOUS
  <2>1. DOMAIN author = {1} /\ author[1] = People BY DEF Init
  <2> QED BY <2>1 DEF Init, Contract!Init
<1>2. Inv /\ [Next]_vars => [Contract!Next]_(Contract!vars)
  <2> SUFFICES ASSUME Inv, [Next]_vars PROVE [Contract!Next]_(Contract!vars) OBVIOUS
  <2>1. CASE \E c \in Call : UpdatePage(c) BY <2>1, UpdateMakes
  <2>2. CASE \E c \in Call : RecordPublished(c) BY <2>2, RecordRecords
  <2>3. CASE PeoplePublish BY <2>3, PeopleChangeNothing
  <2>4. CASE UNCHANGED <<author, artifact>> BY <2>4, ContractStutters
  <2>5. CASE \E p \in Proposal : UpdateLands(p)
    BY <2>5, PublishingMakes DEF UpdateLands, records
  <2> QED
    BY <2>1, <2>2, <2>3, <2>4, <2>5
    DEF Next, CallStep, LoadProposal, AcquireLock, LockExpires, GetDraftState,
        RecordBlockedByExistingDraft, GetPage, Commit, Fail, DraftChanges,
        ScopeChanges, vars, confluence, records, faults
<1>3. Spec => []Inv BY InvHolds
<1> QED BY <1>1, <1>2, <1>3, PTL DEF Spec, PublicationFulfilsContract, Contract!Spec

=============================================================================
